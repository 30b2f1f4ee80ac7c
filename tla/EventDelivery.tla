---------------------------- MODULE EventDelivery ----------------------------
(***************************************************************************)
(* The way of an event through the dispatcher: out of a Kafka partition by *)
(* the consumer group of each task, into an NSQ topic by a producer that   *)
(* the NSQ manager draws.  The group's offset is kept in ZooKeeper, marked *)
(* after each message and written every ten seconds and on a close; the    *)
(* manager refreshes its nodes and producers once a minute, in a goroutine *)
(* of its own.  The events here are those that the task's filter lets      *)
(* through (EventFilter), numbered by their offsets; a group has one       *)
(* consumer, and so no rebalancing.                                        *)
(***************************************************************************)
EXTENDS Naturals, FiniteSets

CONSTANTS
    Groups,     \* consumer groups, one per subscribed task
    Nsqds,      \* addresses of nsqd nodes
    Sites,      \* what nodes a dispatcher may find: answering, listed, configured
    MaxEvents,  \* bound: events written to the partition
    MaxFaults,  \* bound: crashes, timeouts, failed calls, nodes that come or go
    MaxCloses,  \* bound: closes of a group's consumer
    None

ASSUME DeliveryAssumption ==
    /\ MaxEvents \in Nat /\ MaxFaults \in Nat /\ MaxCloses \in Nat
    /\ IsFiniteSet(Nsqds)
    /\ Sites \subseteq [alive : SUBSET Nsqds, listed : SUBSET Nsqds, nsqaddrs : SUBSET Nsqds]
    /\ \A n \in 0 .. MaxEvents : n # None

VARIABLES
    written,    \* events in the partition
    stored,     \* group -> the offset in ZooKeeper, or None
    up,         \* whether the dispatcher runs
    phase,      \* group -> "closed", "joining", "open", "stalled" or "closing"
    committed,  \* group -> the tracker's lastCommittedOffset
    done,       \* group -> its highestProcessedOffset
    next,       \* group -> the event the partition's stream reads next
    last,       \* group -> lastOffset, the last event handed over, or 0
    queued,     \* group -> event -> its messages handed over and not yet marked
    stage,      \* group -> how far the first of them is: "wait", "counted", "sent"
    count,      \* group -> the number of nodes that the draw has seen
    late,       \* group -> event -> messages left to the loop of a closed consumer
    copies,     \* group -> event -> how often it is in the NSQ topic
    alive,      \* nsqd nodes that answer
    listed,     \* nsqd nodes that nsqlookupd lists
    nsqaddrs,   \* nodes given in the configuration
    nsqdNodes,  \* nodes of the last lookup
    producers,  \* nodes with a producer in the map
    todo,       \* nodes updateProducer has still to visit
    faults, closes,
    lost,       \* history: group -> events Enqueue gave up
    refused,    \* history: group -> those of them that Publish failed for on a live node
    skipped,    \* history: group -> events passed over by a start at the newest offset
    breaks,     \* history: group -> sessions that ended without a commit, streams re-established
    troubled    \* history: nodes came or went, or a lookup or a ping failed

kafka == <<written, stored>>
reader == <<committed, done, next, last, queued>>
session == <<phase, reader, stage, count, late>>
nodes == <<alive, listed, nsqaddrs>>
manager == <<nsqdNodes, producers, todo>>
bounds == <<faults, closes>>
history == <<lost, refused, skipped, breaks, troubled>>
vars == <<kafka, up, session, copies, nodes, manager, bounds, history>>

Events == 1 .. MaxEvents
Published(g) == {e \in Events : copies[g][e] > 0}
Out(g) == Published(g) \cup lost[g]
Reading(g) == phase[g] \in {"open", "stalled", "closing"}

\* Messages of the channel, by event: they are handed over in ascending order.
NoMessages == [e \in Events |-> 0]
First(messages, e) == messages[e] > 0 /\ \A f \in Events : messages[f] > 0 => e <= f
Without(messages, e) == [messages EXCEPT ![e] = @ - 1]
Unsent(g) == [e \in Events |-> IF stage[g] = "sent" /\ First(queued[g], e)
                               THEN queued[g][e] - 1 ELSE queued[g][e]]

\* There are nodes to draw from, and those listed or configured all answer.
Sound == listed \cup nsqaddrs # {} /\ listed \cup nsqaddrs \subseteq alive

Init ==
    /\ written = 0 /\ stored = [g \in Groups |-> None]
    /\ up = FALSE
    /\ phase = [g \in Groups |-> "closed"]
    /\ committed = [g \in Groups |-> 0] /\ done = [g \in Groups |-> 0]
    /\ next = [g \in Groups |-> 0] /\ last = [g \in Groups |-> 0]
    /\ queued = [g \in Groups |-> NoMessages]
    /\ stage = [g \in Groups |-> "wait"] /\ count = [g \in Groups |-> 0]
    /\ late = [g \in Groups |-> NoMessages]
    /\ copies = [g \in Groups |-> NoMessages]
    /\ \E site \in Sites : alive = site.alive /\ listed = site.listed /\ nsqaddrs = site.nsqaddrs
    /\ nsqdNodes = {} /\ producers = {} /\ todo = {}
    /\ faults = 0 /\ closes = 0
    /\ lost = [g \in Groups |-> {}] /\ refused = [g \in Groups |-> {}]
    /\ skipped = [g \in Groups |-> {}]
    /\ breaks = [g \in Groups |-> 0]
    /\ troubled = ~Sound

Fault == faults < MaxFaults /\ faults' = faults + 1 /\ UNCHANGED closes

-----------------------------------------------------------------------------
(* The consumer group.                                                       *)

\* canal writes an event.
Produce ==
    /\ written < MaxEvents
    /\ written' = written + 1
    /\ UNCHANGED <<stored, up, session, copies, nodes, manager, bounds, history>>

\* traverseTask: AddTask and StartTask delete the group's offsets, UpdateTask and
\* InitConsumers do not.
Join(g, resetOffset) ==
    /\ up /\ phase[g] = "closed"
    /\ phase' = [phase EXCEPT ![g] = "joining"]
    /\ stored' = IF resetOffset THEN [stored EXCEPT ![g] = None] ELSE stored
    /\ UNCHANGED <<written, up, reader, stage, count, late, copies, nodes,
                   manager, bounds, history>>

\* Without an offset a group starts at the newest.
Start(g) == IF stored[g] = None THEN written ELSE stored[g]

\* The stream starts, or starts again, at the newest offset.
AtNewest(g, from) ==
    /\ next' = [next EXCEPT ![g] = written + 1]
    /\ skipped' = [skipped EXCEPT ![g] = @ \cup ((from .. written) \ Out(g))]

\* partitionConsumer claims the partition, makes the tracker and starts the stream.  A
\* failure ends it for good: the group stays "joining" until it is closed.
Begin(g) ==
    /\ phase[g] = "joining"
    /\ phase' = [phase EXCEPT ![g] = "open"]
    /\ committed' = [committed EXCEPT ![g] = Start(g)]
    /\ done' = [done EXCEPT ![g] = Start(g)]
    /\ \/ stored[g] = None /\ AtNewest(g, 1) /\ UNCHANGED bounds
       \/ stored[g] # None /\ next' = [next EXCEPT ![g] = stored[g] + 1]
          /\ UNCHANGED <<skipped, bounds>>
       \/ stored[g] # None /\ AtNewest(g, stored[g] + 1) /\ Fault    \* ErrOffsetOutOfRange
    /\ UNCHANGED <<kafka, up, last, queued, stage, count, late, copies, nodes, manager,
                   lost, refused, breaks, troubled>>

Fetch(g) ==
    /\ phase[g] = "open" /\ next[g] <= written
    /\ queued' = [queued EXCEPT ![g][next[g]] = @ + 1]
    /\ last' = [last EXCEPT ![g] = next[g]]
    /\ next' = [next EXCEPT ![g] = @ + 1]
    /\ UNCHANGED <<kafka, up, phase, committed, done, stage, count, late, copies, nodes,
                   manager, bounds, history>>

\* The stream ends; the new one reads the last message again, or starts at the newest
\* offset when there is none or Kafka has dropped it.
Reestablish(g) ==
    /\ phase[g] = "open" /\ Fault
    /\ \/ last[g] # 0 /\ next' = [next EXCEPT ![g] = last[g]] /\ UNCHANGED skipped
       \/ AtNewest(g, next[g])
    /\ breaks' = [breaks EXCEPT ![g] = @ + 1]
    /\ UNCHANGED <<kafka, up, phase, committed, done, last, queued, stage, count, late, copies,
                   nodes, manager, lost, refused, troubled>>

\* It cannot be re-established: partitionConsumer ends, the group stays open.  The commit
\* of its FinalizePartition is a Flush; where that times out or fails, the tracker stays.
GivesUp(g) ==
    /\ phase[g] = "open" /\ Fault
    /\ phase' = [phase EXCEPT ![g] = "stalled"]
    /\ UNCHANGED <<kafka, up, reader, stage, count, late, copies, nodes, manager, history>>

-----------------------------------------------------------------------------
(* HandleMessage: Enqueue, then CommitUpto.                                  *)

Publish(g, e) == copies' = [copies EXCEPT ![g][e] = @ + 1] /\ UNCHANGED <<lost, refused>>
Lose(g, e) == lost' = [lost EXCEPT ![g] = @ \cup {e}] /\ UNCHANGED copies

\* Enqueue with the address that GetOneProducer has drawn; "" is no node's.  A publish
\* may fail on a node that answers, and a failed publish is not tried again.
Send(g, e, addr) ==
    \/ addr \in producers \cap alive /\ Publish(g, e)
    \/ addr \in producers \cap alive /\ Lose(g, e)
       /\ refused' = [refused EXCEPT ![g] = @ \cup {e}]
    \/ addr \notin producers \cap alive /\ Lose(g, e) /\ UNCHANGED refused

\* GetOneProducer reads the number of nodes, later the node: no lock is held.
Count(g) ==
    /\ Reading(g) /\ stage[g] = "wait" /\ \E e \in Events : queued[g][e] > 0
    /\ stage' = [stage EXCEPT ![g] = "counted"]
    /\ count' = [count EXCEPT ![g] = IF nsqaddrs # {} THEN 0 ELSE Cardinality(nsqdNodes)]
    /\ UNCHANGED <<kafka, up, phase, reader, late, copies, nodes, manager, bounds, history>>

\* Mutant: without nodes the draw waits for one.
MutantDrawn(g) == IF nsqaddrs # {} THEN nsqaddrs ELSE nsqdNodes
Drawn(g) == IF nsqaddrs # {} THEN nsqaddrs
            ELSE IF count[g] = 0 THEN {None} ELSE nsqdNodes

Enqueue(g) ==
    /\ Reading(g) /\ stage[g] = "counted"
    /\ \E e \in Events, addr \in Drawn(g) : First(queued[g], e) /\ Send(g, e, addr)
    /\ stage' = [stage EXCEPT ![g] = "sent"] /\ count' = [count EXCEPT ![g] = 0]
    /\ UNCHANGED <<kafka, up, phase, reader, late, nodes, manager, bounds,
                   skipped, breaks, troubled>>

\* markAsProcessed, which a message read again does not move back.
Marked(g, e) ==
    /\ First(queued[g], e)
    /\ queued' = [queued EXCEPT ![g] = Without(@, e)]
    /\ done' = [done EXCEPT ![g] = IF e > @ THEN e ELSE @]
    /\ stage' = [stage EXCEPT ![g] = "wait"]
    /\ UNCHANGED <<kafka, up, phase, committed, next, last, count, late, copies, nodes,
                   manager, bounds, history>>

\* Mutant: a message is marked as soon as it is received.
MutantCommitUpto(g) ==
    Reading(g) /\ stage[g] # "wait" /\ \E e \in Events : Marked(g, e)
CommitUpto(g) ==
    Reading(g) /\ stage[g] = "sent" /\ \E e \in Events : Marked(g, e)

-----------------------------------------------------------------------------
(* Offsets in ZooKeeper, and the end of a session.                           *)

\* The consumers of the groups in G are gone, their trackers with them.
Forgotten(G) ==
    /\ phase' = [g \in Groups |-> IF g \in G THEN "closed" ELSE phase[g]]
    /\ committed' = [g \in Groups |-> IF g \in G THEN 0 ELSE committed[g]]
    /\ done' = [g \in Groups |-> IF g \in G THEN 0 ELSE done[g]]
    /\ next' = [g \in Groups |-> IF g \in G THEN 0 ELSE next[g]]
    /\ last' = [g \in Groups |-> IF g \in G THEN 0 ELSE last[g]]
    /\ queued' = [g \in Groups |-> IF g \in G THEN NoMessages ELSE queued[g]]
    /\ stage' = [g \in Groups |-> IF g \in G THEN "wait" ELSE stage[g]]
    /\ count' = [g \in Groups |-> IF g \in G THEN 0 ELSE count[g]]

\* Close of the group: the loop goes on with what is in the closed channel.
Ended(g) ==
    /\ Forgotten({g})
    /\ late' = [late EXCEPT ![g] = [e \in Events |-> late[g][e] + Unsent(g)[e]]]

EndedUncommitted(g) ==
    /\ Ended(g)
    /\ breaks' = [breaks EXCEPT ![g] = @ + 1]
    /\ UNCHANGED <<kafka, up, copies, nodes, manager, lost, refused, skipped, troubled>>

Flushed(g) == IF done[g] > committed[g] THEN done[g] ELSE stored[g]

\* offsetCommitter, every CommitInterval; the tracker does not see a write whose answer
\* is lost.
Flush(g) ==
    /\ Reading(g) /\ done[g] > committed[g]
    /\ stored' = [stored EXCEPT ![g] = Flushed(g)]
    /\ \/ committed' = [committed EXCEPT ![g] = done[g]] /\ UNCHANGED bounds
       \/ UNCHANGED committed /\ Fault
    /\ UNCHANGED <<written, up, phase, done, next, last, queued, stage, count, late, copies,
                   nodes, manager, history>>

Closing == closes < MaxCloses /\ closes' = closes + 1 /\ UNCHANGED faults

\* Close, of StopTask, UpdateTask or StopConsumers: partitionConsumer is told to stop.
Close(g) ==
    /\ phase[g] = "open" /\ Closing
    /\ phase' = [phase EXCEPT ![g] = "closing"]
    /\ UNCHANGED <<kafka, up, reader, stage, count, late, copies, nodes, manager, history>>

\* There is none: it has not started, or it has given up.
CloseUnread(g) ==
    /\ phase[g] = "joining" /\ Closing
    /\ Ended(g)
    /\ UNCHANGED <<kafka, up, copies, nodes, manager, history>>
CloseStalled(g) == phase[g] = "stalled" /\ Closing /\ EndedUncommitted(g)

\* FinalizePartition: everything handed over has been handled.  Mutant: the
\* offset is left to the committer.
MutantClosed(g) ==
    /\ phase[g] = "closing" /\ last[g] <= done[g]
    /\ Ended(g)
    /\ UNCHANGED <<kafka, up, copies, nodes, manager, bounds, history>>
Closed(g) ==
    /\ phase[g] = "closing" /\ last[g] <= done[g]
    /\ Ended(g)
    /\ stored' = [stored EXCEPT ![g] = Flushed(g)]
    /\ UNCHANGED <<written, up, copies, nodes, manager, bounds, history>>

\* It has not within ProcessingTimeout, and nothing is committed.
CloseTimesOut(g) == phase[g] = "closing" /\ done[g] < last[g] /\ Fault /\ EndedUncommitted(g)

\* ZooKeeper does not take the offset: Close logs it and goes on.
CommitFails(g) ==
    /\ phase[g] = "closing" /\ last[g] <= done[g] /\ committed[g] < done[g]
    /\ Fault /\ EndedUncommitted(g)

LateEnqueue(g) ==
    /\ \E e \in Events :
          /\ First(late[g], e)
          /\ late' = [late EXCEPT ![g] = Without(@, e)]
          /\ \E addr \in (IF nsqaddrs # {} THEN nsqaddrs
                          ELSE IF nsqdNodes = {} THEN {None} ELSE nsqdNodes) : Send(g, e, addr)
    /\ UNCHANGED <<kafka, up, phase, reader, stage, count, nodes, manager, bounds,
                   skipped, breaks, troubled>>

-----------------------------------------------------------------------------
(* The NSQ manager.                                                          *)

\* getProducers makes a producer for every node that it has looked up and every one
\* that is configured, where it answers.  Mutant: the configured ones are left out.
MutantInitProducers(looked) == looked \cap alive
InitProducers(looked) == (looked \cup nsqaddrs) \cap alive

\* A call to nsqlookupd or to nsqd fails.
CallFails == Fault /\ troubled' = TRUE

\* A dispatcher whose first lookup fails gets no handler and panics.  The second one may
\* miss nodes, and a ping may fail.
Boot ==
    /\ ~up
    /\ up' = TRUE
    /\ \/ /\ nsqdNodes' = listed /\ producers' = InitProducers(listed)
          /\ UNCHANGED <<bounds, troubled>>
       \/ /\ nsqdNodes' \in SUBSET listed /\ producers' \in SUBSET InitProducers(nsqdNodes')
          /\ CallFails
    /\ UNCHANGED <<kafka, session, copies, nodes, todo, lost, refused, skipped, breaks>>

\* GetNodesInfo replaces the nodes by what it got, also when a lookup failed.
Refresh ==
    /\ up /\ todo = {}
    /\ \/ nsqdNodes' = listed /\ UNCHANGED <<bounds, troubled>>
       \/ nsqdNodes' \in SUBSET listed /\ CallFails
    /\ todo' = nsqdNodes'
    /\ UNCHANGED <<kafka, up, session, copies, nodes, producers, lost, refused, skipped, breaks>>

\* updateProducer pings each node's producer, or makes one; configured nodes that
\* are not listed it leaves alone.  Mutant: it only removes.
MutantVisit(n) ==
    /\ n \in todo
    /\ todo' = todo \ {n}
    /\ producers' = IF n \in alive THEN producers ELSE producers \ {n}
    /\ UNCHANGED <<kafka, up, session, copies, nodes, nsqdNodes, bounds, history>>
Visit(n) ==
    /\ n \in todo
    /\ todo' = todo \ {n}
    /\ \/ n \in alive /\ producers' = producers \cup {n} /\ UNCHANGED <<bounds, troubled>>
       \/ n \notin alive /\ producers' = producers \ {n} /\ UNCHANGED <<bounds, troubled>>
       \/ n \in alive /\ producers' = producers \ {n} /\ CallFails
    /\ UNCHANGED <<kafka, up, session, copies, nodes, nsqdNodes, lost, refused, skipped, breaks>>

-----------------------------------------------------------------------------
(* What goes wrong.                                                          *)

\* The process ends, and with it the channels, the marks and the producers.
Dies ==
    /\ up' = FALSE
    /\ Forgotten(Groups)
    /\ late' = [g \in Groups |-> NoMessages]
    /\ nsqdNodes' = {} /\ producers' = {} /\ todo' = {}
    /\ breaks' = [g \in Groups |-> breaks[g] + 1]
    /\ UNCHANGED <<kafka, copies, nodes, lost, refused, skipped, troubled>>

Crash == up /\ Dies /\ Fault

\* The index drawn is beyond the list that has replaced the one counted.
IndexOutOfRange(g) ==
    /\ Reading(g) /\ stage[g] = "counted"
    /\ nsqaddrs = {} /\ Cardinality(nsqdNodes) < count[g]
    /\ Dies
    /\ UNCHANGED bounds

NodesChange(newAlive, newListed) ==
    /\ alive' = newAlive /\ listed' = newListed
    /\ troubled' = TRUE
    /\ UNCHANGED <<kafka, up, session, copies, nsqaddrs, manager, lost, refused, skipped,
                   breaks>>

NsqdStops(n) == n \in alive /\ NodesChange(alive \ {n}, listed) /\ Fault
NsqdStarts(n) == n \notin alive /\ NodesChange(alive \cup {n}, listed) /\ Fault
\* nsqlookupd notices.
Noticed(n) ==
    /\ n \in alive \ listed \/ n \in listed \ alive
    /\ NodesChange(alive, IF n \in alive THEN listed \cup {n} ELSE listed \ {n})
    /\ UNCHANGED bounds

Next ==
    \/ Produce \/ Boot \/ Refresh \/ Crash
    \/ \E g \in Groups :
          \/ \E resetOffset \in BOOLEAN : Join(g, resetOffset)
          \/ Begin(g) \/ Fetch(g) \/ Reestablish(g) \/ GivesUp(g)
          \/ Count(g) \/ Enqueue(g) \/ CommitUpto(g) \/ Flush(g)
          \/ Close(g) \/ CloseUnread(g) \/ CloseStalled(g)
          \/ Closed(g) \/ CloseTimesOut(g) \/ CommitFails(g)
          \/ LateEnqueue(g) \/ IndexOutOfRange(g)
    \/ \E n \in Nsqds : Visit(n) \/ NsqdStops(n) \/ NsqdStarts(n) \/ Noticed(n)

Spec == Init /\ [][Next]_vars

\* The goroutines go on while they live: the stream of a partition that has not been
\* given up, the message loop (also that of a closed consumer), updateProducer's ticker.
MessageLoop(g) == Count(g) \/ Enqueue(g) \/ IndexOutOfRange(g) \/ CommitUpto(g)
UpdateLoop == Refresh \/ \E n \in Nsqds : Visit(n)
Fairness ==
    /\ \A g \in Groups : WF_vars(Fetch(g)) /\ WF_vars(MessageLoop(g)) /\ WF_vars(LateEnqueue(g))
    /\ WF_vars(UpdateLoop)
FairSpec == Spec /\ Fairness

-----------------------------------------------------------------------------
TypeOK ==
    /\ written \in 0 .. MaxEvents
    /\ stored \in [Groups -> {None} \cup 0 .. MaxEvents]
    /\ up \in BOOLEAN
    /\ phase \in [Groups -> {"closed", "joining", "open", "stalled", "closing"}]
    /\ committed \in [Groups -> Nat] /\ done \in [Groups -> Nat]
    /\ next \in [Groups -> Nat] /\ last \in [Groups -> Nat]
    /\ \A g \in Groups : done[g] <= written /\ last[g] <= written /\ next[g] <= written + 1
    /\ queued \in [Groups -> [Events -> Nat]] /\ late \in [Groups -> [Events -> Nat]]
    /\ stage \in [Groups -> {"wait", "counted", "sent"}]
    /\ \A g \in Groups : stage[g] # "wait" => Reading(g) /\ \E e \in Events : queued[g][e] > 0
    /\ count \in [Groups -> Nat]
    /\ copies \in [Groups -> [Events -> Nat]]
    /\ alive \in SUBSET Nsqds /\ listed \in SUBSET Nsqds /\ nsqaddrs \in SUBSET Nsqds
    /\ nsqdNodes \in SUBSET Nsqds /\ producers \in SUBSET Nsqds /\ todo \in SUBSET Nsqds
    /\ faults \in 0 .. MaxFaults /\ closes \in 0 .. MaxCloses
    /\ lost \in [Groups -> SUBSET Events] /\ refused \in [Groups -> SUBSET Events]
    /\ skipped \in [Groups -> SUBSET Events]
    /\ breaks \in [Groups -> Nat]
    /\ troubled \in BOOLEAN

\* Whatever offset a group resumes from, each event before it has been
\* published, given up by Enqueue, or passed over by a start at the newest.
Accounted ==
    \A g \in Groups : \A e \in Events :
        stored[g] # None /\ e <= stored[g] => e \in Out(g) \cup skipped[g]

\* An event is published again only after its session ended without a commit or
\* its stream was re-established: each of these costs one more copy at most.
BoundedRepeats ==
    \A g \in Groups : \A e \in Events : copies[g][e] <= 1 + breaks[g]

\* Unless a publish fails on a node that answers, Enqueue gives an event up only
\* when a node has come, gone or not answered, or a lookup or a ping has failed:
\* crashes, restarts and refreshes alone never leave the draw without a producer.
LossHasACause == \A g \in Groups : lost[g] \ refused[g] # {} => troubled

\* A group catches up with its partition again and again: what is to be read, or was
\* handed over, gets out or is passed over, though the consumer gives up or is closed.
Owed(g, e) ==
    \/ phase[g] = "open" /\ next[g] <= e /\ e <= written
    \/ queued[g][e] > 0 \/ late[g][e] > 0
EventsGetOut == \A g \in Groups : []<>(\A e \in Events : Owed(g, e) => e \in Out(g))

\* Again and again each node that answers and is listed has a producer, whatever a ping
\* or a lookup has removed before.
ProducersComeBack == []<>(up => alive \cap listed \subseteq producers)
=============================================================================
