------------------------- MODULE EventDeliveryProofs -------------------------
(***************************************************************************)
(* Proofs about EventDelivery, for every set of groups and nodes, and any  *)
(* number of events, closes and faults.                                    *)
(***************************************************************************)
EXTENDS EventDelivery, FiniteSetTheorems, TLAPS

\* A group works in a dispatcher that runs; its messages lie in the partition, up to the
\* last one handed over, and its offset between what the tracker has committed and done.
Sessions ==
    \A g \in Groups :
       /\ phase[g] # "closed" => up
       /\ \A e \in Events : late[g][e] > 0 => up
       /\ stored[g] # None => stored[g] <= written
       /\ Reading(g) => /\ committed[g] <= done[g]
                        /\ stored[g] # None => committed[g] <= stored[g] /\ stored[g] <= done[g]
       /\ ~Reading(g) => last[g] = 0
       /\ \A e \in Events : queued[g][e] > 0 => Reading(g) /\ e <= last[g]
       /\ phase[g] = "open" => 1 <= next[g] /\ last[g] <= next[g]

\* What a group has handled in its session is accounted for, before it is stored; what it
\* has read is accounted for or in its channel.
Handled ==
    \A g \in Groups : \A e \in Events :
       /\ Reading(g) /\ e <= done[g] => e \in Out(g) \cup skipped[g]
       /\ Reading(g) /\ (e <= last[g] \/ (phase[g] = "open" /\ e < next[g]))
             => e \in Out(g) \cup skipped[g] \/ queued[g][e] > 0
       /\ stage[g] = "sent" /\ First(queued[g], e) => e \in Out(g)

\* The last event that a next session will not read again, once this one has committed.
Mark(g) == IF Reading(g) THEN IF last[g] > done[g] THEN last[g] ELSE done[g]
           ELSE Start(g)

\* Copies of an event: those there are, those handed over but not published yet, and one
\* that this session or the next one may still read.
ToRead(g, e) == IF e > Mark(g) \/ (phase[g] = "open" /\ next[g] <= e) THEN 1 ELSE 0
Load(g, e) == copies[g][e] + Unsent(g)[e] + late[g][e] + ToRead(g, e)

Copies == \A g \in Groups : \A e \in Events : Load(g, e) <= 1 + breaks[g]

\* Before the first trouble every node is listed, answers and has its producer.
Healthy ==
    /\ LossHasACause
    /\ ~troubled => /\ Sound /\ todo \subseteq listed
                    /\ up => nsqdNodes = listed /\ producers = listed \cup nsqaddrs
                    /\ \A g \in Groups : stage[g] = "counted" => nsqaddrs # {} \/ count[g] # 0

Inv == TypeOK /\ Sessions /\ Accounted /\ Handled /\ Copies /\ Healthy

-----------------------------------------------------------------------------
\* A set of nodes has a size, and only the empty one none.
LEMMA CardinalitiesAreNumbers ==
    /\ \A S \in SUBSET Nsqds : Cardinality(S) \in Nat
    /\ \A S \in SUBSET Nsqds : S # {} => Cardinality(S) # 0
  <1>1. \A S \in SUBSET Nsqds : IsFiniteSet(S)
    BY DeliveryAssumption, FS_Subset
  <1> QED
    BY <1>1, FS_CardinalityType, FS_EmptySet

\* The parts of TypeOK.
KafkaTypes ==
    /\ written \in 0 .. MaxEvents
    /\ stored \in [Groups -> {None} \cup 0 .. MaxEvents]
    /\ lost \in [Groups -> SUBSET Events] /\ refused \in [Groups -> SUBSET Events]
    /\ skipped \in [Groups -> SUBSET Events]
    /\ breaks \in [Groups -> Nat]

SessionTypes ==
    /\ phase \in [Groups -> {"closed", "joining", "open", "stalled", "closing"}]
    /\ committed \in [Groups -> Nat] /\ done \in [Groups -> Nat]
    /\ next \in [Groups -> Nat] /\ last \in [Groups -> Nat]
    /\ stage \in [Groups -> {"wait", "counted", "sent"}]
    /\ count \in [Groups -> Nat]

MessageTypes ==
    /\ copies \in [Groups -> [Events -> Nat]]
    /\ queued \in [Groups -> [Events -> Nat]] /\ late \in [Groups -> [Events -> Nat]]

InOrder ==
    \A g \in Groups :
       /\ done[g] <= written /\ last[g] <= written /\ next[g] <= written + 1
       /\ stage[g] # "wait" => Reading(g) /\ \E e \in Events : queued[g][e] > 0

NodeTypes ==
    /\ alive \in SUBSET Nsqds /\ listed \in SUBSET Nsqds /\ nsqaddrs \in SUBSET Nsqds
    /\ nsqdNodes \in SUBSET Nsqds /\ producers \in SUBSET Nsqds /\ todo \in SUBSET Nsqds
    /\ faults \in 0 .. MaxFaults /\ closes \in 0 .. MaxCloses

Booleans == up \in BOOLEAN /\ troubled \in BOOLEAN

\* TypeOK is the conjunction of these parts.
LEMMA TypeParts ==
    TypeOK <=> KafkaTypes /\ SessionTypes /\ MessageTypes /\ InOrder /\ NodeTypes /\ Booleans
  BY DEF TypeOK, KafkaTypes, SessionTypes, MessageTypes, InOrder, NodeTypes, Booleans

\* Enqueue adds one copy of its event at most, gets the event out one way or the other, and
\* calls none back.
LEMMA SendCounts ==
    ASSUME KafkaTypes, MessageTypes, NEW g \in Groups, NEW e \in Events, NEW addr, Send(g, e, addr)
    PROVE  /\ copies' \in [Groups -> [Events -> Nat]] /\ lost' \in [Groups -> SUBSET Events]
           /\ refused' \in [Groups -> SUBSET Events]
           /\ \A k \in Groups, f \in Events :
                 /\ copies'[k][f] <= copies[k][f] + 1
                 /\ k # g \/ f # e => copies'[k][f] = copies[k][f]
           /\ e \in Out(g)' /\ \A k \in Groups : Out(k) \subseteq Out(k)'
  <1>1. CASE Publish(g, e)
    <2>1. copies' = [copies EXCEPT ![g] = [copies[g] EXCEPT ![e] = copies[g][e] + 1]]
      BY <1>1 DEF MessageTypes, Publish
    <2>2. copies[g] \in [Events -> Nat] /\ lost' = lost /\ refused' = refused
      BY <1>1 DEF MessageTypes, Publish
    <2>3. [copies[g] EXCEPT ![e] = copies[g][e] + 1] \in [Events -> Nat]
      BY <2>2
    <2>4. /\ copies' \in [Groups -> [Events -> Nat]]
          /\ \A k \in Groups, f \in Events :
                /\ copies'[k][f] = IF k = g /\ f = e THEN copies[k][f] + 1 ELSE copies[k][f]
                /\ copies[k][f] \in Nat
      BY <2>1, <2>3 DEF MessageTypes
    <2>5. e \in Out(g)' /\ \A k \in Groups : Out(k) \subseteq Out(k)'
      BY <2>2, <2>4 DEF Out, Published
    <2> QED
      BY <2>2, <2>4, <2>5 DEF KafkaTypes
  <1>2. CASE Lose(g, e)
    <2>1. refused' \in [Groups -> SUBSET Events]
      BY <1>2 DEF KafkaTypes, MessageTypes, Send, Lose, Publish
    <2>2. /\ copies' = copies /\ lost' = [lost EXCEPT ![g] = lost[g] \cup {e}]
          /\ \A k \in Groups, f \in Events : copies[k][f] \in Nat
      BY <1>2 DEF MessageTypes, Lose
    <2>3. /\ lost' \in [Groups -> SUBSET Events]
          /\ \A k \in Groups : lost'[k] = IF k = g THEN lost[k] \cup {e} ELSE lost[k]
      BY <2>2 DEF KafkaTypes
    <2>4. e \in Out(g)' /\ \A k \in Groups : Out(k) \subseteq Out(k)'
      BY <2>2, <2>3 DEF Out, Published
    <2> QED
      BY <2>1, <2>2, <2>3, <2>4 DEF MessageTypes
  <1> QED
    BY <1>1, <1>2 DEF Send

\* What Enqueue and LateEnqueue do to the copies.
LEMMA Sends ==
    ASSUME NEW g \in Groups, Enqueue(g) \/ LateEnqueue(g)
    PROVE  \E e \in Events : \E addr : Send(g, e, addr)
  BY DEF Enqueue, LateEnqueue

\* A start at the newest offset passes events of the partition over.
LEMMA NewestCounts ==
    ASSUME KafkaTypes, SessionTypes, NEW g \in Groups, NEW from \in Nat \ {0}, AtNewest(g, from)
    PROVE  /\ next' = [next EXCEPT ![g] = written + 1] /\ next' \in [Groups -> Nat]
           /\ skipped' = [skipped EXCEPT ![g] = skipped[g] \cup ((from .. written) \ Out(g))]
           /\ skipped' \in [Groups -> SUBSET Events]
  <1>1. from .. written \subseteq Events
    BY DeliveryAssumption DEF KafkaTypes, Events
  <1>2. /\ next' = [next EXCEPT ![g] = written + 1]
        /\ skipped' = [skipped EXCEPT ![g] = skipped[g] \cup ((from .. written) \ Out(g))]
    BY DEF AtNewest
  <1>3. written + 1 \in Nat
    BY DeliveryAssumption DEF KafkaTypes
  <1> HIDE DEF Events
  <1> QED
    BY <1>1, <1>2, <1>3 DEF KafkaTypes, SessionTypes

\* What is flushed is an offset of the partition.
LEMMA FlushedRange ==
    ASSUME KafkaTypes, SessionTypes, InOrder, NEW g \in Groups
    PROVE  Flushed(g) \in {None} \cup 0 .. MaxEvents
  BY DeliveryAssumption DEF KafkaTypes, SessionTypes, InOrder, Flushed

\* Where a stream starts.
LEMMA BeginCounts ==
    ASSUME KafkaTypes, SessionTypes, NEW g \in Groups, Begin(g)
    PROVE  /\ next' \in [Groups -> Nat] /\ skipped' \in [Groups -> SUBSET Events]
           /\ Start(g) \in Nat /\ Start(g) <= written
              => next'[g] \in {Start(g) + 1, written + 1}
           /\ \A k \in Groups : /\ k # g => next'[k] = next[k] /\ skipped'[k] = skipped[k]
                                /\ skipped[k] \subseteq skipped'[k]
           /\ \A e \in Events : Start(g) < e /\ e < next'[g] => e \in Out(g) \cup skipped'[g]
           /\ stored[g] = None => \A e \in Events : e <= written => e \in Out(g) \cup skipped'[g]
  <1>0. written \in Nat /\ stored[g] \in {None} \cup Nat /\ \A e \in Events : e \in Nat /\ e >= 1
    BY DEF KafkaTypes, Events
  <1>1. CASE stored[g] = None /\ AtNewest(g, 1)
    <2>1. 1 \in Nat \ {0}
      OBVIOUS
    <2> QED
      BY <1>0, <1>1, <2>1, NewestCounts DEF KafkaTypes, SessionTypes, Start
  <1>2. CASE stored[g] # None /\ next' = [next EXCEPT ![g] = stored[g] + 1] /\ skipped' = skipped
    BY <1>0, <1>2 DEF KafkaTypes, SessionTypes, Start
  <1>3. CASE stored[g] # None /\ AtNewest(g, stored[g] + 1)
    <2>1. stored[g] + 1 \in Nat \ {0}
      BY <1>0, <1>3
    <2> QED
      BY <1>0, <1>3, <2>1, NewestCounts DEF KafkaTypes, SessionTypes, Start
  <1> QED
    BY <1>1, <1>2, <1>3 DEF Begin

\* Where it goes on when it is re-established.
LEMMA ReestablishCounts ==
    ASSUME KafkaTypes, SessionTypes, Sessions, NEW g \in Groups, Reestablish(g)
    PROVE  /\ next' \in [Groups -> Nat] /\ skipped' \in [Groups -> SUBSET Events]
           /\ \/ next'[g] = last[g] /\ last[g] # 0
              \/ next'[g] = written + 1
                 /\ \A e \in Events : next[g] <= e /\ e <= written => e \in Out(g) \cup skipped'[g]
           /\ \A k \in Groups : /\ k # g => next'[k] = next[k] /\ skipped'[k] = skipped[k]
                                /\ skipped[k] \subseteq skipped'[k]
           /\ breaks' = [breaks EXCEPT ![g] = breaks[g] + 1] /\ breaks' \in [Groups -> Nat]
  <1>1. breaks' = [breaks EXCEPT ![g] = breaks[g] + 1] /\ breaks' \in [Groups -> Nat]
    BY DEF Reestablish, KafkaTypes
  <1>2. next[g] \in Nat \ {0}
    BY DEF Reestablish, Sessions, SessionTypes
  <1>3. CASE last[g] # 0 /\ next' = [next EXCEPT ![g] = last[g]] /\ skipped' = skipped
    BY <1>1, <1>3 DEF KafkaTypes, SessionTypes
  <1>4. CASE AtNewest(g, next[g])
    <2>1. \A e \in Events : next[g] <= e /\ e <= written => e \in next[g] .. written
      BY <1>2 DEF KafkaTypes, Events
    <2> QED
      BY <1>1, <1>2, <1>4, <2>1, NewestCounts DEF KafkaTypes, SessionTypes
  <1> QED
    BY <1>3, <1>4 DEF Reestablish

\* Every step keeps the partition's types.
LEMMA KafkaTypeStep ==
    ASSUME KafkaTypes, SessionTypes, MessageTypes, InOrder, Sessions, [Next]_vars
    PROVE  KafkaTypes'
  <1> USE DeliveryAssumption DEF KafkaTypes, SessionTypes, MessageTypes, InOrder, Sessions,
              Reading, Events, kafka, reader, session, nodes, manager, bounds, history
  <1>1. CASE Produce
    BY <1>1 DEF Produce
  <1>2. CASE Boot
    BY <1>2 DEF Boot, InitProducers, CallFails, Fault
  <1>3. CASE Refresh
    BY <1>3 DEF Refresh, CallFails, Fault
  <1>4. CASE Crash
    <2>1. breaks' = [k \in Groups |-> breaks[k] + 1] /\ breaks' \in [Groups -> Nat]
      BY <1>4 DEF Crash, Dies
    <2> QED
      BY <1>4, <2>1 DEF Crash, Dies
  <1>5. ASSUME NEW g \in Groups, NEW r \in BOOLEAN, Join(g, r) PROVE KafkaTypes'
    BY <1>5 DEF Join
  <1>6. ASSUME NEW g \in Groups, Begin(g) PROVE KafkaTypes'
    BY <1>6, BeginCounts DEF Begin
  <1>7. ASSUME NEW g \in Groups, Fetch(g) PROVE KafkaTypes'
    BY <1>7 DEF Fetch
  <1>8. ASSUME NEW g \in Groups, Reestablish(g) PROVE KafkaTypes'
    BY <1>8, ReestablishCounts DEF Reestablish
  <1>9. ASSUME NEW g \in Groups, GivesUp(g) PROVE KafkaTypes'
    BY <1>9 DEF GivesUp, Fault
  <1>10. ASSUME NEW g \in Groups, Count(g) PROVE KafkaTypes'
    BY <1>10 DEF Count
  <1>11. ASSUME NEW g \in Groups, Enqueue(g) PROVE KafkaTypes'
    <2>1. lost' \in [Groups -> SUBSET Events] /\ refused' \in [Groups -> SUBSET Events]
      BY <1>11, Sends, SendCounts
    <2> QED
      BY <1>11, <2>1 DEF Enqueue
  <1>12. ASSUME NEW g \in Groups, CommitUpto(g) PROVE KafkaTypes'
    BY <1>12 DEF CommitUpto, Marked
  <1>13. ASSUME NEW g \in Groups, Flush(g) PROVE KafkaTypes'
    <2>1. stored' = [stored EXCEPT ![g] = Flushed(g)] /\ Flushed(g) \in {None} \cup 0 .. MaxEvents
      BY <1>13, FlushedRange DEF Flush
    <2>2. stored' \in [Groups -> {None} \cup 0 .. MaxEvents]
      BY <2>1
    <2> QED
      BY <1>13, <2>2 DEF Flush
  <1>14. ASSUME NEW g \in Groups, Close(g) PROVE KafkaTypes'
    BY <1>14 DEF Close, Closing
  <1>15. ASSUME NEW g \in Groups, CloseUnread(g) PROVE KafkaTypes'
    BY <1>15 DEF CloseUnread, Closing, Ended, Forgotten
  <1>16. ASSUME NEW g \in Groups, CloseStalled(g) PROVE KafkaTypes'
    <2>1. EndedUncommitted(g)
      BY <1>16 DEF CloseStalled
    <2> HIDE DEF InOrder, Sessions, Reading, Events
    <2>2. breaks' = [breaks EXCEPT ![g] = breaks[g] + 1] /\ breaks' \in [Groups -> Nat]
      BY <2>1 DEF EndedUncommitted
    <2> QED
      BY <2>1, <2>2 DEF EndedUncommitted
  <1>17. ASSUME NEW g \in Groups, Closed(g) PROVE KafkaTypes'
    <2>1. stored' = [stored EXCEPT ![g] = Flushed(g)] /\ Flushed(g) \in {None} \cup 0 .. MaxEvents
      BY <1>17, FlushedRange DEF Closed
    <2>2. stored' \in [Groups -> {None} \cup 0 .. MaxEvents]
      BY <2>1
    <2> QED
      BY <1>17, <2>2 DEF Closed
  <1>18. ASSUME NEW g \in Groups, CloseTimesOut(g) PROVE KafkaTypes'
    <2>1. EndedUncommitted(g)
      BY <1>18 DEF CloseTimesOut
    <2> HIDE DEF InOrder, Sessions, Reading, Events
    <2>2. breaks' = [breaks EXCEPT ![g] = breaks[g] + 1] /\ breaks' \in [Groups -> Nat]
      BY <2>1 DEF EndedUncommitted
    <2> QED
      BY <2>1, <2>2 DEF EndedUncommitted
  <1>19. ASSUME NEW g \in Groups, CommitFails(g) PROVE KafkaTypes'
    <2>1. EndedUncommitted(g)
      BY <1>19 DEF CommitFails
    <2> HIDE DEF InOrder, Sessions, Reading, Events
    <2>2. breaks' = [breaks EXCEPT ![g] = breaks[g] + 1] /\ breaks' \in [Groups -> Nat]
      BY <2>1 DEF EndedUncommitted
    <2> QED
      BY <2>1, <2>2 DEF EndedUncommitted
  <1>20. ASSUME NEW g \in Groups, LateEnqueue(g) PROVE KafkaTypes'
    <2>1. lost' \in [Groups -> SUBSET Events] /\ refused' \in [Groups -> SUBSET Events]
      BY <1>20, Sends, SendCounts
    <2> QED
      BY <1>20, <2>1 DEF LateEnqueue
  <1>21. ASSUME NEW g \in Groups, IndexOutOfRange(g) PROVE KafkaTypes'
    <2>1. breaks' = [k \in Groups |-> breaks[k] + 1] /\ breaks' \in [Groups -> Nat]
      BY <1>21 DEF IndexOutOfRange, Dies
    <2> QED
      BY <1>21, <2>1 DEF IndexOutOfRange, Dies
  <1>22. ASSUME NEW n \in Nsqds, Visit(n) PROVE KafkaTypes'
    BY <1>22 DEF Visit, CallFails, Fault
  <1>23. ASSUME NEW n \in Nsqds, NsqdStops(n) PROVE KafkaTypes'
    BY <1>23 DEF NsqdStops, NodesChange, Fault
  <1>24. ASSUME NEW n \in Nsqds, NsqdStarts(n) PROVE KafkaTypes'
    BY <1>24 DEF NsqdStarts, NodesChange, Fault
  <1>25. ASSUME NEW n \in Nsqds, Noticed(n) PROVE KafkaTypes'
    BY <1>25 DEF Noticed, NodesChange
  <1>26. CASE UNCHANGED vars
    BY <1>26 DEF vars
  <1> HIDE DEF KafkaTypes, SessionTypes, MessageTypes, InOrder, Sessions, Reading, Events
  <1> QED
    BY <1>1, <1>2, <1>3, <1>4, <1>5, <1>6, <1>7, <1>8, <1>9, <1>10,
       <1>11, <1>12, <1>13, <1>14, <1>15, <1>16, <1>17, <1>18, <1>19, <1>20,
       <1>21, <1>22, <1>23, <1>24, <1>25, <1>26 DEF Next

\* Every step keeps the types of sessions.
LEMMA SessionTypeStep ==
    ASSUME KafkaTypes, SessionTypes, MessageTypes, InOrder, Sessions, NodeTypes, [Next]_vars
    PROVE  SessionTypes'
  <1> USE CardinalitiesAreNumbers, DeliveryAssumption DEF KafkaTypes, SessionTypes, MessageTypes,
              InOrder, Sessions, NodeTypes, Reading, Events, kafka, reader, session, nodes,
              manager, bounds, history
  <1>1. CASE Produce
    BY <1>1 DEF Produce
  <1>2. CASE Boot
    BY <1>2 DEF Boot, InitProducers, CallFails, Fault
  <1>3. CASE Refresh
    BY <1>3 DEF Refresh, CallFails, Fault
  <1>4. CASE Crash
    BY <1>4 DEF Crash, Dies, Forgotten, Fault
  <1>5. ASSUME NEW g \in Groups, NEW r \in BOOLEAN, Join(g, r) PROVE SessionTypes'
    BY <1>5 DEF Join
  <1>6. ASSUME NEW g \in Groups, Begin(g) PROVE SessionTypes'
    <2>1. Start(g) \in Nat
      BY DEF Start
    <2> QED
      BY <1>6, <2>1, BeginCounts DEF Begin
  <1>7. ASSUME NEW g \in Groups, Fetch(g) PROVE SessionTypes'
    <2>1. next' = [next EXCEPT ![g] = next[g] + 1] /\ last' = [last EXCEPT ![g] = next[g]]
      BY <1>7 DEF Fetch
    <2>2. next' \in [Groups -> Nat] /\ last' \in [Groups -> Nat]
      BY <2>1
    <2> QED
      BY <1>7, <2>2 DEF Fetch
  <1>8. ASSUME NEW g \in Groups, Reestablish(g) PROVE SessionTypes'
    BY <1>8, ReestablishCounts DEF Reestablish
  <1>9. ASSUME NEW g \in Groups, GivesUp(g) PROVE SessionTypes'
    BY <1>9 DEF GivesUp, Fault
  <1>10. ASSUME NEW g \in Groups, Count(g) PROVE SessionTypes'
    BY <1>10 DEF Count
  <1>11. ASSUME NEW g \in Groups, Enqueue(g) PROVE SessionTypes'
    BY <1>11 DEF Enqueue, Send, Publish, Lose
  <1>12. ASSUME NEW g \in Groups, CommitUpto(g) PROVE SessionTypes'
    <2>1. PICK e \in Events : Marked(g, e)
      BY <1>12 DEF CommitUpto
    <2>2. done' = [done EXCEPT ![g] = IF e > done[g] THEN e ELSE done[g]] /\ e \in Nat
      BY <2>1 DEF Marked
    <2>3. done' \in [Groups -> Nat]
      BY <2>2
    <2> QED
      BY <2>1, <2>3 DEF Marked
  <1>13. ASSUME NEW g \in Groups, Flush(g) PROVE SessionTypes'
    BY <1>13 DEF Flush, Flushed, Fault
  <1>14. ASSUME NEW g \in Groups, Close(g) PROVE SessionTypes'
    BY <1>14 DEF Close, Closing
  <1>15. ASSUME NEW g \in Groups, CloseUnread(g) PROVE SessionTypes'
    BY <1>15 DEF CloseUnread, Closing, Ended, Forgotten
  <1>16. ASSUME NEW g \in Groups, CloseStalled(g) PROVE SessionTypes'
    BY <1>16 DEF CloseStalled, Closing, EndedUncommitted, Ended, Forgotten
  <1>17. ASSUME NEW g \in Groups, Closed(g) PROVE SessionTypes'
    BY <1>17 DEF Closed, Ended, Forgotten, Flushed
  <1>18. ASSUME NEW g \in Groups, CloseTimesOut(g) PROVE SessionTypes'
    BY <1>18 DEF CloseTimesOut, EndedUncommitted, Ended, Forgotten, Fault
  <1>19. ASSUME NEW g \in Groups, CommitFails(g) PROVE SessionTypes'
    BY <1>19 DEF CommitFails, EndedUncommitted, Ended, Forgotten, Fault
  <1>20. ASSUME NEW g \in Groups, LateEnqueue(g) PROVE SessionTypes'
    BY <1>20 DEF LateEnqueue, Send, Publish, Lose
  <1>21. ASSUME NEW g \in Groups, IndexOutOfRange(g) PROVE SessionTypes'
    BY <1>21 DEF IndexOutOfRange, Dies, Forgotten
  <1>22. ASSUME NEW n \in Nsqds, Visit(n) PROVE SessionTypes'
    BY <1>22 DEF Visit, CallFails, Fault
  <1>23. ASSUME NEW n \in Nsqds, NsqdStops(n) PROVE SessionTypes'
    BY <1>23 DEF NsqdStops, NodesChange, Fault
  <1>24. ASSUME NEW n \in Nsqds, NsqdStarts(n) PROVE SessionTypes'
    BY <1>24 DEF NsqdStarts, NodesChange, Fault
  <1>25. ASSUME NEW n \in Nsqds, Noticed(n) PROVE SessionTypes'
    BY <1>25 DEF Noticed, NodesChange
  <1>26. CASE UNCHANGED vars
    BY <1>26 DEF vars
  <1> HIDE DEF KafkaTypes, SessionTypes, MessageTypes, InOrder, Sessions, NodeTypes, Reading, Events
  <1> QED
    BY <1>1, <1>2, <1>3, <1>4, <1>5, <1>6, <1>7, <1>8, <1>9, <1>10,
       <1>11, <1>12, <1>13, <1>14, <1>15, <1>16, <1>17, <1>18, <1>19, <1>20,
       <1>21, <1>22, <1>23, <1>24, <1>25, <1>26 DEF Next

\* Taking out one of the messages that there are.
LEMMA WithoutCounts ==
    ASSUME NEW messages \in [Events -> Nat], NEW e \in Events, messages[e] > 0
    PROVE  /\ Without(messages, e) \in [Events -> Nat]
           /\ \A f \in Events :
                 Without(messages, e)[f] = IF f = e THEN messages[f] - 1 ELSE messages[f]
  BY DEF Without

\* A message is unsent or handed on: there are no more unsent ones than queued.
LEMMA UnsentCounts ==
    ASSUME MessageTypes, NEW g \in Groups
    PROVE  \A e \in Events : Unsent(g)[e] \in Nat /\ Unsent(g)[e] <= queued[g][e]
  <1> SUFFICES ASSUME NEW e \in Events
               PROVE  Unsent(g)[e] \in Nat /\ Unsent(g)[e] <= queued[g][e]
    OBVIOUS
  <1>1. queued[g][e] \in Nat
    BY DEF MessageTypes
  <1>2. Unsent(g)[e] = IF stage[g] = "sent" /\ First(queued[g], e)
                       THEN queued[g][e] - 1 ELSE queued[g][e]
    BY DEF Unsent
  <1>3. First(queued[g], e) => queued[g][e] > 0
    BY DEF First
  <1> QED
    BY <1>1, <1>2, <1>3

\* A consumer that is closed leaves the loop what is in the channel.
LEMMA EndedMessages ==
    ASSUME MessageTypes, NEW g \in Groups, Ended(g)
    PROVE  /\ queued' \in [Groups -> [Events -> Nat]] /\ late' \in [Groups -> [Events -> Nat]]
           /\ queued' = [queued EXCEPT ![g] = NoMessages]
           /\ \A k \in Groups \ {g} : late'[k] = late[k]
           /\ \A e \in Events : late'[g][e] = late[g][e] + Unsent(g)[e]
  <1> DEFINE left == [e \in Events |-> late[g][e] + Unsent(g)[e]]
  <1>1. left \in [Events -> Nat]
    BY UnsentCounts DEF MessageTypes
  <1>2. late' = [late EXCEPT ![g] = left]
    BY DEF Ended
  <1>3. NoMessages \in [Events -> Nat]
    BY DEF NoMessages
  <1>4. queued' = [k \in Groups |-> IF k \in {g} THEN NoMessages ELSE queued[k]]
    BY DEF Ended, Forgotten
  <1>5. \A e \in Events : left[e] = late[g][e] + Unsent(g)[e]
    OBVIOUS
  <1> HIDE DEF left
  <1>6. queued' = [queued EXCEPT ![g] = NoMessages] /\ queued' \in [Groups -> [Events -> Nat]]
    BY <1>3, <1>4 DEF MessageTypes
  <1>7. /\ late' \in [Groups -> [Events -> Nat]]
        /\ late'[g] = left /\ \A k \in Groups \ {g} : late'[k] = late[k]
    BY <1>1, <1>2 DEF MessageTypes
  <1> QED
    BY <1>5, <1>6, <1>7

\* Every step keeps the types of messages.
LEMMA MessageTypeStep ==
    ASSUME KafkaTypes, SessionTypes, MessageTypes, InOrder, Sessions, [Next]_vars
    PROVE  MessageTypes'
  <1> USE DeliveryAssumption DEF KafkaTypes, SessionTypes, MessageTypes, InOrder, Sessions,
              Reading, Events, kafka, reader, session, nodes, manager, bounds, history
  <1>1. CASE Produce
    BY <1>1 DEF Produce
  <1>2. CASE Boot
    BY <1>2 DEF Boot, InitProducers, CallFails, Fault
  <1>3. CASE Refresh
    BY <1>3 DEF Refresh, CallFails, Fault
  <1>4. CASE Crash
    BY <1>4 DEF Crash, Dies, Forgotten, NoMessages
  <1>5. ASSUME NEW g \in Groups, NEW r \in BOOLEAN, Join(g, r) PROVE MessageTypes'
    BY <1>5 DEF Join
  <1>6. ASSUME NEW g \in Groups, Begin(g) PROVE MessageTypes'
    BY <1>6 DEF Begin, Start, AtNewest, Fault
  <1>7. ASSUME NEW g \in Groups, Fetch(g) PROVE MessageTypes'
    <2>1. next[g] \in Events
      BY <1>7 DEF Fetch
    <2> DEFINE more == [queued[g] EXCEPT ![next[g]] = queued[g][next[g]] + 1]
    <2>2. queued' = [queued EXCEPT ![g] = more]
      BY <1>7 DEF Fetch
    <2> HIDE DEF Events
    <2>3. more \in [Events -> Nat]
      <3>1. queued[g] \in [Events -> Nat] /\ queued[g][next[g]] \in Nat
        BY <2>1
      <3> QED
        BY <2>1, <3>1
    <2> HIDE DEF more
    <2>4. queued' \in [Groups -> [Events -> Nat]]
      BY <2>2, <2>3
    <2> QED
      BY <1>7, <2>4 DEF Fetch
  <1>8. ASSUME NEW g \in Groups, Reestablish(g) PROVE MessageTypes'
    BY <1>8 DEF Reestablish, AtNewest, Fault
  <1>9. ASSUME NEW g \in Groups, GivesUp(g) PROVE MessageTypes'
    BY <1>9 DEF GivesUp, Fault
  <1>10. ASSUME NEW g \in Groups, Count(g) PROVE MessageTypes'
    BY <1>10 DEF Count
  <1>11. ASSUME NEW g \in Groups, Enqueue(g) PROVE MessageTypes'
    <2>1. copies' \in [Groups -> [Events -> Nat]]
      BY <1>11, Sends, SendCounts
    <2> QED
      BY <1>11, <2>1 DEF Enqueue
  <1>12. ASSUME NEW g \in Groups, CommitUpto(g) PROVE MessageTypes'
    <2>1. PICK e \in Events : Marked(g, e)
      BY <1>12 DEF CommitUpto
    <2>2. queued' = [queued EXCEPT ![g] = Without(queued[g], e)] /\ queued[g][e] > 0
      BY <2>1 DEF Marked, First
    <2>3. Without(queued[g], e) \in [Events -> Nat]
      BY <2>2, WithoutCounts
    <2> HIDE DEF Events
    <2>4. queued' \in [Groups -> [Events -> Nat]]
      BY <2>2, <2>3
    <2> QED
      BY <2>1, <2>4 DEF Marked
  <1>13. ASSUME NEW g \in Groups, Flush(g) PROVE MessageTypes'
    BY <1>13 DEF Flush, Flushed, Fault
  <1>14. ASSUME NEW g \in Groups, Close(g) PROVE MessageTypes'
    BY <1>14 DEF Close, Closing
  <1>15. ASSUME NEW g \in Groups, CloseUnread(g) PROVE MessageTypes'
    BY <1>15, EndedMessages DEF CloseUnread
  <1>16. ASSUME NEW g \in Groups, CloseStalled(g) PROVE MessageTypes'
    BY <1>16, EndedMessages DEF CloseStalled, EndedUncommitted
  <1>17. ASSUME NEW g \in Groups, Closed(g) PROVE MessageTypes'
    BY <1>17, EndedMessages DEF Closed
  <1>18. ASSUME NEW g \in Groups, CloseTimesOut(g) PROVE MessageTypes'
    BY <1>18, EndedMessages DEF CloseTimesOut, EndedUncommitted
  <1>19. ASSUME NEW g \in Groups, CommitFails(g) PROVE MessageTypes'
    BY <1>19, EndedMessages DEF CommitFails, EndedUncommitted
  <1>20. ASSUME NEW g \in Groups, LateEnqueue(g) PROVE MessageTypes'
    <2>1. copies' \in [Groups -> [Events -> Nat]]
      BY <1>20, Sends, SendCounts
    <2>2. PICK e \in Events : late' = [late EXCEPT ![g] = Without(late[g], e)] /\ late[g][e] > 0
      BY <1>20 DEF LateEnqueue, First
    <2>3. Without(late[g], e) \in [Events -> Nat]
      BY <2>2, WithoutCounts
    <2> HIDE DEF Events
    <2>4. late' \in [Groups -> [Events -> Nat]]
      BY <2>2, <2>3
    <2> QED
      BY <1>20, <2>1, <2>4 DEF LateEnqueue
  <1>21. ASSUME NEW g \in Groups, IndexOutOfRange(g) PROVE MessageTypes'
    BY <1>21 DEF IndexOutOfRange, Dies, Forgotten, NoMessages
  <1>22. ASSUME NEW n \in Nsqds, Visit(n) PROVE MessageTypes'
    BY <1>22 DEF Visit, CallFails, Fault
  <1>23. ASSUME NEW n \in Nsqds, NsqdStops(n) PROVE MessageTypes'
    BY <1>23 DEF NsqdStops, NodesChange, Fault
  <1>24. ASSUME NEW n \in Nsqds, NsqdStarts(n) PROVE MessageTypes'
    BY <1>24 DEF NsqdStarts, NodesChange, Fault
  <1>25. ASSUME NEW n \in Nsqds, Noticed(n) PROVE MessageTypes'
    BY <1>25 DEF Noticed, NodesChange
  <1>26. CASE UNCHANGED vars
    BY <1>26 DEF vars
  <1> HIDE DEF KafkaTypes, SessionTypes, MessageTypes, InOrder, Sessions, Reading, Events
  <1> QED
    BY <1>1, <1>2, <1>3, <1>4, <1>5, <1>6, <1>7, <1>8, <1>9, <1>10,
       <1>11, <1>12, <1>13, <1>14, <1>15, <1>16, <1>17, <1>18, <1>19, <1>20,
       <1>21, <1>22, <1>23, <1>24, <1>25, <1>26 DEF Next

\* A consumer that is closed leaves the other groups as they were.
LEMMA EndedGroups ==
    ASSUME SessionTypes, NEW g \in Groups, Ended(g)
    PROVE  /\ phase'[g] = "closed" /\ done'[g] = 0 /\ committed'[g] = 0 /\ next'[g] = 0
           /\ last'[g] = 0 /\ stage'[g] = "wait" /\ count'[g] = 0 /\ queued'[g] = NoMessages
           /\ \A k \in Groups \ {g} :
                 /\ phase'[k] = phase[k] /\ done'[k] = done[k] /\ committed'[k] = committed[k]
                 /\ next'[k] = next[k] /\ last'[k] = last[k] /\ stage'[k] = stage[k]
                 /\ count'[k] = count[k] /\ queued'[k] = queued[k] /\ late'[k] = late[k]
  BY DEF Ended, Forgotten, SessionTypes

\* A session that ends leaves the order of offsets.
LEMMA EndedOrder ==
    ASSUME KafkaTypes, SessionTypes, InOrder, NEW g \in Groups, Ended(g), written' = written
    PROVE  InOrder'
  <1> SUFFICES ASSUME NEW k \in Groups
               PROVE  /\ done'[k] <= written /\ last'[k] <= written /\ next'[k] <= written + 1
                      /\ stage'[k] # "wait" => Reading(k)' /\ \E e \in Events : queued'[k][e] > 0
    BY DEF InOrder
  <1>1. written \in Nat
    BY DEF KafkaTypes
  <1>2. CASE k = g
    BY <1>1, <1>2, EndedGroups
  <1>3. CASE k # g
    BY <1>3, EndedGroups DEF InOrder, Reading
  <1> QED
    BY <1>2, <1>3

\* A fetched event follows those handed over before it.
LEMMA FetchOrder ==
    ASSUME KafkaTypes, SessionTypes, MessageTypes, InOrder, Sessions, NEW g \in Groups, Fetch(g)
    PROVE  /\ InOrder' /\ next[g] \in Events
           /\ \A k \in Groups, e \in Events :
                 queued'[k][e] = IF k = g /\ e = next[g] THEN queued[k][e] + 1 ELSE queued[k][e]
  <1>1. next[g] \in Nat /\ next[g] >= 1 /\ next[g] <= written /\ written \in Nat
        /\ written <= MaxEvents
    BY DeliveryAssumption DEF Fetch, Sessions, SessionTypes, KafkaTypes
  <1>2. next[g] \in Events
    BY <1>1, DeliveryAssumption DEF Events
  <1>3. ASSUME NEW k \in Groups, NEW e \in Events
        PROVE  queued'[k][e] = IF k = g /\ e = next[g] THEN queued[k][e] + 1 ELSE queued[k][e]
    <2> HIDE DEF Events
    <2>1. queued' = [queued EXCEPT ![g] = [queued[g] EXCEPT ![next[g]] = queued[g][next[g]] + 1]]
      BY DEF Fetch
    <2> QED
      BY <1>2, <2>1 DEF MessageTypes
  <1>4. /\ last' = [last EXCEPT ![g] = next[g]] /\ next' = [next EXCEPT ![g] = next[g] + 1]
        /\ written' = written /\ done' = done /\ stage' = stage /\ phase' = phase
    BY DEF Fetch, kafka
  <1>5. ASSUME NEW k \in Groups
        PROVE  /\ done'[k] <= written' /\ last'[k] <= written' /\ next'[k] <= written' + 1
               /\ stage'[k] # "wait" => Reading(k)' /\ \E e \in Events : queued'[k][e] > 0
    <2>1. done'[k] <= written' /\ last'[k] <= written' /\ next'[k] <= written' + 1
      BY <1>1, <1>4 DEF InOrder, SessionTypes
    <2>2. ASSUME stage'[k] # "wait"
          PROVE  Reading(k)' /\ \E e \in Events : queued'[k][e] > 0
      <3>1. PICK e \in Events : Reading(k) /\ queued[k][e] > 0
        BY <1>4, <2>2 DEF InOrder
      <3>2. queued'[k][e] > 0 /\ Reading(k)'
        BY <1>3, <1>4, <3>1 DEF MessageTypes, Reading
      <3> QED
        BY <3>2
    <2> QED
      BY <2>1, <2>2
  <1>6. InOrder'
    BY <1>5 DEF InOrder
  <1> QED
    BY <1>2, <1>3, <1>6

\* What CommitUpto does to the message that it marks.
LEMMA MarkedCounts ==
    ASSUME SessionTypes, MessageTypes, NEW g \in Groups, NEW e \in Events, Marked(g, e)
    PROVE  /\ \A k \in Groups : /\ done'[k] = IF k = g /\ e > done[g] THEN e ELSE done[k]
                                /\ stage'[k] = IF k = g THEN "wait" ELSE stage[k]
           /\ queued[g][e] > 0
           /\ \A k \in Groups, f \in Events :
                 queued'[k][f] = IF k = g /\ f = e THEN queued[k][f] - 1 ELSE queued[k][f]
  <1>1. /\ queued' = [queued EXCEPT ![g] = Without(queued[g], e)] /\ queued[g][e] > 0
        /\ done' = [done EXCEPT ![g] = IF e > done[g] THEN e ELSE done[g]]
        /\ stage' = [stage EXCEPT ![g] = "wait"]
    BY DEF Marked, First
  <1>2. \A f \in Events : Without(queued[g], e)[f]
                             = IF f = e THEN queued[g][f] - 1 ELSE queued[g][f]
    BY <1>1, WithoutCounts DEF MessageTypes
  <1> HIDE DEF Events
  <1> QED
    BY <1>1, <1>2 DEF SessionTypes, MessageTypes

\* A mark stays below the last event handed over.
LEMMA CommitOrder ==
    ASSUME KafkaTypes, SessionTypes, MessageTypes, InOrder, Sessions,
           NEW g \in Groups, CommitUpto(g)
    PROVE  InOrder'
  <1>1. PICK e \in Events : Marked(g, e)
    BY DEF CommitUpto
  <1>2. written' = written /\ last' = last /\ next' = next /\ phase' = phase
    BY <1>1 DEF Marked, kafka
  <1>3. /\ \A k \in Groups : /\ done'[k] = IF k = g /\ e > done[g] THEN e ELSE done[k]
                             /\ stage'[k] = IF k = g THEN "wait" ELSE stage[k]
        /\ queued[g][e] > 0
        /\ \A k \in Groups, f \in Events :
              queued'[k][f] = IF k = g /\ f = e THEN queued[k][f] - 1 ELSE queued[k][f]
    BY <1>1, MarkedCounts
  <1>4. e <= last[g] /\ last[g] <= written
    BY <1>3 DEF Sessions, InOrder
  <1>5. e \in Nat /\ last[g] \in Nat /\ written \in Nat
    BY DEF Events, SessionTypes, KafkaTypes
  <1> SUFFICES ASSUME NEW k \in Groups
               PROVE  /\ done'[k] <= written' /\ last'[k] <= written' /\ next'[k] <= written' + 1
                      /\ stage'[k] # "wait" => Reading(k)' /\ \E f \in Events : queued'[k][f] > 0
    BY DEF InOrder
  <1>6. /\ done[k] <= written /\ last[k] <= written /\ next[k] <= written + 1
        /\ stage[k] # "wait" => Reading(k) /\ \E f \in Events : queued[k][f] > 0
    BY DEF InOrder
  <1>7. Reading(k)' = Reading(k)
    BY <1>2 DEF Reading
  <1>8. CASE k = g
    BY <1>2, <1>3, <1>4, <1>5, <1>6, <1>8
  <1>9. CASE k # g
    BY <1>2, <1>3, <1>6, <1>7, <1>9
  <1> QED
    BY <1>8, <1>9

\* Every step keeps messages in order.
LEMMA OrderTypeStep ==
    ASSUME KafkaTypes, SessionTypes, MessageTypes, InOrder, Sessions, [Next]_vars
    PROVE  InOrder'
  <1> USE DeliveryAssumption DEF KafkaTypes, SessionTypes, MessageTypes, InOrder, Sessions,
              Reading, Events, kafka, reader, session, nodes, manager, bounds, history
  <1>1. CASE Produce
    <2> SUFFICES ASSUME NEW k \in Groups
                 PROVE  /\ done'[k] <= written' /\ last'[k] <= written' /\ next'[k] <= written' + 1
                        /\ stage'[k] # "wait" => Reading(k)' /\ \E f \in Events : queued'[k][f] > 0
      BY DEF InOrder
    <2>1. /\ written' = written + 1 /\ written \in Nat /\ done' = done /\ last' = last
          /\ next' = next /\ stage' = stage /\ phase' = phase /\ queued' = queued
          /\ done[k] \in Nat /\ last[k] \in Nat /\ next[k] \in Nat
      BY <1>1 DEF Produce
    <2>2. done[k] <= written /\ last[k] <= written /\ next[k] <= written + 1
      OBVIOUS
    <2> QED
      BY <2>1, <2>2
  <1>2. CASE Boot
    BY <1>2 DEF Boot, InitProducers, CallFails, Fault
  <1>3. CASE Refresh
    BY <1>3 DEF Refresh, CallFails, Fault
  <1>4. CASE Crash
    BY <1>4 DEF Crash, Dies, Forgotten, Fault
  <1>5. ASSUME NEW g \in Groups, NEW r \in BOOLEAN, Join(g, r) PROVE InOrder'
    BY <1>5 DEF Join
  <1>6. ASSUME NEW g \in Groups, Begin(g) PROVE InOrder'
    <2> SUFFICES ASSUME NEW k \in Groups
                 PROVE  /\ done'[k] <= written' /\ last'[k] <= written' /\ next'[k] <= written' + 1
                        /\ stage'[k] # "wait" => Reading(k)' /\ \E f \in Events : queued'[k][f] > 0
      BY DEF InOrder
    <2>1. /\ done'[k] = (IF k = g THEN Start(g) ELSE done[k]) /\ written' = written
          /\ Start(g) \in Nat /\ Start(g) <= written /\ written \in Nat
          /\ last' = last /\ stage' = stage /\ queued' = queued
      BY <1>6 DEF Begin, Start
    <2>2. next'[k] \in {next[k], Start(g) + 1, written + 1}
      BY <1>6, <2>1, BeginCounts
    <2>3. done[k] <= written /\ last[k] <= written /\ next[k] <= written + 1
      OBVIOUS
    <2>4. next'[k] <= written + 1
      BY <2>1, <2>2, <2>3
    <2>5. Reading(k) => Reading(k)'
      BY <1>6 DEF Begin
    <2>6. stage[k] # "wait" => Reading(k) /\ \E f \in Events : queued[k][f] > 0
      OBVIOUS
    <2> QED
      BY <2>1, <2>3, <2>4, <2>5, <2>6
  <1>7. ASSUME NEW g \in Groups, Fetch(g) PROVE InOrder'
    BY <1>7, FetchOrder
  <1>8. ASSUME NEW g \in Groups, Reestablish(g) PROVE InOrder'
    <2> SUFFICES ASSUME NEW k \in Groups
                 PROVE  /\ done'[k] <= written' /\ last'[k] <= written' /\ next'[k] <= written' + 1
                        /\ stage'[k] # "wait" => Reading(k)' /\ \E f \in Events : queued'[k][f] > 0
      BY DEF InOrder
    <2>1. /\ written' = written /\ done' = done /\ last' = last
          /\ stage' = stage /\ phase' = phase /\ queued' = queued
      BY <1>8 DEF Reestablish
    <2>2. next'[k] \in {next[k], last[k], written + 1}
      BY <1>8, ReestablishCounts
    <2>3. /\ done[k] <= written /\ last[k] <= written /\ next[k] <= written + 1
          /\ written \in Nat /\ last[k] \in Nat
      OBVIOUS
    <2> HIDE DEF InOrder, Sessions, Reading, Events, KafkaTypes, SessionTypes, MessageTypes
    <2>4. Reading(k)' = Reading(k)
      BY <2>1 DEF Reading
    <2>5. stage[k] # "wait" => Reading(k) /\ \E f \in Events : queued[k][f] > 0
      BY DEF InOrder
    <2> QED
      BY <2>1, <2>2, <2>3, <2>4, <2>5
  <1>9. ASSUME NEW g \in Groups, GivesUp(g) PROVE InOrder'
    BY <1>9 DEF GivesUp, Fault
  <1>10. ASSUME NEW g \in Groups, Count(g) PROVE InOrder'
    BY <1>10 DEF Count
  <1>11. ASSUME NEW g \in Groups, Enqueue(g) PROVE InOrder'
    BY <1>11 DEF Enqueue
  <1>12. ASSUME NEW g \in Groups, CommitUpto(g) PROVE InOrder'
    BY <1>12, CommitOrder
  <1>13. ASSUME NEW g \in Groups, Flush(g) PROVE InOrder'
    BY <1>13 DEF Flush, Flushed, Fault
  <1>14. ASSUME NEW g \in Groups, Close(g) PROVE InOrder'
    BY <1>14 DEF Close, Closing
  <1>15. ASSUME NEW g \in Groups, CloseUnread(g) PROVE InOrder'
    <2>1. Ended(g) /\ written' = written
      BY <1>15 DEF CloseUnread, EndedUncommitted
    <2> QED
      BY <2>1, EndedOrder
  <1>16. ASSUME NEW g \in Groups, CloseStalled(g) PROVE InOrder'
    <2>1. Ended(g) /\ written' = written
      BY <1>16 DEF CloseStalled, EndedUncommitted
    <2> QED
      BY <2>1, EndedOrder
  <1>17. ASSUME NEW g \in Groups, Closed(g) PROVE InOrder'
    <2>1. Ended(g) /\ written' = written
      BY <1>17 DEF Closed, EndedUncommitted
    <2> QED
      BY <2>1, EndedOrder
  <1>18. ASSUME NEW g \in Groups, CloseTimesOut(g) PROVE InOrder'
    <2>1. Ended(g) /\ written' = written
      BY <1>18 DEF CloseTimesOut, EndedUncommitted
    <2> QED
      BY <2>1, EndedOrder
  <1>19. ASSUME NEW g \in Groups, CommitFails(g) PROVE InOrder'
    <2>1. Ended(g) /\ written' = written
      BY <1>19 DEF CommitFails, EndedUncommitted
    <2> QED
      BY <2>1, EndedOrder
  <1>20. ASSUME NEW g \in Groups, LateEnqueue(g) PROVE InOrder'
    BY <1>20 DEF LateEnqueue
  <1>21. ASSUME NEW g \in Groups, IndexOutOfRange(g) PROVE InOrder'
    BY <1>21 DEF IndexOutOfRange, Dies, Forgotten
  <1>22. ASSUME NEW n \in Nsqds, Visit(n) PROVE InOrder'
    BY <1>22 DEF Visit, CallFails, Fault
  <1>23. ASSUME NEW n \in Nsqds, NsqdStops(n) PROVE InOrder'
    BY <1>23 DEF NsqdStops, NodesChange, Fault
  <1>24. ASSUME NEW n \in Nsqds, NsqdStarts(n) PROVE InOrder'
    BY <1>24 DEF NsqdStarts, NodesChange, Fault
  <1>25. ASSUME NEW n \in Nsqds, Noticed(n) PROVE InOrder'
    BY <1>25 DEF Noticed, NodesChange
  <1>26. CASE UNCHANGED vars
    BY <1>26 DEF vars
  <1> HIDE DEF KafkaTypes, SessionTypes, MessageTypes, InOrder, Sessions, Reading, Events
  <1> QED
    BY <1>1, <1>2, <1>3, <1>4, <1>5, <1>6, <1>7, <1>8, <1>9, <1>10,
       <1>11, <1>12, <1>13, <1>14, <1>15, <1>16, <1>17, <1>18, <1>19, <1>20,
       <1>21, <1>22, <1>23, <1>24, <1>25, <1>26 DEF Next

\* Every step keeps the types of nodes and bounds.
LEMMA NodeTypeStep ==
    ASSUME NodeTypes, [Next]_vars
    PROVE  NodeTypes'
  <1> USE DeliveryAssumption DEF NodeTypes, kafka, reader, session, nodes, manager, bounds, history
  <1>1. CASE Produce
    BY <1>1 DEF Produce
  <1>2. CASE Boot
    BY <1>2 DEF Boot, InitProducers, CallFails, Fault
  <1>3. CASE Refresh
    BY <1>3 DEF Refresh, CallFails, Fault
  <1>4. CASE Crash
    BY <1>4 DEF Crash, Dies, Forgotten, Fault
  <1>5. ASSUME NEW g \in Groups, NEW r \in BOOLEAN, Join(g, r) PROVE NodeTypes'
    BY <1>5 DEF Join
  <1>6. ASSUME NEW g \in Groups, Begin(g) PROVE NodeTypes'
    BY <1>6 DEF Begin, Start, AtNewest, Fault
  <1>7. ASSUME NEW g \in Groups, Fetch(g) PROVE NodeTypes'
    BY <1>7 DEF Fetch
  <1>8. ASSUME NEW g \in Groups, Reestablish(g) PROVE NodeTypes'
    BY <1>8 DEF Reestablish, AtNewest, Fault
  <1>9. ASSUME NEW g \in Groups, GivesUp(g) PROVE NodeTypes'
    BY <1>9 DEF GivesUp, Fault
  <1>10. ASSUME NEW g \in Groups, Count(g) PROVE NodeTypes'
    BY <1>10 DEF Count
  <1>11. ASSUME NEW g \in Groups, Enqueue(g) PROVE NodeTypes'
    BY <1>11 DEF Enqueue
  <1>12. ASSUME NEW g \in Groups, CommitUpto(g) PROVE NodeTypes'
    BY <1>12 DEF CommitUpto, Marked
  <1>13. ASSUME NEW g \in Groups, Flush(g) PROVE NodeTypes'
    BY <1>13 DEF Flush, Flushed, Fault
  <1>14. ASSUME NEW g \in Groups, Close(g) PROVE NodeTypes'
    BY <1>14 DEF Close, Closing
  <1>15. ASSUME NEW g \in Groups, CloseUnread(g) PROVE NodeTypes'
    BY <1>15 DEF CloseUnread, Closing, Ended, Forgotten
  <1>16. ASSUME NEW g \in Groups, CloseStalled(g) PROVE NodeTypes'
    BY <1>16 DEF CloseStalled, Closing, EndedUncommitted, Ended, Forgotten
  <1>17. ASSUME NEW g \in Groups, Closed(g) PROVE NodeTypes'
    BY <1>17 DEF Closed, Ended, Forgotten, Flushed
  <1>18. ASSUME NEW g \in Groups, CloseTimesOut(g) PROVE NodeTypes'
    BY <1>18 DEF CloseTimesOut, EndedUncommitted, Ended, Forgotten, Fault
  <1>19. ASSUME NEW g \in Groups, CommitFails(g) PROVE NodeTypes'
    BY <1>19 DEF CommitFails, EndedUncommitted, Ended, Forgotten, Fault
  <1>20. ASSUME NEW g \in Groups, LateEnqueue(g) PROVE NodeTypes'
    BY <1>20 DEF LateEnqueue
  <1>21. ASSUME NEW g \in Groups, IndexOutOfRange(g) PROVE NodeTypes'
    BY <1>21 DEF IndexOutOfRange, Dies, Forgotten
  <1>22. ASSUME NEW n \in Nsqds, Visit(n) PROVE NodeTypes'
    BY <1>22 DEF Visit, CallFails, Fault
  <1>23. ASSUME NEW n \in Nsqds, NsqdStops(n) PROVE NodeTypes'
    BY <1>23 DEF NsqdStops, NodesChange, Fault
  <1>24. ASSUME NEW n \in Nsqds, NsqdStarts(n) PROVE NodeTypes'
    BY <1>24 DEF NsqdStarts, NodesChange, Fault
  <1>25. ASSUME NEW n \in Nsqds, Noticed(n) PROVE NodeTypes'
    BY <1>25 DEF Noticed, NodesChange
  <1>26. CASE UNCHANGED vars
    BY <1>26 DEF vars
  <1> HIDE DEF NodeTypes
  <1> QED
    BY <1>1, <1>2, <1>3, <1>4, <1>5, <1>6, <1>7, <1>8, <1>9, <1>10,
       <1>11, <1>12, <1>13, <1>14, <1>15, <1>16, <1>17, <1>18, <1>19, <1>20,
       <1>21, <1>22, <1>23, <1>24, <1>25, <1>26 DEF Next

\* Every step keeps Booleans.
LEMMA BooleanTypeStep ==
    ASSUME Booleans, [Next]_vars
    PROVE  Booleans'
  <1> USE DEF Booleans, kafka, reader, session, nodes, manager, bounds, history
  <1>1. CASE Produce
    BY <1>1 DEF Produce
  <1>2. CASE Boot
    BY <1>2 DEF Boot, InitProducers, CallFails, Fault
  <1>3. CASE Refresh
    BY <1>3 DEF Refresh, CallFails, Fault
  <1>4. CASE Crash
    BY <1>4 DEF Crash, Dies, Forgotten, Fault
  <1>5. ASSUME NEW g \in Groups, NEW r \in BOOLEAN, Join(g, r) PROVE Booleans'
    BY <1>5 DEF Join
  <1>6. ASSUME NEW g \in Groups, Begin(g) PROVE Booleans'
    BY <1>6 DEF Begin, Start, AtNewest, Fault
  <1>7. ASSUME NEW g \in Groups, Fetch(g) PROVE Booleans'
    BY <1>7 DEF Fetch
  <1>8. ASSUME NEW g \in Groups, Reestablish(g) PROVE Booleans'
    BY <1>8 DEF Reestablish, AtNewest, Fault
  <1>9. ASSUME NEW g \in Groups, GivesUp(g) PROVE Booleans'
    BY <1>9 DEF GivesUp, Fault
  <1>10. ASSUME NEW g \in Groups, Count(g) PROVE Booleans'
    BY <1>10 DEF Count
  <1>11. ASSUME NEW g \in Groups, Enqueue(g) PROVE Booleans'
    BY <1>11 DEF Enqueue
  <1>12. ASSUME NEW g \in Groups, CommitUpto(g) PROVE Booleans'
    BY <1>12 DEF CommitUpto, Marked
  <1>13. ASSUME NEW g \in Groups, Flush(g) PROVE Booleans'
    BY <1>13 DEF Flush, Flushed, Fault
  <1>14. ASSUME NEW g \in Groups, Close(g) PROVE Booleans'
    BY <1>14 DEF Close, Closing
  <1>15. ASSUME NEW g \in Groups, CloseUnread(g) PROVE Booleans'
    BY <1>15 DEF CloseUnread, Closing, Ended, Forgotten
  <1>16. ASSUME NEW g \in Groups, CloseStalled(g) PROVE Booleans'
    BY <1>16 DEF CloseStalled, Closing, EndedUncommitted, Ended, Forgotten
  <1>17. ASSUME NEW g \in Groups, Closed(g) PROVE Booleans'
    BY <1>17 DEF Closed, Ended, Forgotten, Flushed
  <1>18. ASSUME NEW g \in Groups, CloseTimesOut(g) PROVE Booleans'
    BY <1>18 DEF CloseTimesOut, EndedUncommitted, Ended, Forgotten, Fault
  <1>19. ASSUME NEW g \in Groups, CommitFails(g) PROVE Booleans'
    BY <1>19 DEF CommitFails, EndedUncommitted, Ended, Forgotten, Fault
  <1>20. ASSUME NEW g \in Groups, LateEnqueue(g) PROVE Booleans'
    BY <1>20 DEF LateEnqueue
  <1>21. ASSUME NEW g \in Groups, IndexOutOfRange(g) PROVE Booleans'
    BY <1>21 DEF IndexOutOfRange, Dies, Forgotten
  <1>22. ASSUME NEW n \in Nsqds, Visit(n) PROVE Booleans'
    BY <1>22 DEF Visit, CallFails, Fault
  <1>23. ASSUME NEW n \in Nsqds, NsqdStops(n) PROVE Booleans'
    BY <1>23 DEF NsqdStops, NodesChange, Fault
  <1>24. ASSUME NEW n \in Nsqds, NsqdStarts(n) PROVE Booleans'
    BY <1>24 DEF NsqdStarts, NodesChange, Fault
  <1>25. ASSUME NEW n \in Nsqds, Noticed(n) PROVE Booleans'
    BY <1>25 DEF Noticed, NodesChange
  <1>26. CASE UNCHANGED vars
    BY <1>26 DEF vars
  <1> HIDE DEF Booleans
  <1> QED
    BY <1>1, <1>2, <1>3, <1>4, <1>5, <1>6, <1>7, <1>8, <1>9, <1>10,
       <1>11, <1>12, <1>13, <1>14, <1>15, <1>16, <1>17, <1>18, <1>19, <1>20,
       <1>21, <1>22, <1>23, <1>24, <1>25, <1>26 DEF Next

\* Every step keeps the types.
LEMMA TypeStep ==
    ASSUME TypeOK, Sessions, [Next]_vars
    PROVE  TypeOK'
  <1>1. KafkaTypes /\ SessionTypes /\ MessageTypes /\ InOrder /\ NodeTypes /\ Booleans
    BY TypeParts
  <1>2. KafkaTypes' /\ SessionTypes' /\ MessageTypes' /\ InOrder' /\ NodeTypes' /\ Booleans'
    BY <1>1, KafkaTypeStep, SessionTypeStep, MessageTypeStep, OrderTypeStep, NodeTypeStep,
       BooleanTypeStep
  <1> QED
    BY <1>2 DEF TypeOK, KafkaTypes, SessionTypes, MessageTypes, InOrder, NodeTypes, Booleans

\* The parts of Sessions, for one group.
Session(g) ==
    /\ phase[g] # "closed" => up
    /\ \A e \in Events : late[g][e] > 0 => up
    /\ stored[g] # None => stored[g] <= written
    /\ Reading(g) => /\ committed[g] <= done[g]
                     /\ stored[g] # None => committed[g] <= stored[g] /\ stored[g] <= done[g]
    /\ ~Reading(g) => last[g] = 0
    /\ \A e \in Events : queued[g][e] > 0 => Reading(g) /\ e <= last[g]
    /\ phase[g] = "open" => 1 <= next[g] /\ last[g] <= next[g]

\* Sessions, group by group.
LEMMA SessionParts == Sessions <=> \A g \in Groups : Session(g)
  BY DEF Sessions, Session

\* A group whose variables a step leaves alone keeps its session.
LEMMA SameSession ==
    ASSUME NEW k \in Groups, Session(k), up' = up, written <= written', written \in Nat,
           written' \in Nat, stored[k] \in {None} \cup Nat,
           phase'[k] = phase[k], committed'[k] = committed[k], done'[k] = done[k],
           next'[k] = next[k], last'[k] = last[k], queued'[k] = queued[k],
           stored'[k] = stored[k], \A e \in Events : late'[k][e] > 0 => late[k][e] > 0
    PROVE  Session(k)'
  <1>1. Reading(k)' = Reading(k)
    BY DEF Reading
  <1> QED
    BY <1>1 DEF Session

\* A stream starts between the stored offset and the end of the partition.
LEMMA BeginSession ==
    ASSUME TypeOK, Sessions, NEW g \in Groups, Begin(g)
    PROVE  Sessions'
  <1>1. KafkaTypes /\ SessionTypes
    BY TypeParts
  <1>2. /\ up' = up /\ late' = late /\ stored' = stored /\ written' = written /\ last' = last
        /\ queued' = queued /\ phase[g] = "joining"
        /\ phase' = [phase EXCEPT ![g] = "open"]
        /\ committed' = [committed EXCEPT ![g] = Start(g)] /\ done' = [done EXCEPT ![g] = Start(g)]
    BY DEF Begin, kafka
  <1>3. /\ written \in Nat /\ \A k \in Groups : stored[k] \in {None} \cup Nat
    BY <1>1 DEF KafkaTypes
  <1>4. \A k \in Groups : Session(k)
    BY SessionParts
  <1>5. ASSUME NEW k \in Groups \ {g} PROVE Session(k)'
    BY <1>1, <1>2, <1>3, <1>4, BeginCounts, SameSession DEF SessionTypes
  <1>6. Session(g)'
    <2>1. Start(g) \in Nat /\ Start(g) <= written
      BY <1>3, <1>4 DEF Start, Session
    <2>2. next'[g] \in {Start(g) + 1, written + 1}
      BY <1>1, <2>1, BeginCounts
    <2>3. last[g] = 0 /\ \A e \in Events : ~(queued[g][e] > 0)
      BY <1>2, <1>4 DEF Session, Reading
    <2>4. phase'[g] = "open" /\ committed'[g] = Start(g) /\ done'[g] = Start(g)
      BY <1>1, <1>2 DEF SessionTypes
    <2>5. Reading(g)'
      BY <2>4 DEF Reading
    <2> QED
      BY <1>2, <1>3, <1>4, <2>1, <2>2, <2>3, <2>4, <2>5 DEF Session, Start
  <1> QED
    BY <1>5, <1>6 DEF Sessions, Session

\* What is fetched becomes the last event handed over.
LEMMA FetchSession ==
    ASSUME TypeOK, Sessions, NEW g \in Groups, Fetch(g)
    PROVE  Sessions'
  <1>1. KafkaTypes /\ SessionTypes /\ MessageTypes /\ InOrder
    BY TypeParts
  <1>2. /\ up' = up /\ late' = late /\ stored' = stored /\ written' = written /\ phase' = phase
        /\ committed' = committed /\ done' = done
        /\ last' = [last EXCEPT ![g] = next[g]] /\ next' = [next EXCEPT ![g] = next[g] + 1]
        /\ phase[g] = "open"
    BY DEF Fetch, kafka
  <1>3. \A k \in Groups : Session(k)
    BY SessionParts
  <1>4. ASSUME NEW k \in Groups PROVE Session(k)'
    <2>1. Reading(k)' = Reading(k)
      BY <1>2 DEF Reading
    <2>2. /\ \A e \in Events : queued'[k][e] = IF k = g /\ e = next[g] THEN queued[k][e] + 1
                                               ELSE queued[k][e]
          /\ next[g] \in Events
      BY <1>1, FetchOrder
    <2>3. CASE k = g
      <3>1. last'[k] = next[k] /\ next'[k] = next[k] + 1 /\ next[k] \in Nat /\ last[k] \in Nat
        BY <1>1, <1>2, <2>3 DEF SessionTypes
      <3>2. 1 <= next[k] /\ last[k] <= next[k] /\ Reading(k)
        BY <1>2, <1>3, <2>3 DEF Session, Reading
      <3>3. ASSUME NEW e \in Events, queued'[k][e] > 0 PROVE Reading(k)' /\ e <= last'[k]
        <4>1. e \in Nat
          BY DEF Events
        <4>2. CASE e = next[k]
          BY <2>1, <3>1, <3>2, <4>1, <4>2
        <4>3. CASE e # next[k]
          <5>1. e <= last[k]
            BY <1>3, <2>2, <2>3, <3>3, <4>3 DEF Session
          <5> QED
            BY <2>1, <3>1, <3>2, <4>1, <5>1
        <4> QED
          BY <4>2, <4>3
      <3> QED
        BY <1>2, <1>3, <2>1, <3>1, <3>2, <3>3 DEF Session
    <2>4. CASE k # g
      <3>1. last'[k] = last[k] /\ next'[k] = next[k]
        BY <1>1, <1>2, <2>4 DEF SessionTypes
      <3> QED
        BY <1>2, <1>3, <2>1, <2>2, <2>4, <3>1 DEF Session
    <2> QED
      BY <2>3, <2>4
  <1> QED
    BY <1>4 DEF Sessions, Session

\* A stream starts again at the last event handed over or beyond.
LEMMA ReestablishSession ==
    ASSUME TypeOK, Sessions, NEW g \in Groups, Reestablish(g)
    PROVE  Sessions'
  <1>1. KafkaTypes /\ SessionTypes /\ InOrder
    BY TypeParts
  <1>2. /\ up' = up /\ late' = late /\ stored' = stored /\ written' = written /\ phase' = phase
        /\ committed' = committed /\ done' = done /\ last' = last /\ queued' = queued
    BY DEF Reestablish, kafka
  <1>3. ASSUME NEW k \in Groups PROVE Session(k)'
    <2>1. Reading(k)' = Reading(k)
      BY <1>2 DEF Reading
    <2>2. next'[k] = next[k] \/ (next'[k] = last[k] /\ last[k] # 0) \/ next'[k] = written + 1
      BY <1>1, ReestablishCounts
    <2>3. last[k] \in Nat /\ written \in Nat /\ last[k] <= written
      BY <1>1 DEF KafkaTypes, SessionTypes, InOrder
    <2>4. Session(k)
      BY SessionParts
    <2> QED
      BY <1>2, <2>1, <2>2, <2>3, <2>4 DEF Session
  <1> QED
    BY <1>3 DEF Sessions, Session

\* A mark moves up to the last event handed over at most.
LEMMA CommitSession ==
    ASSUME TypeOK, Sessions, NEW g \in Groups, CommitUpto(g)
    PROVE  Sessions'
  <1>1. KafkaTypes /\ SessionTypes /\ MessageTypes
    BY TypeParts
  <1>2. PICK e \in Events : Marked(g, e)
    BY DEF CommitUpto
  <1>3. /\ up' = up /\ late' = late /\ stored' = stored /\ written' = written /\ phase' = phase
        /\ committed' = committed /\ last' = last /\ next' = next
    BY <1>2 DEF Marked, kafka
  <1>4. ASSUME NEW k \in Groups PROVE Session(k)'
    <2>1. Reading(k)' = Reading(k)
      BY <1>3 DEF Reading
    <2>2. /\ done'[k] = IF k = g /\ e > done[g] THEN e ELSE done[k]
          /\ \A f \in Events : queued'[k][f] = IF k = g /\ f = e THEN queued[k][f] - 1
                                               ELSE queued[k][f]
      BY <1>1, <1>2, MarkedCounts
    <2>7. e \in Nat
      BY DEF Events
    <2>8. \A f \in Events : queued[k][f] \in Nat
      BY <1>1 DEF MessageTypes
    <2>3. /\ e \in Nat /\ done[k] \in Nat /\ committed[k] \in Nat /\ stored[k] \in {None} \cup Nat
          /\ \A f \in Events : queued[k][f] \in Nat
      BY <1>1, <2>7, <2>8 DEF KafkaTypes, SessionTypes
    <2>4. Session(k)
      BY SessionParts
    <2>5. done[k] \in Nat /\ done'[k] \in Nat /\ done[k] <= done'[k]
      BY <2>2, <2>3
    <2>6. \A f \in Events : queued'[k][f] > 0 => queued[k][f] > 0
      BY <2>2, <2>3
    <2> QED
      BY <1>3, <2>1, <2>3, <2>4, <2>5, <2>6 DEF Session
  <1> QED
    BY <1>4 DEF Sessions, Session

\* ZooKeeper gets the mark of the session.
LEMMA FlushSession ==
    ASSUME TypeOK, Sessions, NEW g \in Groups, Flush(g)
    PROVE  Sessions'
  <1>1. KafkaTypes /\ SessionTypes /\ InOrder
    BY TypeParts
  <1>2. /\ up' = up /\ late' = late /\ written' = written /\ phase' = phase
        /\ done' = done /\ last' = last /\ next' = next /\ queued' = queued
        /\ Reading(g) /\ done[g] > committed[g]
        /\ stored' = [stored EXCEPT ![g] = done[g]]
        /\ committed' = [committed EXCEPT ![g] = done[g]] \/ committed' = committed
    BY DEF Flush, Flushed
  <1>3. ASSUME NEW k \in Groups PROVE Session(k)'
    <2>1. Reading(k)' = Reading(k)
      BY <1>2 DEF Reading
    <2>2. Session(k)
      BY SessionParts
    <2>3. /\ done[k] \in Nat /\ committed[k] \in Nat /\ stored[k] \in {None} \cup Nat
          /\ done[k] <= written
      BY <1>1 DEF KafkaTypes, SessionTypes, InOrder
    <2>4. CASE k = g
      <3>1. stored'[k] = done[k] /\ committed'[k] \in {done[k], committed[k]}
        BY <1>1, <1>2, <2>4 DEF KafkaTypes, SessionTypes
      <3> QED
        BY <1>2, <2>1, <2>2, <2>3, <2>4, <3>1 DEF Session
    <2>5. CASE k # g
      <3>1. stored'[k] = stored[k] /\ committed'[k] = committed[k]
        BY <1>1, <1>2, <2>5 DEF KafkaTypes, SessionTypes
      <3> QED
        BY <1>2, <2>1, <2>2, <3>1 DEF Session
    <2> QED
      BY <2>4, <2>5
  <1> QED
    BY <1>3 DEF Sessions, Session

\* However the consumer is closed, its session is over.
LEMMA EndedSession ==
    ASSUME TypeOK, Sessions, NEW g \in Groups, Ended(g), phase[g] # "closed",
           up' = up, written' = written,
           stored' = stored \/ (Reading(g) /\ stored' = [stored EXCEPT ![g] = Flushed(g)])
    PROVE  Sessions'
  <1>1. KafkaTypes /\ SessionTypes /\ MessageTypes /\ InOrder
    BY TypeParts
  <1>2. \A k \in Groups : Session(k)
    BY SessionParts
  <1>3. ASSUME NEW k \in Groups PROVE stored'[k] = stored[k] \/ (k = g /\ stored'[k] = done[k])
    BY <1>1, <1>3 DEF Flushed, KafkaTypes
  <1>4. Session(g)'
    <2>1. ~Reading(g)' /\ last'[g] = 0 /\ phase'[g] = "closed" /\ queued'[g] = NoMessages
      BY <1>1, EndedGroups DEF Reading
    <2>2. \A e \in Events : ~(queued'[g][e] > 0)
      BY <2>1 DEF NoMessages
    <2>3. up
      BY <1>2 DEF Session
    <2>4. done[g] <= written
      BY <1>1 DEF InOrder
    <2> QED
      BY <1>2, <1>3, <2>1, <2>2, <2>3, <2>4 DEF Session
  <1>5. ASSUME NEW k \in Groups \ {g} PROVE Session(k)'
    <2>1. stored'[k] = stored[k]
      BY <1>3
    <2>2. written \in Nat /\ stored[k] \in {None} \cup Nat
      BY <1>1 DEF KafkaTypes
    <2> QED
      BY <1>1, <1>2, <2>1, <2>2, EndedGroups, SameSession
  <1> QED
    BY <1>4, <1>5 DEF Sessions, Session

\* A process that ends leaves no session and no late message.
LEMMA DeathSession ==
    ASSUME TypeOK, Sessions, Dies
    PROVE  Sessions'
  <1>1. ASSUME NEW k \in Groups PROVE Session(k)'
    <2>1. /\ phase'[k] = "closed" /\ last'[k] = 0 /\ queued'[k] = NoMessages
          /\ late'[k] = NoMessages /\ stored' = stored /\ written' = written
      BY DEF Dies, Forgotten, kafka
    <2>2. \A e \in Events : ~(queued'[k][e] > 0) /\ ~(late'[k][e] > 0)
      BY <2>1 DEF NoMessages
    <2>3. ~Reading(k)'
      BY <2>1 DEF Reading
    <2>4. Session(k)
      BY SessionParts
    <2> QED
      BY <2>1, <2>2, <2>3, <2>4 DEF Session
  <1> QED
    BY <1>1 DEF Sessions, Session

\* The loop of a closed consumer only uses its own messages up.
LEMMA LateSession ==
    ASSUME TypeOK, Sessions, NEW g \in Groups, LateEnqueue(g)
    PROVE  Sessions'
  <1>1. KafkaTypes /\ SessionTypes /\ MessageTypes
    BY TypeParts
  <1>2. PICK e \in Events : late' = [late EXCEPT ![g] = Without(late[g], e)] /\ late[g][e] > 0
    BY DEF LateEnqueue, First
  <1>3. /\ up' = up /\ stored' = stored /\ written' = written /\ phase' = phase /\ done' = done
        /\ committed' = committed /\ last' = last /\ next' = next /\ queued' = queued
    BY DEF LateEnqueue, kafka, reader
  <1>4. ASSUME NEW k \in Groups PROVE Session(k)'
    <2>1. \A f \in Events : late'[k][f] > 0 => late[k][f] > 0
      <3>1. \A f \in Events : Without(late[g], e)[f]
                                 = (IF f = e THEN late[g][f] - 1 ELSE late[g][f])
        BY <1>1, <1>2, WithoutCounts DEF MessageTypes
      <3>2. late'[k] = IF k = g THEN Without(late[g], e) ELSE late[k]
        BY <1>1, <1>2 DEF MessageTypes
      <3> QED
        BY <1>1, <3>1, <3>2 DEF MessageTypes
    <2>2. written \in Nat /\ stored[k] \in {None} \cup Nat
      BY <1>1 DEF KafkaTypes
    <2>3. Session(k)
      BY SessionParts
    <2> QED
      BY <1>3, <2>1, <2>2, <2>3, SameSession
  <1> QED
    BY <1>4 DEF Sessions, Session

\* Every step keeps sessions and offsets together.
LEMMA SessionStep ==
    ASSUME TypeOK, Sessions, [Next]_vars
    PROVE  Sessions'
  <1> USE DeliveryAssumption DEF TypeOK, Sessions, Reading, kafka, reader, session, nodes,
              manager, bounds, history
  <1>1. CASE Produce
    BY <1>1 DEF Produce
  <1>2. CASE Boot
    BY <1>2 DEF Boot, InitProducers, CallFails, Fault
  <1>3. CASE Refresh
    BY <1>3 DEF Refresh, CallFails, Fault
  <1>4. CASE Crash
    BY <1>4, DeathSession DEF Crash
  <1>5. ASSUME NEW g \in Groups, NEW r \in BOOLEAN, Join(g, r) PROVE Sessions'
    BY <1>5 DEF Join
  <1>6. ASSUME NEW g \in Groups, Begin(g) PROVE Sessions'
    BY <1>6, BeginSession
  <1>7. ASSUME NEW g \in Groups, Fetch(g) PROVE Sessions'
    BY <1>7, FetchSession
  <1>8. ASSUME NEW g \in Groups, Reestablish(g) PROVE Sessions'
    BY <1>8, ReestablishSession
  <1>9. ASSUME NEW g \in Groups, GivesUp(g) PROVE Sessions'
    BY <1>9 DEF GivesUp, Fault
  <1>10. ASSUME NEW g \in Groups, Count(g) PROVE Sessions'
    BY <1>10 DEF Count
  <1>11. ASSUME NEW g \in Groups, Enqueue(g) PROVE Sessions'
    BY <1>11 DEF Enqueue
  <1>12. ASSUME NEW g \in Groups, CommitUpto(g) PROVE Sessions'
    BY <1>12, CommitSession
  <1>13. ASSUME NEW g \in Groups, Flush(g) PROVE Sessions'
    BY <1>13, FlushSession
  <1>14. ASSUME NEW g \in Groups, Close(g) PROVE Sessions'
    BY <1>14 DEF Close, Closing
  <1>15. ASSUME NEW g \in Groups, CloseUnread(g) PROVE Sessions'
    BY <1>15, EndedSession DEF CloseUnread
  <1>16. ASSUME NEW g \in Groups, CloseStalled(g) PROVE Sessions'
    BY <1>16, EndedSession DEF CloseStalled, EndedUncommitted
  <1>17. ASSUME NEW g \in Groups, Closed(g) PROVE Sessions'
    BY <1>17, EndedSession DEF Closed
  <1>18. ASSUME NEW g \in Groups, CloseTimesOut(g) PROVE Sessions'
    BY <1>18, EndedSession DEF CloseTimesOut, EndedUncommitted
  <1>19. ASSUME NEW g \in Groups, CommitFails(g) PROVE Sessions'
    BY <1>19, EndedSession DEF CommitFails, EndedUncommitted
  <1>20. ASSUME NEW g \in Groups, LateEnqueue(g) PROVE Sessions'
    BY <1>20, LateSession
  <1>21. ASSUME NEW g \in Groups, IndexOutOfRange(g) PROVE Sessions'
    BY <1>21, DeathSession DEF IndexOutOfRange
  <1>22. ASSUME NEW n \in Nsqds, Visit(n) PROVE Sessions'
    BY <1>22 DEF Visit, CallFails, Fault
  <1>23. ASSUME NEW n \in Nsqds, NsqdStops(n) PROVE Sessions'
    BY <1>23 DEF NsqdStops, NodesChange, Fault
  <1>24. ASSUME NEW n \in Nsqds, NsqdStarts(n) PROVE Sessions'
    BY <1>24 DEF NsqdStarts, NodesChange, Fault
  <1>25. ASSUME NEW n \in Nsqds, Noticed(n) PROVE Sessions'
    BY <1>25 DEF Noticed, NodesChange
  <1>26. CASE UNCHANGED vars
    BY <1>26 DEF vars
  <1> HIDE DEF TypeOK, Sessions, Reading
  <1> QED
    BY <1>1, <1>2, <1>3, <1>4, <1>5, <1>6, <1>7, <1>8, <1>9, <1>10,
       <1>11, <1>12, <1>13, <1>14, <1>15, <1>16, <1>17, <1>18, <1>19, <1>20,
       <1>21, <1>22, <1>23, <1>24, <1>25, <1>26 DEF Next

\* The parts of Handled and Accounted, for one group and event.
Settled(g, e) == e \in Out(g) \cup skipped[g]
Follows(g, e) ==
    /\ stored[g] # None /\ e <= stored[g] => Settled(g, e)
    /\ Reading(g) /\ e <= done[g] => Settled(g, e)
    /\ Reading(g) /\ (e <= last[g] \/ (phase[g] = "open" /\ e < next[g]))
          => Settled(g, e) \/ queued[g][e] > 0
    /\ stage[g] = "sent" /\ First(queued[g], e) => e \in Out(g)

\* Accounted and Handled, group by group and event by event.
LEMMA FollowParts == Accounted /\ Handled <=> \A g \in Groups, e \in Events : Follows(g, e)
  BY DEF Accounted, Handled, Follows, Settled

\* A group whose variables a step leaves alone, or that it closes.
LEMMA SameFollows ==
    ASSUME NEW k \in Groups, NEW e \in Events, Follows(k, e),
           Out(k) \subseteq Out(k)', skipped[k] \subseteq skipped'[k],
           stored'[k] = stored[k] \/ stored'[k] = None \/ (Reading(k) /\ stored'[k] = done[k]),
           \/ ~Reading(k)' /\ stage'[k] # "sent"
           \/ /\ phase'[k] = phase[k] \/ (phase[k] = "open" /\ phase'[k] \in {"stalled", "closing"})
              /\ done'[k] = done[k] /\ next'[k] = next[k] /\ last'[k] = last[k]
              /\ queued'[k] = queued[k] /\ (stage'[k] = "sent" => stage[k] = "sent")
    PROVE  Follows(k, e)'
  <1>1. Settled(k, e) => Settled(k, e)'
    BY DEF Settled
  <1>2. stored'[k] # None /\ e <= stored'[k] => Settled(k, e)'
    BY <1>1 DEF Follows
  <1>3. CASE ~Reading(k)' /\ stage'[k] # "sent"
    BY <1>2, <1>3 DEF Follows
  <1>4. CASE /\ phase'[k] = phase[k] \/ (phase[k] = "open" /\ phase'[k] \in {"stalled", "closing"})
             /\ done'[k] = done[k] /\ next'[k] = next[k] /\ last'[k] = last[k]
             /\ queued'[k] = queued[k] /\ (stage'[k] = "sent" => stage[k] = "sent")
    <2>1. Reading(k)' = Reading(k) /\ (phase'[k] = "open" => phase[k] = "open")
      BY <1>4 DEF Reading
    <2>2. First(queued[k], e)' = First(queued[k], e)
      BY <1>4 DEF First
    <2> QED
      BY <1>1, <1>2, <1>4, <2>1, <2>2 DEF Follows
  <1> QED
    BY <1>3, <1>4

\* A group whose copies and losses stay has got the same events out.
LEMMA SameOut ==
    ASSUME copies' = copies, lost' = lost, NEW k \in Groups
    PROVE  Out(k)' = Out(k)
  BY DEF Out, Published

\* What a stream does not start at has been passed over or accounted for.
LEMMA BeginFollows ==
    ASSUME TypeOK, Sessions, NEW g \in Groups, Begin(g), NEW k \in Groups, NEW e \in Events,
           Follows(k, e)
    PROVE  Follows(k, e)'
  <1>1. KafkaTypes /\ SessionTypes
    BY TypeParts
  <1>2. /\ stored' = stored /\ stage' = stage /\ last' = last /\ queued' = queued
        /\ copies' = copies /\ lost' = lost /\ written' = written
        /\ phase[g] = "joining" /\ phase' = [phase EXCEPT ![g] = "open"]
        /\ done' = [done EXCEPT ![g] = Start(g)]
    BY DEF Begin, kafka
  <1>3. Out(k)' = Out(k)
    BY <1>2, SameOut
  <1>4. skipped[k] \subseteq skipped'[k]
    BY <1>1, BeginCounts
  <1>5. CASE k # g
    <2>1. phase'[k] = phase[k] /\ done'[k] = done[k] /\ next'[k] = next[k]
      BY <1>1, <1>2, <1>5, BeginCounts DEF SessionTypes
    <2> QED
      BY <1>2, <1>3, <1>4, <2>1, SameFollows
  <1>6. CASE k = g
    <2>1. last[k] = 0 /\ stage[k] = "wait"
      BY <1>2, <1>6 DEF Sessions, TypeOK, Reading
    <2>2. done'[k] = Start(k) /\ Start(k) \in Nat /\ Start(k) <= written
      BY <1>1, <1>2, <1>6 DEF Start, Sessions, KafkaTypes, SessionTypes
    <2>3. e \in Nat /\ e >= 1
      BY DEF Events
    <2>4. e <= Start(k) => Settled(k, e)'
      <3>1. CASE stored[k] = None
        BY <1>1, <1>3, <1>6, <3>1, BeginCounts DEF Start, Settled
      <3>2. CASE stored[k] # None
        BY <1>3, <1>4, <3>2 DEF Follows, Start, Settled
      <3> QED
        BY <3>1, <3>2
    <2>5. e < next'[k] => Settled(k, e)'
      <3>1. Start(k) < e /\ e < next'[k] => Settled(k, e)'
        BY <1>1, <1>3, <1>6, BeginCounts DEF Settled
      <3> QED
        BY <2>2, <2>3, <2>4, <3>1
    <2>6. stored'[k] # None /\ e <= stored'[k] => Settled(k, e)'
      BY <1>2, <1>3, <1>4 DEF Follows, Settled
    <2> QED
      BY <1>2, <2>1, <2>2, <2>3, <2>4, <2>5, <2>6 DEF Follows
  <1> QED
    BY <1>5, <1>6

\* A fetched event is in the channel.
LEMMA FetchFollows ==
    ASSUME TypeOK, Sessions, NEW g \in Groups, Fetch(g), NEW k \in Groups, NEW e \in Events,
           Follows(k, e)
    PROVE  Follows(k, e)'
  <1>1. KafkaTypes /\ SessionTypes /\ MessageTypes /\ InOrder
    BY TypeParts
  <1>2. /\ stored' = stored /\ stage' = stage /\ copies' = copies /\ lost' = lost
        /\ skipped' = skipped /\ phase' = phase /\ done' = done
        /\ last' = [last EXCEPT ![g] = next[g]] /\ next' = [next EXCEPT ![g] = next[g] + 1]
        /\ phase[g] = "open"
    BY DEF Fetch, kafka, history
  <1>3. Out(k)' = Out(k)
    BY <1>2, SameOut
  <1>4. /\ next[g] \in Events
        /\ \A f \in Events : queued'[k][f] = IF k = g /\ f = next[g] THEN queued[k][f] + 1
                                             ELSE queued[k][f]
    BY <1>1, FetchOrder
  <1>5. Reading(k)' = Reading(k) /\ Settled(k, e)' = Settled(k, e)
    BY <1>2, <1>3 DEF Reading, Settled
  <1>6. \A f \in Events : f \in Nat
    BY DEF Events
  <1>7. \A f \in Events : queued[k][f] \in Nat
    BY <1>1 DEF MessageTypes
  <1>8. CASE k # g
    <2>1. last'[k] = last[k] /\ next'[k] = next[k]
      BY <1>1, <1>2, <1>8 DEF SessionTypes
    <2>2. \A f \in Events : queued'[k][f] = queued[k][f]
      BY <1>4, <1>8
    <2>3. First(queued[k], e)' => First(queued[k], e)
      BY <2>2 DEF First
    <2> QED
      BY <1>2, <1>3, <1>5, <2>1, <2>2, <2>3 DEF Follows
  <1>9. CASE k = g
    <2>1. last'[k] = next[k] /\ next'[k] = next[k] + 1 /\ next[k] \in Nat
      BY <1>1, <1>2, <1>9 DEF SessionTypes
    <2>2. Reading(k) /\ (e <= last'[k] \/ (phase'[k] = "open" /\ e < next'[k]))
            => Settled(k, e) \/ queued'[k][e] > 0
      <3>1. CASE e = next[k]
        BY <1>4, <1>7, <1>9, <3>1
      <3>2. CASE e # next[k]
        <4>1. e <= last'[k] \/ e < next'[k] => e < next[k]
          BY <1>6, <2>1, <3>2
        <4> QED
          BY <1>2, <1>4, <1>9, <3>2, <4>1 DEF Follows
      <3> QED
        BY <3>1, <3>2
    <2>3. stage[k] = "sent" /\ First(queued'[k], e) => First(queued[k], e)
      <3> SUFFICES ASSUME stage[k] = "sent", First(queued'[k], e)
                   PROVE  First(queued[k], e)
        OBVIOUS
      <3>1. PICK f \in Events : queued[k][f] > 0
        BY <1>1 DEF InOrder
      <3>2. \A h \in Events : queued[k][h] > 0 => h <= last[k] /\ last[k] <= next[k]
        BY <1>2, <1>9 DEF Sessions
      <3>3. last[k] \in Nat
        BY <1>1 DEF SessionTypes
      <3>4. \A h \in Events : queued[k][h] > 0 => e <= h
        BY <1>4, <1>7, <1>9 DEF First
      <3>5. queued[k][e] > 0
        <4>1. CASE e # next[k]
          BY <1>4, <1>9, <4>1 DEF First
        <4>2. CASE e = next[k]
          <5>1. f = e
            BY <1>6, <2>1, <3>1, <3>2, <3>3, <3>4, <4>2
          <5> QED
            BY <3>1, <5>1
        <4> QED
          BY <4>1, <4>2
      <3> QED
        BY <3>4, <3>5 DEF First
    <2> QED
      BY <1>2, <1>3, <1>5, <2>2, <2>3 DEF Follows
  <1> QED
    BY <1>8, <1>9

\* What a new stream leaves out has been passed over.
LEMMA ReestablishFollows ==
    ASSUME TypeOK, Sessions, NEW g \in Groups, Reestablish(g), NEW k \in Groups, NEW e \in Events,
           Follows(k, e)
    PROVE  Follows(k, e)'
  <1>1. KafkaTypes /\ SessionTypes
    BY TypeParts
  <1>2. /\ stored' = stored /\ stage' = stage /\ copies' = copies /\ lost' = lost
        /\ phase' = phase /\ done' = done /\ last' = last /\ queued' = queued
    BY DEF Reestablish, kafka
  <1>3. Out(k)' = Out(k) /\ Reading(k)' = Reading(k)
    BY <1>2, SameOut DEF Reading
  <1>4. skipped[k] \subseteq skipped'[k] /\ (k # g => next'[k] = next[k])
    BY <1>1, ReestablishCounts
  <1>5. CASE k # g
    BY <1>2, <1>3, <1>4, <1>5, SameFollows
  <1>6. CASE k = g
    <2>1. \/ next'[k] = last[k]
          \/ next'[k] = written + 1
             /\ (next[k] <= e /\ e <= written => e \in Out(k) \cup skipped'[k])
      BY <1>1, <1>6, ReestablishCounts
    <2>2. e \in Nat /\ last[k] \in Nat /\ written \in Nat /\ next[k] \in Nat
      BY <1>1 DEF KafkaTypes, SessionTypes, Events
    <2>3. Settled(k, e) => Settled(k, e)'
      BY <1>3, <1>4 DEF Settled
    <2>4. Reading(k) /\ phase[k] = "open" /\ e < next'[k] => Settled(k, e)' \/ queued[k][e] > 0
      <3>1. CASE next'[k] = last[k]
        BY <2>2, <2>3, <3>1 DEF Follows
      <3>2. CASE next'[k] = written + 1
                 /\ (next[k] <= e /\ e <= written => e \in Out(k) \cup skipped'[k])
        BY <1>3, <2>2, <2>3, <3>2 DEF Follows, Settled
      <3> QED
        BY <2>1, <3>1, <3>2
    <2>5. First(queued[k], e)' = First(queued[k], e)
      BY <1>2 DEF First
    <2> QED
      BY <1>2, <1>3, <2>3, <2>4, <2>5 DEF Follows
  <1> QED
    BY <1>5, <1>6

\* The message that is marked has got out.
LEMMA CommitFollows ==
    ASSUME TypeOK, Sessions, NEW g \in Groups, CommitUpto(g), NEW k \in Groups, NEW e \in Events,
           \A f \in Events : Follows(k, f)
    PROVE  Follows(k, e)'
  <1>1. KafkaTypes /\ SessionTypes /\ MessageTypes
    BY TypeParts
  <1>2. PICK m \in Events : Marked(g, m) /\ stage[g] = "sent" /\ Reading(g)
    BY DEF CommitUpto
  <1>3. /\ stored' = stored /\ copies' = copies /\ lost' = lost /\ skipped' = skipped
        /\ phase' = phase /\ last' = last /\ next' = next
    BY <1>2 DEF Marked, kafka, history
  <1>4. /\ Out(k)' = Out(k) /\ Reading(k)' = Reading(k)
    BY <1>3, SameOut DEF Reading
  <1>5. /\ done'[k] = IF k = g /\ m > done[g] THEN m ELSE done[k]
        /\ stage'[k] = IF k = g THEN "wait" ELSE stage[k]
        /\ queued[g][m] > 0
        /\ \A f \in Events : queued'[k][f]
           = IF k = g /\ f = m THEN queued[k][f] - 1 ELSE queued[k][f]
    BY <1>1, <1>2, MarkedCounts
  <1>6. Settled(k, e)' = Settled(k, e)
    BY <1>3, <1>4 DEF Settled
  <1>7. CASE k # g
    <2>1. /\ done'[k] = done[k] /\ stage'[k] = stage[k]
          /\ \A f \in Events : queued'[k][f] = queued[k][f]
      BY <1>5, <1>7
    <2>2. First(queued[k], e)' = First(queued[k], e)
      BY <2>1 DEF First
    <2> QED
      BY <1>3, <1>4, <1>6, <2>1, <2>2 DEF Follows
  <1>8. CASE k = g
    <2>1. First(queued[k], m) /\ Settled(k, m)
      BY <1>2, <1>8 DEF Marked, Follows, Settled
    <2>2. m <= last[k]
      BY <1>5, <1>8 DEF Sessions
    <2>3. e \in Nat /\ m \in Nat /\ last[k] \in Nat /\ done[k] \in Nat
      BY <1>1 DEF Events, SessionTypes
    <2>4. e <= m => Settled(k, e)
      <3>1. CASE e = m
        BY <2>1, <3>1
      <3>2. CASE e < m
        BY <1>2, <1>8, <2>1, <2>2, <2>3, <3>2 DEF First, Follows
      <3> QED
        BY <2>3, <3>1, <3>2
    <2>5. stage'[k] = "wait" /\ done'[k] = IF m > done[k] THEN m ELSE done[k]
      BY <1>5, <1>8
    <2>6. queued[k][e] > 0 => Settled(k, e) \/ queued'[k][e] > 0
      BY <1>5, <1>8, <2>1
    <2> QED
      BY <1>3, <1>4, <1>6, <2>3, <2>4, <2>5, <2>6 DEF Follows
  <1> QED
    BY <1>7, <1>8

\* Enqueue gets its event out: published, or given up.
LEMMA SendFollows ==
    ASSUME TypeOK, NEW g \in Groups, Enqueue(g), NEW k \in Groups, NEW e \in Events,
           Follows(k, e)
    PROVE  Follows(k, e)'
  <1>1. KafkaTypes /\ SessionTypes /\ MessageTypes
    BY TypeParts
  <1>2. PICK m \in Events, addr \in Drawn(g) : First(queued[g], m) /\ Send(g, m, addr)
    BY DEF Enqueue
  <1>3. m \in Out(g)' /\ Out(k) \subseteq Out(k)'
    BY <1>1, <1>2, SendCounts
  <1>4. /\ stored' = stored /\ skipped' = skipped /\ phase' = phase /\ done' = done
        /\ last' = last /\ next' = next /\ queued' = queued
        /\ stage' = [stage EXCEPT ![g] = "sent"]
    BY DEF Enqueue, kafka, reader
  <1>5. Reading(k)' = Reading(k) /\ (Settled(k, e) => Settled(k, e)')
    BY <1>3, <1>4 DEF Reading, Settled
  <1>6. stage'[k] = "sent" /\ First(queued'[k], e) => e \in Out(k)'
    <2>1. CASE k = g
      <3>1. First(queued[k], e) => e = m
        BY <1>2, <2>1 DEF First, Events
      <3> QED
        BY <1>3, <1>4, <2>1, <3>1
    <2>2. CASE k # g
      BY <1>1, <1>3, <1>4, <2>2 DEF SessionTypes, Follows
    <2> QED
      BY <2>1, <2>2
  <1> QED
    BY <1>4, <1>5, <1>6 DEF Follows

\* A session that ends has stored nothing beyond its mark.
LEMMA EndedFollows ==
    ASSUME TypeOK, Sessions, NEW g \in Groups, Ended(g), NEW k \in Groups, NEW e \in Events,
           Follows(k, e), copies' = copies, lost' = lost, skipped' = skipped,
           stored' = stored \/ (Reading(g) /\ stored' = [stored EXCEPT ![g] = Flushed(g)])
    PROVE  Follows(k, e)'
  <1>1. KafkaTypes /\ SessionTypes
    BY TypeParts
  <1>2. Out(k)' = Out(k)
    BY SameOut
  <1>3. stored'[k] = stored[k] \/ (Reading(k) /\ stored'[k] = done[k])
    BY <1>1 DEF Flushed, KafkaTypes
  <1>4. CASE k = g
    <2>1. ~Reading(k)' /\ stage'[k] # "sent"
      BY <1>1, <1>4, EndedGroups DEF Reading
    <2> QED
      BY <1>2, <1>3, <2>1, SameFollows
  <1>5. CASE k # g
    BY <1>1, <1>2, <1>3, <1>5, EndedGroups, SameFollows
  <1> QED
    BY <1>4, <1>5

\* A process that ends has stored nothing beyond its marks.
LEMMA DeathFollows ==
    ASSUME Dies, NEW k \in Groups, NEW e \in Events, Follows(k, e)
    PROVE  Follows(k, e)'
  <1>1. /\ copies' = copies /\ lost' = lost /\ skipped' = skipped /\ stored' = stored
        /\ phase'[k] = "closed" /\ stage'[k] = "wait"
    BY DEF Dies, Forgotten, kafka
  <1>2. ~Reading(k)' /\ Out(k)' = Out(k)
    BY <1>1, SameOut DEF Reading
  <1> QED
    BY <1>1, <1>2, SameFollows

\* An offset is marked after its event has got out, and stored after that.
LEMMA HandledStep ==
    ASSUME TypeOK, Sessions, Accounted, Handled, [Next]_vars
    PROVE  Accounted' /\ Handled'
  <1> USE DEF kafka, reader, session, nodes, manager, bounds, history
  <1> SUFFICES ASSUME NEW k \in Groups, NEW e \in Events
               PROVE  Follows(k, e)'
    BY DEF Accounted, Handled, Follows, Settled
  <1>0. \A f \in Events : Follows(k, f)
    BY FollowParts
  <1>1. CASE Produce
    BY <1>1, SameOut, SameFollows, <1>0 DEF Produce
  <1>2. CASE Boot
    BY <1>2, SameOut, SameFollows, <1>0 DEF Boot
  <1>3. CASE Refresh
    BY <1>3, SameOut, SameFollows, <1>0 DEF Refresh
  <1>4. CASE Crash
    BY <1>4, DeathFollows, <1>0 DEF Crash
  <1>5. ASSUME NEW g \in Groups, NEW r \in BOOLEAN, Join(g, r) PROVE Follows(k, e)'
    <2>1. /\ copies' = copies /\ lost' = lost /\ skipped' = skipped
          /\ done' = done /\ last' = last /\ next' = next /\ queued' = queued
          /\ stage' = stage /\ phase[g] = "closed" /\ phase' = [phase EXCEPT ![g] = "joining"]
          /\ stored' = stored \/ stored' = [stored EXCEPT ![g] = None]
      BY <1>5 DEF Join
    <2>2. stored'[k] = stored[k] \/ stored'[k] = None
      BY <2>1 DEF TypeOK
    <2>3. phase'[k] = phase[k] \/ (~Reading(k)' /\ stage'[k] # "sent")
      BY <2>1 DEF TypeOK, Reading
    <2> QED
      BY <2>1, <2>2, <2>3, SameOut, SameFollows, <1>0
  <1>6. ASSUME NEW g \in Groups, Begin(g) PROVE Follows(k, e)'
    BY <1>6, BeginFollows, <1>0
  <1>7. ASSUME NEW g \in Groups, Fetch(g) PROVE Follows(k, e)'
    BY <1>7, FetchFollows, <1>0
  <1>8. ASSUME NEW g \in Groups, Reestablish(g) PROVE Follows(k, e)'
    BY <1>8, ReestablishFollows, <1>0
  <1>9. ASSUME NEW g \in Groups, GivesUp(g) PROVE Follows(k, e)'
    BY <1>9, SameOut, SameFollows, <1>0 DEF GivesUp, TypeOK
  <1>10. ASSUME NEW g \in Groups, Count(g) PROVE Follows(k, e)'
    BY <1>10, SameOut, SameFollows, <1>0 DEF Count, TypeOK
  <1>11. ASSUME NEW g \in Groups, Enqueue(g) PROVE Follows(k, e)'
    BY <1>11, SendFollows, <1>0
  <1>12. ASSUME NEW g \in Groups, CommitUpto(g) PROVE Follows(k, e)'
    BY <1>12, CommitFollows, <1>0
  <1>13. ASSUME NEW g \in Groups, Flush(g) PROVE Follows(k, e)'
    <2>1. /\ copies' = copies /\ lost' = lost /\ skipped' = skipped /\ Reading(g)
          /\ phase' = phase /\ done' = done /\ last' = last /\ next' = next /\ queued' = queued
          /\ stage' = stage /\ stored' = [stored EXCEPT ![g] = done[g]]
      BY <1>13 DEF Flush, Flushed
    <2>2. stored'[k] = stored[k] \/ (Reading(k) /\ stored'[k] = done[k])
      BY <2>1 DEF TypeOK
    <2> QED
      BY <2>1, <2>2, SameOut, SameFollows, <1>0
  <1>14. ASSUME NEW g \in Groups, Close(g) PROVE Follows(k, e)'
    BY <1>14, SameOut, SameFollows, <1>0 DEF Close, TypeOK
  <1>15. ASSUME NEW g \in Groups, CloseUnread(g) PROVE Follows(k, e)'
    BY <1>15, EndedFollows, <1>0 DEF CloseUnread
  <1>16. ASSUME NEW g \in Groups, CloseStalled(g) PROVE Follows(k, e)'
    BY <1>16, EndedFollows, <1>0 DEF CloseStalled, EndedUncommitted
  <1>17. ASSUME NEW g \in Groups, Closed(g) PROVE Follows(k, e)'
    BY <1>17, EndedFollows, <1>0 DEF Closed, Reading
  <1>18. ASSUME NEW g \in Groups, CloseTimesOut(g) PROVE Follows(k, e)'
    BY <1>18, EndedFollows, <1>0 DEF CloseTimesOut, EndedUncommitted
  <1>19. ASSUME NEW g \in Groups, CommitFails(g) PROVE Follows(k, e)'
    BY <1>19, EndedFollows, <1>0 DEF CommitFails, EndedUncommitted
  <1>20. ASSUME NEW g \in Groups, LateEnqueue(g) PROVE Follows(k, e)'
    <2>1. Out(k) \subseteq Out(k)'
      BY <1>20, TypeParts, Sends, SendCounts
    <2> QED
      BY <1>20, <2>1, SameFollows, <1>0 DEF LateEnqueue
  <1>21. ASSUME NEW g \in Groups, IndexOutOfRange(g) PROVE Follows(k, e)'
    BY <1>21, DeathFollows, <1>0 DEF IndexOutOfRange
  <1>22. ASSUME NEW n \in Nsqds, Visit(n) PROVE Follows(k, e)'
    BY <1>22, SameOut, SameFollows, <1>0 DEF Visit
  <1>23. ASSUME NEW n \in Nsqds, NsqdStops(n) PROVE Follows(k, e)'
    BY <1>23, SameOut, SameFollows, <1>0 DEF NsqdStops, NodesChange
  <1>24. ASSUME NEW n \in Nsqds, NsqdStarts(n) PROVE Follows(k, e)'
    BY <1>24, SameOut, SameFollows, <1>0 DEF NsqdStarts, NodesChange
  <1>25. ASSUME NEW n \in Nsqds, Noticed(n) PROVE Follows(k, e)'
    BY <1>25, SameOut, SameFollows, <1>0 DEF Noticed, NodesChange
  <1>26. CASE UNCHANGED vars
    BY <1>26, SameOut, SameFollows, <1>0 DEF vars
  <1> QED
    BY <1>1, <1>2, <1>3, <1>4, <1>5, <1>6, <1>7, <1>8, <1>9, <1>10,
       <1>11, <1>12, <1>13, <1>14, <1>15, <1>16, <1>17, <1>18, <1>19, <1>20,
       <1>21, <1>22, <1>23, <1>24, <1>25, <1>26 DEF Next

-----------------------------------------------------------------------------
\* Copies for one group and one event.
Copy(g, e) == Load(g, e) <= 1 + breaks[g]

\* Copies, group by group and event by event.
LEMMA CopyParts == Copies <=> \A g \in Groups, e \in Events : Copy(g, e)
  BY DEF Copies, Copy

\* The terms of a load are numbers.
LEMMA LoadNumbers ==
    ASSUME TypeOK, NEW k \in Groups, NEW e \in Events
    PROVE  /\ copies[k][e] \in Nat /\ late[k][e] \in Nat /\ queued[k][e] \in Nat
           /\ Unsent(k)[e] \in Nat /\ breaks[k] \in Nat /\ ToRead(k, e) \in {0, 1}
           /\ e \in Nat /\ written \in Nat /\ done[k] \in Nat /\ last[k] \in Nat
           /\ next[k] \in Nat /\ Start(k) \in Nat /\ Mark(k) \in Nat
  <1>1. KafkaTypes /\ SessionTypes /\ MessageTypes
    BY TypeParts
  <1>2. copies[k][e] \in Nat /\ late[k][e] \in Nat /\ queued[k][e] \in Nat
    BY <1>1 DEF MessageTypes
  <1>3. Unsent(k)[e] \in Nat
    BY <1>1, UnsentCounts
  <1>4. e \in Nat
    BY DEF Events
  <1>5. breaks[k] \in Nat /\ written \in Nat /\ stored[k] \in {None} \cup Nat
    BY <1>1, DeliveryAssumption DEF KafkaTypes
  <1>6. done[k] \in Nat /\ last[k] \in Nat /\ next[k] \in Nat
    BY <1>1 DEF SessionTypes
  <1>7. Start(k) \in Nat
    BY <1>5 DEF Start
  <1>8. Mark(k) \in Nat
    BY <1>6, <1>7 DEF Mark
  <1> QED
    BY <1>2, <1>3, <1>4, <1>5, <1>6, <1>7, <1>8 DEF ToRead

\* An event that is not read again does not come back.
LEMMA NotReadAgain ==
    ASSUME TypeOK, TypeOK', NEW k \in Groups, NEW e \in Events, Mark(k) <= Mark(k)',
           phase'[k] = "open" => phase[k] = "open" /\ next[k] <= next'[k]
    PROVE  ToRead(k, e)' <= ToRead(k, e)
  <1>1. /\ e \in Nat /\ next[k] \in Nat /\ Mark(k) \in Nat
    BY LoadNumbers
  <1>2. next'[k] \in Nat
    BY DEF TypeOK
  <1>3. Mark(k)' \in Nat
    <2>1. /\ stored'[k] \in {None} \cup Nat /\ written' \in Nat /\ done'[k] \in Nat
          /\ last'[k] \in Nat
      BY DeliveryAssumption DEF TypeOK
    <2> QED
      BY <2>1 DEF Mark, Start
  <1> QED
    BY <1>1, <1>2, <1>3 DEF ToRead

\* Where the messages and the copies stay, the load does not rise.
LEMMA SameCopy ==
    ASSUME TypeOK, TypeOK', NEW k \in Groups, NEW e \in Events, Copy(k, e),
           copies'[k] = copies[k], late'[k] = late[k], queued'[k] = queued[k],
           stage'[k] = "sent" <=> stage[k] = "sent",
           breaks'[k] = breaks[k], ToRead(k, e)' <= ToRead(k, e)
    PROVE  Copy(k, e)'
  <1>1. Unsent(k)' = Unsent(k)
    BY DEF Unsent, First
  <1>2. ToRead(k, e) \in Nat /\ ToRead(k, e)' \in Nat
    BY DEF ToRead
  <1> QED
    BY <1>1, <1>2, LoadNumbers DEF Copy, Load

\* A group whose variables a step leaves alone.
LEMMA OtherCopy ==
    ASSUME TypeOK, TypeOK', Sessions, NEW k \in Groups, NEW e \in Events, Copy(k, e),
           copies'[k] = copies[k], late'[k] = late[k], queued'[k] = queued[k],
           stage'[k] = stage[k], breaks'[k] = breaks[k], phase'[k] = phase[k],
           done'[k] = done[k], last'[k] = last[k], next'[k] = next[k],
           stored'[k] = stored[k], written <= written'
    PROVE  Copy(k, e)'
  <1>1. /\ done[k] \in Nat /\ last[k] \in Nat /\ next[k] \in Nat
        /\ stored[k] \in {None} \cup Nat /\ written \in Nat /\ written' \in Nat
    BY DeliveryAssumption DEF TypeOK
  <1>2. Mark(k) <= Mark(k)'
    BY <1>1 DEF Mark, Start, Reading
  <1>3. ToRead(k, e)' <= ToRead(k, e)
    BY <1>1, <1>2, NotReadAgain
  <1> QED
    BY <1>3, SameCopy

\* A closed session leaves its messages to the loop; a break pays for reading again.
LEMMA EndedCopy ==
    ASSUME TypeOK, TypeOK', NEW g \in Groups, NEW e \in Events, Copy(g, e), Ended(g),
           copies' = copies,
           \/ breaks'[g] = breaks[g] + 1
           \/ breaks'[g] = breaks[g] /\ Mark(g) <= Start(g)'
    PROVE  Copy(g, e)'
  <1>1. MessageTypes /\ SessionTypes
    BY TypeParts
  <1>2. late'[g][e] = late[g][e] + Unsent(g)[e]
    BY <1>1, EndedMessages
  <1>3. /\ queued'[g] = NoMessages /\ phase'[g] = "closed" /\ stage'[g] = "wait"
        /\ last'[g] = 0 /\ done'[g] = 0
    BY <1>1, EndedGroups
  <1>4. Unsent(g)'[e] = 0
    BY <1>3 DEF Unsent, NoMessages
  <1>5. ToRead(g, e)' \in {0, 1}
    BY DEF ToRead
  <1>6. CASE breaks'[g] = breaks[g] + 1
    BY <1>2, <1>4, <1>5, <1>6, LoadNumbers DEF Copy, Load
  <1>7. CASE breaks'[g] = breaks[g] /\ Mark(g) <= Start(g)'
    <2>1. Mark(g)' = Start(g)'
      BY <1>3 DEF Mark, Reading
    <2>2. ToRead(g, e)' <= ToRead(g, e)
      BY <1>3, <1>7, <2>1, NotReadAgain
    <2> QED
      BY <1>2, <1>4, <1>5, <1>7, <2>2, LoadNumbers DEF Copy, Load
  <1> QED
    BY <1>6, <1>7

\* The close that waits for all that was handed over stores the mark.
LEMMA ClosedMark ==
    ASSUME TypeOK, Sessions, NEW g \in Groups, Closed(g)
    PROVE  Mark(g) <= Start(g)'
  <1>1. /\ done[g] \in Nat /\ last[g] \in Nat /\ committed[g] \in Nat /\ done[g] <= written
        /\ stored[g] \in {None} \cup Nat /\ written \in Nat /\ done[g] # None
    BY DeliveryAssumption DEF TypeOK
  <1>2. Reading(g) /\ last[g] <= done[g] /\ stored'[g] = Flushed(g) /\ written' = written
    BY DEF Closed, Reading, TypeOK
  <1>3. Mark(g) = done[g]
    BY <1>1, <1>2 DEF Mark
  <1>4. CASE done[g] > committed[g]
    BY <1>1, <1>2, <1>3, <1>4 DEF Flushed, Start
  <1>5. CASE done[g] <= committed[g]
    <2>1. /\ committed[g] <= done[g]
          /\ stored[g] # None => committed[g] <= stored[g] /\ stored[g] <= done[g]
      BY <1>2 DEF Sessions
    <2>2. Flushed(g) = stored[g]
      BY <1>1, <1>5 DEF Flushed
    <2> QED
      BY <1>1, <1>2, <1>3, <1>5, <2>1, <2>2 DEF Start
  <1> QED
    BY <1>1, <1>4, <1>5

\* A process that ends costs each group one more reading.
LEMMA DeathCopy ==
    ASSUME TypeOK, TypeOK', NEW k \in Groups, NEW e \in Events, Copy(k, e), Dies
    PROVE  Copy(k, e)'
  <1>1. /\ queued'[k] = NoMessages /\ late'[k] = NoMessages /\ stage'[k] = "wait"
        /\ copies' = copies /\ breaks'[k] = breaks[k] + 1
    BY DEF Dies, Forgotten
  <1>2. Unsent(k)'[e] = 0 /\ late'[k][e] = 0
    BY <1>1 DEF Unsent, NoMessages
  <1>3. ToRead(k, e)' \in {0, 1}
    BY DEF ToRead
  <1> QED
    BY <1>1, <1>2, <1>3, LoadNumbers DEF Copy, Load

\* What is fetched has been counted as to be read.
LEMMA FetchCopy ==
    ASSUME TypeOK, TypeOK', Sessions, NEW g \in Groups, NEW e \in Events, Copy(g, e), Fetch(g)
    PROVE  Copy(g, e)'
  <1>1. /\ KafkaTypes /\ SessionTypes /\ MessageTypes /\ InOrder
    BY TypeParts
  <1>2. /\ next[g] \in Events
        /\ \A f \in Events : queued'[g][f] = IF f = next[g] THEN queued[g][f] + 1 ELSE queued[g][f]
    BY <1>1, FetchOrder
  <1>3. /\ phase[g] = "open" /\ phase' = phase /\ stage' = stage /\ done' = done
        /\ last'[g] = next[g] /\ next'[g] = next[g] + 1 /\ late' = late /\ copies' = copies
        /\ breaks' = breaks
    BY <1>1 DEF Fetch, SessionTypes, history
  <1>4. /\ last[g] <= next[g] /\ \A f \in Events : queued[g][f] > 0 => f <= last[g]
    BY <1>3 DEF Sessions
  <1>5. \A f \in Events : f \in Nat /\ queued[g][f] \in Nat
    BY LoadNumbers
  <1>6. last[g] \in Nat /\ next[g] \in Nat /\ done[g] \in Nat
    BY LoadNumbers
  <1>7. stage[g] = "sent" => (First(queued[g], e)' <=> First(queued[g], e))
    <2> SUFFICES ASSUME stage[g] = "sent" PROVE First(queued[g], e)' <=> First(queued[g], e)
      OBVIOUS
    <2>1. PICK h \in Events : queued[g][h] > 0
      BY <1>1 DEF InOrder
    <2>2. h <= next[g]
      BY <1>4, <1>5, <1>6, <2>1
    <2>3. ASSUME First(queued[g], e) PROVE First(queued[g], e)'
      <3>1. e <= next[g]
        BY <1>5, <1>6, <2>1, <2>2, <2>3 DEF First
      <3> QED
        BY <1>2, <1>5, <2>3, <3>1 DEF First
    <2>4. ASSUME First(queued[g], e)' PROVE First(queued[g], e)
      <3>1. queued'[g][h] > 0
        BY <1>2, <1>5, <2>1
      <3>2. e <= h
        BY <2>4, <3>1 DEF First
      <3>3. queued[g][e] > 0
        <4>1. CASE e = next[g]
          BY <1>5, <1>6, <2>1, <2>2, <3>2, <4>1
        <4>2. CASE e # next[g]
          BY <1>2, <2>4, <4>2 DEF First
        <4> QED
          BY <4>1, <4>2
      <3>4. \A f \in Events : queued[g][f] > 0 => queued'[g][f] > 0
        BY <1>2, <1>5
      <3> QED
        BY <2>4, <3>3, <3>4 DEF First
    <2> QED
      BY <2>3, <2>4
  <1>8. Unsent(g)'[e] = IF e = next[g] THEN Unsent(g)[e] + 1 ELSE Unsent(g)[e]
    <2>1. /\ Unsent(g)[e] = IF stage[g] = "sent" /\ First(queued[g], e)
                            THEN queued[g][e] - 1 ELSE queued[g][e]
          /\ Unsent(g)'[e] = IF stage'[g] = "sent" /\ First(queued[g], e)'
                             THEN queued'[g][e] - 1 ELSE queued'[g][e]
      BY DEF Unsent
    <2> QED
      BY <1>2, <1>3, <1>5, <1>7, <2>1
  <1>9. Mark(g) <= Mark(g)' /\ Mark(g)' \in Nat /\ next[g] <= Mark(g)'
    BY <1>3, <1>4, <1>6 DEF Mark, Reading
  <1>10. ToRead(g, e)' <= ToRead(g, e) /\ ToRead(g, e)' \in {0, 1}
    BY <1>3, <1>6, <1>9, NotReadAgain DEF ToRead
  <1>11. CASE e = next[g]
    <2>1. ToRead(g, e) = 1
      BY <1>3, <1>6, <1>11 DEF ToRead
    <2>2. ~(e > Mark(g)') /\ ~(next'[g] <= e)
      BY <1>3, <1>6, <1>9, <1>11
    <2>3. ToRead(g, e)' = 0
      BY <2>2 DEF ToRead
    <2> QED
      BY <1>3, <1>8, <1>11, <2>1, <2>3, LoadNumbers DEF Copy, Load
  <1>12. CASE e # next[g]
    BY <1>3, <1>8, <1>10, <1>12, LoadNumbers DEF Copy, Load
  <1> QED
    BY <1>11, <1>12

\* What is published is no longer unsent.
LEMMA EnqueueCopy ==
    ASSUME TypeOK, TypeOK', NEW k \in Groups, NEW e \in Events, Copy(k, e),
           NEW g \in Groups, Enqueue(g)
    PROVE  Copy(k, e)'
  <1>1. KafkaTypes /\ MessageTypes
    BY TypeParts
  <1>2. PICK f \in Events, addr \in Drawn(g) : First(queued[g], f) /\ Send(g, f, addr)
    BY DEF Enqueue
  <1>3. /\ copies'[k][e] <= copies[k][e] + 1
        /\ k # g \/ e # f => copies'[k][e] = copies[k][e]
    BY <1>1, <1>2, SendCounts
  <1>4. /\ stage[g] = "counted" /\ stage' = [stage EXCEPT ![g] = "sent"] /\ queued' = queued
        /\ phase' = phase /\ done' = done /\ last' = last /\ next' = next /\ late' = late
        /\ stored' = stored /\ written' = written /\ breaks' = breaks
    BY DEF Enqueue, reader, kafka
  <1>5. ToRead(k, e)' = ToRead(k, e)
    BY <1>4 DEF ToRead, Mark, Start, Reading
  <1>6. /\ Unsent(k)[e] = IF stage[k] = "sent" /\ First(queued[k], e)
                          THEN queued[k][e] - 1 ELSE queued[k][e]
        /\ Unsent(k)'[e] = IF stage'[k] = "sent" /\ First(queued[k], e)'
                           THEN queued'[k][e] - 1 ELSE queued'[k][e]
    BY DEF Unsent
  <1>7. First(queued[k], e)' <=> First(queued[k], e)
    BY <1>4 DEF First
  <1>8. copies'[k][e] \in Nat
    BY DEF TypeOK
  <1>9. CASE k = g /\ e = f
    <2>1. stage[k] = "counted" /\ stage'[k] = "sent"
      BY <1>4, <1>9 DEF TypeOK
    <2>2. Unsent(k)'[e] = Unsent(k)[e] - 1
      BY <1>2, <1>4, <1>6, <1>7, <1>9, <2>1
    <2> QED
      BY <1>3, <1>4, <1>5, <1>8, <2>2, LoadNumbers DEF Copy, Load
  <1>10. CASE k # g
    <2>1. Unsent(k)'[e] = Unsent(k)[e]
      BY <1>4, <1>6, <1>7, <1>10 DEF TypeOK
    <2> QED
      BY <1>3, <1>4, <1>5, <1>10, <2>1, LoadNumbers DEF Copy, Load
  <1>11. CASE k = g /\ e # f
    <2>1. ~First(queued[k], e)
      BY <1>2, <1>11 DEF First, Events
    <2>2. Unsent(k)'[e] = Unsent(k)[e]
      BY <1>4, <1>6, <1>7, <2>1
    <2> QED
      BY <1>3, <1>4, <1>5, <1>11, <2>2, LoadNumbers DEF Copy, Load
  <1> QED
    BY <1>9, <1>10, <1>11

\* The message that is marked was sent.
LEMMA CommitCopy ==
    ASSUME TypeOK, TypeOK', NEW g \in Groups, NEW e \in Events, Copy(g, e), CommitUpto(g)
    PROVE  Copy(g, e)'
  <1>1. MessageTypes /\ SessionTypes
    BY TypeParts
  <1>2. PICK f \in Events : Marked(g, f)
    BY DEF CommitUpto
  <1>3. /\ done'[g] = IF f > done[g] THEN f ELSE done[g]
        /\ stage'[g] = "wait" /\ queued[g][f] > 0
        /\ queued'[g][e] = IF e = f THEN queued[g][e] - 1 ELSE queued[g][e]
    BY <1>1, <1>2, MarkedCounts
  <1>4. /\ stage[g] = "sent" /\ First(queued[g], f) /\ phase' = phase /\ last' = last
        /\ next' = next /\ late' = late /\ copies' = copies /\ breaks' = breaks
        /\ Reading(g)
    BY <1>2 DEF CommitUpto, Marked, history
  <1>5. Unsent(g)[e] = IF First(queued[g], e) THEN queued[g][e] - 1 ELSE queued[g][e]
    BY <1>4 DEF Unsent
  <1>6. Unsent(g)'[e] = queued'[g][e]
    BY <1>3 DEF Unsent
  <1>7. First(queued[g], e) <=> e = f
    BY <1>4 DEF First, Events
  <1>8. Unsent(g)'[e] = Unsent(g)[e]
    BY <1>3, <1>5, <1>6, <1>7
  <1>9. f \in Nat /\ done[g] \in Nat /\ last[g] \in Nat /\ next[g] \in Nat
    BY LoadNumbers
  <1>10. Mark(g) <= Mark(g)'
    BY <1>3, <1>4, <1>9 DEF Mark, Reading
  <1>11. ToRead(g, e)' <= ToRead(g, e) /\ ToRead(g, e)' \in Nat
    BY <1>4, <1>9, <1>10, NotReadAgain DEF ToRead
  <1> QED
    BY <1>4, <1>8, <1>11, LoadNumbers DEF Copy, Load

\* What the loop of a closed consumer publishes was counted as late.
LEMMA LateCopy ==
    ASSUME TypeOK, TypeOK', NEW k \in Groups, NEW e \in Events, Copy(k, e),
           NEW g \in Groups, LateEnqueue(g)
    PROVE  Copy(k, e)'
  <1>1. KafkaTypes /\ MessageTypes
    BY TypeParts
  <1>2. PICK f \in Events : /\ First(late[g], f) /\ late' = [late EXCEPT ![g] = Without(late[g], f)]
                            /\ \E addr : Send(g, f, addr)
    BY DEF LateEnqueue
  <1>3. /\ copies'[k][e] <= copies[k][e] + 1
        /\ k # g \/ e # f => copies'[k][e] = copies[k][e]
    BY <1>1, <1>2, SendCounts
  <1>4. /\ stage' = stage /\ queued' = queued
        /\ phase' = phase /\ done' = done /\ last' = last /\ next' = next
        /\ stored' = stored /\ written' = written /\ breaks' = breaks
    BY DEF LateEnqueue, reader, kafka
  <1>5. ToRead(k, e)' = ToRead(k, e)
    BY <1>4 DEF ToRead, Mark, Start, Reading
  <1>6. Unsent(k)' = Unsent(k)
    BY <1>4 DEF Unsent, First
  <1>7. late'[k][e] = IF k = g /\ e = f THEN late[k][e] - 1 ELSE late[k][e]
    <2>1. late[g] \in [Events -> Nat] /\ late \in [Groups -> [Events -> Nat]] /\ late[g][f] > 0
      BY <1>1, <1>2 DEF MessageTypes, First
    <2>2. Without(late[g], f)[e] = IF e = f THEN late[g][e] - 1 ELSE late[g][e]
      BY <2>1, WithoutCounts
    <2> QED
      BY <1>2, <2>1, <2>2
  <1>8. copies'[k][e] \in Nat /\ late'[k][e] \in Nat
    BY DEF TypeOK
  <1> QED
    BY <1>3, <1>4, <1>5, <1>6, <1>7, <1>8, LoadNumbers DEF Copy, Load

\* Each session that ends uncommitted, and each new stream, costs one more copy at most.
LEMMA CopyStep ==
    ASSUME TypeOK, TypeOK', Sessions, Copies, [Next]_vars
    PROVE  Copies'
  <1> USE DEF kafka, reader, session, nodes, manager, bounds, history
  <1> SUFFICES ASSUME NEW k \in Groups, NEW e \in Events
               PROVE  Copy(k, e)'
    BY DEF Copies, Copy
  <1>0. Copy(k, e)
    BY CopyParts
  <1>1. CASE Produce
    <2>1. /\ copies' = copies /\ late' = late /\ queued' = queued /\ stage' = stage
          /\ breaks' = breaks /\ phase' = phase /\ done' = done /\ last' = last /\ next' = next
          /\ stored' = stored /\ written \in Nat /\ written' = written + 1
      BY <1>1 DEF Produce, TypeOK
    <2> QED
      BY <2>1, <1>0, OtherCopy
  <1>2. CASE Boot
    <2>1. /\ copies' = copies /\ late' = late /\ queued' = queued /\ stage' = stage
          /\ breaks' = breaks /\ phase' = phase /\ done' = done /\ last' = last /\ next' = next
          /\ stored' = stored /\ written \in Nat /\ written' = written
      BY <1>2 DEF Boot, TypeOK
    <2> QED
      BY <2>1, <1>0, OtherCopy
  <1>3. CASE Refresh
    <2>1. /\ copies' = copies /\ late' = late /\ queued' = queued /\ stage' = stage
          /\ breaks' = breaks /\ phase' = phase /\ done' = done /\ last' = last /\ next' = next
          /\ stored' = stored /\ written \in Nat /\ written' = written
      BY <1>3 DEF Refresh, TypeOK
    <2> QED
      BY <2>1, <1>0, OtherCopy
  <1>4. CASE Crash
    BY <1>4, <1>0, DeathCopy DEF Crash
  <1>5. ASSUME NEW g \in Groups, NEW r \in BOOLEAN, Join(g, r) PROVE Copy(k, e)'
    <2>1. /\ copies' = copies /\ late' = late /\ queued' = queued /\ stage' = stage
          /\ breaks' = breaks /\ done' = done /\ last' = last /\ next' = next /\ written' = written
          /\ phase[g] = "closed" /\ phase' = [phase EXCEPT ![g] = "joining"]
          /\ stored' = stored \/ stored' = [stored EXCEPT ![g] = None]
      BY <1>5 DEF Join
    <2>2. /\ stored[k] \in {None} \cup Nat /\ written \in Nat /\ None \notin 0 .. MaxEvents
          /\ stored'[k] = stored[k] \/ (k = g /\ stored'[k] = None)
          /\ stored[k] # None => stored[k] <= written
      BY <2>1, DeliveryAssumption DEF TypeOK, Sessions
    <2>3. CASE k = g
      <3>1. ~Reading(k) /\ ~Reading(k)' /\ phase'[k] # "open"
        BY <2>1, <2>3 DEF Reading, TypeOK
      <3>2. Mark(k) <= Mark(k)'
        BY <2>1, <2>2, <3>1 DEF Mark, Start
      <3>3. ToRead(k, e)' <= ToRead(k, e)
        BY <3>1, <3>2, NotReadAgain
      <3> QED
        BY <2>1, <3>3, <1>0, SameCopy
    <2>4. CASE k # g
      <3>1. phase'[k] = phase[k]
        BY <2>1, <2>4 DEF TypeOK
      <3> QED
        BY <2>1, <2>2, <2>4, <3>1, <1>0, OtherCopy
    <2> QED
      BY <2>3, <2>4
  <1>6. ASSUME NEW g \in Groups, Begin(g) PROVE Copy(k, e)'
    <2>1. KafkaTypes /\ SessionTypes
      BY TypeParts
    <2>2. /\ copies' = copies /\ late' = late /\ queued' = queued /\ stage' = stage
          /\ breaks' = breaks /\ last' = last /\ written' = written /\ stored' = stored
          /\ phase[g] = "joining" /\ phase' = [phase EXCEPT ![g] = "open"]
          /\ done' = [done EXCEPT ![g] = Start(g)]
      BY <1>6 DEF Begin, kafka
    <2>3. CASE k = g
      <3>1. /\ ~Reading(k) /\ Reading(k)' /\ last[k] = 0
        BY <2>1, <2>2, <2>3 DEF Reading, Sessions, SessionTypes
      <3>2. Start(k) \in Nat /\ Start(k) <= written /\ written \in Nat
        BY LoadNumbers DEF Sessions, Start
      <3>3. next'[k] \in {Start(k) + 1, written + 1}
        BY <1>6, <2>1, <2>3, <3>2, BeginCounts
      <3>4. done'[k] = Start(k) /\ last'[k] = 0
        BY <2>1, <2>2, <2>3, <3>1 DEF SessionTypes
      <3>5. Mark(k)' = Start(k) /\ Mark(k) = Start(k)
        BY <3>1, <3>2, <3>4 DEF Mark
      <3>6. e \in Nat
        BY DEF Events
      <3>7. next'[k] <= e => e > Start(k)
        BY <3>2, <3>3, <3>6
      <3>8. ToRead(k, e)' <= ToRead(k, e)
        BY <3>2, <3>5, <3>6, <3>7 DEF ToRead
      <3> QED
        BY <2>2, <3>8, <1>0, SameCopy
    <2>4. CASE k # g
      <3>1. next'[k] = next[k]
        BY <1>6, <2>1, <2>4, BeginCounts
      <3>2. phase'[k] = phase[k] /\ done'[k] = done[k] /\ written \in Nat
        BY <2>1, <2>2, <2>4 DEF SessionTypes, KafkaTypes
      <3> QED
        BY <2>2, <3>1, <3>2, <1>0, OtherCopy
    <2> QED
      BY <2>3, <2>4
  <1>7. ASSUME NEW g \in Groups, Fetch(g) PROVE Copy(k, e)'
    <2>1. CASE k = g
      BY <1>7, <2>1, <1>0, FetchCopy
    <2>2. CASE k # g
      BY <1>7, <2>2, <1>0, OtherCopy DEF Fetch, TypeOK
    <2> QED
      BY <2>1, <2>2
  <1>8. ASSUME NEW g \in Groups, Reestablish(g) PROVE Copy(k, e)'
    <2>1. KafkaTypes /\ SessionTypes
      BY TypeParts
    <2>2. /\ copies' = copies /\ late' = late /\ queued' = queued /\ stage' = stage
          /\ phase' = phase /\ done' = done /\ last' = last /\ written' = written
          /\ stored' = stored
      BY <1>8 DEF Reestablish, kafka
    <2>3. /\ breaks' = [breaks EXCEPT ![g] = breaks[g] + 1]
          /\ k # g => next'[k] = next[k]
      BY <1>8, <2>1, ReestablishCounts
    <2>4. CASE k = g
      <3>1. breaks'[k] = breaks[k] + 1
        BY <2>1, <2>3, <2>4 DEF KafkaTypes
      <3>2. Unsent(k)' = Unsent(k)
        BY <2>2 DEF Unsent, First
      <3>3. ToRead(k, e)' \in {0, 1}
        BY DEF ToRead
      <3> QED
        BY <2>2, <3>1, <3>2, <3>3, <1>0, LoadNumbers DEF Copy, Load
    <2>5. CASE k # g
      <3>1. breaks'[k] = breaks[k] /\ next'[k] = next[k] /\ written \in Nat
        BY <2>1, <2>3, <2>5 DEF KafkaTypes
      <3> QED
        BY <2>2, <3>1, <1>0, OtherCopy
    <2> QED
      BY <2>4, <2>5
  <1>9. ASSUME NEW g \in Groups, GivesUp(g) PROVE Copy(k, e)'
    <2>1. /\ copies' = copies /\ late' = late /\ queued' = queued /\ stage' = stage
          /\ breaks' = breaks /\ done' = done /\ last' = last /\ next' = next
          /\ written' = written /\ stored' = stored /\ written \in Nat
          /\ phase[g] = "open" /\ phase' = [phase EXCEPT ![g] = "stalled"]
      BY <1>9 DEF GivesUp, TypeOK
    <2>2. CASE k = g
      <3>1. phase'[k] = "stalled" /\ Reading(k) /\ Reading(k)'
        BY <2>1, <2>2 DEF TypeOK, Reading
      <3>2. Mark(k)' = Mark(k) /\ Mark(k) \in Nat
        BY <2>1, <3>1, LoadNumbers DEF Mark
      <3>3. ToRead(k, e)' <= ToRead(k, e)
        BY <3>1, <3>2, NotReadAgain
      <3> QED
        BY <2>1, <3>3, <1>0, SameCopy
    <2>3. CASE k # g
      <3>1. phase'[k] = phase[k]
        BY <2>1, <2>3 DEF TypeOK
      <3> QED
        BY <2>1, <3>1, <1>0, OtherCopy
    <2> QED
      BY <2>2, <2>3
  <1>10. ASSUME NEW g \in Groups, Count(g) PROVE Copy(k, e)'
    <2>1. /\ copies' = copies /\ late' = late /\ queued' = queued
          /\ breaks' = breaks /\ phase' = phase /\ done' = done /\ last' = last /\ next' = next
          /\ written' = written /\ stored' = stored /\ written \in Nat
          /\ stage[g] = "wait" /\ stage' = [stage EXCEPT ![g] = "counted"]
      BY <1>10 DEF Count, TypeOK
    <2>2. stage'[k] = "sent" <=> stage[k] = "sent"
      BY <2>1 DEF TypeOK
    <2>3. ToRead(k, e)' = ToRead(k, e)
      BY <2>1 DEF ToRead, Mark, Start, Reading
    <2>4. ToRead(k, e) \in {0, 1}
      BY LoadNumbers
    <2> QED
      BY <2>1, <2>2, <2>3, <2>4, <1>0, SameCopy
  <1>11. ASSUME NEW g \in Groups, Enqueue(g) PROVE Copy(k, e)'
    BY <1>11, <1>0, EnqueueCopy
  <1>12. ASSUME NEW g \in Groups, CommitUpto(g) PROVE Copy(k, e)'
    <2>1. CASE k = g
      BY <1>12, <2>1, <1>0, CommitCopy
    <2>2. CASE k # g
      BY <1>12, <2>2, <1>0, OtherCopy DEF CommitUpto, Marked, TypeOK
    <2> QED
      BY <2>1, <2>2
  <1>13. ASSUME NEW g \in Groups, Flush(g) PROVE Copy(k, e)'
    <2>1. /\ copies' = copies /\ late' = late /\ queued' = queued /\ stage' = stage
          /\ breaks' = breaks /\ phase' = phase /\ done' = done /\ last' = last /\ next' = next
          /\ written' = written /\ Reading(g) /\ stored' = [stored EXCEPT ![g] = Flushed(g)]
      BY <1>13 DEF Flush
    <2>2. Reading(k) \/ stored'[k] = stored[k]
      BY <2>1 DEF TypeOK
    <2>3. ToRead(k, e)' = ToRead(k, e)
      BY <2>1, <2>2 DEF ToRead, Mark, Start, Reading
    <2>4. ToRead(k, e) \in {0, 1}
      BY LoadNumbers
    <2> QED
      BY <2>1, <2>3, <2>4, <1>0, SameCopy
  <1>14. ASSUME NEW g \in Groups, Close(g) PROVE Copy(k, e)'
    <2>1. /\ copies' = copies /\ late' = late /\ queued' = queued /\ stage' = stage
          /\ breaks' = breaks /\ done' = done /\ last' = last /\ next' = next
          /\ written' = written /\ stored' = stored /\ written \in Nat
          /\ phase[g] = "open" /\ phase' = [phase EXCEPT ![g] = "closing"]
      BY <1>14 DEF Close, TypeOK
    <2>2. CASE k = g
      <3>1. phase'[k] = "closing" /\ Reading(k) /\ Reading(k)'
        BY <2>1, <2>2 DEF TypeOK, Reading
      <3>2. Mark(k)' = Mark(k) /\ Mark(k) \in Nat
        BY <2>1, <3>1, LoadNumbers DEF Mark
      <3>3. ToRead(k, e)' <= ToRead(k, e)
        BY <3>1, <3>2, NotReadAgain
      <3> QED
        BY <2>1, <3>3, <1>0, SameCopy
    <2>3. CASE k # g
      <3>1. phase'[k] = phase[k]
        BY <2>1, <2>3 DEF TypeOK
      <3> QED
        BY <2>1, <3>1, <1>0, OtherCopy
    <2> QED
      BY <2>2, <2>3
  <1>15. ASSUME NEW g \in Groups, CloseUnread(g) PROVE Copy(k, e)'
    <2>1. SessionTypes /\ KafkaTypes
      BY TypeParts
    <2>2. /\ Ended(g) /\ copies' = copies /\ written' = written /\ written \in Nat
          /\ breaks' = breaks
          /\ stored' = stored
      BY <1>15, <2>1 DEF CloseUnread, kafka, history, KafkaTypes
    <2>3. CASE k = g
      <3>1. phase[g] = "joining"
        BY <1>15 DEF CloseUnread
      <3>2. Mark(g) = Start(g)
        BY <3>1 DEF Mark, Reading
      <3>3. Mark(g) <= Start(g)'
        BY <2>2, <3>2, LoadNumbers DEF Start
      <3> QED
        BY <2>2, <2>3, <3>3, <1>0, EndedCopy
    <2>4. CASE k # g
      <3>1. /\ phase'[k] = phase[k] /\ done'[k] = done[k] /\ next'[k] = next[k]
            /\ last'[k] = last[k] /\ stage'[k] = stage[k] /\ queued'[k] = queued[k]
            /\ late'[k] = late[k]
        BY <2>1, <2>2, <2>4, EndedGroups
      <3>2. breaks'[k] = breaks[k] /\ stored'[k] = stored[k]
        BY <2>1, <2>2, <2>4 DEF KafkaTypes
      <3> QED
        BY <2>2, <3>1, <3>2, <1>0, OtherCopy
    <2> QED
      BY <2>3, <2>4
  <1>16. ASSUME NEW g \in Groups, CloseStalled(g) PROVE Copy(k, e)'
    <2>1. SessionTypes /\ KafkaTypes
      BY TypeParts
    <2>2. /\ Ended(g) /\ copies' = copies /\ written' = written /\ written \in Nat
          /\ breaks' = [breaks EXCEPT ![g] = breaks[g] + 1]
          /\ stored' = stored
      BY <1>16, <2>1 DEF CloseStalled, EndedUncommitted, kafka, KafkaTypes
    <2>3. CASE k = g
      <3>1. breaks'[k] = breaks[k] + 1
        BY <2>1, <2>2, <2>3 DEF KafkaTypes
      <3> QED
        BY <2>2, <2>3, <3>1, <1>0, EndedCopy
    <2>4. CASE k # g
      <3>1. /\ phase'[k] = phase[k] /\ done'[k] = done[k] /\ next'[k] = next[k]
            /\ last'[k] = last[k] /\ stage'[k] = stage[k] /\ queued'[k] = queued[k]
            /\ late'[k] = late[k]
        BY <2>1, <2>2, <2>4, EndedGroups
      <3>2. breaks'[k] = breaks[k] /\ stored'[k] = stored[k]
        BY <2>1, <2>2, <2>4 DEF KafkaTypes
      <3> QED
        BY <2>2, <3>1, <3>2, <1>0, OtherCopy
    <2> QED
      BY <2>3, <2>4
  <1>17. ASSUME NEW g \in Groups, Closed(g) PROVE Copy(k, e)'
    <2>1. SessionTypes /\ KafkaTypes
      BY TypeParts
    <2>2. /\ Ended(g) /\ copies' = copies /\ written' = written /\ written \in Nat
          /\ breaks' = breaks
          /\ stored' = [stored EXCEPT ![g] = Flushed(g)]
      BY <1>17, <2>1 DEF Closed, history, KafkaTypes
    <2>3. CASE k = g
      <3>1. Mark(g) <= Start(g)'
        BY <1>17, ClosedMark
      <3> QED
        BY <2>2, <2>3, <3>1, <1>0, EndedCopy
    <2>4. CASE k # g
      <3>1. /\ phase'[k] = phase[k] /\ done'[k] = done[k] /\ next'[k] = next[k]
            /\ last'[k] = last[k] /\ stage'[k] = stage[k] /\ queued'[k] = queued[k]
            /\ late'[k] = late[k]
        BY <2>1, <2>2, <2>4, EndedGroups
      <3>2. breaks'[k] = breaks[k] /\ stored'[k] = stored[k]
        BY <2>1, <2>2, <2>4 DEF KafkaTypes
      <3> QED
        BY <2>2, <3>1, <3>2, <1>0, OtherCopy
    <2> QED
      BY <2>3, <2>4
  <1>18. ASSUME NEW g \in Groups, CloseTimesOut(g) PROVE Copy(k, e)'
    <2>1. SessionTypes /\ KafkaTypes
      BY TypeParts
    <2>2. /\ Ended(g) /\ copies' = copies /\ written' = written /\ written \in Nat
          /\ breaks' = [breaks EXCEPT ![g] = breaks[g] + 1]
          /\ stored' = stored
      BY <1>18, <2>1 DEF CloseTimesOut, EndedUncommitted, kafka, KafkaTypes
    <2>3. CASE k = g
      <3>1. breaks'[k] = breaks[k] + 1
        BY <2>1, <2>2, <2>3 DEF KafkaTypes
      <3> QED
        BY <2>2, <2>3, <3>1, <1>0, EndedCopy
    <2>4. CASE k # g
      <3>1. /\ phase'[k] = phase[k] /\ done'[k] = done[k] /\ next'[k] = next[k]
            /\ last'[k] = last[k] /\ stage'[k] = stage[k] /\ queued'[k] = queued[k]
            /\ late'[k] = late[k]
        BY <2>1, <2>2, <2>4, EndedGroups
      <3>2. breaks'[k] = breaks[k] /\ stored'[k] = stored[k]
        BY <2>1, <2>2, <2>4 DEF KafkaTypes
      <3> QED
        BY <2>2, <3>1, <3>2, <1>0, OtherCopy
    <2> QED
      BY <2>3, <2>4
  <1>19. ASSUME NEW g \in Groups, CommitFails(g) PROVE Copy(k, e)'
    <2>1. SessionTypes /\ KafkaTypes
      BY TypeParts
    <2>2. /\ Ended(g) /\ copies' = copies /\ written' = written /\ written \in Nat
          /\ breaks' = [breaks EXCEPT ![g] = breaks[g] + 1]
          /\ stored' = stored
      BY <1>19, <2>1 DEF CommitFails, EndedUncommitted, kafka, KafkaTypes
    <2>3. CASE k = g
      <3>1. breaks'[k] = breaks[k] + 1
        BY <2>1, <2>2, <2>3 DEF KafkaTypes
      <3> QED
        BY <2>2, <2>3, <3>1, <1>0, EndedCopy
    <2>4. CASE k # g
      <3>1. /\ phase'[k] = phase[k] /\ done'[k] = done[k] /\ next'[k] = next[k]
            /\ last'[k] = last[k] /\ stage'[k] = stage[k] /\ queued'[k] = queued[k]
            /\ late'[k] = late[k]
        BY <2>1, <2>2, <2>4, EndedGroups
      <3>2. breaks'[k] = breaks[k] /\ stored'[k] = stored[k]
        BY <2>1, <2>2, <2>4 DEF KafkaTypes
      <3> QED
        BY <2>2, <3>1, <3>2, <1>0, OtherCopy
    <2> QED
      BY <2>3, <2>4
  <1>20. ASSUME NEW g \in Groups, LateEnqueue(g) PROVE Copy(k, e)'
    BY <1>20, <1>0, LateCopy
  <1>21. ASSUME NEW g \in Groups, IndexOutOfRange(g) PROVE Copy(k, e)'
    BY <1>21, <1>0, DeathCopy DEF IndexOutOfRange
  <1>22. ASSUME NEW n \in Nsqds, Visit(n) PROVE Copy(k, e)'
    <2>1. /\ copies' = copies /\ late' = late /\ queued' = queued /\ stage' = stage
          /\ breaks' = breaks /\ phase' = phase /\ done' = done /\ last' = last /\ next' = next
          /\ stored' = stored /\ written \in Nat /\ written' = written
      BY <1>22 DEF Visit, TypeOK
    <2> QED
      BY <2>1, <1>0, OtherCopy
  <1>23. ASSUME NEW n \in Nsqds, NsqdStops(n) PROVE Copy(k, e)'
    <2>1. /\ copies' = copies /\ late' = late /\ queued' = queued /\ stage' = stage
          /\ breaks' = breaks /\ phase' = phase /\ done' = done /\ last' = last /\ next' = next
          /\ stored' = stored /\ written \in Nat /\ written' = written
      BY <1>23 DEF NsqdStops, NodesChange, TypeOK
    <2> QED
      BY <2>1, <1>0, OtherCopy
  <1>24. ASSUME NEW n \in Nsqds, NsqdStarts(n) PROVE Copy(k, e)'
    <2>1. /\ copies' = copies /\ late' = late /\ queued' = queued /\ stage' = stage
          /\ breaks' = breaks /\ phase' = phase /\ done' = done /\ last' = last /\ next' = next
          /\ stored' = stored /\ written \in Nat /\ written' = written
      BY <1>24 DEF NsqdStarts, NodesChange, TypeOK
    <2> QED
      BY <2>1, <1>0, OtherCopy
  <1>25. ASSUME NEW n \in Nsqds, Noticed(n) PROVE Copy(k, e)'
    <2>1. /\ copies' = copies /\ late' = late /\ queued' = queued /\ stage' = stage
          /\ breaks' = breaks /\ phase' = phase /\ done' = done /\ last' = last /\ next' = next
          /\ stored' = stored /\ written \in Nat /\ written' = written
      BY <1>25 DEF Noticed, NodesChange, TypeOK
    <2> QED
      BY <2>1, <1>0, OtherCopy
  <1>26. CASE UNCHANGED vars
    <2>1. /\ copies' = copies /\ late' = late /\ queued' = queued /\ stage' = stage
          /\ breaks' = breaks /\ phase' = phase /\ done' = done /\ last' = last /\ next' = next
          /\ stored' = stored /\ written \in Nat /\ written' = written
      BY <1>26 DEF vars, TypeOK
    <2> QED
      BY <1>0, <2>1, <1>0, OtherCopy
  <1> QED
    BY <1>1, <1>2, <1>3, <1>4, <1>5, <1>6, <1>7, <1>8, <1>9, <1>10,
       <1>11, <1>12, <1>13, <1>14, <1>15, <1>16, <1>17, <1>18, <1>19, <1>20,
       <1>21, <1>22, <1>23, <1>24, <1>25, <1>26 DEF Next

-----------------------------------------------------------------------------
\* What a step must keep of Healthy, when it leaves the losses alone.
Fit ==
    ~troubled => /\ Sound /\ todo \subseteq listed
                 /\ up => nsqdNodes = listed /\ producers = listed \cup nsqaddrs
                 /\ \A g \in Groups : stage[g] = "counted" => nsqaddrs # {} \/ count[g] # 0

\* Healthy in two parts.
LEMMA HealthParts == Healthy <=> LossHasACause /\ Fit
  BY DEF Healthy, Fit

\* Without a new loss a cause need not be found.
LEMMA SameLosses ==
    ASSUME LossHasACause, lost' = lost, refused' = refused, troubled => troubled'
    PROVE  LossHasACause'
  BY DEF LossHasACause

\* Nodes and stages that a step leaves alone.
LEMMA SameFit ==
    ASSUME Fit, troubled' = troubled, alive' = alive, listed' = listed, nsqaddrs' = nsqaddrs,
           nsqdNodes' = nsqdNodes, producers' = producers, todo' = todo, up' = up,
           \A g \in Groups : stage'[g] = "counted" => stage[g] = "counted" /\ count'[g] = count[g]
    PROVE  Fit'
  BY DEF Fit, Sound

\* A session that ends leaves the nodes alone.
LEMMA EndedFit ==
    ASSUME TypeOK, Fit, NEW g \in Groups, Ended(g), troubled' = troubled, up' = up,
           UNCHANGED nodes, UNCHANGED manager
    PROVE  Fit'
  <1>1. SessionTypes
    BY TypeParts
  <1>2. \A k \in Groups : stage'[k] = "counted" => stage[k] = "counted" /\ count'[k] = count[k]
    <2> SUFFICES ASSUME NEW k \in Groups, stage'[k] = "counted"
                 PROVE  stage[k] = "counted" /\ count'[k] = count[k]
      OBVIOUS
    <2> QED
      BY <1>1, EndedGroups
  <1> QED
    BY <1>2, SameFit DEF nodes, manager

\* A process that has ended holds no nodes.
LEMMA DeathFit ==
    ASSUME Fit, Dies
    PROVE  Fit'
  <1>1. /\ troubled' = troubled /\ alive' = alive /\ listed' = listed /\ nsqaddrs' = nsqaddrs
        /\ todo' = {} /\ up' = FALSE /\ \A g \in Groups : stage'[g] = "wait"
    BY DEF Dies, Forgotten, nodes
  <1> QED
    BY <1>1 DEF Fit, Sound

\* While nothing has troubled nsqd, a draw that finds a node finds one that answers.
LEMMA SoundLosses ==
    ASSUME TypeOK, LossHasACause, Fit, up, UNCHANGED troubled, NEW g \in Groups, NEW e \in Events,
           NEW addr, Send(g, e, addr), ~troubled => addr \in nsqaddrs \cup nsqdNodes
    PROVE  LossHasACause'
  <1> SUFFICES ASSUME ~troubled PROVE \A k \in Groups : lost'[k] \ refused'[k] = {}
    BY DEF LossHasACause
  <1>1. addr \in producers \cap alive
    BY DEF Fit, Sound
  <1>2. \A k \in Groups : lost[k] \ refused[k] = {}
    BY DEF LossHasACause
  <1>3. lost \in [Groups -> SUBSET Events] /\ refused \in [Groups -> SUBSET Events]
    BY DEF TypeOK
  <1>4. CASE Publish(g, e)
    BY <1>2, <1>4 DEF Publish
  <1>5. CASE Lose(g, e) /\ refused' = [refused EXCEPT ![g] = refused[g] \cup {e}]
    <2>1. lost' = [lost EXCEPT ![g] = lost[g] \cup {e}]
      BY <1>5 DEF Lose
    <2> QED
      BY <1>2, <1>3, <1>5, <2>1
  <1> QED
    BY <1>1, <1>4, <1>5 DEF Send

\* While nothing troubles nsqd, each draw finds a producer of a node that answers.
LEMMA HealthStep ==
    ASSUME TypeOK, Sessions, Healthy, [Next]_vars
    PROVE  Healthy'
  <1> SUFFICES LossHasACause' /\ Fit'
    BY DEF Healthy, Fit
  <1>0. LossHasACause /\ Fit
    BY HealthParts
  <1>1. CASE Produce
    <2>1. /\ troubled' = troubled /\ lost' = lost /\ refused' = refused /\ up' = up
          /\ UNCHANGED nodes /\ UNCHANGED manager
          /\ \A k \in Groups : stage'[k] = "counted" => stage[k] = "counted" /\ count'[k] = count[k]
      BY <1>1 DEF Produce, session, history
    <2> QED
      BY <1>0, <2>1, SameLosses, SameFit DEF nodes, manager
  <1>2. CASE Boot
    <2>1. /\ lost' = lost /\ refused' = refused /\ UNCHANGED session /\ UNCHANGED nodes
          /\ todo' = todo
      BY <1>2 DEF Boot
    <2>2. CASE troubled' = TRUE
      BY <1>0, <2>1, <2>2, SameLosses DEF Fit
    <2>3. CASE nsqdNodes' = listed /\ producers' = InitProducers(listed) /\ troubled' = troubled
      BY <1>0, <2>1, <2>3, SameLosses DEF Fit, Sound, InitProducers, session, nodes
    <2> QED
      BY <1>2, <2>2, <2>3 DEF Boot, CallFails
  <1>3. CASE Refresh
    <2>1. /\ lost' = lost /\ refused' = refused /\ UNCHANGED session /\ UNCHANGED nodes
          /\ producers' = producers /\ up' = up /\ todo' = nsqdNodes'
      BY <1>3 DEF Refresh
    <2>2. CASE troubled' = TRUE
      BY <1>0, <2>1, <2>2, SameLosses DEF Fit
    <2>3. CASE nsqdNodes' = listed /\ troubled' = troubled
      BY <1>0, <2>1, <2>3, SameLosses DEF Fit, Sound, session, nodes
    <2> QED
      BY <1>3, <2>2, <2>3 DEF Refresh, CallFails
  <1>4. CASE Crash
    BY <1>0, <1>4, DeathFit, SameLosses DEF Crash, Dies
  <1>5. ASSUME NEW g \in Groups, NEW r \in BOOLEAN, Join(g, r) PROVE LossHasACause' /\ Fit'
    <2>1. /\ troubled' = troubled /\ lost' = lost /\ refused' = refused /\ up' = up
          /\ UNCHANGED nodes /\ UNCHANGED manager
          /\ \A k \in Groups : stage'[k] = "counted" => stage[k] = "counted" /\ count'[k] = count[k]
      BY <1>5 DEF Join, history
    <2> QED
      BY <1>0, <2>1, SameLosses, SameFit DEF nodes, manager
  <1>6. ASSUME NEW g \in Groups, Begin(g) PROVE LossHasACause' /\ Fit'
    <2>1. /\ troubled' = troubled /\ lost' = lost /\ refused' = refused /\ up' = up
          /\ UNCHANGED nodes /\ UNCHANGED manager
          /\ \A k \in Groups : stage'[k] = "counted" => stage[k] = "counted" /\ count'[k] = count[k]
      BY <1>6 DEF Begin
    <2> QED
      BY <1>0, <2>1, SameLosses, SameFit DEF nodes, manager
  <1>7. ASSUME NEW g \in Groups, Fetch(g) PROVE LossHasACause' /\ Fit'
    <2>1. /\ troubled' = troubled /\ lost' = lost /\ refused' = refused /\ up' = up
          /\ UNCHANGED nodes /\ UNCHANGED manager
          /\ \A k \in Groups : stage'[k] = "counted" => stage[k] = "counted" /\ count'[k] = count[k]
      BY <1>7 DEF Fetch, history
    <2> QED
      BY <1>0, <2>1, SameLosses, SameFit DEF nodes, manager
  <1>8. ASSUME NEW g \in Groups, Reestablish(g) PROVE LossHasACause' /\ Fit'
    <2>1. /\ troubled' = troubled /\ lost' = lost /\ refused' = refused /\ up' = up
          /\ UNCHANGED nodes /\ UNCHANGED manager
          /\ \A k \in Groups : stage'[k] = "counted" => stage[k] = "counted" /\ count'[k] = count[k]
      BY <1>8 DEF Reestablish
    <2> QED
      BY <1>0, <2>1, SameLosses, SameFit DEF nodes, manager
  <1>9. ASSUME NEW g \in Groups, GivesUp(g) PROVE LossHasACause' /\ Fit'
    <2>1. /\ troubled' = troubled /\ lost' = lost /\ refused' = refused /\ up' = up
          /\ UNCHANGED nodes /\ UNCHANGED manager
          /\ \A k \in Groups : stage'[k] = "counted" => stage[k] = "counted" /\ count'[k] = count[k]
      BY <1>9 DEF GivesUp, history
    <2> QED
      BY <1>0, <2>1, SameLosses, SameFit DEF nodes, manager
  <1>10. ASSUME NEW g \in Groups, Count(g) PROVE LossHasACause' /\ Fit'
    <2>1. /\ lost' = lost /\ refused' = refused /\ up' = up /\ troubled' = troubled
          /\ UNCHANGED nodes /\ UNCHANGED manager /\ Reading(g)
          /\ stage' = [stage EXCEPT ![g] = "counted"]
          /\ count' = [count EXCEPT ![g] = IF nsqaddrs # {} THEN 0 ELSE Cardinality(nsqdNodes)]
      BY <1>10 DEF Count, history
    <2>2. phase[g] # "closed"
      BY <2>1 DEF Reading
    <2>3. up /\ nsqdNodes \in SUBSET Nsqds
      BY <2>2 DEF Sessions, TypeOK
    <2>4. nsqdNodes # {} => Cardinality(nsqdNodes) # 0
      BY <2>3, CardinalitiesAreNumbers
    <2>5. ~troubled => nsqaddrs # {} \/ nsqdNodes # {}
      BY <1>0, <2>3 DEF Fit, Sound
    <2>6. stage \in [Groups -> {"wait", "counted", "sent"}] /\ count \in [Groups -> Nat]
      BY DEF TypeOK
    <2>7. Fit'
      <3> SUFFICES ASSUME ~troubled PROVE Fit'
        BY <2>1 DEF Fit
      <3>1. \A k \in Groups : stage'[k] = "counted" => nsqaddrs # {} \/ count'[k] # 0
        <4> SUFFICES ASSUME NEW k \in Groups, stage'[k] = "counted"
                     PROVE  nsqaddrs # {} \/ count'[k] # 0
          OBVIOUS
        <4>1. CASE k = g
          BY <2>1, <2>4, <2>5, <2>6, <4>1
        <4>2. CASE k # g
          BY <1>0, <2>1, <2>6, <4>2 DEF Fit
        <4> QED
          BY <4>1, <4>2
      <3> QED
        BY <1>0, <2>1, <3>1 DEF Fit, Sound, nodes, manager
    <2> QED
      BY <1>0, <2>1, <2>7, SameLosses
  <1>11. ASSUME NEW g \in Groups, Enqueue(g) PROVE LossHasACause' /\ Fit'
    <2>1. PICK e \in Events, addr \in Drawn(g) : Send(g, e, addr)
      BY <1>11 DEF Enqueue
    <2>2. /\ troubled' = troubled /\ up' = up /\ UNCHANGED nodes /\ UNCHANGED manager
          /\ Reading(g) /\ stage[g] = "counted"
          /\ stage' = [stage EXCEPT ![g] = "sent"] /\ count' = [count EXCEPT ![g] = 0]
      BY <1>11 DEF Enqueue
    <2>3. phase[g] # "closed"
      BY <2>2 DEF Reading
    <2>4. up
      BY <2>3 DEF Sessions
    <2>5. ~troubled => nsqaddrs # {} \/ count[g] # 0
      BY <1>0, <2>2 DEF Fit
    <2>6. ~troubled => addr \in nsqaddrs \cup nsqdNodes
      BY <2>1, <2>5 DEF Drawn
    <2>7. LossHasACause'
      BY <1>0, <2>1, <2>2, <2>4, <2>6, SoundLosses
    <2>8. \A k \in Groups : stage'[k] = "counted" => stage[k] = "counted" /\ count'[k] = count[k]
      BY <2>2 DEF TypeOK
    <2> QED
      BY <1>0, <2>2, <2>7, <2>8, SameFit DEF nodes, manager
  <1>12. ASSUME NEW g \in Groups, CommitUpto(g) PROVE LossHasACause' /\ Fit'
    <2>1. /\ troubled' = troubled /\ lost' = lost /\ refused' = refused /\ up' = up
          /\ UNCHANGED nodes /\ UNCHANGED manager
          /\ \A k \in Groups : stage'[k] = "counted" => stage[k] = "counted" /\ count'[k] = count[k]
      BY <1>12 DEF CommitUpto, Marked, history, TypeOK
    <2> QED
      BY <1>0, <2>1, SameLosses, SameFit DEF nodes, manager
  <1>13. ASSUME NEW g \in Groups, Flush(g) PROVE LossHasACause' /\ Fit'
    <2>1. /\ troubled' = troubled /\ lost' = lost /\ refused' = refused /\ up' = up
          /\ UNCHANGED nodes /\ UNCHANGED manager
          /\ \A k \in Groups : stage'[k] = "counted" => stage[k] = "counted" /\ count'[k] = count[k]
      BY <1>13 DEF Flush, history
    <2> QED
      BY <1>0, <2>1, SameLosses, SameFit DEF nodes, manager
  <1>14. ASSUME NEW g \in Groups, Close(g) PROVE LossHasACause' /\ Fit'
    <2>1. /\ troubled' = troubled /\ lost' = lost /\ refused' = refused /\ up' = up
          /\ UNCHANGED nodes /\ UNCHANGED manager
          /\ \A k \in Groups : stage'[k] = "counted" => stage[k] = "counted" /\ count'[k] = count[k]
      BY <1>14 DEF Close, history
    <2> QED
      BY <1>0, <2>1, SameLosses, SameFit DEF nodes, manager
  <1>15. ASSUME NEW g \in Groups, CloseUnread(g) PROVE LossHasACause' /\ Fit'
    <2>1. /\ Ended(g) /\ troubled' = troubled /\ lost' = lost /\ refused' = refused
          /\ up' = up /\ UNCHANGED nodes /\ UNCHANGED manager
      BY <1>15 DEF CloseUnread, history
    <2> QED
      BY <1>0, <2>1, SameLosses, EndedFit
  <1>16. ASSUME NEW g \in Groups, CloseStalled(g) PROVE LossHasACause' /\ Fit'
    <2>1. /\ Ended(g) /\ troubled' = troubled /\ lost' = lost /\ refused' = refused
          /\ up' = up /\ UNCHANGED nodes /\ UNCHANGED manager
      BY <1>16 DEF CloseStalled, EndedUncommitted
    <2> QED
      BY <1>0, <2>1, SameLosses, EndedFit
  <1>17. ASSUME NEW g \in Groups, Closed(g) PROVE LossHasACause' /\ Fit'
    <2>1. /\ Ended(g) /\ troubled' = troubled /\ lost' = lost /\ refused' = refused
          /\ up' = up /\ UNCHANGED nodes /\ UNCHANGED manager
      BY <1>17 DEF Closed, history
    <2> QED
      BY <1>0, <2>1, SameLosses, EndedFit
  <1>18. ASSUME NEW g \in Groups, CloseTimesOut(g) PROVE LossHasACause' /\ Fit'
    <2>1. /\ Ended(g) /\ troubled' = troubled /\ lost' = lost /\ refused' = refused
          /\ up' = up /\ UNCHANGED nodes /\ UNCHANGED manager
      BY <1>18 DEF CloseTimesOut, EndedUncommitted
    <2> QED
      BY <1>0, <2>1, SameLosses, EndedFit
  <1>19. ASSUME NEW g \in Groups, CommitFails(g) PROVE LossHasACause' /\ Fit'
    <2>1. /\ Ended(g) /\ troubled' = troubled /\ lost' = lost /\ refused' = refused
          /\ up' = up /\ UNCHANGED nodes /\ UNCHANGED manager
      BY <1>19 DEF CommitFails, EndedUncommitted
    <2> QED
      BY <1>0, <2>1, SameLosses, EndedFit
  <1>20. ASSUME NEW g \in Groups, LateEnqueue(g) PROVE LossHasACause' /\ Fit'
    <2>1. PICK e \in Events : /\ First(late[g], e)
                              /\ \E addr \in (IF nsqaddrs # {} THEN nsqaddrs
                                              ELSE IF nsqdNodes = {} THEN {None} ELSE nsqdNodes) :
                                     Send(g, e, addr)
      BY <1>20 DEF LateEnqueue
    <2>2. /\ troubled' = troubled /\ up' = up /\ UNCHANGED nodes /\ UNCHANGED manager
          /\ stage' = stage /\ count' = count
      BY <1>20 DEF LateEnqueue
    <2>3. late[g][e] > 0
      BY <2>1 DEF First
    <2>4. up
      BY <2>3 DEF Sessions
    <2>5. ~troubled => nsqaddrs # {} \/ nsqdNodes # {}
      BY <1>0, <2>4 DEF Fit, Sound
    <2>6. PICK addr : /\ Send(g, e, addr)
                      /\ ~troubled => addr \in nsqaddrs \cup nsqdNodes
      BY <2>1, <2>5
    <2>7. LossHasACause'
      BY <1>0, <2>2, <2>4, <2>6, SoundLosses
    <2> QED
      BY <1>0, <2>2, <2>7, SameFit DEF nodes, manager
  <1>21. ASSUME NEW g \in Groups, IndexOutOfRange(g) PROVE LossHasACause' /\ Fit'
    BY <1>0, <1>21, DeathFit, SameLosses DEF IndexOutOfRange, Dies
  <1>22. ASSUME NEW n \in Nsqds, Visit(n) PROVE LossHasACause' /\ Fit'
    <2>1. /\ lost' = lost /\ refused' = refused /\ UNCHANGED session /\ UNCHANGED nodes
          /\ n \in todo /\ up' = up /\ nsqdNodes' = nsqdNodes /\ todo' = todo \ {n}
      BY <1>22 DEF Visit
    <2>2. CASE troubled' = TRUE
      BY <1>0, <2>1, <2>2, SameLosses DEF Fit
    <2>3. CASE troubled' = troubled /\ n \in alive /\ producers' = producers \cup {n}
      BY <1>0, <2>1, <2>3, SameLosses DEF Fit, Sound, session, nodes
    <2>4. CASE troubled' = troubled /\ n \notin alive
      BY <1>0, <2>1, <2>4, SameLosses DEF Fit, Sound
    <2> QED
      BY <1>22, <2>2, <2>3, <2>4 DEF Visit, CallFails
  <1>23. ASSUME NEW n \in Nsqds, NsqdStops(n) PROVE LossHasACause' /\ Fit'
    BY <1>0, <1>23, SameLosses DEF NsqdStops, NodesChange, Fit
  <1>24. ASSUME NEW n \in Nsqds, NsqdStarts(n) PROVE LossHasACause' /\ Fit'
    BY <1>0, <1>24, SameLosses DEF NsqdStarts, NodesChange, Fit
  <1>25. ASSUME NEW n \in Nsqds, Noticed(n) PROVE LossHasACause' /\ Fit'
    BY <1>0, <1>25, SameLosses DEF Noticed, NodesChange, Fit
  <1>26. CASE UNCHANGED vars
    BY <1>0, <1>26, SameLosses, SameFit DEF vars, session, nodes, manager, history
  <1> QED
    BY <1>1, <1>2, <1>3, <1>4, <1>5, <1>6, <1>7, <1>8, <1>9, <1>10,
       <1>11, <1>12, <1>13, <1>14, <1>15, <1>16, <1>17, <1>18, <1>19, <1>20,
       <1>21, <1>22, <1>23, <1>24, <1>25, <1>26 DEF Next

-----------------------------------------------------------------------------
\* The first states satisfy the invariant.
LEMMA InitInv == Init => Inv
  <1> SUFFICES ASSUME Init PROVE Inv
    OBVIOUS
  <1>1. KafkaTypes /\ SessionTypes
    BY DeliveryAssumption DEF Init, KafkaTypes, SessionTypes
  <1>2. MessageTypes
    BY DEF Init, MessageTypes, NoMessages
  <1>3. InOrder /\ Booleans
    <2>1. troubled = ~Sound /\ up = FALSE
      BY DEF Init
    <2>2. troubled \in BOOLEAN /\ up \in BOOLEAN
      <3>1. CASE Sound
        BY <2>1, <3>1 DEF Sound
      <3>2. CASE ~Sound
        BY <2>1, <3>2 DEF Sound
      <3> QED
        BY <3>1, <3>2
    <2>3. InOrder
      BY DEF Init, InOrder
    <2> QED
      BY <2>2, <2>3 DEF Booleans
  <1>4. NodeTypes
    <2>1. PICK site \in Sites :
             alive = site.alive /\ listed = site.listed /\ nsqaddrs = site.nsqaddrs
      BY DEF Init
    <2>2. alive \in SUBSET Nsqds /\ listed \in SUBSET Nsqds /\ nsqaddrs \in SUBSET Nsqds
      BY <2>1, DeliveryAssumption
    <2>3. faults = 0 /\ closes = 0 /\ nsqdNodes = {} /\ producers = {} /\ todo = {}
      BY DEF Init
    <2> QED
      BY <2>2, <2>3, DeliveryAssumption DEF NodeTypes
  <1>5. \A g \in Groups : phase[g] = "closed" /\ ~Reading(g) /\ stage[g] = "wait"
    BY DEF Init, Reading
  <1>6. \A g \in Groups, e \in Events : queued[g][e] = 0 /\ late[g][e] = 0 /\ copies[g][e] = 0
    BY DEF Init, NoMessages
  <1>7. \A g \in Groups : stored[g] = None /\ last[g] = 0 /\ breaks[g] = 0
    BY DEF Init
  <1>8. Sessions
    BY <1>5, <1>6, <1>7 DEF Sessions
  <1>9. Accounted /\ Handled
    BY <1>5, <1>7 DEF Accounted, Handled
  <1>10. Copies
    <2> SUFFICES ASSUME NEW g \in Groups, NEW e \in Events PROVE Load(g, e) <= 1 + breaks[g]
      BY DEF Copies
    <2>1. Unsent(g)[e] = 0
      BY <1>5, <1>6 DEF Unsent
    <2>2. ToRead(g, e) \in {0, 1}
      BY DEF ToRead
    <2> QED
      BY <1>6, <1>7, <2>1, <2>2 DEF Load
  <1>11. Healthy
    <2>1. /\ \A g \in Groups : lost[g] = {}
          /\ troubled = ~Sound /\ todo = {} /\ ~up
      BY DEF Init
    <2> QED
      BY <1>5, <2>1 DEF Healthy, LossHasACause
  <1> QED
    BY <1>1, <1>2, <1>3, <1>4, <1>8, <1>9, <1>10, <1>11, TypeParts DEF Inv

\* The inductive invariant.
THEOREM Invariant == Spec => []Inv
  <1>1. Inv /\ [Next]_vars => Inv'
    BY TypeStep, SessionStep, HandledStep, CopyStep, HealthStep DEF Inv
  <1> QED
    BY InitInv, <1>1, PTL DEF Spec

\* Consumer groups and NSQ manager keep their variables' types: among them, that a
\* group marks and hands over no message that has not been written.
THEOREM TypeCorrect == Spec => []TypeOK
  <1>1. Inv => TypeOK
    BY DEF Inv
  <1> QED
    BY Invariant, <1>1, PTL

\* HandleMessage and the committer leave no event behind that is not accounted for.
THEOREM EventsAreAccounted == Spec => []Accounted
  <1>1. Inv => Accounted
    BY DEF Inv
  <1> QED
    BY Invariant, <1>1, PTL

\* Each session that ends without a commit, and each stream that is re-established, costs
\* one more copy of an event in the NSQ topic at most.
THEOREM RepeatsAreBounded == Spec => []BoundedRepeats
  <1>1. ASSUME TypeOK, Copies PROVE BoundedRepeats
    <2> SUFFICES ASSUME NEW g \in Groups, NEW e \in Events
                 PROVE  copies[g][e] <= 1 + breaks[g]
      BY DEF BoundedRepeats
    <2>1. Load(g, e) <= 1 + breaks[g]
      BY <1>1 DEF Copies
    <2> QED
      BY <1>1, <2>1, LoadNumbers DEF Load
  <1>2. Inv => BoundedRepeats
    BY <1>1 DEF Inv
  <1> QED
    BY Invariant, <1>2, PTL

\* Unless a publish fails on a node that answers, Enqueue gives an event up only after a
\* node has come, gone or not answered, or a lookup or a ping has failed.
THEOREM LossesHaveACause == Spec => []LossHasACause
  <1>1. Inv => LossHasACause
    BY DEF Inv, Healthy
  <1> QED
    BY Invariant, <1>1, PTL
=============================================================================
