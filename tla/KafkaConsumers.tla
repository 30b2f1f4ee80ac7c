--------------------------- MODULE KafkaConsumers ---------------------------
(***************************************************************************)
(* One dispatcher process: the RPC handlers the monitor calls, the task    *)
(* map and the KafkaConsumerManager (src/dispatcher/kafka_consumer.go,     *)
(* rpcserver.go, task.go, dispatcher.go).                                  *)
(*                                                                         *)
(* net/rpc runs every call in a goroutine of its own and the manager's     *)
(* lock covers single map operations only, so each lock region, and each   *)
(* call of the consumer-group library, is one action here.  A task is its  *)
(* name; its fields are one model value, since the manager only hands them *)
(* to the topic matcher.  A consumer is a pair <<task, slot>>: the slot    *)
(* tells apart the consumers created for one task, and a slot is free      *)
(* again when nothing refers to it.                                        *)
(***************************************************************************)
EXTENDS Naturals, FiniteSets

CONSTANTS
    Tasks,      \* task names: the keys of the task map and the Kafka group ids
    Fields,     \* versions of a task's subscribed fields
    Slots,      \* distinguishes the consumers created for one task
    Calls,      \* goroutines that run an RPC handler or an initial subscription
    Overlap,    \* may two RPCs about the same task be in flight together?
    None        \* the absent value (Go's nil)

Consumers == Tasks \X Slots
Group(c) == c[1]

StopOps == {"Stop", "Delete"}
SubscribeOps == {"Init", "Add", "Start"}
RpcOps == {"Add", "Start", "Update"} \cup StopOps
Requests == [op : RpcOps \cup {"Init"}, task : Tasks, fields : Fields]

ASSUME KAssumption ==
    /\ Overlap \in BOOLEAN
    /\ None \notin Fields
    /\ None \notin Consumers
    /\ None \notin Requests

VARIABLES
    phase,      \* of the process: down, boot, serving, stopping
    loaded,     \* TaskManager.taskMap is not nil (InitTasks succeeded)
    taskMap,    \* TaskMap.cmap: the fields of a known task, None otherwise
    toInit,     \* tasks InitConsumers has still to start a goroutine for
    managed,    \* KafkaConsumerManager.consumers: the consumer of a group, or None
    joined,     \* the fields a consumer has joined its group for, None when it has left
    ending,     \* consumers whose Close has begun and not returned
    late,       \* consumers that have left, with messages Close did not wait for
    closing,    \* consumers StopConsumers found in the map
    pc,         \* where each goroutine stands
    req,        \* the request it runs
    held        \* its local variable "consumer"

vars == <<phase, loaded, taskMap, toInit, managed, joined, ending, late, closing, pc, req, held>>
process == <<phase, loaded, toInit, closing>>
library == <<joined, ending, late>>

-----------------------------------------------------------------------------
Labels == {"idle", "map", "get", "close", "wait", "drop", "topics", "exists", "join",
           "add", "reply"}

Busy(p, t) == pc[p] # "idle" /\ req[p].task = t
OpenConsumers(t) == {c \in Consumers : Group(c) = t /\ joined[c] # None}
LateConsumers(t) == {c \in late : Group(c) = t}
Handling(t) == OpenConsumers(t) \cup LateConsumers(t)

\* An identity nothing in the process refers to.
Free(c) == /\ joined[c] = None
           /\ c \notin late
           /\ \A t \in Tasks : managed[t] # c
           /\ \A p \in Calls : held[p] # c
           /\ c \notin closing

Goto(p, label) == pc' = [pc EXCEPT ![p] = label]

Init == /\ phase = "down"
        /\ loaded = FALSE
        /\ taskMap = [t \in Tasks |-> None]
        /\ toInit = {}
        /\ managed = [t \in Tasks |-> None]
        /\ joined = [c \in Consumers |-> None]
        /\ ending = {}
        /\ late = {}
        /\ closing = {}
        /\ pc = [p \in Calls |-> "idle"]
        /\ req = [p \in Calls |-> None]
        /\ held = [p \in Calls |-> None]

\* The process is gone with everything it kept; its consumers leave their groups.
Die == /\ phase' = "down"
       /\ loaded' = FALSE
       /\ taskMap' = [t \in Tasks |-> None]
       /\ toInit' = {}
       /\ managed' = [t \in Tasks |-> None]
       /\ joined' = [c \in Consumers |-> None]
       /\ ending' = {}
       /\ late' = {}
       /\ closing' = {}
       /\ pc' = [p \in Calls |-> "idle"]
       /\ req' = [p \in Calls |-> None]
       /\ held' = [p \in Calls |-> None]

-----------------------------------------------------------------------------
(* Plausible mistakes in the code, to see the properties notice them.      *)

\* InitConsumers would not look at what GetAllTasks returned.
MutantInitTasks ==
    /\ phase = "down"
    /\ phase' = "boot"
    /\ taskMap' \in [Tasks -> Fields \cup {None}]
    /\ toInit' = Tasks
    /\ loaded' = TRUE
    /\ UNCHANGED <<managed, library, closing, pc, req, held>>

\* UpdateTask handled like AddTask: nothing is closed first.
MutantUpdateAsAdd(p) ==
    /\ pc[p] = "map"
    /\ loaded
    /\ taskMap' = [taskMap EXCEPT ![req[p].task] =
                      IF req[p].op = "Delete" THEN None ELSE req[p].fields]
    /\ Goto(p, IF req[p].op \in StopOps THEN "get" ELSE "topics")
    /\ UNCHANGED <<process, managed, library, req, held>>

\* DeleteTask without the StopTask it ends with.
MutantDeleteWithoutStop(p) ==
    /\ pc[p] = "map"
    /\ loaded
    /\ taskMap' = [taskMap EXCEPT ![req[p].task] =
                      IF req[p].op = "Delete" THEN None ELSE req[p].fields]
    /\ Goto(p, IF req[p].op = "Delete" THEN "reply"
               ELSE IF req[p].op \in SubscribeOps THEN "topics" ELSE "get")
    /\ UNCHANGED <<process, managed, library, req, held>>

\* UpdateTask joins again while the consumer of before is still open.
MutantUpdateKeepsConsumer(p) ==
    /\ pc[p] = "get"
    /\ held' = [held EXCEPT ![p] = IF req[p].op = "Update" THEN None
                                  ELSE managed[req[p].task]]
    /\ managed' = IF req[p].op = "Update"
                  THEN [managed EXCEPT ![req[p].task] = None] ELSE managed
    /\ Goto(p, IF req[p].op = "Update" THEN "topics"
               ELSE IF managed[req[p].task] # None THEN "close" ELSE "reply")
    /\ UNCHANGED <<process, taskMap, library, req>>

\* The entry is removed and the consumer never closed.
MutantNoClose(p) == /\ pc[p] = "close"
                    /\ Goto(p, "drop")
                    /\ UNCHANGED <<process, taskMap, managed, library, req, held>>

\* The consumer is closed and its entry never removed.
MutantNoDelete(p) ==
    /\ pc[p] = "drop"
    /\ Goto(p, IF req[p].op = "Update" THEN "topics" ELSE "reply")
    /\ held' = [held EXCEPT ![p] = None]
    /\ UNCHANGED <<process, taskMap, managed, library, req>>

\* traverseTask without the check of GroupExists.
MutantNoGroupCheck(p) == /\ pc[p] = "exists"
                         /\ Goto(p, "join")
                         /\ UNCHANGED <<process, taskMap, managed, library, req, held>>

-----------------------------------------------------------------------------
(* Start: InitTasks, InitConsumers and only then the RPC server.           *)

InitTasks ==
    /\ phase = "down"
    /\ phase' = "boot"
    /\ \E known \in [Tasks -> Fields \cup {None}] :
          /\ taskMap' = known
          /\ toInit' \in SUBSET {t \in Tasks : known[t] # None}
    /\ loaded' = TRUE
    /\ UNCHANGED <<managed, library, closing, pc, req, held>>

\* The monitor does not answer: the map stays nil and the dispatcher goes on.
InitTasksFails ==
    /\ phase = "down"
    /\ phase' = "boot"
    /\ UNCHANGED <<loaded, taskMap, toInit, managed, library, closing, pc, req, held>>

\* InitConsumers starts a goroutine for a task with SubscribeStat = 1.
InitConsumer(p, t) ==
    /\ phase = "boot"
    /\ pc[p] = "idle"
    /\ t \in toInit
    /\ toInit' = toInit \ {t}
    /\ req' = [req EXCEPT ![p] = [op |-> "Init", task |-> t, fields |-> taskMap[t]]]
    /\ Goto(p, "topics")
    /\ UNCHANGED <<phase, loaded, taskMap, managed, library, closing, held>>

StartRpcServer ==
    /\ phase = "boot"
    /\ toInit = {}
    /\ \A p \in Calls : pc[p] = "idle"
    /\ phase' = "serving"
    /\ UNCHANGED <<loaded, taskMap, toInit, managed, library, closing, pc, req, held>>

-----------------------------------------------------------------------------
(* The RPC handlers and the manager's operations.                          *)

Receive(p, r) ==
    /\ phase \in {"serving", "stopping"}
    /\ pc[p] = "idle"
    /\ Overlap \/ \A q \in Calls : ~Busy(q, r.task)
    /\ req' = [req EXCEPT ![p] = r]
    /\ Goto(p, "map")
    /\ UNCHANGED <<process, taskMap, managed, library, held>>

\* taskMap.Set or taskMap.Delete, the first statement of every handler.
SetTask(p) ==
    /\ pc[p] = "map"
    /\ loaded
    /\ taskMap' = [taskMap EXCEPT ![req[p].task] =
                      IF req[p].op = "Delete" THEN None ELSE req[p].fields]
    /\ Goto(p, IF req[p].op \in SubscribeOps THEN "topics" ELSE "get")
    /\ UNCHANGED <<process, managed, library, req, held>>

\* The same statement on a nil map panics, and net/rpc does not recover.
SetTaskPanics(p) == pc[p] = "map" /\ ~loaded /\ Die

GetConsumer(p) ==
    /\ pc[p] = "get"
    /\ held' = [held EXCEPT ![p] = managed[req[p].task]]
    /\ Goto(p, IF managed[req[p].task] # None THEN "close"
               ELSE IF req[p].op = "Update" THEN "topics" ELSE "reply")
    /\ UNCHANGED <<process, taskMap, managed, library, req>>

\* consumergroup.Close; the stopper of a consumer is closed once.
CloseConsumer(p) ==
    /\ pc[p] = "close"
    /\ ending' = IF joined[held[p]] = None THEN ending ELSE ending \cup {held[p]}
    /\ Goto(p, "wait")
    /\ UNCHANGED <<process, taskMap, managed, joined, late, req, held>>

\* A second caller waits, in sync.Once, for the first one's Close to return.
AwaitClose(p) ==
    /\ pc[p] = "wait"
    /\ joined[held[p]] = None
    /\ Goto(p, "drop")
    /\ UNCHANGED <<process, taskMap, managed, library, req, held>>

\* The library: every message handed over is marked, or ProcessingTimeout has
\* passed, and the consumer leaves its group.  HandleMessage goes on with what is
\* still in the channel.
LeaveGroup(c) ==
    /\ c \in ending
    /\ joined' = [joined EXCEPT ![c] = None]
    /\ ending' = ending \ {c}
    /\ late' \in {late, late \cup {c}}
    /\ UNCHANGED <<process, taskMap, managed, pc, req, held>>

\* HandleMessage's loop ends: the channel is closed and empty.
ChannelEmpty(c) ==
    /\ c \in late
    /\ late' = late \ {c}
    /\ UNCHANGED <<process, taskMap, managed, joined, ending, pc, req, held>>

\* KafkaConsumerManager.Delete removes whatever the group id maps to by now.
DeleteEntry(p) ==
    /\ pc[p] = "drop"
    /\ managed' = [managed EXCEPT ![Group(held[p])] = None]
    /\ Goto(p, IF req[p].op = "Update" THEN "topics" ELSE "reply")
    /\ held' = [held EXCEPT ![p] = None]
    /\ UNCHANGED <<process, taskMap, library, req>>

\* getTopics: no topic matches, or zookeeper cannot be read, and the task
\* is left without a consumer.
GetTopics(p) ==
    /\ pc[p] = "topics"
    /\ \/ Goto(p, "exists")
       \/ Goto(p, "reply")
    /\ UNCHANGED <<process, taskMap, managed, library, req, held>>

GroupExists(p) ==
    /\ pc[p] = "exists"
    /\ Goto(p, IF managed[req[p].task] = None THEN "join" ELSE "reply")
    /\ UNCHANGED <<process, taskMap, managed, library, req, held>>

NewConsumer(p) ==
    /\ pc[p] = "join"
    /\ \E c \in Consumers :
          /\ Group(c) = req[p].task
          /\ Free(c)
          /\ joined' = [joined EXCEPT ![c] = req[p].fields]
          /\ held' = [held EXCEPT ![p] = c]
    /\ Goto(p, "add")
    /\ UNCHANGED <<process, taskMap, managed, ending, late, req>>

NewConsumerFails(p) ==
    /\ pc[p] = "join"
    /\ Goto(p, "reply")
    /\ UNCHANGED <<process, taskMap, managed, library, req, held>>

AddEntry(p) ==
    /\ pc[p] = "add"
    /\ managed' = [managed EXCEPT ![Group(held[p])] = held[p]]
    /\ held' = [held EXCEPT ![p] = None]
    /\ Goto(p, "reply")
    /\ UNCHANGED <<process, taskMap, library, req>>

\* The handler returns: the monitor has its answer and may send the next call.
Respond(p) ==
    /\ pc[p] = "reply"
    /\ req' = [req EXCEPT ![p] = None]
    /\ Goto(p, "idle")
    /\ UNCHANGED <<process, taskMap, managed, library, held>>

-----------------------------------------------------------------------------
(* Stop: StopConsumers closes what the map holds when the signal arrives;  *)
(* the RPC server keeps serving until the process exits.                   *)

StopConsumers ==
    /\ phase = "serving"
    /\ phase' = "stopping"
    /\ closing' = {managed[t] : t \in Tasks} \ {None}
    /\ UNCHANGED <<loaded, taskMap, toInit, managed, library, pc, req, held>>

CloseOnStop(c) ==
    /\ c \in closing \ ending
    /\ joined[c] # None
    /\ ending' = ending \cup {c}
    /\ UNCHANGED <<process, taskMap, managed, joined, late, pc, req, held>>

Exit == phase = "stopping" /\ (\A c \in closing : joined[c] = None) /\ Die

Crash == phase # "down" /\ Die

-----------------------------------------------------------------------------
Step(p) == \/ SetTask(p)
           \/ SetTaskPanics(p)
           \/ GetConsumer(p)
           \/ CloseConsumer(p)
           \/ AwaitClose(p)
           \/ DeleteEntry(p)
           \/ GetTopics(p)
           \/ GroupExists(p)
           \/ NewConsumer(p)
           \/ NewConsumerFails(p)
           \/ AddEntry(p)
           \/ Respond(p)

Next == \/ InitTasks
        \/ InitTasksFails
        \/ \E p \in Calls, t \in Tasks : InitConsumer(p, t)
        \/ StartRpcServer
        \/ \E p \in Calls, r \in Requests : r.op # "Init" /\ Receive(p, r)
        \/ \E p \in Calls : Step(p)
        \/ StopConsumers
        \/ \E c \in Consumers : CloseOnStop(c) \/ LeaveGroup(c) \/ ChannelEmpty(c)
        \/ Exit
        \/ Crash

Spec == Init /\ [][Next]_vars

-----------------------------------------------------------------------------
(* Properties.                                                             *)

\* The values the variables take; only an idle goroutine runs no request.
TypeOK ==
    /\ phase \in {"down", "boot", "serving", "stopping"}
    /\ loaded \in BOOLEAN
    /\ taskMap \in [Tasks -> Fields \cup {None}]
    /\ toInit \subseteq {t \in Tasks : taskMap[t] # None}
    /\ managed \in [Tasks -> Consumers \cup {None}]
    /\ joined \in [Consumers -> Fields \cup {None}]
    /\ ending \subseteq {c \in Consumers : joined[c] # None}
    /\ late \subseteq {c \in Consumers : joined[c] = None}
    /\ closing \subseteq Consumers
    /\ pc \in [Calls -> Labels]
    /\ req \in [Calls -> Requests \cup {None}]
    /\ held \in [Calls -> Consumers \cup {None}]
    /\ \A p \in Calls : pc[p] # "idle" => req[p] \in Requests

\* A consumer that is closed but still in the map would make GroupExists
\* answer yes for ever: no later AddTask or StartTask could subscribe the task
\* again.  However the handlers interleave while Close waits, such an entry is
\* about to be deleted by a handler that has closed its consumer (UpdateTask,
\* StopTask).
NoStuckEntry ==
    phase # "stopping" =>
       \A t \in Tasks :
          managed[t] # None /\ (joined[managed[t]] = None \/ managed[t] \in ending) =>
             \E p \in Calls : pc[p] \in {"wait", "drop"} /\ held[p] = managed[t]

\* Two consumers of one process in one group would split the partitions
\* between them.  Without overlapping RPCs the check of GroupExists and the
\* later Add in traverseTask are enough to have at most one per task.
OneConsumer ==
    \A t \in Tasks : \A c, d \in OpenConsumers(t) : c = d

\* When StopTask or DeleteTask answers, whatever still handles events of the task
\* has left its group, and Close has waited ProcessingTimeout for it.
StopTakesEffect ==
    \A p \in Calls :
       pc[p] = "reply" /\ req[p].op \in StopOps => Handling(req[p].task) \subseteq late

\* When UpdateTask answers, no consumer is left on the fields of before:
\* traverseTask must find the entry gone, or it would not join again.
UpdateTakesEffect ==
    \A p \in Calls :
       pc[p] = "reply" /\ req[p].op = "Update" =>
          \A c \in OpenConsumers(req[p].task) : joined[c] = req[p].fields

\* An event of a task missing from the task map is dropped and its offset
\* committed all the same (enqueue, HandleMessage).  A task is consumed while
\* it is missing only for the time its DeleteTask takes, and by a consumer that
\* has left its group.
ConsumedTaskIsKnown ==
    \A t \in Tasks :
       ~(Handling(t) \subseteq late) /\ taskMap[t] = None =>
          \E p \in Calls : Busy(p, t) /\ req[p].op = "Delete"

\* StopTask finds a task's consumer through the map only: with no call in
\* flight, a task without an entry must have no open consumer.
NoEntryNoSubscription ==
    \A t \in Tasks :
       managed[t] = None /\ (\A p \in Calls : ~Busy(p, t)) => OpenConsumers(t) = {}

\* Without overlapping RPCs, the dispatcher is the service TaskSubscription
\* describes.
PendingRequest(t) == IF \E p \in Calls : Busy(p, t)
                     THEN req[CHOOSE p \in Calls : Busy(p, t)]
                     ELSE None

Service == INSTANCE TaskSubscription WITH
    request <- [t \in Tasks |-> PendingRequest(t)],
    sub     <- [t \in Tasks |-> {[id |-> c, fields |-> joined[c]] : c \in OpenConsumers(t)}],
    late    <- [t \in Tasks |-> LateConsumers(t)],
    leaving <- phase = "stopping",
    RestartOps <- {"Update"}

ServiceSpec == Service!Spec
=============================================================================
