--------------------------- MODULE TaskConsumers ---------------------------
(***************************************************************************)
(* One pusher process: the RPC handlers the monitor calls and the          *)
(* TaskConsumerManager with its two maps (src/pusher/rpcserver.go,         *)
(* task_consumer_manager.go, task_consumer.go, task_map.go, main.go).      *)
(*                                                                         *)
(* The maps lock single operations only, and net/rpc runs every call in a  *)
(* goroutine of its own: each map operation, and each call of the NSQ      *)
(* library, is one action.  A handler is a straight line of them, so pc    *)
(* names the next one; an error return goes straight to the answer.        *)
(***************************************************************************)
EXTENDS Naturals, FiniteSets

CONSTANTS
    Tasks,      \* tasks: a name is the key of one map, its ID of the other
    Fields,     \* versions of what the pusher uses of a task (routine count, url...)
    Slots,      \* distinguishes the consumers created for one task
    Calls,      \* goroutines that run an RPC handler; one stands for Init's loop
    Overlap,    \* may requests about the same task be in flight together?
    None        \* the absent value (Go's nil)

Consumers == Tasks \X Slots
TaskOf(c) == c[1]

StopOps == {"Stop", "Delete"}
Ops == {"Init", "Add", "Start", "Update"} \cup StopOps
\* on: task.Stat = TASK_STATE_START or task.PushStat = TASK_STAT_PUSH, which
\* only Init and AddTask look at.
Requests == {r \in [op : Ops, task : Tasks, fields : Fields, on : BOOLEAN] :
                r.on \/ r.op \in {"Init", "Add"}}

ASSUME PAssumption ==
    /\ Overlap \in BOOLEAN
    /\ None \notin Fields
    /\ None \notin Consumers
    /\ None \notin Requests

VARIABLES
    phase,          \* of the process: down, boot, init, serving, stopping
    toInit,         \* the tasks of GetAllTasks that Init has still to look at
    taskConsumers,  \* TaskConsumerManager.taskConsumers: the consumer of a name, or None
    taskIdMap,      \* TaskConsumerManager.taskIdMap: the fields of a known task, or None
    stage,          \* of a consumer: new, connected, stopping (Stop called), cutOff (the
                    \* library waits no longer for its handlers), stopped
    flight,         \* the fields its MaxInFlight was last set from
    leaving,        \* the consumers StopAllTask found in the map
    pc,             \* the next statement of each goroutine
    req,            \* the request it runs
    held            \* its local variable "taskConsumer", as long as it is needed

vars == <<phase, toInit, taskConsumers, taskIdMap, stage, flight, leaving, pc, req, held>>
process == <<phase, toInit, leaving>>

-----------------------------------------------------------------------------
Labels == {"idle", "find", "remove", "stop", "wait", "noteStop", "forget", "new", "put",
           "noteAdd", "findStart", "noteStart", "connect", "known", "noteUpdate",
           "findUpdate", "change", "noteChange", "reply"}

\* A plausible mistake: StartTask without the StopTask it begins with.
MutantFirstLabel(op) == CASE op \in {"Stop", "Delete"} -> "find"
                          [] op = "Update" -> "known"
                          [] op \in {"Init", "Add", "Start"} -> "new"

FirstLabel(op) == CASE op \in {"Stop", "Delete", "Start"} -> "find"
                    [] op = "Update" -> "known"
                    [] op \in {"Init", "Add"} -> "new"

Busy(p, t) == pc[p] # "idle" /\ req[p].task = t

\* A connected consumer receives messages; one that stops, or has been cut off,
\* still hands over those it has received.
Current(t) == {c \in Consumers : TaskOf(c) = t /\ stage[c] \in {"connected", "stopping"}}
Late(t) == {c \in Consumers : TaskOf(c) = t /\ stage[c] = "cutOff"}
Receiving(t) == Current(t) \cup Late(t)

\* An identity nothing in the process refers to.
Free(c) == /\ stage[c] \in {"new", "stopped"}
           /\ \A t \in Tasks : taskConsumers[t] # c
           /\ \A p \in Calls : held[p] # c
           /\ c \notin leaving

Goto(p, label) == pc' = [pc EXCEPT ![p] = label]

\* Consumer.Stop: one without connections is done at once, the others when their
\* handlers are; a second Stop returns at once.
Stopped(c) == [stage EXCEPT ![c] = CASE @ = "new" -> "stopped"
                                     [] @ = "connected" -> "stopping"
                                     [] OTHER -> @]

Init == /\ phase = "down"
        /\ toInit = {}
        /\ taskConsumers = [t \in Tasks |-> None]
        /\ taskIdMap = [t \in Tasks |-> None]
        /\ stage = [c \in Consumers |-> "stopped"]
        /\ flight = [c \in Consumers |-> None]
        /\ leaving = {}
        /\ pc = [p \in Calls |-> "idle"]
        /\ req = [p \in Calls |-> None]
        /\ held = [p \in Calls |-> None]

\* The process is gone with everything it kept; nsqd closes its connections.
Die == /\ phase' = "down"
       /\ toInit' = {}
       /\ taskConsumers' = [t \in Tasks |-> None]
       /\ taskIdMap' = [t \in Tasks |-> None]
       /\ stage' = [c \in Consumers |-> "stopped"]
       /\ flight' = [c \in Consumers |-> None]
       /\ leaving' = {}
       /\ pc' = [p \in Calls |-> "idle"]
       /\ req' = [p \in Calls |-> None]
       /\ held' = [p \in Calls |-> None]

-----------------------------------------------------------------------------
(* Plausible mistakes in the code, to see the properties notice them.      *)

\* The map is read without a look at "ok".
MutantFindNil(p) == /\ pc[p] = "find"
                    /\ held' = [held EXCEPT ![p] = taskConsumers[req[p].task]]
                    /\ Goto(p, IF req[p].op = "Delete" THEN "remove" ELSE "stop")
                    /\ UNCHANGED <<process, taskConsumers, taskIdMap, stage, flight, req>>

\* StopConsume without <-StopChan.
MutantNoWait(p) == /\ pc[p] = "wait"
                   /\ Goto(p, IF req[p].op = "Delete" THEN "forget" ELSE "noteStop")
                   /\ held' = [held EXCEPT ![p] = None]
                   /\ UNCHANGED <<process, taskConsumers, taskIdMap, stage, flight, req>>

\* StopConsume without Stop.
MutantNoStop(p) == /\ pc[p] = "stop"
                   /\ Goto(p, "wait")
                   /\ UNCHANGED <<process, taskConsumers, taskIdMap, stage, flight, req, held>>

\* DeleteTask forgets the task before its consumer has stopped.
MutantForgetFirst(p) ==
    /\ pc[p] = "remove"
    /\ taskConsumers' = [taskConsumers EXCEPT ![req[p].task] = None]
    /\ taskIdMap' = [taskIdMap EXCEPT ![req[p].task] = None]
    /\ Goto(p, "stop")
    /\ UNCHANGED <<process, stage, flight, req, held>>

\* ChangeConsume that only keeps the task.
MutantNoChange(p) == /\ pc[p] = "change"
                     /\ Goto(p, "noteChange")
                     /\ held' = [held EXCEPT ![p] = None]
                     /\ UNCHANGED <<process, taskConsumers, taskIdMap, stage, flight, req>>

-----------------------------------------------------------------------------
(* main: the RPC server listens and the pusher registers before the task   *)
(* manager exists.                                                         *)

Boot == /\ phase = "down"
        /\ phase' = "boot"
        /\ UNCHANGED <<toInit, taskConsumers, taskIdMap, stage, flight, leaving, pc, req, held>>

\* GetAllTasks (no task, when the monitor does not answer), then Init's loop.
LoadTasks ==
    /\ phase = "boot"
    /\ phase' = "init"
    /\ \E known \in [Tasks -> Fields \cup {None}], started \in SUBSET Tasks :
          toInit' = {[op |-> "Init", task |-> t, fields |-> known[t], on |-> t \in started] :
                        t \in {u \in Tasks : known[u] # None}}
    /\ UNCHANGED <<taskConsumers, taskIdMap, stage, flight, leaving, pc, req, held>>

InitTask(p, r) ==
    /\ phase = "init"
    /\ pc[p] = "idle"
    /\ \A q \in Calls : pc[q] # "idle" => req[q].op # "Init"
    /\ r \in toInit
    /\ toInit' = toInit \ {r}
    /\ req' = [req EXCEPT ![p] = r]
    /\ Goto(p, FirstLabel(r.op))
    /\ UNCHANGED <<phase, taskConsumers, taskIdMap, stage, flight, leaving, held>>

InitDone == /\ phase = "init"
            /\ toInit = {}
            /\ \A q \in Calls : pc[q] # "idle" => req[q].op # "Init"
            /\ phase' = "serving"
            /\ UNCHANGED <<toInit, taskConsumers, taskIdMap, stage, flight, leaving, pc, req, held>>

-----------------------------------------------------------------------------
(* The RPC handlers and the manager's operations.  Requests that do not    *)
(* overlap include Init's, and an AddTask of a name the pusher has.        *)

MayReceive(r) == /\ \A p \in Calls : ~Busy(p, r.task)
                 /\ \A i \in toInit : i.task # r.task
                 /\ r.op = "Add" => taskConsumers[r.task] = None

Receive(p, r) ==
    /\ phase \in {"init", "serving", "stopping"}
    /\ pc[p] = "idle"
    /\ Overlap \/ MayReceive(r)
    /\ req' = [req EXCEPT ![p] = r]
    /\ Goto(p, FirstLabel(r.op))
    /\ UNCHANGED <<process, taskConsumers, taskIdMap, stage, flight, held>>

\* taskManager is nil still, and net/rpc does not recover from the panic.
ReceivePanics == phase = "boot" /\ Die

\* taskConsumers.Get of StopTask and DeleteTask.
FindToStop(p) ==
    /\ pc[p] = "find"
    /\ held' = [held EXCEPT ![p] = taskConsumers[req[p].task]]
    /\ Goto(p, IF taskConsumers[req[p].task] = None THEN "reply"
               ELSE IF req[p].op = "Delete" THEN "remove" ELSE "stop")
    /\ UNCHANGED <<process, taskConsumers, taskIdMap, stage, flight, req>>

RemoveEntry(p) ==
    /\ pc[p] = "remove"
    /\ taskConsumers' = [taskConsumers EXCEPT ![req[p].task] = None]
    /\ Goto(p, "stop")
    /\ UNCHANGED <<process, taskIdMap, stage, flight, req, held>>

StopConsumer(p) ==
    /\ pc[p] = "stop"
    /\ stage' = Stopped(held[p])
    /\ Goto(p, "wait")
    /\ UNCHANGED <<process, taskConsumers, taskIdMap, flight, req, held>>

\* <-StopChan.
AwaitStop(p) ==
    /\ pc[p] = "wait"
    /\ stage[held[p]] \in {"cutOff", "stopped"}
    /\ Goto(p, IF req[p].op = "Delete" THEN "forget" ELSE "noteStop")
    /\ held' = [held EXCEPT ![p] = None]
    /\ UNCHANGED <<process, taskConsumers, taskIdMap, stage, flight, req>>

ForgetTask(p) ==
    /\ pc[p] = "forget"
    /\ taskIdMap' = [taskIdMap EXCEPT ![req[p].task] = None]
    /\ Goto(p, "reply")
    /\ UNCHANGED <<process, taskConsumers, stage, flight, req, held>>

\* taskIdMap.Set, which five methods of the manager call.
AfterNote(p) == CASE pc[p] = "noteStop" -> IF req[p].op = "Start" THEN "new" ELSE "reply"
                  [] pc[p] = "noteAdd" -> IF ~req[p].on THEN "reply"
                                          ELSE IF req[p].op = "Init" THEN "connect"
                                          ELSE "findStart"
                  [] pc[p] = "noteStart" -> "connect"
                  [] pc[p] = "noteUpdate" -> "findUpdate"
                  [] pc[p] = "noteChange" -> "reply"

NoteTask(p) ==
    /\ pc[p] \in {"noteStop", "noteAdd", "noteStart", "noteUpdate", "noteChange"}
    /\ taskIdMap' = [taskIdMap EXCEPT ![req[p].task] = req[p].fields]
    /\ Goto(p, AfterNote(p))
    /\ UNCHANGED <<process, taskConsumers, stage, flight, req, held>>

\* NewTaskConsumer and AddHandler.
NewConsumer(p) ==
    /\ pc[p] = "new"
    /\ \E c \in Consumers :
          /\ TaskOf(c) = req[p].task
          /\ Free(c)
          /\ stage' = [stage EXCEPT ![c] = "new"]
          /\ flight' = [flight EXCEPT ![c] = req[p].fields]
          /\ held' = [held EXCEPT ![p] = c]
    /\ Goto(p, "put")
    /\ UNCHANGED <<process, taskConsumers, taskIdMap, req>>

\* nsq.NewConsumer refuses the topic or the configuration.
NewConsumerFails(p) ==
    /\ pc[p] = "new"
    /\ Goto(p, "reply")
    /\ UNCHANGED <<process, taskConsumers, taskIdMap, stage, flight, req, held>>

PutEntry(p) ==
    /\ pc[p] = "put"
    /\ taskConsumers' = [taskConsumers EXCEPT ![req[p].task] = held[p]]
    /\ held' = [held EXCEPT ![p] = IF req[p].op = "Init" /\ req[p].on THEN @ ELSE None]
    /\ Goto(p, "noteAdd")
    /\ UNCHANGED <<process, taskIdMap, stage, flight, req>>

\* taskConsumers.Get of StartTask and ChangeTaskRoutineCount.
FindEntry(p) ==
    /\ pc[p] \in {"findStart", "findUpdate"}
    /\ held' = [held EXCEPT ![p] = taskConsumers[req[p].task]]
    /\ Goto(p, IF taskConsumers[req[p].task] = None THEN "reply"
               ELSE IF pc[p] = "findStart" THEN "noteStart" ELSE "change")
    /\ UNCHANGED <<process, taskConsumers, taskIdMap, stage, flight, req>>

\* ConnectToNSQLookupds: an error for a consumer that has been stopped.
StartConsume(p) ==
    /\ pc[p] = "connect"
    /\ stage' = [stage EXCEPT ![held[p]] = IF @ = "new" THEN "connected" ELSE @]
    /\ Goto(p, "reply")
    /\ held' = [held EXCEPT ![p] = None]
    /\ UNCHANGED <<process, taskConsumers, taskIdMap, flight, req>>

\* UpdateTask wants the old task.
KnownTask(p) ==
    /\ pc[p] = "known"
    /\ Goto(p, IF taskIdMap[req[p].task] = None THEN "reply" ELSE "noteUpdate")
    /\ UNCHANGED <<process, taskConsumers, taskIdMap, stage, flight, req, held>>

ChangeConsume(p) ==
    /\ pc[p] = "change"
    /\ flight' = [flight EXCEPT ![held[p]] = req[p].fields]
    /\ Goto(p, "noteChange")
    /\ held' = [held EXCEPT ![p] = None]
    /\ UNCHANGED <<process, taskConsumers, taskIdMap, stage, req>>

\* The handler returns, with an error or without.
Respond(p) ==
    /\ pc[p] = "reply"
    /\ req' = [req EXCEPT ![p] = None]
    /\ Goto(p, "idle")
    /\ UNCHANGED <<process, taskConsumers, taskIdMap, stage, flight, held>>

\* The library: every message of a stopped consumer has been handled.
HandlersEnd(c) ==
    /\ stage[c] \in {"stopping", "cutOff"}
    /\ stage' = [stage EXCEPT ![c] = "stopped"]
    /\ UNCHANGED <<process, taskConsumers, taskIdMap, flight, pc, req, held>>

\* 30 s after Stop the library closes StopChan, whatever the handlers do: they go
\* on with the messages that are queued (up to MaxInFlight).
StopTimesOut(c) ==
    /\ stage[c] = "stopping"
    /\ stage' = [stage EXCEPT ![c] = "cutOff"]
    /\ UNCHANGED <<process, taskConsumers, taskIdMap, flight, pc, req, held>>

-----------------------------------------------------------------------------
(* StopAllTask stops what the map holds when the signal arrives; the RPC   *)
(* server keeps serving until the process exits.                           *)

StopAllTask ==
    /\ phase = "serving"
    /\ phase' = "stopping"
    /\ leaving' = {taskConsumers[t] : t \in Tasks} \ {None}
    /\ UNCHANGED <<toInit, taskConsumers, taskIdMap, stage, flight, pc, req, held>>

StopOnLeave(c) ==
    /\ c \in leaving
    /\ stage[c] \in {"new", "connected"}
    /\ stage' = Stopped(c)
    /\ UNCHANGED <<process, taskConsumers, taskIdMap, flight, pc, req, held>>

Exit == /\ phase = "stopping"
        /\ \A c \in leaving : stage[c] \in {"cutOff", "stopped"}
        /\ Die

Crash == phase # "down" /\ Die

-----------------------------------------------------------------------------
Step(p) == \/ FindToStop(p)
           \/ RemoveEntry(p)
           \/ StopConsumer(p)
           \/ AwaitStop(p)
           \/ ForgetTask(p)
           \/ NoteTask(p)
           \/ NewConsumer(p)
           \/ NewConsumerFails(p)
           \/ PutEntry(p)
           \/ FindEntry(p)
           \/ StartConsume(p)
           \/ KnownTask(p)
           \/ ChangeConsume(p)
           \/ Respond(p)

Next == \/ Boot
        \/ LoadTasks
        \/ \E p \in Calls, r \in toInit : InitTask(p, r)
        \/ InitDone
        \/ \E p \in Calls, r \in Requests : r.op # "Init" /\ Receive(p, r)
        \/ ReceivePanics
        \/ \E p \in Calls : Step(p)
        \/ \E c \in Consumers : HandlersEnd(c) \/ StopTimesOut(c) \/ StopOnLeave(c)
        \/ StopAllTask
        \/ Exit
        \/ Crash

Spec == Init /\ [][Next]_vars

\* The runtime schedules every goroutine, and the library closes StopChan 30 s after
\* Stop, or, when it has no connection, once the handlers have ended, whose pushes
\* all have a timeout.  Nothing makes the monitor call, or the process start, stop
\* or crash.
Fairness == /\ \A p \in Calls : WF_vars(Step(p))
            /\ \A c \in Consumers : WF_vars(StopTimesOut(c))

FairSpec == Spec /\ Fairness

-----------------------------------------------------------------------------
(* Properties.                                                             *)

\* The values the variables take; a goroutine past "find" holds a consumer.
TypeOK ==
    /\ phase \in {"down", "boot", "init", "serving", "stopping"}
    /\ toInit \subseteq Requests
    /\ taskConsumers \in [Tasks -> Consumers \cup {None}]
    /\ taskIdMap \in [Tasks -> Fields \cup {None}]
    /\ stage \in [Consumers -> {"new", "connected", "stopping", "cutOff", "stopped"}]
    /\ flight \in [Consumers -> Fields \cup {None}]
    /\ leaving \subseteq Consumers
    /\ pc \in [Calls -> Labels]
    /\ req \in [Calls -> Requests \cup {None}]
    /\ held \in [Calls -> Consumers \cup {None}]
    /\ \A p \in Calls : pc[p] # "idle" => req[p] \in Requests
    /\ \A p \in Calls : pc[p] \in {"remove", "stop", "wait", "put", "connect", "change"} =>
          held[p] \in Consumers

\* A task has one consumer that receives, besides those the library has cut off:
\* AddTask puts a new one into the map, and a consumer it replaces there can never
\* be stopped again.
OneReceiver ==
    \A t \in Tasks : \A c, d \in Receiving(t) : c = d \/ "cutOff" \in {stage[c], stage[d]}

\* When StopTask or DeleteTask answers, every consumer of the task that still hands
\* over messages has been told to stop, and had 30 s to: the one they found in the
\* map was the only one that could have received more.
StopTakesEffect ==
    \A p \in Calls :
       pc[p] = "reply" /\ req[p].op \in StopOps =>
          \A c \in Receiving(req[p].task) : stage[c] = "cutOff"

\* SendMessage takes a task that is not in taskIdMap for delivered: a consumer that
\* receives while the task is not there is one that the library has cut off, whose
\* last messages are lost so.
ReceivedTaskIsKnown ==
    \A t \in Tasks : \A c \in Receiving(t) : taskIdMap[t] # None \/ stage[c] = "cutOff"

\* The task SendMessage reads and the concurrency of its consumer come from the
\* same request, except while an update is about to write the other one, and for
\* a consumer that has been cut off.
SettingsAgree ==
    \A t \in Tasks : \A c \in Current(t) :
       (\A p \in Calls : Busy(p, t) => req[p].op # "Update") => flight[c] = taskIdMap[t]

\* Every call of the monitor is answered, or dies with the process: two calls
\* that stop one consumer wait for the same channel.
CallsReturn == \A p \in Calls : pc[p] # "idle" ~> pc[p] = "idle"

\* Without overlapping requests, the pusher is the service TaskSubscription
\* describes.
PendingRequest(t) == IF \E p \in Calls : Busy(p, t)
                     THEN req[CHOOSE p \in Calls : Busy(p, t)]
                     ELSE None

Service == INSTANCE TaskSubscription WITH
    request <- [t \in Tasks |-> PendingRequest(t)],
    sub     <- [t \in Tasks |-> {[id |-> c, fields |-> flight[c]] : c \in Current(t)}],
    late    <- [t \in Tasks |-> Late(t)],
    leaving <- phase = "stopping",
    RestartOps <- {"Start"}

ServiceSpec == Service!Spec
=============================================================================
