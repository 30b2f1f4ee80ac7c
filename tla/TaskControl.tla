----------------------------- MODULE TaskControl -----------------------------
(***************************************************************************)
(* The control plane: the monitor's web handlers, the database statements  *)
(* they send, and the calls they then make to every registered dispatcher  *)
(* and pusher.  Statements and calls of handlers interleave; statements    *)
(* and calls may fail, which the handlers log and go on; the monitor and   *)
(* the other processes may crash, and a process that starts reads the list *)
(* of tasks from the database, or fails to and goes on without.  What a    *)
(* process does with one call is one step here: KafkaConsumers and         *)
(* TaskConsumers are about its inside.                                     *)
(***************************************************************************)
EXTENDS Naturals

CONSTANTS
    Names,        \* names of tasks
    Settings,     \* what a form can ask for: the subscribed fields stand for all of it
    Handlers,     \* HTTP requests being served at a time
    Dispatchers, Pushers,
    MaxId,        \* bound: rows ever inserted
    MaxRequests,  \* bound: requests served
    MaxFaults,    \* bound: failed statements, failed calls and crashes
    None

ASSUME ControlAssumption ==
    /\ MaxId \in Nat /\ MaxRequests \in Nat /\ MaxFaults \in Nat
    /\ Dispatchers \cap Pushers = {}
    /\ \A S \in SUBSET (Settings \cup Dispatchers \cup Pushers) : S # None
    /\ \A r \in [name : Names, stat : BOOLEAN, sub : BOOLEAN, push : BOOLEAN] : r # None

VARIABLES
    rows,       \* table task_kafka: id -> row or None
    fields,     \* table notify_field_kafka: id -> the settings its rows belong to
    lastId,     \* AUTO_INCREMENT
    handler,    \* what each handler is doing
    up,         \* the processes that run and had the list of tasks when they started
    blind,      \* the processes that run and could not get it
    registered, \* the processes in the monitor's registry
    taskMap,    \* dispatcher -> name -> the settings events are filtered by, or None
    consumer,   \* dispatcher -> name -> the settings whose topics are consumed, or None
    taskIdMap,  \* pusher -> id -> the settings messages are pushed with, or None
    receiver,   \* pusher -> name -> the state of its NSQ consumer
    requests, faults,
    disturbed,  \* history: names touched by an overlap, a fault or a missed call
    toggled     \* history: names whose Stat has been changed on its own

store == <<rows, fields, lastId>>
dispatching == <<taskMap, consumer>>
pushing == <<taskIdMap, receiver>>
history == <<disturbed, toggled>>
living == <<up, blind, registered>>
vars == <<store, handler, living, dispatching, pushing, requests, faults, history>>

Ids == 1 .. MaxId
Clients == Dispatchers \cup Pushers
Rows == [name : Names, stat : BOOLEAN, sub : BOOLEAN, push : BOOLEAN]
SubOps == {"startSub", "stopSub"}
PushOps == {"startPush", "stopPush"}
Ops == {"add", "update", "delete", "changeStat"} \cup SubOps \cup PushOps
Statements == {"nameExists", "insertRow", "insertFields", "deleteFields", "updateRow",
               "deleteRow", "setSub", "setPush"}
FanOuts == {"dispatchers", "pushers", "pushersAdd"}

\* A task as it is sent over RPC: its row with its id and its fields.
Tasks == [id : 0 .. MaxId, row : Rows, fields : SUBSET Settings]
Idle == [at |-> "idle"]
Working == [op : Ops, at : Statements \cup FanOuts, id : 0 .. MaxId, task : Tasks,
            left : {None} \cup SUBSET Clients]

Busy(h) == handler[h] # Idle
About(h, n) == Busy(h) /\ handler[h].task.row.name = n
Active(n) == \E h \in Handlers : About(h, n)
Listed(n) == {i \in Ids : rows[i] # None /\ rows[i].name = n}
\* NameExists asks whether the count is 1.  Mutant: of the tasks that run.
MutantTaken(n) == \E i \in Ids : Listed(n) = {i} /\ rows[i].stat
Taken(n) == \E i \in Ids : Listed(n) = {i}

\* copyTask: the form's state "normal" switches both stats on, "stopped" neither off.
\* Mutant: it does.
MutantCopyTask(row, normal) == [row EXCEPT !.stat = normal, !.sub = normal, !.push = normal]
copyTask(row, normal) == [row EXCEPT !.stat = normal, !.sub = @ \/ normal, !.push = @ \/ normal]

\* The task that a request turns the row it has read into.
Requested(op, row, on) ==
    CASE op = "update"     -> copyTask(row, on)
      [] op = "changeStat" -> [row EXCEPT !.stat = on]
      [] op \in SubOps     -> [row EXCEPT !.sub = (op = "startSub")]
      [] op \in PushOps    -> [row EXCEPT !.push = (op = "startPush")]
      [] OTHER             -> row

First(op) == CASE op = "add"                     -> "nameExists"
               [] op \in {"update", "changeStat"} -> "deleteFields"
               [] op = "delete"                  -> "deleteRow"
               [] op \in SubOps                  -> "setSub"
               [] OTHER                          -> "setPush"

\* The order of statements and calls when each statement succeeds ...
Then(op, at) ==
    CASE at = "nameExists"                -> "insertRow"
      [] at \in {"insertRow", "updateRow"} -> "insertFields"
      [] at = "deleteRow"                 -> "deleteFields"
      [] at = "deleteFields"              -> IF op = "delete" THEN "dispatchers" ELSE "updateRow"
      [] at \in {"insertFields", "setSub"} -> "dispatchers"
      [] at = "setPush"                   -> "pushers"
      [] at = "dispatchers"               -> IF op \in {"add", "update", "delete"}
                                             THEN "pushers" ELSE "idle"
      [] at = "pushers"                   -> IF op = "add" THEN "pushersAdd" ELSE "idle"
      [] OTHER                            -> "idle"

\* ... and when one fails: Update and Delete give up, the handlers call all the same.
Otherwise(op, at) ==
    CASE at = "nameExists"                           -> "insertRow"
      [] at = "deleteFields" /\ op # "delete"        -> "updateRow"
      [] at = "setPush"                              -> "pushers"
      [] OTHER                                       -> "dispatchers"

\* Mutant: a handler without an end.
MutantMoved(h, at) == [handler[h] EXCEPT !.at = at, !.left = None]
Moved(h, at) == IF at = "idle" THEN Idle ELSE [handler[h] EXCEPT !.at = at, !.left = None]
GoTo(h, at) == handler' = [handler EXCEPT ![h] = Moved(h, at)]
Done(h) == GoTo(h, Then(handler[h].op, handler[h].at))

-----------------------------------------------------------------------------
(* What a process does with a call, and when it starts.                      *)

Fetched(s) == IF s = {} THEN None ELSE s   \* without fields no topic matches

\* The call that a handler makes at a fan-out, None when it makes none there.
CallOf(h) ==
    LET t == handler[h].task.row IN
    IF handler[h].at = "pushersAdd" THEN "Add" ELSE
    CASE handler[h].op \in {"add", "update"}         ->
            IF (handler[h].at = "dispatchers" /\ t.sub) \/ (handler[h].at = "pushers" /\ t.push)
            THEN "Update" ELSE "none"
      [] handler[h].op = "delete"                    -> "Delete"
      [] handler[h].op = "changeStat"                -> IF t.stat THEN "Start" ELSE "Stop"
      [] handler[h].op \in {"startSub", "startPush"} -> "Start"
      [] OTHER                                       -> "Stop"

\* What a call leaves in the dispatcher's task map.  Mutant: DeleteTask forgets nothing.
MutantRemembered(call, t) == t.fields
Remembered(call, t) == IF call = "Delete" THEN None ELSE t.fields

\* The dispatcher's RPC handlers.
DispatcherDoes(d, call, t) ==
    LET n == t.row.name
        fresh == Fetched(t.fields)
    IN  /\ taskMap' = [taskMap EXCEPT ![d][n] = Remembered(call, t)]
        /\ consumer' = [consumer EXCEPT ![d][n] =
                CASE call = "Update" -> fresh
                  [] call = "Start"  -> IF @ = None THEN fresh ELSE @
                  [] OTHER           -> None]
        /\ UNCHANGED pushing

\* The pusher's RPC handlers: all but AddTask need what an earlier AddTask left.
PusherDoes(p, call, t) ==
    LET n == t.row.name
        known == receiver[p][n] # "none"
    IN  /\ taskIdMap' = [taskIdMap EXCEPT ![p][t.id] =
                CASE call = "Add"                -> t.fields
                  [] call = "Update" /\ @ # None -> t.fields
                  [] call = "Delete" /\ known    -> None
                  [] call \in {"Start", "Stop"} /\ known -> t.fields
                  [] OTHER                       -> @]
        /\ receiver' = [receiver EXCEPT ![p][n] =
                CASE call = "Add"             -> IF t.row.stat \/ t.row.push THEN "receiving" ELSE "idle"
                  [] call = "Start" /\ known  -> "receiving"
                  [] call = "Stop" /\ known   -> "idle"
                  [] call = "Delete" /\ known -> "none"
                  [] OTHER                    -> @]
        /\ UNCHANGED dispatching

\* What InitTasks and InitConsumers make of the list of tasks.
InitTasks == [n \in Names |-> IF Listed(n) = {} THEN None ELSE fields[CHOOSE i \in Listed(n) : TRUE]]
InitConsumers == [n \in Names |-> IF \E i \in Listed(n) : rows[i].sub
                                  THEN Fetched(fields[CHOOSE i \in Listed(n) : rows[i].sub])
                                  ELSE None]
\* What TaskConsumerManager.Init makes of it.
InitIdMap == [i \in 0 .. MaxId |-> IF i = 0 THEN None ELSE IF rows[i] = None THEN None ELSE fields[i]]
InitReceivers == [n \in Names |-> IF Listed(n) = {} THEN "none"
                                  ELSE IF \E i \in Listed(n) : rows[i].stat \/ rows[i].push
                                       THEN "receiving" ELSE "idle"]
\* What is left of all that when the monitor did not answer.
Unlisted(nothing) == [n \in Names |-> nothing]

-----------------------------------------------------------------------------
\* At most one task, added by a form, and every process started since.
Init ==
    /\ lastId \in {0, 1} \cap (0 .. MaxId)
    /\ \E n \in Names, normal \in BOOLEAN, s \in Settings :
          LET row == copyTask([name |-> n, stat |-> FALSE, sub |-> FALSE, push |-> FALSE], normal)
          IN  /\ rows = [i \in Ids |-> IF i <= lastId THEN row ELSE None]
              /\ fields = [i \in Ids |-> IF i <= lastId THEN {s} ELSE {}]
    /\ handler = [h \in Handlers |-> Idle]
    /\ up = Clients /\ blind = {} /\ registered = Clients
    /\ taskMap = [d \in Dispatchers |-> InitTasks]
    /\ consumer = [d \in Dispatchers |-> InitConsumers]
    /\ taskIdMap = [p \in Pushers |-> InitIdMap]
    /\ receiver = [p \in Pushers |-> InitReceivers]
    /\ requests = 0 /\ faults = 0
    /\ disturbed = {} /\ toggled = {}

Receive(h, op, id, task) ==
    /\ ~Busy(h)
    /\ requests < MaxRequests
    /\ requests' = requests + 1
    /\ handler' = [handler EXCEPT ![h] =
            [op |-> op, at |-> First(op), id |-> id, task |-> task, left |-> None]]
    /\ disturbed' = IF Active(task.row.name) THEN disturbed \cup {task.row.name} ELSE disturbed
    /\ UNCHANGED <<store, living, dispatching, pushing, faults>>

\* doAddTask, up to NameExists.
doAddTask(h, n, s, normal) ==
    /\ Receive(h, "add", 0,
            [id |-> 0, fields |-> {s},
             row |-> copyTask([name |-> n, stat |-> FALSE, sub |-> FALSE, push |-> FALSE], normal)])
    /\ UNCHANGED toggled

\* The other handlers, up to Exists, which reads the row and its fields.
doUpdateTask(h, i, s, normal) ==
    /\ rows[i] # None
    /\ Receive(h, "update", i, [id |-> i, fields |-> {s}, row |-> Requested("update", rows[i], normal)])
    /\ UNCHANGED toggled

changeTaskStat(h, i, start) ==
    /\ rows[i] # None
    /\ Receive(h, "changeStat", i,
            [id |-> i, fields |-> fields[i], row |-> Requested("changeStat", rows[i], start)])
    /\ toggled' = toggled \cup {rows[i].name}

\* doDeleteTask, startSub, stopSub, startPush, stopPush.
doSimple(h, op, i) ==
    /\ rows[i] # None
    /\ Receive(h, op, i, [id |-> i, fields |-> fields[i], row |-> Requested(op, rows[i], TRUE)])
    /\ UNCHANGED toggled

-----------------------------------------------------------------------------
(* The statements.                                                           *)

At(h, at) == Busy(h) /\ handler[h].at = at
Statement == UNCHANGED <<living, dispatching, pushing, requests, faults, history>>

NameExists(h) ==
    /\ At(h, "nameExists")
    /\ IF Taken(handler[h].task.row.name) THEN GoTo(h, "idle") ELSE Done(h)
    /\ UNCHANGED store /\ Statement

Insert(h) ==
    /\ At(h, "insertRow")
    /\ lastId < MaxId
    /\ lastId' = lastId + 1
    /\ rows' = [rows EXCEPT ![lastId + 1] = handler[h].task.row]
    /\ handler' = [handler EXCEPT ![h].at = Then("add", "insertRow"), ![h].id = lastId + 1]
    /\ UNCHANGED fields /\ Statement

\* Add sets the task's id only here.  Mutant: it does not.
MutantInsertFields(h) ==
    /\ At(h, "insertFields") /\ Done(h)
    /\ fields' = [fields EXCEPT ![handler[h].id] = @ \cup handler[h].task.fields]
    /\ UNCHANGED <<rows, lastId>> /\ Statement

InsertFields(h) ==
    /\ At(h, "insertFields")
    /\ fields' = [fields EXCEPT ![handler[h].id] = @ \cup handler[h].task.fields]
    /\ handler' = [handler EXCEPT ![h].at = Then(handler[h].op, "insertFields"),
                                  ![h].task.id = handler[h].id]
    /\ UNCHANGED <<rows, lastId>> /\ Statement

\* Mutant: Update inserts the fields and deletes none.
MutantDeleteFields(h) == At(h, "deleteFields") /\ Done(h) /\ UNCHANGED store /\ Statement
DeleteFields(h) ==
    /\ At(h, "deleteFields")
    /\ fields' = [fields EXCEPT ![handler[h].id] = {}]
    /\ Done(h)
    /\ UNCHANGED <<rows, lastId>> /\ Statement

\* The columns a statement sets, in the row as it is now, if it is still there.
Columns(h, old) ==
    LET new == handler[h].task.row IN
    CASE handler[h].at = "updateRow" -> new
      [] handler[h].at = "setSub"    -> [old EXCEPT !.sub = new.sub]
      [] OTHER                       -> [old EXCEPT !.push = new.push]

UpdateRow(h) ==
    /\ \E at \in {"updateRow", "setSub", "setPush"} : At(h, at)
    /\ LET i == handler[h].id IN
       rows' = [rows EXCEPT ![i] = IF @ = None THEN None ELSE Columns(h, @)]
    /\ Done(h)
    /\ UNCHANGED <<fields, lastId>> /\ Statement

DeleteRow(h) ==
    /\ At(h, "deleteRow")
    /\ rows' = [rows EXCEPT ![handler[h].id] = None]
    /\ Done(h)
    /\ UNCHANGED <<fields, lastId>> /\ Statement

Fault(names) ==
    /\ faults < MaxFaults
    /\ faults' = faults + 1
    /\ disturbed' = disturbed \cup names
    /\ UNCHANGED <<requests, toggled>>

StatementFails(h) ==
    /\ \E at \in Statements : At(h, at)
    /\ Fault({handler[h].task.row.name})
    /\ GoTo(h, Otherwise(handler[h].op, handler[h].at))
    /\ UNCHANGED <<store, living, dispatching, pushing>>

-----------------------------------------------------------------------------
(* The fan-out.                                                              *)

Kind(at) == IF at = "dispatchers" THEN Dispatchers ELSE Pushers

\* The manager takes the registered clients.  One that runs and is not among
\* them will not hear of the change.
Iter(h) ==
    LET clients == Kind(handler[h].at)
        targets == IF CallOf(h) = "none" THEN {} ELSE clients \cap registered
    IN  /\ \E at \in FanOuts : At(h, at)
        /\ handler[h].left = None
        /\ IF targets = {} THEN Done(h) ELSE handler' = [handler EXCEPT ![h].left = targets]
        /\ disturbed' = IF clients \cap up \subseteq registered THEN disturbed
                        ELSE disturbed \cup {handler[h].task.row.name}
        /\ UNCHANGED <<store, living, dispatching, pushing, requests, faults, toggled>>

Called(h, c) ==
    /\ Busy(h) /\ handler[h].left # None /\ c \in handler[h].left
    /\ IF handler[h].left = {c} THEN Done(h)
       ELSE handler' = [handler EXCEPT ![h].left = @ \ {c}]
    /\ UNCHANGED store

\* A client that has gone, and perhaps come back, since the iteration began is
\* left out, called in vain at its old address, or reached at the same one.
Call(h, c) ==
    /\ Called(h, c)
    /\ \/ c \notin registered /\ UNCHANGED <<dispatching, pushing>>
       \/ c \in up \cap Dispatchers /\ DispatcherDoes(c, CallOf(h), handler[h].task)
       \/ c \in (up \cup blind) \cap Pushers /\ PusherDoes(c, CallOf(h), handler[h].task)
    /\ UNCHANGED <<living, requests, faults, history>>

CallFails(h, c) ==
    /\ Called(h, c)
    /\ Fault({handler[h].task.row.name})
    /\ UNCHANGED <<living, dispatching, pushing>>

\* The topics cannot be listed or the group not be joined: the dispatcher logs
\* it, answers that all is well, and consumes nothing.
CallUnserved(h, c) ==
    LET t == handler[h].task IN
    /\ Called(h, c)
    /\ c \in up \cap Dispatchers /\ CallOf(h) \in {"Update", "Start"}
    /\ Fault({t.row.name})
    /\ taskMap' = [taskMap EXCEPT ![c][t.row.name] = Remembered(CallOf(h), t)]
    /\ consumer' = [consumer EXCEPT ![c][t.row.name] = IF CallOf(h) = "Update" THEN None ELSE @]
    /\ UNCHANGED <<living, pushing>>

\* A dispatcher without the list has no task map to change: the call ends it.
Panics(h, c) ==
    /\ c \in blind \cap Dispatchers
    /\ Called(h, c)
    /\ blind' = blind \ {c} /\ registered' = registered \ {c}
    /\ UNCHANGED <<up, dispatching, pushing, requests, faults, history>>

-----------------------------------------------------------------------------
(* Processes that go and come.                                               *)

\* A client leaves or dies.
Crash(c) ==
    /\ c \in up \cup blind
    /\ up' = up \ {c} /\ blind' = blind \ {c} /\ registered' = registered \ {c}
    /\ Fault({})
    /\ UNCHANGED <<store, handler, dispatching, pushing>>

\* A dispatcher subscribes the tasks of the list before it registers, those
\* aside whose topics it cannot list or whose group it cannot join ...
StartDispatcher(d) ==
    /\ d \notin up \cup blind
    /\ up' = up \cup {d}
    /\ taskMap' = [taskMap EXCEPT ![d] = InitTasks]
    /\ \E skipped \in SUBSET Names :
          /\ consumer' = [consumer EXCEPT ![d] =
                [n \in Names |-> IF n \in skipped THEN None ELSE InitConsumers[n]]]
          /\ disturbed' = disturbed \cup skipped
    /\ UNCHANGED <<store, handler, blind, registered, pushing, requests, faults, toggled>>

\* Iter walks the map while it changes: a client that registers may be called
\* by the fan-outs under way.
Joins(c) ==
    \E H \in SUBSET {h \in Handlers : Busy(h) /\ handler[h].left # None /\ c \in Kind(handler[h].at)} :
        handler' = [h \in Handlers |-> IF h \in H THEN [handler[h] EXCEPT !.left = @ \cup {c}]
                                       ELSE handler[h]]

\* ... a pusher registers first, and skips the tasks that go-nsq makes no consumer
\* for.  A list read in the middle of changeTaskStat lacks the task's fields, and
\* no call to the pushers follows.
StartPusher(p) ==
    /\ p \notin up \cup blind
    /\ up' = up \cup {p} /\ registered' = registered \cup {p}
    /\ \E skipped \in SUBSET Names :
          /\ taskIdMap' = [taskIdMap EXCEPT ![p] =
                [i \in 0 .. MaxId |-> IF \E n \in skipped : i \in Listed(n) THEN None ELSE InitIdMap[i]]]
          /\ receiver' = [receiver EXCEPT ![p] =
                [n \in Names |-> IF n \in skipped THEN "none" ELSE InitReceivers[n]]]
          /\ disturbed' = disturbed \cup skipped
                 \cup {n \in Names : \E h \in Handlers : About(h, n) /\ handler[h].op = "changeStat"}
    /\ Joins(p)
    /\ UNCHANGED <<store, blind, dispatching, requests, faults, toggled>>

\* The monitor does not give the list: a dispatcher makes no task map, a pusher
\* has no tasks, and either registers or pings all the same.
StartBlind(c) ==
    /\ c \notin up \cup blind
    /\ blind' = blind \cup {c}
    /\ IF c \in Dispatchers
       THEN /\ taskMap' = [taskMap EXCEPT ![c] = Unlisted(None)]
            /\ consumer' = [consumer EXCEPT ![c] = Unlisted(None)]
            /\ UNCHANGED pushing
       ELSE /\ taskIdMap' = [taskIdMap EXCEPT ![c] = [i \in 0 .. MaxId |-> None]]
            /\ receiver' = [receiver EXCEPT ![c] = Unlisted("none")]
            /\ UNCHANGED dispatching
    /\ UNCHANGED <<store, handler, up, registered, requests, faults, history>>

\* A registration, or a ping the registry does not know the sender of.
Register(c) ==
    /\ c \in (up \cup blind) \ registered
    /\ registered' = registered \cup {c}
    /\ Joins(c)
    /\ UNCHANGED <<store, up, blind, dispatching, pushing, requests, faults, history>>

\* The monitor restarts: handlers end where they are, the registry is empty.
MonitorCrash ==
    /\ handler' = [h \in Handlers |-> Idle]
    /\ registered' = {}
    /\ Fault({n \in Names : Active(n)})
    /\ UNCHANGED <<store, up, blind, dispatching, pushing>>

Next ==
    \/ \E h \in Handlers :
          \/ \E n \in Names, s \in Settings, normal \in BOOLEAN : doAddTask(h, n, s, normal)
          \/ \E i \in Ids, s \in Settings, normal \in BOOLEAN : doUpdateTask(h, i, s, normal)
          \/ \E i \in Ids, start \in BOOLEAN : changeTaskStat(h, i, start)
          \/ \E i \in Ids, op \in {"delete"} \cup SubOps \cup PushOps : doSimple(h, op, i)
          \/ NameExists(h) \/ Insert(h) \/ InsertFields(h) \/ DeleteFields(h)
          \/ UpdateRow(h) \/ DeleteRow(h) \/ StatementFails(h)
          \/ Iter(h)
          \/ \E c \in Clients : Call(h, c) \/ CallFails(h, c) \/ CallUnserved(h, c) \/ Panics(h, c)
    \/ \E c \in Clients : Crash(c) \/ Register(c) \/ StartBlind(c)
    \/ \E d \in Dispatchers : StartDispatcher(d)
    \/ \E p \in Pushers : StartPusher(p)
    \/ MonitorCrash

Spec == Init /\ [][Next]_vars

-----------------------------------------------------------------------------
TypeOK ==
    /\ rows \in [Ids -> {None} \cup Rows]
    /\ fields \in [Ids -> SUBSET Settings]
    /\ lastId \in 0 .. MaxId
    /\ handler \in [Handlers -> Working \cup {Idle}]
    /\ up \in SUBSET Clients /\ blind \in SUBSET Clients /\ registered \in SUBSET Clients
    /\ taskMap \in [Dispatchers -> [Names -> {None} \cup SUBSET Settings]]
    /\ consumer \in [Dispatchers -> [Names -> {None} \cup SUBSET Settings]]
    /\ taskIdMap \in [Pushers -> [0 .. MaxId -> {None} \cup SUBSET Settings]]
    /\ receiver \in [Pushers -> [Names -> {"none", "idle", "receiving"}]]
    /\ requests \in 0 .. MaxRequests /\ faults \in 0 .. MaxFaults
    /\ disturbed \in SUBSET Names /\ toggled \in SUBSET Names

\* A name nobody is working on, and nothing went wrong with.
Settled(n) == n \notin disturbed /\ ~Active(n)
Exists(i) == rows[i] # None

\* Two tasks never share a name (the group, the topic and the map entries are
\* named after it), unless requests about the name overlapped or a query failed.
NamesUnique ==
    \A i, j \in Ids : Exists(i) /\ Exists(j) /\ rows[i].name = rows[j].name /\ rows[i].name \notin disturbed
                      => i = j

\* Update and SetStat delete the fields and insert them again: afterwards the
\* task has the fields of exactly one form.
FieldsKept ==
    \A i \in Ids : Exists(i) /\ Settled(rows[i].name) => \E s \in Settings : fields[i] = {s}

\* A registered dispatcher that had the list of tasks when it started, whatever
\* it missed while it was away, consumes what the database shows.  (changeTaskStat leaves SubscribeStat alone.)
DispatchersFollow ==
    \A d \in Dispatchers \cap registered \cap up, i \in Ids :
        Exists(i) /\ Settled(rows[i].name) /\ rows[i].name \notin toggled =>
            /\ consumer[d][rows[i].name] = IF rows[i].sub THEN fields[i] ELSE None
            /\ rows[i].sub => taskMap[d][rows[i].name] = fields[i]

\* A registered pusher that had the list of tasks when it started has every
\* task, so that it can be started, and pushes with the settings of the database
\* the tasks the database says it pushes.
PushersKnow ==
    \A p \in Pushers \cap registered \cap up, i \in Ids :
        Exists(i) /\ Settled(rows[i].name) =>
            /\ receiver[p][rows[i].name] # "none"
            /\ rows[i].push => taskIdMap[p][i] = fields[i]

\* A deleted task leaves nothing: no consumer, no map entry, no rows of fields.
DeletedIsForgotten ==
    /\ \A n \in Names : Settled(n) /\ Listed(n) = {} =>
          /\ \A d \in Dispatchers \cap registered \cap up : consumer[d][n] = None /\ taskMap[d][n] = None
          /\ \A p \in Pushers \cap registered \cap up : receiver[p][n] = "none"
    /\ \A i \in Ids : disturbed = {} /\ (\A n \in Names : ~Active(n)) /\ ~Exists(i) =>
          /\ fields[i] = {}
          /\ \A p \in Pushers \cap registered \cap up : taskIdMap[p][i] = None

\* PushStat says whether the task is being pushed (model/task.go:34).
PushStatShowsPushing ==
    \A p \in Pushers \cap registered \cap up, i \in Ids :
        Exists(i) /\ Settled(rows[i].name) => (receiver[p][rows[i].name] = "receiving") = rows[i].push
=============================================================================
