-------------------------- MODULE TaskControlProofs --------------------------
(***************************************************************************)
(* Proofs about TaskControl, for every set of names, settings, handlers,   *)
(* dispatchers and pushers, and any number of requests and faults.         *)
(***************************************************************************)
EXTENDS TaskControl, TLAPS

\* The parts of TypeOK.
StoreTypes ==
    /\ rows \in [Ids -> {None} \cup Rows]
    /\ fields \in [Ids -> SUBSET Settings]
    /\ lastId \in 0 .. MaxId

HandlerTypes == handler \in [Handlers -> Working \cup {Idle}]

ProcessTypes ==
    /\ up \in SUBSET Clients /\ blind \in SUBSET Clients /\ registered \in SUBSET Clients
    /\ taskMap \in [Dispatchers -> [Names -> {None} \cup SUBSET Settings]]
    /\ consumer \in [Dispatchers -> [Names -> {None} \cup SUBSET Settings]]
    /\ taskIdMap \in [Pushers -> [0 .. MaxId -> {None} \cup SUBSET Settings]]
    /\ receiver \in [Pushers -> [Names -> {"none", "idle", "receiving"}]]

CountTypes ==
    /\ requests \in 0 .. MaxRequests /\ faults \in 0 .. MaxFaults
    /\ disturbed \in SUBSET Names /\ toggled \in SUBSET Names

LEMMA TypeParts == TypeOK <=> StoreTypes /\ HandlerTypes /\ ProcessTypes /\ CountTypes
  BY DEF TypeOK, StoreTypes, HandlerTypes, ProcessTypes, CountTypes

-----------------------------------------------------------------------------
(* Handlers.                                                                 *)

LEMMA StepsAreKnown ==
    \A op, at : /\ Then(op, at) \in Statements \cup FanOuts \cup {"idle"}
                /\ Otherwise(op, at) \in Statements \cup FanOuts \cup {"idle"}
  BY DEF Then, Otherwise, Statements, FanOuts

\* Wherever a handler goes from its place, it is idle or at work there.
LEMMA MovesAreTyped ==
    ASSUME HandlerTypes, NEW h \in Handlers, Busy(h)
    PROVE  /\ \A at \in Statements \cup FanOuts \cup {"idle"} :
                 Moved(h, at) \in Working \cup {Idle}
           /\ \A op, at : /\ Moved(h, Then(op, at)) \in Working \cup {Idle}
                          /\ Moved(h, Otherwise(op, at)) \in Working \cup {Idle}
           /\ Moved(h, "idle") = Idle
  <1>1. handler[h] \in Working
    BY DEF HandlerTypes, Busy
  <1>2. ASSUME NEW at \in Statements \cup FanOuts
        PROVE  [handler[h] EXCEPT !.at = at, !.left = None] \in Working
    BY <1>1 DEF Working
  <1>3. \A at \in Statements \cup FanOuts \cup {"idle"} : Moved(h, at) \in Working \cup {Idle}
    BY <1>2 DEF Moved
  <1> QED
    BY <1>3, StepsAreKnown DEF Moved

LEMMA GoToTypes ==
    ASSUME HandlerTypes, NEW h \in Handlers, Busy(h)
    PROVE  /\ \A at \in Statements \cup FanOuts \cup {"idle"} : GoTo(h, at) => HandlerTypes'
           /\ Done(h) => HandlerTypes'
  <1>1. \A at \in Statements \cup FanOuts \cup {"idle"} : GoTo(h, at) => HandlerTypes'
    BY MovesAreTyped DEF GoTo, HandlerTypes
  <1>2. Done(h) => HandlerTypes'
    BY <1>1, StepsAreKnown DEF Done
  <1> QED
    BY <1>1, <1>2

\* A handler at work is about a name.
LEMMA BusyNames ==
    ASSUME HandlerTypes, NEW h \in Handlers, Busy(h)
    PROVE  handler[h].task.row.name \in Names /\ handler[h].id \in 0 .. MaxId
  <1>1. handler[h].task \in Tasks /\ handler[h].id \in 0 .. MaxId
    BY DEF HandlerTypes, Busy, Working
  <1> QED
    BY <1>1 DEF Tasks, Rows

LEMMA RequestsKeepNames ==
    ASSUME StoreTypes, NEW i \in Ids, rows[i] # None, NEW op, NEW b
    PROVE  rows[i].name \in Names /\ Requested(op, rows[i], b).name = rows[i].name
  <1>1. rows[i] \in Rows
    BY DEF StoreTypes
  <1> QED
    BY <1>1 DEF Requested, copyTask, Rows

LEMMA ReceiveTypes ==
    ASSUME HandlerTypes, NEW h \in Handlers, NEW op \in Ops, NEW i \in 0 .. MaxId,
           NEW t \in Tasks, Receive(h, op, i, t)
    PROVE  HandlerTypes'
  <1>1. First(op) \in Statements
    BY DEF First, Statements
  <1>2. [op |-> op, at |-> First(op), id |-> i, task |-> t, left |-> None] \in Working
    BY <1>1 DEF Working
  <1> QED
    BY <1>2 DEF HandlerTypes, Receive

LEMMA ReceiveCounts ==
    ASSUME CountTypes, ControlAssumption, NEW h \in Handlers, NEW op, NEW i, NEW t,
           t.row.name \in Names, Receive(h, op, i, t), UNCHANGED toggled
    PROVE  CountTypes'
  <1>1. requests' \in 0 .. MaxRequests /\ faults' \in 0 .. MaxFaults
    BY DEF CountTypes, ControlAssumption, Receive
  <1>2. disturbed' \in SUBSET Names /\ toggled' \in SUBSET Names
    BY DEF CountTypes, Receive
  <1> QED
    BY <1>1, <1>2 DEF CountTypes

LEMMA FormsAreTyped ==
    ASSUME ControlAssumption, NEW n \in Names, NEW s \in Settings, NEW b \in BOOLEAN
    PROVE  [id |-> 0, fields |-> {s},
            row |-> copyTask([name |-> n, stat |-> FALSE, sub |-> FALSE, push |-> FALSE], b)]
              \in Tasks
  <1>1. copyTask([name |-> n, stat |-> FALSE, sub |-> FALSE, push |-> FALSE], b) \in Rows
    BY DEF copyTask, Rows
  <1>2. 0 \in 0 .. MaxId /\ {s} \in SUBSET Settings
    BY DEF ControlAssumption
  <1> QED
    BY <1>1, <1>2 DEF Tasks

LEMMA RequestsAreTyped ==
    ASSUME StoreTypes, ControlAssumption
    PROVE  \A i \in Ids, op \in Ops, b \in BOOLEAN, S \in SUBSET Settings :
              rows[i] # None =>
                 [id |-> i, fields |-> S, row |-> Requested(op, rows[i], b)] \in Tasks
  <1> SUFFICES ASSUME NEW i \in Ids, NEW op \in Ops, NEW b \in BOOLEAN, rows[i] # None
               PROVE  Requested(op, rows[i], b) \in Rows
    BY DEF Tasks, Ids
  <1>1. rows[i] \in Rows
    BY DEF StoreTypes
  <1> QED
    BY <1>1 DEF Requested, copyTask, Rows

\* A request that reads a row starts with a task, its id and the settings S.
LEMMA ReadTypes ==
    ASSUME StoreTypes, HandlerTypes, ControlAssumption, NEW h \in Handlers, NEW op \in Ops,
           NEW i \in Ids, NEW b \in BOOLEAN, NEW S \in SUBSET Settings, rows[i] # None,
           Receive(h, op, i, [id |-> i, fields |-> S, row |-> Requested(op, rows[i], b)])
    PROVE  HandlerTypes'
  <1>1. i \in 0 .. MaxId
    BY DEF Ids
  <1> QED
    BY <1>1, RequestsAreTyped, ReceiveTypes

LEMMA InsertTypes ==
    ASSUME StoreTypes, HandlerTypes, ControlAssumption, NEW h \in Handlers, Insert(h)
    PROVE  StoreTypes' /\ HandlerTypes'
  <1>1. handler[h] \in Working /\ lastId + 1 \in Ids /\ lastId + 1 \in 0 .. MaxId
    BY DEF HandlerTypes, StoreTypes, Insert, At, Busy, Ids
  <1>2. handler[h].task.row \in Rows
    BY <1>1 DEF Working, Tasks
  <1>3. StoreTypes'
    BY <1>1, <1>2 DEF StoreTypes, Insert
  <1>4. Then("add", "insertRow") \in Statements
    BY DEF Then, Statements
  <1>5. [handler[h] EXCEPT !.at = Then("add", "insertRow"), !.id = lastId + 1] \in Working
    BY <1>1, <1>4 DEF Working
  <1>6. HandlerTypes'
    BY <1>1, <1>5 DEF HandlerTypes, Insert
  <1> QED
    BY <1>3, <1>6

LEMMA InsertFieldsTypes ==
    ASSUME StoreTypes, HandlerTypes, ControlAssumption, NEW h \in Handlers, InsertFields(h)
    PROVE  StoreTypes' /\ HandlerTypes'
  <1>1. handler[h] \in Working
    BY DEF HandlerTypes, InsertFields, At, Busy
  <1>2. handler[h].task.fields \in SUBSET Settings /\ handler[h].id \in 0 .. MaxId
    BY <1>1 DEF Working, Tasks
  <1>3. StoreTypes'
    BY <1>2 DEF StoreTypes, InsertFields
  <1>4. Then(handler[h].op, "insertFields") \in FanOuts
    BY DEF Then, FanOuts
  <1>5. [handler[h] EXCEPT !.at = Then(handler[h].op, "insertFields"),
                           !.task.id = handler[h].id] \in Working
    BY <1>1, <1>2, <1>4 DEF Working, Tasks
  <1>6. HandlerTypes'
    BY <1>5 DEF HandlerTypes, InsertFields
  <1> QED
    BY <1>3, <1>6

LEMMA UpdateRowTypes ==
    ASSUME StoreTypes, HandlerTypes, ControlAssumption, NEW h \in Handlers, UpdateRow(h)
    PROVE  StoreTypes'
  <1>1. handler[h].task.row \in Rows
    BY DEF HandlerTypes, UpdateRow, At, Busy, Working, Tasks
  <1>2. \A old \in Rows : Columns(h, old) \in Rows
    BY <1>1 DEF Columns, Rows
  <1> QED
    BY <1>2 DEF StoreTypes, UpdateRow

\* The same handlers at the same places, some with more clients left to call.
LEMMA JoinsTypes ==
    ASSUME HandlerTypes, NEW c \in Clients, Joins(c)
    PROVE  HandlerTypes'
  <1>1. PICK H \in SUBSET {h \in Handlers : Busy(h) /\ handler[h].left # None
                                             /\ c \in Kind(handler[h].at)} :
           handler' = [h \in Handlers |-> IF h \in H THEN [handler[h] EXCEPT !.left = @ \cup {c}]
                                          ELSE handler[h]]
    BY DEF Joins
  <1>2. ASSUME NEW h \in H
        PROVE  [handler[h] EXCEPT !.left = @ \cup {c}] \in Working
    <2>1. handler[h] \in Working /\ handler[h].left # None
      BY DEF HandlerTypes, Busy
    <2>2. handler[h].left \cup {c} \in SUBSET Clients
      BY <2>1 DEF Working
    <2> QED
      BY <2>1, <2>2 DEF Working
  <1> QED
    BY <1>1, <1>2 DEF HandlerTypes

LEMMA IterTypes ==
    ASSUME HandlerTypes, ProcessTypes, NEW h \in Handlers, Iter(h)
    PROVE  HandlerTypes'
  <1> DEFINE targets == IF CallOf(h) = "none" THEN {} ELSE Kind(handler[h].at) \cap registered
  <1>1. Busy(h) /\ handler[h] \in Working
    BY DEF Iter, At, HandlerTypes, Busy
  <1>2. [handler[h] EXCEPT !.left = targets] \in Working
    BY <1>1 DEF ProcessTypes, Working
  <1>3. CASE targets = {}
    BY <1>1, <1>3, MovesAreTyped DEF Iter, Done, GoTo, HandlerTypes
  <1>4. CASE targets # {}
    BY <1>2, <1>4 DEF Iter, HandlerTypes
  <1> QED
    BY <1>3, <1>4

LEMMA CalledTypes ==
    ASSUME HandlerTypes, NEW h \in Handlers, NEW c, Called(h, c)
    PROVE  HandlerTypes'
  <1>1. Busy(h) /\ handler[h] \in Working /\ handler[h].left # None
    BY DEF Called, HandlerTypes, Busy
  <1>2. [handler[h] EXCEPT !.left = @ \ {c}] \in Working
    BY <1>1 DEF Working
  <1>3. CASE handler[h].left = {c}
    BY <1>1, <1>3, MovesAreTyped DEF Called, Done, GoTo, HandlerTypes
  <1>4. CASE handler[h].left # {c}
    BY <1>2, <1>4 DEF Called, HandlerTypes
  <1> QED
    BY <1>3, <1>4

-----------------------------------------------------------------------------
(* Processes.                                                                *)

LEMMA CallTypes ==
    ASSUME HandlerTypes, ProcessTypes, NEW h \in Handlers, NEW c \in Clients, Call(h, c)
    PROVE  ProcessTypes'
  <1>1. handler[h].task \in Tasks
    BY DEF Call, Called, HandlerTypes, Busy, Working
  <1>2. /\ handler[h].task.row.name \in Names /\ handler[h].task.id \in 0 .. MaxId
        /\ handler[h].task.fields \in SUBSET Settings
    BY <1>1 DEF Tasks, Rows
  <1>3. UNCHANGED <<up, blind, registered>>
    BY DEF Call, living
  <1>4. CASE UNCHANGED <<dispatching, pushing>>
    BY <1>3, <1>4 DEF ProcessTypes, dispatching, pushing
  <1>5. CASE c \in Dispatchers /\ DispatcherDoes(c, CallOf(h), handler[h].task)
    <2>1. Fetched(handler[h].task.fields) \in {None} \cup SUBSET Settings
      BY <1>2 DEF Fetched
    <2>2. Remembered(CallOf(h), handler[h].task) \in {None} \cup SUBSET Settings
      BY <1>2 DEF Remembered
    <2>3. taskMap' \in [Dispatchers -> [Names -> {None} \cup SUBSET Settings]]
      BY <1>2, <1>5, <2>2 DEF ProcessTypes, DispatcherDoes
    <2>4. consumer' \in [Dispatchers -> [Names -> {None} \cup SUBSET Settings]]
      BY <1>2, <1>5, <2>1 DEF ProcessTypes, DispatcherDoes
    <2> QED
      BY <1>3, <1>5, <2>3, <2>4 DEF ProcessTypes, DispatcherDoes, pushing
  <1>6. CASE c \in Pushers /\ PusherDoes(c, CallOf(h), handler[h].task)
    <2>1. taskIdMap' \in [Pushers -> [0 .. MaxId -> {None} \cup SUBSET Settings]]
      BY <1>2, <1>6 DEF ProcessTypes, PusherDoes
    <2>2. receiver' \in [Pushers -> [Names -> {"none", "idle", "receiving"}]]
      BY <1>2, <1>6 DEF ProcessTypes, PusherDoes
    <2> QED
      BY <1>3, <1>6, <2>1, <2>2 DEF ProcessTypes, PusherDoes, dispatching
  <1> QED
    BY <1>4, <1>5, <1>6 DEF Call

LEMMA ListsAreTyped ==
    ASSUME StoreTypes, ControlAssumption
    PROVE  /\ InitTasks \in [Names -> {None} \cup SUBSET Settings]
           /\ InitConsumers \in [Names -> {None} \cup SUBSET Settings]
           /\ InitIdMap \in [0 .. MaxId -> {None} \cup SUBSET Settings]
           /\ InitReceivers \in [Names -> {"none", "idle", "receiving"}]
  <1>1. \A n \in Names : Listed(n) \subseteq Ids
    BY DEF Listed
  <1>2. InitTasks \in [Names -> {None} \cup SUBSET Settings]
    BY <1>1 DEF InitTasks, StoreTypes
  <1>3. \A i \in Ids : Fetched(fields[i]) \in {None} \cup SUBSET Settings
    BY DEF Fetched, StoreTypes
  <1>4. InitConsumers \in [Names -> {None} \cup SUBSET Settings]
    BY <1>1, <1>3 DEF InitConsumers
  <1>5. \A i \in 0 .. MaxId : i # 0 => i \in Ids
    BY DEF Ids
  <1>6. InitIdMap \in [0 .. MaxId -> {None} \cup SUBSET Settings]
    BY <1>5 DEF InitIdMap, StoreTypes
  <1>7. InitReceivers \in [Names -> {"none", "idle", "receiving"}]
    BY DEF InitReceivers
  <1> QED
    BY <1>2, <1>4, <1>6, <1>7

LEMMA StartTypes ==
    ASSUME StoreTypes, ProcessTypes, ControlAssumption, NEW c \in Clients,
           (c \in Dispatchers /\ StartDispatcher(c)) \/ (c \in Pushers /\ StartPusher(c)) \/ StartBlind(c)
    PROVE  ProcessTypes'
  <1>1. up' \in SUBSET Clients /\ blind' \in SUBSET Clients /\ registered' \in SUBSET Clients
    BY DEF ProcessTypes, StartDispatcher, StartPusher, StartBlind
  <1>2. CASE c \in Dispatchers /\ StartDispatcher(c)
    <2>1. PICK skipped \in SUBSET Names : consumer' = [consumer EXCEPT ![c] =
                [n \in Names |-> IF n \in skipped THEN None ELSE InitConsumers[n]]]
      BY <1>2 DEF StartDispatcher
    <2>2. [n \in Names |-> IF n \in skipped THEN None ELSE InitConsumers[n]]
             \in [Names -> {None} \cup SUBSET Settings]
      BY ListsAreTyped
    <2> QED
      BY <1>1, <1>2, <2>1, <2>2, ListsAreTyped DEF StartDispatcher, ProcessTypes, pushing
  <1>3. CASE c \in Pushers /\ StartPusher(c)
    <2>1. PICK skipped \in SUBSET Names :
             /\ taskIdMap' = [taskIdMap EXCEPT ![c] =
                   [i \in 0 .. MaxId |-> IF \E n \in skipped : i \in Listed(n) THEN None ELSE InitIdMap[i]]]
             /\ receiver' = [receiver EXCEPT ![c] =
                   [n \in Names |-> IF n \in skipped THEN "none" ELSE InitReceivers[n]]]
      BY <1>3 DEF StartPusher
    <2>2. /\ [i \in 0 .. MaxId |-> IF \E n \in skipped : i \in Listed(n) THEN None ELSE InitIdMap[i]]
                \in [0 .. MaxId -> {None} \cup SUBSET Settings]
          /\ [n \in Names |-> IF n \in skipped THEN "none" ELSE InitReceivers[n]]
                \in [Names -> {"none", "idle", "receiving"}]
      BY ListsAreTyped
    <2> QED
      BY <1>1, <1>3, <2>1, <2>2 DEF StartPusher, ProcessTypes, dispatching
  <1>4. CASE StartBlind(c)
    <2>1. /\ Unlisted(None) \in [Names -> {None} \cup SUBSET Settings]
          /\ Unlisted("none") \in [Names -> {"none", "idle", "receiving"}]
          /\ [i \in 0 .. MaxId |-> None] \in [0 .. MaxId -> {None} \cup SUBSET Settings]
      BY DEF Unlisted
    <2>2. CASE c \in Dispatchers
      BY <1>1, <1>4, <2>1, <2>2 DEF StartBlind, ProcessTypes, pushing
    <2>3. CASE c \notin Dispatchers
      <3>1. c \in Pushers
        BY <2>3 DEF Clients
      <3>2. taskIdMap' \in [Pushers -> [0 .. MaxId -> {None} \cup SUBSET Settings]]
        BY <1>4, <2>1, <2>3, <3>1 DEF StartBlind, ProcessTypes
      <3>3. receiver' \in [Pushers -> [Names -> {"none", "idle", "receiving"}]]
        BY <1>4, <2>1, <2>3, <3>1 DEF StartBlind, ProcessTypes
      <3> QED
        BY <1>1, <1>4, <2>3, <3>2, <3>3 DEF StartBlind, ProcessTypes, dispatching
    <2> QED
      BY <2>2, <2>3
  <1> QED
    BY <1>2, <1>3, <1>4

\* A call that is answered but not served leaves at most the new fields.
LEMMA UnservedTypes ==
    ASSUME HandlerTypes, ProcessTypes, NEW h \in Handlers, NEW c \in Clients, CallUnserved(h, c)
    PROVE  ProcessTypes'
  <1>1. handler[h].task.row.name \in Names /\ handler[h].task.fields \in SUBSET Settings
    BY DEF CallUnserved, Called, HandlerTypes, Busy, Working, Tasks, Rows
  <1>2. Remembered(CallOf(h), handler[h].task) \in {None} \cup SUBSET Settings
    BY <1>1 DEF Remembered
  <1>3. taskMap' \in [Dispatchers -> [Names -> {None} \cup SUBSET Settings]]
    BY <1>1, <1>2 DEF CallUnserved, ProcessTypes
  <1>4. consumer' \in [Dispatchers -> [Names -> {None} \cup SUBSET Settings]]
    BY <1>1 DEF CallUnserved, ProcessTypes
  <1> QED
    BY <1>3, <1>4 DEF CallUnserved, ProcessTypes, living, pushing

-----------------------------------------------------------------------------
(* Types.                                                                    *)

\* Statements keep the tables' types.
LEMMA StoreTypeStep ==
    ASSUME StoreTypes, HandlerTypes, [Next]_vars
    PROVE  StoreTypes'
  <1> USE ControlAssumption DEF StoreTypes, HandlerTypes, Working, Tasks, At, Busy, Ids, store, living, dispatching, pushing, history, Statement
  <1>1. ASSUME NEW h \in Handlers, NEW n \in Names, NEW s \in Settings, NEW b \in BOOLEAN,
              doAddTask(h, n, s, b)
        PROVE  StoreTypes'
    BY <1>1 DEF doAddTask, Receive, copyTask, First
  <1>2. ASSUME NEW h \in Handlers, NEW i \in Ids, NEW s \in Settings, NEW b \in BOOLEAN,
              doUpdateTask(h, i, s, b)
        PROVE  StoreTypes'
    BY <1>2 DEF doUpdateTask, Receive, Requested, copyTask, First
  <1>3. ASSUME NEW h \in Handlers, NEW i \in Ids, NEW b \in BOOLEAN, changeTaskStat(h, i, b)
        PROVE  StoreTypes'
    BY <1>3 DEF changeTaskStat, Receive, Requested, First
  <1>4. ASSUME NEW h \in Handlers, NEW i \in Ids, NEW op \in {"delete"} \cup SubOps \cup PushOps,
              doSimple(h, op, i)
        PROVE  StoreTypes'
    BY <1>4 DEF doSimple, Receive, Requested, First, SubOps, PushOps
  <1>5. ASSUME NEW h \in Handlers, NameExists(h) PROVE StoreTypes'
    BY <1>5 DEF NameExists
  <1>6. ASSUME NEW h \in Handlers, Insert(h) PROVE StoreTypes'
    BY <1>6, InsertTypes
  <1>7. ASSUME NEW h \in Handlers, InsertFields(h) PROVE StoreTypes'
    BY <1>7, InsertFieldsTypes
  <1>8. ASSUME NEW h \in Handlers, DeleteFields(h) PROVE StoreTypes'
    BY <1>8 DEF DeleteFields
  <1>9. ASSUME NEW h \in Handlers, UpdateRow(h) PROVE StoreTypes'
    BY <1>9, UpdateRowTypes
  <1>10. ASSUME NEW h \in Handlers, DeleteRow(h) PROVE StoreTypes'
    BY <1>10 DEF DeleteRow
  <1>11. ASSUME NEW h \in Handlers, StatementFails(h) PROVE StoreTypes'
    BY <1>11 DEF StatementFails, Fault
  <1>12. ASSUME NEW h \in Handlers, Iter(h) PROVE StoreTypes'
    BY <1>12 DEF Iter
  <1>13. ASSUME NEW h \in Handlers, NEW c \in Clients, Call(h, c) PROVE StoreTypes'
    BY <1>13 DEF Call, Called
  <1>14. ASSUME NEW h \in Handlers, NEW c \in Clients, CallFails(h, c) PROVE StoreTypes'
    BY <1>14 DEF CallFails, Called, Fault
  <1>15. ASSUME NEW c \in Clients, Crash(c) PROVE StoreTypes'
    BY <1>15 DEF Crash, Fault
  <1>16. ASSUME NEW c \in Clients, Register(c) PROVE StoreTypes'
    BY <1>16 DEF Register, Joins
  <1>17. ASSUME NEW d \in Dispatchers, StartDispatcher(d) PROVE StoreTypes'
    BY <1>17 DEF StartDispatcher
  <1>18. ASSUME NEW p \in Pushers, StartPusher(p) PROVE StoreTypes'
    BY <1>18 DEF StartPusher, Joins
  <1>19. CASE MonitorCrash
    BY <1>19 DEF MonitorCrash, Fault
  <1>20. CASE UNCHANGED vars
    BY <1>20 DEF vars
  <1>21. ASSUME NEW h \in Handlers, NEW c \in Clients, CallUnserved(h, c) PROVE StoreTypes'
    BY <1>21 DEF CallUnserved, Called
  <1>22. ASSUME NEW h \in Handlers, NEW c \in Clients, Panics(h, c) PROVE StoreTypes'
    BY <1>22 DEF Panics, Called
  <1>23. ASSUME NEW c \in Clients, StartBlind(c) PROVE StoreTypes'
    BY <1>23 DEF StartBlind
  <1> HIDE DEF StoreTypes, HandlerTypes, Working, Tasks, At, Busy, Ids, store, living, dispatching, pushing, history, Statement
  <1> QED
    BY <1>1, <1>2, <1>3, <1>4, <1>5, <1>6, <1>7, <1>8, <1>9, <1>10,
       <1>11, <1>12, <1>13, <1>14, <1>15, <1>16, <1>17, <1>18, <1>19, <1>20,
       <1>21, <1>22, <1>23 DEF Next

\* A handler goes from one statement or call to the next.
LEMMA HandlerTypeStep ==
    ASSUME StoreTypes, HandlerTypes, ProcessTypes, [Next]_vars
    PROVE  HandlerTypes'
  <1> USE ControlAssumption DEF store, living, dispatching, pushing, history, Statement
  <1>1. ASSUME NEW h \in Handlers, NEW n \in Names, NEW s \in Settings, NEW b \in BOOLEAN,
              doAddTask(h, n, s, b)
        PROVE  HandlerTypes'
    <2> DEFINE task == [id |-> 0, fields |-> {s}, row |->
                         copyTask([name |-> n, stat |-> FALSE, sub |-> FALSE, push |-> FALSE], b)]
    <2>1. task \in Tasks
      BY FormsAreTyped
    <2>2. Receive(h, "add", 0, task)
      BY <1>1 DEF doAddTask
    <2>3. "add" \in Ops /\ 0 \in 0 .. MaxId
      BY DEF Ops, ControlAssumption
    <2> HIDE DEF task
    <2> QED
      BY <2>1, <2>2, <2>3, ReceiveTypes
  <1>2. ASSUME NEW h \in Handlers, NEW i \in Ids, NEW s \in Settings, NEW b \in BOOLEAN,
              doUpdateTask(h, i, s, b)
        PROVE  HandlerTypes'
    <2>1. "update" \in Ops /\ {s} \in SUBSET Settings
      BY DEF Ops
    <2> QED
      BY <1>2, <2>1, ReadTypes DEF doUpdateTask
  <1>3. ASSUME NEW h \in Handlers, NEW i \in Ids, NEW b \in BOOLEAN, changeTaskStat(h, i, b)
        PROVE  HandlerTypes'
    <2>1. "changeStat" \in Ops /\ fields[i] \in SUBSET Settings
      BY DEF Ops, StoreTypes
    <2> QED
      BY <1>3, <2>1, ReadTypes DEF changeTaskStat
  <1>4. ASSUME NEW h \in Handlers, NEW i \in Ids, NEW op \in {"delete"} \cup SubOps \cup PushOps,
              doSimple(h, op, i)
        PROVE  HandlerTypes'
    <2>1. op \in Ops /\ fields[i] \in SUBSET Settings /\ TRUE \in BOOLEAN
      BY DEF Ops, StoreTypes
    <2> QED
      BY <1>4, <2>1, ReadTypes DEF doSimple
  <1>5. ASSUME NEW h \in Handlers, NameExists(h) PROVE HandlerTypes'
    BY <1>5, GoToTypes, StepsAreKnown DEF NameExists, At
  <1>6. ASSUME NEW h \in Handlers, Insert(h) PROVE HandlerTypes'
    BY <1>6, InsertTypes
  <1>7. ASSUME NEW h \in Handlers, InsertFields(h) PROVE HandlerTypes'
    BY <1>7, InsertFieldsTypes
  <1>8. ASSUME NEW h \in Handlers, DeleteFields(h) PROVE HandlerTypes'
    BY <1>8, GoToTypes DEF DeleteFields, At
  <1>9. ASSUME NEW h \in Handlers, UpdateRow(h) PROVE HandlerTypes'
    BY <1>9, GoToTypes DEF UpdateRow, At
  <1>10. ASSUME NEW h \in Handlers, DeleteRow(h) PROVE HandlerTypes'
    BY <1>10, GoToTypes DEF DeleteRow, At
  <1>11. ASSUME NEW h \in Handlers, StatementFails(h) PROVE HandlerTypes'
    BY <1>11, GoToTypes, StepsAreKnown DEF StatementFails, At
  <1>12. ASSUME NEW h \in Handlers, Iter(h) PROVE HandlerTypes'
    BY <1>12, IterTypes
  <1>13. ASSUME NEW h \in Handlers, NEW c \in Clients, Call(h, c) PROVE HandlerTypes'
    BY <1>13, CalledTypes DEF Call
  <1>14. ASSUME NEW h \in Handlers, NEW c \in Clients, CallFails(h, c) PROVE HandlerTypes'
    BY <1>14, CalledTypes DEF CallFails
  <1>15. ASSUME NEW c \in Clients, Crash(c) PROVE HandlerTypes'
    BY <1>15 DEF Crash, HandlerTypes
  <1>16. ASSUME NEW c \in Clients, Register(c) PROVE HandlerTypes'
    BY <1>16, JoinsTypes DEF Register
  <1>17. ASSUME NEW d \in Dispatchers, StartDispatcher(d) PROVE HandlerTypes'
    BY <1>17 DEF StartDispatcher, HandlerTypes
  <1>18. ASSUME NEW p \in Pushers, StartPusher(p) PROVE HandlerTypes'
    BY <1>18, JoinsTypes DEF StartPusher, Clients
  <1>19. CASE MonitorCrash
    BY <1>19 DEF MonitorCrash, HandlerTypes
  <1>20. CASE UNCHANGED vars
    BY <1>20 DEF vars, HandlerTypes
  <1>21. ASSUME NEW h \in Handlers, NEW c \in Clients, CallUnserved(h, c) PROVE HandlerTypes'
    BY <1>21, CalledTypes DEF CallUnserved
  <1>22. ASSUME NEW h \in Handlers, NEW c \in Clients, Panics(h, c) PROVE HandlerTypes'
    BY <1>22, CalledTypes DEF Panics
  <1>23. ASSUME NEW c \in Clients, StartBlind(c) PROVE HandlerTypes'
    BY <1>23 DEF StartBlind, HandlerTypes
  <1> HIDE DEF store, living, dispatching, pushing, history, Statement
  <1> QED
    BY <1>1, <1>2, <1>3, <1>4, <1>5, <1>6, <1>7, <1>8, <1>9, <1>10,
       <1>11, <1>12, <1>13, <1>14, <1>15, <1>16, <1>17, <1>18, <1>19, <1>20,
       <1>21, <1>22, <1>23 DEF Next

\* Processes keep their maps' types.
LEMMA ProcessTypeStep ==
    ASSUME StoreTypes, HandlerTypes, ProcessTypes, [Next]_vars
    PROVE  ProcessTypes'
  <1> USE ControlAssumption DEF StoreTypes, HandlerTypes, ProcessTypes, store, living, dispatching, pushing, history, Statement
  <1>1. ASSUME NEW h \in Handlers, NEW n \in Names, NEW s \in Settings, NEW b \in BOOLEAN,
              doAddTask(h, n, s, b)
        PROVE  ProcessTypes'
    BY <1>1 DEF doAddTask, Receive, copyTask, First
  <1>2. ASSUME NEW h \in Handlers, NEW i \in Ids, NEW s \in Settings, NEW b \in BOOLEAN,
              doUpdateTask(h, i, s, b)
        PROVE  ProcessTypes'
    BY <1>2 DEF doUpdateTask, Receive, Requested, copyTask, First
  <1>3. ASSUME NEW h \in Handlers, NEW i \in Ids, NEW b \in BOOLEAN, changeTaskStat(h, i, b)
        PROVE  ProcessTypes'
    BY <1>3 DEF changeTaskStat, Receive, Requested, First
  <1>4. ASSUME NEW h \in Handlers, NEW i \in Ids, NEW op \in {"delete"} \cup SubOps \cup PushOps,
              doSimple(h, op, i)
        PROVE  ProcessTypes'
    BY <1>4 DEF doSimple, Receive, Requested, First, SubOps, PushOps
  <1>5. ASSUME NEW h \in Handlers, NameExists(h) PROVE ProcessTypes'
    BY <1>5 DEF NameExists
  <1>6. ASSUME NEW h \in Handlers, Insert(h) PROVE ProcessTypes'
    BY <1>6 DEF Insert
  <1>7. ASSUME NEW h \in Handlers, InsertFields(h) PROVE ProcessTypes'
    BY <1>7 DEF InsertFields
  <1>8. ASSUME NEW h \in Handlers, DeleteFields(h) PROVE ProcessTypes'
    BY <1>8 DEF DeleteFields
  <1>9. ASSUME NEW h \in Handlers, UpdateRow(h) PROVE ProcessTypes'
    BY <1>9 DEF UpdateRow
  <1>10. ASSUME NEW h \in Handlers, DeleteRow(h) PROVE ProcessTypes'
    BY <1>10 DEF DeleteRow
  <1>11. ASSUME NEW h \in Handlers, StatementFails(h) PROVE ProcessTypes'
    BY <1>11 DEF StatementFails, Fault
  <1>12. ASSUME NEW h \in Handlers, Iter(h) PROVE ProcessTypes'
    BY <1>12 DEF Iter
  <1>13. ASSUME NEW h \in Handlers, NEW c \in Clients, Call(h, c) PROVE ProcessTypes'
    BY <1>13, CallTypes
  <1>14. ASSUME NEW h \in Handlers, NEW c \in Clients, CallFails(h, c) PROVE ProcessTypes'
    BY <1>14 DEF CallFails, Called, Fault
  <1>15. ASSUME NEW c \in Clients, Crash(c) PROVE ProcessTypes'
    BY <1>15 DEF Crash, Clients
  <1>16. ASSUME NEW c \in Clients, Register(c) PROVE ProcessTypes'
    BY <1>16 DEF Register, Clients
  <1>17. ASSUME NEW d \in Dispatchers, StartDispatcher(d) PROVE ProcessTypes'
    BY <1>17, StartTypes DEF Clients
  <1>18. ASSUME NEW p \in Pushers, StartPusher(p) PROVE ProcessTypes'
    BY <1>18, StartTypes DEF Clients
  <1>19. CASE MonitorCrash
    BY <1>19 DEF MonitorCrash, Fault
  <1>20. CASE UNCHANGED vars
    BY <1>20 DEF vars
  <1>21. ASSUME NEW h \in Handlers, NEW c \in Clients, CallUnserved(h, c) PROVE ProcessTypes'
    BY <1>21, UnservedTypes
  <1>22. ASSUME NEW h \in Handlers, NEW c \in Clients, Panics(h, c) PROVE ProcessTypes'
    BY <1>22 DEF Panics
  <1>23. ASSUME NEW c \in Clients, StartBlind(c) PROVE ProcessTypes'
    BY <1>23, StartTypes
  <1> HIDE DEF StoreTypes, HandlerTypes, ProcessTypes, store, living, dispatching, pushing, history, Statement
  <1> QED
    BY <1>1, <1>2, <1>3, <1>4, <1>5, <1>6, <1>7, <1>8, <1>9, <1>10,
       <1>11, <1>12, <1>13, <1>14, <1>15, <1>16, <1>17, <1>18, <1>19, <1>20,
       <1>21, <1>22, <1>23 DEF Next

\* Every step keeps bounds and histories.
LEMMA CountTypeStep ==
    ASSUME StoreTypes, HandlerTypes, CountTypes, [Next]_vars
    PROVE  CountTypes'
  <1> USE ControlAssumption DEF CountTypes, About, Active, store, living, dispatching, pushing, history, Statement
  <1>1. ASSUME NEW h \in Handlers, NEW n \in Names, NEW s \in Settings, NEW b \in BOOLEAN,
              doAddTask(h, n, s, b)
        PROVE  CountTypes'
    <2>1. copyTask([name |-> n, stat |-> FALSE, sub |-> FALSE, push |-> FALSE], b).name = n
      BY DEF copyTask
    <2> QED
      BY <1>1, <2>1 DEF doAddTask, Receive
  <1>2. ASSUME NEW h \in Handlers, NEW i \in Ids, NEW s \in Settings, NEW b \in BOOLEAN,
              doUpdateTask(h, i, s, b)
        PROVE  CountTypes'
    BY <1>2, RequestsKeepNames DEF doUpdateTask, Receive
  <1>3. ASSUME NEW h \in Handlers, NEW i \in Ids, NEW b \in BOOLEAN, changeTaskStat(h, i, b)
        PROVE  CountTypes'
    BY <1>3, RequestsKeepNames DEF changeTaskStat, Receive
  <1>4. ASSUME NEW h \in Handlers, NEW i \in Ids, NEW op \in {"delete"} \cup SubOps \cup PushOps,
              doSimple(h, op, i)
        PROVE  CountTypes'
    BY <1>4, RequestsKeepNames, ReceiveCounts DEF doSimple
  <1>5. ASSUME NEW h \in Handlers, NameExists(h) PROVE CountTypes'
    BY <1>5 DEF NameExists
  <1>6. ASSUME NEW h \in Handlers, Insert(h) PROVE CountTypes'
    BY <1>6 DEF Insert
  <1>7. ASSUME NEW h \in Handlers, InsertFields(h) PROVE CountTypes'
    BY <1>7 DEF InsertFields
  <1>8. ASSUME NEW h \in Handlers, DeleteFields(h) PROVE CountTypes'
    BY <1>8 DEF DeleteFields
  <1>9. ASSUME NEW h \in Handlers, UpdateRow(h) PROVE CountTypes'
    BY <1>9 DEF UpdateRow
  <1>10. ASSUME NEW h \in Handlers, DeleteRow(h) PROVE CountTypes'
    BY <1>10 DEF DeleteRow
  <1>11. ASSUME NEW h \in Handlers, StatementFails(h) PROVE CountTypes'
    BY <1>11, BusyNames DEF StatementFails, Fault, At
  <1>12. ASSUME NEW h \in Handlers, Iter(h) PROVE CountTypes'
    BY <1>12, BusyNames DEF Iter, At
  <1>13. ASSUME NEW h \in Handlers, NEW c \in Clients, Call(h, c) PROVE CountTypes'
    BY <1>13 DEF Call, Called
  <1>14. ASSUME NEW h \in Handlers, NEW c \in Clients, CallFails(h, c) PROVE CountTypes'
    BY <1>14, BusyNames DEF CallFails, Called, Fault
  <1>15. ASSUME NEW c \in Clients, Crash(c) PROVE CountTypes'
    BY <1>15 DEF Crash, Fault
  <1>16. ASSUME NEW c \in Clients, Register(c) PROVE CountTypes'
    BY <1>16 DEF Register, Joins
  <1>17. ASSUME NEW d \in Dispatchers, StartDispatcher(d) PROVE CountTypes'
    BY <1>17 DEF StartDispatcher
  <1>18. ASSUME NEW p \in Pushers, StartPusher(p) PROVE CountTypes'
    BY <1>18 DEF StartPusher, Joins
  <1>19. CASE MonitorCrash
    BY <1>19 DEF MonitorCrash, Fault
  <1>20. CASE UNCHANGED vars
    BY <1>20 DEF vars
  <1>21. ASSUME NEW h \in Handlers, NEW c \in Clients, CallUnserved(h, c) PROVE CountTypes'
    BY <1>21, BusyNames DEF CallUnserved, Called, Fault
  <1>22. ASSUME NEW h \in Handlers, NEW c \in Clients, Panics(h, c) PROVE CountTypes'
    BY <1>22 DEF Panics
  <1>23. ASSUME NEW c \in Clients, StartBlind(c) PROVE CountTypes'
    BY <1>23 DEF StartBlind
  <1> HIDE DEF CountTypes, About, Active, store, living, dispatching, pushing, history, Statement
  <1> QED
    BY <1>1, <1>2, <1>3, <1>4, <1>5, <1>6, <1>7, <1>8, <1>9, <1>10,
       <1>11, <1>12, <1>13, <1>14, <1>15, <1>16, <1>17, <1>18, <1>19, <1>20,
       <1>21, <1>22, <1>23 DEF Next

LEMMA TypeStep ==
    ASSUME TypeOK, [Next]_vars
    PROVE  TypeOK'
  <1>1. StoreTypes /\ HandlerTypes /\ ProcessTypes /\ CountTypes
    BY TypeParts
  <1>2. StoreTypes' /\ HandlerTypes' /\ ProcessTypes' /\ CountTypes'
    BY <1>1, StoreTypeStep, HandlerTypeStep, ProcessTypeStep, CountTypeStep
  <1> QED
    BY <1>2 DEF TypeOK, StoreTypes, HandlerTypes, ProcessTypes, CountTypes

LEMMA InitTypes == Init => TypeOK
  <1> SUFFICES ASSUME Init PROVE TypeOK
    OBVIOUS
  <1>1. StoreTypes
    <2>1. PICK n \in Names, b \in BOOLEAN, s \in Settings :
             /\ rows = [i \in Ids |-> IF i <= lastId
                   THEN copyTask([name |-> n, stat |-> FALSE, sub |-> FALSE, push |-> FALSE], b)
                   ELSE None]
             /\ fields = [i \in Ids |-> IF i <= lastId THEN {s} ELSE {}]
      BY DEF Init
    <2>2. copyTask([name |-> n, stat |-> FALSE, sub |-> FALSE, push |-> FALSE], b) \in Rows
      BY DEF copyTask, Rows
    <2>3. lastId \in 0 .. MaxId
      BY DEF Init
    <2> QED
      BY <2>1, <2>2, <2>3 DEF StoreTypes
  <1>2. HandlerTypes
    BY DEF Init, HandlerTypes
  <1>3. ProcessTypes
    BY <1>1, ControlAssumption, ListsAreTyped DEF Init, ProcessTypes
  <1>4. CountTypes
    BY ControlAssumption DEF Init, CountTypes
  <1> QED
    BY <1>1, <1>2, <1>3, <1>4, TypeParts

\* Handlers and processes keep their variables' types.
THEOREM TypeCorrect == Spec => []TypeOK
  BY InitTypes, TypeStep, PTL DEF Spec

-----------------------------------------------------------------------------
(* Names and fields.  A name is disturbed as soon as two requests about it   *)
(* overlap, so the one handler that works on an undisturbed name knows what  *)
(* its statements found: no row before it inserts one, no fields after it    *)
(* has deleted them.                                                         *)

Name(h) == handler[h].task.row.name
Calm(h) == Busy(h) /\ Name(h) \notin disturbed

\* Where a handler has the new fields at hand, and where the old ones are gone.
Rewriting == {"nameExists", "insertRow", "deleteFields", "updateRow", "insertFields"}
Emptied == {"updateRow", "insertFields"}

\* Ids are given out in order, and a handler's id is one of its name's.
Numbered ==
    /\ \A i \in Ids : i > lastId => ~Exists(i) /\ fields[i] = {}
    /\ \A h \in Handlers : Busy(h) => handler[h].id <= lastId
    /\ \A h \in Handlers, i \in Ids :
          Busy(h) /\ handler[h].id = i /\ Exists(i) => rows[i].name = Name(h)

SameTask ==
    \A g, h \in Handlers :
        Busy(g) /\ Busy(h) /\ handler[g].id = handler[h].id /\ handler[h].id # 0 => Name(g) = Name(h)

OneHandler == \A g, h \in Handlers : Busy(g) /\ Calm(h) /\ Name(g) = Name(h) => g = h

\* Nobody has the name that is about to be inserted.
FreeName ==
    \A h \in Handlers, i \in Ids :
        Calm(h) /\ handler[h].at = "insertRow" /\ Exists(i) => rows[i].name # Name(h)

\* What the handler of an undisturbed name knows of the fields.
FieldsPlanOf(h) ==
    /\ handler[h].op = "delete" => handler[h].at \notin Rewriting \ {"deleteFields"}
    /\ handler[h].at = "deleteRow" => handler[h].op = "delete"
    /\ handler[h].op # "delete" /\ handler[h].at \in Rewriting =>
          \E s \in Settings : handler[h].task.fields = {s}
    /\ handler[h].at \in Emptied => \A i \in Ids : handler[h].id = i => fields[i] = {}
    /\ handler[h].op = "delete" /\ handler[h].at = "deleteFields" =>
          \A i \in Ids : handler[h].id = i => ~Exists(i)

FieldsPlan == \A h \in Handlers : Calm(h) => FieldsPlanOf(h)

FieldsFilled ==
    \A i \in Ids :
        /\ Exists(i) /\ rows[i].name \notin disturbed
        /\ \A h \in Handlers : Busy(h) /\ handler[h].id = i => handler[h].at \notin Emptied
        => \E s \in Settings : fields[i] = {s}

Fanning == \A h \in Handlers : Busy(h) /\ handler[h].left # None => handler[h].at \in FanOuts

NameInv == TypeOK /\ Fanning /\ Numbered /\ SameTask /\ OneHandler /\ FreeName /\ NamesUnique
FieldInv == NameInv /\ FieldsPlan /\ FieldsFilled

-----------------------------------------------------------------------------
(* The kinds of steps.                                                       *)

\* Handler k goes on with what it has, or ends.
Same(k) ==
    /\ handler'[k].op = handler[k].op /\ handler'[k].id = handler[k].id
    /\ handler'[k].task.row = handler[k].task.row /\ handler'[k].task.fields = handler[k].task.fields

\* Without a fault on its name it goes where its statement leads: one of those
\* that change no fields and insert no row.
Follows(k) ==
    \/ handler'[k].at = handler[k].at
    \/ /\ handler'[k].at = Then(handler[k].op, handler[k].at)
       /\ handler[k].at \notin {"insertRow", "insertFields", "deleteFields"}
       /\ handler[k].at = "nameExists" => ~Taken(Name(k))
       /\ handler[k].at = "deleteRow" => \A i \in Ids : handler[k].id = i => ~Exists(i)'

Kept(k) ==
    /\ Busy(k)' => Busy(k) /\ Same(k) /\ (Name(k) \notin disturbed' => Follows(k))
    /\ Busy(k) /\ ~Busy(k)' /\ Name(k) \notin disturbed' => handler[k].at \notin Emptied

RowsKept ==
    /\ lastId' = lastId /\ fields' = fields
    /\ \A i \in Ids : Exists(i)' => Exists(i) /\ rows'[i].name = rows[i].name

Quiet == RowsKept /\ \A k \in Handlers : Kept(k)

\* A request about a new name or about a row that is there.
Asked ==
    \E h \in Handlers, op \in Ops, i \in 0 .. MaxId, t \in Tasks :
        /\ Receive(h, op, i, t)
        /\ i # 0 => i \in Ids /\ Exists(i) /\ rows[i].name = t.row.name
        /\ op \in {"add", "update"} => \E s \in Settings : t.fields = {s}
        /\ op = "changeStat" => i \in Ids /\ t.fields = fields[i]

Kinds ==
    \/ Asked \/ Quiet
    \/ \E h \in Handlers : Insert(h) \/ InsertFields(h) \/ DeleteFields(h)

LEMMA UntouchedIsKept ==
    ASSUME NEW k, handler'[k] = handler[k]
    PROVE  Kept(k)
  BY DEF Kept, Same, Follows, Busy

\* A handler that goes to a place its statement leads to.
LEMMA GoToKeeps ==
    ASSUME HandlerTypes, NEW h \in Handlers, Busy(h), NEW at, GoTo(h, at),
           Name(h) \notin disturbed' =>
              /\ handler[h].at \notin {"insertRow", "insertFields", "deleteFields"}
              /\ at = "idle" => handler[h].at \notin Emptied
              /\ at # "idle" => at = Then(handler[h].op, handler[h].at)
              /\ handler[h].at = "nameExists" /\ at # "idle" => ~Taken(Name(h))
              /\ handler[h].at = "deleteRow" => \A i \in Ids : handler[h].id = i => ~Exists(i)'
    PROVE  \A k \in Handlers : Kept(k)
  <1>1. \A k \in Handlers \ {h} : handler'[k] = handler[k]
    BY DEF GoTo, HandlerTypes
  <1>2. handler'[h] = Moved(h, at) /\ handler[h] \in Working
    BY DEF GoTo, HandlerTypes, Busy
  <1>3. CASE at = "idle"
    <2>1. ~Busy(h)'
      BY <1>2, <1>3 DEF Moved, Busy
    <2> QED
      BY <1>1, <2>1, <1>3, UntouchedIsKept DEF Kept
  <1>4. CASE at # "idle"
    <2>1. Same(h) /\ handler'[h].at = at
      BY <1>2, <1>4 DEF Moved, Same, Working
    <2>2. Name(h) \notin disturbed' => Follows(h)
      BY <2>1, <1>4 DEF Follows
    <2>3. Busy(h)'
      BY <1>2, <1>4, MovesAreTyped, <2>1, StepsAreKnown DEF Moved, Busy, Idle, Working
    <2> QED
      BY <1>1, <2>1, <2>2, <2>3, UntouchedIsKept DEF Kept
  <1> QED
    BY <1>3, <1>4

LEMMA JoinsKeeps ==
    ASSUME HandlerTypes, NEW c, Joins(c)
    PROVE  \A k \in Handlers : Kept(k)
  <1> SUFFICES ASSUME NEW k \in Handlers PROVE Kept(k)
    OBVIOUS
  <1>1. CASE ~Busy(k)
    BY <1>1, UntouchedIsKept DEF Joins
  <1>2. CASE Busy(k)
    <2>1. handler[k] \in Working
      BY <1>2 DEF HandlerTypes, Busy
    <2>2. \/ handler'[k] = handler[k]
          \/ handler'[k] = [handler[k] EXCEPT !.left = @ \cup {c}]
      BY DEF Joins
    <2>3. CASE handler'[k] = [handler[k] EXCEPT !.left = @ \cup {c}]
      BY <1>2, <2>1, <2>3 DEF Kept, Same, Follows, Busy, Working, Idle
    <2> QED
      BY <2>2, <2>3, UntouchedIsKept
  <1> QED
    BY <1>1, <1>2

LEMMA FanOutPlaces ==
    \A op, at : at \in FanOuts => /\ at \notin {"insertRow", "insertFields", "deleteFields",
                                                "nameExists", "deleteRow"}
                                  /\ at \notin Emptied
  BY DEF FanOuts, Emptied

LEMMA CalledKeeps ==
    ASSUME HandlerTypes, Fanning, NEW h \in Handlers, NEW c, Called(h, c)
    PROVE  \A k \in Handlers : Kept(k)
  <1>1. Busy(h) /\ handler[h] \in Working /\ handler[h].at \in FanOuts
    BY DEF Called, Fanning, HandlerTypes, Busy
  <1>2. CASE handler[h].left = {c}
    BY <1>1, <1>2, GoToKeeps, FanOutPlaces DEF Called, Done
  <1>3. CASE handler[h].left # {c}
    <2>1. handler' = [handler EXCEPT ![h].left = @ \ {c}]
      BY <1>3 DEF Called
    <2>2. \A k \in Handlers \ {h} : handler'[k] = handler[k]
      BY <2>1 DEF HandlerTypes
    <2>3. handler'[h] = [handler[h] EXCEPT !.left = @ \ {c}]
      BY <2>1 DEF HandlerTypes
    <2>4. Kept(h)
      BY <1>1, <2>3 DEF Kept, Same, Follows, Busy, Working, Idle
    <2> QED
      BY <2>2, <2>4, UntouchedIsKept
  <1> QED
    BY <1>2, <1>3

LEMMA IterKeeps ==
    ASSUME HandlerTypes, NEW h \in Handlers, Iter(h)
    PROVE  \A k \in Handlers : Kept(k)
  <1> DEFINE targets == IF CallOf(h) = "none" THEN {} ELSE Kind(handler[h].at) \cap registered
  <1>1. Busy(h) /\ handler[h] \in Working /\ handler[h].at \in FanOuts
    BY DEF Iter, At, HandlerTypes, Busy
  <1>2. CASE targets = {}
    BY <1>1, <1>2, GoToKeeps, FanOutPlaces DEF Iter, Done
  <1>3. CASE targets # {}
    <2>1. handler' = [handler EXCEPT ![h].left = targets]
      BY <1>3 DEF Iter
    <2>2. \A k \in Handlers \ {h} : handler'[k] = handler[k]
      BY <2>1 DEF HandlerTypes
    <2>3. handler'[h] = [handler[h] EXCEPT !.left = targets]
      BY <2>1 DEF HandlerTypes
    <2>4. Kept(h)
      BY <1>1, <2>3 DEF Kept, Same, Follows, Busy, Working, Idle
    <2> QED
      BY <2>2, <2>4, UntouchedIsKept
  <1> QED
    BY <1>2, <1>3

LEMMA StoreSame == UNCHANGED store => RowsKept
  BY DEF store, RowsKept, Exists

LEMMA RequestIsAsked ==
    ASSUME NEW h \in Handlers, NEW op \in Ops, NEW i \in 0 .. MaxId, NEW t \in Tasks,
           Receive(h, op, i, t),
           i # 0 => i \in Ids /\ Exists(i) /\ rows[i].name = t.row.name,
           op \in {"add", "update"} => \E s \in Settings : t.fields = {s},
           op = "changeStat" => i \in Ids /\ t.fields = fields[i]
    PROVE  Asked
  BY DEF Asked

LEMMA ReadIsAsked ==
    ASSUME StoreTypes, HandlerTypes, ControlAssumption, NEW h \in Handlers, NEW op \in Ops,
           NEW i \in Ids, NEW b \in BOOLEAN, NEW S \in SUBSET Settings, Exists(i),
           Receive(h, op, i, [id |-> i, fields |-> S, row |-> Requested(op, rows[i], b)]),
           op \in {"add", "update"} => \E s \in Settings : S = {s},
           op = "changeStat" => S = fields[i]
    PROVE  Asked
  <1> DEFINE t == [id |-> i, fields |-> S, row |-> Requested(op, rows[i], b)]
  <1>1. t \in Tasks /\ i \in 0 .. MaxId
    BY RequestsAreTyped DEF Ids, Exists
  <1>2. t.fields = S /\ t.row.name = rows[i].name
    BY RequestsKeepNames DEF Exists
  <1>3. Receive(h, op, i, t)
    OBVIOUS
  <1> HIDE DEF t
  <1> QED
    BY <1>1, <1>2, <1>3, RequestIsAsked

LEMMA TheNameIsFree ==
    ASSUME NEW h, NameExists(h)
    PROVE  \/ Taken(Name(h)) /\ GoTo(h, "idle")
           \/ ~Taken(Name(h)) /\ Done(h)
  BY DEF NameExists, Name

LEMMA UpdateIsQuiet ==
    ASSUME StoreTypes, HandlerTypes, Numbered, ControlAssumption, NEW h \in Handlers, UpdateRow(h)
    PROVE  Quiet
  <1>1. Busy(h) /\ handler[h].at \in {"updateRow", "setSub", "setPush"} /\ handler[h] \in Working
    BY DEF UpdateRow, At, HandlerTypes, Busy
  <1>2. RowsKept
    <2> DEFINE j == handler[h].id
    <2>1. lastId' = lastId /\ fields' = fields
      BY DEF UpdateRow
    <2> SUFFICES ASSUME NEW i \in Ids, Exists(i)'
                 PROVE  Exists(i) /\ rows'[i].name = rows[i].name
      BY <2>1 DEF RowsKept
    <2>2. rows' = [rows EXCEPT ![j] = IF @ = None THEN None ELSE Columns(h, @)]
      BY DEF UpdateRow
    <2>3. CASE i # j
      BY <2>2, <2>3 DEF StoreTypes, Exists
    <2>4. CASE i = j
      <3>1. Exists(i) /\ rows'[i] = Columns(h, rows[i])
        BY <2>2, <2>4 DEF StoreTypes, Exists
      <3>2. rows[i] \in Rows /\ rows[i].name = handler[h].task.row.name
        BY <1>1, <2>4, <3>1 DEF Numbered, StoreTypes, Exists, Name
      <3>3. Columns(h, rows[i]).name = rows[i].name
        BY <3>2 DEF Columns, Rows
      <3> QED
        BY <3>1, <3>3
    <2> QED
      BY <2>3, <2>4
  <1>3. \A k \in Handlers : Kept(k)
    <2>1. Then(handler[h].op, handler[h].at) # "idle"
      BY <1>1 DEF Then
    <2> QED
      BY <1>1, <2>1, GoToKeeps DEF UpdateRow, Done
  <1> QED
    BY <1>2, <1>3 DEF Quiet

LEMMA DeleteIsQuiet ==
    ASSUME StoreTypes, HandlerTypes, ControlAssumption, NEW h \in Handlers, DeleteRow(h)
    PROVE  Quiet
  <1>1. Busy(h) /\ handler[h].at = "deleteRow"
    BY DEF DeleteRow, At
  <1>2. rows' = [rows EXCEPT ![handler[h].id] = None] /\ lastId' = lastId /\ fields' = fields
    BY DEF DeleteRow
  <1>3. RowsKept
    BY <1>2 DEF StoreTypes, RowsKept, Exists
  <1>4. \A i \in Ids : handler[h].id = i => ~Exists(i)'
    BY <1>2 DEF StoreTypes, Exists
  <1>5. \A k \in Handlers : Kept(k)
    <2>1. "deleteRow" \notin Emptied
      BY DEF Emptied
    <2> QED
      BY <1>1, <1>4, <2>1, GoToKeeps DEF DeleteRow, Done
  <1> QED
    BY <1>3, <1>5 DEF Quiet

LEMMA FailureIsQuiet ==
    ASSUME HandlerTypes, NEW h \in Handlers, StatementFails(h)
    PROVE  Quiet
  <1>1. Busy(h) /\ Name(h) \in disturbed' /\ GoTo(h, Otherwise(handler[h].op, handler[h].at))
    BY DEF StatementFails, At, Fault, Name
  <1>2. RowsKept
    BY StoreSame DEF StatementFails
  <1> QED
    BY <1>1, <1>2, GoToKeeps DEF Quiet

LEMMA CrashKeeps ==
    ASSUME HandlerTypes, MonitorCrash
    PROVE  \A k \in Handlers : Kept(k)
  <1> SUFFICES ASSUME NEW k \in Handlers PROVE Kept(k)
    OBVIOUS
  <1>1. ~Busy(k)'
    BY DEF MonitorCrash, Busy
  <1>2. Busy(k) => Name(k) \in disturbed'
    BY BusyNames DEF MonitorCrash, Fault, Active, About, Name
  <1> QED
    BY <1>1, <1>2 DEF Kept

LEMMA ReceiveFans ==
    ASSUME HandlerTypes, Fanning, NEW h \in Handlers, NEW op, NEW i, NEW t, Receive(h, op, i, t)
    PROVE  Fanning'
  <1>1. handler'[h].left = None /\ \A k \in Handlers \ {h} : handler'[k] = handler[k]
    BY DEF Receive, HandlerTypes
  <1> QED
    BY <1>1 DEF Fanning, Busy

LEMMA GoToFans ==
    ASSUME HandlerTypes, Fanning, NEW h \in Handlers, Busy(h), NEW at, GoTo(h, at)
    PROVE  Fanning'
  <1>1. \A k \in Handlers \ {h} : handler'[k] = handler[k]
    BY DEF GoTo, HandlerTypes
  <1>2. handler'[h] = Moved(h, at) /\ handler[h] \in Working
    BY DEF GoTo, HandlerTypes, Busy
  <1>3. Busy(h)' => handler'[h].left = None
    BY <1>2 DEF Moved, Busy, Working
  <1> QED
    BY <1>1, <1>3 DEF Fanning, Busy

LEMMA InsertFans ==
    ASSUME HandlerTypes, Fanning, NEW h \in Handlers, Insert(h) \/ InsertFields(h)
    PROVE  Fanning'
  <1>1. \A k \in Handlers \ {h} : handler'[k] = handler[k]
    BY DEF Insert, InsertFields, HandlerTypes
  <1>2. Busy(h) /\ handler[h] \in Working /\ handler[h].at \notin FanOuts
    BY DEF Insert, InsertFields, At, HandlerTypes, Busy, FanOuts
  <1>3. handler'[h].left = handler[h].left
    BY <1>2 DEF Insert, InsertFields, HandlerTypes, Working
  <1>4. handler'[h].left = None
    BY <1>2, <1>3 DEF Fanning
  <1> QED
    BY <1>1, <1>4 DEF Fanning, Busy

LEMMA IterFans ==
    ASSUME HandlerTypes, Fanning, NEW h \in Handlers, Iter(h)
    PROVE  Fanning'
  <1> DEFINE targets == IF CallOf(h) = "none" THEN {} ELSE Kind(handler[h].at) \cap registered
  <1>1. Busy(h) /\ handler[h] \in Working /\ handler[h].at \in FanOuts
    BY DEF Iter, At, HandlerTypes, Busy
  <1>2. CASE targets = {}
    BY <1>1, <1>2, GoToFans DEF Iter, Done
  <1>3. CASE targets # {}
    BY <1>1, <1>3 DEF Iter, HandlerTypes, Working, Fanning, Busy
  <1> QED
    BY <1>2, <1>3

LEMMA CalledFans ==
    ASSUME HandlerTypes, Fanning, NEW h \in Handlers, NEW c, Called(h, c)
    PROVE  Fanning'
  <1>1. Busy(h) /\ handler[h] \in Working /\ handler[h].at \in FanOuts
    BY DEF Called, Fanning, HandlerTypes, Busy
  <1>2. CASE handler[h].left = {c}
    BY <1>1, <1>2, GoToFans DEF Called, Done
  <1>3. CASE handler[h].left # {c}
    BY <1>1, <1>3 DEF Called, HandlerTypes, Working, Fanning, Busy
  <1> QED
    BY <1>2, <1>3

LEMMA JoinsFans ==
    ASSUME HandlerTypes, Fanning, NEW c, Joins(c)
    PROVE  Fanning'
  <1> SUFFICES ASSUME NEW k \in Handlers, Busy(k)', handler'[k].left # None
               PROVE  handler'[k].at \in FanOuts
    BY DEF Fanning
  <1>1. PICK H \in SUBSET {h \in Handlers : Busy(h) /\ handler[h].left # None
                                             /\ c \in Kind(handler[h].at)} :
           handler' = [h \in Handlers |-> IF h \in H THEN [handler[h] EXCEPT !.left = @ \cup {c}]
                                          ELSE handler[h]]
    BY DEF Joins
  <1>2. CASE k \in H
    <2>1. handler[k] \in Working /\ handler[k].at \in FanOuts
      BY <1>2 DEF Fanning, HandlerTypes, Busy
    <2> QED
      BY <1>1, <1>2, <2>1 DEF Working
  <1>3. CASE k \notin H
    BY <1>1, <1>3 DEF Fanning, Busy
  <1> QED
    BY <1>2, <1>3

LEMMA NameExistsKeeps ==
    ASSUME HandlerTypes, NEW h \in Handlers, NameExists(h)
    PROVE  \A k \in Handlers : Kept(k)
  <1>1. Busy(h) /\ handler[h].at = "nameExists" /\ handler[h].at \notin Emptied
    BY DEF NameExists, At, Emptied
  <1>2. CASE Taken(Name(h)) /\ GoTo(h, "idle")
    BY <1>1, <1>2, GoToKeeps
  <1>3. CASE ~Taken(Name(h)) /\ Done(h)
    <2>1. Then(handler[h].op, handler[h].at) # "idle"
      BY <1>1 DEF Then
    <2> QED
      BY <1>1, <1>3, <2>1, GoToKeeps DEF Done
  <1> QED
    BY <1>2, <1>3, TheNameIsFree

\* Only a fan-out has clients left to call.
LEMMA FanningStep ==
    ASSUME HandlerTypes, Fanning, [Next]_vars
    PROVE  Fanning'
  <1> USE ControlAssumption DEF store, living, dispatching, pushing, history, Statement
  <1>1. ASSUME NEW h \in Handlers, NEW n \in Names, NEW s \in Settings, NEW b \in BOOLEAN,
              doAddTask(h, n, s, b)
        PROVE  Fanning'
    BY <1>1, ReceiveFans DEF doAddTask
  <1>2. ASSUME NEW h \in Handlers, NEW i \in Ids, NEW s \in Settings, NEW b \in BOOLEAN,
              doUpdateTask(h, i, s, b)
        PROVE  Fanning'
    BY <1>2, ReceiveFans DEF doUpdateTask
  <1>3. ASSUME NEW h \in Handlers, NEW i \in Ids, NEW b \in BOOLEAN, changeTaskStat(h, i, b)
        PROVE  Fanning'
    BY <1>3, ReceiveFans DEF changeTaskStat
  <1>4. ASSUME NEW h \in Handlers, NEW i \in Ids, NEW op \in {"delete"} \cup SubOps \cup PushOps,
              doSimple(h, op, i)
        PROVE  Fanning'
    BY <1>4, ReceiveFans DEF doSimple
  <1>5. ASSUME NEW h \in Handlers, NameExists(h) PROVE Fanning'
    BY <1>5, GoToFans DEF NameExists, At, Done
  <1>6. ASSUME NEW h \in Handlers, Insert(h) PROVE Fanning'
    BY <1>6, InsertFans
  <1>7. ASSUME NEW h \in Handlers, InsertFields(h) PROVE Fanning'
    BY <1>7, InsertFans
  <1>8. ASSUME NEW h \in Handlers, DeleteFields(h) PROVE Fanning'
    BY <1>8, GoToFans DEF DeleteFields, At, Done
  <1>9. ASSUME NEW h \in Handlers, UpdateRow(h) PROVE Fanning'
    BY <1>9, GoToFans DEF UpdateRow, At, Done
  <1>10. ASSUME NEW h \in Handlers, DeleteRow(h) PROVE Fanning'
    BY <1>10, GoToFans DEF DeleteRow, At, Done
  <1>11. ASSUME NEW h \in Handlers, StatementFails(h) PROVE Fanning'
    BY <1>11, GoToFans DEF StatementFails, At
  <1>12. ASSUME NEW h \in Handlers, Iter(h) PROVE Fanning'
    BY <1>12, IterFans
  <1>13. ASSUME NEW h \in Handlers, NEW c \in Clients, Call(h, c) PROVE Fanning'
    BY <1>13, CalledFans DEF Call
  <1>14. ASSUME NEW h \in Handlers, NEW c \in Clients, CallFails(h, c) PROVE Fanning'
    BY <1>14, CalledFans DEF CallFails
  <1>15. ASSUME NEW c \in Clients, Crash(c) PROVE Fanning'
    BY <1>15 DEF Crash, Fault, Fanning, Busy
  <1>16. ASSUME NEW c \in Clients, Register(c) PROVE Fanning'
    BY <1>16, JoinsFans DEF Register
  <1>17. ASSUME NEW d \in Dispatchers, StartDispatcher(d) PROVE Fanning'
    BY <1>17 DEF StartDispatcher, Fanning, Busy
  <1>18. ASSUME NEW p \in Pushers, StartPusher(p) PROVE Fanning'
    BY <1>18, JoinsFans DEF StartPusher
  <1>19. CASE MonitorCrash
    BY <1>19 DEF MonitorCrash, Fault, Fanning, Busy
  <1>20. CASE UNCHANGED vars
    BY <1>20 DEF vars, Fanning, Busy
  <1>21. ASSUME NEW h \in Handlers, NEW c \in Clients, CallUnserved(h, c) PROVE Fanning'
    BY <1>21, CalledFans DEF CallUnserved
  <1>22. ASSUME NEW h \in Handlers, NEW c \in Clients, Panics(h, c) PROVE Fanning'
    BY <1>22, CalledFans DEF Panics
  <1>23. ASSUME NEW c \in Clients, StartBlind(c) PROVE Fanning'
    BY <1>23 DEF StartBlind, Fanning, Busy
  <1> HIDE DEF store, living, dispatching, pushing, history, Statement
  <1> QED
    BY <1>1, <1>2, <1>3, <1>4, <1>5, <1>6, <1>7, <1>8, <1>9, <1>10,
       <1>11, <1>12, <1>13, <1>14, <1>15, <1>16, <1>17, <1>18, <1>19, <1>20,
       <1>21, <1>22, <1>23 DEF Next

\* Disturbed names stay so.
LEMMA DisturbedGrows ==
    ASSUME HandlerTypes, [Next]_vars
    PROVE  disturbed \subseteq disturbed'
  <1> USE DEF store, living, dispatching, pushing, history, Statement, Receive, Fault
  <1>1. ASSUME NEW h \in Handlers, NEW n \in Names, NEW s \in Settings, NEW b \in BOOLEAN,
              doAddTask(h, n, s, b)
        PROVE  disturbed \subseteq disturbed'
    BY <1>1 DEF doAddTask, Receive, copyTask, First
  <1>2. ASSUME NEW h \in Handlers, NEW i \in Ids, NEW s \in Settings, NEW b \in BOOLEAN,
              doUpdateTask(h, i, s, b)
        PROVE  disturbed \subseteq disturbed'
    BY <1>2 DEF doUpdateTask, Receive, Requested, copyTask, First
  <1>3. ASSUME NEW h \in Handlers, NEW i \in Ids, NEW b \in BOOLEAN, changeTaskStat(h, i, b)
        PROVE  disturbed \subseteq disturbed'
    BY <1>3 DEF changeTaskStat, Receive, Requested, First
  <1>4. ASSUME NEW h \in Handlers, NEW i \in Ids, NEW op \in {"delete"} \cup SubOps \cup PushOps,
              doSimple(h, op, i)
        PROVE  disturbed \subseteq disturbed'
    BY <1>4 DEF doSimple, Receive, Requested, First, SubOps, PushOps
  <1>5. ASSUME NEW h \in Handlers, NameExists(h) PROVE disturbed \subseteq disturbed'
    BY <1>5 DEF NameExists
  <1>6. ASSUME NEW h \in Handlers, Insert(h) PROVE disturbed \subseteq disturbed'
    BY <1>6 DEF Insert
  <1>7. ASSUME NEW h \in Handlers, InsertFields(h) PROVE disturbed \subseteq disturbed'
    BY <1>7 DEF InsertFields
  <1>8. ASSUME NEW h \in Handlers, DeleteFields(h) PROVE disturbed \subseteq disturbed'
    BY <1>8 DEF DeleteFields
  <1>9. ASSUME NEW h \in Handlers, UpdateRow(h) PROVE disturbed \subseteq disturbed'
    BY <1>9 DEF UpdateRow
  <1>10. ASSUME NEW h \in Handlers, DeleteRow(h) PROVE disturbed \subseteq disturbed'
    BY <1>10 DEF DeleteRow
  <1>11. ASSUME NEW h \in Handlers, StatementFails(h) PROVE disturbed \subseteq disturbed'
    BY <1>11 DEF StatementFails, Fault
  <1>12. ASSUME NEW h \in Handlers, Iter(h) PROVE disturbed \subseteq disturbed'
    BY <1>12 DEF Iter
  <1>13. ASSUME NEW h \in Handlers, NEW c \in Clients, Call(h, c) PROVE disturbed \subseteq disturbed'
    BY <1>13 DEF Call, Called
  <1>14. ASSUME NEW h \in Handlers, NEW c \in Clients, CallFails(h, c) PROVE disturbed \subseteq disturbed'
    BY <1>14 DEF CallFails, Called, Fault
  <1>15. ASSUME NEW c \in Clients, Crash(c) PROVE disturbed \subseteq disturbed'
    BY <1>15 DEF Crash, Fault
  <1>16. ASSUME NEW c \in Clients, Register(c) PROVE disturbed \subseteq disturbed'
    BY <1>16 DEF Register, Joins
  <1>17. ASSUME NEW d \in Dispatchers, StartDispatcher(d) PROVE disturbed \subseteq disturbed'
    BY <1>17 DEF StartDispatcher
  <1>18. ASSUME NEW p \in Pushers, StartPusher(p) PROVE disturbed \subseteq disturbed'
    BY <1>18 DEF StartPusher, Joins
  <1>19. CASE MonitorCrash
    BY <1>19 DEF MonitorCrash, Fault
  <1>20. CASE UNCHANGED vars
    BY <1>20 DEF vars
  <1>21. ASSUME NEW h \in Handlers, NEW c \in Clients, CallUnserved(h, c) PROVE disturbed \subseteq disturbed'
    BY <1>21 DEF CallUnserved, Fault
  <1>22. ASSUME NEW h \in Handlers, NEW c \in Clients, Panics(h, c) PROVE disturbed \subseteq disturbed'
    BY <1>22 DEF Panics
  <1>23. ASSUME NEW c \in Clients, StartBlind(c) PROVE disturbed \subseteq disturbed'
    BY <1>23 DEF StartBlind
  <1> HIDE DEF store, living, dispatching, pushing, history, Statement, Receive, Fault
  <1> QED
    BY <1>1, <1>2, <1>3, <1>4, <1>5, <1>6, <1>7, <1>8, <1>9, <1>10,
       <1>11, <1>12, <1>13, <1>14, <1>15, <1>16, <1>17, <1>18, <1>19, <1>20,
       <1>21, <1>22, <1>23 DEF Next

\* Every step is a request, one of three statements, or quiet.
LEMMA KindsStep ==
    ASSUME StoreTypes, HandlerTypes, Fanning, Numbered, [Next]_vars
    PROVE  Kinds
  <1> USE ControlAssumption DEF Kinds
  <1> USE DEF store, living, dispatching, pushing, history, Statement
  <1>1. ASSUME NEW h \in Handlers, NEW n \in Names, NEW s \in Settings, NEW b \in BOOLEAN,
              doAddTask(h, n, s, b)
        PROVE  Kinds
    <2> DEFINE t == [id |-> 0, fields |-> {s}, row |->
                      copyTask([name |-> n, stat |-> FALSE, sub |-> FALSE, push |-> FALSE], b)]
    <2>1. t \in Tasks /\ t.fields = {s}
      BY FormsAreTyped
    <2>2. Receive(h, "add", 0, t)
      BY <1>1 DEF doAddTask
    <2>3. "add" \in Ops /\ 0 \in 0 .. MaxId
      BY DEF Ops
    <2> HIDE DEF t
    <2> QED
      BY <2>1, <2>2, <2>3, RequestIsAsked
  <1>2. ASSUME NEW h \in Handlers, NEW i \in Ids, NEW s \in Settings, NEW b \in BOOLEAN,
              doUpdateTask(h, i, s, b)
        PROVE  Kinds
    <2>1. "update" \in Ops /\ {s} \in SUBSET Settings
      BY DEF Ops
    <2> QED
      BY <1>2, <2>1, ReadIsAsked DEF doUpdateTask, Exists
  <1>3. ASSUME NEW h \in Handlers, NEW i \in Ids, NEW b \in BOOLEAN, changeTaskStat(h, i, b)
        PROVE  Kinds
    <2>1. "changeStat" \in Ops /\ fields[i] \in SUBSET Settings
      BY DEF Ops, StoreTypes
    <2> QED
      BY <1>3, <2>1, ReadIsAsked DEF changeTaskStat, Exists
  <1>4. ASSUME NEW h \in Handlers, NEW i \in Ids, NEW op \in {"delete"} \cup SubOps \cup PushOps,
              doSimple(h, op, i)
        PROVE  Kinds
    <2>1. op \in Ops \ {"add", "update", "changeStat"} /\ fields[i] \in SUBSET Settings
      BY DEF Ops, SubOps, PushOps, StoreTypes
    <2> QED
      BY <1>4, <2>1, ReadIsAsked DEF doSimple, Exists
  <1>5. ASSUME NEW h \in Handlers, NameExists(h) PROVE Kinds
    <2>1. RowsKept
      BY <1>5, StoreSame DEF NameExists
    <2>2. \A k \in Handlers : Kept(k)
      BY <1>5, NameExistsKeeps DEF NameExists
    <2> QED
      BY <2>1, <2>2 DEF Quiet
  <1>6. ASSUME NEW h \in Handlers, Insert(h) PROVE Kinds
    BY <1>6 DEF Insert
  <1>7. ASSUME NEW h \in Handlers, InsertFields(h) PROVE Kinds
    BY <1>7 DEF InsertFields
  <1>8. ASSUME NEW h \in Handlers, DeleteFields(h) PROVE Kinds
    BY <1>8 DEF DeleteFields
  <1>9. ASSUME NEW h \in Handlers, UpdateRow(h) PROVE Kinds
    BY <1>9, UpdateIsQuiet
  <1>10. ASSUME NEW h \in Handlers, DeleteRow(h) PROVE Kinds
    BY <1>10, DeleteIsQuiet
  <1>11. ASSUME NEW h \in Handlers, StatementFails(h) PROVE Kinds
    BY <1>11, FailureIsQuiet
  <1>12. ASSUME NEW h \in Handlers, Iter(h) PROVE Kinds
    <2>1. RowsKept
      BY <1>12, StoreSame DEF Iter
    <2>2. \A k \in Handlers : Kept(k)
      BY <1>12, IterKeeps DEF Iter
    <2> QED
      BY <2>1, <2>2 DEF Quiet
  <1>13. ASSUME NEW h \in Handlers, NEW c \in Clients, Call(h, c) PROVE Kinds
    <2>1. RowsKept
      BY <1>13, StoreSame DEF Call, Called
    <2>2. \A k \in Handlers : Kept(k)
      BY <1>13, CalledKeeps DEF Call
    <2> QED
      BY <2>1, <2>2 DEF Quiet
  <1>14. ASSUME NEW h \in Handlers, NEW c \in Clients, CallFails(h, c) PROVE Kinds
    <2>1. RowsKept
      BY <1>14, StoreSame DEF CallFails, Called
    <2>2. \A k \in Handlers : Kept(k)
      BY <1>14, CalledKeeps DEF CallFails
    <2> QED
      BY <2>1, <2>2 DEF Quiet
  <1>15. ASSUME NEW c \in Clients, Crash(c) PROVE Kinds
    <2>1. RowsKept
      BY <1>15, StoreSame DEF Crash
    <2>2. \A k \in Handlers : Kept(k)
      BY <1>15, UntouchedIsKept DEF Crash
    <2> QED
      BY <2>1, <2>2 DEF Quiet
  <1>16. ASSUME NEW c \in Clients, Register(c) PROVE Kinds
    <2>1. RowsKept
      BY <1>16, StoreSame DEF Register
    <2>2. \A k \in Handlers : Kept(k)
      BY <1>16, JoinsKeeps DEF Register
    <2> QED
      BY <2>1, <2>2 DEF Quiet
  <1>17. ASSUME NEW d \in Dispatchers, StartDispatcher(d) PROVE Kinds
    <2>1. RowsKept
      BY <1>17, StoreSame DEF StartDispatcher
    <2>2. \A k \in Handlers : Kept(k)
      BY <1>17, UntouchedIsKept DEF StartDispatcher
    <2> QED
      BY <2>1, <2>2 DEF Quiet
  <1>18. ASSUME NEW p \in Pushers, StartPusher(p) PROVE Kinds
    <2>1. RowsKept
      BY <1>18, StoreSame DEF StartPusher
    <2>2. \A k \in Handlers : Kept(k)
      BY <1>18, JoinsKeeps DEF StartPusher
    <2> QED
      BY <2>1, <2>2 DEF Quiet
  <1>19. CASE MonitorCrash
    <2>1. RowsKept
      BY <1>19, StoreSame DEF MonitorCrash
    <2>2. \A k \in Handlers : Kept(k)
      BY <1>19, CrashKeeps DEF MonitorCrash
    <2> QED
      BY <2>1, <2>2 DEF Quiet
  <1>20. CASE UNCHANGED vars
    <2>1. RowsKept
      BY <1>20, StoreSame DEF vars
    <2>2. \A k \in Handlers : Kept(k)
      BY <1>20, UntouchedIsKept DEF vars
    <2> QED
      BY <2>1, <2>2 DEF Quiet
  <1>21. ASSUME NEW h \in Handlers, NEW c \in Clients, CallUnserved(h, c) PROVE Kinds
    <2>1. RowsKept
      BY <1>21, StoreSame DEF CallUnserved, Called
    <2>2. \A k \in Handlers : Kept(k)
      BY <1>21, CalledKeeps DEF CallUnserved
    <2> QED
      BY <2>1, <2>2 DEF Quiet
  <1>22. ASSUME NEW h \in Handlers, NEW c \in Clients, Panics(h, c) PROVE Kinds
    <2>1. RowsKept
      BY <1>22, StoreSame DEF Panics, Called
    <2>2. \A k \in Handlers : Kept(k)
      BY <1>22, CalledKeeps DEF Panics
    <2> QED
      BY <2>1, <2>2 DEF Quiet
  <1>23. ASSUME NEW c \in Clients, StartBlind(c) PROVE Kinds
    <2>1. RowsKept
      BY <1>23, StoreSame DEF StartBlind
    <2>2. \A k \in Handlers : Kept(k)
      BY <1>23, UntouchedIsKept DEF StartBlind
    <2> QED
      BY <2>1, <2>2 DEF Quiet
  <1> QED
    BY <1>1, <1>2, <1>3, <1>4, <1>5, <1>6, <1>7, <1>8, <1>9, <1>10,
       <1>11, <1>12, <1>13, <1>14, <1>15, <1>16, <1>17, <1>18, <1>19, <1>20,
       <1>21, <1>22, <1>23 DEF Next

-----------------------------------------------------------------------------
(* Each kind of step keeps the invariants about names.                       *)

\* Numbers, names and the one handler, after a step that hands out no id.
LEMMA QuietNames ==
    ASSUME NameInv, Quiet, disturbed \subseteq disturbed'
    PROVE  Numbered' /\ SameTask' /\ OneHandler' /\ FreeName' /\ NamesUnique'
  <1>1. RowsKept /\ \A k \in Handlers : Kept(k)
    BY DEF Quiet
  <1>2. \A k \in Handlers : Busy(k)' => Busy(k) /\ Same(k) /\ Name(k)' = Name(k)
    BY <1>1 DEF Kept, Same, Name
  <1>3. Numbered'
    BY <1>1, <1>2 DEF NameInv, Numbered, RowsKept, Same
  <1>4. SameTask'
    BY <1>2 DEF NameInv, SameTask, Same
  <1>5. OneHandler'
    BY <1>2 DEF NameInv, OneHandler, Calm
  <1>6. NamesUnique'
    BY <1>1 DEF NameInv, NamesUnique, RowsKept
  <1>7. FreeName'
    <2> SUFFICES ASSUME NEW h \in Handlers, NEW i \in Ids,
                        Calm(h)', handler'[h].at = "insertRow", Exists(i)'
                 PROVE  rows'[i].name # Name(h)'
      BY DEF FreeName
    <2>1. Calm(h) /\ Name(h)' = Name(h) /\ Follows(h)
      BY <1>1, <1>2 DEF Calm, Kept
    <2>2. Exists(i) /\ rows'[i].name = rows[i].name
      BY <1>1 DEF RowsKept
    <2>3. CASE handler[h].at = "insertRow"
      BY <2>1, <2>2, <2>3 DEF NameInv, FreeName
    <2>4. CASE handler[h].at # "insertRow"
      <3>1. handler[h].at = "nameExists"
        BY <2>1, <2>4 DEF Follows, Then
      <3>2. ~Taken(Name(h))
        BY <2>1, <2>4, <3>1 DEF Follows
      <3>3. SUFFICES ASSUME rows[i].name = Name(h) PROVE FALSE
        BY <2>1, <2>2
      <3>4. \A j \in Ids : Exists(j) /\ rows[j].name = Name(h) => j = i
        BY <2>1, <2>2, <3>3 DEF NameInv, NamesUnique, Calm
      <3>5. Listed(Name(h)) = {i}
        BY <2>2, <3>3, <3>4 DEF Listed, Exists
      <3> QED
        BY <3>2, <3>5 DEF Taken
    <2> QED
      BY <2>3, <2>4
  <1> QED
    BY <1>3, <1>4, <1>5, <1>6, <1>7

\* What a request leaves as it is, and what its handler starts with.
LEMMA AskedParts ==
    ASSUME NameInv, NEW h \in Handlers, NEW op \in Ops, NEW i \in 0 .. MaxId, NEW t \in Tasks,
           Receive(h, op, i, t)
    PROVE  /\ UNCHANGED <<rows, fields, lastId>>
           /\ \A k \in Handlers \ {h} : handler'[k] = handler[k]
           /\ ~Busy(h) /\ Busy(h)' /\ Name(h)' = t.row.name
           /\ handler'[h].op = op /\ handler'[h].id = i /\ handler'[h].at = First(op)
           /\ handler'[h].task = t
           /\ disturbed \subseteq disturbed'
           /\ Active(t.row.name) => t.row.name \in disturbed'
  <1>1. UNCHANGED <<rows, fields, lastId>>
    BY DEF Receive, store
  <1>2. handler' = [handler EXCEPT ![h] =
            [op |-> op, at |-> First(op), id |-> i, task |-> t, left |-> None]]
    BY DEF Receive
  <1>3. handler \in [Handlers -> Working \cup {Idle}]
    BY DEF NameInv, TypeOK
  <1>4. handler'[h] = [op |-> op, at |-> First(op), id |-> i, task |-> t, left |-> None]
    BY <1>2, <1>3
  <1>5. First(op) # "idle"
    BY DEF First
  <1>6. Busy(h)'
    BY <1>4, <1>5 DEF Busy, Idle
  <1> QED
    BY <1>1, <1>2, <1>3, <1>4, <1>6 DEF Receive, Name, Busy

LEMMA AskedNames ==
    ASSUME NameInv, Asked
    PROVE  Numbered' /\ SameTask' /\ OneHandler' /\ FreeName' /\ NamesUnique'
  <1>1. PICK h \in Handlers, op \in Ops, i \in 0 .. MaxId, t \in Tasks :
           /\ Receive(h, op, i, t)
           /\ i # 0 => i \in Ids /\ Exists(i) /\ rows[i].name = t.row.name
    BY DEF Asked
  <1> DEFINE n == t.row.name
  <1>2. UNCHANGED <<rows, fields, lastId>> /\ disturbed \subseteq disturbed'
    BY <1>1, AskedParts
  <1>3. \A k \in Handlers : k # h => handler'[k] = handler[k] /\ Busy(k)' = Busy(k) /\ Name(k)' = Name(k)
    BY <1>1, AskedParts DEF Busy, Name
  <1>4. ~Busy(h) /\ Busy(h)' /\ Name(h)' = n /\ handler'[h].id = i /\ handler'[h].at = First(op)
    BY <1>1, AskedParts
  <1>5. \A k \in Handlers : Busy(k) /\ Name(k) = n => n \in disturbed'
    BY <1>1, AskedParts DEF Active, About, Name
  <1>6. i <= lastId
    <2>1. lastId \in 0 .. MaxId /\ i \in 0 .. MaxId
      BY DEF NameInv, TypeOK
    <2> QED
      BY <1>1, <2>1 DEF NameInv, Numbered, Ids
  <1>7. Numbered'
    <2>1. \A j \in Ids : (j > lastId)' => ~Exists(j)' /\ fields'[j] = {}
      BY <1>2 DEF NameInv, Numbered, Exists
    <2>2. \A k \in Handlers : Busy(k)' => (handler[k].id <= lastId)'
      BY <1>2, <1>3, <1>4, <1>6 DEF NameInv, Numbered
    <2>3. ASSUME NEW k \in Handlers, NEW j \in Ids, Busy(k)', handler'[k].id = j, Exists(j)'
          PROVE  rows'[j].name = Name(k)'
      <3>1. j # 0
        BY DEF Ids
      <3>2. CASE k = h
        BY <1>1, <1>2, <1>4, <2>3, <3>1, <3>2
      <3>3. CASE k # h
        BY <1>2, <1>3, <2>3, <3>3 DEF NameInv, Numbered, Exists
      <3> QED
        BY <3>2, <3>3
    <2> QED
      BY <2>1, <2>2, <2>3 DEF Numbered
  <1>8. SameTask'
    <2>1. \A k \in Handlers : Busy(k) /\ handler[k].id = i /\ i # 0 => Name(k) = n
      BY <1>1 DEF NameInv, Numbered
    <2> QED
      BY <1>3, <1>4, <2>1 DEF NameInv, SameTask
  <1>9. OneHandler'
    BY <1>2, <1>3, <1>4, <1>5 DEF NameInv, OneHandler, Calm
  <1>10. First(op) # "insertRow"
    BY DEF First
  <1>11. FreeName'
    BY <1>2, <1>3, <1>4, <1>10 DEF NameInv, FreeName, Calm, Exists
  <1>12. NamesUnique'
    BY <1>2 DEF NameInv, NamesUnique, Exists
  <1> QED
    BY <1>7, <1>8, <1>9, <1>11, <1>12

LEMMA InsertParts ==
    ASSUME NameInv, ControlAssumption, NEW h \in Handlers, Insert(h)
    PROVE  /\ Calm(h) <=> Name(h) \notin disturbed
           /\ Busy(h) /\ handler[h].at = "insertRow" /\ Busy(h)' /\ handler'[h].at = "insertFields"
           /\ handler'[h].op = handler[h].op /\ handler'[h].task = handler[h].task
           /\ handler'[h].id = lastId + 1 /\ lastId' = lastId + 1 /\ lastId + 1 \in Ids
           /\ \A k \in Handlers \ {h} : handler'[k] = handler[k]
           /\ rows'[lastId + 1] = handler[h].task.row /\ rows'[lastId + 1] # None
           /\ \A i \in Ids : i # lastId + 1 => rows'[i] = rows[i]
           /\ fields' = fields /\ disturbed' = disturbed
  <1>1. /\ handler \in [Handlers -> Working \cup {Idle}] /\ rows \in [Ids -> {None} \cup Rows]
        /\ lastId \in 0 .. MaxId
    BY DEF NameInv, TypeOK
  <1>2. Busy(h) /\ handler[h].at = "insertRow" /\ handler[h] \in Working
    BY <1>1 DEF Insert, At, Busy
  <1>3. lastId + 1 \in Ids
    BY <1>1 DEF Insert, Ids, ControlAssumption
  <1>4. handler'[h] = [handler[h] EXCEPT !.at = "insertFields", !.id = lastId + 1]
    BY <1>1 DEF Insert, Then
  <1>5. /\ handler'[h].at = "insertFields" /\ handler'[h].op = handler[h].op
        /\ handler'[h].task = handler[h].task /\ handler'[h].id = lastId + 1
    BY <1>2, <1>4 DEF Working
  <1>6. Busy(h)'
    BY <1>5 DEF Busy, Idle
  <1>7. handler[h].task.row \in Rows
    BY <1>2 DEF Working, Tasks
  <1>8. rows'[lastId + 1] = handler[h].task.row /\ rows'[lastId + 1] # None
    <2>1. handler[h].task.row # None
      BY <1>7, ControlAssumption DEF ControlAssumption, Rows
    <2>2. rows'[lastId + 1] = handler[h].task.row
      BY <1>1, <1>3 DEF Insert
    <2> QED
      BY <2>1, <2>2 DEF Exists
  <1>9. \A i \in Ids : i # lastId + 1 => rows'[i] = rows[i]
    BY <1>1 DEF Insert
  <1>10. \A k \in Handlers \ {h} : handler'[k] = handler[k]
    BY <1>1 DEF Insert
  <1>11. fields' = fields /\ lastId' = lastId + 1 /\ disturbed' = disturbed
    BY DEF Insert, Statement, history
  <1> QED
    BY <1>2, <1>3, <1>5, <1>6, <1>8, <1>9, <1>10, <1>11 DEF Calm

LEMMA InsertNames ==
    ASSUME NameInv, ControlAssumption, NEW h \in Handlers, Insert(h)
    PROVE  Numbered' /\ SameTask' /\ OneHandler' /\ FreeName' /\ NamesUnique'
  <1> DEFINE j == lastId + 1
  <1>1. /\ Busy(h) /\ handler[h].at = "insertRow" /\ Busy(h)' /\ handler'[h].at = "insertFields"
        /\ Name(h)' = Name(h) /\ handler'[h].id = j /\ lastId' = j /\ j \in Ids
        /\ rows'[j].name = Name(h) /\ rows'[j] # None /\ fields' = fields /\ disturbed' = disturbed
    BY InsertParts DEF Name
  <1>2. \A k \in Handlers : k # h => handler'[k] = handler[k] /\ Busy(k)' = Busy(k) /\ Name(k)' = Name(k)
    BY InsertParts DEF Busy, Name
  <1>3. \A i \in Ids : i # j => rows'[i] = rows[i] /\ Exists(i)' = Exists(i)
    BY InsertParts DEF Exists
  <1>4. /\ lastId \in 0 .. MaxId /\ \A i \in Ids : i \in Nat
        /\ \A k \in Handlers : Busy(k) => handler[k].id \in 0 .. MaxId
    BY BusyNames, TypeParts DEF NameInv, TypeOK, Ids
  <1>5. Numbered'
    <2>1. \A i \in Ids : (i > lastId)' => i > lastId /\ i # j
      BY <1>1, <1>4
    <2>2. \A i \in Ids : (i > lastId)' => ~Exists(i)' /\ fields'[i] = {}
      BY <1>1, <1>3, <2>1 DEF NameInv, Numbered
    <2>3. \A k \in Handlers : Busy(k) => handler[k].id <= lastId /\ handler[k].id # j
      BY <1>4 DEF NameInv, Numbered
    <2>4. \A k \in Handlers : Busy(k)' => handler'[k].id <= lastId'
      BY <1>1, <1>2, <1>4, <2>3
    <2>5. \A k \in Handlers, i \in Ids :
              Busy(k)' /\ handler'[k].id = i /\ Exists(i)' => rows'[i].name = Name(k)'
      BY <1>1, <1>2, <1>3, <2>3 DEF NameInv, Numbered
    <2> QED
      BY <2>2, <2>4, <2>5 DEF Numbered
  <1>6. SameTask'
    <2>1. \A k \in Handlers : Busy(k) => handler[k].id # j
      BY <1>4 DEF NameInv, Numbered
    <2> QED
      BY <1>1, <1>2, <2>1 DEF NameInv, SameTask
  <1>7. OneHandler'
    BY <1>1, <1>2 DEF NameInv, OneHandler, Calm
  <1>8. FreeName'
    <2> SUFFICES ASSUME NEW k \in Handlers, NEW i \in Ids,
                        Calm(k)', handler'[k].at = "insertRow", Exists(i)'
                 PROVE  rows'[i].name # Name(k)'
      BY DEF FreeName
    <2>1. k # h /\ Calm(k) /\ handler[k].at = "insertRow" /\ Name(k)' = Name(k)
      BY <1>1, <1>2 DEF Calm
    <2>2. Name(h) # Name(k)
      BY <1>1, <2>1 DEF NameInv, OneHandler
    <2> QED
      BY <1>1, <1>3, <2>1, <2>2 DEF NameInv, FreeName
  <1>9. NamesUnique'
    <2>1. \A i \in Ids : Exists(i) /\ Name(h) \notin disturbed => rows[i].name # Name(h)
      BY <1>1 DEF NameInv, FreeName, Calm
    <2> QED
      BY <1>1, <1>3, <2>1 DEF NameInv, NamesUnique
  <1> QED
    BY <1>5, <1>6, <1>7, <1>8, <1>9

\* What the two statements on the table of fields leave as it is.
FieldsStep(h) ==
    /\ Busy(h) /\ Busy(h)' /\ Same(h) /\ Name(h)' = Name(h)
    /\ handler[h].at \in {"insertFields", "deleteFields"}
    /\ handler'[h].at = Then(handler[h].op, handler[h].at)
    /\ \A k \in Handlers : k # h => handler'[k] = handler[k] /\ Busy(k)' = Busy(k) /\ Name(k)' = Name(k)
    /\ rows' = rows /\ lastId' = lastId /\ disturbed' = disturbed
    /\ \A i \in Ids : i # handler[h].id => fields'[i] = fields[i]

LEMMA FieldsParts ==
    ASSUME NameInv, NEW h \in Handlers, InsertFields(h) \/ DeleteFields(h)
    PROVE  FieldsStep(h)
  <1>1. handler \in [Handlers -> Working \cup {Idle}] /\ fields \in [Ids -> SUBSET Settings]
    BY DEF NameInv, TypeOK
  <1>2. Busy(h) /\ handler[h] \in Working /\ handler[h].at \in {"insertFields", "deleteFields"}
    BY <1>1 DEF InsertFields, DeleteFields, At, Busy
  <1>3. rows' = rows /\ lastId' = lastId /\ disturbed' = disturbed
    BY DEF InsertFields, DeleteFields, Statement, history
  <1>4. \A i \in Ids : i # handler[h].id => fields'[i] = fields[i]
    BY <1>1 DEF InsertFields, DeleteFields
  <1>5. \A k \in Handlers : k # h => handler'[k] = handler[k]
    BY <1>1 DEF InsertFields, DeleteFields, Done, GoTo
  <1>6. Then(handler[h].op, handler[h].at) \in Statements \cup FanOuts
    BY <1>2 DEF Then, Statements, FanOuts
  <1>7. handler'[h].at = Then(handler[h].op, handler[h].at) /\ Same(h)
    <2>1. CASE InsertFields(h)
      <3>1. handler'[h] = [handler[h] EXCEPT !.at = Then(handler[h].op, "insertFields"),
                                            !.task.id = handler[h].id]
        BY <1>1, <2>1 DEF InsertFields
      <3>2. handler[h].task \in Tasks /\ handler[h].at = "insertFields"
        BY <1>2, <2>1 DEF Working, InsertFields, At
      <3>3. /\ handler'[h].at = Then(handler[h].op, "insertFields")
            /\ handler'[h].op = handler[h].op /\ handler'[h].id = handler[h].id
            /\ handler'[h].task = [handler[h].task EXCEPT !.id = handler[h].id]
        BY <1>2, <3>1 DEF Working
      <3>4. /\ handler'[h].task.row = handler[h].task.row
            /\ handler'[h].task.fields = handler[h].task.fields
        BY <3>2, <3>3 DEF Tasks
      <3> QED
        BY <3>2, <3>3, <3>4 DEF Same
    <2>2. CASE DeleteFields(h)
      <3>1. handler'[h] = Moved(h, Then(handler[h].op, handler[h].at))
        BY <1>1, <2>2 DEF DeleteFields, Done, GoTo
      <3>2. Then(handler[h].op, handler[h].at) # "idle"
        BY <1>6 DEF Statements, FanOuts
      <3> QED
        BY <1>2, <3>1, <3>2 DEF Same, Moved, Working
    <2> QED
      BY <2>1, <2>2
  <1>8. Busy(h)'
    <2>1. Then(handler[h].op, handler[h].at) # "idle"
      BY <1>6 DEF Statements, FanOuts
    <2> QED
      BY <1>7, <2>1 DEF Busy, Idle
  <1> QED
    BY <1>2, <1>3, <1>4, <1>5, <1>7, <1>8 DEF FieldsStep, Same, Name, Busy

LEMMA FieldsNames ==
    ASSUME NameInv, NEW h \in Handlers, FieldsStep(h)
    PROVE  Numbered' /\ SameTask' /\ OneHandler' /\ FreeName' /\ NamesUnique'
  <1>1. \A k \in Handlers : /\ Busy(k)' = Busy(k) /\ Name(k)' = Name(k)
                            /\ Busy(k) => handler'[k].id = handler[k].id
    <2> TAKE k \in Handlers
    <2>1. CASE k = h
      <3>1. Busy(k) = TRUE /\ Busy(k)' = TRUE
        BY <2>1 DEF FieldsStep, Busy
      <3> QED
        BY <2>1, <3>1 DEF FieldsStep, Same
    <2>2. CASE k # h
      BY <2>2 DEF FieldsStep
    <2> QED
      BY <2>1, <2>2
  <1>2. rows' = rows /\ lastId' = lastId /\ disturbed' = disturbed
    BY DEF FieldsStep
  <1>3. handler'[h].at # "insertRow"
    BY DEF FieldsStep, Then
  <1>4. \A k \in Handlers : handler'[k].at = "insertRow" => handler'[k] = handler[k]
    BY <1>3 DEF FieldsStep
  <1>5. Numbered'
    <2>1. \A i \in Ids : i > lastId => i # handler[h].id
      <3>1. lastId \in 0 .. MaxId /\ handler[h].id \in 0 .. MaxId
        BY BusyNames, TypeParts DEF NameInv, TypeOK, FieldsStep
      <3> QED
        BY <3>1 DEF NameInv, Numbered, FieldsStep, Ids
    <2> QED
      BY <1>1, <1>2, <2>1 DEF NameInv, Numbered, FieldsStep, Exists
  <1>6. SameTask'
    BY <1>1 DEF NameInv, SameTask
  <1>7. OneHandler'
    BY <1>1, <1>2 DEF NameInv, OneHandler, Calm
  <1>8. FreeName'
    BY <1>1, <1>2, <1>4 DEF NameInv, FreeName, Calm, Exists
  <1>9. NamesUnique'
    BY <1>2 DEF NameInv, NamesUnique, Exists
  <1> QED
    BY <1>5, <1>6, <1>7, <1>8, <1>9

-----------------------------------------------------------------------------
(* Each kind of step keeps the invariants about fields.                      *)

LEMMA QuietFields ==
    ASSUME FieldInv, Quiet, disturbed \subseteq disturbed'
    PROVE  FieldsPlan' /\ FieldsFilled'
  <1>1. RowsKept /\ \A k \in Handlers : Kept(k)
    BY DEF Quiet
  <1>2. FieldsPlan'
    <2> SUFFICES ASSUME NEW h \in Handlers, Calm(h)'
                 PROVE  FieldsPlanOf(h)'
      BY DEF FieldsPlan
    <2>1. Calm(h) /\ Same(h) /\ Follows(h)
      BY <1>1 DEF Calm, Kept, Same, Name
    <2>2. FieldsPlanOf(h)
      BY <2>1 DEF FieldInv, FieldsPlan
    <2>3. fields' = fields /\ \A i \in Ids : Exists(i)' => Exists(i)
      BY <1>1 DEF RowsKept
    <2>4. CASE handler'[h].at = handler[h].at
      BY <2>1, <2>2, <2>3, <2>4 DEF Same, FieldsPlanOf
    <2>5. CASE handler'[h].at # handler[h].at
      <3>1. /\ handler'[h].at = Then(handler[h].op, handler[h].at)
            /\ handler[h].at \notin {"insertRow", "insertFields", "deleteFields"}
            /\ handler[h].at = "deleteRow" => \A i \in Ids : handler[h].id = i => ~Exists(i)'
        BY <2>1, <2>5 DEF Follows
      <3>2. CASE handler[h].at = "nameExists"
        <4>1. handler'[h].at = "insertRow"
          BY <3>1, <3>2 DEF Then
        <4> QED
          BY <2>1, <2>2, <3>2, <4>1 DEF Same, FieldsPlanOf, Rewriting, Emptied
      <3>3. CASE handler[h].at = "updateRow"
        <4>1. handler'[h].at = "insertFields"
          BY <3>1, <3>3 DEF Then
        <4> QED
          BY <2>1, <2>2, <2>3, <3>3, <4>1 DEF Same, FieldsPlanOf, Rewriting, Emptied
      <3>4. CASE handler[h].at = "deleteRow"
        <4>1. handler'[h].at = "deleteFields"
          BY <3>1, <3>4 DEF Then
        <4>2. handler[h].op = "delete"
          BY <2>2, <3>4 DEF FieldsPlanOf
        <4> QED
          BY <2>1, <3>1, <3>4, <4>1, <4>2 DEF Same, FieldsPlanOf, Rewriting, Emptied
      <3>5. CASE handler[h].at \notin {"nameExists", "updateRow", "deleteRow"}
        <4>1. handler'[h].at \notin Rewriting /\ handler'[h].at # "deleteRow"
          BY <3>1, <3>5 DEF Then, Rewriting
        <4> QED
          BY <4>1 DEF FieldsPlanOf, Rewriting, Emptied
      <3> QED
        BY <3>2, <3>3, <3>4, <3>5
    <2> QED
      BY <2>4, <2>5
  <1>3. FieldsFilled'
    <2> SUFFICES ASSUME NEW i \in Ids, Exists(i)', rows'[i].name \notin disturbed',
                        \A h \in Handlers : Busy(h)' /\ handler'[h].id = i => handler'[h].at \notin Emptied
                 PROVE  \E s \in Settings : fields'[i] = {s}
      BY DEF FieldsFilled, Emptied
    <2>1. Exists(i) /\ rows'[i].name = rows[i].name /\ fields' = fields
      BY <1>1 DEF RowsKept
    <2>2. ASSUME NEW h \in Handlers, Busy(h), handler[h].id = i, handler[h].at \in Emptied
          PROVE  FALSE
      <3>1. Name(h) = rows[i].name
        BY <2>1, <2>2 DEF FieldInv, NameInv, Numbered
      <3>2. Name(h) \notin disturbed'
        BY <2>1, <3>1
      <3>3. Busy(h)' /\ Same(h) /\ Follows(h)
        BY <1>1, <2>2, <3>2 DEF Kept
      <3>4. handler'[h].at = handler[h].at \/ handler'[h].at = "insertFields"
        BY <2>2, <3>3 DEF Follows, Then, Emptied
      <3> QED
        BY <2>2, <3>3, <3>4 DEF Same, Emptied
    <2> QED
      BY <2>1, <2>2 DEF FieldInv, FieldsFilled
  <1> QED
    BY <1>2, <1>3

LEMMA AskedFields ==
    ASSUME FieldInv, Asked
    PROVE  FieldsPlan' /\ FieldsFilled'
  <1>1. PICK h \in Handlers, op \in Ops, i \in 0 .. MaxId, t \in Tasks :
           /\ Receive(h, op, i, t)
           /\ i # 0 => i \in Ids /\ Exists(i) /\ rows[i].name = t.row.name
           /\ op \in {"add", "update"} => \E s \in Settings : t.fields = {s}
           /\ op = "changeStat" => i \in Ids /\ t.fields = fields[i]
    BY DEF Asked
  <1>2. UNCHANGED <<rows, fields, lastId>> /\ disturbed \subseteq disturbed'
    BY <1>1, AskedParts DEF FieldInv
  <1>3. \A k \in Handlers : k # h => /\ handler'[k] = handler[k] /\ (Busy(k)' <=> Busy(k))
                                     /\ Calm(k)' => Calm(k)
    BY <1>1, <1>2, AskedParts DEF FieldInv, Busy, Name, Calm
  <1>4. /\ ~Busy(h) /\ Name(h)' = t.row.name /\ handler'[h].id = i /\ handler'[h].at = First(op)
        /\ handler'[h].op = op /\ handler'[h].task = t
    BY <1>1, AskedParts DEF FieldInv
  <1>5. Calm(h)' /\ op = "changeStat" => \E s \in Settings : t.fields = {s}
    <2> SUFFICES ASSUME Calm(h)', op = "changeStat" PROVE \E s \in Settings : fields[i] = {s}
      BY <1>1
    <2>1. t.row.name \notin disturbed' /\ t.row.name \notin disturbed
      BY <1>2, <1>4 DEF Calm
    <2>2. \A k \in Handlers : Busy(k) => Name(k) # t.row.name
      BY <1>1, <2>1, AskedParts DEF FieldInv, Active, About, Name
    <2>3. i # 0 /\ i \in Ids
      BY <1>1 DEF Ids
    <2>4. Exists(i) /\ rows[i].name = t.row.name
      BY <1>1, <2>3
    <2>5. \A k \in Handlers : Busy(k) => handler[k].id # i
      BY <2>2, <2>3, <2>4 DEF FieldInv, NameInv, Numbered
    <2> QED
      BY <2>1, <2>3, <2>4, <2>5 DEF FieldInv, FieldsFilled
  <1>6. /\ First(op) \notin Emptied
        /\ op = "delete" => First(op) = "deleteRow"
        /\ op # "delete" /\ First(op) \in Rewriting => op \in {"add", "update", "changeStat"}
        /\ First(op) = "deleteRow" => op = "delete"
    BY DEF First, Emptied, Rewriting, SubOps, Ops, PushOps
  <1>7. FieldsPlan'
    <2> SUFFICES ASSUME NEW k \in Handlers, Calm(k)'
                 PROVE  FieldsPlanOf(k)'
      BY DEF FieldsPlan
    <2>1. CASE k = h
      BY <1>1, <1>4, <1>5, <1>6, <2>1 DEF FieldsPlanOf, Rewriting
    <2>2. CASE k # h
      <3>1. FieldsPlanOf(k) /\ handler'[k] = handler[k]
        BY <1>3, <2>2 DEF FieldInv, FieldsPlan
      <3> QED
        BY <1>2, <3>1 DEF FieldsPlanOf, Exists
    <2> QED
      BY <2>1, <2>2
  <1>8. FieldsFilled'
    <2>1. \A k \in Handlers : Busy(k) => k # h
      BY <1>4
    <2>2. \A k \in Handlers : Busy(k) => Busy(k)' /\ handler'[k] = handler[k]
      BY <1>3, <2>1
    <2> QED
      BY <1>2, <2>2 DEF FieldInv, FieldsFilled, Exists
  <1> QED
    BY <1>7, <1>8

LEMMA InsertFieldInv ==
    ASSUME FieldInv, ControlAssumption, NEW h \in Handlers, Insert(h)
    PROVE  FieldsPlan' /\ FieldsFilled'
  <1> DEFINE j == lastId + 1
  <1>1. /\ Busy(h) /\ handler[h].at = "insertRow" /\ Busy(h)' /\ handler'[h].at = "insertFields"
        /\ handler'[h].op = handler[h].op /\ handler'[h].task = handler[h].task
        /\ Name(h)' = Name(h) /\ handler'[h].id = j /\ j \in Ids
        /\ fields' = fields /\ disturbed' = disturbed
    BY InsertParts DEF FieldInv, Name
  <1>2. \A k \in Handlers : k # h => handler'[k] = handler[k] /\ Busy(k)' = Busy(k) /\ Calm(k)' = Calm(k)
    BY InsertParts DEF FieldInv, Busy, Name, Calm
  <1>3. \A i \in Ids : i # j => rows'[i] = rows[i] /\ Exists(i)' = Exists(i)
    BY InsertParts DEF FieldInv, Exists
  <1>4. lastId \in 0 .. MaxId /\ \A k \in Handlers : Busy(k) => handler[k].id # j
    <2>1. \A k \in Handlers : Busy(k) => handler[k].id \in 0 .. MaxId /\ handler[k].id <= lastId
      BY BusyNames, TypeParts DEF FieldInv, NameInv, Numbered
    <2> QED
      BY <2>1 DEF FieldInv, NameInv, TypeOK
  <1>5. FieldsPlan'
    <2> SUFFICES ASSUME NEW k \in Handlers, Calm(k)'
                 PROVE  FieldsPlanOf(k)'
      BY DEF FieldsPlan
    <2>1. CASE k = h
      <3>1. Calm(h) /\ FieldsPlanOf(h)
        BY <1>1, <2>1 DEF Calm, FieldInv, FieldsPlan
      <3>2. handler[h].op # "delete" /\ \E s \in Settings : handler[h].task.fields = {s}
        BY <1>1, <3>1 DEF FieldsPlanOf, Rewriting
      <3>3. fields[j] = {}
        BY <1>1, <1>4 DEF FieldInv, NameInv, Numbered
      <3> QED
        BY <1>1, <2>1, <3>2, <3>3 DEF FieldsPlanOf
    <2>2. CASE k # h
      BY <1>1, <1>2, <1>3, <1>4, <2>2 DEF FieldInv, FieldsPlan, FieldsPlanOf, Calm
    <2> QED
      BY <2>1, <2>2
  <1>6. FieldsFilled'
    <2> SUFFICES ASSUME NEW i \in Ids, Exists(i)', rows'[i].name \notin disturbed',
                        \A k \in Handlers : Busy(k)' /\ handler'[k].id = i => handler'[k].at \notin Emptied
                 PROVE  \E s \in Settings : fields'[i] = {s}
      BY DEF FieldsFilled, Emptied
    <2>1. i # j
      BY <1>1 DEF Emptied
    <2>2. \A k \in Handlers : Busy(k) /\ handler[k].id = i => handler[k].at \notin Emptied
      BY <1>1, <1>2 DEF Emptied
    <2> QED
      BY <1>1, <1>3, <2>1, <2>2 DEF FieldInv, FieldsFilled
  <1> QED
    BY <1>5, <1>6

LEMMA FieldsFieldInv ==
    ASSUME FieldInv, NEW h \in Handlers, InsertFields(h) \/ DeleteFields(h)
    PROVE  FieldsPlan' /\ FieldsFilled'
  <1>1. FieldsStep(h)
    BY FieldsParts DEF FieldInv
  <1>2. rows' = rows /\ disturbed' = disturbed /\ \A i \in Ids : Exists(i)' = Exists(i)
    BY <1>1 DEF FieldsStep, Exists
  <1>3. Calm(h)' = Calm(h)
    BY <1>1 DEF FieldsStep, Calm
  <1>4. \A i \in Ids : i = handler[h].id => fields'[i] = (IF handler[h].at = "deleteFields" THEN {}
                                              ELSE fields[i] \cup handler[h].task.fields)
    BY DEF InsertFields, DeleteFields, At, FieldInv, NameInv, TypeOK
  <1>5. FieldsPlan'
    <2> SUFFICES ASSUME NEW k \in Handlers, Calm(k)'
                 PROVE  FieldsPlanOf(k)'
      BY DEF FieldsPlan
    <2>1. CASE k = h
      <3>1. Calm(h) /\ FieldsPlanOf(h)
        BY <1>3, <2>1 DEF FieldInv, FieldsPlan
      <3>2. CASE handler[h].at = "insertFields"
        <4>1. handler'[h].at = "dispatchers"
          BY <1>1, <3>2 DEF FieldsStep, Then
        <4> QED
          BY <2>1, <4>1 DEF FieldsPlanOf, Rewriting, Emptied
      <3>3. CASE handler[h].at = "deleteFields" /\ handler[h].op = "delete"
        <4>1. handler'[h].at = "dispatchers"
          BY <1>1, <3>3 DEF FieldsStep, Then
        <4> QED
          BY <2>1, <4>1 DEF FieldsPlanOf, Rewriting, Emptied
      <3>4. CASE handler[h].at = "deleteFields" /\ handler[h].op # "delete"
        <4>1. handler'[h].at = "updateRow"
          BY <1>1, <3>4 DEF FieldsStep, Then
        <4>2. handler'[h].op = handler[h].op /\ handler'[h].id = handler[h].id
              /\ handler'[h].task.fields = handler[h].task.fields
          BY <1>1 DEF FieldsStep, Same
        <4>3. \E s \in Settings : handler[h].task.fields = {s}
          BY <3>1, <3>4 DEF FieldsPlanOf, Rewriting
        <4> QED
          BY <1>4, <2>1, <3>4, <4>1, <4>2, <4>3 DEF FieldsPlanOf
      <3> QED
        BY <1>1, <3>2, <3>3, <3>4 DEF FieldsStep
    <2>2. CASE k # h
      <3>1. Calm(k) /\ handler'[k] = handler[k]
        BY <1>1, <2>2 DEF FieldsStep, Calm
      <3>2. ASSUME handler[k].id \in Ids
            PROVE  handler[k].id # handler[h].id
        <4>1. Name(h) # Name(k)
          BY <1>1, <2>2, <3>1 DEF FieldsStep, FieldInv, NameInv, OneHandler
        <4>2. handler[k].id # 0
          BY <3>2 DEF Ids
        <4> QED
          BY <1>1, <3>1, <4>1, <4>2 DEF FieldsStep, FieldInv, NameInv, SameTask, Calm
      <3>3. FieldsPlanOf(k)
        BY <3>1 DEF FieldInv, FieldsPlan
      <3> QED
        BY <1>1, <1>2, <3>1, <3>2, <3>3 DEF FieldsPlanOf, FieldsStep
    <2> QED
      BY <2>1, <2>2
  <1>6. FieldsFilled'
    <2> SUFFICES ASSUME NEW i \in Ids, Exists(i)', rows'[i].name \notin disturbed',
                        \A k \in Handlers : Busy(k)' /\ handler'[k].id = i => handler'[k].at \notin Emptied
                 PROVE  \E s \in Settings : fields'[i] = {s}
      BY DEF FieldsFilled, Emptied
    <2>1. Exists(i) /\ rows[i].name \notin disturbed
      BY <1>2
    <2>2. CASE i = handler[h].id
      <3>1. Calm(h) /\ FieldsPlanOf(h)
        BY <1>1, <2>1, <2>2 DEF FieldsStep, FieldInv, NameInv, Numbered, FieldsPlan, Calm
      <3>2. handler'[h].at \notin Emptied
        BY <1>1, <2>2 DEF FieldsStep, Same
      <3>3. CASE handler[h].at = "insertFields"
        <4>1. fields[i] = {} /\ \E s \in Settings : handler[h].task.fields = {s}
          BY <2>2, <3>1, <3>3 DEF FieldsPlanOf, Rewriting, Emptied
        <4> QED
          BY <1>4, <2>2, <3>3, <4>1
      <3>4. CASE handler[h].at = "deleteFields"
        <4>1. handler[h].op = "delete"
          BY <1>1, <3>2, <3>4 DEF FieldsStep, Then, Emptied
        <4> QED
          BY <2>1, <2>2, <3>1, <3>4, <4>1 DEF FieldsPlanOf
      <3> QED
        BY <1>1, <3>3, <3>4 DEF FieldsStep
    <2>3. CASE i # handler[h].id
      <3>1. \A k \in Handlers : Busy(k) /\ handler[k].id = i => handler[k].at \notin Emptied
        BY <1>1, <2>3 DEF FieldsStep
      <3> QED
        BY <1>1, <2>1, <2>3, <3>1 DEF FieldsStep, FieldInv, FieldsFilled
    <2> QED
      BY <2>2, <2>3
  <1> QED
    BY <1>5, <1>6

-----------------------------------------------------------------------------
(* The invariants, and what follows from them.                               *)

LEMMA FieldInvStep ==
    ASSUME FieldInv, [Next]_vars
    PROVE  FieldInv'
  <1>1. StoreTypes /\ HandlerTypes /\ Fanning /\ Numbered
    BY TypeParts DEF FieldInv, NameInv
  <1>2. TypeOK' /\ Fanning' /\ disturbed \subseteq disturbed'
    BY <1>1, TypeStep, FanningStep, DisturbedGrows DEF FieldInv, NameInv
  <1>3. Kinds
    BY <1>1, KindsStep
  <1>4. Numbered' /\ SameTask' /\ OneHandler' /\ FreeName' /\ NamesUnique'
    BY <1>2, <1>3, QuietNames, AskedNames, InsertNames, FieldsParts, FieldsNames, ControlAssumption
       DEF Kinds, FieldInv
  <1>5. FieldsPlan' /\ FieldsFilled'
    BY <1>2, <1>3, QuietFields, AskedFields, InsertFieldInv, FieldsFieldInv, ControlAssumption DEF Kinds
  <1> QED
    BY <1>2, <1>4, <1>5 DEF FieldInv, NameInv

LEMMA InitFieldInv == Init => FieldInv
  <1> SUFFICES ASSUME Init PROVE FieldInv
    OBVIOUS
  <1>1. TypeOK
    BY InitTypes
  <1>2. \A h \in Handlers : ~Busy(h)
    BY DEF Init, Busy
  <1>3. Fanning /\ SameTask /\ OneHandler /\ FreeName /\ FieldsPlan
    BY <1>2 DEF Fanning, SameTask, OneHandler, FreeName, FieldsPlan, Calm
  <1>4. PICK n \in Names, b \in BOOLEAN, s \in Settings :
           /\ rows = [i \in Ids |-> IF i <= lastId
                 THEN copyTask([name |-> n, stat |-> FALSE, sub |-> FALSE, push |-> FALSE], b)
                 ELSE None]
           /\ fields = [i \in Ids |-> IF i <= lastId THEN {s} ELSE {}]
    BY DEF Init
  <1>5. lastId \in {0, 1} /\ \A i \in Ids : i \in Nat /\ i >= 1
    BY DEF Init, Ids
  <1>6. Numbered
    <2>1. \A i \in Ids : i > lastId => ~(i <= lastId)
      BY <1>5
    <2> QED
      BY <1>2, <1>4, <2>1 DEF Numbered, Exists
  <1>7. \A i \in Ids : Exists(i) => i <= lastId
    BY <1>4 DEF Exists
  <1>8. NamesUnique
    BY <1>5, <1>7 DEF NamesUnique
  <1>9. FieldsFilled
    BY <1>4, <1>7 DEF FieldsFilled
  <1> QED
    BY <1>1, <1>3, <1>6, <1>8, <1>9 DEF FieldInv, NameInv

\* The handler of an undisturbed name is alone and knows what it will find.
THEOREM Invariant == Spec => []FieldInv
  BY InitFieldInv, FieldInvStep, PTL DEF Spec

\* Two tasks never share a name that no overlap and no fault has disturbed.
THEOREM NamesStayUnique == Spec => []NamesUnique
  <1>1. FieldInv => NamesUnique
    BY DEF FieldInv, NameInv
  <1> QED
    BY <1>1, Invariant, PTL

\* When the requests about an undisturbed task are done, it has the fields of
\* exactly one form.
THEOREM FieldsAreKept == Spec => []FieldsKept
  <1>1. FieldInv => FieldsKept
    <2> SUFFICES ASSUME FieldInv, NEW i \in Ids, Exists(i), Settled(rows[i].name)
                 PROVE  \E s \in Settings : fields[i] = {s}
      BY DEF FieldsKept
    <2>1. \A h \in Handlers : Busy(h) => handler[h].id # i
      BY DEF FieldInv, NameInv, Numbered, Settled, Active, About, Name
    <2> QED
      BY <2>1 DEF FieldInv, FieldsFilled, Settled
  <1> QED
    BY <1>1, Invariant, PTL
=============================================================================
