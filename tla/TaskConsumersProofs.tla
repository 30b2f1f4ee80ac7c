------------------------ MODULE TaskConsumersProofs ------------------------
(***************************************************************************)
(* Proofs about TaskConsumers, for every set of tasks, consumers and       *)
(* goroutines: what a pusher keeps when the requests about one task come   *)
(* one after the other, and that it is then the service TaskSubscription   *)
(* describes.                                                              *)
(***************************************************************************)
EXTENDS TaskConsumers, TLAPS

\* A handler's statements are those of its operation.
Program ==
    \A p \in Calls :
       /\ pc[p] \in {"find", "stop", "wait"} => req[p].op \in {"Stop", "Delete", "Start"}
       /\ pc[p] = "noteStop" => req[p].op \in {"Stop", "Start"}
       /\ pc[p] \in {"remove", "forget"} => req[p].op = "Delete"
       /\ pc[p] \in {"new", "put", "noteAdd"} => req[p].op \in {"Init", "Add", "Start"}
       /\ pc[p] \in {"findStart", "noteStart"} => req[p].op \in {"Add", "Start"}
       /\ pc[p] = "connect" => req[p].op \in {"Init", "Add", "Start"}
       /\ pc[p] \in {"known", "noteUpdate", "findUpdate", "change", "noteChange"} =>
             req[p].op = "Update"
       /\ \/ pc[p] = "noteStart"
          \/ pc[p] = "noteAdd" /\ req[p].op = "Init" /\ req[p].on
          => held[p] \in Consumers

\* The maps and the goroutines keep the consumers of different tasks apart.
OwnTask ==
    /\ \A t \in Tasks : taskConsumers[t] # None => TaskOf(taskConsumers[t]) = t
    /\ \A p \in Calls : held[p] # None => TaskOf(held[p]) = req[p].task
    /\ \A p \in Calls : held[p] # None =>
          \/ pc[p] \in {"remove", "stop", "wait", "put", "noteStart", "connect", "change"}
          \/ pc[p] = "noteAdd" /\ req[p].op = "Init" /\ req[p].on

\* Requests about one task come one after the other, Init's first.
OneCall ==
    /\ phase \in {"down", "boot"} => /\ \A t \in Tasks : taskConsumers[t] = None
                                    /\ \A p \in Calls : pc[p] = "idle"
    /\ \A p, q \in Calls, t \in Tasks : Busy(p, t) /\ Busy(q, t) => p = q
    /\ \A i \in toInit : /\ i.op = "Init"
                         /\ taskConsumers[i.task] = None
                         /\ \A p \in Calls : ~Busy(p, i.task)
                         /\ \A j \in toInit : j.task = i.task => j = i

\* Where a consumer that receives is found: in the map, or with the DeleteTask
\* that has taken it from there.
Owned ==
    \A c \in Consumers : stage[c] \in {"connected", "stopping"} =>
       \/ taskConsumers[TaskOf(c)] = c
       \/ \E p \in Calls : /\ pc[p] \in {"stop", "wait"}
                           /\ req[p].op = "Delete"
                           /\ held[p] = c

\* What a goroutine holds is what the map has.
Holds ==
    \A p \in Calls :
       /\ pc[p] = "remove" \/ (pc[p] \in {"stop", "wait"} /\ req[p].op # "Delete") =>
             held[p] = taskConsumers[req[p].task]
       /\ pc[p] \in {"stop", "wait"} /\ req[p].op = "Delete" =>
             taskConsumers[req[p].task] = None
       /\ pc[p] \in {"noteStart", "connect", "change"} => held[p] = taskConsumers[req[p].task]
       /\ pc[p] = "noteAdd" /\ req[p].op = "Init" /\ req[p].on =>
             held[p] = taskConsumers[req[p].task]

\* From the end of its StopTask to ConnectToNSQLookupds a task has no consumer
\* that receives, and none after its DeleteTask or StopTask.
Silent ==
    \A p \in Calls :
       \/ pc[p] \in {"noteStop", "forget", "new", "put", "noteAdd", "findStart",
                     "noteStart", "connect"}
       \/ pc[p] = "reply" /\ req[p].op \in StopOps
       => \A c \in Consumers :
             TaskOf(c) = req[p].task => stage[c] \notin {"connected", "stopping"}

\* The consumer that will be connected has the fields of its request.
Fresh ==
    \A p \in Calls :
       /\ pc[p] = "put" => flight[held[p]] = req[p].fields
       /\ pc[p] \in {"noteAdd", "findStart", "noteStart", "connect"} =>
             /\ taskConsumers[req[p].task] # None
             /\ flight[taskConsumers[req[p].task]] = req[p].fields
       /\ pc[p] \in {"findStart", "noteStart", "connect", "findUpdate", "change",
                     "noteChange"} => taskIdMap[req[p].task] = req[p].fields

\* Consumer and map agree, but for an update that has written the map alone.
Agreed ==
    \A c \in Consumers : stage[c] \in {"connected", "stopping"} =>
       /\ taskIdMap[TaskOf(c)] # None
       /\ \/ flight[c] = taskIdMap[TaskOf(c)]
          \/ \E p \in Calls : Busy(p, TaskOf(c)) /\ pc[p] \in {"findUpdate", "change"}

\* An update that is answered has reached the consumer.
Updated ==
    \A p \in Calls : pc[p] \in {"noteChange", "reply"} /\ req[p].op = "Update" =>
       \A c \in Consumers :
          TaskOf(c) = req[p].task /\ stage[c] \in {"connected", "stopping"} =>
             flight[c] = req[p].fields

\* A consumer stops on behalf of a handler that waits for it, or at the end.
Stopping ==
    /\ leaving # {} => phase = "stopping"
    /\ \A c \in Consumers : stage[c] = "stopping" =>
          \/ c \in leaving
          \/ \E p \in Calls : pc[p] = "wait" /\ held[p] = c

SerialInv ==
    /\ TypeOK /\ Program /\ OwnTask /\ OneCall /\ Owned
    /\ Holds /\ Silent /\ Fresh /\ Agreed /\ Updated /\ Stopping

-----------------------------------------------------------------------------
LEMMA TaskOfConsumer == \A c \in Consumers : TaskOf(c) \in Tasks
  BY DEF Consumers, TaskOf

\* Every step keeps the types and the order of each handler's statements.
LEMMA TypeStep ==
    ASSUME TypeOK, Program, [Next]_vars
    PROVE  TypeOK' /\ Program'
  <1> USE PAssumption, TaskOfConsumer DEF TypeOK, Labels, Ops, StopOps, Requests, Program
  <1>1. CASE Boot
    BY <1>1 DEF Boot
  <1>2. CASE LoadTasks
    <2>1. PICK known \in [Tasks -> Fields \cup {None}], started \in SUBSET Tasks :
              toInit' = {[op |-> "Init", task |-> t, fields |-> known[t], on |-> t \in started] :
                            t \in {u \in Tasks : known[u] # None}}
      BY <1>2 DEF LoadTasks
    <2>2. ASSUME NEW t \in Tasks, known[t] # None
          PROVE  [op |-> "Init", task |-> t, fields |-> known[t], on |-> t \in started] \in Requests
      <3>1. known[t] \in Fields /\ (t \in started) \in BOOLEAN
        BY <2>2
      <3> QED
        BY <3>1
    <2>3. toInit' \subseteq Requests
      <3>1. SUFFICES ASSUME NEW i \in toInit' PROVE i \in Requests
        OBVIOUS
      <3>2. PICK t \in Tasks : known[t] # None /\ i =
               [op |-> "Init", task |-> t, fields |-> known[t], on |-> t \in started]
        BY <2>1
      <3> QED
        BY <2>2, <3>2, Zenon
    <2> QED
      BY <1>2, <2>3 DEF LoadTasks
  <1>3. ASSUME NEW p \in Calls, NEW r \in toInit, InitTask(p, r) PROVE TypeOK' /\ Program'
    BY <1>3 DEF InitTask, Goto, FirstLabel
  <1>4. CASE InitDone
    BY <1>4 DEF InitDone
  <1>5. ASSUME NEW p \in Calls, NEW r \in Requests, r.op # "Init", Receive(p, r) PROVE TypeOK' /\ Program'
    BY <1>5 DEF Receive, Goto, process, FirstLabel, MayReceive
  <1>6. CASE ReceivePanics
    BY <1>6 DEF ReceivePanics, Die
  <1>7. ASSUME NEW p \in Calls, FindToStop(p) PROVE TypeOK' /\ Program'
    BY <1>7 DEF FindToStop, Goto, process
  <1>8. ASSUME NEW p \in Calls, RemoveEntry(p) PROVE TypeOK' /\ Program'
    BY <1>8 DEF RemoveEntry, Goto, process
  <1>9. ASSUME NEW p \in Calls, StopConsumer(p) PROVE TypeOK' /\ Program'
    BY <1>9 DEF StopConsumer, Goto, process, Stopped
  <1>10. ASSUME NEW p \in Calls, AwaitStop(p) PROVE TypeOK' /\ Program'
    BY <1>10 DEF AwaitStop, Goto, process
  <1>11. ASSUME NEW p \in Calls, ForgetTask(p) PROVE TypeOK' /\ Program'
    BY <1>11 DEF ForgetTask, Goto, process
  <1>12. ASSUME NEW p \in Calls, NoteTask(p) PROVE TypeOK' /\ Program'
    <2>1. CASE pc[p] = "noteStop"
      BY <1>12, <2>1 DEF NoteTask, Goto, process, AfterNote
    <2>2. CASE pc[p] = "noteAdd"
      BY <1>12, <2>2 DEF NoteTask, Goto, process, AfterNote
    <2>3. CASE pc[p] \in {"noteStart", "noteUpdate", "noteChange"}
      BY <1>12, <2>3 DEF NoteTask, Goto, process, AfterNote
    <2> QED
      BY <1>12, <2>1, <2>2, <2>3 DEF NoteTask
  <1>13. ASSUME NEW p \in Calls, NewConsumer(p) PROVE TypeOK' /\ Program'
    BY <1>13 DEF NewConsumer, Goto, process
  <1>14. ASSUME NEW p \in Calls, NewConsumerFails(p) PROVE TypeOK' /\ Program'
    BY <1>14 DEF NewConsumerFails, Goto, process
  <1>15. ASSUME NEW p \in Calls, PutEntry(p) PROVE TypeOK' /\ Program'
    BY <1>15 DEF PutEntry, Goto, process
  <1>16. ASSUME NEW p \in Calls, FindEntry(p) PROVE TypeOK' /\ Program'
    BY <1>16 DEF FindEntry, Goto, process
  <1>17. ASSUME NEW p \in Calls, StartConsume(p) PROVE TypeOK' /\ Program'
    BY <1>17 DEF StartConsume, Goto, process
  <1>18. ASSUME NEW p \in Calls, KnownTask(p) PROVE TypeOK' /\ Program'
    BY <1>18 DEF KnownTask, Goto, process
  <1>19. ASSUME NEW p \in Calls, ChangeConsume(p) PROVE TypeOK' /\ Program'
    BY <1>19 DEF ChangeConsume, Goto, process
  <1>20. ASSUME NEW p \in Calls, Respond(p) PROVE TypeOK' /\ Program'
    BY <1>20 DEF Respond, Goto, process
  <1>21. ASSUME NEW c \in Consumers, HandlersEnd(c) PROVE TypeOK' /\ Program'
    BY <1>21 DEF HandlersEnd, process
  <1>28. ASSUME NEW c \in Consumers, StopTimesOut(c) PROVE TypeOK' /\ Program'
    BY <1>28 DEF StopTimesOut, process
  <1>22. ASSUME NEW c \in Consumers, StopOnLeave(c) PROVE TypeOK' /\ Program'
    BY <1>22 DEF StopOnLeave, process, Stopped
  <1>23. CASE StopAllTask
    BY <1>23 DEF StopAllTask
  <1>24. CASE Exit
    BY <1>24 DEF Exit, Die
  <1>25. CASE Crash
    BY <1>25 DEF Crash, Die
  <1>26. CASE UNCHANGED vars
    BY <1>26 DEF vars
  <1>27. QED
    BY <1>1, <1>2, <1>3, <1>4, <1>5, <1>6, <1>7, <1>8, <1>9, <1>10, <1>11, <1>12, <1>13,
       <1>14, <1>15, <1>16, <1>17, <1>18, <1>19, <1>20, <1>21, <1>22, <1>23, <1>24, <1>25, <1>26, <1>28 DEF Next, Step

\* Consumers stay with their tasks.
LEMMA OwnTaskStep ==
    ASSUME TypeOK, Program, OwnTask, [Next]_vars
    PROVE  OwnTask'
  <1> USE PAssumption, TaskOfConsumer DEF TypeOK, Labels, Ops, StopOps, Requests, Program, OwnTask
  <1>1. CASE Boot
    BY <1>1 DEF Boot
  <1>2. CASE LoadTasks
    BY <1>2 DEF LoadTasks
  <1>3. ASSUME NEW p \in Calls, NEW r \in toInit, InitTask(p, r) PROVE OwnTask'
    BY <1>3 DEF InitTask, Goto, FirstLabel
  <1>4. CASE InitDone
    BY <1>4 DEF InitDone
  <1>5. ASSUME NEW p \in Calls, NEW r \in Requests, r.op # "Init", Receive(p, r) PROVE OwnTask'
    BY <1>5 DEF Receive, Goto, process, FirstLabel, MayReceive
  <1>6. CASE ReceivePanics
    BY <1>6 DEF ReceivePanics, Die
  <1>7. ASSUME NEW p \in Calls, FindToStop(p) PROVE OwnTask'
    BY <1>7 DEF FindToStop, Goto, process
  <1>8. ASSUME NEW p \in Calls, RemoveEntry(p) PROVE OwnTask'
    BY <1>8 DEF RemoveEntry, Goto, process
  <1>9. ASSUME NEW p \in Calls, StopConsumer(p) PROVE OwnTask'
    BY <1>9 DEF StopConsumer, Goto, process, Stopped
  <1>10. ASSUME NEW p \in Calls, AwaitStop(p) PROVE OwnTask'
    BY <1>10 DEF AwaitStop, Goto, process
  <1>11. ASSUME NEW p \in Calls, ForgetTask(p) PROVE OwnTask'
    BY <1>11 DEF ForgetTask, Goto, process
  <1>12. ASSUME NEW p \in Calls, NoteTask(p) PROVE OwnTask'
    BY <1>12 DEF NoteTask, Goto, process, AfterNote
  <1>13. ASSUME NEW p \in Calls, NewConsumer(p) PROVE OwnTask'
    BY <1>13 DEF NewConsumer, Goto, process
  <1>14. ASSUME NEW p \in Calls, NewConsumerFails(p) PROVE OwnTask'
    BY <1>14 DEF NewConsumerFails, Goto, process
  <1>15. ASSUME NEW p \in Calls, PutEntry(p) PROVE OwnTask'
    BY <1>15 DEF PutEntry, Goto, process
  <1>16. ASSUME NEW p \in Calls, FindEntry(p) PROVE OwnTask'
    BY <1>16 DEF FindEntry, Goto, process
  <1>17. ASSUME NEW p \in Calls, StartConsume(p) PROVE OwnTask'
    BY <1>17 DEF StartConsume, Goto, process
  <1>18. ASSUME NEW p \in Calls, KnownTask(p) PROVE OwnTask'
    BY <1>18 DEF KnownTask, Goto, process
  <1>19. ASSUME NEW p \in Calls, ChangeConsume(p) PROVE OwnTask'
    BY <1>19 DEF ChangeConsume, Goto, process
  <1>20. ASSUME NEW p \in Calls, Respond(p) PROVE OwnTask'
    BY <1>20 DEF Respond, Goto, process
  <1>21. ASSUME NEW c \in Consumers, HandlersEnd(c) PROVE OwnTask'
    BY <1>21 DEF HandlersEnd, process
  <1>28. ASSUME NEW c \in Consumers, StopTimesOut(c) PROVE OwnTask'
    BY <1>28 DEF StopTimesOut, process
  <1>22. ASSUME NEW c \in Consumers, StopOnLeave(c) PROVE OwnTask'
    BY <1>22 DEF StopOnLeave, process, Stopped
  <1>23. CASE StopAllTask
    BY <1>23 DEF StopAllTask
  <1>24. CASE Exit
    BY <1>24 DEF Exit, Die
  <1>25. CASE Crash
    BY <1>25 DEF Crash, Die
  <1>26. CASE UNCHANGED vars
    BY <1>26 DEF vars
  <1>27. QED
    BY <1>1, <1>2, <1>3, <1>4, <1>5, <1>6, <1>7, <1>8, <1>9, <1>10, <1>11, <1>12, <1>13,
       <1>14, <1>15, <1>16, <1>17, <1>18, <1>19, <1>20, <1>21, <1>22, <1>23, <1>24, <1>25, <1>26, <1>28 DEF Next, Step

\* Requests that come one after the other never share a task.
LEMMA OneCallStep ==
    ASSUME ~Overlap, TypeOK, Program, OneCall, [Next]_vars
    PROVE  OneCall'
  <1> USE PAssumption, TaskOfConsumer DEF TypeOK, Labels, Ops, StopOps, Requests, Busy, Program, OneCall
  <1>1. CASE Boot
    BY <1>1 DEF Boot
  <1>2. CASE LoadTasks
    <2>1. PICK known \in [Tasks -> Fields \cup {None}], started \in SUBSET Tasks :
              toInit' = {[op |-> "Init", task |-> t, fields |-> known[t], on |-> t \in started] :
                            t \in {u \in Tasks : known[u] # None}}
      BY <1>2 DEF LoadTasks
    <2>2. \A i \in toInit' : i.op = "Init" /\ i.task \in Tasks /\ \A j \in toInit' : j.task = i.task => j = i
      BY <2>1
    <2>3. UNCHANGED <<taskConsumers, pc, req>> /\ phase = "boot" /\ phase' = "init"
      BY <1>2 DEF LoadTasks
    <2> QED
      BY <2>2, <2>3
  <1>3. ASSUME NEW p \in Calls, NEW r \in toInit, InitTask(p, r) PROVE OneCall'
    BY <1>3 DEF InitTask, Goto, FirstLabel
  <1>4. CASE InitDone
    BY <1>4 DEF InitDone
  <1>5. ASSUME NEW p \in Calls, NEW r \in Requests, r.op # "Init", Receive(p, r) PROVE OneCall'
    BY <1>5 DEF Receive, Goto, process, FirstLabel, MayReceive
  <1>6. CASE ReceivePanics
    BY <1>6 DEF ReceivePanics, Die
  <1>7. ASSUME NEW p \in Calls, FindToStop(p) PROVE OneCall'
    BY <1>7 DEF FindToStop, Goto, process
  <1>8. ASSUME NEW p \in Calls, RemoveEntry(p) PROVE OneCall'
    BY <1>8 DEF RemoveEntry, Goto, process
  <1>9. ASSUME NEW p \in Calls, StopConsumer(p) PROVE OneCall'
    BY <1>9 DEF StopConsumer, Goto, process, Stopped
  <1>10. ASSUME NEW p \in Calls, AwaitStop(p) PROVE OneCall'
    BY <1>10 DEF AwaitStop, Goto, process
  <1>11. ASSUME NEW p \in Calls, ForgetTask(p) PROVE OneCall'
    BY <1>11 DEF ForgetTask, Goto, process
  <1>12. ASSUME NEW p \in Calls, NoteTask(p) PROVE OneCall'
    BY <1>12 DEF NoteTask, Goto, process, AfterNote
  <1>13. ASSUME NEW p \in Calls, NewConsumer(p) PROVE OneCall'
    BY <1>13 DEF NewConsumer, Goto, process
  <1>14. ASSUME NEW p \in Calls, NewConsumerFails(p) PROVE OneCall'
    BY <1>14 DEF NewConsumerFails, Goto, process
  <1>15. ASSUME NEW p \in Calls, PutEntry(p) PROVE OneCall'
    BY <1>15 DEF PutEntry, Goto, process
  <1>16. ASSUME NEW p \in Calls, FindEntry(p) PROVE OneCall'
    BY <1>16 DEF FindEntry, Goto, process
  <1>17. ASSUME NEW p \in Calls, StartConsume(p) PROVE OneCall'
    BY <1>17 DEF StartConsume, Goto, process
  <1>18. ASSUME NEW p \in Calls, KnownTask(p) PROVE OneCall'
    BY <1>18 DEF KnownTask, Goto, process
  <1>19. ASSUME NEW p \in Calls, ChangeConsume(p) PROVE OneCall'
    BY <1>19 DEF ChangeConsume, Goto, process
  <1>20. ASSUME NEW p \in Calls, Respond(p) PROVE OneCall'
    BY <1>20 DEF Respond, Goto, process
  <1>21. ASSUME NEW c \in Consumers, HandlersEnd(c) PROVE OneCall'
    BY <1>21 DEF HandlersEnd, process
  <1>28. ASSUME NEW c \in Consumers, StopTimesOut(c) PROVE OneCall'
    BY <1>28 DEF StopTimesOut, process
  <1>22. ASSUME NEW c \in Consumers, StopOnLeave(c) PROVE OneCall'
    BY <1>22 DEF StopOnLeave, process, Stopped
  <1>23. CASE StopAllTask
    BY <1>23 DEF StopAllTask
  <1>24. CASE Exit
    BY <1>24 DEF Exit, Die
  <1>25. CASE Crash
    BY <1>25 DEF Crash, Die
  <1>26. CASE UNCHANGED vars
    BY <1>26 DEF vars
  <1>27. QED
    BY <1>1, <1>2, <1>3, <1>4, <1>5, <1>6, <1>7, <1>8, <1>9, <1>10, <1>11, <1>12, <1>13,
       <1>14, <1>15, <1>16, <1>17, <1>18, <1>19, <1>20, <1>21, <1>22, <1>23, <1>24, <1>25, <1>26, <1>28 DEF Next, Step

\* Nobody changes the entry a goroutine relies on.
LEMMA HoldsStep ==
    ASSUME TypeOK, Program, OwnTask, OneCall, Holds, [Next]_vars
    PROVE  Holds'
  <1> USE PAssumption, TaskOfConsumer DEF TypeOK, Labels, Ops, StopOps, Requests, Busy, Program, OwnTask, OneCall, Holds
  <1>1. CASE Boot
    BY <1>1 DEF Boot
  <1>2. CASE LoadTasks
    BY <1>2 DEF LoadTasks
  <1>3. ASSUME NEW p \in Calls, NEW r \in toInit, InitTask(p, r) PROVE Holds'
    BY <1>3 DEF InitTask, Goto, FirstLabel
  <1>4. CASE InitDone
    BY <1>4 DEF InitDone
  <1>5. ASSUME NEW p \in Calls, NEW r \in Requests, r.op # "Init", Receive(p, r) PROVE Holds'
    BY <1>5 DEF Receive, Goto, process, FirstLabel, MayReceive
  <1>6. CASE ReceivePanics
    BY <1>6 DEF ReceivePanics, Die
  <1>7. ASSUME NEW p \in Calls, FindToStop(p) PROVE Holds'
    BY <1>7 DEF FindToStop, Goto, process
  <1>8. ASSUME NEW p \in Calls, RemoveEntry(p) PROVE Holds'
    BY <1>8 DEF RemoveEntry, Goto, process
  <1>9. ASSUME NEW p \in Calls, StopConsumer(p) PROVE Holds'
    BY <1>9 DEF StopConsumer, Goto, process, Stopped
  <1>10. ASSUME NEW p \in Calls, AwaitStop(p) PROVE Holds'
    BY <1>10 DEF AwaitStop, Goto, process
  <1>11. ASSUME NEW p \in Calls, ForgetTask(p) PROVE Holds'
    BY <1>11 DEF ForgetTask, Goto, process
  <1>12. ASSUME NEW p \in Calls, NoteTask(p) PROVE Holds'
    BY <1>12 DEF NoteTask, Goto, process, AfterNote
  <1>13. ASSUME NEW p \in Calls, NewConsumer(p) PROVE Holds'
    BY <1>13 DEF NewConsumer, Goto, process
  <1>14. ASSUME NEW p \in Calls, NewConsumerFails(p) PROVE Holds'
    BY <1>14 DEF NewConsumerFails, Goto, process
  <1>15. ASSUME NEW p \in Calls, PutEntry(p) PROVE Holds'
    BY <1>15 DEF PutEntry, Goto, process
  <1>16. ASSUME NEW p \in Calls, FindEntry(p) PROVE Holds'
    BY <1>16 DEF FindEntry, Goto, process
  <1>17. ASSUME NEW p \in Calls, StartConsume(p) PROVE Holds'
    BY <1>17 DEF StartConsume, Goto, process
  <1>18. ASSUME NEW p \in Calls, KnownTask(p) PROVE Holds'
    BY <1>18 DEF KnownTask, Goto, process
  <1>19. ASSUME NEW p \in Calls, ChangeConsume(p) PROVE Holds'
    BY <1>19 DEF ChangeConsume, Goto, process
  <1>20. ASSUME NEW p \in Calls, Respond(p) PROVE Holds'
    BY <1>20 DEF Respond, Goto, process
  <1>21. ASSUME NEW c \in Consumers, HandlersEnd(c) PROVE Holds'
    BY <1>21 DEF HandlersEnd, process
  <1>28. ASSUME NEW c \in Consumers, StopTimesOut(c) PROVE Holds'
    BY <1>28 DEF StopTimesOut, process
  <1>22. ASSUME NEW c \in Consumers, StopOnLeave(c) PROVE Holds'
    BY <1>22 DEF StopOnLeave, process, Stopped
  <1>23. CASE StopAllTask
    BY <1>23 DEF StopAllTask
  <1>24. CASE Exit
    BY <1>24 DEF Exit, Die
  <1>25. CASE Crash
    BY <1>25 DEF Crash, Die
  <1>26. CASE UNCHANGED vars
    BY <1>26 DEF vars
  <1>27. QED
    BY <1>1, <1>2, <1>3, <1>4, <1>5, <1>6, <1>7, <1>8, <1>9, <1>10, <1>11, <1>12, <1>13,
       <1>14, <1>15, <1>16, <1>17, <1>18, <1>19, <1>20, <1>21, <1>22, <1>23, <1>24, <1>25, <1>26, <1>28 DEF Next, Step

\* No step loses a consumer that receives.
LEMMA OwnedStep ==
    ASSUME TypeOK, Program, OwnTask, OneCall, Holds, Silent, Owned, [Next]_vars
    PROVE  Owned'
  <1> USE PAssumption, TaskOfConsumer DEF TypeOK, Labels, Ops, StopOps, Requests, Busy, Program, OwnTask, OneCall, Holds, Silent, Owned, Free
  <1>1. CASE Boot
    BY <1>1 DEF Boot
  <1>2. CASE LoadTasks
    BY <1>2 DEF LoadTasks
  <1>3. ASSUME NEW p \in Calls, NEW r \in toInit, InitTask(p, r) PROVE Owned'
    BY <1>3 DEF InitTask, Goto, FirstLabel
  <1>4. CASE InitDone
    BY <1>4 DEF InitDone
  <1>5. ASSUME NEW p \in Calls, NEW r \in Requests, r.op # "Init", Receive(p, r) PROVE Owned'
    BY <1>5 DEF Receive, Goto, process, FirstLabel, MayReceive
  <1>6. CASE ReceivePanics
    BY <1>6 DEF ReceivePanics, Die
  <1>7. ASSUME NEW p \in Calls, FindToStop(p) PROVE Owned'
    BY <1>7 DEF FindToStop, Goto, process
  <1>8. ASSUME NEW p \in Calls, RemoveEntry(p) PROVE Owned'
    BY <1>8 DEF RemoveEntry, Goto, process
  <1>9. ASSUME NEW p \in Calls, StopConsumer(p) PROVE Owned'
    BY <1>9 DEF StopConsumer, Goto, process, Stopped
  <1>10. ASSUME NEW p \in Calls, AwaitStop(p) PROVE Owned'
    BY <1>10 DEF AwaitStop, Goto, process
  <1>11. ASSUME NEW p \in Calls, ForgetTask(p) PROVE Owned'
    BY <1>11 DEF ForgetTask, Goto, process
  <1>12. ASSUME NEW p \in Calls, NoteTask(p) PROVE Owned'
    BY <1>12 DEF NoteTask, Goto, process, AfterNote
  <1>13. ASSUME NEW p \in Calls, NewConsumer(p) PROVE Owned'
    BY <1>13 DEF NewConsumer, Goto, process
  <1>14. ASSUME NEW p \in Calls, NewConsumerFails(p) PROVE Owned'
    BY <1>14 DEF NewConsumerFails, Goto, process
  <1>15. ASSUME NEW p \in Calls, PutEntry(p) PROVE Owned'
    BY <1>15 DEF PutEntry, Goto, process
  <1>16. ASSUME NEW p \in Calls, FindEntry(p) PROVE Owned'
    BY <1>16 DEF FindEntry, Goto, process
  <1>17. ASSUME NEW p \in Calls, StartConsume(p) PROVE Owned'
    BY <1>17 DEF StartConsume, Goto, process
  <1>18. ASSUME NEW p \in Calls, KnownTask(p) PROVE Owned'
    BY <1>18 DEF KnownTask, Goto, process
  <1>19. ASSUME NEW p \in Calls, ChangeConsume(p) PROVE Owned'
    BY <1>19 DEF ChangeConsume, Goto, process
  <1>20. ASSUME NEW p \in Calls, Respond(p) PROVE Owned'
    BY <1>20 DEF Respond, Goto, process
  <1>21. ASSUME NEW c \in Consumers, HandlersEnd(c) PROVE Owned'
    BY <1>21 DEF HandlersEnd, process
  <1>28. ASSUME NEW c \in Consumers, StopTimesOut(c) PROVE Owned'
    BY <1>28 DEF StopTimesOut, process
  <1>22. ASSUME NEW c \in Consumers, StopOnLeave(c) PROVE Owned'
    BY <1>22 DEF StopOnLeave, process, Stopped
  <1>23. CASE StopAllTask
    BY <1>23 DEF StopAllTask
  <1>24. CASE Exit
    BY <1>24 DEF Exit, Die
  <1>25. CASE Crash
    BY <1>25 DEF Crash, Die
  <1>26. CASE UNCHANGED vars
    BY <1>26 DEF vars
  <1>27. QED
    BY <1>1, <1>2, <1>3, <1>4, <1>5, <1>6, <1>7, <1>8, <1>9, <1>10, <1>11, <1>12, <1>13,
       <1>14, <1>15, <1>16, <1>17, <1>18, <1>19, <1>20, <1>21, <1>22, <1>23, <1>24, <1>25, <1>26, <1>28 DEF Next, Step

\* Nobody lets a consumer receive while another goroutine restarts its task.
LEMMA SilentStep ==
    ASSUME ~Overlap, TypeOK, Program, OwnTask, OneCall, Holds, Owned, Silent, [Next]_vars
    PROVE  Silent'
  <1> USE PAssumption, TaskOfConsumer DEF TypeOK, Labels, Ops, StopOps, Requests, Busy, Program, OwnTask, OneCall, Holds, Owned, Silent, Free
  <1>1. CASE Boot
    BY <1>1 DEF Boot
  <1>2. CASE LoadTasks
    BY <1>2 DEF LoadTasks
  <1>3. ASSUME NEW p \in Calls, NEW r \in toInit, InitTask(p, r) PROVE Silent'
    BY <1>3 DEF InitTask, Goto, FirstLabel
  <1>4. CASE InitDone
    BY <1>4 DEF InitDone
  <1>5. ASSUME NEW p \in Calls, NEW r \in Requests, r.op # "Init", Receive(p, r) PROVE Silent'
    BY <1>5 DEF Receive, Goto, process, FirstLabel, MayReceive
  <1>6. CASE ReceivePanics
    BY <1>6 DEF ReceivePanics, Die
  <1>7. ASSUME NEW p \in Calls, FindToStop(p) PROVE Silent'
    BY <1>7 DEF FindToStop, Goto, process
  <1>8. ASSUME NEW p \in Calls, RemoveEntry(p) PROVE Silent'
    BY <1>8 DEF RemoveEntry, Goto, process
  <1>9. ASSUME NEW p \in Calls, StopConsumer(p) PROVE Silent'
    BY <1>9 DEF StopConsumer, Goto, process, Stopped
  <1>10. ASSUME NEW p \in Calls, AwaitStop(p) PROVE Silent'
    BY <1>10 DEF AwaitStop, Goto, process
  <1>11. ASSUME NEW p \in Calls, ForgetTask(p) PROVE Silent'
    BY <1>11 DEF ForgetTask, Goto, process
  <1>12. ASSUME NEW p \in Calls, NoteTask(p) PROVE Silent'
    BY <1>12 DEF NoteTask, Goto, process, AfterNote
  <1>13. ASSUME NEW p \in Calls, NewConsumer(p) PROVE Silent'
    BY <1>13 DEF NewConsumer, Goto, process
  <1>14. ASSUME NEW p \in Calls, NewConsumerFails(p) PROVE Silent'
    BY <1>14 DEF NewConsumerFails, Goto, process
  <1>15. ASSUME NEW p \in Calls, PutEntry(p) PROVE Silent'
    BY <1>15 DEF PutEntry, Goto, process
  <1>16. ASSUME NEW p \in Calls, FindEntry(p) PROVE Silent'
    BY <1>16 DEF FindEntry, Goto, process
  <1>17. ASSUME NEW p \in Calls, StartConsume(p) PROVE Silent'
    BY <1>17 DEF StartConsume, Goto, process
  <1>18. ASSUME NEW p \in Calls, KnownTask(p) PROVE Silent'
    BY <1>18 DEF KnownTask, Goto, process
  <1>19. ASSUME NEW p \in Calls, ChangeConsume(p) PROVE Silent'
    BY <1>19 DEF ChangeConsume, Goto, process
  <1>20. ASSUME NEW p \in Calls, Respond(p) PROVE Silent'
    BY <1>20 DEF Respond, Goto, process
  <1>21. ASSUME NEW c \in Consumers, HandlersEnd(c) PROVE Silent'
    BY <1>21 DEF HandlersEnd, process
  <1>28. ASSUME NEW c \in Consumers, StopTimesOut(c) PROVE Silent'
    BY <1>28 DEF StopTimesOut, process
  <1>22. ASSUME NEW c \in Consumers, StopOnLeave(c) PROVE Silent'
    BY <1>22 DEF StopOnLeave, process, Stopped
  <1>23. CASE StopAllTask
    BY <1>23 DEF StopAllTask
  <1>24. CASE Exit
    BY <1>24 DEF Exit, Die
  <1>25. CASE Crash
    BY <1>25 DEF Crash, Die
  <1>26. CASE UNCHANGED vars
    BY <1>26 DEF vars
  <1>27. QED
    BY <1>1, <1>2, <1>3, <1>4, <1>5, <1>6, <1>7, <1>8, <1>9, <1>10, <1>11, <1>12, <1>13,
       <1>14, <1>15, <1>16, <1>17, <1>18, <1>19, <1>20, <1>21, <1>22, <1>23, <1>24, <1>25, <1>26, <1>28 DEF Next, Step

\* A request's fields reach the map and the consumer together.
LEMMA FreshStep ==
    ASSUME TypeOK, Program, OwnTask, OneCall, Holds, Fresh, [Next]_vars
    PROVE  Fresh'
  <1> USE PAssumption, TaskOfConsumer DEF TypeOK, Labels, Ops, StopOps, Requests, Busy, Program, OwnTask, OneCall, Holds, Fresh, Free
  <1>1. CASE Boot
    BY <1>1 DEF Boot
  <1>2. CASE LoadTasks
    BY <1>2 DEF LoadTasks
  <1>3. ASSUME NEW p \in Calls, NEW r \in toInit, InitTask(p, r) PROVE Fresh'
    BY <1>3 DEF InitTask, Goto, FirstLabel
  <1>4. CASE InitDone
    BY <1>4 DEF InitDone
  <1>5. ASSUME NEW p \in Calls, NEW r \in Requests, r.op # "Init", Receive(p, r) PROVE Fresh'
    BY <1>5 DEF Receive, Goto, process, FirstLabel, MayReceive
  <1>6. CASE ReceivePanics
    BY <1>6 DEF ReceivePanics, Die
  <1>7. ASSUME NEW p \in Calls, FindToStop(p) PROVE Fresh'
    BY <1>7 DEF FindToStop, Goto, process
  <1>8. ASSUME NEW p \in Calls, RemoveEntry(p) PROVE Fresh'
    BY <1>8 DEF RemoveEntry, Goto, process
  <1>9. ASSUME NEW p \in Calls, StopConsumer(p) PROVE Fresh'
    BY <1>9 DEF StopConsumer, Goto, process, Stopped
  <1>10. ASSUME NEW p \in Calls, AwaitStop(p) PROVE Fresh'
    BY <1>10 DEF AwaitStop, Goto, process
  <1>11. ASSUME NEW p \in Calls, ForgetTask(p) PROVE Fresh'
    BY <1>11 DEF ForgetTask, Goto, process
  <1>12. ASSUME NEW p \in Calls, NoteTask(p) PROVE Fresh'
    BY <1>12 DEF NoteTask, Goto, process, AfterNote
  <1>13. ASSUME NEW p \in Calls, NewConsumer(p) PROVE Fresh'
    BY <1>13 DEF NewConsumer, Goto, process
  <1>14. ASSUME NEW p \in Calls, NewConsumerFails(p) PROVE Fresh'
    BY <1>14 DEF NewConsumerFails, Goto, process
  <1>15. ASSUME NEW p \in Calls, PutEntry(p) PROVE Fresh'
    BY <1>15 DEF PutEntry, Goto, process
  <1>16. ASSUME NEW p \in Calls, FindEntry(p) PROVE Fresh'
    BY <1>16 DEF FindEntry, Goto, process
  <1>17. ASSUME NEW p \in Calls, StartConsume(p) PROVE Fresh'
    BY <1>17 DEF StartConsume, Goto, process
  <1>18. ASSUME NEW p \in Calls, KnownTask(p) PROVE Fresh'
    BY <1>18 DEF KnownTask, Goto, process
  <1>19. ASSUME NEW p \in Calls, ChangeConsume(p) PROVE Fresh'
    BY <1>19 DEF ChangeConsume, Goto, process
  <1>20. ASSUME NEW p \in Calls, Respond(p) PROVE Fresh'
    BY <1>20 DEF Respond, Goto, process
  <1>21. ASSUME NEW c \in Consumers, HandlersEnd(c) PROVE Fresh'
    BY <1>21 DEF HandlersEnd, process
  <1>28. ASSUME NEW c \in Consumers, StopTimesOut(c) PROVE Fresh'
    BY <1>28 DEF StopTimesOut, process
  <1>22. ASSUME NEW c \in Consumers, StopOnLeave(c) PROVE Fresh'
    BY <1>22 DEF StopOnLeave, process, Stopped
  <1>23. CASE StopAllTask
    BY <1>23 DEF StopAllTask
  <1>24. CASE Exit
    BY <1>24 DEF Exit, Die
  <1>25. CASE Crash
    BY <1>25 DEF Crash, Die
  <1>26. CASE UNCHANGED vars
    BY <1>26 DEF vars
  <1>27. QED
    BY <1>1, <1>2, <1>3, <1>4, <1>5, <1>6, <1>7, <1>8, <1>9, <1>10, <1>11, <1>12, <1>13,
       <1>14, <1>15, <1>16, <1>17, <1>18, <1>19, <1>20, <1>21, <1>22, <1>23, <1>24, <1>25, <1>26, <1>28 DEF Next, Step

\* Map and consumer part only while an update is under way.
LEMMA AgreedStep ==
    ASSUME TypeOK, Program, OwnTask, OneCall, Holds, Owned, Silent, Fresh, Agreed, [Next]_vars
    PROVE  Agreed'
  <1> USE PAssumption, TaskOfConsumer DEF TypeOK, Labels, Ops, StopOps, Requests, Busy, Program, OwnTask, OneCall, Holds, Owned, Silent, Fresh, Agreed, Free
  <1>1. CASE Boot
    BY <1>1 DEF Boot
  <1>2. CASE LoadTasks
    BY <1>2 DEF LoadTasks
  <1>3. ASSUME NEW p \in Calls, NEW r \in toInit, InitTask(p, r) PROVE Agreed'
    BY <1>3 DEF InitTask, Goto, FirstLabel
  <1>4. CASE InitDone
    BY <1>4 DEF InitDone
  <1>5. ASSUME NEW p \in Calls, NEW r \in Requests, r.op # "Init", Receive(p, r) PROVE Agreed'
    BY <1>5 DEF Receive, Goto, process, FirstLabel, MayReceive
  <1>6. CASE ReceivePanics
    BY <1>6 DEF ReceivePanics, Die
  <1>7. ASSUME NEW p \in Calls, FindToStop(p) PROVE Agreed'
    BY <1>7 DEF FindToStop, Goto, process
  <1>8. ASSUME NEW p \in Calls, RemoveEntry(p) PROVE Agreed'
    BY <1>8 DEF RemoveEntry, Goto, process
  <1>9. ASSUME NEW p \in Calls, StopConsumer(p) PROVE Agreed'
    BY <1>9 DEF StopConsumer, Goto, process, Stopped
  <1>10. ASSUME NEW p \in Calls, AwaitStop(p) PROVE Agreed'
    BY <1>10 DEF AwaitStop, Goto, process
  <1>11. ASSUME NEW p \in Calls, ForgetTask(p) PROVE Agreed'
    BY <1>11 DEF ForgetTask, Goto, process
  <1>12. ASSUME NEW p \in Calls, NoteTask(p) PROVE Agreed'
    BY <1>12 DEF NoteTask, Goto, process, AfterNote
  <1>13. ASSUME NEW p \in Calls, NewConsumer(p) PROVE Agreed'
    BY <1>13 DEF NewConsumer, Goto, process
  <1>14. ASSUME NEW p \in Calls, NewConsumerFails(p) PROVE Agreed'
    BY <1>14 DEF NewConsumerFails, Goto, process
  <1>15. ASSUME NEW p \in Calls, PutEntry(p) PROVE Agreed'
    BY <1>15 DEF PutEntry, Goto, process
  <1>16. ASSUME NEW p \in Calls, FindEntry(p) PROVE Agreed'
    BY <1>16 DEF FindEntry, Goto, process
  <1>17. ASSUME NEW p \in Calls, StartConsume(p) PROVE Agreed'
    BY <1>17 DEF StartConsume, Goto, process
  <1>18. ASSUME NEW p \in Calls, KnownTask(p) PROVE Agreed'
    BY <1>18 DEF KnownTask, Goto, process
  <1>19. ASSUME NEW p \in Calls, ChangeConsume(p) PROVE Agreed'
    BY <1>19 DEF ChangeConsume, Goto, process
  <1>20. ASSUME NEW p \in Calls, Respond(p) PROVE Agreed'
    BY <1>20 DEF Respond, Goto, process
  <1>21. ASSUME NEW c \in Consumers, HandlersEnd(c) PROVE Agreed'
    BY <1>21 DEF HandlersEnd, process
  <1>28. ASSUME NEW c \in Consumers, StopTimesOut(c) PROVE Agreed'
    BY <1>28 DEF StopTimesOut, process
  <1>22. ASSUME NEW c \in Consumers, StopOnLeave(c) PROVE Agreed'
    BY <1>22 DEF StopOnLeave, process, Stopped
  <1>23. CASE StopAllTask
    BY <1>23 DEF StopAllTask
  <1>24. CASE Exit
    BY <1>24 DEF Exit, Die
  <1>25. CASE Crash
    BY <1>25 DEF Crash, Die
  <1>26. CASE UNCHANGED vars
    BY <1>26 DEF vars
  <1>27. QED
    BY <1>1, <1>2, <1>3, <1>4, <1>5, <1>6, <1>7, <1>8, <1>9, <1>10, <1>11, <1>12, <1>13,
       <1>14, <1>15, <1>16, <1>17, <1>18, <1>19, <1>20, <1>21, <1>22, <1>23, <1>24, <1>25, <1>26, <1>28 DEF Next, Step

\* Nobody changes a consumer after the update that is about to be answered.
LEMMA UpdatedStep ==
    ASSUME TypeOK, Program, OwnTask, OneCall, Holds, Owned, Silent, Fresh, Agreed, Updated, [Next]_vars
    PROVE  Updated'
  <1> USE PAssumption, TaskOfConsumer DEF TypeOK, Labels, Ops, StopOps, Requests, Busy, Program, OwnTask, OneCall, Holds, Owned, Silent, Fresh, Agreed, Updated, Free
  <1>1. CASE Boot
    BY <1>1 DEF Boot
  <1>2. CASE LoadTasks
    BY <1>2 DEF LoadTasks
  <1>3. ASSUME NEW p \in Calls, NEW r \in toInit, InitTask(p, r) PROVE Updated'
    BY <1>3 DEF InitTask, Goto, FirstLabel
  <1>4. CASE InitDone
    BY <1>4 DEF InitDone
  <1>5. ASSUME NEW p \in Calls, NEW r \in Requests, r.op # "Init", Receive(p, r) PROVE Updated'
    BY <1>5 DEF Receive, Goto, process, FirstLabel, MayReceive
  <1>6. CASE ReceivePanics
    BY <1>6 DEF ReceivePanics, Die
  <1>7. ASSUME NEW p \in Calls, FindToStop(p) PROVE Updated'
    BY <1>7 DEF FindToStop, Goto, process
  <1>8. ASSUME NEW p \in Calls, RemoveEntry(p) PROVE Updated'
    BY <1>8 DEF RemoveEntry, Goto, process
  <1>9. ASSUME NEW p \in Calls, StopConsumer(p) PROVE Updated'
    BY <1>9 DEF StopConsumer, Goto, process, Stopped
  <1>10. ASSUME NEW p \in Calls, AwaitStop(p) PROVE Updated'
    BY <1>10 DEF AwaitStop, Goto, process
  <1>11. ASSUME NEW p \in Calls, ForgetTask(p) PROVE Updated'
    BY <1>11 DEF ForgetTask, Goto, process
  <1>12. ASSUME NEW p \in Calls, NoteTask(p) PROVE Updated'
    BY <1>12 DEF NoteTask, Goto, process, AfterNote
  <1>13. ASSUME NEW p \in Calls, NewConsumer(p) PROVE Updated'
    BY <1>13 DEF NewConsumer, Goto, process
  <1>14. ASSUME NEW p \in Calls, NewConsumerFails(p) PROVE Updated'
    BY <1>14 DEF NewConsumerFails, Goto, process
  <1>15. ASSUME NEW p \in Calls, PutEntry(p) PROVE Updated'
    BY <1>15 DEF PutEntry, Goto, process
  <1>16. ASSUME NEW p \in Calls, FindEntry(p) PROVE Updated'
    BY <1>16 DEF FindEntry, Goto, process
  <1>17. ASSUME NEW p \in Calls, StartConsume(p) PROVE Updated'
    BY <1>17 DEF StartConsume, Goto, process
  <1>18. ASSUME NEW p \in Calls, KnownTask(p) PROVE Updated'
    BY <1>18 DEF KnownTask, Goto, process
  <1>19. ASSUME NEW p \in Calls, ChangeConsume(p) PROVE Updated'
    BY <1>19 DEF ChangeConsume, Goto, process
  <1>20. ASSUME NEW p \in Calls, Respond(p) PROVE Updated'
    BY <1>20 DEF Respond, Goto, process
  <1>21. ASSUME NEW c \in Consumers, HandlersEnd(c) PROVE Updated'
    BY <1>21 DEF HandlersEnd, process
  <1>28. ASSUME NEW c \in Consumers, StopTimesOut(c) PROVE Updated'
    BY <1>28 DEF StopTimesOut, process
  <1>22. ASSUME NEW c \in Consumers, StopOnLeave(c) PROVE Updated'
    BY <1>22 DEF StopOnLeave, process, Stopped
  <1>23. CASE StopAllTask
    BY <1>23 DEF StopAllTask
  <1>24. CASE Exit
    BY <1>24 DEF Exit, Die
  <1>25. CASE Crash
    BY <1>25 DEF Crash, Die
  <1>26. CASE UNCHANGED vars
    BY <1>26 DEF vars
  <1>27. QED
    BY <1>1, <1>2, <1>3, <1>4, <1>5, <1>6, <1>7, <1>8, <1>9, <1>10, <1>11, <1>12, <1>13,
       <1>14, <1>15, <1>16, <1>17, <1>18, <1>19, <1>20, <1>21, <1>22, <1>23, <1>24, <1>25, <1>26, <1>28 DEF Next, Step

\* A consumer that stops is waited for until it has stopped.
LEMMA StoppingStep ==
    ASSUME TypeOK, Program, OwnTask, OneCall, Holds, Stopping, [Next]_vars
    PROVE  Stopping'
  <1> USE PAssumption, TaskOfConsumer DEF TypeOK, Labels, Ops, StopOps, Requests, Busy, Program, OwnTask, OneCall, Holds, Stopping, Free
  <1>1. CASE Boot
    BY <1>1 DEF Boot
  <1>2. CASE LoadTasks
    BY <1>2 DEF LoadTasks
  <1>3. ASSUME NEW p \in Calls, NEW r \in toInit, InitTask(p, r) PROVE Stopping'
    BY <1>3 DEF InitTask, Goto, FirstLabel
  <1>4. CASE InitDone
    BY <1>4 DEF InitDone
  <1>5. ASSUME NEW p \in Calls, NEW r \in Requests, r.op # "Init", Receive(p, r) PROVE Stopping'
    BY <1>5 DEF Receive, Goto, process, FirstLabel, MayReceive
  <1>6. CASE ReceivePanics
    BY <1>6 DEF ReceivePanics, Die
  <1>7. ASSUME NEW p \in Calls, FindToStop(p) PROVE Stopping'
    BY <1>7 DEF FindToStop, Goto, process
  <1>8. ASSUME NEW p \in Calls, RemoveEntry(p) PROVE Stopping'
    BY <1>8 DEF RemoveEntry, Goto, process
  <1>9. ASSUME NEW p \in Calls, StopConsumer(p) PROVE Stopping'
    BY <1>9 DEF StopConsumer, Goto, process, Stopped
  <1>10. ASSUME NEW p \in Calls, AwaitStop(p) PROVE Stopping'
    BY <1>10 DEF AwaitStop, Goto, process
  <1>11. ASSUME NEW p \in Calls, ForgetTask(p) PROVE Stopping'
    BY <1>11 DEF ForgetTask, Goto, process
  <1>12. ASSUME NEW p \in Calls, NoteTask(p) PROVE Stopping'
    BY <1>12 DEF NoteTask, Goto, process, AfterNote
  <1>13. ASSUME NEW p \in Calls, NewConsumer(p) PROVE Stopping'
    BY <1>13 DEF NewConsumer, Goto, process
  <1>14. ASSUME NEW p \in Calls, NewConsumerFails(p) PROVE Stopping'
    BY <1>14 DEF NewConsumerFails, Goto, process
  <1>15. ASSUME NEW p \in Calls, PutEntry(p) PROVE Stopping'
    BY <1>15 DEF PutEntry, Goto, process
  <1>16. ASSUME NEW p \in Calls, FindEntry(p) PROVE Stopping'
    BY <1>16 DEF FindEntry, Goto, process
  <1>17. ASSUME NEW p \in Calls, StartConsume(p) PROVE Stopping'
    BY <1>17 DEF StartConsume, Goto, process
  <1>18. ASSUME NEW p \in Calls, KnownTask(p) PROVE Stopping'
    BY <1>18 DEF KnownTask, Goto, process
  <1>19. ASSUME NEW p \in Calls, ChangeConsume(p) PROVE Stopping'
    BY <1>19 DEF ChangeConsume, Goto, process
  <1>20. ASSUME NEW p \in Calls, Respond(p) PROVE Stopping'
    BY <1>20 DEF Respond, Goto, process
  <1>21. ASSUME NEW c \in Consumers, HandlersEnd(c) PROVE Stopping'
    BY <1>21 DEF HandlersEnd, process
  <1>28. ASSUME NEW c \in Consumers, StopTimesOut(c) PROVE Stopping'
    BY <1>28 DEF StopTimesOut, process
  <1>22. ASSUME NEW c \in Consumers, StopOnLeave(c) PROVE Stopping'
    BY <1>22 DEF StopOnLeave, process, Stopped
  <1>23. CASE StopAllTask
    BY <1>23 DEF StopAllTask
  <1>24. CASE Exit
    BY <1>24 DEF Exit, Die
  <1>25. CASE Crash
    BY <1>25 DEF Crash, Die
  <1>26. CASE UNCHANGED vars
    BY <1>26 DEF vars
  <1>27. QED
    BY <1>1, <1>2, <1>3, <1>4, <1>5, <1>6, <1>7, <1>8, <1>9, <1>10, <1>11, <1>12, <1>13,
       <1>14, <1>15, <1>16, <1>17, <1>18, <1>19, <1>20, <1>21, <1>22, <1>23, <1>24, <1>25, <1>26, <1>28 DEF Next, Step

-----------------------------------------------------------------------------
\* The invariants hold in the initial state.
LEMMA InitInv == Init => SerialInv
  BY PAssumption DEF Init, SerialInv, TypeOK, Program, OwnTask, OneCall, Owned, Holds,
     Silent, Fresh, Agreed, Updated, Stopping, Busy, Labels

\* Without overlapping requests, SerialInv is an invariant.
THEOREM SerialInvariant == ~Overlap => (Spec => []SerialInv)
  <1> SUFFICES ASSUME ~Overlap PROVE Spec => []SerialInv
    OBVIOUS
  <1>1. SerialInv /\ [Next]_vars => SerialInv'
    BY TypeStep, OwnTaskStep, OneCallStep, HoldsStep, OwnedStep, SilentStep,
       FreshStep, AgreedStep, UpdatedStep, StoppingStep DEF SerialInv
  <1> QED
    BY <1>1, InitInv, PTL DEF Spec

\* Every variable of the pusher keeps its type, and a goroutine that works on a
\* consumer has one, however the requests overlap.
THEOREM TypeCorrect == Spec => []TypeOK
  <1>1. Init => TypeOK /\ Program
    BY InitInv DEF SerialInv
  <1>2. (TypeOK /\ Program) /\ [Next]_vars => (TypeOK /\ Program)'
    BY TypeStep
  <1> QED
    BY <1>1, <1>2, PTL DEF Spec

\* Two consumers of a task that the library still waits for are one and the same.
LEMMA CurrentIsUnique ==
    ASSUME SerialInv, NEW t \in Tasks, NEW c \in Current(t), NEW d \in Current(t)
    PROVE  c = d
  <1>1. /\ c \in Consumers /\ TaskOf(c) = t /\ stage[c] \in {"connected", "stopping"}
        /\ d \in Consumers /\ TaskOf(d) = t /\ stage[d] \in {"connected", "stopping"}
    BY DEF Current
  <1> QED
    BY <1>1, PAssumption DEF SerialInv, Owned, OwnTask, OneCall, Holds, Busy

\* Without overlapping requests, a task never has two consumers that receive, but
\* for those the library has cut off.
THEOREM AtMostOneReceiver == ~Overlap => (Spec => []OneReceiver)
  <1>1. SerialInv => OneReceiver
    BY CurrentIsUnique DEF OneReceiver, Receiving, Current, Late
  <1> QED
    BY <1>1, SerialInvariant, PTL

\* What a stop leaves of a task's consumers has been cut off.
LEMMA StopsTakeEffect ==
    ASSUME SerialInv, NEW p \in Calls, pc[p] = "reply", req[p].op \in StopOps
    PROVE  Current(req[p].task) = {}
  BY DEF SerialInv, Silent, Current

\* Without overlapping requests, every consumer of a task whose StopTask or
\* DeleteTask is answered has stopped, or was given 30 s to.
THEOREM StopsAreEffective == ~Overlap => (Spec => []StopTakesEffect)
  <1>1. SerialInv => StopTakesEffect
    BY StopsTakeEffect DEF StopTakesEffect, Receiving, Late
  <1> QED
    BY <1>1, SerialInvariant, PTL

\* Without overlapping requests, the pusher knows the task of every message it
\* receives, but for those of a consumer the library has cut off.
THEOREM ReceivedTasksAreKnown == ~Overlap => (Spec => []ReceivedTaskIsKnown)
  <1>1. SerialInv => ReceivedTaskIsKnown
    BY DEF SerialInv, Agreed, ReceivedTaskIsKnown, Receiving, Current, Late
  <1> QED
    BY <1>1, SerialInvariant, PTL

\* Without overlapping requests, a message is pushed with the settings its
\* consumer runs with.
THEOREM SettingsStayTogether == ~Overlap => (Spec => []SettingsAgree)
  <1>1. SerialInv => SettingsAgree
    BY DEF SerialInv, Agreed, Program, SettingsAgree, Current
  <1> QED
    BY <1>1, SerialInvariant, PTL

-----------------------------------------------------------------------------
(* The pusher implements the service of TaskSubscription.                  *)

\* The request a task waits for is the one its only busy goroutine runs.
LEMMA PendingIsBusy ==
    ASSUME OneCall, NEW p \in Calls, NEW t \in Tasks, Busy(p, t)
    PROVE  PendingRequest(t) = req[p]
  BY DEF OneCall, PendingRequest

Requested == [t \in Tasks |-> PendingRequest(t)]
Subs(t) == {[id |-> c, fields |-> flight[c]] : c \in Current(t)}
Subscribed == [t \in Tasks |-> Subs(t)]
Unfinished == [t \in Tasks |-> Late(t)]

\* While no goroutine begins or ends, the tasks wait for the same requests.
LEMMA RequestsStay ==
    ASSUME UNCHANGED req, \A p \in Calls : (pc'[p] = "idle") <=> (pc[p] = "idle")
    PROVE  Requested' = Requested
  <1>1. ASSUME NEW t \in Tasks PROVE PendingRequest(t)' = PendingRequest(t)
    BY DEF PendingRequest, Busy
  <1> QED
    BY <1>1 DEF Requested

\* The subscriptions of a task depend on its consumers that receive.
LEMMA SubsStay ==
    ASSUME NEW t \in Tasks,
           \A c \in Consumers : TaskOf(c) = t =>
              /\ stage'[c] \in {"connected", "stopping"} <=>
                    stage[c] \in {"connected", "stopping"}
              /\ stage[c] \in {"connected", "stopping"} => flight'[c] = flight[c]
    PROVE  Subs(t)' = Subs(t)
  <1>1. Current(t)' = Current(t)
    BY DEF Current
  <1>2. \A c \in Current(t) : flight'[c] = flight[c]
    BY DEF Current
  <1> QED
    BY <1>1, <1>2 DEF Subs

\* Those that go on late depend on which are cut off.
LEMMA LateStay ==
    ASSUME \A c \in Consumers : stage'[c] = "cutOff" <=> stage[c] = "cutOff"
    PROVE  Unfinished' = Unfinished
  BY DEF Late, Unfinished

LEMMA SubscriptionsStay ==
    ASSUME UNCHANGED <<stage, flight>>
    PROVE  Subscribed' = Subscribed /\ Unfinished' = Unfinished
  BY DEF Current, Subs, Subscribed, Late, Unfinished

\* A goroutine that starts to run a request makes it the one its task waits for.
LEMMA Begins ==
    ASSUME TypeOK, NEW p \in Calls, NEW r \in Requests, pc[p] = "idle", pc'[p] # "idle",
           \A q \in Calls : ~Busy(q, r.task),
           req' = [req EXCEPT ![p] = r],
           \A q \in Calls : q # p => pc'[q] = pc[q]
    PROVE  /\ Requested[r.task] = None
           /\ Requested' = [Requested EXCEPT ![r.task] = r]
  <1>1. r.task \in Tasks /\ req'[p] = r /\ \A q \in Calls : q # p => req'[q] = req[q]
    BY DEF TypeOK, Requests
  <1>2. PendingRequest(r.task) = None
    BY DEF PendingRequest
  <1>3. PendingRequest(r.task)' = r
    BY <1>1 DEF PendingRequest, Busy
  <1>4. ASSUME NEW t \in Tasks, t # r.task PROVE PendingRequest(t)' = PendingRequest(t)
    <2>1. \A q \in Calls : Busy(q, t)' <=> Busy(q, t)
      BY <1>1, <1>4 DEF Busy
    <2>2. \A q \in Calls : Busy(q, t) => req'[q] = req[q]
      BY <1>1 DEF Busy
    <2> QED
      BY <2>1, <2>2 DEF PendingRequest
  <1> QED
    BY <1>1, <1>2, <1>3, <1>4 DEF Requested

\* Each step of the pusher is a step of the service, or changes nothing of it.
LEMMA StepRefines ==
    ASSUME ~Overlap, SerialInv, [Next]_vars
    PROVE  [Service!Next]_(Service!vars)
  <1> USE PAssumption DEF Service!vars
  <1> DEFINE Stays == /\ Requested' = Requested /\ Subscribed' = Subscribed
                      /\ Unfinished' = Unfinished
             Leaving == phase = "stopping"
  <1>0. TypeOK /\ OneCall
    BY DEF SerialInv
  <1>1. ASSUME Stays, Leaving' = Leaving PROVE [Service!Next]_(Service!vars)
    BY <1>1 DEF Requested, Subscribed, Subs, Unfinished, Late
  <1>2. CASE Boot
    BY <1>1, <1>2, RequestsStay, SubscriptionsStay DEF Boot
  <1>3. CASE LoadTasks
    BY <1>1, <1>3, RequestsStay, SubscriptionsStay DEF LoadTasks
  <1>4. CASE InitDone
    BY <1>1, <1>4, RequestsStay, SubscriptionsStay DEF InitDone
  <1>5. CASE UNCHANGED vars
    BY <1>1, <1>5, RequestsStay, SubscriptionsStay DEF vars
  <1>6. ASSUME NEW p \in Calls, NEW r \in Requests, pc[p] = "idle", pc'[p] # "idle",
               req' = [req EXCEPT ![p] = r], \A q \in Calls : ~Busy(q, r.task),
               \A q \in Calls : q # p => pc'[q] = pc[q],
               UNCHANGED <<phase, stage, flight>>
        PROVE  [Service!Next]_(Service!vars)
    <2>1. Requested[r.task] = None /\ Requested' = [Requested EXCEPT ![r.task] = r]
      BY <1>0, <1>6, Begins
    <2>2. Subscribed' = Subscribed /\ Unfinished' = Unfinished /\ Leaving' = Leaving
      BY <1>6, SubscriptionsStay
    <2>3. Service!Receive(r)
      BY <2>1, <2>2 DEF Service!Receive, Requested, Subscribed, Subs, Unfinished, Late
    <2> QED
      BY <2>3 DEF Service!Next
  <1>7. ASSUME NEW p \in Calls, NEW r \in toInit, InitTask(p, r)
        PROVE  [Service!Next]_(Service!vars)
    <2>1. r \in Requests /\ r.op = "Init" /\ \A q \in Calls : ~Busy(q, r.task)
      BY <1>0 DEF TypeOK, OneCall
    <2>2. /\ pc[p] = "idle" /\ pc'[p] # "idle" /\ req' = [req EXCEPT ![p] = r]
          /\ \A q \in Calls : q # p => pc'[q] = pc[q]
          /\ UNCHANGED <<phase, stage, flight>>
      BY <1>0, <1>7, <2>1 DEF InitTask, Goto, FirstLabel, TypeOK
    <2> QED
      BY <1>6, <2>1, <2>2
  <1>8. ASSUME NEW p \in Calls, NEW r \in Requests, Receive(p, r)
        PROVE  [Service!Next]_(Service!vars)
    <2>1. /\ pc[p] = "idle" /\ pc'[p] # "idle" /\ req' = [req EXCEPT ![p] = r]
          /\ \A q \in Calls : ~Busy(q, r.task)
          /\ \A q \in Calls : q # p => pc'[q] = pc[q]
          /\ UNCHANGED <<phase, stage, flight>>
      BY <1>0, <1>8 DEF Receive, MayReceive, Goto, FirstLabel, TypeOK, process, Requests,
         Ops, StopOps
    <2> QED
      BY <1>6, <2>1
  <1>9. ASSUME Die PROVE [Service!Next]_(Service!vars)
    <2>1. /\ Requested' = [t \in Tasks |-> None] /\ ~Leaving'
          /\ Subscribed' = [t \in Tasks |-> {}] /\ Unfinished' = [t \in Tasks |-> {}]
      BY <1>9 DEF Die, Requested, PendingRequest, Busy, Subscribed, Subs, Current, Unfinished, Late
    <2>2. Service!Die
      BY <2>1 DEF Service!Die, Requested, Subscribed, Subs, Unfinished, Late
    <2> QED
      BY <2>2 DEF Service!Next
  <1>10. ASSUME NEW p \in Calls,
                \/ FindToStop(p) \/ RemoveEntry(p) \/ AwaitStop(p) \/ ForgetTask(p)
                \/ NoteTask(p) \/ NewConsumerFails(p) \/ PutEntry(p) \/ FindEntry(p)
                \/ KnownTask(p)
         PROVE  [Service!Next]_(Service!vars)
    <2>1. UNCHANGED <<stage, flight, req, phase>>
      BY <1>10 DEF FindToStop, RemoveEntry, AwaitStop, ForgetTask, NoteTask,
         NewConsumerFails, PutEntry, FindEntry, KnownTask, process
    <2>2. \A q \in Calls : (pc'[q] = "idle") <=> (pc[q] = "idle")
      BY <1>0, <1>10 DEF FindToStop, RemoveEntry, AwaitStop, ForgetTask, NoteTask,
         NewConsumerFails, PutEntry, FindEntry, KnownTask, Goto, AfterNote, TypeOK
    <2> QED
      BY <1>1, <2>1, <2>2, RequestsStay, SubscriptionsStay
  <1>11. ASSUME Requested' = Requested, Leaving' = Leaving,
                \A c \in Consumers :
                   /\ stage'[c] \in {"connected", "stopping"} <=>
                         stage[c] \in {"connected", "stopping"}
                   /\ stage[c] \in {"connected", "stopping"} => flight'[c] = flight[c]
                   /\ stage'[c] = "cutOff" <=> stage[c] = "cutOff"
         PROVE  [Service!Next]_(Service!vars)
    BY <1>1, <1>11, SubsStay, LateStay DEF Subscribed
  <1>12. ASSUME NEW p \in Calls, StopConsumer(p) PROVE [Service!Next]_(Service!vars)
    <2>1. Requested' = Requested /\ Leaving' = Leaving
      BY <1>0, <1>12, RequestsStay DEF StopConsumer, Goto, process, TypeOK
    <2> QED
      BY <1>0, <1>11, <1>12, <2>1 DEF StopConsumer, Stopped, TypeOK
  <1>13. ASSUME NEW c \in Consumers, StopOnLeave(c) PROVE [Service!Next]_(Service!vars)
    <2>1. Requested' = Requested /\ Leaving' = Leaving
      BY <1>13, RequestsStay DEF StopOnLeave, process
    <2> QED
      BY <1>0, <1>11, <1>13, <2>1 DEF StopOnLeave, Stopped, TypeOK
  <1>14. ASSUME NEW p \in Calls, NewConsumer(p) PROVE [Service!Next]_(Service!vars)
    <2>1. Requested' = Requested /\ Leaving' = Leaving
      BY <1>0, <1>14, RequestsStay DEF NewConsumer, Goto, process, TypeOK
    <2> QED
      BY <1>0, <1>11, <1>14, <2>1 DEF NewConsumer, Free, TypeOK
  <1>15. ASSUME NEW p \in Calls, StartConsume(p) PROVE [Service!Next]_(Service!vars)
    <2> DEFINE c == held[p]
    <2>1. PICK t \in Tasks : t = req[p].task
      BY <1>0, <1>15 DEF StartConsume, TypeOK, Requests
    <2>2. /\ pc[p] = "connect" /\ Busy(p, t) /\ req[p] \in Requests
          /\ c \in Consumers /\ TaskOf(c) = t
      BY <1>0, <1>15, <2>1 DEF StartConsume, TypeOK, Busy, SerialInv, OwnTask
    <2>3. PendingRequest(t) = req[p] /\ req[p] # None /\ req[p].op \notin StopOps
      BY <1>0, <2>2, PendingIsBusy DEF SerialInv, Program, StopOps
    <2>4. Current(t) = {} /\ flight[c] = req[p].fields
      BY <2>1, <2>2 DEF SerialInv, Silent, Current, Holds, Fresh
    <2>5. Requested' = Requested /\ Leaving' = Leaving
      BY <1>0, <1>15, RequestsStay DEF StartConsume, Goto, process, TypeOK
    <2>6. CASE stage[c] # "new"
      BY <1>0, <1>11, <1>15, <2>2, <2>5, <2>6 DEF StartConsume, TypeOK
    <2>7. CASE stage[c] = "new"
      <3>1. /\ stage'[c] = "connected" /\ UNCHANGED flight
            /\ \A d \in Consumers : d # c => stage'[d] = stage[d]
        BY <1>0, <1>15, <2>2, <2>7 DEF StartConsume, TypeOK
      <3>2. Current(t)' = {c}
        BY <2>2, <2>4, <3>1 DEF Current
      <3>3. Subs(t) = {} /\ Subs(t)' = {[id |-> c, fields |-> req[p].fields]}
        BY <2>4, <3>1, <3>2 DEF Subs
      <3>4. ASSUME NEW u \in Tasks, u # t PROVE Subs(u)' = Subs(u)
        BY <2>2, <3>1, <3>4, SubsStay
      <3>5. Subscribed[t] = {} /\ Subscribed' =
               [Subscribed EXCEPT ![t] = {[id |-> c, fields |-> req[p].fields]}]
        BY <3>3, <3>4 DEF Subscribed
      <3>7. c \notin Late(t) /\ Unfinished' = Unfinished
        BY <2>2, <2>7, <3>1, LateStay DEF Late
      <3>6. Service!Subscribe(t)
        BY <2>2, <2>3, <2>5, <3>5, <3>7 DEF Service!Subscribe, Requested, Subscribed, Subs, Unfinished, Late
      <3> QED
        BY <3>6 DEF Service!Next
    <2> QED
      BY <2>6, <2>7
  <1>16. ASSUME NEW p \in Calls, ChangeConsume(p) PROVE [Service!Next]_(Service!vars)
    <2> DEFINE c == held[p]
    <2>1. PICK t \in Tasks : t = req[p].task
      BY <1>0, <1>16 DEF ChangeConsume, TypeOK, Requests
    <2>2. /\ pc[p] = "change" /\ Busy(p, t) /\ req[p] \in Requests
          /\ c \in Consumers /\ TaskOf(c) = t
      BY <1>0, <1>16, <2>1 DEF ChangeConsume, TypeOK, Busy, SerialInv, OwnTask
    <2>3. PendingRequest(t) = req[p] /\ req[p] # None /\ req[p].op = "Update"
      BY <1>0, <2>2, PendingIsBusy DEF SerialInv, Program
    <2>4. /\ flight'[c] = req[p].fields /\ UNCHANGED stage
          /\ \A d \in Consumers : d # c => flight'[d] = flight[d]
      BY <1>0, <1>16, <2>2 DEF ChangeConsume, TypeOK
    <2>5. Requested' = Requested /\ Leaving' = Leaving
      BY <1>0, <1>16, RequestsStay DEF ChangeConsume, Goto, process, TypeOK
    <2>6. CASE stage[c] \notin {"connected", "stopping"}
      BY <1>11, <2>2, <2>4, <2>5, <2>6
    <2>7. CASE stage[c] \in {"connected", "stopping"}
      <3>1. Current(t) = {c} /\ Current(t)' = {c}
        BY <2>2, <2>4, <2>7, CurrentIsUnique DEF Current
      <3>2. /\ Subs(t) = {[id |-> c, fields |-> flight[c]]}
            /\ Subs(t)' = {[id |-> c, fields |-> req[p].fields]}
        BY <2>4, <3>1 DEF Subs
      <3>3. ASSUME NEW u \in Tasks, u # t PROVE Subs(u)' = Subs(u)
        BY <2>2, <2>4, <3>3, SubsStay
      <3>4. Requested[t] = req[p]
        BY <2>3 DEF Requested
      <3>5. Subs(t)' = {[s EXCEPT !.fields = Requested[t].fields] : s \in Subs(t)}
        BY <3>2, <3>4
      <3>6. Subscribed' =
               [Subscribed EXCEPT ![t] = {[s EXCEPT !.fields = Requested[t].fields] : s \in @}]
        BY <3>3, <3>5 DEF Subscribed
      <3>7. Requested[t] # None /\ Requested[t].op = "Update"
        BY <2>3, <3>4
      <3>9. Unfinished' = Unfinished
        BY <2>4, LateStay
      <3>8. Service!Adjust(t)
        BY <2>5, <3>6, <3>7, <3>9, Zenon DEF Service!Adjust, Requested, Subscribed, Subs, Unfinished, Late
      <3> QED
        BY <3>8 DEF Service!Next
    <2> QED
      BY <2>6, <2>7
  <1>21. ASSUME NEW c \in Consumers, NEW t \in Tasks, t = TaskOf(c),
                stage[c] = "stopping", stage'[c] \in {"stopped", "cutOff"},
                \A d \in Consumers : d # c => stage'[d] = stage[d],
                UNCHANGED flight, Requested' = Requested, Leaving' = Leaving
         PROVE  [Service!Next]_(Service!vars)
    <2>1. Current(t) = {c} /\ Current(t)' = {}
      BY <1>21, CurrentIsUnique DEF Current
    <2>2. ASSUME NEW u \in Tasks, u # t PROVE Subs(u)' = Subs(u)
      BY <1>21, <2>2, SubsStay
    <2>3. Subscribed' = [Subscribed EXCEPT ![t] = {}]
      BY <2>1, <2>2 DEF Subscribed, Subs
    <2>4. {s.id : s \in Subscribed[t]} = {c}
      <3>1. Subscribed[t] = {[id |-> c, fields |-> flight[c]]}
        BY <2>1 DEF Subscribed, Subs
      <3> QED
        BY <3>1
    <2>5. \A u \in Tasks : u # t => Late(u)' = Late(u)
      BY <1>21 DEF Late
    <2>6. Late(t)' = Late(t) \cup (IF stage'[c] = "cutOff" THEN {c} ELSE {})
      BY <1>21 DEF Late
    <2>7. PICK busy \in SUBSET {c} : Unfinished' = [Unfinished EXCEPT ![t] = @ \cup busy]
      BY <2>5, <2>6 DEF Unfinished
    <2>8. Leaving \/ (Requested[t] # None /\ Requested[t].op \in StopOps \cup {"Start"})
      <3>1. CASE c \in leaving
        BY <3>1 DEF SerialInv, Stopping
      <3>2. ASSUME NEW p \in Calls, pc[p] = "wait", held[p] = c
            PROVE  Requested[t] # None /\ Requested[t].op \in StopOps \cup {"Start"}
        <4>1. Busy(p, t) /\ req[p] \in Requests /\ req[p].op \in StopOps \cup {"Start"}
          BY <1>0, <1>21, <3>2 DEF Busy, SerialInv, OwnTask, Program, TypeOK, StopOps
        <4> QED
          BY <1>0, <4>1, PendingIsBusy DEF Requested
      <3> QED
        BY <1>21, <3>1, <3>2 DEF SerialInv, Stopping
    <2>9. Service!Unsubscribe(t)
      BY <1>21, <2>3, <2>4, <2>7, <2>8 DEF Service!Unsubscribe, Requested, Subscribed, Subs, Unfinished, Late
    <2> QED
      BY <2>9 DEF Service!Next
  <1>22. ASSUME NEW c \in Consumers, StopTimesOut(c) PROVE [Service!Next]_(Service!vars)
    <2>1. Requested' = Requested /\ Leaving' = Leaving
      BY <1>22, RequestsStay DEF StopTimesOut, process
    <2> QED
      BY <1>0, <1>21, <1>22, <2>1, TaskOfConsumer DEF StopTimesOut, TypeOK
  <1>17. ASSUME NEW c \in Consumers, HandlersEnd(c) PROVE [Service!Next]_(Service!vars)
    <2>1. PICK t \in Tasks : t = TaskOf(c)
      BY TaskOfConsumer
    <2>2. Requested' = Requested /\ Leaving' = Leaving
      BY <1>17, RequestsStay DEF HandlersEnd, process
    <2>3. /\ stage[c] \in {"stopping", "cutOff"} /\ stage'[c] = "stopped" /\ UNCHANGED flight
          /\ \A d \in Consumers : d # c => stage'[d] = stage[d]
      BY <1>0, <1>17 DEF HandlersEnd, TypeOK
    <2>4. CASE stage[c] = "stopping"
      BY <1>21, <2>1, <2>2, <2>3, <2>4
    <2>5. CASE stage[c] = "cutOff"
      <3>1. Subscribed' = Subscribed
        BY <2>3, <2>5, SubsStay DEF Subscribed
      <3>2. c \in Late(t) /\ Late(t)' = Late(t) \ {c}
        BY <2>1, <2>3, <2>5 DEF Late
      <3>3. \A u \in Tasks : u # t => Late(u)' = Late(u)
        BY <2>1, <2>3 DEF Late
      <3>4. Unfinished' = [Unfinished EXCEPT ![t] = @ \ {c}]
        BY <3>2, <3>3 DEF Unfinished
      <3>5. Service!Finish(t)
        BY <2>2, <3>1, <3>2, <3>4 DEF Service!Finish, Requested, Subscribed, Subs, Unfinished, Late
      <3> QED
        BY <3>5 DEF Service!Next
    <2> QED
      BY <2>3, <2>4, <2>5
  <1>18. ASSUME NEW p \in Calls, Respond(p) PROVE [Service!Next]_(Service!vars)
    <2>1. PICK t \in Tasks : t = req[p].task
      BY <1>0, <1>18 DEF Respond, TypeOK, Requests
    <2>2. pc[p] = "reply" /\ Busy(p, t) /\ req[p] \in Requests /\ req[p] # None
      BY <1>0, <1>18, <2>1 DEF Respond, TypeOK, Busy
    <2>3. Requested[t] = req[p]
      BY <1>0, <2>2, PendingIsBusy DEF Requested
    <2>4. pc'[p] = "idle" /\ \A q \in Calls : q # p => pc'[q] = pc[q] /\ req'[q] = req[q]
      BY <1>0, <1>18 DEF Respond, Goto, TypeOK
    <2>5. \A q \in Calls : ~Busy(q, t)'
      BY <1>0, <2>2, <2>4 DEF OneCall, Busy
    <2>6. PendingRequest(t)' = None
      BY <2>5 DEF PendingRequest
    <2>7. ASSUME NEW u \in Tasks, u # t PROVE PendingRequest(u)' = PendingRequest(u)
      <3>1. \A q \in Calls : Busy(q, u)' <=> Busy(q, u)
        BY <2>1, <2>4, <2>7 DEF Busy
      <3>2. \A q \in Calls : Busy(q, u) => req'[q] = req[q]
        BY <2>1, <2>4, <2>7 DEF Busy
      <3> QED
        BY <3>1, <3>2 DEF PendingRequest
    <2>8. Requested' = [Requested EXCEPT ![t] = None]
      BY <2>6, <2>7 DEF Requested
    <2>9. Subscribed' = Subscribed /\ Unfinished' = Unfinished /\ Leaving' = Leaving
      BY <1>18, SubscriptionsStay DEF Respond, process
    <2>10. req[p].op \in StopOps => Subscribed[t] = {}
      BY <2>1, <2>2, StopsTakeEffect DEF Subscribed, Subs
    <2>11. req[p].op = "Update" => \A s \in Subscribed[t] : s.fields = req[p].fields
      BY <2>1, <2>2 DEF SerialInv, Updated, Subscribed, Subs, Current
    <2>12. Service!Respond(t)
      BY <2>1, <2>2, <2>3, <2>8, <2>9, <2>10, <2>11
         DEF Service!Respond, Service!InEffect, Requested, Subscribed, Subs, Unfinished, Late
    <2> QED
      BY <2>12 DEF Service!Next
  <1>19. CASE StopAllTask
    <2>1. Requested' = Requested /\ Subscribed' = Subscribed /\ Unfinished' = Unfinished
          /\ Leaving' = TRUE
      BY <1>19, RequestsStay, SubscriptionsStay DEF StopAllTask
    <2>2. Service!Leave
      BY <2>1 DEF Service!Leave, Requested, Subscribed, Subs, Unfinished, Late
    <2> QED
      BY <2>2 DEF Service!Next
  <1>20. ReceivePanics \/ Exit \/ Crash => Die
    BY DEF ReceivePanics, Exit, Crash
  <1> QED
    BY <1>2, <1>3, <1>4, <1>5, <1>7, <1>8, <1>9, <1>10, <1>12, <1>13, <1>14, <1>15,
       <1>16, <1>17, <1>18, <1>19, <1>20, <1>22 DEF Next, Step

\* The pusher answers the monitor as TaskSubscription promises, when the
\* monitor's requests about one task come one after the other.
THEOREM PusherImplementsService == ~Overlap => (Spec => ServiceSpec)
  <1> SUFFICES ASSUME ~Overlap PROVE Spec => ServiceSpec
    OBVIOUS
  <1>1. Init => Service!Init
    BY DEF Init, Service!Init, PendingRequest, Busy, Current, Late
  <1>2. SerialInv /\ [Next]_vars => [Service!Next]_(Service!vars)
    BY StepRefines
  <1> QED
    BY <1>1, <1>2, SerialInvariant, PTL DEF Spec, ServiceSpec, Service!Spec
=============================================================================
