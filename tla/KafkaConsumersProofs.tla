----------------------- MODULE KafkaConsumersProofs -----------------------
(***************************************************************************)
(* Proofs about KafkaConsumers, for every set of tasks, fields, slots and  *)
(* goroutines.  EntryInv holds however the RPCs overlap; SerialInv needs   *)
(* the RPCs about one task to come one after the other.                    *)
(***************************************************************************)
EXTENDS KafkaConsumers, TLAPS

\* InitTasks fills toInit before any goroutine runs, and the RPC server, whose
\* handlers change the task map, starts only when toInit is empty.
BootInv ==
    /\ toInit # {} => phase = "boot"
    /\ phase = "down" => /\ \A p \in Calls : pc[p] = "idle"
                         /\ \A c \in Consumers : joined[c] = None
                         /\ ending = {} /\ late = {}
    /\ phase = "boot" => \A p \in Calls : pc[p] # "map"

\* The consumer a goroutine holds, and who else may refer to it.
Holding == {"close", "wait", "drop", "add"}

HeldInv ==
    /\ \A p \in Calls : pc[p] \in Holding =>
          held[p] \in Consumers /\ Group(held[p]) = req[p].task
    /\ \A p \in Calls : pc[p] \notin Holding => held[p] = None
    /\ \A p \in Calls : pc[p] = "drop" => joined[held[p]] = None
    /\ \A c \in ending : c \in closing \/ \E p \in Calls : pc[p] = "wait" /\ held[p] = c
    /\ \A p \in Calls : pc[p] = "add" =>
          /\ joined[held[p]] = req[p].fields
          /\ held[p] \notin closing
          /\ \A t \in Tasks : managed[t] # held[p]
          /\ \A q \in Calls : held[q] = held[p] => q = p

GroupInv ==
    /\ \A t \in Tasks : managed[t] # None => Group(managed[t]) = t
    /\ phase # "stopping" => closing = {}

EntryInv == TypeOK /\ BootInv /\ GroupInv /\ HeldInv /\ NoStuckEntry

\* One goroutine per task: the one that is busy with it, or about to be.
OneCall ==
    /\ \A p, q \in Calls, t \in Tasks : Busy(p, t) /\ Busy(q, t) => p = q
    /\ \A p \in Calls, t \in Tasks : Busy(p, t) => t \notin toInit

\* An open consumer is in the map or in the hands of the goroutine that made it.
Owned ==
    \A c \in Consumers : joined[c] # None =>
       \/ managed[Group(c)] = c
       \/ \E p \in Calls : pc[p] = "add" /\ held[p] = c

\* Which labels each kind of request passes through.
Control ==
    \A p \in Calls :
       /\ pc[p] # "idle" /\ req[p].op \in StopOps =>
             pc[p] \in {"map", "get", "close", "wait", "drop", "reply"}
       /\ pc[p] # "idle" /\ req[p].op \in SubscribeOps =>
             pc[p] \in {"map", "topics", "exists", "join", "add", "reply"}

\* What a goroutine knows of the map while nobody else works on its task.
Progress ==
    \A p \in Calls :
       /\ pc[p] \in {"join", "add"} => managed[req[p].task] = None
       /\ pc[p] \in {"close", "wait", "drop"} => managed[req[p].task] = held[p]
       /\ pc[p] = "reply" /\ req[p].op \in StopOps => managed[req[p].task] = None
       /\ pc[p] \in {"topics", "exists"} /\ req[p].op = "Update" =>
             managed[req[p].task] = None
       /\ pc[p] = "reply" /\ req[p].op = "Update" /\ managed[req[p].task] # None =>
             joined[managed[req[p].task]] \in {None, req[p].fields}

Known ==
    /\ \A p \in Calls : pc[p] \notin {"idle", "map", "reply"} /\ req[p].op # "Delete" =>
          taskMap[req[p].task] # None
    /\ \A t \in Tasks : OpenConsumers(t) # {} /\ taskMap[t] = None =>
          \E p \in Calls : Busy(p, t) /\ req[p].op = "Delete"

SerialInv == EntryInv /\ OneCall /\ Owned /\ Control /\ Progress /\ Known
-----------------------------------------------------------------------------
\* Every step keeps the types, and the order of the boot with them.
LEMMA TypeStep ==
    ASSUME TypeOK, BootInv, HeldInv, [Next]_vars
    PROVE  TypeOK' /\ BootInv'
  <1> USE KAssumption DEF TypeOK, Labels, RpcOps, SubscribeOps, StopOps, Requests, BootInv
  <1>1. CASE InitTasks
    BY <1>1 DEF InitTasks, library
  <1>2. CASE InitTasksFails
    BY <1>2 DEF InitTasksFails, library
  <1>3. ASSUME NEW p \in Calls, NEW t \in Tasks, InitConsumer(p, t) PROVE TypeOK' /\ BootInv'
    BY <1>3 DEF InitConsumer, Goto, library
  <1>4. CASE StartRpcServer
    BY <1>4 DEF StartRpcServer, library
  <1>5. ASSUME NEW p \in Calls, NEW r \in Requests, r.op # "Init", Receive(p, r) PROVE TypeOK' /\ BootInv'
    BY <1>5 DEF Receive, Goto, process, library
  <1>6. ASSUME NEW p \in Calls, SetTask(p) PROVE TypeOK' /\ BootInv'
    BY <1>6 DEF SetTask, Goto, process, library
  <1>7. ASSUME NEW p \in Calls, SetTaskPanics(p) PROVE TypeOK' /\ BootInv'
    BY <1>7 DEF SetTaskPanics, Die
  <1>8. ASSUME NEW p \in Calls, GetConsumer(p) PROVE TypeOK' /\ BootInv'
    BY <1>8 DEF GetConsumer, Goto, process, library
  <1>9. ASSUME NEW p \in Calls, CloseConsumer(p) PROVE TypeOK' /\ BootInv'
    BY <1>9 DEF CloseConsumer, Goto, process, library, HeldInv, Holding
  <1>10. ASSUME NEW p \in Calls, DeleteEntry(p) PROVE TypeOK' /\ BootInv'
    BY <1>10 DEF DeleteEntry, Goto, process, library
  <1>11. ASSUME NEW p \in Calls, GetTopics(p) PROVE TypeOK' /\ BootInv'
    BY <1>11 DEF GetTopics, Goto, process, library
  <1>12. ASSUME NEW p \in Calls, GroupExists(p) PROVE TypeOK' /\ BootInv'
    BY <1>12 DEF GroupExists, Goto, process, library
  <1>13. ASSUME NEW p \in Calls, NewConsumer(p) PROVE TypeOK' /\ BootInv'
    BY <1>13 DEF NewConsumer, Goto, process, library, Free
  <1>14. ASSUME NEW p \in Calls, NewConsumerFails(p) PROVE TypeOK' /\ BootInv'
    BY <1>14 DEF NewConsumerFails, Goto, process, library
  <1>15. ASSUME NEW p \in Calls, AddEntry(p) PROVE TypeOK' /\ BootInv'
    BY <1>15 DEF AddEntry, Goto, process, library
  <1>16. ASSUME NEW p \in Calls, Respond(p) PROVE TypeOK' /\ BootInv'
    BY <1>16 DEF Respond, Goto, process, library
  <1>17. CASE StopConsumers
    BY <1>17 DEF StopConsumers, library
  <1>18. ASSUME NEW c \in Consumers, CloseOnStop(c) PROVE TypeOK' /\ BootInv'
    BY <1>18 DEF CloseOnStop, process
  <1>23. ASSUME NEW p \in Calls, AwaitClose(p) PROVE TypeOK' /\ BootInv'
    BY <1>23 DEF AwaitClose, Goto, process, library
  <1>24. ASSUME NEW c \in Consumers, LeaveGroup(c) PROVE TypeOK' /\ BootInv'
    BY <1>24 DEF LeaveGroup, process
  <1>25. ASSUME NEW c \in Consumers, ChannelEmpty(c) PROVE TypeOK' /\ BootInv'
    BY <1>25 DEF ChannelEmpty, process
  <1>19. CASE Exit
    BY <1>19 DEF Exit, Die, library
  <1>20. CASE Crash
    BY <1>20 DEF Crash, Die, library
  <1>21. CASE UNCHANGED vars
    BY <1>21 DEF vars
  <1>22. QED
    BY <1>1, <1>2, <1>3, <1>4, <1>5, <1>6, <1>7, <1>8, <1>9, <1>10, <1>11, <1>12, <1>13, <1>14, <1>15, <1>16, <1>17, <1>18, <1>19, <1>20, <1>21,
       <1>23, <1>24, <1>25 DEF Next, Step

\* Every step keeps what goroutines and the map may refer to.
LEMMA HeldStep ==
    ASSUME TypeOK, BootInv, GroupInv, HeldInv, [Next]_vars
    PROVE  GroupInv' /\ HeldInv'
  <1> USE KAssumption DEF TypeOK, Labels, RpcOps, SubscribeOps, StopOps, Requests, BootInv, GroupInv, HeldInv, Holding, Free
  <1>1. CASE InitTasks
    BY <1>1 DEF InitTasks, library
  <1>2. CASE InitTasksFails
    BY <1>2 DEF InitTasksFails, library
  <1>3. ASSUME NEW p \in Calls, NEW t \in Tasks, InitConsumer(p, t) PROVE GroupInv' /\ HeldInv'
    BY <1>3 DEF InitConsumer, Goto, library
  <1>4. CASE StartRpcServer
    BY <1>4 DEF StartRpcServer, library
  <1>5. ASSUME NEW p \in Calls, NEW r \in Requests, r.op # "Init", Receive(p, r) PROVE GroupInv' /\ HeldInv'
    BY <1>5 DEF Receive, Goto, process, library
  <1>6. ASSUME NEW p \in Calls, SetTask(p) PROVE GroupInv' /\ HeldInv'
    BY <1>6 DEF SetTask, Goto, process, library
  <1>7. ASSUME NEW p \in Calls, SetTaskPanics(p) PROVE GroupInv' /\ HeldInv'
    BY <1>7 DEF SetTaskPanics, Die
  <1>8. ASSUME NEW p \in Calls, GetConsumer(p) PROVE GroupInv' /\ HeldInv'
    BY <1>8 DEF GetConsumer, Goto, process, library
  <1>9. ASSUME NEW p \in Calls, CloseConsumer(p) PROVE GroupInv' /\ HeldInv'
    BY <1>9 DEF CloseConsumer, Goto, process, library
  <1>10. ASSUME NEW p \in Calls, DeleteEntry(p) PROVE GroupInv' /\ HeldInv'
    BY <1>10 DEF DeleteEntry, Goto, process, library
  <1>11. ASSUME NEW p \in Calls, GetTopics(p) PROVE GroupInv' /\ HeldInv'
    BY <1>11 DEF GetTopics, Goto, process, library
  <1>12. ASSUME NEW p \in Calls, GroupExists(p) PROVE GroupInv' /\ HeldInv'
    BY <1>12 DEF GroupExists, Goto, process, library
  <1>13. ASSUME NEW p \in Calls, NewConsumer(p) PROVE GroupInv' /\ HeldInv'
    BY <1>13 DEF NewConsumer, Goto, process, library
  <1>14. ASSUME NEW p \in Calls, NewConsumerFails(p) PROVE GroupInv' /\ HeldInv'
    BY <1>14 DEF NewConsumerFails, Goto, process, library
  <1>15. ASSUME NEW p \in Calls, AddEntry(p) PROVE GroupInv' /\ HeldInv'
    BY <1>15 DEF AddEntry, Goto, process, library
  <1>16. ASSUME NEW p \in Calls, Respond(p) PROVE GroupInv' /\ HeldInv'
    BY <1>16 DEF Respond, Goto, process, library
  <1>17. CASE StopConsumers
    BY <1>17 DEF StopConsumers, library
  <1>18. ASSUME NEW c \in Consumers, CloseOnStop(c) PROVE GroupInv' /\ HeldInv'
    BY <1>18 DEF CloseOnStop, process
  <1>23. ASSUME NEW p \in Calls, AwaitClose(p) PROVE GroupInv' /\ HeldInv'
    BY <1>23 DEF AwaitClose, Goto, process, library
  <1>24. ASSUME NEW c \in Consumers, LeaveGroup(c) PROVE GroupInv' /\ HeldInv'
    BY <1>24 DEF LeaveGroup, process
  <1>25. ASSUME NEW c \in Consumers, ChannelEmpty(c) PROVE GroupInv' /\ HeldInv'
    BY <1>25 DEF ChannelEmpty, process
  <1>19. CASE Exit
    BY <1>19 DEF Exit, Die, library
  <1>20. CASE Crash
    BY <1>20 DEF Crash, Die, library
  <1>21. CASE UNCHANGED vars
    BY <1>21 DEF vars
  <1>22. QED
    BY <1>1, <1>2, <1>3, <1>4, <1>5, <1>6, <1>7, <1>8, <1>9, <1>10, <1>11, <1>12, <1>13, <1>14, <1>15, <1>16, <1>17, <1>18, <1>19, <1>20, <1>21,
       <1>23, <1>24, <1>25 DEF Next, Step

\* An entry of a closed consumer is always about to be deleted.
LEMMA EntryStep ==
    ASSUME TypeOK, BootInv, GroupInv, HeldInv, NoStuckEntry, [Next]_vars
    PROVE  NoStuckEntry'
  <1> USE KAssumption DEF TypeOK, Labels, RpcOps, SubscribeOps, StopOps, Requests, BootInv, GroupInv, HeldInv, Holding, NoStuckEntry, Free
  <1>1. CASE InitTasks
    BY <1>1 DEF InitTasks, library
  <1>2. CASE InitTasksFails
    BY <1>2 DEF InitTasksFails, library
  <1>3. ASSUME NEW p \in Calls, NEW t \in Tasks, InitConsumer(p, t) PROVE NoStuckEntry'
    BY <1>3 DEF InitConsumer, Goto, library
  <1>4. CASE StartRpcServer
    BY <1>4 DEF StartRpcServer, library
  <1>5. ASSUME NEW p \in Calls, NEW r \in Requests, r.op # "Init", Receive(p, r) PROVE NoStuckEntry'
    BY <1>5 DEF Receive, Goto, process, library
  <1>6. ASSUME NEW p \in Calls, SetTask(p) PROVE NoStuckEntry'
    BY <1>6 DEF SetTask, Goto, process, library
  <1>7. ASSUME NEW p \in Calls, SetTaskPanics(p) PROVE NoStuckEntry'
    BY <1>7 DEF SetTaskPanics, Die
  <1>8. ASSUME NEW p \in Calls, GetConsumer(p) PROVE NoStuckEntry'
    BY <1>8 DEF GetConsumer, Goto, process, library
  <1>9. ASSUME NEW p \in Calls, CloseConsumer(p) PROVE NoStuckEntry'
    BY <1>9 DEF CloseConsumer, Goto, process, library
  <1>10. ASSUME NEW p \in Calls, DeleteEntry(p) PROVE NoStuckEntry'
    BY <1>10 DEF DeleteEntry, Goto, process, library
  <1>11. ASSUME NEW p \in Calls, GetTopics(p) PROVE NoStuckEntry'
    BY <1>11 DEF GetTopics, Goto, process, library
  <1>12. ASSUME NEW p \in Calls, GroupExists(p) PROVE NoStuckEntry'
    BY <1>12 DEF GroupExists, Goto, process, library
  <1>13. ASSUME NEW p \in Calls, NewConsumer(p) PROVE NoStuckEntry'
    BY <1>13 DEF NewConsumer, Goto, process, library
  <1>14. ASSUME NEW p \in Calls, NewConsumerFails(p) PROVE NoStuckEntry'
    BY <1>14 DEF NewConsumerFails, Goto, process, library
  <1>15. ASSUME NEW p \in Calls, AddEntry(p) PROVE NoStuckEntry'
    BY <1>15 DEF AddEntry, Goto, process, library
  <1>16. ASSUME NEW p \in Calls, Respond(p) PROVE NoStuckEntry'
    BY <1>16 DEF Respond, Goto, process, library
  <1>17. CASE StopConsumers
    BY <1>17 DEF StopConsumers, library
  <1>18. ASSUME NEW c \in Consumers, CloseOnStop(c) PROVE NoStuckEntry'
    BY <1>18 DEF CloseOnStop, process
  <1>23. ASSUME NEW p \in Calls, AwaitClose(p) PROVE NoStuckEntry'
    BY <1>23 DEF AwaitClose, Goto, process, library
  <1>24. ASSUME NEW c \in Consumers, LeaveGroup(c) PROVE NoStuckEntry'
    BY <1>24 DEF LeaveGroup, process
  <1>25. ASSUME NEW c \in Consumers, ChannelEmpty(c) PROVE NoStuckEntry'
    BY <1>25 DEF ChannelEmpty, process
  <1>19. CASE Exit
    BY <1>19 DEF Exit, Die, library
  <1>20. CASE Crash
    BY <1>20 DEF Crash, Die, library
  <1>21. CASE UNCHANGED vars
    BY <1>21 DEF vars
  <1>22. QED
    BY <1>1, <1>2, <1>3, <1>4, <1>5, <1>6, <1>7, <1>8, <1>9, <1>10, <1>11, <1>12, <1>13, <1>14, <1>15, <1>16, <1>17, <1>18, <1>19, <1>20, <1>21,
       <1>23, <1>24, <1>25 DEF Next, Step

\* RPCs that come one after the other never share a task.
LEMMA OneCallStep ==
    ASSUME ~Overlap, TypeOK, BootInv, OneCall, [Next]_vars
    PROVE  OneCall'
  <1> USE KAssumption DEF TypeOK, Labels, RpcOps, SubscribeOps, StopOps, Requests, BootInv, OneCall, Busy
  <1>1. CASE InitTasks
    BY <1>1 DEF InitTasks, library
  <1>2. CASE InitTasksFails
    BY <1>2 DEF InitTasksFails, library
  <1>3. ASSUME NEW p \in Calls, NEW t \in Tasks, InitConsumer(p, t) PROVE OneCall'
    BY <1>3 DEF InitConsumer, Goto, library
  <1>4. CASE StartRpcServer
    BY <1>4 DEF StartRpcServer, library
  <1>5. ASSUME NEW p \in Calls, NEW r \in Requests, r.op # "Init", Receive(p, r) PROVE OneCall'
    BY <1>5 DEF Receive, Goto, process, library
  <1>6. ASSUME NEW p \in Calls, SetTask(p) PROVE OneCall'
    BY <1>6 DEF SetTask, Goto, process, library
  <1>7. ASSUME NEW p \in Calls, SetTaskPanics(p) PROVE OneCall'
    BY <1>7 DEF SetTaskPanics, Die
  <1>8. ASSUME NEW p \in Calls, GetConsumer(p) PROVE OneCall'
    BY <1>8 DEF GetConsumer, Goto, process, library
  <1>9. ASSUME NEW p \in Calls, CloseConsumer(p) PROVE OneCall'
    BY <1>9 DEF CloseConsumer, Goto, process, library
  <1>10. ASSUME NEW p \in Calls, DeleteEntry(p) PROVE OneCall'
    BY <1>10 DEF DeleteEntry, Goto, process, library
  <1>11. ASSUME NEW p \in Calls, GetTopics(p) PROVE OneCall'
    BY <1>11 DEF GetTopics, Goto, process, library
  <1>12. ASSUME NEW p \in Calls, GroupExists(p) PROVE OneCall'
    BY <1>12 DEF GroupExists, Goto, process, library
  <1>13. ASSUME NEW p \in Calls, NewConsumer(p) PROVE OneCall'
    BY <1>13 DEF NewConsumer, Goto, process, library
  <1>14. ASSUME NEW p \in Calls, NewConsumerFails(p) PROVE OneCall'
    BY <1>14 DEF NewConsumerFails, Goto, process, library
  <1>15. ASSUME NEW p \in Calls, AddEntry(p) PROVE OneCall'
    BY <1>15 DEF AddEntry, Goto, process, library
  <1>16. ASSUME NEW p \in Calls, Respond(p) PROVE OneCall'
    BY <1>16 DEF Respond, Goto, process, library
  <1>17. CASE StopConsumers
    BY <1>17 DEF StopConsumers, library
  <1>18. ASSUME NEW c \in Consumers, CloseOnStop(c) PROVE OneCall'
    BY <1>18 DEF CloseOnStop, process
  <1>23. ASSUME NEW p \in Calls, AwaitClose(p) PROVE OneCall'
    BY <1>23 DEF AwaitClose, Goto, process, library
  <1>24. ASSUME NEW c \in Consumers, LeaveGroup(c) PROVE OneCall'
    BY <1>24 DEF LeaveGroup, process
  <1>25. ASSUME NEW c \in Consumers, ChannelEmpty(c) PROVE OneCall'
    BY <1>25 DEF ChannelEmpty, process
  <1>19. CASE Exit
    BY <1>19 DEF Exit, Die, library
  <1>20. CASE Crash
    BY <1>20 DEF Crash, Die, library
  <1>21. CASE UNCHANGED vars
    BY <1>21 DEF vars
  <1>22. QED
    BY <1>1, <1>2, <1>3, <1>4, <1>5, <1>6, <1>7, <1>8, <1>9, <1>10, <1>11, <1>12, <1>13, <1>14, <1>15, <1>16, <1>17, <1>18, <1>19, <1>20, <1>21,
       <1>23, <1>24, <1>25 DEF Next, Step

\* Requests keep to the labels of their operation.
LEMMA ControlStep ==
    ASSUME TypeOK, BootInv, HeldInv, Control, [Next]_vars
    PROVE  Control'
  <1> USE KAssumption DEF TypeOK, Labels, RpcOps, SubscribeOps, StopOps, Requests, BootInv, HeldInv, Holding, Control
  <1>1. CASE InitTasks
    BY <1>1 DEF InitTasks, library
  <1>2. CASE InitTasksFails
    BY <1>2 DEF InitTasksFails, library
  <1>3. ASSUME NEW p \in Calls, NEW t \in Tasks, InitConsumer(p, t) PROVE Control'
    BY <1>3 DEF InitConsumer, Goto, library
  <1>4. CASE StartRpcServer
    BY <1>4 DEF StartRpcServer, library
  <1>5. ASSUME NEW p \in Calls, NEW r \in Requests, r.op # "Init", Receive(p, r) PROVE Control'
    BY <1>5 DEF Receive, Goto, process, library
  <1>6. ASSUME NEW p \in Calls, SetTask(p) PROVE Control'
    BY <1>6 DEF SetTask, Goto, process, library
  <1>7. ASSUME NEW p \in Calls, SetTaskPanics(p) PROVE Control'
    BY <1>7 DEF SetTaskPanics, Die
  <1>8. ASSUME NEW p \in Calls, GetConsumer(p) PROVE Control'
    BY <1>8 DEF GetConsumer, Goto, process, library
  <1>9. ASSUME NEW p \in Calls, CloseConsumer(p) PROVE Control'
    BY <1>9 DEF CloseConsumer, Goto, process, library
  <1>10. ASSUME NEW p \in Calls, DeleteEntry(p) PROVE Control'
    BY <1>10 DEF DeleteEntry, Goto, process, library
  <1>11. ASSUME NEW p \in Calls, GetTopics(p) PROVE Control'
    BY <1>11 DEF GetTopics, Goto, process, library
  <1>12. ASSUME NEW p \in Calls, GroupExists(p) PROVE Control'
    BY <1>12 DEF GroupExists, Goto, process, library
  <1>13. ASSUME NEW p \in Calls, NewConsumer(p) PROVE Control'
    BY <1>13 DEF NewConsumer, Goto, process, library
  <1>14. ASSUME NEW p \in Calls, NewConsumerFails(p) PROVE Control'
    BY <1>14 DEF NewConsumerFails, Goto, process, library
  <1>15. ASSUME NEW p \in Calls, AddEntry(p) PROVE Control'
    BY <1>15 DEF AddEntry, Goto, process, library
  <1>16. ASSUME NEW p \in Calls, Respond(p) PROVE Control'
    BY <1>16 DEF Respond, Goto, process, library
  <1>17. CASE StopConsumers
    BY <1>17 DEF StopConsumers, library
  <1>18. ASSUME NEW c \in Consumers, CloseOnStop(c) PROVE Control'
    BY <1>18 DEF CloseOnStop, process
  <1>23. ASSUME NEW p \in Calls, AwaitClose(p) PROVE Control'
    BY <1>23 DEF AwaitClose, Goto, process, library
  <1>24. ASSUME NEW c \in Consumers, LeaveGroup(c) PROVE Control'
    BY <1>24 DEF LeaveGroup, process
  <1>25. ASSUME NEW c \in Consumers, ChannelEmpty(c) PROVE Control'
    BY <1>25 DEF ChannelEmpty, process
  <1>19. CASE Exit
    BY <1>19 DEF Exit, Die, library
  <1>20. CASE Crash
    BY <1>20 DEF Crash, Die, library
  <1>21. CASE UNCHANGED vars
    BY <1>21 DEF vars
  <1>22. QED
    BY <1>1, <1>2, <1>3, <1>4, <1>5, <1>6, <1>7, <1>8, <1>9, <1>10, <1>11, <1>12, <1>13, <1>14, <1>15, <1>16, <1>17, <1>18, <1>19, <1>20, <1>21,
       <1>23, <1>24, <1>25 DEF Next, Step

\* No step loses a consumer that is still open.
LEMMA OwnedStep ==
    ASSUME TypeOK, BootInv, GroupInv, HeldInv, OneCall, Control, Progress, Owned, [Next]_vars
    PROVE  Owned'
  <1> USE KAssumption DEF TypeOK, Labels, RpcOps, SubscribeOps, StopOps, Requests, BootInv, GroupInv, HeldInv, Holding, Busy, OneCall, Control, Progress, Owned, Free
  <1>1. CASE InitTasks
    BY <1>1 DEF InitTasks, library
  <1>2. CASE InitTasksFails
    BY <1>2 DEF InitTasksFails, library
  <1>3. ASSUME NEW p \in Calls, NEW t \in Tasks, InitConsumer(p, t) PROVE Owned'
    BY <1>3 DEF InitConsumer, Goto, library
  <1>4. CASE StartRpcServer
    BY <1>4 DEF StartRpcServer, library
  <1>5. ASSUME NEW p \in Calls, NEW r \in Requests, r.op # "Init", Receive(p, r) PROVE Owned'
    BY <1>5 DEF Receive, Goto, process, library
  <1>6. ASSUME NEW p \in Calls, SetTask(p) PROVE Owned'
    BY <1>6 DEF SetTask, Goto, process, library
  <1>7. ASSUME NEW p \in Calls, SetTaskPanics(p) PROVE Owned'
    BY <1>7 DEF SetTaskPanics, Die
  <1>8. ASSUME NEW p \in Calls, GetConsumer(p) PROVE Owned'
    BY <1>8 DEF GetConsumer, Goto, process, library
  <1>9. ASSUME NEW p \in Calls, CloseConsumer(p) PROVE Owned'
    BY <1>9 DEF CloseConsumer, Goto, process, library
  <1>10. ASSUME NEW p \in Calls, DeleteEntry(p) PROVE Owned'
    BY <1>10 DEF DeleteEntry, Goto, process, library
  <1>11. ASSUME NEW p \in Calls, GetTopics(p) PROVE Owned'
    BY <1>11 DEF GetTopics, Goto, process, library
  <1>12. ASSUME NEW p \in Calls, GroupExists(p) PROVE Owned'
    BY <1>12 DEF GroupExists, Goto, process, library
  <1>13. ASSUME NEW p \in Calls, NewConsumer(p) PROVE Owned'
    BY <1>13 DEF NewConsumer, Goto, process, library
  <1>14. ASSUME NEW p \in Calls, NewConsumerFails(p) PROVE Owned'
    BY <1>14 DEF NewConsumerFails, Goto, process, library
  <1>15. ASSUME NEW p \in Calls, AddEntry(p) PROVE Owned'
    BY <1>15 DEF AddEntry, Goto, process, library
  <1>16. ASSUME NEW p \in Calls, Respond(p) PROVE Owned'
    BY <1>16 DEF Respond, Goto, process, library
  <1>17. CASE StopConsumers
    BY <1>17 DEF StopConsumers, library
  <1>18. ASSUME NEW c \in Consumers, CloseOnStop(c) PROVE Owned'
    BY <1>18 DEF CloseOnStop, process
  <1>23. ASSUME NEW p \in Calls, AwaitClose(p) PROVE Owned'
    BY <1>23 DEF AwaitClose, Goto, process, library
  <1>24. ASSUME NEW c \in Consumers, LeaveGroup(c) PROVE Owned'
    BY <1>24 DEF LeaveGroup, process
  <1>25. ASSUME NEW c \in Consumers, ChannelEmpty(c) PROVE Owned'
    BY <1>25 DEF ChannelEmpty, process
  <1>19. CASE Exit
    BY <1>19 DEF Exit, Die, library
  <1>20. CASE Crash
    BY <1>20 DEF Crash, Die, library
  <1>21. CASE UNCHANGED vars
    BY <1>21 DEF vars
  <1>22. QED
    BY <1>1, <1>2, <1>3, <1>4, <1>5, <1>6, <1>7, <1>8, <1>9, <1>10, <1>11, <1>12, <1>13, <1>14, <1>15, <1>16, <1>17, <1>18, <1>19, <1>20, <1>21,
       <1>23, <1>24, <1>25 DEF Next, Step

\* Nobody changes the entry a goroutine relies on.
LEMMA ProgressStep ==
    ASSUME TypeOK, BootInv, GroupInv, HeldInv, OneCall, Control, Progress, [Next]_vars
    PROVE  Progress'
  <1> USE KAssumption DEF TypeOK, Labels, RpcOps, SubscribeOps, StopOps, Requests, BootInv, GroupInv, HeldInv, Holding, Busy, OneCall, Control, Progress, Free
  <1>1. CASE InitTasks
    BY <1>1 DEF InitTasks, library
  <1>2. CASE InitTasksFails
    BY <1>2 DEF InitTasksFails, library
  <1>3. ASSUME NEW p \in Calls, NEW t \in Tasks, InitConsumer(p, t) PROVE Progress'
    BY <1>3 DEF InitConsumer, Goto, library
  <1>4. CASE StartRpcServer
    BY <1>4 DEF StartRpcServer, library
  <1>5. ASSUME NEW p \in Calls, NEW r \in Requests, r.op # "Init", Receive(p, r) PROVE Progress'
    BY <1>5 DEF Receive, Goto, process, library
  <1>6. ASSUME NEW p \in Calls, SetTask(p) PROVE Progress'
    BY <1>6 DEF SetTask, Goto, process, library
  <1>7. ASSUME NEW p \in Calls, SetTaskPanics(p) PROVE Progress'
    BY <1>7 DEF SetTaskPanics, Die
  <1>8. ASSUME NEW p \in Calls, GetConsumer(p) PROVE Progress'
    BY <1>8 DEF GetConsumer, Goto, process, library
  <1>9. ASSUME NEW p \in Calls, CloseConsumer(p) PROVE Progress'
    BY <1>9 DEF CloseConsumer, Goto, process, library
  <1>10. ASSUME NEW p \in Calls, DeleteEntry(p) PROVE Progress'
    BY <1>10 DEF DeleteEntry, Goto, process, library
  <1>11. ASSUME NEW p \in Calls, GetTopics(p) PROVE Progress'
    BY <1>11 DEF GetTopics, Goto, process, library
  <1>12. ASSUME NEW p \in Calls, GroupExists(p) PROVE Progress'
    BY <1>12 DEF GroupExists, Goto, process, library
  <1>13. ASSUME NEW p \in Calls, NewConsumer(p) PROVE Progress'
    BY <1>13 DEF NewConsumer, Goto, process, library
  <1>14. ASSUME NEW p \in Calls, NewConsumerFails(p) PROVE Progress'
    BY <1>14 DEF NewConsumerFails, Goto, process, library
  <1>15. ASSUME NEW p \in Calls, AddEntry(p) PROVE Progress'
    BY <1>15 DEF AddEntry, Goto, process, library
  <1>16. ASSUME NEW p \in Calls, Respond(p) PROVE Progress'
    BY <1>16 DEF Respond, Goto, process, library
  <1>17. CASE StopConsumers
    BY <1>17 DEF StopConsumers, library
  <1>18. ASSUME NEW c \in Consumers, CloseOnStop(c) PROVE Progress'
    BY <1>18 DEF CloseOnStop, process
  <1>23. ASSUME NEW p \in Calls, AwaitClose(p) PROVE Progress'
    BY <1>23 DEF AwaitClose, Goto, process, library
  <1>24. ASSUME NEW c \in Consumers, LeaveGroup(c) PROVE Progress'
    BY <1>24 DEF LeaveGroup, process
  <1>25. ASSUME NEW c \in Consumers, ChannelEmpty(c) PROVE Progress'
    BY <1>25 DEF ChannelEmpty, process
  <1>19. CASE Exit
    BY <1>19 DEF Exit, Die, library
  <1>20. CASE Crash
    BY <1>20 DEF Crash, Die, library
  <1>21. CASE UNCHANGED vars
    BY <1>21 DEF vars
  <1>22. QED
    BY <1>1, <1>2, <1>3, <1>4, <1>5, <1>6, <1>7, <1>8, <1>9, <1>10, <1>11, <1>12, <1>13, <1>14, <1>15, <1>16, <1>17, <1>18, <1>19, <1>20, <1>21,
       <1>23, <1>24, <1>25 DEF Next, Step

\* A task is not forgotten while it is consumed.
LEMMA KnownStep ==
    ASSUME TypeOK, BootInv, GroupInv, HeldInv, OneCall, Control, Progress, Owned, Known, [Next]_vars
    PROVE  Known'
  <1> USE KAssumption DEF TypeOK, Labels, RpcOps, SubscribeOps, StopOps, Requests, BootInv, GroupInv, HeldInv, Holding, Busy, OneCall, Control, Progress, Owned, Known, ConsumedTaskIsKnown, OpenConsumers
  <1>1. CASE InitTasks
    BY <1>1 DEF InitTasks, library
  <1>2. CASE InitTasksFails
    BY <1>2 DEF InitTasksFails, library
  <1>3. ASSUME NEW p \in Calls, NEW t \in Tasks, InitConsumer(p, t) PROVE Known'
    BY <1>3 DEF InitConsumer, Goto, library
  <1>4. CASE StartRpcServer
    BY <1>4 DEF StartRpcServer, library
  <1>5. ASSUME NEW p \in Calls, NEW r \in Requests, r.op # "Init", Receive(p, r) PROVE Known'
    BY <1>5 DEF Receive, Goto, process, library
  <1>6. ASSUME NEW p \in Calls, SetTask(p) PROVE Known'
    BY <1>6 DEF SetTask, Goto, process, library
  <1>7. ASSUME NEW p \in Calls, SetTaskPanics(p) PROVE Known'
    BY <1>7 DEF SetTaskPanics, Die
  <1>8. ASSUME NEW p \in Calls, GetConsumer(p) PROVE Known'
    BY <1>8 DEF GetConsumer, Goto, process, library
  <1>9. ASSUME NEW p \in Calls, CloseConsumer(p) PROVE Known'
    BY <1>9 DEF CloseConsumer, Goto, process, library
  <1>10. ASSUME NEW p \in Calls, DeleteEntry(p) PROVE Known'
    BY <1>10 DEF DeleteEntry, Goto, process, library
  <1>11. ASSUME NEW p \in Calls, GetTopics(p) PROVE Known'
    BY <1>11 DEF GetTopics, Goto, process, library
  <1>12. ASSUME NEW p \in Calls, GroupExists(p) PROVE Known'
    BY <1>12 DEF GroupExists, Goto, process, library
  <1>13. ASSUME NEW p \in Calls, NewConsumer(p) PROVE Known'
    BY <1>13 DEF NewConsumer, Goto, process, library
  <1>14. ASSUME NEW p \in Calls, NewConsumerFails(p) PROVE Known'
    BY <1>14 DEF NewConsumerFails, Goto, process, library
  <1>15. ASSUME NEW p \in Calls, AddEntry(p) PROVE Known'
    BY <1>15 DEF AddEntry, Goto, process, library
  <1>16. ASSUME NEW p \in Calls, Respond(p) PROVE Known'
    BY <1>16 DEF Respond, Goto, process, library
  <1>17. CASE StopConsumers
    BY <1>17 DEF StopConsumers, library
  <1>18. ASSUME NEW c \in Consumers, CloseOnStop(c) PROVE Known'
    BY <1>18 DEF CloseOnStop, process
  <1>23. ASSUME NEW p \in Calls, AwaitClose(p) PROVE Known'
    BY <1>23 DEF AwaitClose, Goto, process, library
  <1>24. ASSUME NEW c \in Consumers, LeaveGroup(c) PROVE Known'
    BY <1>24 DEF LeaveGroup, process
  <1>25. ASSUME NEW c \in Consumers, ChannelEmpty(c) PROVE Known'
    BY <1>25 DEF ChannelEmpty, process
  <1>19. CASE Exit
    BY <1>19 DEF Exit, Die, library
  <1>20. CASE Crash
    BY <1>20 DEF Crash, Die, library
  <1>21. CASE UNCHANGED vars
    BY <1>21 DEF vars
  <1>22. QED
    BY <1>1, <1>2, <1>3, <1>4, <1>5, <1>6, <1>7, <1>8, <1>9, <1>10, <1>11, <1>12, <1>13, <1>14, <1>15, <1>16, <1>17, <1>18, <1>19, <1>20, <1>21,
       <1>23, <1>24, <1>25 DEF Next, Step

-----------------------------------------------------------------------------
\* The invariants hold in the initial state.
LEMMA InitInv == Init => SerialInv
  BY KAssumption DEF Init, SerialInv, EntryInv, TypeOK, BootInv, GroupInv, HeldInv,
     NoStuckEntry, OneCall, Owned, Control, Progress, Known, ConsumedTaskIsKnown,
     OpenConsumers, Busy, Holding, Labels

\* However the RPCs overlap, EntryInv is an invariant.
THEOREM EntryInvariant == Spec => []EntryInv
  <1>1. Init => EntryInv
    BY InitInv DEF SerialInv
  <1>2. EntryInv /\ [Next]_vars => EntryInv'
    BY TypeStep, HeldStep, EntryStep DEF EntryInv
  <1> QED
    BY <1>1, <1>2, PTL DEF Spec

\* Without overlapping RPCs, SerialInv is one.
THEOREM SerialInvariant == ~Overlap => (Spec => []SerialInv)
  <1> SUFFICES ASSUME ~Overlap PROVE Spec => []SerialInv
    OBVIOUS
  <1>1. SerialInv /\ [Next]_vars => SerialInv'
    BY TypeStep, HeldStep, EntryStep, OneCallStep, ControlStep, OwnedStep,
       ProgressStep, KnownStep DEF SerialInv, EntryInv
  <1> QED
    BY <1>1, InitInv, PTL DEF Spec

-----------------------------------------------------------------------------
\* Every variable of the dispatcher keeps its type, and only an idle goroutine
\* runs no request.
THEOREM TypeCorrect == Spec => []TypeOK
  <1>1. EntryInv => TypeOK
    BY DEF EntryInv
  <1> QED
    BY <1>1, EntryInvariant, PTL

\* Whatever RPCs overlap, a closed consumer never stays in the map, where it
\* would keep AddTask and StartTask from ever subscribing its task again.
THEOREM EntriesAreNotStuck == Spec => []NoStuckEntry
  <1>1. EntryInv => NoStuckEntry
    BY DEF EntryInv
  <1> QED
    BY <1>1, EntryInvariant, PTL

\* Two open consumers of a task are one and the same.
LEMMA OwnerIsUnique == SerialInv => OneConsumer
  BY KAssumption DEF SerialInv, EntryInv, TypeOK, HeldInv, Holding, OneCall, Busy,
     Owned, Progress, OneConsumer, OpenConsumers

\* A task whose entry is gone is consumed only by the goroutine about to add one.
LEMMA NoEntryNoConsumer ==
    ASSUME SerialInv, NEW p \in Calls, pc[p] # "idle", pc[p] # "add",
           managed[req[p].task] = None
    PROVE  OpenConsumers(req[p].task) = {}
  BY KAssumption DEF SerialInv, EntryInv, TypeOK, HeldInv, Holding, OneCall, Busy,
     Owned, OpenConsumers, Requests

\* Without overlapping RPCs, no task is ever consumed twice.
THEOREM AtMostOneConsumer == ~Overlap => (Spec => []OneConsumer)
  BY OwnerIsUnique, SerialInvariant, PTL

LEMMA StopsTakeEffect ==
    ASSUME SerialInv, NEW p \in Calls, pc[p] = "reply", req[p].op \in StopOps
    PROVE  OpenConsumers(req[p].task) = {}
  BY NoEntryNoConsumer DEF SerialInv, Progress

\* Without overlapping RPCs, no consumer of a task is in its group any more when
\* StopTask or DeleteTask answers.
THEOREM StopsAreEffective == ~Overlap => (Spec => []StopTakesEffect)
  <1>1. SerialInv => StopTakesEffect
    BY StopsTakeEffect DEF StopTakesEffect, Handling, LateConsumers
  <1> QED
    BY <1>1, SerialInvariant, PTL

LEMMA UpdatesTakeEffect == SerialInv => UpdateTakesEffect
  <1>1. ASSUME SerialInv, NEW p \in Calls, pc[p] = "reply", req[p].op = "Update",
               NEW c \in OpenConsumers(req[p].task)
        PROVE  joined[c] = req[p].fields
    <2>1. req[p].task \in Tasks /\ c \in Consumers /\ Group(c) = req[p].task /\ joined[c] # None
      BY <1>1 DEF SerialInv, EntryInv, TypeOK, OpenConsumers, Requests
    <2>2. managed[req[p].task] = c
      BY <1>1, <2>1 DEF SerialInv, EntryInv, HeldInv, Holding, OneCall, Busy, Owned
    <2>3. managed[req[p].task] # None
      BY <2>1, <2>2, KAssumption
    <2> QED
      BY <1>1, <2>1, <2>2, <2>3 DEF SerialInv, Progress
  <1> QED
    BY <1>1 DEF UpdateTakesEffect

\* Without overlapping RPCs, UpdateTask answers with no consumer left on the
\* fields the task had before.
THEOREM UpdatesAreEffective == ~Overlap => (Spec => []UpdateTakesEffect)
  BY UpdatesTakeEffect, SerialInvariant, PTL

\* Without overlapping RPCs, a task missing from the task map is consumed only
\* until its DeleteTask answers.
THEOREM ConsumedTasksAreKnown == ~Overlap => (Spec => []ConsumedTaskIsKnown)
  <1>1. SerialInv => ConsumedTaskIsKnown
    BY DEF SerialInv, Known, ConsumedTaskIsKnown, Handling, LateConsumers
  <1> QED
    BY <1>1, SerialInvariant, PTL

-----------------------------------------------------------------------------
(* The dispatcher implements the service of TaskSubscription.              *)

\* The request a task waits for is the one its only busy goroutine runs.
LEMMA PendingIsBusy ==
    ASSUME OneCall, NEW p \in Calls, NEW t \in Tasks, Busy(p, t)
    PROVE  PendingRequest(t) = req[p]
  BY DEF OneCall, PendingRequest

Requested == [t \in Tasks |-> PendingRequest(t)]
Subscribed == [t \in Tasks |-> {[id |-> c, fields |-> joined[c]] : c \in OpenConsumers(t)}]

\* While no goroutine begins or ends, the tasks wait for the same requests.
LEMMA RequestsStay ==
    ASSUME UNCHANGED req, \A p \in Calls : (pc'[p] = "idle") <=> (pc[p] = "idle")
    PROVE  Requested' = Requested
  <1>1. ASSUME NEW t \in Tasks PROVE PendingRequest(t)' = PendingRequest(t)
    BY DEF PendingRequest, Busy
  <1> QED
    BY <1>1 DEF Requested

Unfinished == [t \in Tasks |-> LateConsumers(t)]

\* While no consumer joins or leaves, the tasks have the same subscriptions.
LEMMA SubscriptionsStay ==
    ASSUME UNCHANGED <<joined, late>>
    PROVE  Subscribed' = Subscribed /\ Unfinished' = Unfinished
  BY DEF OpenConsumers, Subscribed, LateConsumers, Unfinished

\* A goroutine that starts to run a request makes it the one its task waits for.
LEMMA Begins ==
    ASSUME TypeOK, NEW p \in Calls, NEW r \in Requests, pc[p] = "idle", pc'[p] # "idle",
           \A q \in Calls : ~Busy(q, r.task),
           req' = [req EXCEPT ![p] = r],
           \A q \in Calls : q # p => pc'[q] = pc[q]
    PROVE  /\ Requested[r.task] = None
           /\ Requested' = [Requested EXCEPT ![r.task] = r]
  <1>1. r.task \in Tasks /\ req'[p] = r /\ \A q \in Calls : q # p => req'[q] = req[q]
    BY DEF TypeOK, Requests
  <1>2. PendingRequest(r.task) = None
    BY DEF PendingRequest
  <1>3. PendingRequest(r.task)' = r
    BY <1>1 DEF PendingRequest, Busy
  <1>4. ASSUME NEW t \in Tasks, t # r.task PROVE PendingRequest(t)' = PendingRequest(t)
    <2>1. \A q \in Calls : Busy(q, t)' <=> Busy(q, t)
      BY <1>1, <1>4 DEF Busy
    <2>2. \A q \in Calls : Busy(q, t) => req'[q] = req[q]
      BY <1>1 DEF Busy
    <2> QED
      BY <2>1, <2>2 DEF PendingRequest
  <1> QED
    BY <1>1, <1>2, <1>3, <1>4 DEF Requested

\* Each step of the dispatcher is a step of the service, or changes nothing of it.
LEMMA StepRefines ==
    ASSUME ~Overlap, SerialInv, [Next]_vars
    PROVE  [Service!Next]_(Service!vars)
  <1> USE KAssumption DEF Service!vars
  <1> DEFINE Stays == /\ Requested' = Requested /\ Subscribed' = Subscribed
                      /\ Unfinished' = Unfinished
             Leaving == phase = "stopping"
  <1>0. TypeOK /\ OneCall /\ OneConsumer
    BY OwnerIsUnique DEF SerialInv, EntryInv
  <1>1. ASSUME Stays, Leaving' = Leaving PROVE [Service!Next]_(Service!vars)
    BY <1>1 DEF Requested, Subscribed, Unfinished, LateConsumers
  <1>2. CASE InitTasks
    BY <1>1, <1>2, RequestsStay, SubscriptionsStay DEF InitTasks, library
  <1>3. CASE InitTasksFails
    BY <1>1, <1>3, RequestsStay, SubscriptionsStay DEF InitTasksFails, library
  <1>4. ASSUME NEW p \in Calls, NEW t \in Tasks, InitConsumer(p, t)
        PROVE  [Service!Next]_(Service!vars)
    <2> DEFINE r == [op |-> "Init", task |-> t, fields |-> taskMap[t]]
    <2>1. r \in Requests /\ r.task = t
      BY <1>0, <1>4 DEF InitConsumer, TypeOK, Requests
    <2>2. /\ pc[p] = "idle" /\ pc'[p] # "idle" /\ req' = [req EXCEPT ![p] = r]
          /\ \A q \in Calls : ~Busy(q, r.task)
          /\ \A q \in Calls : q # p => pc'[q] = pc[q]
      BY <1>0, <1>4, <2>1 DEF InitConsumer, Goto, TypeOK, OneCall
    <2>5. Requested[t] = None /\ Requested' = [Requested EXCEPT ![t] = r]
      BY <1>0, <2>1, <2>2, Begins
    <2>3. Subscribed' = Subscribed /\ Unfinished' = Unfinished /\ Leaving' = Leaving
      BY <1>4 DEF InitConsumer, Subscribed, OpenConsumers, Unfinished, LateConsumers, library
    <2>4. Service!Receive(r)
      BY <2>1, <2>5, <2>3 DEF Service!Receive, Requested, Subscribed, Unfinished, LateConsumers
    <2> QED
      BY <2>1, <2>4 DEF Service!Next
  <1>5. CASE StartRpcServer
    BY <1>1, <1>5, RequestsStay, SubscriptionsStay DEF StartRpcServer, library
  <1>6. ASSUME NEW p \in Calls, NEW r \in Requests, Receive(p, r)
        PROVE  [Service!Next]_(Service!vars)
    <2>3. /\ pc[p] = "idle" /\ pc'[p] # "idle" /\ req' = [req EXCEPT ![p] = r]
          /\ \A q \in Calls : ~Busy(q, r.task)
          /\ \A q \in Calls : q # p => pc'[q] = pc[q]
      BY <1>0, <1>6 DEF Receive, Goto, TypeOK
    <2>1. Requested[r.task] = None /\ Requested' = [Requested EXCEPT ![r.task] = r]
      BY <1>0, <2>3, Begins
    <2>2. Subscribed' = Subscribed /\ Unfinished' = Unfinished /\ Leaving' = Leaving
      BY <1>6 DEF Receive, process, Subscribed, OpenConsumers, Unfinished, LateConsumers, library
    <2>4. Service!Receive(r)
      BY <2>1, <2>2 DEF Service!Receive, Requested, Subscribed, Unfinished, LateConsumers
    <2> QED
      BY <2>4 DEF Service!Next
  <1>7. ASSUME Die PROVE [Service!Next]_(Service!vars)
    <2>1. Requested' = [t \in Tasks |-> None] /\ Subscribed' = [t \in Tasks |-> {}] /\ ~Leaving'
          /\ Unfinished' = [t \in Tasks |-> {}]
      BY <1>7 DEF Die, Requested, PendingRequest, Busy, Subscribed, OpenConsumers, Unfinished,
         LateConsumers
    <2>2. Service!Die
      BY <2>1 DEF Service!Die, Requested, Subscribed, Unfinished, LateConsumers
    <2> QED
      BY <2>2 DEF Service!Next
  <1>8. ASSUME NEW p \in Calls,
               \/ SetTask(p) \/ GetConsumer(p) \/ DeleteEntry(p) \/ GetTopics(p)
               \/ GroupExists(p) \/ NewConsumerFails(p) \/ AddEntry(p)
               \/ CloseConsumer(p) \/ AwaitClose(p)
        PROVE  [Service!Next]_(Service!vars)
    <2>1. UNCHANGED <<joined, late, req, phase>>
      BY <1>8 DEF SetTask, GetConsumer, DeleteEntry, GetTopics, GroupExists,
         NewConsumerFails, AddEntry, CloseConsumer, AwaitClose, process, library
    <2>2. \A q \in Calls : (pc'[q] = "idle") <=> (pc[q] = "idle")
      BY <1>0, <1>8 DEF SetTask, GetConsumer, DeleteEntry, GetTopics, GroupExists,
         NewConsumerFails, AddEntry, CloseConsumer, AwaitClose, Goto, TypeOK
    <2> QED
      BY <1>1, <2>1, <2>2, RequestsStay, SubscriptionsStay
  <1>9. ASSUME NEW p \in Calls, NewConsumer(p) PROVE [Service!Next]_(Service!vars)
    <2>1. PICK t \in Tasks : t = req[p].task
      BY <1>0, <1>9 DEF NewConsumer, TypeOK, Requests
    <2>2. pc[p] = "join" /\ Busy(p, t) /\ managed[t] = None /\ req[p] \in Requests
      BY <1>0, <1>9, <2>1 DEF NewConsumer, TypeOK, Busy, SerialInv, Progress
    <2>3. PendingRequest(t) = req[p] /\ req[p] # None /\ req[p].op \notin StopOps
      BY <1>0, <2>2, PendingIsBusy DEF SerialInv, Control
    <2>4. OpenConsumers(t) = {}
      BY <2>1, <2>2, NoEntryNoConsumer
    <2>5. PICK c \in Consumers : Group(c) = t /\ c \notin late
                                 /\ joined' = [joined EXCEPT ![c] = req[p].fields]
      BY <1>9, <2>1 DEF NewConsumer, Free
    <2>c. c \notin LateConsumers(t) /\ Unfinished' = Unfinished
      BY <1>9, <2>5 DEF NewConsumer, LateConsumers, Unfinished
    <2>6. joined'[c] = req[p].fields /\ req[p].fields # None
          /\ \A d \in Consumers : d # c => joined'[d] = joined[d]
      BY <1>0, <2>2, <2>5 DEF TypeOK, Requests
    <2>7. OpenConsumers(t)' = {c}
      BY <2>4, <2>5, <2>6 DEF OpenConsumers
    <2>8. \A u \in Tasks : u # t =>
             OpenConsumers(u)' = OpenConsumers(u) /\ \A d \in OpenConsumers(u) : joined'[d] = joined[d]
      BY <2>5, <2>6 DEF OpenConsumers
    <2> DEFINE Subs(u) == {[id |-> d, fields |-> joined[d]] : d \in OpenConsumers(u)}
    <2>a. Subs(t) = {} /\ Subs(t)' = {[id |-> c, fields |-> req[p].fields]}
      BY <2>4, <2>6, <2>7
    <2>b. ASSUME NEW u \in Tasks, u # t PROVE Subs(u)' = Subs(u)
      BY <2>8, <2>b
    <2>9. Subscribed[t] = {} /\ Subscribed' =
             [Subscribed EXCEPT ![t] = {[id |-> c, fields |-> req[p].fields]}]
      BY <2>a, <2>b DEF Subscribed
    <2>10. Requested' = Requested /\ Leaving' = Leaving
      BY <1>0, <1>9, RequestsStay DEF NewConsumer, Goto, process, TypeOK
    <2>11. Service!Subscribe(t)
      BY <2>2, <2>3, <2>9, <2>10, <2>c DEF Service!Subscribe, Requested, Subscribed, Unfinished, LateConsumers
    <2> QED
      BY <2>11 DEF Service!Next
  <1>10. ASSUME NEW c \in Consumers, LeaveGroup(c) PROVE [Service!Next]_(Service!vars)
    <2>1. PICK t \in Tasks : t = Group(c)
      BY DEF Consumers, Group
    <2>2. Requested' = Requested /\ Leaving' = Leaving
      BY <1>10, RequestsStay DEF LeaveGroup, process
    <2>3. joined[c] # None /\ joined'[c] = None /\ \A d \in Consumers : d # c => joined'[d] = joined[d]
      BY <1>0, <1>10 DEF LeaveGroup, TypeOK
    <2>4. OpenConsumers(t) = {c} /\ OpenConsumers(t)' = {}
      BY <1>0, <2>1, <2>3 DEF OneConsumer, OpenConsumers
    <2>5. \A u \in Tasks : u # t =>
             OpenConsumers(u)' = OpenConsumers(u) /\ \A d \in OpenConsumers(u) : joined'[d] = joined[d]
      BY <2>1, <2>3 DEF OpenConsumers
    <2> DEFINE Subs(u) == {[id |-> d, fields |-> joined[d]] : d \in OpenConsumers(u)}
    <2>6. ASSUME NEW u \in Tasks, u # t PROVE Subs(u)' = Subs(u)
      BY <2>5, <2>6
    <2>7. Subs(t) = {[id |-> c, fields |-> joined[c]]} /\ Subs(t)' = {}
      BY <2>4
    <2>8. Subscribed' = [Subscribed EXCEPT ![t] = {}]
      BY <2>6, <2>7 DEF Subscribed
    <2>9. {x.id : x \in Subscribed[t]} = {c}
      <3>1. Subscribed[t] = {[id |-> c, fields |-> joined[c]]}
        BY <2>7 DEF Subscribed
      <3> QED
        BY <3>1
    <2>10. \A u \in Tasks : u # t => LateConsumers(u)' = LateConsumers(u)
      BY <1>10, <2>1 DEF LeaveGroup, LateConsumers
    <2>11. PICK busy \in SUBSET {c} : LateConsumers(t)' = LateConsumers(t) \cup busy
      <3>1. CASE late' = late
        <4>1. LateConsumers(t)' = LateConsumers(t) \cup {}
          BY <3>1 DEF LateConsumers
        <4> QED
          BY <4>1
      <3>2. CASE late' = late \cup {c}
        <4>1. LateConsumers(t)' = LateConsumers(t) \cup {c}
          BY <2>1, <3>2 DEF LateConsumers
        <4> QED
          BY <4>1
      <3> QED
        BY <1>10, <3>1, <3>2 DEF LeaveGroup
    <2>12. Unfinished' = [Unfinished EXCEPT ![t] = @ \cup busy]
      BY <2>10, <2>11 DEF Unfinished
    <2>13. Leaving \/ (Requested[t] # None /\ Requested[t].op \in StopOps \cup {"Update"})
      <3>1. CASE c \in closing
        BY <3>1 DEF SerialInv, EntryInv, GroupInv
      <3>2. ASSUME NEW p \in Calls, pc[p] = "wait", held[p] = c
            PROVE  Requested[t] # None /\ Requested[t].op \in StopOps \cup {"Update"}
        <4>1. req[p] \in Requests /\ req[p].task = t /\ Busy(p, t)
          BY <2>1, <3>2 DEF SerialInv, EntryInv, TypeOK, HeldInv, Holding, Busy
        <4>2. req[p].op \in StopOps \cup {"Update"} /\ req[p] # None
          BY <3>2, <4>1 DEF SerialInv, Control, Requests, RpcOps, SubscribeOps, StopOps
        <4> QED
          BY <1>0, <4>1, <4>2, PendingIsBusy DEF Requested
      <3> QED
        BY <1>10, <3>1, <3>2 DEF LeaveGroup, SerialInv, EntryInv, HeldInv
    <2>14. Service!Unsubscribe(t)
      BY <2>2, <2>8, <2>9, <2>12, <2>13 DEF Service!Unsubscribe, Requested, Subscribed,
         Unfinished, LateConsumers
    <2> QED
      BY <2>14 DEF Service!Next
  <1>11. ASSUME NEW c \in Consumers, ChannelEmpty(c) PROVE [Service!Next]_(Service!vars)
    <2>1. PICK t \in Tasks : t = Group(c)
      BY DEF Consumers, Group
    <2>2. Requested' = Requested /\ Leaving' = Leaving
      BY <1>11, RequestsStay DEF ChannelEmpty, process
    <2>3. Subscribed' = Subscribed
      BY <1>11 DEF ChannelEmpty, Subscribed, OpenConsumers
    <2>4. /\ c \in LateConsumers(t) /\ LateConsumers(t)' = LateConsumers(t) \ {c}
          /\ \A u \in Tasks : u # t => LateConsumers(u)' = LateConsumers(u)
      BY <1>11, <2>1 DEF ChannelEmpty, LateConsumers
    <2>5. Unfinished' = [Unfinished EXCEPT ![t] = @ \ {c}]
      BY <2>4 DEF Unfinished
    <2>6. Service!Finish(t)
      BY <2>2, <2>3, <2>4, <2>5 DEF Service!Finish, Requested, Subscribed, Unfinished, LateConsumers
    <2> QED
      BY <2>6 DEF Service!Next
  <1>12. ASSUME NEW c \in Consumers, CloseOnStop(c) PROVE [Service!Next]_(Service!vars)
    BY <1>1, <1>12, RequestsStay, SubscriptionsStay DEF CloseOnStop, process
  <1>13. ASSUME NEW p \in Calls, Respond(p) PROVE [Service!Next]_(Service!vars)
    <2>1. PICK t \in Tasks : t = req[p].task
      BY <1>0, <1>13 DEF Respond, TypeOK, Requests
    <2>2. pc[p] = "reply" /\ Busy(p, t) /\ req[p] \in Requests /\ req[p] # None
      BY <1>0, <1>13, <2>1 DEF Respond, TypeOK, Busy
    <2>3. Requested[t] = req[p]
      BY <1>0, <2>2, PendingIsBusy DEF Requested
    <2>4. pc'[p] = "idle" /\ \A q \in Calls : q # p => pc'[q] = pc[q] /\ req'[q] = req[q]
      BY <1>0, <1>13 DEF Respond, Goto, TypeOK
    <2>5. \A q \in Calls : ~Busy(q, t)'
      BY <1>0, <2>2, <2>4 DEF OneCall, Busy
    <2>6. PendingRequest(t)' = None
      BY <2>5 DEF PendingRequest
    <2>7. ASSUME NEW u \in Tasks, u # t PROVE PendingRequest(u)' = PendingRequest(u)
      <3>1. \A q \in Calls : Busy(q, u)' <=> Busy(q, u)
        BY <2>1, <2>4, <2>7 DEF Busy
      <3>2. \A q \in Calls : Busy(q, u) => req'[q] = req[q]
        BY <2>1, <2>4, <2>7 DEF Busy
      <3> QED
        BY <3>1, <3>2 DEF PendingRequest
    <2>8. Requested' = [Requested EXCEPT ![t] = None]
      BY <2>6, <2>7 DEF Requested
    <2>9. Subscribed' = Subscribed /\ Unfinished' = Unfinished /\ Leaving' = Leaving
      BY <1>13, SubscriptionsStay DEF Respond, process, library
    <2>10. UpdateTakesEffect
      BY UpdatesTakeEffect
    <2>11. req[p].op \in StopOps => Subscribed[t] = {}
      BY <2>1, <2>2, StopsTakeEffect DEF Subscribed
    <2>12. req[p].op = "Update" => \A s \in Subscribed[t] : s.fields = req[p].fields
      BY <2>1, <2>2, <2>10 DEF UpdateTakesEffect, Subscribed
    <2>13. Service!Respond(t)
      BY <2>1, <2>2, <2>3, <2>8, <2>9, <2>11, <2>12
         DEF Service!Respond, Service!InEffect, Requested, Subscribed, Unfinished, LateConsumers
    <2> QED
      BY <2>13 DEF Service!Next
  <1>14. CASE StopConsumers
    <2>1. Requested' = Requested /\ Subscribed' = Subscribed /\ Unfinished' = Unfinished
          /\ Leaving' = TRUE
      BY <1>14, RequestsStay, SubscriptionsStay DEF StopConsumers, library
    <2>2. Service!Leave
      BY <2>1 DEF Service!Leave, Requested, Subscribed, Unfinished, LateConsumers
    <2> QED
      BY <2>2 DEF Service!Next
  <1>15. CASE UNCHANGED vars
    BY <1>1, <1>15, RequestsStay, SubscriptionsStay DEF vars
  <1>16. ASSUME NEW p \in Calls, SetTaskPanics(p) PROVE Die
    BY <1>16 DEF SetTaskPanics
  <1>17. Exit \/ Crash => Die
    BY DEF Exit, Crash
  <1> QED
    BY <1>2, <1>3, <1>4, <1>5, <1>6, <1>7, <1>8, <1>9, <1>10, <1>11, <1>12, <1>13, <1>14,
       <1>15, <1>16, <1>17 DEF Next, Step

\* The dispatcher answers the monitor as TaskSubscription promises, when the
\* monitor's RPCs about one task come one after the other.
THEOREM DispatcherImplementsService == ~Overlap => (Spec => ServiceSpec)
  <1> SUFFICES ASSUME ~Overlap PROVE Spec => ServiceSpec
    OBVIOUS
  <1>1. Init => Service!Init
    BY DEF Init, Service!Init, PendingRequest, Busy, OpenConsumers, LateConsumers
  <1>2. SerialInv /\ [Next]_vars => [Service!Next]_(Service!vars)
    BY StepRefines
  <1> QED
    BY <1>1, <1>2, SerialInvariant, PTL DEF Spec, ServiceSpec, Service!Spec
=============================================================================
