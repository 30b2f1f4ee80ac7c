------------------------- MODULE MessagePushProofs -------------------------
(***************************************************************************)
(* Proofs about MessagePush, for every set of messages, handlers, timeouts *)
(* and settings, any number of crashes, and late answers or not.           *)
(***************************************************************************)
EXTENDS MessagePush, FiniteSetTheorems, TLAPS

\* A handler finishes a message only after the endpoint's success, or without
\* having found its task.
Reasons ==
    /\ LeavesForAReason
    /\ \A h \in Handlers : pc[h] = "finish" => msg[h] \in confirmed \cup dropped

\* As long as nothing has cut an attempt at a message short, the handler that
\* nsqd has given the message to is the only one that has it.
Sole ==
    \A m \in Messages \ interrupted : \A h \in Handlers :
       msg[h] = m => /\ state[m] = "inflight"
                     /\ \A g \in Handlers : msg[g] = m => g = h

\* Such a message, once confirmed, has left or is about to.
Settled ==
    \A m \in confirmed \ interrupted :
       \/ state[m] = "finished"
       \/ \E h \in Handlers : msg[h] = m /\ pc[h] = "finish"

\* The handlers that may still post a message, each in an attempt of its own.
Pending(m) == {h \in Handlers : msg[h] = m /\ pc[h] \in {"get", "lookup", "create", "post"}}

\* The pushes of a message that have been and may be are no more than its attempts,
\* and no more than some consumer allowed; every consumer allows what a task asked for.
Counted ==
    /\ \A t \in Tasks : limit[t] # None => \E s \in Settings : limit[t] = MaxAttempts(s)
    /\ \A m \in Messages :
          /\ pushed[m] + Cardinality(Pending(m)) <= attempts[m]
          /\ \E s \in Settings : pushed[m] + Cardinality(Pending(m)) <= MaxAttempts(s)

Inv == TypeOK /\ Reasons /\ OneClientPerTimeout /\ Sole /\ Settled /\ Counted

-----------------------------------------------------------------------------
LEMMA TaskOfMessage == \A m \in Messages : TaskOf(m) \in Tasks
  BY DEF Messages, TaskOf

LEMMA SettingsHaveFields ==
    \A s \in Settings : MaxAttempts(s) \in Nat /\ s.timeout \in Timeouts
  BY MAssumption DEF MaxAttempts

\* Every step keeps the types.
LEMMA TypeStep ==
    ASSUME TypeOK, [Next]_vars
    PROVE  TypeOK'
  <1> USE MAssumption, TaskOfMessage, SettingsHaveFields DEF TypeOK, Labels, manager, nsqd, history, handlers
  <1>1. CASE Boot
    BY <1>1 DEF Boot
  <1>2. ASSUME NEW t \in Tasks, StopTask(t) PROVE TypeOK'
    BY <1>2 DEF StopTask
  <1>3. ASSUME NEW t \in Tasks, DeleteTask(t) PROVE TypeOK'
    BY <1>3 DEF DeleteTask
  <1>4. ASSUME NEW t \in Tasks, NEW s \in Settings, UpdateTask(t, s) PROVE TypeOK'
    BY <1>4 DEF UpdateTask
  <1>5. ASSUME NEW t \in Tasks, NEW s \in Settings, StartTask(t, s) PROVE TypeOK'
    BY <1>5 DEF StartTask
  <1>6. ASSUME NEW h \in Handlers, NEW m \in Messages, Deliver(h, m) PROVE TypeOK'
    BY <1>6 DEF Deliver, Waiting, Goto
  <1>7. ASSUME NEW m \in Messages, GiveUp(m) PROVE TypeOK'
    BY <1>7 DEF GiveUp, Waiting
  <1>8. ASSUME NEW m \in Messages, MsgTimeout(m) PROVE TypeOK'
    BY <1>8 DEF MsgTimeout
  <1>9. ASSUME NEW h \in Handlers, GetTask(h) PROVE TypeOK'
    BY <1>9 DEF GetTask, Goto
  <1>10. ASSUME NEW h \in Handlers, LookupClient(h) PROVE TypeOK'
    BY <1>10 DEF LookupClient, Goto
  <1>11. ASSUME NEW h \in Handlers, AddClient(h) PROVE TypeOK'
    BY <1>11 DEF AddClient, Goto
  <1>12. ASSUME NEW h \in Handlers, Post(h) PROVE TypeOK'
    BY <1>12 DEF Post, Goto
  <1>13. ASSUME NEW h \in Handlers, HandleAlert(h) PROVE TypeOK'
    BY <1>13 DEF HandleAlert, Goto
  <1>14. ASSUME NEW h \in Handlers, Requeue(h) PROVE TypeOK'
    BY <1>14 DEF Requeue, Answer
  <1>15. CASE Crash
    <2>1. stops' \in 0..MaxStops
      BY <1>15 DEF Crash
    <2> QED
      BY <1>15, <2>1 DEF Crash, Die, InFlight
  <1>16. ASSUME NEW h \in Handlers, Panic(h) PROVE TypeOK'
    BY <1>16 DEF Panic, Die, InFlight
  <1>17. ASSUME NEW h \in Handlers, Finish(h) PROVE TypeOK'
    BY <1>17 DEF Finish, Answer
  <1>18. CASE UNCHANGED vars
    BY <1>18 DEF vars
  <1> QED
    BY <1>1, <1>2, <1>3, <1>4, <1>5, <1>6, <1>7, <1>8, <1>9, <1>10,
       <1>11, <1>12, <1>13, <1>14, <1>15, <1>16, <1>17, <1>18 DEF Next, HandleMessage

\* Every step keeps the reasons.
LEMMA ReasonStep ==
    ASSUME TypeOK, Reasons, [Next]_vars
    PROVE  Reasons'
  <1> USE DEF TypeOK, Labels, Reasons, LeavesForAReason, manager, nsqd, history, handlers
  <1>1. CASE Boot
    BY <1>1 DEF Boot
  <1>2. ASSUME NEW t \in Tasks, StopTask(t) PROVE Reasons'
    BY <1>2 DEF StopTask
  <1>3. ASSUME NEW t \in Tasks, DeleteTask(t) PROVE Reasons'
    BY <1>3 DEF DeleteTask
  <1>4. ASSUME NEW t \in Tasks, NEW s \in Settings, UpdateTask(t, s) PROVE Reasons'
    BY <1>4 DEF UpdateTask
  <1>5. ASSUME NEW t \in Tasks, NEW s \in Settings, StartTask(t, s) PROVE Reasons'
    BY <1>5 DEF StartTask
  <1>6. ASSUME NEW h \in Handlers, NEW m \in Messages, Deliver(h, m) PROVE Reasons'
    BY <1>6 DEF Deliver, Waiting, Goto
  <1>7. ASSUME NEW m \in Messages, GiveUp(m) PROVE Reasons'
    BY <1>7 DEF GiveUp, Waiting
  <1>8. ASSUME NEW m \in Messages, MsgTimeout(m) PROVE Reasons'
    BY <1>8 DEF MsgTimeout
  <1>9. ASSUME NEW h \in Handlers, GetTask(h) PROVE Reasons'
    BY <1>9 DEF GetTask, Goto
  <1>10. ASSUME NEW h \in Handlers, LookupClient(h) PROVE Reasons'
    BY <1>10 DEF LookupClient, Goto
  <1>11. ASSUME NEW h \in Handlers, AddClient(h) PROVE Reasons'
    BY <1>11 DEF AddClient, Goto
  <1>12. ASSUME NEW h \in Handlers, Post(h) PROVE Reasons'
    BY <1>12 DEF Post, Goto
  <1>13. ASSUME NEW h \in Handlers, HandleAlert(h) PROVE Reasons'
    BY <1>13 DEF HandleAlert, Goto
  <1>14. ASSUME NEW h \in Handlers, Requeue(h) PROVE Reasons'
    BY <1>14 DEF Requeue, Answer
  <1>15. CASE Crash
    BY <1>15 DEF Crash, Die, InFlight
  <1>16. ASSUME NEW h \in Handlers, Panic(h) PROVE Reasons'
    BY <1>16 DEF Panic, Die, InFlight
  <1>17. ASSUME NEW h \in Handlers, Finish(h) PROVE Reasons'
    BY <1>17 DEF Finish, Answer
  <1>18. CASE UNCHANGED vars
    BY <1>18 DEF vars
  <1> QED
    BY <1>1, <1>2, <1>3, <1>4, <1>5, <1>6, <1>7, <1>8, <1>9, <1>10,
       <1>11, <1>12, <1>13, <1>14, <1>15, <1>16, <1>17, <1>18 DEF Next, HandleMessage

\* The second look under the lock keeps clients apart.
LEMMA ClientStep ==
    ASSUME TypeOK, OneClientPerTimeout, [Next]_vars
    PROVE  OneClientPerTimeout'
  <1> USE DEF TypeOK, OneClientPerTimeout, manager, nsqd, history, handlers
  <1>1. CASE Boot
    BY <1>1 DEF Boot
  <1>2. ASSUME NEW t \in Tasks, StopTask(t) PROVE OneClientPerTimeout'
    BY <1>2 DEF StopTask
  <1>3. ASSUME NEW t \in Tasks, DeleteTask(t) PROVE OneClientPerTimeout'
    BY <1>3 DEF DeleteTask
  <1>4. ASSUME NEW t \in Tasks, NEW s \in Settings, UpdateTask(t, s) PROVE OneClientPerTimeout'
    BY <1>4 DEF UpdateTask
  <1>5. ASSUME NEW t \in Tasks, NEW s \in Settings, StartTask(t, s) PROVE OneClientPerTimeout'
    BY <1>5 DEF StartTask
  <1>6. ASSUME NEW h \in Handlers, NEW m \in Messages, Deliver(h, m) PROVE OneClientPerTimeout'
    BY <1>6 DEF Deliver, Waiting, Goto
  <1>7. ASSUME NEW m \in Messages, GiveUp(m) PROVE OneClientPerTimeout'
    BY <1>7 DEF GiveUp, Waiting
  <1>8. ASSUME NEW m \in Messages, MsgTimeout(m) PROVE OneClientPerTimeout'
    BY <1>8 DEF MsgTimeout
  <1>9. ASSUME NEW h \in Handlers, GetTask(h) PROVE OneClientPerTimeout'
    BY <1>9 DEF GetTask, Goto
  <1>10. ASSUME NEW h \in Handlers, LookupClient(h) PROVE OneClientPerTimeout'
    BY <1>10 DEF LookupClient, Goto
  <1>11. ASSUME NEW h \in Handlers, AddClient(h) PROVE OneClientPerTimeout'
    BY <1>11 DEF AddClient, Goto
  <1>12. ASSUME NEW h \in Handlers, Post(h) PROVE OneClientPerTimeout'
    BY <1>12 DEF Post, Goto
  <1>13. ASSUME NEW h \in Handlers, HandleAlert(h) PROVE OneClientPerTimeout'
    BY <1>13 DEF HandleAlert, Goto
  <1>14. ASSUME NEW h \in Handlers, Requeue(h) PROVE OneClientPerTimeout'
    BY <1>14 DEF Requeue, Answer
  <1>15. CASE Crash
    BY <1>15 DEF Crash, Die, InFlight
  <1>16. ASSUME NEW h \in Handlers, Panic(h) PROVE OneClientPerTimeout'
    BY <1>16 DEF Panic, Die, InFlight
  <1>17. ASSUME NEW h \in Handlers, Finish(h) PROVE OneClientPerTimeout'
    BY <1>17 DEF Finish, Answer
  <1>18. CASE UNCHANGED vars
    BY <1>18 DEF vars
  <1> QED
    BY <1>1, <1>2, <1>3, <1>4, <1>5, <1>6, <1>7, <1>8, <1>9, <1>10,
       <1>11, <1>12, <1>13, <1>14, <1>15, <1>16, <1>17, <1>18 DEF Next, HandleMessage

\* Only a crash and the patience of nsqd give a message to a second handler.
LEMMA SoleStep ==
    ASSUME TypeOK, Sole, [Next]_vars
    PROVE  Sole'
  <1> USE MAssumption DEF TypeOK, Sole, manager, nsqd, history, handlers
  <1>1. CASE Boot
    BY <1>1 DEF Boot
  <1>2. ASSUME NEW t \in Tasks, StopTask(t) PROVE Sole'
    BY <1>2 DEF StopTask
  <1>3. ASSUME NEW t \in Tasks, DeleteTask(t) PROVE Sole'
    BY <1>3 DEF DeleteTask
  <1>4. ASSUME NEW t \in Tasks, NEW s \in Settings, UpdateTask(t, s) PROVE Sole'
    BY <1>4 DEF UpdateTask
  <1>5. ASSUME NEW t \in Tasks, NEW s \in Settings, StartTask(t, s) PROVE Sole'
    BY <1>5 DEF StartTask
  <1>6. ASSUME NEW h \in Handlers, NEW m \in Messages, Deliver(h, m) PROVE Sole'
    BY <1>6 DEF Deliver, Waiting, Goto
  <1>7. ASSUME NEW m \in Messages, GiveUp(m) PROVE Sole'
    BY <1>7 DEF GiveUp, Waiting
  <1>8. ASSUME NEW m \in Messages, MsgTimeout(m) PROVE Sole'
    BY <1>8 DEF MsgTimeout
  <1>9. ASSUME NEW h \in Handlers, GetTask(h) PROVE Sole'
    BY <1>9 DEF GetTask, Goto
  <1>10. ASSUME NEW h \in Handlers, LookupClient(h) PROVE Sole'
    BY <1>10 DEF LookupClient, Goto
  <1>11. ASSUME NEW h \in Handlers, AddClient(h) PROVE Sole'
    BY <1>11 DEF AddClient, Goto
  <1>12. ASSUME NEW h \in Handlers, Post(h) PROVE Sole'
    BY <1>12 DEF Post, Goto
  <1>13. ASSUME NEW h \in Handlers, HandleAlert(h) PROVE Sole'
    BY <1>13 DEF HandleAlert, Goto
  <1>14. ASSUME NEW h \in Handlers, Requeue(h) PROVE Sole'
    BY <1>14 DEF Requeue, Answer
  <1>15. CASE Crash
    BY <1>15 DEF Crash, Die, InFlight
  <1>16. ASSUME NEW h \in Handlers, Panic(h) PROVE Sole'
    BY <1>16 DEF Panic, Die, InFlight
  <1>17. ASSUME NEW h \in Handlers, Finish(h) PROVE Sole'
    BY <1>17 DEF Finish, Answer
  <1>18. CASE UNCHANGED vars
    BY <1>18 DEF vars
  <1> QED
    BY <1>1, <1>2, <1>3, <1>4, <1>5, <1>6, <1>7, <1>8, <1>9, <1>10,
       <1>11, <1>12, <1>13, <1>14, <1>15, <1>16, <1>17, <1>18 DEF Next, HandleMessage

\* A confirmed message goes from its handler to nsqd.
LEMMA SettledStep ==
    ASSUME TypeOK, Sole, Settled, [Next]_vars
    PROVE  Settled'
  <1> USE MAssumption DEF TypeOK, Labels, Sole, Settled, manager, nsqd, history, handlers
  <1>1. CASE Boot
    BY <1>1 DEF Boot
  <1>2. ASSUME NEW t \in Tasks, StopTask(t) PROVE Settled'
    BY <1>2 DEF StopTask
  <1>3. ASSUME NEW t \in Tasks, DeleteTask(t) PROVE Settled'
    BY <1>3 DEF DeleteTask
  <1>4. ASSUME NEW t \in Tasks, NEW s \in Settings, UpdateTask(t, s) PROVE Settled'
    BY <1>4 DEF UpdateTask
  <1>5. ASSUME NEW t \in Tasks, NEW s \in Settings, StartTask(t, s) PROVE Settled'
    BY <1>5 DEF StartTask
  <1>6. ASSUME NEW h \in Handlers, NEW m \in Messages, Deliver(h, m) PROVE Settled'
    BY <1>6 DEF Deliver, Waiting, Goto
  <1>7. ASSUME NEW m \in Messages, GiveUp(m) PROVE Settled'
    BY <1>7 DEF GiveUp, Waiting
  <1>8. ASSUME NEW m \in Messages, MsgTimeout(m) PROVE Settled'
    BY <1>8 DEF MsgTimeout
  <1>9. ASSUME NEW h \in Handlers, GetTask(h) PROVE Settled'
    BY <1>9 DEF GetTask, Goto
  <1>10. ASSUME NEW h \in Handlers, LookupClient(h) PROVE Settled'
    BY <1>10 DEF LookupClient, Goto
  <1>11. ASSUME NEW h \in Handlers, AddClient(h) PROVE Settled'
    BY <1>11 DEF AddClient, Goto
  <1>12. ASSUME NEW h \in Handlers, Post(h) PROVE Settled'
    BY <1>12 DEF Post, Goto
  <1>13. ASSUME NEW h \in Handlers, HandleAlert(h) PROVE Settled'
    BY <1>13 DEF HandleAlert, Goto
  <1>14. ASSUME NEW h \in Handlers, Requeue(h) PROVE Settled'
    BY <1>14 DEF Requeue, Answer
  <1>15. CASE Crash
    BY <1>15 DEF Crash, Die, InFlight
  <1>16. ASSUME NEW h \in Handlers, Panic(h) PROVE Settled'
    BY <1>16 DEF Panic, Die, InFlight
  <1>17. ASSUME NEW h \in Handlers, Finish(h) PROVE Settled'
    BY <1>17 DEF Finish, Answer
  <1>18. CASE UNCHANGED vars
    BY <1>18 DEF vars
  <1> QED
    BY <1>1, <1>2, <1>3, <1>4, <1>5, <1>6, <1>7, <1>8, <1>9, <1>10,
       <1>11, <1>12, <1>13, <1>14, <1>15, <1>16, <1>17, <1>18 DEF Next, HandleMessage

\* Handlers are finitely many, so pending attempts are, now and after a step.
LEMMA PendingIsFinite ==
    ASSUME NEW m
    PROVE  /\ IsFiniteSet(Pending(m)) /\ Cardinality(Pending(m)) \in Nat
           /\ IsFiniteSet(Pending(m)') /\ Cardinality(Pending(m)') \in Nat
  <1>1. Pending(m) \subseteq Handlers /\ Pending(m)' \subseteq Handlers
    BY DEF Pending
  <1>2. IsFiniteSet(Pending(m)) /\ IsFiniteSet(Pending(m)')
    BY <1>1, MAssumption, FS_Subset
  <1> QED
    BY <1>2, FS_CardinalityType

\* A step that leaves a message with fewer pending attempts, and as many pushes more
\* at most, keeps its count.
LEMMA CountOfMessage ==
    ASSUME TypeOK, TypeOK', Counted, NEW m \in Messages,
           pushed'[m] + Cardinality(Pending(m)') <= pushed[m] + Cardinality(Pending(m)),
           attempts[m] <= attempts'[m]
    PROVE  /\ pushed'[m] + Cardinality(Pending(m)') <= attempts'[m]
           /\ \E s \in Settings : pushed'[m] + Cardinality(Pending(m)') <= MaxAttempts(s)
  <1>1. /\ pushed[m] \in Nat /\ pushed'[m] \in Nat
        /\ attempts[m] \in Nat /\ attempts'[m] \in Nat
    BY DEF TypeOK
  <1>2. PICK s \in Settings : pushed[m] + Cardinality(Pending(m)) <= MaxAttempts(s)
    BY DEF Counted
  <1>3. pushed[m] + Cardinality(Pending(m)) <= attempts[m]
    BY DEF Counted
  <1>4. MaxAttempts(s) \in Nat
    BY SettingsHaveFields
  <1> DEFINE was == Cardinality(Pending(m))
             now == Cardinality(Pending(m)')
  <1>5. was \in Nat /\ now \in Nat
    BY PendingIsFinite
  <1> HIDE DEF was, now
  <1>6. /\ pushed[m] + was <= MaxAttempts(s) /\ pushed[m] + was <= attempts[m]
        /\ pushed'[m] + now <= pushed[m] + was
    BY <1>2, <1>3 DEF was, now
  <1>7. pushed'[m] + now <= attempts'[m] /\ pushed'[m] + now <= MaxAttempts(s)
    BY <1>1, <1>4, <1>5, <1>6
  <1> QED
    BY <1>7 DEF now

\* The steps that push nothing and hand out nothing keep every count.
LEMMA QuietStep ==
    ASSUME TypeOK, TypeOK', Counted,
           \A t \in Tasks : limit'[t] # None => \E s \in Settings : limit'[t] = MaxAttempts(s),
           pushed' = pushed,
           \A m \in Messages : attempts[m] <= attempts'[m] /\ Pending(m)' \subseteq Pending(m)
    PROVE  Counted'
  <1>1. ASSUME NEW m \in Messages
        PROVE  pushed'[m] + Cardinality(Pending(m)') <= pushed[m] + Cardinality(Pending(m))
    <2>1. Cardinality(Pending(m)') <= Cardinality(Pending(m))
      BY PendingIsFinite, FS_Subset
    <2>2. pushed[m] \in Nat /\ pushed'[m] = pushed[m]
      BY DEF TypeOK
    <2> QED
      BY <2>1, <2>2, PendingIsFinite
  <1>2. ASSUME NEW m \in Messages
        PROVE  /\ pushed'[m] + Cardinality(Pending(m)') <= attempts'[m]
               /\ \E s \in Settings : pushed'[m] + Cardinality(Pending(m)') <= MaxAttempts(s)
    BY <1>1, CountOfMessage
  <1> QED
    BY <1>2 DEF Counted, MaxAttempts

\* An attempt is pending from its delivery to the endpoint's answer.
LEMMA CountStep ==
    ASSUME TypeOK, TypeOK', Counted, [Next]_vars
    PROVE  Counted'
  <1> USE DEF manager, nsqd, history, handlers
  <1>1. ASSUME NEW h \in Handlers, NEW m \in Messages, Deliver(h, m) PROVE Counted'
    <2>1. ASSUME NEW n \in Messages, n # m
          PROVE  Pending(n)' = Pending(n) /\ pushed'[n] = pushed[n] /\ attempts'[n] = attempts[n]
      BY <1>1, <2>1 DEF Deliver, Waiting, Goto, Pending, TypeOK
    <2>2. h \notin Pending(m) /\ Pending(m)' = Pending(m) \cup {h}
      BY <1>1 DEF Deliver, Waiting, Goto, Pending, TypeOK
    <2>3. Cardinality(Pending(m)') = Cardinality(Pending(m)) + 1
      BY <2>2, PendingIsFinite, FS_AddElement
    <2>4. /\ pushed'[m] = pushed[m] /\ attempts'[m] = attempts[m] + 1
          /\ attempts[m] < limit[TaskOf(m)] /\ limit[TaskOf(m)] # None
      BY <1>1 DEF Deliver, Waiting, TypeOK
    <2>5. PICK s \in Settings : limit[TaskOf(m)] = MaxAttempts(s)
      BY <2>4, TaskOfMessage DEF Counted
    <2>6. /\ pushed[m] \in Nat /\ attempts[m] \in Nat /\ MaxAttempts(s) \in Nat
          /\ pushed[m] + Cardinality(Pending(m)) <= attempts[m]
      BY SettingsHaveFields DEF TypeOK, Counted
    <2>7. /\ pushed'[m] + Cardinality(Pending(m)') <= attempts'[m]
          /\ pushed'[m] + Cardinality(Pending(m)') <= MaxAttempts(s)
      BY <2>3, <2>4, <2>5, <2>6, PendingIsFinite
    <2>8. ASSUME NEW n \in Messages, n # m
          PROVE  /\ pushed'[n] + Cardinality(Pending(n)') <= attempts'[n]
                 /\ \E x \in Settings : pushed'[n] + Cardinality(Pending(n)') <= MaxAttempts(x)
      BY <2>1, <2>8 DEF Counted
    <2>9. limit' = limit
      BY <1>1 DEF Deliver
    <2> QED
      BY <2>7, <2>8, <2>9 DEF Counted, MaxAttempts
  <1>2. ASSUME NEW h \in Handlers, Post(h) PROVE Counted'
    <2>1. PICK m \in Messages : m = msg[h]
      BY <1>2 DEF Post, TypeOK
    <2>2. ASSUME NEW n \in Messages, n # m
          PROVE  Pending(n)' = Pending(n) /\ pushed'[n] = pushed[n] /\ attempts'[n] = attempts[n]
      BY <1>2, <2>1, <2>2 DEF Post, Goto, Pending, TypeOK
    <2>3. h \in Pending(m) /\ Pending(m)' = Pending(m) \ {h}
      BY <1>2, <2>1 DEF Post, Goto, Pending, TypeOK
    <2>4. Cardinality(Pending(m)') = Cardinality(Pending(m)) - 1
      BY <2>3, PendingIsFinite, FS_RemoveElement
    <2>5. /\ pushed'[m] \in {pushed[m], pushed[m] + 1} /\ attempts'[m] = attempts[m]
          /\ pushed[m] \in Nat /\ attempts[m] \in Nat
      BY <1>2, <2>1 DEF Post, TypeOK
    <2>6. pushed'[m] + Cardinality(Pending(m)') <= pushed[m] + Cardinality(Pending(m))
      BY <2>4, <2>5, PendingIsFinite
    <2>7. /\ pushed'[m] + Cardinality(Pending(m)') <= attempts'[m]
          /\ \E x \in Settings : pushed'[m] + Cardinality(Pending(m)') <= MaxAttempts(x)
      BY <2>5, <2>6, CountOfMessage
    <2>8. ASSUME NEW n \in Messages, n # m
          PROVE  /\ pushed'[n] + Cardinality(Pending(n)') <= attempts'[n]
                 /\ \E x \in Settings : pushed'[n] + Cardinality(Pending(n)') <= MaxAttempts(x)
      BY <2>2, <2>8 DEF Counted
    <2>9. limit' = limit
      BY <1>2 DEF Post
    <2> QED
      BY <2>7, <2>8, <2>9 DEF Counted, MaxAttempts
  <1>3. ASSUME pushed' = pushed,
               limit' = limit,
               \A m \in Messages :
                  attempts[m] <= attempts'[m] /\ Pending(m)' \subseteq Pending(m)
        PROVE  Counted'
    BY <1>3, QuietStep DEF Counted
  <1>4. \A m \in Messages : attempts[m] <= attempts[m] /\ attempts[m] <= attempts[m] + 1
    BY DEF TypeOK
  <1>5. ASSUME UNCHANGED <<pushed, attempts, pc, msg>>,
               \A t \in Tasks :
                  limit'[t] # None => \E s \in Settings : limit'[t] = MaxAttempts(s)
        PROVE  Counted'
    BY <1>4, <1>5, QuietStep DEF Pending
  <1>6. ASSUME pushed' = pushed, attempts' = attempts,
               \A t \in Tasks : limit'[t] = None,
               \A h \in Handlers : pc'[h] = "idle"
        PROVE  Counted'
    BY <1>4, <1>6, QuietStep DEF Pending
  <1>7. CASE Boot
    <2>1. ASSUME NEW t \in Tasks, limit'[t] # None
          PROVE  \E s \in Settings : limit'[t] = MaxAttempts(s)
      BY <1>7, <2>1 DEF Boot
    <2> QED
      BY <1>5, <1>7, <2>1 DEF Boot
  <1>8. ASSUME NEW t \in Tasks, StopTask(t) \/ DeleteTask(t) PROVE Counted'
    BY <1>5, <1>8 DEF StopTask, DeleteTask, Counted, TypeOK
  <1>9. ASSUME NEW t \in Tasks, NEW s \in Settings, UpdateTask(t, s) \/ StartTask(t, s)
        PROVE  Counted'
    BY <1>5, <1>9 DEF UpdateTask, StartTask, Counted, TypeOK
  <1>10. ASSUME NEW m \in Messages, GiveUp(m) PROVE Counted'
    BY <1>3, <1>4, <1>10 DEF GiveUp, Pending, TypeOK
  <1>11. ASSUME NEW m \in Messages, MsgTimeout(m) PROVE Counted'
    BY <1>3, <1>4, <1>11 DEF MsgTimeout, Pending
  <1>12. ASSUME NEW h \in Handlers, GetTask(h) PROVE Counted'
    BY <1>3, <1>4, <1>12 DEF GetTask, Goto, Pending, TypeOK
  <1>13. ASSUME NEW h \in Handlers, LookupClient(h) \/ AddClient(h) \/ HandleAlert(h) PROVE Counted'
    BY <1>3, <1>4, <1>13 DEF LookupClient, AddClient, HandleAlert, Goto, Pending, TypeOK
  <1>14. ASSUME NEW h \in Handlers, Requeue(h) \/ Finish(h) PROVE Counted'
    BY <1>3, <1>4, <1>14 DEF Requeue, Finish, Answer, Pending, TypeOK
  <1>15. ASSUME Crash \/ \E h \in Handlers : Panic(h) PROVE Counted'
    BY <1>6, <1>15 DEF Crash, Panic, Die
  <1>16. CASE UNCHANGED vars
    BY <1>3, <1>4, <1>16 DEF vars, Pending
  <1> QED
    BY <1>1, <1>2, <1>7, <1>8, <1>9, <1>10, <1>11, <1>12, <1>13, <1>14, <1>15, <1>16
       DEF Next, HandleMessage

LEMMA InitCounted == Init => Counted
  <1> SUFFICES ASSUME Init PROVE Counted
    OBVIOUS
  <1>1. ASSUME NEW m \in Messages PROVE Pending(m) = {}
    BY <1>1 DEF Init, Pending
  <1>2. ASSUME NEW m \in Messages
        PROVE  pushed[m] = 0 /\ attempts[m] = 0 /\ Cardinality(Pending(m)) = 0
    BY <1>1, <1>2, FS_EmptySet DEF Init
  <1>3. \E s \in Settings : MaxAttempts(s) \in Nat
    BY MAssumption, SettingsHaveFields
  <1>4. \A t \in Tasks : limit[t] = None
    BY DEF Init
  <1> QED
    BY <1>2, <1>3, <1>4 DEF Counted

LEMMA InitInv == Init => Inv
  <1> SUFFICES ASSUME Init PROVE Inv
    OBVIOUS
  <1>1. stops \in 0..MaxStops
    BY MAssumption DEF Init
  <1>2. TypeOK
    BY <1>1 DEF Init, TypeOK, Labels
  <1>3. Reasons /\ OneClientPerTimeout
    BY MAssumption DEF Init, Reasons, LeavesForAReason, OneClientPerTimeout
  <1>4. Sole /\ Settled
    BY MAssumption DEF Init, Sole, Settled
  <1> QED
    BY <1>2, <1>3, <1>4, InitCounted DEF Inv

\* The inductive invariant.
THEOREM Invariant == Spec => []Inv
  <1>1. Inv /\ [Next]_vars => Inv'
    BY TypeStep, ReasonStep, ClientStep, SoleStep, SettledStep, CountStep DEF Inv
  <1> QED
    BY InitInv, <1>1, PTL DEF Spec

\* HandleMessage and what it calls keep their variables' types.
THEOREM TypeCorrect == Spec => []TypeOK
  <1>1. Inv => TypeOK
    BY DEF Inv
  <1> QED
    BY Invariant, <1>1, PTL

\* A failed push alone never takes a message out of the channel.
THEOREM MessagesLeaveForAReason == Spec => []LeavesForAReason
  <1>1. Inv => LeavesForAReason
    BY DEF Inv, Reasons
  <1> QED
    BY Invariant, <1>1, PTL

\* SendClient never adds a second client for a timeout.
THEOREM ClientsAreUnique == Spec => []OneClientPerTimeout
  <1>1. Inv => OneClientPerTimeout
    BY DEF Inv
  <1> QED
    BY Invariant, <1>1, PTL

\* The endpoint gets a message as often as the task's retries allow.
THEOREM PushesAreBounded == Spec => []BoundedPushes
  <1>1. Inv => BoundedPushes
    <2> SUFFICES ASSUME Inv, NEW m \in Messages
                 PROVE  \E s \in Settings : pushed[m] <= s.retry + 1
      BY DEF BoundedPushes
    <2>1. PICK s \in Settings : pushed[m] + Cardinality(Pending(m)) <= MaxAttempts(s)
      BY DEF Inv, Counted
    <2>2. pushed[m] \in Nat /\ MaxAttempts(s) \in Nat
      BY SettingsHaveFields DEF Inv, TypeOK
    <2>3. pushed[m] <= MaxAttempts(s)
      BY <2>1, <2>2, PendingIsFinite
    <2> QED
      BY <2>3 DEF MaxAttempts
  <1> QED
    BY Invariant, <1>1, PTL

\* Only Post counts pushes, and its handler is not the one that is about to finish.
LEMMA ConfirmedStep ==
    ASSUME Inv, [Next]_vars
    PROVE  \A m \in confirmed \ interrupted : pushed'[m] = pushed[m]
  <1> SUFFICES ASSUME NEW m \in confirmed \ interrupted
               PROVE  pushed'[m] = pushed[m]
    OBVIOUS
  <1>1. ASSUME NEW h \in Handlers, Post(h)
        PROVE  pushed'[m] = pushed[m]
    <2>1. m \in Messages /\ msg[h] \in Messages
      BY <1>1 DEF Inv, TypeOK, Post
    <2>2. msg[h] # m
      BY <1>1, <2>1 DEF Inv, Sole, Settled, Post
    <2> QED
      BY <1>1, <2>1, <2>2 DEF Inv, TypeOK, Post
  <1>2. CASE \A h \in Handlers : ~Post(h)
    BY <1>2 DEF Next, Boot, Crash, Die, StopTask, DeleteTask, UpdateTask, StartTask, Deliver,
       GiveUp, MsgTimeout, HandleMessage, GetTask, LookupClient, AddClient, Panic,
       HandleAlert, Requeue, Finish, Answer, history, vars
  <1> QED
    BY <1>1, <1>2

\* The endpoint gets no message again that it has confirmed, but for answers lost in
\* a crash or late.
THEOREM ConfirmedMessagesAreLeftAlone == Spec => ConfirmedIsLeftAlone
  <1>1. Inv /\ [Next]_vars => [\A m \in confirmed \ interrupted : pushed'[m] = pushed[m]]_vars
    BY ConfirmedStep
  <1> QED
    BY Invariant, <1>1, PTL DEF Spec, ConfirmedIsLeftAlone
-----------------------------------------------------------------------------
(* Alerts, when every task has them and all have as many retries, so that  *)
(* an update does not change what a handler reads.                         *)

AlertsStay == \A s, r \in Settings : s.alert /\ s.retry = r.retry

\* A consumer's task is known; a running pusher knows all but the deleted tasks; only
\* a running pusher has handlers at work.
Known ==
    /\ \A t \in Tasks : limit[t] # None => task[t] # None
    /\ \A t \in Tasks : task[t] # None <=> up /\ t \notin deleted
    /\ \A h \in Handlers : pc[h] # "idle" => up

\* What an uninterrupted message's attempts have led to: the last one that the retries
\* allow has been reported when it is over.
Told ==
    /\ GivenUpIsReported
    /\ \A m \in Messages \ interrupted :
          /\ \A h \in Handlers : msg[h] = m => try[h] = attempts[m]
          /\ \A s \in Settings :
                attempts[m] >= MaxAttempts(s) =>
                   /\ state[m] = "queued" => m \in reported \/ TaskOf(m) \in deleted
                   /\ \A h \in Handlers :
                         msg[h] = m /\ pc[h] = "requeue" =>
                            m \in reported \/ TaskOf(m) \in deleted

LEMMA KnownStep ==
    ASSUME TypeOK, Known, [Next]_vars
    PROVE  Known'
  <1> USE MAssumption, TaskOfMessage DEF TypeOK, Labels, Known, manager, nsqd, history, handlers
  <1>1. CASE Boot
    BY <1>1 DEF Boot
  <1>2. ASSUME NEW t \in Tasks, StopTask(t) PROVE Known'
    BY <1>2 DEF StopTask
  <1>3. ASSUME NEW t \in Tasks, DeleteTask(t) PROVE Known'
    BY <1>3 DEF DeleteTask
  <1>4. ASSUME NEW t \in Tasks, NEW s \in Settings, UpdateTask(t, s) PROVE Known'
    BY <1>4 DEF UpdateTask
  <1>5. ASSUME NEW t \in Tasks, NEW s \in Settings, StartTask(t, s) PROVE Known'
    BY <1>5 DEF StartTask
  <1>6. ASSUME NEW h \in Handlers, NEW m \in Messages, Deliver(h, m) PROVE Known'
    BY <1>6 DEF Deliver, Waiting, Goto
  <1>7. ASSUME NEW m \in Messages, GiveUp(m) PROVE Known'
    BY <1>7 DEF GiveUp, Waiting
  <1>8. ASSUME NEW m \in Messages, MsgTimeout(m) PROVE Known'
    BY <1>8 DEF MsgTimeout
  <1>9. ASSUME NEW h \in Handlers, GetTask(h) PROVE Known'
    BY <1>9 DEF GetTask, Goto
  <1>10. ASSUME NEW h \in Handlers, LookupClient(h) PROVE Known'
    BY <1>10 DEF LookupClient, Goto
  <1>11. ASSUME NEW h \in Handlers, AddClient(h) PROVE Known'
    BY <1>11 DEF AddClient, Goto
  <1>12. ASSUME NEW h \in Handlers, Post(h) PROVE Known'
    BY <1>12 DEF Post, Goto
  <1>13. ASSUME NEW h \in Handlers, HandleAlert(h) PROVE Known'
    BY <1>13 DEF HandleAlert, Goto
  <1>14. ASSUME NEW h \in Handlers, Requeue(h) PROVE Known'
    BY <1>14 DEF Requeue, Answer
  <1>15. CASE Crash
    BY <1>15 DEF Crash, Die, InFlight
  <1>16. ASSUME NEW h \in Handlers, Panic(h) PROVE Known'
    BY <1>16 DEF Panic, Die, InFlight
  <1>17. ASSUME NEW h \in Handlers, Finish(h) PROVE Known'
    BY <1>17 DEF Finish, Answer
  <1>18. CASE UNCHANGED vars
    BY <1>18 DEF vars
  <1> QED
    BY <1>1, <1>2, <1>3, <1>4, <1>5, <1>6, <1>7, <1>8, <1>9, <1>10,
       <1>11, <1>12, <1>13, <1>14, <1>15, <1>16, <1>17, <1>18 DEF Next, HandleMessage

\* The last attempt is due for an alert.
LEMMA LastAttemptIsDue ==
    ASSUME NEW s \in Settings, NEW n \in Nat, n >= MaxAttempts(s)
    PROVE  AlertDue(n, s)
  <1>1. s.retry \in 0..10
    BY MAssumption
  <1>2. (s.retry * 7) \div 10 <= s.retry
    BY <1>1
  <1> QED
    BY <1>1, <1>2 DEF AlertDue, MaxAttempts

LEMMA ToldStep ==
    ASSUME AlertsStay, Inv, Known, Told, [Next]_vars
    PROVE  Told'
  <1> USE MAssumption, TaskOfMessage DEF Inv, TypeOK, Labels, Known, Told, GivenUpIsReported, Sole, manager, nsqd, history, handlers
  <1>1. CASE Boot
    BY <1>1 DEF Boot
  <1>2. ASSUME NEW t \in Tasks, StopTask(t) PROVE Told'
    BY <1>2 DEF StopTask
  <1>3. ASSUME NEW t \in Tasks, DeleteTask(t) PROVE Told'
    BY <1>3 DEF DeleteTask
  <1>4. ASSUME NEW t \in Tasks, NEW s \in Settings, UpdateTask(t, s) PROVE Told'
    BY <1>4 DEF UpdateTask
  <1>5. ASSUME NEW t \in Tasks, NEW s \in Settings, StartTask(t, s) PROVE Told'
    BY <1>5 DEF StartTask
  <1>6. ASSUME NEW h \in Handlers, NEW m \in Messages, Deliver(h, m) PROVE Told'
    BY <1>6 DEF Deliver, Waiting, Goto
  <1>7. ASSUME NEW m \in Messages, GiveUp(m) PROVE Told'
    <2>1. /\ limit[TaskOf(m)] # None /\ attempts[m] >= limit[TaskOf(m)] /\ state[m] = "queued"
          /\ attempts' = [attempts EXCEPT ![m] = @ + 1] /\ abandoned' = abandoned \cup {m}
          /\ state' = [state EXCEPT ![m] = "finished"]
          /\ UNCHANGED <<msg, try, pc, reported, interrupted, deleted>>
      BY <1>7 DEF GiveUp, Waiting
    <2>2. PICK s \in Settings : limit[TaskOf(m)] = MaxAttempts(s)
      BY <2>1 DEF Counted
    <2>3. m \in reported \cup interrupted
      BY <2>1, <2>2
    <2>4. m \notin interrupted => \A h \in Handlers : msg[h] # m
      BY <2>1
    <2> QED
      BY <2>1, <2>3, <2>4
  <1>8. ASSUME NEW m \in Messages, MsgTimeout(m) PROVE Told'
    BY <1>8 DEF MsgTimeout
  <1>9. ASSUME NEW h \in Handlers, GetTask(h) PROVE Told'
    BY <1>9 DEF GetTask, Goto
  <1>10. ASSUME NEW h \in Handlers, LookupClient(h) PROVE Told'
    BY <1>10 DEF LookupClient, Goto
  <1>11. ASSUME NEW h \in Handlers, AddClient(h) PROVE Told'
    BY <1>11 DEF AddClient, Goto
  <1>12. ASSUME NEW h \in Handlers, Post(h) PROVE Told'
    BY <1>12 DEF Post, Goto
  <1>13. ASSUME NEW h \in Handlers, HandleAlert(h) PROVE Told'
    <2>1. PICK m \in Messages : m = msg[h]
      BY <1>13 DEF HandleAlert
    <2>2. /\ reported \subseteq reported' /\ pc' = [pc EXCEPT ![h] = "requeue"]
          /\ UNCHANGED <<attempts, state, msg, try, abandoned, interrupted, deleted>>
      BY <1>13 DEF HandleAlert, Goto
    <2>3. ASSUME NEW s \in Settings, m \notin interrupted, attempts[m] >= MaxAttempts(s)
          PROVE  m \in reported' \/ TaskOf(m) \in deleted
      <3>1. CASE task[TaskOf(m)] = None
        BY <1>13, <3>1 DEF HandleAlert
      <3>2. CASE task[TaskOf(m)] # None
        <4>1. PICK r \in Settings : r = task[TaskOf(m)]
          BY <3>2
        <4>2. r.alert /\ MaxAttempts(r) = MaxAttempts(s)
          BY DEF AlertsStay, MaxAttempts
        <4>3. try[h] = attempts[m] /\ attempts[m] \in Nat
          BY <2>1, <2>3
        <4>4. AlertDue(try[h], r)
          BY <2>3, <4>2, <4>3, LastAttemptIsDue
        <4> QED
          BY <1>13, <2>1, <3>2, <4>1, <4>2, <4>4 DEF HandleAlert
      <3> QED
        BY <3>1, <3>2
    <2> QED
      BY <2>1, <2>2, <2>3
  <1>14. ASSUME NEW h \in Handlers, Requeue(h) PROVE Told'
    BY <1>14 DEF Requeue, Answer
  <1>15. CASE Crash
    BY <1>15 DEF Crash, Die, InFlight
  <1>16. ASSUME NEW h \in Handlers, Panic(h) PROVE Told'
    BY <1>16 DEF Panic, Die, InFlight
  <1>17. ASSUME NEW h \in Handlers, Finish(h) PROVE Told'
    BY <1>17 DEF Finish, Answer
  <1>18. CASE UNCHANGED vars
    BY <1>18 DEF vars
  <1> QED
    BY <1>1, <1>2, <1>3, <1>4, <1>5, <1>6, <1>7, <1>8, <1>9, <1>10,
       <1>11, <1>12, <1>13, <1>14, <1>15, <1>16, <1>17, <1>18 DEF Next, HandleMessage

\* A message given up after failed pushes has been reported, if no attempt was cut
\* short.
THEOREM LossesAreReported ==
    ASSUME AlertsStay
    PROVE  Spec => []GivenUpIsReported
  <1>1. Init => Known /\ Told
    BY MAssumption DEF Init, Known, Told, GivenUpIsReported, MaxAttempts
  <1>2. Inv /\ Known /\ Told /\ [Next]_vars => Known' /\ Told'
    BY KnownStep, ToldStep DEF Inv
  <1>3. Told => GivenUpIsReported
    BY DEF Told
  <1> QED
    BY Invariant, <1>1, <1>2, <1>3, PTL DEF Spec
=============================================================================
