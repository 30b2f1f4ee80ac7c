------------------------ MODULE ClientRegistryProofs ------------------------
(***************************************************************************)
(* Proofs about ClientRegistry, for every set of nodes, addresses and      *)
(* timers.  They show what a lock around each handler would give: with the *)
(* handlers and expiries of one key one after the other, every registered  *)
(* client can expire.                                                      *)
(***************************************************************************)
EXTENDS ClientRegistry, TLAPS

\* A node that runs has an address, and a timer in use knows what to delete.
InUse(tm) == \/ tm \in armed \cup token
             \/ \E k \in Keys : timers[k] = tm
             \/ \E h \in Procs : got[h] = tm

Backed ==
    /\ \A n \in Nodes : node[n] # "down" => addr[n] \in Addresses
    /\ \A tm \in Timers : InUse(tm) => job[tm] \in Jobs
    /\ \A h \in Procs : pc[h] \notin {"resetTimer", "stopTimer"} => got[h] = None
    /\ \A tm \in Timers : pc[tm] \in {"idle", "delClient", "delTimer", "stopTimer", "delEntry"}

\* A node's goroutine is no timer's.
LEMMA SenderIsNoTimer ==
    ASSUME NEW n \in Nodes, NEW who \in {"main", "ping"}
    PROVE  <<n, who>> \in Procs /\ <<n, who>> \in Senders /\ <<n, who>> \notin Timers
  BY RAssumption DEF Senders, Procs

\* What a signal of a node changes: its sender's goroutine gets a job.
Signalled(n, s, label) ==
    /\ s \notin Timers
    /\ s = <<n, "main">> \/ (s = <<n, "ping">> /\ UNCHANGED <<node, addr>>)
    /\ label \in {"addCheck", "reset", "delClient"}
    /\ addr' \in [Nodes -> Addresses \cup {None}] /\ addr'[n] \in Addresses
    /\ node' \in [Nodes -> {"down", "up", "leaving"}]
    /\ \A m \in Nodes : m # n => node'[m] = node[m] /\ addr'[m] = addr[m]
    /\ pc' \in [Procs -> Labels] /\ job' \in [Procs -> Jobs \cup {None}]
    /\ pc[s] = "idle" /\ pc'[s] = label
    /\ job'[s] \in Jobs /\ job'[s].key = Key(n)' /\ job'[s].addr = addr'[n]
    /\ MayStart(Key(n)')
    /\ \A h \in Procs : h # s => pc'[h] = pc[h] /\ job'[h] = job[h]
    /\ UNCHANGED <<clients, timers, armed, token, got, restarts>>

LEMMA SignalEffect ==
    ASSUME TypeOK, Backed, NEW n \in Nodes, Boot(n) \/ Ping(n) \/ Leave(n)
    PROVE  \E s \in Procs, label \in Labels : Signalled(n, s, label)
  <1>1. /\ addr' \in [Nodes -> Addresses \cup {None}] /\ addr'[n] \in Addresses
        /\ node' \in [Nodes -> {"down", "up", "leaving"}]
        /\ \A m \in Nodes : m # n => node'[m] = node[m] /\ addr'[m] = addr[m]
    BY DEF Boot, Ping, Leave, TypeOK, Backed
  <1>2. PICK who \in {"main", "ping"}, label \in {"addCheck", "reset", "delClient"} :
           /\ Send(n, who, label)
           /\ who = "ping" => UNCHANGED <<node, addr>>
    BY DEF Boot, Ping, Leave
  <1>3. JobOf(n)' \in Jobs /\ JobOf(n)'.key = Key(n)' /\ JobOf(n)'.addr = addr'[n]
    BY <1>1 DEF JobOf, Key, Keys, Jobs
  <1>4. PICK s \in Procs : s = <<n, who>> /\ s \notin Timers
    BY SenderIsNoTimer
  <1>5. /\ pc[s] = "idle" /\ MayStart(Key(n)')
        /\ job' = [job EXCEPT ![s] = JobOf(n)'] /\ pc' = [pc EXCEPT ![s] = label]
        /\ UNCHANGED <<clients, timers, armed, token, got, restarts>>
    BY <1>2, <1>4 DEF Send, Goto, alarms
  <1>6. /\ pc' \in [Procs -> Labels] /\ job' \in [Procs -> Jobs \cup {None}]
        /\ pc'[s] = label /\ job'[s] = JobOf(n)'
        /\ \A h \in Procs : h # s => pc'[h] = pc[h] /\ job'[h] = job[h]
    BY <1>3, <1>5 DEF TypeOK, Labels
  <1>7. label \in Labels /\ (s = <<n, "main">> \/ (s = <<n, "ping">> /\ UNCHANGED <<node, addr>>))
    BY <1>2, <1>4 DEF Labels
  <1> QED
    BY <1>1, <1>2, <1>3, <1>4, <1>5, <1>6, <1>7 DEF Signalled

\* The goroutine a node registers and leaves with.
Main(n) == <<n, "main">>

LEMMA MainIsItsOwn ==
    /\ \A n \in Nodes : Main(n) \in Procs /\ Main(n) \notin Timers
    /\ \A n, m \in Nodes : Main(n) = Main(m) => n = m
    /\ \A n, m \in Nodes : Main(n) # <<m, "ping">>
  BY RAssumption DEF Main, Procs, Senders

\* The expiries and the signals of one key come one after the other.
OneHandler ==
    \A g, h \in Procs, k \in Keys : Busy(g, k) /\ Busy(h, k) => g = h

\* The timer of a key belongs to the key.
TimerOfKey ==
    /\ \A k \in Keys : timers[k] # None => job[timers[k]].key = k
    /\ \A h \in Procs : got[h] # None => got[h] = timers[job[h].key]

\* What a goroutine knows of the client of its key while it works on it.
ClientGone ==
    \A h \in Procs :
       pc[h] \in {"addClient", "delTimer", "stopTimer", "delEntry"} =>
          clients[job[h].key] = None

\* An entry lacks its timer only between the statements that give and take it.
Expiring ==
    \A k \in Keys :
       clients[k] # None
       /\ (\A h \in Procs : Busy(h, k) => pc[h] \notin {"addTimer", "delClient"}) =>
          timers[k] # None /\ timers[k] \in armed \cup token

\* A pusher is keyed by its address, and registers the address it listens on.
ByAddress ==
    /\ \A h \in Procs : job[h] \in Jobs => job[h].key = job[h].addr
    /\ \A k \in Keys : clients[k] \in {None, k}
    /\ \A n \in Nodes : pc[Main(n)] # "idle" /\ node[n] # "down" =>
          job[Main(n)].addr = addr[n]
    /\ \A h \in Procs : pc[h] = "addTimer" => clients[job[h].key] = job[h].addr

SerialInv == TypeOK /\ Backed /\ OneHandler /\ TimerOfKey /\ ClientGone /\ Expiring

\* Every step keeps the types and what the timers in use refer to.
LEMMA TypeStep ==
    ASSUME TypeOK, Backed, [Next]_vars
    PROVE  TypeOK' /\ Backed'
  <1> USE RAssumption DEF TypeOK, Labels, Jobs, Procs, Backed, InUse, Free
  <1>1. ASSUME NEW n \in Nodes, Boot(n) \/ Ping(n) \/ Leave(n) PROVE TypeOK' /\ Backed'
    <2>1. PICK s \in Procs, label \in Labels : Signalled(n, s, label)
      BY <1>1, SignalEffect
    <2> QED
      BY <2>1 DEF Signalled
  <1>2. ASSUME NEW n \in Nodes, BootUnheard(n) PROVE TypeOK' /\ Backed'
    BY <1>2 DEF BootUnheard, alarms
  <1>3. ASSUME NEW n \in Nodes, Halt(n) PROVE TypeOK' /\ Backed'
    BY <1>3 DEF Halt, alarms
  <1>4. ASSUME NEW h \in Procs, GetTimer(h) PROVE TypeOK' /\ Backed'
    BY <1>4 DEF GetTimer, Goto, nodes, alarms
  <1>5. ASSUME NEW h \in Procs, ResetTimer(h) PROVE TypeOK' /\ Backed'
    BY <1>5 DEF ResetTimer, Goto, nodes, alarms
  <1>6. ASSUME NEW h \in Procs, CheckClient(h) PROVE TypeOK' /\ Backed'
    BY <1>6 DEF CheckClient, Goto, nodes, alarms
  <1>7. ASSUME NEW h \in Procs, AddCheck(h) PROVE TypeOK' /\ Backed'
    BY <1>7 DEF AddCheck, Goto, nodes, alarms
  <1>8. ASSUME NEW h \in Procs, SetClient(h) PROVE TypeOK' /\ Backed'
    BY <1>8 DEF SetClient, Goto, nodes, alarms
  <1>9. ASSUME NEW h \in Procs, SetTimer(h) PROVE TypeOK' /\ Backed'
    BY <1>9 DEF SetTimer, Goto, nodes, alarms
  <1>10. ASSUME NEW h \in Procs, DeleteClient(h) PROVE TypeOK' /\ Backed'
    BY <1>10 DEF DeleteClient, Goto, nodes, alarms
  <1>11. ASSUME NEW h \in Procs, GetTimerToStop(h) PROVE TypeOK' /\ Backed'
    BY <1>11 DEF GetTimerToStop, Goto, nodes, alarms
  <1>12. ASSUME NEW h \in Procs, StopTimer(h) PROVE TypeOK' /\ Backed'
    BY <1>12 DEF StopTimer, Goto, nodes, alarms
  <1>13. ASSUME NEW h \in Procs, DeleteTimer(h) PROVE TypeOK' /\ Backed'
    BY <1>13 DEF DeleteTimer, Goto, nodes, alarms
  <1>14. ASSUME NEW tm \in Timers, Fire(tm) PROVE TypeOK' /\ Backed'
    BY <1>14 DEF Fire, nodes
  <1>15. ASSUME NEW tm \in Timers, Expire(tm) PROVE TypeOK' /\ Backed'
    BY <1>15 DEF Expire, Goto, nodes
  <1>16. CASE MonitorRestart
    BY <1>16 DEF MonitorRestart
  <1>17. CASE UNCHANGED vars
    BY <1>17 DEF vars
  <1>18. QED
    BY <1>1, <1>2, <1>3, <1>4, <1>5, <1>6, <1>7, <1>8, <1>9, <1>10, <1>11, <1>12, <1>13, <1>14, <1>15, <1>16, <1>17 DEF Next, Handle, Update, Add, Delete

\* Handlers that come one after the other never share a key.
LEMMA OneHandlerStep ==
    ASSUME ~Overlap, TypeOK, Backed, OneHandler, [Next]_vars
    PROVE  OneHandler'
  <1> USE RAssumption DEF TypeOK, Backed, Busy, MayStart, Jobs, OneHandler, InUse, Free
  <1>1. ASSUME NEW n \in Nodes, Boot(n) \/ Ping(n) \/ Leave(n) PROVE OneHandler'
    <2>1. PICK s \in Procs, label \in Labels : Signalled(n, s, label)
      BY <1>1, SignalEffect
    <2> QED
      BY <2>1 DEF Signalled
  <1>2. ASSUME NEW n \in Nodes, BootUnheard(n) PROVE OneHandler'
    BY <1>2 DEF BootUnheard, alarms
  <1>3. ASSUME NEW n \in Nodes, Halt(n) PROVE OneHandler'
    BY <1>3 DEF Halt, alarms
  <1>4. ASSUME NEW h \in Procs, GetTimer(h) PROVE OneHandler'
    BY <1>4 DEF GetTimer, Goto, nodes, alarms
  <1>5. ASSUME NEW h \in Procs, ResetTimer(h) PROVE OneHandler'
    BY <1>5 DEF ResetTimer, Goto, nodes, alarms
  <1>6. ASSUME NEW h \in Procs, CheckClient(h) PROVE OneHandler'
    BY <1>6 DEF CheckClient, Goto, nodes, alarms
  <1>7. ASSUME NEW h \in Procs, AddCheck(h) PROVE OneHandler'
    BY <1>7 DEF AddCheck, Goto, nodes, alarms
  <1>8. ASSUME NEW h \in Procs, SetClient(h) PROVE OneHandler'
    BY <1>8 DEF SetClient, Goto, nodes, alarms
  <1>9. ASSUME NEW h \in Procs, SetTimer(h) PROVE OneHandler'
    BY <1>9 DEF SetTimer, Goto, nodes, alarms
  <1>10. ASSUME NEW h \in Procs, DeleteClient(h) PROVE OneHandler'
    BY <1>10 DEF DeleteClient, Goto, nodes, alarms
  <1>11. ASSUME NEW h \in Procs, GetTimerToStop(h) PROVE OneHandler'
    BY <1>11 DEF GetTimerToStop, Goto, nodes, alarms
  <1>12. ASSUME NEW h \in Procs, StopTimer(h) PROVE OneHandler'
    BY <1>12 DEF StopTimer, Goto, nodes, alarms
  <1>13. ASSUME NEW h \in Procs, DeleteTimer(h) PROVE OneHandler'
    BY <1>13 DEF DeleteTimer, Goto, nodes, alarms
  <1>14. ASSUME NEW tm \in Timers, Fire(tm) PROVE OneHandler'
    BY <1>14 DEF Fire, nodes
  <1>15. ASSUME NEW tm \in Timers, Expire(tm) PROVE OneHandler'
    BY <1>15 DEF Expire, Goto, nodes
  <1>16. CASE MonitorRestart
    BY <1>16 DEF MonitorRestart
  <1>17. CASE UNCHANGED vars
    BY <1>17 DEF vars
  <1>18. QED
    BY <1>1, <1>2, <1>3, <1>4, <1>5, <1>6, <1>7, <1>8, <1>9, <1>10, <1>11, <1>12, <1>13, <1>14, <1>15, <1>16, <1>17 DEF Next, Handle, Update, Add, Delete

\* The maps and the goroutines agree on whose timer is whose.
LEMMA TimerStep ==
    ASSUME TypeOK, Backed, OneHandler, TimerOfKey, [Next]_vars
    PROVE  TimerOfKey'
  <1> USE RAssumption DEF TypeOK, Backed, Busy, MayStart, Jobs, OneHandler, TimerOfKey, InUse, Free, Procs
  <1>1. ASSUME NEW n \in Nodes, Boot(n) \/ Ping(n) \/ Leave(n) PROVE TimerOfKey'
    <2>1. PICK s \in Procs, label \in Labels : Signalled(n, s, label)
      BY <1>1, SignalEffect
    <2> QED
      BY <2>1 DEF Signalled
  <1>2. ASSUME NEW n \in Nodes, BootUnheard(n) PROVE TimerOfKey'
    BY <1>2 DEF BootUnheard, alarms
  <1>3. ASSUME NEW n \in Nodes, Halt(n) PROVE TimerOfKey'
    BY <1>3 DEF Halt, alarms
  <1>4. ASSUME NEW h \in Procs, GetTimer(h) PROVE TimerOfKey'
    BY <1>4 DEF GetTimer, Goto, nodes, alarms
  <1>5. ASSUME NEW h \in Procs, ResetTimer(h) PROVE TimerOfKey'
    BY <1>5 DEF ResetTimer, Goto, nodes, alarms
  <1>6. ASSUME NEW h \in Procs, CheckClient(h) PROVE TimerOfKey'
    BY <1>6 DEF CheckClient, Goto, nodes, alarms
  <1>7. ASSUME NEW h \in Procs, AddCheck(h) PROVE TimerOfKey'
    BY <1>7 DEF AddCheck, Goto, nodes, alarms
  <1>8. ASSUME NEW h \in Procs, SetClient(h) PROVE TimerOfKey'
    BY <1>8 DEF SetClient, Goto, nodes, alarms
  <1>9. ASSUME NEW h \in Procs, SetTimer(h) PROVE TimerOfKey'
    BY <1>9 DEF SetTimer, Goto, nodes, alarms
  <1>10. ASSUME NEW h \in Procs, DeleteClient(h) PROVE TimerOfKey'
    BY <1>10 DEF DeleteClient, Goto, nodes, alarms
  <1>11. ASSUME NEW h \in Procs, GetTimerToStop(h) PROVE TimerOfKey'
    BY <1>11 DEF GetTimerToStop, Goto, nodes, alarms
  <1>12. ASSUME NEW h \in Procs, StopTimer(h) PROVE TimerOfKey'
    BY <1>12 DEF StopTimer, Goto, nodes, alarms
  <1>13. ASSUME NEW h \in Procs, DeleteTimer(h) PROVE TimerOfKey'
    BY <1>13 DEF DeleteTimer, Goto, nodes, alarms
  <1>14. ASSUME NEW tm \in Timers, Fire(tm) PROVE TimerOfKey'
    BY <1>14 DEF Fire, nodes
  <1>15. ASSUME NEW tm \in Timers, Expire(tm) PROVE TimerOfKey'
    BY <1>15 DEF Expire, Goto, nodes
  <1>16. CASE MonitorRestart
    BY <1>16 DEF MonitorRestart
  <1>17. CASE UNCHANGED vars
    BY <1>17 DEF vars
  <1>18. QED
    BY <1>1, <1>2, <1>3, <1>4, <1>5, <1>6, <1>7, <1>8, <1>9, <1>10, <1>11, <1>12, <1>13, <1>14, <1>15, <1>16, <1>17 DEF Next, Handle, Update, Add, Delete

\* Nobody else adds the client a goroutine has seen missing.
LEMMA ClientStep ==
    ASSUME TypeOK, Backed, OneHandler, ClientGone, [Next]_vars
    PROVE  ClientGone'
  <1> USE RAssumption DEF TypeOK, Backed, Busy, MayStart, Jobs, OneHandler, ClientGone, InUse, Free
  <1>1. ASSUME NEW n \in Nodes, Boot(n) \/ Ping(n) \/ Leave(n) PROVE ClientGone'
    <2>1. PICK s \in Procs, label \in Labels : Signalled(n, s, label)
      BY <1>1, SignalEffect
    <2> QED
      BY <2>1 DEF Signalled
  <1>2. ASSUME NEW n \in Nodes, BootUnheard(n) PROVE ClientGone'
    BY <1>2 DEF BootUnheard, alarms
  <1>3. ASSUME NEW n \in Nodes, Halt(n) PROVE ClientGone'
    BY <1>3 DEF Halt, alarms
  <1>4. ASSUME NEW h \in Procs, GetTimer(h) PROVE ClientGone'
    BY <1>4 DEF GetTimer, Goto, nodes, alarms
  <1>5. ASSUME NEW h \in Procs, ResetTimer(h) PROVE ClientGone'
    BY <1>5 DEF ResetTimer, Goto, nodes, alarms
  <1>6. ASSUME NEW h \in Procs, CheckClient(h) PROVE ClientGone'
    BY <1>6 DEF CheckClient, Goto, nodes, alarms
  <1>7. ASSUME NEW h \in Procs, AddCheck(h) PROVE ClientGone'
    BY <1>7 DEF AddCheck, Goto, nodes, alarms
  <1>8. ASSUME NEW h \in Procs, SetClient(h) PROVE ClientGone'
    BY <1>8 DEF SetClient, Goto, nodes, alarms
  <1>9. ASSUME NEW h \in Procs, SetTimer(h) PROVE ClientGone'
    BY <1>9 DEF SetTimer, Goto, nodes, alarms
  <1>10. ASSUME NEW h \in Procs, DeleteClient(h) PROVE ClientGone'
    BY <1>10 DEF DeleteClient, Goto, nodes, alarms
  <1>11. ASSUME NEW h \in Procs, GetTimerToStop(h) PROVE ClientGone'
    BY <1>11 DEF GetTimerToStop, Goto, nodes, alarms
  <1>12. ASSUME NEW h \in Procs, StopTimer(h) PROVE ClientGone'
    BY <1>12 DEF StopTimer, Goto, nodes, alarms
  <1>13. ASSUME NEW h \in Procs, DeleteTimer(h) PROVE ClientGone'
    BY <1>13 DEF DeleteTimer, Goto, nodes, alarms
  <1>14. ASSUME NEW tm \in Timers, Fire(tm) PROVE ClientGone'
    BY <1>14 DEF Fire, nodes
  <1>15. ASSUME NEW tm \in Timers, Expire(tm) PROVE ClientGone'
    BY <1>15 DEF Expire, Goto, nodes
  <1>16. CASE MonitorRestart
    BY <1>16 DEF MonitorRestart
  <1>17. CASE UNCHANGED vars
    BY <1>17 DEF vars
  <1>18. QED
    BY <1>1, <1>2, <1>3, <1>4, <1>5, <1>6, <1>7, <1>8, <1>9, <1>10, <1>11, <1>12, <1>13, <1>14, <1>15, <1>16, <1>17 DEF Next, Handle, Update, Add, Delete

\* Every entry keeps a timer that will fire.
LEMMA ExpiringStep ==
    ASSUME TypeOK, Backed, OneHandler, TimerOfKey, ClientGone, Expiring, [Next]_vars
    PROVE  Expiring'
  <1> USE RAssumption DEF TypeOK, Backed, Busy, MayStart, Jobs, OneHandler, TimerOfKey, ClientGone, Expiring, InUse, Free, Procs
  <1>1. ASSUME NEW n \in Nodes, Boot(n) \/ Ping(n) \/ Leave(n) PROVE Expiring'
    <2>1. PICK s \in Procs, label \in Labels : Signalled(n, s, label)
      BY <1>1, SignalEffect
    <2> QED
      BY <2>1 DEF Signalled
  <1>2. ASSUME NEW n \in Nodes, BootUnheard(n) PROVE Expiring'
    BY <1>2 DEF BootUnheard, alarms
  <1>3. ASSUME NEW n \in Nodes, Halt(n) PROVE Expiring'
    BY <1>3 DEF Halt, alarms
  <1>4. ASSUME NEW h \in Procs, GetTimer(h) PROVE Expiring'
    BY <1>4 DEF GetTimer, Goto, nodes, alarms
  <1>5. ASSUME NEW h \in Procs, ResetTimer(h) PROVE Expiring'
    BY <1>5 DEF ResetTimer, Goto, nodes, alarms
  <1>6. ASSUME NEW h \in Procs, CheckClient(h) PROVE Expiring'
    BY <1>6 DEF CheckClient, Goto, nodes, alarms
  <1>7. ASSUME NEW h \in Procs, AddCheck(h) PROVE Expiring'
    BY <1>7 DEF AddCheck, Goto, nodes, alarms
  <1>8. ASSUME NEW h \in Procs, SetClient(h) PROVE Expiring'
    BY <1>8 DEF SetClient, Goto, nodes, alarms
  <1>9. ASSUME NEW h \in Procs, SetTimer(h) PROVE Expiring'
    BY <1>9 DEF SetTimer, Goto, nodes, alarms
  <1>10. ASSUME NEW h \in Procs, DeleteClient(h) PROVE Expiring'
    BY <1>10 DEF DeleteClient, Goto, nodes, alarms
  <1>11. ASSUME NEW h \in Procs, GetTimerToStop(h) PROVE Expiring'
    BY <1>11 DEF GetTimerToStop, Goto, nodes, alarms
  <1>12. ASSUME NEW h \in Procs, StopTimer(h) PROVE Expiring'
    BY <1>12 DEF StopTimer, Goto, nodes, alarms
  <1>13. ASSUME NEW h \in Procs, DeleteTimer(h) PROVE Expiring'
    BY <1>13 DEF DeleteTimer, Goto, nodes, alarms
  <1>14. ASSUME NEW tm \in Timers, Fire(tm) PROVE Expiring'
    BY <1>14 DEF Fire, nodes
  <1>15. ASSUME NEW tm \in Timers, Expire(tm) PROVE Expiring'
    BY <1>15 DEF Expire, Goto, nodes
  <1>16. CASE MonitorRestart
    BY <1>16 DEF MonitorRestart
  <1>17. CASE UNCHANGED vars
    BY <1>17 DEF vars
  <1>18. QED
    BY <1>1, <1>2, <1>3, <1>4, <1>5, <1>6, <1>7, <1>8, <1>9, <1>10, <1>11, <1>12, <1>13, <1>14, <1>15, <1>16, <1>17 DEF Next, Handle, Update, Add, Delete

\* Pushers stay keyed by their address.
LEMMA ByAddressStep ==
    ASSUME ~ByDesc, TypeOK, Backed, OneHandler, ByAddress, [Next]_vars
    PROVE  ByAddress'
  <1> USE MainIsItsOwn, RAssumption DEF TypeOK, Backed, Busy, MayStart, Jobs, OneHandler, ByAddress, InUse, Free, Keys
  <1>1. ASSUME NEW n \in Nodes, Boot(n) \/ Ping(n) \/ Leave(n) PROVE ByAddress'
    <2>1. PICK s \in Procs, label \in Labels : Signalled(n, s, label)
      BY <1>1, SignalEffect
    <2>2. s = Main(n) \/ (s # Main(n) /\ UNCHANGED <<node, addr>>)
      BY <2>1 DEF Signalled, Main
    <2>3. \A m \in Nodes : m # n => s # Main(m)
      BY <2>1 DEF Signalled, Main
    <2>4. job'[s].key = addr'[n] /\ job'[s].addr = addr'[n]
      BY <2>1 DEF Signalled, Key
    <2>5. (\A h \in Procs : job[h] \in Jobs => job[h].key = job[h].addr)'
      BY <2>1, <2>4 DEF Signalled
    <2>6. (\A k \in Keys : clients[k] \in {None, k})'
      BY <2>1 DEF Signalled
    <2>7. (\A m \in Nodes : pc[Main(m)] # "idle" /\ node[m] # "down" =>
              job[Main(m)].addr = addr[m])'
      <3>1. ASSUME NEW m \in Nodes, m # n, (pc[Main(m)] # "idle" /\ node[m] # "down")'
            PROVE  (job[Main(m)].addr = addr[m])'
        BY <3>1, <2>1, <2>3 DEF Signalled
      <3>2. ASSUME (pc[Main(n)] # "idle" /\ node[n] # "down")'
            PROVE  (job[Main(n)].addr = addr[n])'
        <4>1. CASE s = Main(n)
          BY <4>1, <2>4
        <4>2. CASE s # Main(n) /\ UNCHANGED <<node, addr>>
          BY <4>2, <3>2, <2>1 DEF Signalled
        <4> QED
          BY <4>1, <4>2, <2>2
      <3> HIDE DEF Main
      <3> QED
        BY <3>1, <3>2
    <2>8. (\A h \in Procs : pc[h] = "addTimer" => clients[job[h].key] = job[h].addr)'
      BY <2>1 DEF Signalled
    <2> QED
      BY <2>5, <2>6, <2>7, <2>8
  <1>2. ASSUME NEW n \in Nodes, BootUnheard(n) PROVE ByAddress'
    <2>1. pc[Main(n)] = "idle"
      BY <1>2 DEF BootUnheard, Main
    <2>2. \A m \in Nodes : m # n => addr'[m] = addr[m] /\ node'[m] = node[m]
      BY <1>2 DEF BootUnheard
    <2>3. UNCHANGED <<clients, pc, job>>
      BY <1>2 DEF BootUnheard
    <2> QED
      BY <2>1, <2>2, <2>3
  <1>3. ASSUME NEW n \in Nodes, Halt(n) PROVE ByAddress'
    BY <1>3 DEF Halt, alarms
  <1>4. ASSUME NEW h \in Procs, GetTimer(h) PROVE ByAddress'
    BY <1>4 DEF GetTimer, Goto, nodes, alarms
  <1>5. ASSUME NEW h \in Procs, ResetTimer(h) PROVE ByAddress'
    BY <1>5 DEF ResetTimer, Goto, nodes, alarms
  <1>6. ASSUME NEW h \in Procs, CheckClient(h) PROVE ByAddress'
    BY <1>6 DEF CheckClient, Goto, nodes, alarms
  <1>7. ASSUME NEW h \in Procs, AddCheck(h) PROVE ByAddress'
    BY <1>7 DEF AddCheck, Goto, nodes, alarms
  <1>8. ASSUME NEW h \in Procs, SetClient(h) PROVE ByAddress'
    BY <1>8 DEF SetClient, Goto, nodes, alarms
  <1>9. ASSUME NEW h \in Procs, SetTimer(h) PROVE ByAddress'
    BY <1>9 DEF SetTimer, Goto, nodes, alarms
  <1>10. ASSUME NEW h \in Procs, DeleteClient(h) PROVE ByAddress'
    BY <1>10 DEF DeleteClient, Goto, nodes, alarms
  <1>11. ASSUME NEW h \in Procs, GetTimerToStop(h) PROVE ByAddress'
    BY <1>11 DEF GetTimerToStop, Goto, nodes, alarms
  <1>12. ASSUME NEW h \in Procs, StopTimer(h) PROVE ByAddress'
    BY <1>12 DEF StopTimer, Goto, nodes, alarms
  <1>13. ASSUME NEW h \in Procs, DeleteTimer(h) PROVE ByAddress'
    BY <1>13 DEF DeleteTimer, Goto, nodes, alarms
  <1>14. ASSUME NEW tm \in Timers, Fire(tm) PROVE ByAddress'
    BY <1>14 DEF Fire, nodes
  <1>15. ASSUME NEW tm \in Timers, Expire(tm) PROVE ByAddress'
    BY <1>15 DEF Expire, Goto, nodes
  <1>16. CASE MonitorRestart
    BY <1>16 DEF MonitorRestart
  <1>17. CASE UNCHANGED vars
    BY <1>17 DEF vars
  <1>18. QED
    BY <1>1, <1>2, <1>3, <1>4, <1>5, <1>6, <1>7, <1>8, <1>9, <1>10, <1>11, <1>12, <1>13, <1>14, <1>15, <1>16, <1>17 DEF Next, Handle, Update, Add, Delete

-----------------------------------------------------------------------------
\* The registry starts empty and every invariant holds of it.
LEMMA InitInv == Init => SerialInv /\ ByAddress
  <1> SUFFICES ASSUME Init PROVE SerialInv /\ ByAddress
    OBVIOUS
  <1> USE RAssumption DEF Init
  <1>1. TypeOK
    BY DEF TypeOK, Labels
  <1>2. Backed
    BY DEF Backed, InUse, Procs
  <1>3. OneHandler /\ TimerOfKey /\ ClientGone /\ Expiring
    BY DEF OneHandler, Busy, TimerOfKey, ClientGone, Expiring
  <1>4. ByAddress
    BY MainIsItsOwn DEF ByAddress
  <1> QED
    BY <1>1, <1>2, <1>3, <1>4 DEF SerialInv

\* Every variable of the registry keeps its type, however the handlers overlap.
THEOREM TypeCorrect == Spec => []TypeOK
  <1>1. Init => TypeOK /\ Backed
    BY InitInv DEF SerialInv
  <1>2. (TypeOK /\ Backed) /\ [Next]_vars => (TypeOK /\ Backed)'
    BY TypeStep
  <1> QED
    BY <1>1, <1>2, PTL DEF Spec

\* With the handlers of a key one after the other, SerialInv is an invariant.
THEOREM SerialInvariant == ~Overlap => (Spec => []SerialInv)
  <1> SUFFICES ASSUME ~Overlap PROVE Spec => []SerialInv
    OBVIOUS
  <1>1. SerialInv /\ [Next]_vars => SerialInv'
    BY TypeStep, OneHandlerStep, TimerStep, ClientStep, ExpiringStep DEF SerialInv
  <1> QED
    BY <1>1, InitInv, PTL DEF Spec

\* With the handlers of a key one after the other, every registered client can
\* expire: a lock around the handlers is all the registry lacks.
THEOREM EveryEntryExpires == ~Overlap => (Spec => []EntriesExpire)
  <1>1. SerialInv => EntriesExpire
    BY DEF SerialInv, EntriesExpire, Expiring, TimerOfKey
  <1> QED
    BY <1>1, SerialInvariant, PTL

\* Only the last statements of a registration answer it.
LEMMA OnlyAddEnds ==
    ASSUME TypeOK, Backed, NEW n \in Nodes, [Next]_vars, restarts' = restarts,
           pc[Main(n)] \in {"addCheck", "addTimer"}, pc'[Main(n)] = "idle"
    PROVE  AddCheck(Main(n)) \/ SetTimer(Main(n))
  <1> DEFINE Waits == pc'[Main(n)] = pc[Main(n)]
  <1> USE MainIsItsOwn DEF TypeOK
  <1>1. ASSUME NEW m \in Nodes, Boot(m) \/ Ping(m) \/ Leave(m) PROVE Waits
    <2>1. PICK s \in Procs, label \in Labels : Signalled(m, s, label)
      BY <1>1, SignalEffect
    <2> QED
      BY <2>1 DEF Signalled
  <1>2. ASSUME NEW m \in Nodes, BootUnheard(m) \/ Halt(m) PROVE Waits
    BY <1>2 DEF BootUnheard, Halt
  <1>3. ASSUME NEW h \in Procs, h # Main(n), Handle(h) PROVE Waits
    BY <1>3 DEF Handle, Update, Add, Delete, GetTimer, ResetTimer, CheckClient, AddCheck,
       SetClient, SetTimer, DeleteClient, GetTimerToStop, StopTimer, DeleteTimer, Goto
  <1>4. CASE Handle(Main(n))
    BY <1>4 DEF Handle, Update, Add, Delete, GetTimer, ResetTimer, CheckClient,
       SetClient, DeleteClient, GetTimerToStop, StopTimer, DeleteTimer
  <1>5. ASSUME NEW tm \in Timers, Fire(tm) \/ Expire(tm) PROVE Waits
    BY <1>5 DEF Fire, Expire, Goto
  <1>6. ~MonitorRestart
    BY DEF MonitorRestart
  <1>7. CASE UNCHANGED vars
    BY <1>7 DEF vars
  <1> QED
    BY <1>1, <1>2, <1>3, <1>4, <1>5, <1>6, <1>7 DEF Next

\* With the handlers of a key one after the other, a pusher that has registered
\* is called where it listens.
THEOREM RegistrationsTakeEffect ==
    ~Overlap /\ ~ByDesc => (Spec => RegistrationTakesEffect)
  <1> SUFFICES ASSUME ~Overlap, ~ByDesc PROVE Spec => RegistrationTakesEffect
    OBVIOUS
  <1>1. (SerialInv /\ ByAddress) /\ [Next]_vars => (SerialInv /\ ByAddress)'
    BY TypeStep, OneHandlerStep, TimerStep, ClientStep, ExpiringStep, ByAddressStep
       DEF SerialInv
  <1> DEFINE Ends(n) == /\ pc[Main(n)] \in {"addCheck", "addTimer"} /\ pc'[Main(n)] = "idle"
                        /\ node[n] # "down" /\ restarts' = restarts
  <1>2. ASSUME SerialInv, ByAddress, [Next]_vars, NEW n \in Nodes, Ends(n)
        PROVE  clients'[Key(n)] = addr[n]
    <2>1. job[Main(n)] \in Jobs /\ job[Main(n)].key = addr[n] /\ Key(n) = addr[n]
      BY <1>2, MainIsItsOwn DEF SerialInv, TypeOK, ByAddress, Key
    <2>2. AddCheck(Main(n)) \/ SetTimer(Main(n))
      BY <1>2, OnlyAddEnds DEF SerialInv
    <2>3. CASE AddCheck(Main(n))
      BY <1>2, <2>1, <2>3, MainIsItsOwn, RAssumption
         DEF AddCheck, Goto, SerialInv, TypeOK, ByAddress, Jobs
    <2>4. CASE SetTimer(Main(n))
      BY <1>2, <2>1, <2>4, MainIsItsOwn DEF SetTimer, nodes, ByAddress
    <2> QED
      BY <2>2, <2>3, <2>4
  <1>3. SerialInv /\ ByAddress /\ [Next]_vars => \A n \in Nodes : Ends(n) => clients'[Key(n)] = addr[n]
    BY <1>2
  <1> QED
    BY <1>1, <1>3, InitInv, PTL DEF Spec, RegistrationTakesEffect, Main
=============================================================================
