--------------------------- MODULE ClientRegistry ---------------------------
(***************************************************************************)
(* The monitor's registry of dispatchers, or of pushers: who is told about *)
(* tasks (src/monitor/dispatcher.go, pushClient.go, client_map.go,         *)
(* rpcserver.go), and the signals the nodes send it (rpcclient.go of the   *)
(* dispatcher and of the pusher).                                          *)
(*                                                                         *)
(* A registry is two maps with a lock each, the clients and their expiry   *)
(* timers, and one goroutine per timer.  The handlers of the signals take  *)
(* the locks one map operation at a time, so each operation is an action.  *)
(* Dispatchers are keyed by their configured description, pushers by their *)
(* address.                                                                *)
(***************************************************************************)
EXTENDS Naturals, FiniteSets

CONSTANTS
    Nodes,       \* the configured processes: their descriptions
    Addresses,   \* host:port of a node's RPC server; the port is random (port = 0)
    Timers,      \* identities of timers; they bound the signals served at once
    ByDesc,      \* TRUE: DispatcherManager, keyed by desc; FALSE: PusherManager
    Overlap,     \* may two handlers, or a handler and an expiry, work on one key?
    MaxRestarts, \* bound on the restarts of the monitor
    None         \* the absent value

Keys == IF ByDesc THEN Nodes ELSE Addresses
Senders == Nodes \X {"main", "ping"}   \* a node's goroutines that call the monitor
Procs == Senders \cup Timers           \* goroutines of the monitor
Jobs == [key : Keys, addr : Addresses] \* what a signal is about

ASSUME RAssumption ==
    /\ ByDesc \in BOOLEAN
    /\ Overlap \in BOOLEAN
    /\ MaxRestarts \in Nat
    /\ None \notin Keys \cup Addresses \cup Timers \cup Jobs
    /\ Senders \cap Timers = {}

VARIABLES
    node,        \* of each node: down, up, leaving
    addr,        \* where its RPC server listens
    clients,     \* RPCClientMap: the address a key's RPCs go to, or None
    timers,      \* TimerMap: the timer of a key, or None
    armed,       \* timers that will fire
    token,       \* timers that have fired and whose channel nobody has read
    pc,          \* where each goroutine of the monitor stands
    job,         \* the [key, addr] it works on; a timer's goroutine keeps its own
    got,         \* its local variable "timer"
    restarts     \* how often the monitor has restarted

vars == <<node, addr, clients, timers, armed, token, pc, job, got, restarts>>
nodes == <<node, addr, restarts>>
alarms == <<armed, token>>

-----------------------------------------------------------------------------
Labels == {"idle", "reset", "resetTimer", "check", "addCheck", "addClient", "addTimer",
           "delClient", "delTimer", "stopTimer", "delEntry"}

Key(n) == IF ByDesc THEN n ELSE addr[n]
JobOf(n) == [key |-> Key(n), addr |-> addr[n]]

Busy(h, k) == pc[h] # "idle" /\ job[h].key = k
MayStart(k) == Overlap \/ \A h \in Procs : ~Busy(h, k)

\* A timer no map, no local variable and no pending expiry refers to.
Free(tm) == /\ tm \notin armed \cup token
            /\ pc[tm] = "idle"
            /\ \A k \in Keys : timers[k] # tm
            /\ \A h \in Procs : got[h] # tm

\* A bound: a signal is only sent when every one under way could get a timer.
TimerToSpare == Cardinality({tm \in Timers : Free(tm)})
                   > Cardinality({h \in Senders : pc[h] # "idle"})

Goto(h, label) == pc' = [pc EXCEPT ![h] = label]

Init == /\ node = [n \in Nodes |-> "down"]
        /\ addr = [n \in Nodes |-> None]
        /\ clients = [k \in Keys |-> None]
        /\ timers = [k \in Keys |-> None]
        /\ armed = {}
        /\ token = {}
        /\ pc = [h \in Procs |-> "idle"]
        /\ job = [h \in Procs |-> None]
        /\ got = [h \in Procs |-> None]
        /\ restarts = 0

-----------------------------------------------------------------------------
(* Plausible mistakes in the code, to see the properties notice them.      *)

\* UpdatePushClient that only resets the timer.
MutantCheckNeverAdds(h) == /\ pc[h] = "check"
                           /\ Goto(h, "idle")
                           /\ job' = [job EXCEPT ![h] = None]
                           /\ UNCHANGED <<nodes, clients, timers, alarms, got>>

\* AddPushClient without rpcclients.Set.
MutantNoSet(h) == /\ pc[h] = "addClient"
                  /\ Goto(h, "addTimer")
                  /\ UNCHANGED <<nodes, clients, timers, alarms, job, got>>

\* The timer is kept and never started.
MutantUnarmed(h) == /\ pc[h] = "addTimer"
                    /\ \E tm \in Timers :
                          /\ Free(tm)
                          /\ timers' = [timers EXCEPT ![job[h].key] = tm]
                          /\ job' = [job EXCEPT ![tm] = job[h], ![h] = None]
                    /\ Goto(h, "idle")
                    /\ UNCHANGED <<nodes, clients, alarms, got>>

\* DeletePushClient without rpcclients.Delete.
MutantKeepsClient(h) == /\ pc[h] = "delClient"
                        /\ Goto(h, "delTimer")
                        /\ UNCHANGED <<nodes, clients, timers, alarms, job, got>>

\* The timer is stopped without a look at "ok".
MutantStopsNil(h) ==
    /\ pc[h] = "delTimer"
    /\ got' = [got EXCEPT ![h] = timers[job[h].key]]
    /\ Goto(h, "stopTimer")
    /\ UNCHANGED <<nodes, clients, timers, alarms, job>>

-----------------------------------------------------------------------------
(* The nodes.  A call waits for its answer: each goroutine of a node has   *)
(* one call outstanding.  A node boots again only when the monitor is done *)
(* with the registration or the farewell of before; a ping may linger.     *)

Send(n, who, label) ==
    /\ pc[<<n, who>>] = "idle"
    /\ MayStart(Key(n)')
    /\ TimerToSpare
    /\ job' = [job EXCEPT ![<<n, who>>] = JobOf(n)']
    /\ Goto(<<n, who>>, label)
    /\ UNCHANGED <<clients, timers, alarms, got, restarts>>

\* The RPC server listens on a port of its own and RegisterClient is called.
Boot(n) == /\ node[n] = "down"
           /\ node' = [node EXCEPT ![n] = "up"]
           /\ \E a \in Addresses :
                 /\ \A m \in Nodes : node[m] # "down" => addr[m] # a
                 /\ addr' = [addr EXCEPT ![n] = a]
           /\ Send(n, "main", "addCheck")

\* The same with the registration lost: the ping loop starts all the same.
BootUnheard(n) ==
    /\ node[n] = "down"
    /\ pc[<<n, "main">>] = "idle"
    /\ node' = [node EXCEPT ![n] = "up"]
    /\ \E a \in Addresses :
          /\ \A m \in Nodes : node[m] # "down" => addr[m] # a
          /\ addr' = [addr EXCEPT ![n] = a]
    /\ UNCHANGED <<clients, timers, alarms, pc, job, got, restarts>>

\* PingLoop of the dispatcher ends before it deregisters, the pusher's does not.
Ping(n) == /\ node[n] = "up" \/ (node[n] = "leaving" /\ ~ByDesc)
           /\ pc[<<n, "main">>] = "idle" \/ node[n] = "leaving"
           /\ UNCHANGED <<node, addr>>
           /\ Send(n, "ping", "reset")

Leave(n) == /\ node[n] = "up"
            /\ node' = [node EXCEPT ![n] = "leaving"]
            /\ UNCHANGED addr
            /\ Send(n, "main", "delClient")

\* A node exits after its farewell, or is killed at any point.
Halt(n) == /\ node[n] # "down"
           /\ node' = [node EXCEPT ![n] = "down"]
           /\ UNCHANGED <<addr, clients, timers, alarms, pc, job, got, restarts>>

-----------------------------------------------------------------------------
(* UpdateDispatchClient, UpdatePushClient.                                 *)

GetTimer(h) == /\ pc[h] = "reset"
               /\ got' = [got EXCEPT ![h] = timers[job[h].key]]
               /\ Goto(h, IF timers[job[h].key] = None THEN "check" ELSE "resetTimer")
               /\ UNCHANGED <<nodes, clients, timers, alarms, job>>

ResetTimer(h) == /\ pc[h] = "resetTimer"
                 /\ armed' = armed \cup {got[h]}
                 /\ got' = [got EXCEPT ![h] = None]
                 /\ Goto(h, "check")
                 /\ UNCHANGED <<nodes, clients, timers, token, job>>

CheckClient(h) == /\ pc[h] = "check"
                  /\ IF clients[job[h].key] = None
                     THEN Goto(h, "addCheck") /\ UNCHANGED job
                     ELSE Goto(h, "idle") /\ job' = [job EXCEPT ![h] = None]
                  /\ UNCHANGED <<nodes, clients, timers, alarms, got>>

(* AddDispatchClient, AddPushClient.                                       *)

AddCheck(h) == /\ pc[h] = "addCheck"
               /\ IF clients[job[h].key] = None
                  THEN Goto(h, "addClient") /\ UNCHANGED job
                  ELSE Goto(h, "idle") /\ job' = [job EXCEPT ![h] = None]
               /\ UNCHANGED <<nodes, clients, timers, alarms, got>>

SetClient(h) == /\ pc[h] = "addClient"
                /\ clients' = [clients EXCEPT ![job[h].key] = job[h].addr]
                /\ Goto(h, "addTimer")
                /\ UNCHANGED <<nodes, timers, alarms, job, got>>

\* The new timer, and the goroutine that will delete the key when it fires.
SetTimer(h) == /\ pc[h] = "addTimer"
               /\ \E tm \in Timers :
                     /\ Free(tm)
                     /\ timers' = [timers EXCEPT ![job[h].key] = tm]
                     /\ armed' = armed \cup {tm}
                     /\ job' = [job EXCEPT ![tm] = job[h], ![h] = None]
               /\ Goto(h, "idle")
               /\ UNCHANGED <<nodes, clients, token, got>>

(* DeleteDispatchClient, DeletePushClient.                                 *)

DeleteClient(h) == /\ pc[h] = "delClient"
                   /\ clients' = [clients EXCEPT ![job[h].key] = None]
                   /\ Goto(h, "delTimer")
                   /\ UNCHANGED <<nodes, timers, alarms, job, got>>

GetTimerToStop(h) ==
    /\ pc[h] = "delTimer"
    /\ got' = [got EXCEPT ![h] = timers[job[h].key]]
    /\ Goto(h, IF timers[job[h].key] = None THEN "delEntry" ELSE "stopTimer")
    /\ UNCHANGED <<nodes, clients, timers, alarms, job>>

\* Stop does not drain the channel: a timer that has fired keeps its token.
StopTimer(h) == /\ pc[h] = "stopTimer"
                /\ armed' = armed \ {got[h]}
                /\ got' = [got EXCEPT ![h] = None]
                /\ Goto(h, "delEntry")
                /\ UNCHANGED <<nodes, clients, timers, token, job>>

\* A timer's goroutine waits for its timer again; the others return.
DeleteTimer(h) == /\ pc[h] = "delEntry"
                  /\ timers' = [timers EXCEPT ![job[h].key] = None]
                  /\ job' = [job EXCEPT ![h] = IF h \in Timers THEN @ ELSE None]
                  /\ Goto(h, "idle")
                  /\ UNCHANGED <<nodes, clients, alarms, got>>

(* The timers.  Nothing synchronises the 60 s of a timer with the pings:   *)
(* a slow network or a paused node lets it fire at any moment.             *)

Fire(tm) == /\ tm \in armed
            /\ armed' = armed \ {tm}
            /\ token' = token \cup {tm}
            /\ UNCHANGED <<nodes, clients, timers, pc, job, got>>

Expire(tm) == /\ tm \in token
              /\ pc[tm] = "idle"
              /\ MayStart(job[tm].key)
              /\ token' = token \ {tm}
              /\ Goto(tm, "delClient")
              /\ UNCHANGED <<nodes, clients, timers, armed, job, got>>

\* The monitor is restarted with an empty registry; the calls under way fail.
\* Besides a crash this is the runtime's fatal error when two goroutines touch a
\* map at once: TimerMap.Delete holds a read lock, Iter and Length hold none.
MonitorRestart ==
    /\ restarts < MaxRestarts
    /\ restarts' = restarts + 1
    /\ clients' = [k \in Keys |-> None]
    /\ timers' = [k \in Keys |-> None]
    /\ armed' = {}
    /\ token' = {}
    /\ pc' = [h \in Procs |-> "idle"]
    /\ job' = [h \in Procs |-> None]
    /\ got' = [h \in Procs |-> None]
    /\ UNCHANGED <<node, addr>>

-----------------------------------------------------------------------------
Update(h) == GetTimer(h) \/ ResetTimer(h) \/ CheckClient(h)
Add(h) == AddCheck(h) \/ SetClient(h) \/ SetTimer(h)
Delete(h) == DeleteClient(h) \/ GetTimerToStop(h) \/ StopTimer(h) \/ DeleteTimer(h)
Handle(h) == Update(h) \/ Add(h) \/ Delete(h)

Next == \/ \E n \in Nodes : Boot(n) \/ BootUnheard(n) \/ Ping(n) \/ Leave(n) \/ Halt(n)
        \/ \E h \in Procs : Handle(h)
        \/ \E tm \in Timers : Fire(tm) \/ Expire(tm)
        \/ MonitorRestart

Spec == Init /\ [][Next]_vars

\* The runtime schedules the monitor's goroutines, an armed timer fires unless
\* it is stopped, and a node that is up pings for ever.  Nobody has to boot,
\* leave or crash.
Fairness == /\ \A h \in Procs : WF_vars(Handle(h))
            /\ \A tm \in Timers : WF_vars(Fire(tm)) /\ WF_vars(Expire(tm))
            /\ \A n \in Nodes : WF_vars(Ping(n))

FairSpec == Spec /\ Fairness

-----------------------------------------------------------------------------
(* Properties.                                                             *)

\* The values the variables take; a goroutine at work has a job.
TypeOK ==
    /\ node \in [Nodes -> {"down", "up", "leaving"}]
    /\ addr \in [Nodes -> Addresses \cup {None}]
    /\ clients \in [Keys -> Addresses \cup {None}]
    /\ timers \in [Keys -> Timers \cup {None}]
    /\ armed \subseteq Timers
    /\ token \subseteq Timers
    /\ pc \in [Procs -> Labels]
    /\ job \in [Procs -> Jobs \cup {None}]
    /\ got \in [Procs -> Timers \cup {None}]
    /\ restarts \in 0..MaxRestarts
    /\ \A h \in Procs : pc[h] # "idle" => job[h] \in Jobs
    /\ \A h \in Procs : pc[h] \in {"resetTimer", "stopTimer"} => got[h] \in Timers

\* A registered client can always expire: while no goroutine works on its key,
\* its timer is in the timer map, where the pings reset it, and will fire or
\* has fired.  Otherwise a node that dies would be called for ever.
EntriesExpire ==
    \A k \in Keys :
       clients[k] # None /\ (\A h \in Procs : ~Busy(h, k)) =>
          /\ timers[k] # None
          /\ timers[k] \in armed \cup token
          /\ job[timers[k]].key = k

\* The least of it: while no goroutine works on the key of a registered client,
\* some timer is left that removes the client when its node falls silent.
SomeTimerLeft ==
    \A k \in Keys :
       clients[k] # None /\ (\A h \in Procs : ~Busy(h, k)) =>
          \E tm \in armed \cup token : job[tm].key = k

\* When RegisterClient answers a node that is still there, the monitor calls the
\* node at the address it registered.
RegistrationTakesEffect ==
    [][\A n \in Nodes :
          LET h == <<n, "main">> IN
          /\ pc[h] \in {"addCheck", "addTimer"} /\ pc'[h] = "idle"
          /\ node[n] # "down" /\ restarts' = restarts
          => clients'[Key(n)] = addr[n]]_vars

\* A node that stays up is registered again and again, whatever expiries and
\* restarts of the monitor remove it: its next ping adds it.
LiveNodesComeBack ==
    \A n \in Nodes :
       <>[](node[n] = "up") => []<>(node[n] = "up" /\ clients[Key(n)] = addr[n])

\* The monitor stops calling an address nobody listens on any more.
DeadAddressesLeave ==
    \A a \in Addresses :
       <>[](\A n \in Nodes : node[n] = "down" \/ addr[n] # a)
          => <>[](\A k \in Keys : clients[k] # a)
=============================================================================
