----------------------------- MODULE MessagePush -----------------------------
(***************************************************************************)
(* How a pusher pushes the messages of an NSQ channel: HandleMessage and   *)
(* all it calls, run by several handler goroutines (src/pusher/nsq.go,     *)
(* push.go, send_client.go, alert.go), with the clients SendClient keeps,  *)
(* the task map UpdateTask and DeleteTask write, and what nsqd and the NSQ *)
(* library do with the answers.                                            *)
(***************************************************************************)
EXTENDS Naturals, FiniteSets

CONSTANTS
    Tasks,      \* task IDs
    Ids,        \* distinguishes the messages of a task
    Handlers,   \* goroutines of the library that call HandleMessage
    Timeouts,   \* values of task.Timeout
    Settings,   \* what of a task matters here: [retry, timeout, alert]
    Slow,       \* may a push last longer than nsqd waits for an answer?
    MaxStops,   \* how often the process may crash, apart from panics
    None        \* the absent value (Go's nil)

Messages == Tasks \X Ids
TaskOf(m) == m[1]

\* The monitor takes 0 to 10 retries (web.go), so RetryCount + 1 fits MaxAttempts, a
\* uint16 in which 0 means "no limit".
ASSUME MAssumption ==
    /\ Settings \subseteq [retry : 0..10, timeout : Timeouts, alert : BOOLEAN]
    /\ Slow \in BOOLEAN
    /\ MaxStops \in Nat
    /\ None \notin Settings \cup Messages
    /\ Settings # {}
    /\ IsFiniteSet(Handlers)

VARIABLES
    up,         \* the process runs
    task,       \* taskIdMap: the settings of a task, or None
    limit,      \* MaxAttempts of the task's consumer; None: none runs
    deleted,    \* the tasks the monitor has deleted; an ID is never used again
    state,      \* of a message, in nsqd: queued, inflight, finished
    attempts,   \* how often nsqd has handed it out
    clients,    \* SendClient.clients: how many there are for each timeout
    pc,         \* the next statement of each handler
    msg,        \* its message
    try,        \* msg.Attempts, as it came with the message
    using,      \* the local variable "task" of SendMessage
    stops,      \* crashes so far
    pushed,     \* how often the endpoint has got a message
    confirmed,  \* the messages it has answered with success
    reported,   \* those a failure alert has been sent for
    abandoned,  \* those the library has given up
    dropped,    \* those whose task was deleted before they could be pushed
    interrupted \* those a crash, or nsqd's patience, cut an attempt short of

nsqd == <<state, attempts>>
history == <<pushed, confirmed, reported, abandoned, dropped, interrupted>>
handlers == <<pc, msg, try, using>>
manager == <<up, task, limit, deleted, stops>>
vars == <<manager, nsqd, clients, handlers, history>>

-----------------------------------------------------------------------------
Labels == {"idle", "get", "lookup", "create", "post", "alert", "requeue", "finish"}

\* Mutant: the first push counted twice.
MutantMaxAttempts(s) == s.retry + 2

MaxAttempts(s) == s.retry + 1

\* Mutant: "/ 10" forgotten.
MutantAlertDue(attempt, s) == attempt - 1 >= s.retry * 7

\* evt.RetryCount >= task.RetryCount * 7 / 10, with evt.RetryCount = Attempts - 1.
AlertDue(attempt, s) == attempt - 1 >= (s.retry * 7) \div 10

Goto(h, label) == pc' = [pc EXCEPT ![h] = label]
InFlight == {m \in Messages : state[m] = "inflight"}

Init == /\ up = FALSE
        /\ task = [t \in Tasks |-> None]
        /\ limit = [t \in Tasks |-> None]
        /\ deleted = {}
        /\ state = [m \in Messages |-> "queued"]
        /\ attempts = [m \in Messages |-> 0]
        /\ clients = [x \in Timeouts |-> 0]
        /\ pc = [h \in Handlers |-> "idle"]
        /\ msg = [h \in Handlers |-> None]
        /\ try = [h \in Handlers |-> 0]
        /\ using = [h \in Handlers |-> None]
        /\ stops = 0
        /\ pushed = [m \in Messages |-> 0]
        /\ confirmed = {}
        /\ reported = {}
        /\ abandoned = {}
        /\ dropped = {}
        /\ interrupted = {}

\* The process dies; nsqd requeues what its connections had in flight.
Die == /\ up' = FALSE
       /\ task' = [t \in Tasks |-> None]
       /\ limit' = [t \in Tasks |-> None]
       /\ state' = [m \in Messages |-> IF m \in InFlight THEN "queued" ELSE state[m]]
       /\ clients' = [x \in Timeouts |-> 0]
       /\ pc' = [h \in Handlers |-> "idle"]
       /\ msg' = [h \in Handlers |-> None]
       /\ try' = [h \in Handlers |-> 0]
       /\ using' = [h \in Handlers |-> None]
       /\ interrupted' = interrupted \cup InFlight
       /\ UNCHANGED <<deleted, attempts, pushed, confirmed, reported, abandoned, dropped>>

-----------------------------------------------------------------------------
(* The task manager, as far as handlers see it (TaskConsumers has it all). *)

\* Init: a consumer for each task, with the settings of the monitor's database.
Boot == /\ ~up
        /\ up' = TRUE
        /\ \E s \in [Tasks -> Settings] :
              /\ task' = [t \in Tasks |-> IF t \in deleted THEN None ELSE s[t]]
              /\ limit' = [t \in Tasks |-> IF t \in deleted THEN None ELSE MaxAttempts(s[t])]
        /\ UNCHANGED <<deleted, nsqd, clients, handlers, stops, history>>

\* UpdateTask replaces the task; the consumer keeps its configuration.
UpdateTask(t, s) ==
    /\ task[t] # None
    /\ task' = [task EXCEPT ![t] = s]
    /\ UNCHANGED <<up, limit, deleted, nsqd, clients, handlers, stops, history>>

\* StartTask stops the consumer, waiting 30 s for its handlers, and makes a new one.
StartTask(t, s) ==
    /\ task[t] # None
    /\ task' = [task EXCEPT ![t] = s]
    /\ limit' = [limit EXCEPT ![t] = MaxAttempts(s)]
    /\ UNCHANGED <<up, deleted, nsqd, clients, handlers, stops, history>>

\* StopTask and DeleteTask wait 30 s for the handlers: some may still be at work.
StopTask(t) ==
    /\ limit[t] # None
    /\ limit' = [limit EXCEPT ![t] = None]
    /\ UNCHANGED <<up, task, deleted, nsqd, clients, handlers, stops, history>>

DeleteTask(t) ==
    /\ task[t] # None
    /\ task' = [task EXCEPT ![t] = None]
    /\ limit' = [limit EXCEPT ![t] = None]
    /\ deleted' = deleted \cup {t}
    /\ UNCHANGED <<up, nsqd, clients, handlers, stops, history>>

Crash == /\ up
         /\ stops < MaxStops
         /\ stops' = stops + 1
         /\ Die

-----------------------------------------------------------------------------
(* nsqd and the library.                                                   *)

Waiting(m) == limit[TaskOf(m)] # None /\ state[m] = "queued"

Deliver(h, m) ==
    /\ Waiting(m)
    /\ pc[h] = "idle"
    /\ attempts[m] < limit[TaskOf(m)]
    /\ state' = [state EXCEPT ![m] = "inflight"]
    /\ attempts' = [attempts EXCEPT ![m] = @ + 1]
    /\ msg' = [msg EXCEPT ![h] = m]
    /\ try' = [try EXCEPT ![h] = attempts[m] + 1]
    /\ Goto(h, "get")
    /\ UNCHANGED <<manager, clients, using, history>>

\* shouldFailMessage: one attempt too many, and the library finishes the message
\* without a call of HandleMessage.
GiveUp(m) ==
    /\ Waiting(m)
    /\ \E h \in Handlers : pc[h] = "idle"
    /\ attempts[m] >= limit[TaskOf(m)]
    /\ state' = [state EXCEPT ![m] = "finished"]
    /\ attempts' = [attempts EXCEPT ![m] = @ + 1]
    /\ abandoned' = abandoned \cup {m}
    /\ UNCHANGED <<manager, clients, handlers, pushed, confirmed, reported, dropped, interrupted>>

\* No answer in time: nsqd queues the message again while its handler goes on.
MsgTimeout(m) ==
    /\ Slow
    /\ state[m] = "inflight"
    /\ state' = [state EXCEPT ![m] = "queued"]
    /\ interrupted' = interrupted \cup {m}
    /\ UNCHANGED <<manager, attempts, clients, handlers, pushed, confirmed, reported,
                   abandoned, dropped>>

\* nsqd takes an answer only for a message that is in flight.
Answer(h, outcome) ==
    /\ state' = [state EXCEPT ![msg[h]] = IF @ = "inflight" THEN outcome ELSE @]
    /\ pc' = [pc EXCEPT ![h] = "idle"]
    /\ msg' = [msg EXCEPT ![h] = None]
    /\ try' = [try EXCEPT ![h] = 0]
    /\ using' = [using EXCEPT ![h] = None]
    /\ UNCHANGED <<manager, attempts, clients, history>>

-----------------------------------------------------------------------------
(* HandleMessage.                                                          *)

\* Mutant: the task taken for known.
MutantGetTask(h) ==
    /\ pc[h] = "get"
    /\ using' = [using EXCEPT ![h] = task[TaskOf(msg[h])]]
    /\ Goto(h, "lookup")
    /\ UNCHANGED <<manager, nsqd, clients, msg, try, history>>

\* SendMessage takes a message of an unknown task for pushed.
GetTask(h) ==
    /\ pc[h] = "get"
    /\ LET t == TaskOf(msg[h])
       IN  /\ using' = [using EXCEPT ![h] = task[t]]
           /\ Goto(h, IF task[t] = None THEN "finish" ELSE "lookup")
           /\ dropped' = IF task[t] = None THEN dropped \cup {msg[h]} ELSE dropped
    /\ UNCHANGED <<manager, nsqd, clients, msg, try, pushed, confirmed, reported, abandoned,
                   interrupted>>

\* SendClient.Get, under the read lock.
LookupClient(h) ==
    /\ pc[h] = "lookup"
    /\ Goto(h, IF clients[using[h].timeout] > 0 THEN "post" ELSE "create")
    /\ UNCHANGED <<manager, nsqd, clients, msg, try, using, history>>

\* Mutant: "add" without looking again under the write lock.
MutantAddClient(h) ==
    /\ pc[h] = "create"
    /\ clients' = [clients EXCEPT ![using[h].timeout] = @ + 1]
    /\ Goto(h, "post")
    /\ UNCHANGED <<manager, nsqd, msg, try, using, history>>

\* SendClient.Get, under the write lock: it returns the client only if it is new.
AddClient(h) ==
    /\ pc[h] = "create"
    /\ clients[using[h].timeout] = 0
    /\ clients' = [clients EXCEPT ![using[h].timeout] = @ + 1]
    /\ Goto(h, "post")
    /\ UNCHANGED <<manager, nsqd, msg, try, using, history>>

\* The call of a method of the nil client: the library does not recover.
Panic(h) ==
    /\ pc[h] = "create"
    /\ clients[using[h].timeout] > 0
    /\ UNCHANGED stops
    /\ Die

\* The request: the endpoint may get it or not, and its answer may say success,
\* say something else, or come too late.
Post(h) ==
    /\ pc[h] = "post"
    /\ \E received, success \in BOOLEAN :
          /\ success => received
          /\ pushed' = IF received THEN [pushed EXCEPT ![msg[h]] = @ + 1] ELSE pushed
          /\ confirmed' = IF success THEN confirmed \cup {msg[h]} ELSE confirmed
          /\ Goto(h, IF success THEN "finish" ELSE "alert")
    /\ UNCHANGED <<manager, nsqd, clients, msg, try, using, reported, abandoned, dropped,
                   interrupted>>

\* handleAlert, which reads the task again, and LogSendError.
HandleAlert(h) ==
    /\ pc[h] = "alert"
    /\ LET s == task[TaskOf(msg[h])]
       IN  reported' = IF s # None /\ s.alert /\ AlertDue(try[h], s)
                       THEN reported \cup {msg[h]} ELSE reported
    /\ Goto(h, "requeue")
    /\ UNCHANGED <<manager, nsqd, clients, msg, try, using, pushed, confirmed, abandoned,
                   dropped, interrupted>>

\* Mutants: the message not requeued; a requeue after success; no answer at all.
MutantRequeue(h) == pc[h] = "requeue" /\ Answer(h, "finished")
MutantFinish(h) == pc[h] = "finish" /\ Answer(h, "queued")
MutantNoFinish(h) == pc[h] = "finish" /\ Answer(h, "inflight")

\* RequeueWithoutBackoff; the library's Finish that follows finds the message
\* answered.
Requeue(h) == pc[h] = "requeue" /\ Answer(h, "queued")

Finish(h) == pc[h] = "finish" /\ Answer(h, "finished")

-----------------------------------------------------------------------------
HandleMessage(h) == \/ GetTask(h)
                    \/ LookupClient(h)
                    \/ AddClient(h)
                    \/ Panic(h)
                    \/ Post(h)
                    \/ HandleAlert(h)
                    \/ Requeue(h)
                    \/ Finish(h)

Next == \/ Boot
        \/ Crash
        \/ \E t \in Tasks : StopTask(t) \/ DeleteTask(t)
        \/ \E t \in Tasks, s \in Settings : UpdateTask(t, s) \/ StartTask(t, s)
        \/ \E h \in Handlers, m \in Messages : Deliver(h, m)
        \/ \E m \in Messages : GiveUp(m) \/ MsgTimeout(m)
        \/ \E h \in Handlers : HandleMessage(h)

Spec == Init /\ [][Next]_vars

\* Handlers run, requests end at their timeout, and nsqd hands out what it has
\* queued as long as there is a consumer.  Nothing restarts the process or the
\* consumer.
Fairness == /\ \A h \in Handlers : WF_vars(HandleMessage(h))
            /\ \A m \in Messages : WF_vars(GiveUp(m) \/ \E h \in Handlers : Deliver(h, m))

FairSpec == Spec /\ Fairness

-----------------------------------------------------------------------------
(* Properties.                                                             *)

TypeOK ==
    /\ up \in BOOLEAN
    /\ task \in [Tasks -> Settings \cup {None}]
    /\ limit \in [Tasks -> Nat \cup {None}]
    /\ deleted \subseteq Tasks
    /\ state \in [Messages -> {"queued", "inflight", "finished"}]
    /\ attempts \in [Messages -> Nat]
    /\ clients \in [Timeouts -> Nat]
    /\ pc \in [Handlers -> Labels]
    /\ msg \in [Handlers -> Messages \cup {None}]
    /\ try \in [Handlers -> Nat]
    /\ using \in [Handlers -> Settings \cup {None}]
    /\ stops \in 0..MaxStops
    /\ pushed \in [Messages -> Nat]
    /\ confirmed \cup reported \cup abandoned \cup dropped \cup interrupted \subseteq Messages
    /\ \A h \in Handlers : pc[h] # "idle" => msg[h] \in Messages
    /\ \A h \in Handlers : pc[h] \in {"lookup", "create", "post"} => using[h] \in Settings

\* A message leaves the channel only because the endpoint has confirmed it, its
\* attempts are used up, or its task has gone: whatever crashes and late answers
\* come in between, a failed push alone never finishes it.
LeavesForAReason ==
    \A m \in Messages : state[m] = "finished" => m \in confirmed \cup abandoned \cup dropped

\* The lock around "add" is enough for one client per timeout.
OneClientPerTimeout == \A x \in Timeouts : clients[x] <= 1

\* The endpoint gets a message RetryCount + 1 times at most, counting the pushes
\* it has not answered and those of pusher processes that have died.
BoundedPushes ==
    \A m \in Messages : \E s \in Settings : pushed[m] <= s.retry + 1

\* Nobody loses a message without being told: of a task with alerts, a message given
\* up after failed pushes has been reported by the last of them, if no attempt at it
\* was cut short (updates of "alert" and "retry" apart: a handler reads them anew).
GivenUpIsReported == abandoned \subseteq reported \cup interrupted

\* A confirmed message is pushed again only if its answer to nsqd was lost or late.
ConfirmedIsLeftAlone ==
    [][\A m \in confirmed \ interrupted : pushed'[m] = pushed[m]]_vars

\* As long as the process and the consumer stay, every message leaves the channel.
MessagesLeave ==
    \A m \in Messages :
       <>[](limit[TaskOf(m)] # None) => <>(state[m] = "finished")
=============================================================================
