-------------------------- MODULE TaskSubscription --------------------------
(***************************************************************************)
(* What a dispatcher, and a pusher, promise the monitor, whatever their    *)
(* locks and maps do: a task has at most one consumer, a consumer appears, *)
(* changes or goes only on behalf of a request about its task (or when the *)
(* process leaves), and a request is answered only when it has taken       *)
(* effect.  A consumer that is told to go may go on with what it has       *)
(* already received: the libraries wait for that, but not for ever.        *)
(***************************************************************************)
CONSTANTS
    Tasks,      \* task names
    Consumers,  \* identities of consumers
    Requests,   \* records with at least op, task and fields
    StopOps,    \* the operations that end a subscription
    RestartOps, \* the operations that may end one to begin another
    None        \* no request

VARIABLES
    request,    \* the request about each task that is not answered yet, or None
    sub,        \* the subscriptions of each task: a set of [id, fields]
    late,       \* the consumers of each task that have gone, but not finished
    leaving     \* the process has been told to stop

vars == <<request, sub, late, leaving>>

Init == /\ request = [t \in Tasks |-> None]
        /\ sub = [t \in Tasks |-> {}]
        /\ late = [t \in Tasks |-> {}]
        /\ leaving = FALSE

Receive(r) == /\ request[r.task] = None
              /\ request' = [request EXCEPT ![r.task] = r]
              /\ UNCHANGED <<sub, late, leaving>>

Subscribe(t) == /\ request[t] # None
                /\ request[t].op \notin StopOps
                /\ sub[t] = {}
                /\ \E c \in Consumers \ late[t] :
                      sub' = [sub EXCEPT ![t] = {[id |-> c, fields |-> request[t].fields]}]
                /\ UNCHANGED <<request, late, leaving>>

Unsubscribe(t) == /\ \/ leaving
                     \/ request[t] # None /\ request[t].op \in StopOps \cup RestartOps
                  /\ sub' = [sub EXCEPT ![t] = {}]
                  /\ \E busy \in SUBSET {s.id : s \in sub[t]} :
                        late' = [late EXCEPT ![t] = @ \cup busy]
                  /\ UNCHANGED <<request, leaving>>

Finish(t) == /\ \E c \in late[t] : late' = [late EXCEPT ![t] = @ \ {c}]
             /\ UNCHANGED <<request, sub, leaving>>

\* An update that leaves the consumer where it is.
Adjust(t) == /\ request[t] # None
             /\ request[t].op = "Update"
             /\ sub' = [sub EXCEPT ![t] = {[s EXCEPT !.fields = request[t].fields] : s \in @}]
             /\ UNCHANGED <<request, late, leaving>>

InEffect(r) == /\ r.op \in StopOps => sub[r.task] = {}
               /\ r.op = "Update" => \A s \in sub[r.task] : s.fields = r.fields

Respond(t) == /\ request[t] # None
              /\ InEffect(request[t])
              /\ request' = [request EXCEPT ![t] = None]
              /\ UNCHANGED <<sub, late, leaving>>

Leave == leaving' = TRUE /\ UNCHANGED <<request, sub, late>>

Die == /\ request' = [t \in Tasks |-> None]
       /\ sub' = [t \in Tasks |-> {}]
       /\ late' = [t \in Tasks |-> {}]
       /\ leaving' = FALSE

Next == \/ \E r \in Requests : Receive(r)
        \/ \E t \in Tasks : \/ Subscribe(t) \/ Unsubscribe(t) \/ Finish(t)
                               \/ Adjust(t) \/ Respond(t)
        \/ Leave
        \/ Die

Spec == Init /\ [][Next]_vars
=============================================================================
