---------------------------- MODULE EventFilter ----------------------------
(***************************************************************************)
(* What the dispatcher makes of one event of Kafka for one task: it        *)
(* translates the columns' values by the cached types, one lookup each,    *)
(* matches the columns with the task's fields and queues a notification,   *)
(* or none.  An event is of one table, whose patterns a field matches or   *)
(* does not.                                                               *)
(***************************************************************************)
EXTENDS ColumnCache, Sequences, FiniteSets

CONSTANTS
    Columns,     \* the columns of the event, in order: a sequence
    MaxFields    \* bound: fields of the task

VARIABLES
    event,     \* the event being handled, or None
    looked,    \* how many of its columns have been looked up in the cache
    fields,    \* the task's fields when it was looked up
    sent       \* what has been queued, or None

filterVars == <<event, looked, fields, sent>>
allVars == <<cacheVars, filterVars>>

Names == {Columns[i] : i \in 1 .. Len(Columns)}
Types == {"INSERT", "DELETE", "UPDATE"}
Fields == [matches : BOOLEAN, column : Names, send : BOOLEAN]
FieldLists == UNION {[1 .. n -> Fields] : n \in 0 .. MaxFields}
Events == [schema : Schemas, type : Types, updated : SUBSET Names]
Messages == [fields : Seq(Names), keys : Seq(Names)]
Nothing == [fields |-> <<>>, keys |-> <<>>]

\* The columns of a table have different names.
ASSUME FilterAssumption ==
    /\ Columns \in Seq(Names) /\ MaxFields \in Nat
    /\ \A i, j \in 1 .. Len(Columns) : Columns[i] = Columns[j] => i = j
    /\ None \notin Fields \cup Events \cup Messages

-----------------------------------------------------------------------------
\* GetTaskField: the first field that matches table and column.
Matching(list, c) == {i \in DOMAIN list : list[i].matches /\ list[i].column = c}
First(list, c) == CHOOSE i \in Matching(list, c) : \A j \in Matching(list, c) : i <= j
GetTaskField(list, c) == IF Matching(list, c) = {} THEN None ELSE list[First(list, c)]

\* One turn of enqueue's loop.  Mutant: a changed column that is sent with its
\* value does not count as a change.
MutantAccumulate(e, list, acc, c) ==
    LET tf == GetTaskField(list, c)
        updated == c \in e.updated
    IN  IF tf = None THEN acc
        ELSE IF tf.send THEN [acc EXCEPT !.fields = Append(@, c)]
        ELSE IF e.type # "UPDATE" THEN [acc EXCEPT !.keys = Append(@, c)]
        ELSE IF updated THEN [acc EXCEPT !.keys = Append(@, c), !.changed = TRUE]
        ELSE acc
Accumulate(e, list, acc, c) ==
    LET tf == GetTaskField(list, c)
        updated == c \in e.updated
    IN  IF tf = None THEN acc
        ELSE IF tf.send THEN [acc EXCEPT !.fields = Append(@, c), !.changed = @ \/ updated]
        ELSE IF e.type # "UPDATE" THEN [acc EXCEPT !.keys = Append(@, c)]
        ELSE IF updated THEN [acc EXCEPT !.keys = Append(@, c), !.changed = TRUE]
        ELSE acc

\* The loop: what it has after each number of columns.
Loop(e, list) ==
    LET acc[k \in 0 .. Len(Columns)] ==
            IF k = 0 THEN [fields |-> <<>>, keys |-> <<>>, changed |-> FALSE]
            ELSE Accumulate(e, list, acc[k - 1], Columns[k])
    IN  acc

enqueue(e, list) ==
    LET acc == Loop(e, list)[Len(Columns)]
    IN  IF e.type = "UPDATE" /\ ~acc.changed THEN Nothing
        ELSE [fields |-> acc.fields, keys |-> acc.keys]

-----------------------------------------------------------------------------
Init ==
    /\ CacheInit
    /\ event = None /\ looked = 0 /\ fields = <<>> /\ sent = None

\* HandleKafkaEvent: types other than these are dropped.
HandleKafkaEvent(s, type, updated) ==
    /\ loop # "off" /\ event = None
    /\ event' = [schema |-> s, type |-> type, updated |-> updated]
    /\ looked' = 0 /\ fields' = <<>> /\ sent' = None
    /\ UNCHANGED cacheVars

\* translateColumnValue of the next column, of which only the lookup matters here.
\* While there is no map it dereferences nil and the process dies.
translateColumnValue ==
    /\ event # None /\ sent = None /\ looked < Len(Columns)
    /\ columnMap # None
    /\ looked' = looked + 1
    /\ UNCHANGED <<cacheVars, event, fields, sent>>

NilMap ==
    /\ event # None /\ sent = None /\ looked < Len(Columns)
    /\ columnMap = None
    /\ event' = None /\ looked' = 0 /\ fields' = <<>> /\ sent' = None
    /\ Dies

genNotifyEvent(list) ==
    /\ event # None /\ sent = None /\ looked = Len(Columns)
    /\ fields' = list
    /\ sent' = enqueue(event, list)
    /\ looked' = 0
    /\ UNCHANGED <<cacheVars, event>>

NextMessage ==
    /\ sent # None
    /\ event' = None /\ looked' = 0 /\ fields' = <<>> /\ sent' = None
    /\ UNCHANGED cacheVars

Next ==
    \/ CacheNext /\ UNCHANGED filterVars
    \/ \E s \in Schemas, type \in Types, updated \in SUBSET Names :
          (type = "UPDATE" \/ updated = {}) /\ HandleKafkaEvent(s, type, updated)
    \/ translateColumnValue \/ NilMap
    \/ \E list \in FieldLists : genNotifyEvent(list)
    \/ NextMessage

Spec == Init /\ [][Next]_allVars

-----------------------------------------------------------------------------
Subscribed == {c \in Names : \E i \in DOMAIN fields : fields[i].matches /\ fields[i].column = c}
WithValue == {c \in Subscribed : \E i \in DOMAIN fields :
                  /\ fields[i].matches /\ fields[i].column = c /\ fields[i].send
                  /\ \A j \in 1 .. i - 1 : ~(fields[j].matches /\ fields[j].column = c)}
In(seq) == {seq[i] : i \in DOMAIN seq}

\* A task hears of a row exactly when one of its columns may have changed, and
\* then of each that has: an update of others sends nothing, a changed column is
\* never left out, and a column has its value when the first field says so.
NotifiesWhatChanged ==
    sent # None =>
        LET changed == IF event.type = "UPDATE" THEN event.updated \cap Subscribed ELSE Subscribed
        IN  /\ sent = Nothing <=> changed = {}
            /\ sent # Nothing => /\ In(sent.fields) = WithValue
                                 /\ In(sent.keys) = changed \ WithValue
                                 /\ Len(sent.fields) + Len(sent.keys)
                                      = Cardinality(WithValue \cup changed)
=============================================================================
