--------------------------- MODULE TaskFollowProofs ---------------------------
(***************************************************************************)
(* Proof that the dispatchers and the pushers of TaskControl follow the    *)
(* database, and that nothing is left of a deleted task, for every set of  *)
(* names, settings, handlers, dispatchers and pushers, and any number of   *)
(* requests and faults.                                                    *)
(*                                                                         *)
(* The one handler of an undisturbed name has a plan: what it will still   *)
(* write and call agrees with the row it works on.  A dispatcher that runs *)
(* either agrees with the rows of the name or is still to be called, and   *)
(* ready for the call: after it the dispatcher will agree.  One that       *)
(* starts reads the rows as they are, and the same two cases hold of it.   *)
(* Of the pushers the same is shown, with the calls that they answer; and  *)
(* of a task without a row, that each thing left of it has a handler that  *)
(* is about to remove it.                                                  *)
(***************************************************************************)
EXTENDS TaskControlProofs

\* Where the handler knows that its name has no row, and where that it has one.
Gone(h) == \/ handler[h].op = "delete" /\ handler[h].at # "deleteRow"
           \/ handler[h].op = "add" /\ handler[h].at = "insertRow"

Present(h) == \/ handler[h].op \notin {"add", "delete"}
              \/ handler[h].op = "add" /\ handler[h].at \notin {"nameExists", "insertRow"}
              \/ handler[h].op = "delete" /\ handler[h].at = "deleteRow"

\* The places a request of each kind goes through.
Program(h) ==
    handler[h].at \in
       CASE handler[h].op = "add"        -> {"nameExists", "insertRow", "insertFields"} \cup FanOuts
         [] handler[h].op = "update"     -> {"deleteFields", "updateRow", "insertFields"} \cup FanOuts
         [] handler[h].op = "changeStat" -> {"deleteFields", "updateRow", "insertFields", "dispatchers"}
         [] handler[h].op = "delete"     -> {"deleteRow", "deleteFields"} \cup FanOuts
         [] handler[h].op \in SubOps     -> {"setSub", "dispatchers"}
         [] OTHER                        -> {"setPush", "pushers"}

\* What the handler of an undisturbed name knows of the row and its fields.
Plan(h) ==
    LET op == handler[h].op
        at == handler[h].at
        i  == handler[h].id
        t  == handler[h].task
    IN  /\ Program(h)
        /\ op = "changeStat" => Name(h) \in toggled
        /\ op \in SubOps => t.row.sub = (op = "startSub")
        /\ Gone(h) => Listed(Name(h)) = {}
        /\ Present(h) => i \in Listed(Name(h))
        /\ op = "update" /\ at \in {"deleteFields", "updateRow"} /\ rows[i].sub => t.row.sub
        /\ op \in {"add", "update"} /\ at \in {"insertFields"} \cup FanOuts => rows[i].sub = t.row.sub
        /\ op \in SubOps /\ at \in FanOuts => rows[i].sub = t.row.sub
        /\ op \in {"add", "update"} /\ at \in FanOuts => fields[i] = t.fields
        /\ op \in SubOps => fields[i] = t.fields

\* The dispatcher has of the name what the rows show.
Agrees(d, n) ==
    /\ Listed(n) = {} => consumer[d][n] = None /\ taskMap[d][n] = None
    /\ n \notin toggled => \A i \in Listed(n) :
          /\ consumer[d][n] = IF rows[i].sub THEN fields[i] ELSE None
          /\ rows[i].sub => taskMap[d][n] = fields[i]

\* The handler is still to call the dispatcher, or to find out that it need not.
Untold(h, d) ==
    /\ handler[h].op \notin PushOps
    /\ \/ handler[h].at \in Statements \ {"nameExists", "insertRow"}
       \/ /\ handler[h].at = "dispatchers"
          /\ handler[h].left = None \/ d \in handler[h].left \cap registered

\* The dispatcher will agree once the handler has called it: Start leaves a
\* consumer that runs as it is, and no Update comes for a task that is not
\* subscribed.
Ready(h, d) ==
    Name(h) \notin toggled =>
       /\ handler[h].op = "startSub" => consumer[d][Name(h)] \in {None, fields[handler[h].id]}
       /\ handler[h].op \in {"add", "update"} /\ ~handler[h].task.row.sub =>
             consumer[d][Name(h)] = None

\* The dispatcher is ready for the handler of the name, or agrees.
Heeds(d, n) ==
    /\ \A h \in Handlers : About(h, n) /\ Untold(h, d) => Ready(h, d)
    /\ (\A h \in Handlers : About(h, n) => ~Untold(h, d)) => Agrees(d, n)

\* A fan-out calls clients of its kind.
Aimed == \A h \in Handlers : Busy(h) /\ handler[h].left # None =>
                                handler[h].left \subseteq Kind(handler[h].at)

\* The invariant of the dispatchers.
FollowInv ==
    /\ up \cap blind = {}
    /\ \A h \in Handlers : Calm(h) => Plan(h)
    /\ \A d \in Dispatchers \cap up, n \in Names \ disturbed : Heeds(d, n)

\* The rows of a name and their fields are left alone.
Untouched(n) ==
    \A i \in Ids : /\ i \in Listed(n)' <=> i \in Listed(n)
                   /\ i \in Listed(n) => rows'[i] = rows[i] /\ fields'[i] = fields[i]

\* A handler stays where it is in what it does.
Stays(h) ==
    /\ handler'[h].op = handler[h].op /\ handler'[h].at = handler[h].at
    /\ handler'[h].id = handler[h].id /\ handler'[h].task = handler[h].task

-----------------------------------------------------------------------------
(* What is left alone is kept.                                               *)

\* An undisturbed name has one row at most.
LEMMA ListedOnce ==
    ASSUME FieldInv, NEW n, n \notin disturbed, NEW i \in Listed(n), NEW j \in Listed(n)
    PROVE  i = j
  BY DEF FieldInv, NameInv, NamesUnique, Exists, Listed

\* A step without a statement leaves the rows of every name alone.
LEMMA StoreUntouched ==
    ASSUME UNCHANGED store, NEW n
    PROVE  Untouched(n) /\ Listed(n)' = Listed(n)
  BY DEF store, Untouched, Listed

\* A statement about one row leaves the rows of other names alone.
LEMMA OthersUntouched ==
    ASSUME NEW n, NEW j,
           \A i \in Ids : i # j => rows'[i] = rows[i] /\ fields'[i] = fields[i],
           j \notin Listed(n), j \notin Listed(n)'
    PROVE  Untouched(n)
  BY DEF Untouched, Listed

\* The row a handler works on is none of another name's.
LEMMA NotItsRow ==
    ASSUME FieldInv, NEW h \in Handlers, Busy(h), NEW n, n # Name(h)
    PROVE  handler[h].id \notin Listed(n)
  BY DEF FieldInv, NameInv, Numbered, Listed, Exists

\* A handler that stays, while nobody writes to its name, keeps its plan ...
LEMMA PlanKept ==
    ASSUME NEW h \in Handlers, Plan(h), Stays(h), Untouched(Name(h)), toggled \subseteq toggled'
    PROVE  Plan(h)'
  <1>1. Name(h)' = Name(h) /\ Program(h)' /\ Gone(h)' = Gone(h) /\ Present(h)' = Present(h)
    BY DEF Plan, Stays, Name, Program, Gone, Present
  <1>2. Listed(Name(h)) = {} => Listed(Name(h))' = {}
    BY <1>1 DEF Untouched, Listed
  <1>3. /\ Present(h) => /\ handler[h].id \in Listed(Name(h))
                         /\ handler[h].id \in Listed(Name(h))'
                         /\ rows'[handler[h].id] = rows[handler[h].id]
                         /\ fields'[handler[h].id] = fields[handler[h].id]
    BY <1>1 DEF Plan, Untouched, Listed
  <1>4. /\ handler[h].op = "update" => Present(h)
        /\ handler[h].op \in SubOps => Present(h)
        /\ handler[h].op = "add" /\ handler[h].at \in {"insertFields"} \cup FanOuts => Present(h)
    BY DEF Present, SubOps, FanOuts
  <1>5. /\ handler'[h].op = "changeStat" => Name(h)' \in toggled'
        /\ handler'[h].op \in SubOps => handler'[h].task.row.sub = (handler'[h].op = "startSub")
        /\ Gone(h)' => Listed(Name(h))' = {}
        /\ Present(h)' => handler'[h].id \in Listed(Name(h))'
    BY <1>1, <1>2, <1>3 DEF Plan, Stays
  <1>6. /\ handler'[h].op = "update" /\ handler'[h].at \in {"deleteFields", "updateRow"}
           /\ rows'[handler'[h].id].sub => handler'[h].task.row.sub
        /\ handler'[h].op \in {"add", "update"} /\ handler'[h].at \in {"insertFields"} \cup FanOuts
           => rows'[handler'[h].id].sub = handler'[h].task.row.sub
    BY <1>3, <1>4 DEF Plan, Stays
  <1>7. /\ handler'[h].op \in SubOps /\ handler'[h].at \in FanOuts
           => rows'[handler'[h].id].sub = handler'[h].task.row.sub
        /\ handler'[h].op \in {"add", "update"} /\ handler'[h].at \in FanOuts
           => fields'[handler'[h].id] = handler'[h].task.fields
        /\ handler'[h].op \in SubOps => fields'[handler'[h].id] = handler'[h].task.fields
    BY <1>3, <1>4 DEF Plan, Stays
  <1> QED
    BY <1>1, <1>5, <1>6, <1>7 DEF Plan

\* ... a dispatcher that nobody calls agrees as before ...
LEMMA AgreesKept ==
    ASSUME NEW d, NEW n, Agrees(d, n), Untouched(n), toggled \subseteq toggled',
           consumer'[d][n] = consumer[d][n], taskMap'[d][n] = taskMap[d][n]
    PROVE  Agrees(d, n)'
  <1>1. Listed(n) = {} <=> Listed(n)' = {}
    BY DEF Untouched, Listed
  <1>2. \A i \in Listed(n)' : i \in Listed(n) /\ rows'[i] = rows[i] /\ fields'[i] = fields[i]
    BY DEF Untouched, Listed
  <1> QED
    BY <1>1, <1>2 DEF Agrees

\* ... is as ready as before ...
LEMMA ReadyKept ==
    ASSUME NEW h \in Handlers, NEW d, Plan(h), Ready(h, d), Stays(h), Untouched(Name(h)),
           toggled \subseteq toggled', consumer'[d][Name(h)] = consumer[d][Name(h)]
    PROVE  Ready(h, d)'
  <1>1. Name(h)' = Name(h)
    BY DEF Stays, Name
  <1>2. handler[h].op = "startSub" => fields'[handler[h].id] = fields[handler[h].id]
    BY DEF Plan, Present, Untouched, Listed
  <1> QED
    BY <1>1, <1>2 DEF Ready, Stays

\* ... and heeds the name as before.
LEMMA HeedsKept ==
    ASSUME NEW d, NEW n, Heeds(d, n), Untouched(n), toggled \subseteq toggled',
           consumer'[d][n] = consumer[d][n], taskMap'[d][n] = taskMap[d][n],
           \A h \in Handlers : About(h, n) \/ About(h, n)' =>
              About(h, n) /\ About(h, n)' /\ Plan(h) /\ Stays(h) /\ Untold(h, d)' = Untold(h, d)
    PROVE  Heeds(d, n)'
  <1>1. ASSUME NEW h \in Handlers, About(h, n)', Untold(h, d)'
        PROVE  Ready(h, d)'
    BY <1>1, ReadyKept DEF Heeds, About, Name
  <1>2. (\A h \in Handlers : About(h, n)' => ~Untold(h, d)') => Agrees(d, n)'
    BY AgreesKept DEF Heeds
  <1> QED
    BY <1>1, <1>2 DEF Heeds

\* What holds of the one handler of a name holds of the name.
LEMMA HeedsAlone ==
    ASSUME FieldInv, NEW h \in Handlers, Calm(h), NEW d
    PROVE  Heeds(d, Name(h)) <=> /\ Untold(h, d) => Ready(h, d)
                                 /\ ~Untold(h, d) => Agrees(d, Name(h))
  <1>1. About(h, Name(h)) /\ \A k \in Handlers : About(k, Name(h)) => k = h
    BY DEF FieldInv, NameInv, OneHandler, Calm, About, Name
  <1> QED
    BY <1>1 DEF Heeds

\* A step of handler h: what is left to show is what it does to its own name.
LEMMA OneActs ==
    ASSUME FieldInv, FieldInv', FollowInv, NEW h \in Handlers, Busy(h),
           \A k \in Handlers \ {h} : handler'[k] = handler[k],
           Busy(h)' => Name(h)' = Name(h),
           disturbed \subseteq disturbed', UNCHANGED <<up, toggled>>, blind' \subseteq blind,
           \A d \in up : d \in registered' <=> d \in registered,
           \A n \in Names \ {Name(h)} :
              /\ Untouched(n)
              /\ \A d \in Dispatchers : /\ consumer'[d][n] = consumer[d][n]
                                        /\ taskMap'[d][n] = taskMap[d][n],
           Calm(h)' => Plan(h)',
           Name(h) \notin disturbed' =>
              \A d \in Dispatchers \cap up :
                 /\ Busy(h)' /\ Untold(h, d)' => Ready(h, d)'
                 /\ ~Busy(h)' \/ ~Untold(h, d)' =>
                       (\A n \in Names : n = Name(h) => Agrees(d, n)')
    PROVE  FollowInv'
  <1>1. \A k \in Handlers \ {h} : Busy(k)' = Busy(k) /\ Name(k)' = Name(k) /\ Stays(k)
    BY DEF Busy, Name, Stays
  <1>2. Name(h) \in Names
    BY BusyNames, TypeParts DEF FieldInv, NameInv, Name
  <1>3. ASSUME NEW k \in Handlers, Calm(k)'
        PROVE  Plan(k)'
    <2>1. CASE k # h
      <3>1. Calm(k)
        BY <1>1, <1>3, <2>1 DEF Calm
      <3>2. Name(k) \in Names \ {Name(h)}
        BY <2>1, <3>1, BusyNames, TypeParts DEF FieldInv, NameInv, OneHandler, Name, Calm
      <3> QED
        BY <1>1, <2>1, <3>1, <3>2, PlanKept DEF FollowInv
    <2> QED
      BY <1>3, <2>1
  <1>4. ASSUME NEW d \in Dispatchers \cap up, NEW n \in Names \ disturbed'
        PROVE  Heeds(d, n)'
    <2>1. Heeds(d, n)
      BY <1>4 DEF FollowInv
    <2>2. CASE n # Name(h)
      <3>1. \A k \in Handlers : About(k, n) \/ About(k, n)' => k # h /\ Calm(k)
        BY <1>1, <1>4, <2>2 DEF About, Calm, Name
      <3>2. \A k \in Handlers : About(k, n) \/ About(k, n)' =>
               About(k, n) /\ About(k, n)' /\ Plan(k) /\ Stays(k) /\ Untold(k, d)' = Untold(k, d)
        BY <1>1, <3>1 DEF About, FollowInv, Name, Untold
      <3> QED
        BY <2>1, <2>2, <3>2, HeedsKept
    <2>3. CASE n = Name(h) /\ Busy(h)'
      <3>1. Calm(h)' /\ Name(h)' = n
        BY <1>4, <2>3 DEF Calm
      <3>2. ~Untold(h, d)' => Agrees(d, n)'
        BY <1>4, <2>3
      <3>3. Untold(h, d)' => Ready(h, d)'
        BY <1>4, <2>3
      <3>4. \A k \in Handlers : About(k, n)' => k = h
        BY <3>1 DEF FieldInv, NameInv, OneHandler, About, Name
      <3>5. About(h, n)'
        BY <3>1 DEF About, Name, Calm
      <3> QED
        BY <3>2, <3>3, <3>4, <3>5 DEF Heeds
    <2>4. CASE n = Name(h) /\ ~Busy(h)'
      <3>1. \A k \in Handlers : ~About(k, n)'
        <4> SUFFICES ASSUME NEW k \in Handlers, About(k, n)' PROVE FALSE
          OBVIOUS
        <4>1. k # h /\ Calm(h) /\ Name(k) = Name(h) /\ Busy(k)
          BY <1>1, <1>4, <2>4 DEF About, Calm, Name
        <4> QED
          BY <4>1 DEF FieldInv, NameInv, OneHandler
      <3>2. Agrees(d, n)'
        BY <1>4, <2>4
      <3> QED
        BY <3>1, <3>2 DEF Heeds
    <2> QED
      BY <2>2, <2>3, <2>4
  <1> QED
    BY <1>3, <1>4 DEF FollowInv

-----------------------------------------------------------------------------
(* The statements.                                                           *)

\* What a handler that goes on takes along.
LEMMA GoToFacts ==
    ASSUME HandlerTypes, NEW h \in Handlers, Busy(h), NEW at, GoTo(h, at)
    PROVE  /\ \A k \in Handlers \ {h} : handler'[k] = handler[k]
           /\ at = "idle" => ~Busy(h)'
           /\ at # "idle" => /\ Busy(h)' /\ handler'[h].at = at /\ handler'[h].left = None
                             /\ handler'[h].op = handler[h].op /\ handler'[h].id = handler[h].id
                             /\ handler'[h].task = handler[h].task /\ Name(h)' = Name(h)
           /\ Busy(h)' => Name(h)' = Name(h)
  <1>1. \A k \in Handlers \ {h} : handler'[k] = handler[k]
    BY DEF GoTo, HandlerTypes
  <1>2. handler'[h] = Moved(h, at) /\ handler[h] \in Working
    BY DEF GoTo, HandlerTypes, Busy
  <1>3. CASE at = "idle"
    BY <1>1, <1>2, <1>3 DEF Moved, Busy
  <1>4. CASE at # "idle"
    <2>1. /\ handler'[h].at = at /\ handler'[h].left = None
          /\ handler'[h].op = handler[h].op /\ handler'[h].id = handler[h].id
          /\ handler'[h].task = handler[h].task
      BY <1>2, <1>4 DEF Moved, Working
    <2>2. Busy(h)'
      BY <1>4, <2>1 DEF Busy, Idle
    <2> QED
      BY <1>1, <1>4, <2>1, <2>2 DEF Name
  <1> QED
    BY <1>3, <1>4

\* What every statement of a handler leaves alone.
LEMMA StatementFrame ==
    ASSUME Statement
    PROVE  /\ UNCHANGED <<up, blind, registered, toggled, disturbed, consumer, taskMap>>
           /\ disturbed \subseteq disturbed'
  BY DEF Statement, living, dispatching, history

\* NameExists finds no row of an undisturbed name, or the request ends.
LEMMA NameExistsFollows ==
    ASSUME FieldInv, FieldInv', FollowInv, NEW h \in Handlers, NameExists(h)
    PROVE  FollowInv'
  <1>1. /\ HandlerTypes /\ Busy(h) /\ handler[h].at = "nameExists"
        /\ UNCHANGED <<store, up, blind, registered, toggled, disturbed, consumer, taskMap>>
    BY TypeParts, StatementFrame DEF NameExists, At, FieldInv, NameInv
  <1>2. PICK at : GoTo(h, at) /\ at \in {"idle", "insertRow"}
    BY <1>1 DEF NameExists, Done, Then
  <1>3. \A n : Untouched(n) /\ Listed(n)' = Listed(n)
    BY <1>1, StoreUntouched
  <1>4. Calm(h)' => Plan(h)'
    <2> SUFFICES ASSUME Calm(h)' PROVE Plan(h)'
      OBVIOUS
    <2>1. at = "insertRow" /\ Name(h)' = Name(h) /\ handler'[h].at = "insertRow" /\ handler'[h].op = handler[h].op
      BY <1>1, <1>2, GoToFacts DEF Calm
    <2>2. Calm(h) /\ Program(h)
      BY <1>1, <2>1 DEF Calm, FollowInv, Plan
    <2>3. handler[h].op = "add"
      BY <1>1, <2>2 DEF Program, FanOuts
    <2>4. Listed(Name(h))' = {}
      BY <2>1 DEF FieldInv, NameInv, FreeName, Listed, Exists
    <2> QED
      BY <2>1, <2>3, <2>4 DEF Plan, Program, Gone, Present, SubOps, FanOuts
  <1>5. ASSUME Name(h) \notin disturbed', NEW d \in Dispatchers \cap up, NEW n \in Names, n = Name(h)
        PROVE  Agrees(d, n)' /\ (Busy(h)' => ~Untold(h, d)')
    <2>1. ~Untold(h, d) /\ (Busy(h)' => ~Untold(h, d)')
      BY <1>1, <1>2, GoToFacts DEF Untold
    <2>2. Agrees(d, n)
      BY <1>1, <1>5, <2>1, HeedsAlone DEF Calm, FollowInv
    <2>3. Agrees(d, n)'
      BY <1>1, <1>3, <2>2, AgreesKept
    <2> QED
      BY <2>1, <2>3
  <1> QED
    BY <1>1, <1>2, <1>3, <1>4, <1>5, GoToFacts, OneActs, BusyNames DEF Name

\* A new row: no dispatcher consumes for it, so all are ready for its call.
LEMMA InsertFollows ==
    ASSUME FieldInv, FieldInv', FollowInv, NEW h \in Handlers, Insert(h)
    PROVE  FollowInv'
  <1> DEFINE j == lastId + 1
  <1>1. /\ Busy(h) /\ handler[h].at = "insertRow" /\ Busy(h)' /\ handler'[h].at = "insertFields"
        /\ handler'[h].op = handler[h].op /\ handler'[h].task = handler[h].task
        /\ Name(h)' = Name(h) /\ handler'[h].id = j /\ j \in Ids
        /\ \A k \in Handlers \ {h} : handler'[k] = handler[k]
        /\ rows'[j] = handler[h].task.row /\ rows'[j] # None
        /\ \A i \in Ids : i # j => rows'[i] = rows[i]
        /\ fields' = fields
    BY InsertParts, ControlAssumption DEF FieldInv, Name
  <1>2. UNCHANGED <<up, blind, registered, toggled, disturbed, consumer, taskMap>>
    BY StatementFrame DEF Insert
  <1>3. ~Exists(j)
    BY <1>1 DEF FieldInv, NameInv, TypeOK, Numbered
  <1>4. \A n \in Names \ {Name(h)} : Untouched(n)
    <2> SUFFICES ASSUME NEW n \in Names \ {Name(h)} PROVE Untouched(n)
      OBVIOUS
    <2>1. j \notin Listed(n) /\ j \notin Listed(n)'
      BY <1>1, <1>3 DEF Listed, Exists, Name
    <2>2. \A i \in Ids : i # j => rows'[i] = rows[i] /\ fields'[i] = fields[i]
      BY <1>1
    <2> HIDE DEF j
    <2> QED
      BY <2>1, <2>2, OthersUntouched
  <1>5. Name(h) \notin disturbed => Program(h) /\ handler[h].op = "add" /\ Listed(Name(h)) = {}
    BY <1>1 DEF FollowInv, Calm, Plan, Program, Gone, FanOuts
  <1>6. Calm(h)' => Plan(h)'
    <2> SUFFICES ASSUME Calm(h)' PROVE Plan(h)'
      OBVIOUS
    <2>1. handler'[h].op = "add"
      BY <1>1, <1>2, <1>5 DEF Calm
    <2>2. j \in Listed(Name(h))' /\ rows'[j].sub = handler'[h].task.row.sub
      BY <1>1 DEF Listed, Name
    <2> HIDE DEF j
    <2> QED
      BY <1>1, <2>1, <2>2 DEF Plan, Program, Gone, Present, SubOps, FanOuts
  <1>7. ASSUME Name(h) \notin disturbed', NEW d \in Dispatchers \cap up
        PROVE  Untold(h, d)' /\ Ready(h, d)'
    <2>1. handler[h].op = "add" /\ Listed(Name(h)) = {} /\ ~Untold(h, d) /\ Name(h) \in Names
      BY <1>1, <1>2, <1>5, <1>7, BusyNames, TypeParts DEF Untold, FieldInv, NameInv, Name
    <2>2. consumer[d][Name(h)] = None
      BY <1>1, <1>2, <1>7, <2>1, HeedsAlone DEF Calm, FollowInv, Agrees
    <2>3. Ready(h, d)'
      BY <1>1, <1>2, <2>1, <2>2 DEF Ready
    <2>4. Untold(h, d)'
      BY <1>1, <2>1 DEF Untold, PushOps, Statements
    <2> QED
      BY <2>3, <2>4
  <1> HIDE DEF j
  <1> QED
    BY <1>1, <1>2, <1>4, <1>6, <1>7, OneActs

\* The fields are those of the form when the fan-out begins.
LEMMA FieldsFollow ==
    ASSUME FieldInv, FieldInv', FollowInv, NEW h \in Handlers, InsertFields(h) \/ DeleteFields(h)
    PROVE  FollowInv'
  <1>1. /\ FieldsStep(h) /\ Busy(h) /\ Busy(h)' /\ Name(h)' = Name(h)
        /\ \A k \in Handlers \ {h} : handler'[k] = handler[k]
        /\ handler'[h].at = Then(handler[h].op, handler[h].at)
        /\ handler[h].at \in {"insertFields", "deleteFields"} /\ rows' = rows
        /\ handler'[h].op = handler[h].op /\ handler'[h].id = handler[h].id
        /\ handler'[h].task.row = handler[h].task.row
        /\ handler'[h].task.fields = handler[h].task.fields
    BY FieldsParts DEF FieldInv, FieldsStep, Same
  <1>2. UNCHANGED <<up, blind, registered, toggled, disturbed, consumer, taskMap>>
    BY StatementFrame DEF InsertFields, DeleteFields
  <1>3. \A n : Listed(n)' = Listed(n)
    BY <1>1 DEF Listed
  <1>4. \A n \in Names \ {Name(h)} : Untouched(n)
    <2> SUFFICES ASSUME NEW n \in Names \ {Name(h)} PROVE Untouched(n)
      OBVIOUS
    <2>1. handler[h].id \notin Listed(n) /\ handler[h].id \notin Listed(n)'
      BY <1>1, <1>3, NotItsRow
    <2>2. \A i \in Ids : i # handler[h].id => rows'[i] = rows[i] /\ fields'[i] = fields[i]
      BY <1>1 DEF FieldsStep
    <2> QED
      BY <2>1, <2>2, OthersUntouched
  <1>5. ASSUME Name(h) \notin disturbed
        PROVE  /\ Plan(h) /\ FieldsPlanOf(h)
               /\ handler[h].op \in {"add", "update", "changeStat", "delete"}
               /\ handler[h].op = "add" => handler[h].at = "insertFields"
               /\ handler[h].op = "delete" => handler[h].at = "deleteFields"
    <2>1. Plan(h) /\ FieldsPlanOf(h)
      BY <1>1, <1>5 DEF FollowInv, Calm, FieldInv, FieldsPlan
    <2>2. handler[h].op \in Ops
      BY <1>1, TypeParts DEF FieldInv, NameInv, HandlerTypes, Busy, Working
    <2> QED
      BY <1>1, <2>1, <2>2 DEF Plan, Program, Ops, SubOps, PushOps, FanOuts
  <1>6. ASSUME Name(h) \notin disturbed, handler[h].op \in {"add", "update"}, handler[h].at = "insertFields"
        PROVE  fields'[handler[h].id] = handler[h].task.fields
    <2>1. handler[h].id \in Ids
      BY <1>5, <1>6 DEF Plan, Present, Listed
    <2>2. fields[handler[h].id] = {}
      BY <1>5, <1>6, <2>1 DEF FieldsPlanOf, Emptied
    <2>3. InsertFields(h)
      BY <1>6 DEF DeleteFields, At
    <2> QED
      BY <2>1, <2>2, <2>3 DEF InsertFields, FieldInv, NameInv, TypeOK
  <1>7. Calm(h)' => Plan(h)'
    <2> SUFFICES ASSUME Calm(h)' PROVE Plan(h)'
      OBVIOUS
    <2>1. Name(h) \notin disturbed
      BY <1>1, <1>2 DEF Calm
    <2>2. handler'[h].at = IF handler[h].at = "deleteFields" /\ handler[h].op # "delete"
                           THEN "updateRow" ELSE "dispatchers"
      BY <1>1 DEF Then
    <2>3. /\ Program(h)'
          /\ Gone(h)' => Gone(h)
          /\ Present(h)' => Present(h)
      <3>1. handler[h].op \in {"add", "update", "changeStat", "delete"}
        BY <1>5, <2>1
      <3>2. CASE handler[h].op = "add"
        BY <1>1, <1>5, <2>1, <2>2, <3>2 DEF Program, Gone, Present, FanOuts
      <3>3. CASE handler[h].op = "update"
        BY <1>1, <2>2, <3>3 DEF Program, Gone, Present, FanOuts, SubOps
      <3>4. CASE handler[h].op = "changeStat"
        BY <1>1, <2>2, <3>4 DEF Program, Gone, Present, FanOuts, SubOps
      <3>5. CASE handler[h].op = "delete"
        BY <1>1, <1>5, <2>1, <2>2, <3>5 DEF Program, Gone, Present, FanOuts
      <3> QED
        BY <3>1, <3>2, <3>3, <3>4, <3>5
    <2>4. /\ handler'[h].op = "changeStat" => Name(h)' \in toggled'
          /\ Gone(h)' => Listed(Name(h))' = {}
          /\ Present(h)' => handler'[h].id \in Listed(Name(h))'
      BY <1>1, <1>2, <1>3, <1>5, <2>1, <2>3 DEF Plan
    <2>5. handler'[h].op \notin SubOps
      BY <1>1, <1>5, <2>1 DEF SubOps
    <2>6. handler'[h].op = "update" /\ handler'[h].at \in {"deleteFields", "updateRow"}
             /\ rows'[handler'[h].id].sub => handler'[h].task.row.sub
      BY <1>1, <1>5, <2>1, <2>2 DEF Plan
    <2>7. handler'[h].op \in {"add", "update"} /\ handler'[h].at \in {"insertFields"} \cup FanOuts
             => /\ rows'[handler'[h].id].sub = handler'[h].task.row.sub
                /\ fields'[handler'[h].id] = handler'[h].task.fields
      BY <1>1, <1>5, <1>6, <2>1, <2>2 DEF Plan, FanOuts
    <2> QED
      BY <2>3, <2>4, <2>5, <2>6, <2>7 DEF Plan
  <1>8. ASSUME Name(h) \notin disturbed', NEW d \in Dispatchers \cap up
        PROVE  Untold(h, d)' /\ Ready(h, d)'
    <2>1. Untold(h, d) /\ handler[h].op \notin PushOps
      BY <1>1, <1>2, <1>5, <1>8 DEF Untold, Statements, PushOps
    <2>2. Ready(h, d)
      BY <1>1, <1>2, <1>8, <2>1, BusyNames, TypeParts, HeedsAlone
         DEF Calm, FollowInv, FieldInv, NameInv, Name
    <2>3. Ready(h, d)'
      BY <1>1, <1>2, <1>5, <1>8, <2>2 DEF Ready
    <2>4. handler'[h].at = "dispatchers" => handler'[h].left = None
      <3>1. handler[h].left = None
        BY <1>1 DEF FieldInv, NameInv, Fanning, FanOuts
      <3>2. CASE InsertFields(h)
        <4>1. handler'[h] = [handler[h] EXCEPT !.at = Then(handler[h].op, "insertFields"),
                                               !.task.id = handler[h].id]
          BY <3>2 DEF InsertFields, FieldInv, NameInv, TypeOK
        <4>2. handler[h] \in Working
          BY <1>1, TypeParts DEF FieldInv, NameInv, HandlerTypes, Busy
        <4> QED
          BY <3>1, <4>1, <4>2 DEF Working
      <3>3. CASE DeleteFields(h)
        BY <1>1, <3>3, GoToFacts, TypeParts DEF DeleteFields, Done, FieldInv, NameInv, Then
      <3> QED
        BY <3>2, <3>3
    <2>5. handler'[h].at \in {"updateRow", "dispatchers"}
      BY <1>1 DEF Then
    <2>6. Untold(h, d)'
      BY <1>1, <2>1, <2>4, <2>5 DEF Untold, Statements
    <2> QED
      BY <2>3, <2>6
  <1> QED
    BY <1>1, <1>2, <1>4, <1>7, <1>8, OneActs

\* The row shows what the call will ask for.
LEMMA UpdateFollows ==
    ASSUME FieldInv, FieldInv', FollowInv, NEW h \in Handlers, UpdateRow(h)
    PROVE  FollowInv'
  <1> DEFINE j == handler[h].id
             at == handler[h].at
  <1>1. /\ HandlerTypes /\ Busy(h) /\ at \in {"updateRow", "setSub", "setPush"}
        /\ GoTo(h, Then(handler[h].op, at)) /\ fields' = fields
        /\ UNCHANGED <<up, blind, registered, toggled, disturbed, consumer, taskMap>>
    BY TypeParts, StatementFrame DEF UpdateRow, At, FieldInv, NameInv, Done
  <1>2. /\ Then(handler[h].op, at) = (CASE at = "updateRow" -> "insertFields"
                                        [] at = "setSub"    -> "dispatchers"
                                        [] OTHER            -> "pushers")
        /\ Then(handler[h].op, at) # "idle"
    BY <1>1 DEF Then
  <1>3. /\ \A k \in Handlers \ {h} : handler'[k] = handler[k]
        /\ Busy(h)' /\ handler'[h].at = Then(handler[h].op, at) /\ handler'[h].left = None
        /\ handler'[h].op = handler[h].op /\ handler'[h].id = j
        /\ handler'[h].task = handler[h].task /\ Name(h)' = Name(h)
    BY <1>1, <1>2, GoToFacts
  <1>4. /\ rows \in [Ids -> {None} \cup Rows] /\ handler[h].task.row \in Rows
        /\ \A r \in Rows : r # None
    <2>1. handler[h] \in Working
      BY <1>1 DEF HandlerTypes, Busy
    <2> QED
      BY <2>1, ControlAssumption DEF FieldInv, NameInv, TypeOK, Working, Tasks, ControlAssumption, Rows
  <1>5. /\ \A i \in Ids : i # j => rows'[i] = rows[i]
        /\ j \in Ids /\ rows[j] = None => rows'[j] = None
        /\ j \in Ids /\ rows[j] # None =>
              rows'[j] = Columns(h, rows[j]) /\ rows[j].name = Name(h) /\ rows[j] \in Rows
    BY <1>1, <1>4 DEF UpdateRow, FieldInv, NameInv, Numbered, Exists
  <1>6. j \in Ids /\ rows[j] # None =>
           /\ rows'[j] # None /\ rows'[j].name = Name(h)
           /\ at = "updateRow" => rows'[j].sub = handler[h].task.row.sub
           /\ at = "setSub" => rows'[j].sub = handler[h].task.row.sub
           /\ at = "setPush" => rows'[j].sub = rows[j].sub
    <2> SUFFICES ASSUME j \in Ids, rows[j] # None
                 PROVE  /\ rows'[j] \in Rows /\ rows'[j].name = Name(h)
                        /\ at = "updateRow" => rows'[j].sub = handler[h].task.row.sub
                        /\ at = "setSub" => rows'[j].sub = handler[h].task.row.sub
                        /\ at = "setPush" => rows'[j].sub = rows[j].sub
      BY <1>4
    <2>1. CASE at = "updateRow"
      BY <1>4, <1>5, <2>1 DEF Columns, Name
    <2>2. CASE at = "setSub"
      BY <1>4, <1>5, <2>2 DEF Columns, Rows
    <2>3. CASE at = "setPush"
      BY <1>4, <1>5, <2>3 DEF Columns, Rows
    <2> QED
      BY <1>1, <2>1, <2>2, <2>3
  <1>7. \A n : Listed(n)' = Listed(n)
    BY <1>5, <1>6 DEF Listed
  <1>8. \A n \in Names \ {Name(h)} : Untouched(n)
    <2> SUFFICES ASSUME NEW n \in Names \ {Name(h)} PROVE Untouched(n)
      OBVIOUS
    <2>1. j \notin Listed(n) /\ j \notin Listed(n)'
      BY <1>1, <1>7, NotItsRow
    <2>2. \A i \in Ids : i # j => rows'[i] = rows[i] /\ fields'[i] = fields[i]
      BY <1>1, <1>5
    <2> HIDE DEF j
    <2> QED
      BY <2>1, <2>2, OthersUntouched
  <1>9. ASSUME Name(h) \notin disturbed
        PROVE  /\ Plan(h)
               /\ at = "updateRow" => handler[h].op \in {"update", "changeStat"}
               /\ at = "setSub" => handler[h].op \in SubOps
               /\ at = "setPush" => handler[h].op \in PushOps
    <2>1. Plan(h)
      BY <1>1, <1>9 DEF FollowInv, Calm
    <2>2. handler[h].op \in Ops
      BY <1>1 DEF HandlerTypes, Busy, Working
    <2> QED
      BY <1>1, <2>1, <2>2 DEF Plan, Program, Ops, SubOps, PushOps, FanOuts
  <1>10. Calm(h)' => Plan(h)'
    <2> SUFFICES ASSUME Calm(h)' PROVE Plan(h)'
      OBVIOUS
    <2>1. Name(h) \notin disturbed
      BY <1>1, <1>3 DEF Calm
    <2>2. j \in Listed(Name(h)) /\ j \in Ids /\ rows[j] # None
      BY <1>1, <1>9, <2>1 DEF Plan, Present, SubOps, PushOps, Listed
    <2>3. j \in Listed(Name(h))'
      BY <1>7, <2>2, <1>3
    <2>4. CASE at = "updateRow"
      <3>1. handler'[h].at = "insertFields" /\ handler'[h].op \in {"update", "changeStat"}
        BY <1>2, <1>3, <1>9, <2>1, <2>4
      <3>2. /\ rows'[j].sub = handler'[h].task.row.sub
            /\ handler'[h].op = "changeStat" => Name(h)' \in toggled'
        BY <1>1, <1>3, <1>6, <1>9, <2>1, <2>2, <2>4 DEF Plan
      <3> QED
        BY <1>3, <2>3, <3>1, <3>2 DEF Plan, Program, Gone, Present, SubOps, FanOuts
    <2>5. CASE at = "setSub"
      <3>1. handler'[h].at = "dispatchers" /\ handler'[h].op \in SubOps
        BY <1>2, <1>3, <1>9, <2>1, <2>5
      <3>2. /\ rows'[j].sub = handler'[h].task.row.sub
            /\ handler'[h].task.row.sub = (handler'[h].op = "startSub")
            /\ fields'[j] = handler'[h].task.fields
        BY <1>1, <1>3, <1>6, <1>9, <2>1, <2>2, <2>5 DEF Plan
      <3> QED
        BY <1>3, <2>3, <3>1, <3>2 DEF Plan, Program, Gone, Present, SubOps, FanOuts
    <2>6. CASE at = "setPush"
      <3>1. handler'[h].at = "pushers" /\ handler'[h].op \in PushOps
        BY <1>2, <1>3, <1>9, <2>1, <2>6
      <3> QED
        BY <1>3, <2>3, <3>1 DEF Plan, Program, Gone, Present, SubOps, PushOps, FanOuts
    <2> QED
      BY <1>1, <2>4, <2>5, <2>6
  <1>11. ASSUME Name(h) \notin disturbed', NEW d \in Dispatchers \cap up, at # "setPush"
         PROVE  Untold(h, d)' /\ Ready(h, d)'
    <2>1. Untold(h, d) /\ handler[h].op \notin PushOps
      BY <1>1, <1>9, <1>11 DEF Untold, Statements, PushOps, SubOps
    <2>2. Ready(h, d)
      BY <1>1, <1>11, <2>1, HeedsAlone, BusyNames DEF Calm, FollowInv, Name
    <2>3. Ready(h, d)'
      BY <1>1, <1>3, <2>2 DEF Ready
    <2>4. handler'[h].at \in {"insertFields", "dispatchers"}
      BY <1>1, <1>2, <1>3, <1>11
    <2>5. Untold(h, d)'
      BY <1>3, <2>1, <2>4 DEF Untold, Statements
    <2> QED
      BY <2>3, <2>5
  <1>12. ASSUME Name(h) \notin disturbed', NEW d \in Dispatchers \cap up, at = "setPush"
         PROVE  ~Untold(h, d)' /\ Agrees(d, Name(h))'
    <2>1. ~Untold(h, d) /\ ~Untold(h, d)'
      BY <1>1, <1>3, <1>9, <1>12 DEF Untold
    <2>2. Agrees(d, Name(h))
      BY <1>1, <1>12, <2>1, HeedsAlone, BusyNames DEF Calm, FollowInv, Name
    <2>3. Listed(Name(h))' = Listed(Name(h))
      BY <1>3, <1>7
    <2>4. \A i \in Listed(Name(h)) : rows'[i].sub = rows[i].sub
      BY <1>5, <1>6, <1>12 DEF Listed
    <2>5. Agrees(d, Name(h))'
      BY <1>1, <1>3, <2>2, <2>3, <2>4 DEF Agrees
    <2> QED
      BY <2>1, <2>5
  <1>13. Name(h) \notin disturbed' =>
              \A d \in Dispatchers \cap up :
                 /\ Busy(h)' /\ Untold(h, d)' => Ready(h, d)'
                 /\ ~Busy(h)' \/ ~Untold(h, d)' =>
                       (\A n \in Names : n = Name(h) => Agrees(d, n)')
    <2> SUFFICES ASSUME Name(h) \notin disturbed', NEW d \in Dispatchers \cap up
                 PROVE  /\ Busy(h)' /\ Untold(h, d)' => Ready(h, d)'
                        /\ ~Busy(h)' \/ ~Untold(h, d)' =>
                              (\A n \in Names : n = Name(h) => Agrees(d, n)')
      OBVIOUS
    <2>1. CASE at = "setPush"
      <3>1. \A n \in Names : n = Name(h) => Agrees(d, n)'
        <4> SUFFICES ASSUME NEW n \in Names, n = Name(h) PROVE Agrees(d, n)'
          OBVIOUS
        <4>1. Agrees(d, Name(h))' <=> Agrees(d, n)'
          BY <1>3 DEF Agrees
        <4> QED
          BY <1>12, <2>1, <4>1
      <3> QED
        BY <1>12, <2>1, <3>1
    <2>2. CASE at # "setPush"
      BY <1>3, <1>11, <2>2
    <2> QED
      BY <2>1, <2>2
  <1> HIDE DEF j, at
  <1> QED
    BY <1>1, <1>3, <1>8, <1>10, <1>13, OneActs

\* The name has no row any more, and Delete is still to be called.
LEMMA DeleteFollows ==
    ASSUME FieldInv, FieldInv', FollowInv, NEW h \in Handlers, DeleteRow(h)
    PROVE  FollowInv'
  <1> DEFINE j == handler[h].id
  <1>1. /\ HandlerTypes /\ Busy(h) /\ handler[h].at = "deleteRow"
        /\ GoTo(h, "deleteFields") /\ fields' = fields
        /\ UNCHANGED <<up, blind, registered, toggled, disturbed, consumer, taskMap>>
    BY TypeParts, StatementFrame DEF DeleteRow, At, FieldInv, NameInv, Done, Then
  <1>2. /\ \A k \in Handlers \ {h} : handler'[k] = handler[k]
        /\ Busy(h)' /\ handler'[h].at = "deleteFields" /\ handler'[h].left = None
        /\ handler'[h].op = handler[h].op /\ handler'[h].id = j
        /\ handler'[h].task = handler[h].task /\ Name(h)' = Name(h)
    BY <1>1, GoToFacts
  <1>3. /\ \A i \in Ids : i # j => rows'[i] = rows[i]
        /\ j \in Ids => rows'[j] = None
    BY DEF DeleteRow, FieldInv, NameInv, TypeOK
  <1>4. \A n \in Names \ {Name(h)} : Untouched(n)
    <2> SUFFICES ASSUME NEW n \in Names \ {Name(h)} PROVE Untouched(n)
      OBVIOUS
    <2>1. j \notin Listed(n) /\ j \notin Listed(n)'
      BY <1>1, <1>3, NotItsRow DEF Listed
    <2>2. \A i \in Ids : i # j => rows'[i] = rows[i] /\ fields'[i] = fields[i]
      BY <1>1, <1>3
    <2> HIDE DEF j
    <2> QED
      BY <2>1, <2>2, OthersUntouched
  <1>5. ASSUME Name(h) \notin disturbed
        PROVE  handler[h].op = "delete" /\ Listed(Name(h)) = {j} /\ Listed(Name(h))' = {}
    <2>1. Plan(h)
      BY <1>1, <1>5 DEF FollowInv, Calm
    <2>2. handler[h].op = "delete"
      BY <1>1, <2>1 DEF Plan, Program, SubOps, FanOuts
    <2>3. j \in Listed(Name(h))
      BY <1>1, <2>1, <2>2 DEF Plan, Present
    <2>4. Listed(Name(h)) = {j}
      BY <1>5, <2>3, ListedOnce
    <2> QED
      BY <1>2, <1>3, <2>2, <2>4 DEF Listed
  <1>6. Calm(h)' => Plan(h)'
    <2> SUFFICES ASSUME Calm(h)' PROVE Plan(h)'
      OBVIOUS
    <2>1. handler'[h].op = "delete" /\ Listed(Name(h))' = {}
      BY <1>1, <1>2, <1>5 DEF Calm
    <2> QED
      BY <1>2, <2>1 DEF Plan, Program, Gone, Present, SubOps, FanOuts
  <1>7. ASSUME Name(h) \notin disturbed', NEW d \in Dispatchers \cap up
        PROVE  Untold(h, d)' /\ Ready(h, d)'
    BY <1>1, <1>2, <1>5, <1>7 DEF Untold, Ready, Statements, PushOps
  <1> HIDE DEF j
  <1> QED
    BY <1>1, <1>2, <1>4, <1>6, <1>7, OneActs

\* A failure is on the record, also that of a call that is answered.
LEMMA FaultsFollow ==
    ASSUME FieldInv, FieldInv', FollowInv, NEW h \in Handlers,
           StatementFails(h) \/ \E c \in Clients : CallFails(h, c) \/ CallUnserved(h, c)
    PROVE  FollowInv'
  <1>1. /\ Busy(h) /\ Name(h) \in disturbed' /\ disturbed \subseteq disturbed'
        /\ HandlerTypes /\ ProcessTypes
        /\ UNCHANGED <<store, up, blind, registered, toggled>>
    BY TypeParts DEF StatementFails, CallFails, CallUnserved, Called, At, Fault, Name, living, FieldInv, NameInv
  <1>2. /\ \A k \in Handlers \ {h} : handler'[k] = handler[k]
        /\ Busy(h)' => Name(h)' = Name(h)
    <2>1. CASE StatementFails(h)
      BY <1>1, <2>1, GoToFacts DEF StatementFails
    <2>2. ASSUME NEW c \in Clients, Called(h, c)
          PROVE  /\ \A k \in Handlers \ {h} : handler'[k] = handler[k]
                 /\ Busy(h)' => Name(h)' = Name(h)
      <3>1. CASE handler[h].left = {c}
        BY <1>1, <2>2, <3>1, GoToFacts DEF Called, Done
      <3>2. CASE handler[h].left # {c}
        <4>1. handler' = [handler EXCEPT ![h].left = @ \ {c}]
          BY <2>2, <3>2 DEF Called
        <4>2. handler[h] \in Working
          BY <1>1 DEF HandlerTypes, Busy
        <4> QED
          BY <1>1, <4>1, <4>2 DEF HandlerTypes, Working, Name
      <3> QED
        BY <3>1, <3>2
    <2> QED
      BY <2>1, <2>2 DEF CallFails, CallUnserved
  <1>3. \A n : Untouched(n)
    BY <1>1, StoreUntouched
  <1>4. ~Calm(h)'
    BY <1>1, <1>2 DEF Calm
  <1>5. \A d \in Dispatchers, n \in Names \ {Name(h)} :
           consumer'[d][n] = consumer[d][n] /\ taskMap'[d][n] = taskMap[d][n]
    <2>1. CASE UNCHANGED <<consumer, taskMap>>
      BY <2>1
    <2>2. ASSUME NEW c \in Clients, CallUnserved(h, c)
          PROVE  \A d \in Dispatchers, n \in Names \ {Name(h)} :
                    consumer'[d][n] = consumer[d][n] /\ taskMap'[d][n] = taskMap[d][n]
      <3>1. /\ \E t : taskMap' = [taskMap EXCEPT ![c][Name(h)] = t]
            /\ \E t : consumer' = [consumer EXCEPT ![c][Name(h)] = t]
        <4>1. /\ taskMap' = [taskMap EXCEPT ![c][Name(h)] = Remembered(CallOf(h), handler[h].task)]
              /\ consumer' = [consumer EXCEPT ![c][Name(h)] =
                                 IF CallOf(h) = "Update" THEN None ELSE @]
          BY <2>2 DEF CallUnserved, Name
        <4>2. consumer' = [consumer EXCEPT ![c][Name(h)] =
                              IF CallOf(h) = "Update" THEN None ELSE consumer[c][Name(h)]]
          BY <1>1, <4>1 DEF ProcessTypes
        <4> QED
          BY <4>1, <4>2
      <3>2. /\ taskMap \in [Dispatchers -> [Names -> {None} \cup (SUBSET Settings)]]
            /\ consumer \in [Dispatchers -> [Names -> {None} \cup (SUBSET Settings)]]
        BY <1>1 DEF ProcessTypes
      <3> QED
        BY <3>1, <3>2
    <2> QED
      BY <2>1, <2>2 DEF StatementFails, CallFails, dispatching
  <1> QED
    BY <1>1, <1>2, <1>3, <1>4, <1>5, OneActs

-----------------------------------------------------------------------------
(* The fan-outs.                                                             *)

\* A handler that is done with a fan-out is at another one, or idle.
LEMMA DoneFans ==
    ASSUME HandlerTypes, NEW h \in Handlers, Calm(h), Plan(h), handler[h].at \in FanOuts, Done(h),
           Untouched(Name(h)), toggled \subseteq toggled'
    PROVE  /\ Busy(h)' => Plan(h)'
           /\ \A d : Busy(h)' => ~Untold(h, d)'
  <1> SUFFICES ASSUME Busy(h)' PROVE Plan(h)' /\ \A d : ~Untold(h, d)'
    OBVIOUS
  <1>1. Busy(h) /\ GoTo(h, Then(handler[h].op, handler[h].at))
    BY DEF Done, Calm
  <1>2. /\ Then(handler[h].op, handler[h].at) # "idle"
        /\ handler'[h].at = Then(handler[h].op, handler[h].at)
        /\ handler'[h].op = handler[h].op /\ handler'[h].id = handler[h].id
        /\ handler'[h].task = handler[h].task /\ Name(h)' = Name(h)
    BY <1>1, GoToFacts
  <1>3. /\ handler'[h].at \in {"pushers", "pushersAdd"}
        /\ handler[h].op \in {"add", "update", "delete"}
    BY <1>2 DEF Then, FanOuts
  <1>4. Program(h)' /\ Gone(h)' = Gone(h) /\ Present(h)' = Present(h)
    BY <1>2, <1>3 DEF Program, Gone, Present, FanOuts, SubOps
  <1>5. Listed(Name(h)) = {} => Listed(Name(h))' = {}
    BY <1>2 DEF Untouched, Listed
  <1>6. Present(h) => /\ handler[h].id \in Listed(Name(h))
                      /\ handler[h].id \in Listed(Name(h))'
                      /\ rows'[handler[h].id] = rows[handler[h].id]
                      /\ fields'[handler[h].id] = fields[handler[h].id]
    BY <1>2 DEF Plan, Untouched, Listed
  <1>7. handler[h].op \in {"add", "update"} => Present(h)
    BY DEF Present, FanOuts
  <1>8. handler[h].op \notin SubOps
    BY <1>3 DEF SubOps
  <1>9. Plan(h)'
    BY <1>2, <1>3, <1>4, <1>5, <1>6, <1>7, <1>8 DEF Plan, FanOuts
  <1>10. \A d : ~Untold(h, d)'
    BY <1>3 DEF Untold, Statements
  <1> QED
    BY <1>9, <1>10

\* The fields of a settled row are those of one form.
LEMMA FieldsThere ==
    ASSUME FieldInv, NEW n, n \notin disturbed, NEW i \in Listed(n),
           \A k \in Handlers : About(k, n) => handler[k].at \notin Emptied
    PROVE  fields[i] # {} /\ Fetched(fields[i]) = fields[i]
  <1>1. i \in Ids /\ Exists(i) /\ rows[i].name = n
    BY DEF Listed, Exists
  <1>2. \A k \in Handlers : Busy(k) /\ handler[k].id = i => About(k, n)
    BY <1>1 DEF FieldInv, NameInv, Numbered, About, Name
  <1>3. \E s \in Settings : fields[i] = {s}
    BY <1>1, <1>2 DEF FieldInv, FieldsFilled
  <1> QED
    BY <1>3 DEF Fetched

\* A dispatcher that agrees may be called all the same.
LEMMA AgreesIsReady ==
    ASSUME FieldInv, NEW h \in Handlers, Calm(h), Plan(h), NEW d, Agrees(d, Name(h)),
           handler[h].at = "dispatchers"
    PROVE  Ready(h, d)
  <1>1. /\ handler[h].op = "startSub" => Present(h) /\ rows[handler[h].id].sub
        /\ handler[h].op \in {"add", "update"} =>
              Present(h) /\ rows[handler[h].id].sub = handler[h].task.row.sub
    BY DEF Plan, Present, SubOps, FanOuts
  <1>2. Present(h) => handler[h].id \in Listed(Name(h))
    BY DEF Plan
  <1> QED
    BY <1>1, <1>2 DEF Ready, Agrees

\* A dispatcher that needs no call agrees already.
LEMMA UncalledAgrees ==
    ASSUME FieldInv, NEW h \in Handlers, Calm(h), Plan(h), NEW d, Ready(h, d),
           handler[h].at = "dispatchers", CallOf(h) = "none"
    PROVE  Agrees(d, Name(h))
  <1>1. handler[h].op \in {"add", "update"} /\ ~handler[h].task.row.sub
    BY DEF CallOf, Plan, Program
  <1>2. handler[h].id \in Listed(Name(h)) /\ ~rows[handler[h].id].sub
    BY <1>1 DEF Plan, Present, FanOuts
  <1>3. \A i \in Listed(Name(h)) : i = handler[h].id
    BY <1>2, ListedOnce DEF Calm
  <1>4. Name(h) \notin toggled => consumer[d][Name(h)] = None
    BY <1>1 DEF Ready
  <1> QED
    BY <1>2, <1>3, <1>4 DEF Agrees

\* A dispatcher that has done what the call asks for agrees.
LEMMA CalledAgrees ==
    ASSUME FieldInv, ProcessTypes, NEW h \in Handlers, Calm(h), Plan(h), NEW d \in Dispatchers,
           Ready(h, d), handler[h].at = "dispatchers", Name(h) \in Names,
           DispatcherDoes(d, CallOf(h), handler[h].task),
           UNCHANGED <<store, toggled>>, NEW n, n = Name(h)
    PROVE  Agrees(d, n)'
  <1> DEFINE i == handler[h].id
             t == handler[h].task
  <1>1. /\ taskMap'[d][n] = Remembered(CallOf(h), t)
        /\ consumer'[d][n] = CASE CallOf(h) = "Update" -> Fetched(t.fields)
                               [] CallOf(h) = "Start"  -> IF consumer[d][n] = None
                                                          THEN Fetched(t.fields) ELSE consumer[d][n]
                               [] OTHER                -> None
    BY DEF DispatcherDoes, ProcessTypes, Name
  <1>2. Listed(n)' = Listed(n) /\ rows' = rows /\ fields' = fields /\ toggled' = toggled
    BY DEF store, Listed
  <1>3. handler[h].op \in {"add", "update", "changeStat", "delete", "startSub", "stopSub"}
    <2>1. handler[h].op \in Ops
      BY TypeParts DEF FieldInv, NameInv, HandlerTypes, Calm, Busy, Working
    <2> QED
      BY <2>1 DEF Plan, Program, Ops, SubOps, PushOps, FanOuts
  <1>4. CASE handler[h].op = "delete"
    <2>1. CallOf(h) = "Delete" /\ Listed(n) = {}
      BY <1>4 DEF CallOf, Plan, Gone
    <2> QED
      BY <1>1, <1>2, <2>1 DEF Agrees, Remembered
  <1>5. CASE handler[h].op # "delete"
    <2>1. i \in Listed(n)
      BY <1>5 DEF Plan, Present
    <2>2. \A k \in Listed(n) : k = i
      BY <2>1, ListedOnce DEF Calm
    <2>3. ASSUME n \notin toggled
          PROVE  /\ consumer'[d][n] = IF rows[i].sub THEN fields[i] ELSE None
                 /\ rows[i].sub => taskMap'[d][n] = fields[i]
      <3>1. Fetched(fields[i]) = fields[i]
        <4>1. \A k \in Handlers : About(k, n) => k = h
          BY DEF FieldInv, NameInv, OneHandler, Calm, About, Name
        <4>2. \A k \in Handlers : About(k, n) => handler[k].at \notin Emptied
          BY <4>1 DEF Emptied
        <4> QED
          BY <2>1, <4>2, FieldsThere DEF Calm
      <3>2. handler[h].op # "changeStat"
        BY <2>3 DEF Plan
      <3>3. CASE handler[h].op \in {"add", "update"}
        <4>1. rows[i].sub = t.row.sub /\ fields[i] = t.fields
          BY <3>3 DEF Plan, FanOuts
        <4>2. CallOf(h) = IF t.row.sub THEN "Update" ELSE "none"
          BY <3>3 DEF CallOf
        <4> QED
          BY <1>1, <3>1, <4>1, <4>2 DEF Remembered
      <3>4. CASE handler[h].op = "startSub"
        <4>1. rows[i].sub /\ fields[i] = t.fields
          BY <3>4 DEF Plan, SubOps, FanOuts
        <4>2. CallOf(h) = "Start"
          BY <3>4 DEF CallOf
        <4>3. consumer[d][n] \in {None, fields[i]}
          BY <2>3, <3>4 DEF Ready
        <4> QED
          BY <1>1, <3>1, <4>1, <4>2, <4>3 DEF Remembered
      <3>5. CASE handler[h].op = "stopSub"
        <4>1. ~rows[i].sub
          BY <3>5 DEF Plan, SubOps, FanOuts
        <4>2. CallOf(h) = "Stop"
          BY <3>5 DEF CallOf
        <4> QED
          BY <1>1, <4>1, <4>2
      <3> QED
        BY <1>3, <1>5, <3>2, <3>3, <3>4, <3>5
    <2> HIDE DEF i
    <2> QED
      BY <1>2, <2>1, <2>2, <2>3 DEF Agrees
  <1> QED
    BY <1>4, <1>5

-----------------------------------------------------------------------------
(* Whom a fan-out calls.                                                     *)

\* A step after which each handler has nobody left to call, or goes on.
LEMMA AimedKept ==
    ASSUME Aimed,
           \A k \in Handlers : Busy(k)' /\ handler'[k].left # None =>
              \/ handler'[k] = handler[k]
              \/ handler'[k].left \subseteq Kind(handler'[k].at)
    PROVE  Aimed'
  BY DEF Aimed, Busy

\* A handler at a new place has begun no fan-out there.
LEMMA GoToAimed ==
    ASSUME HandlerTypes, Aimed, NEW h \in Handlers, Busy(h), NEW at, GoTo(h, at)
    PROVE  Aimed'
  BY GoToFacts, AimedKept

\* Nor has a request that begins ...
LEMMA ReceiveAimed ==
    ASSUME HandlerTypes, Aimed, NEW h \in Handlers, NEW op, NEW i, NEW t, Receive(h, op, i, t)
    PROVE  Aimed'
  <1>1. handler'[h].left = None /\ \A k \in Handlers \ {h} : handler'[k] = handler[k]
    BY DEF Receive, HandlerTypes
  <1> QED
    BY <1>1, AimedKept

\* ... or one that inserts.
LEMMA InsertAimed ==
    ASSUME HandlerTypes, Fanning, Aimed, NEW h \in Handlers, Insert(h) \/ InsertFields(h)
    PROVE  Aimed'
  <1>1. \A k \in Handlers \ {h} : handler'[k] = handler[k]
    BY DEF Insert, InsertFields, HandlerTypes
  <1>2. Busy(h) /\ handler[h] \in Working /\ handler[h].at \notin FanOuts
    BY DEF Insert, InsertFields, At, HandlerTypes, Busy, FanOuts
  <1>3. handler'[h].left = handler[h].left
    BY <1>2 DEF Insert, InsertFields, HandlerTypes, Working
  <1>4. handler'[h].left = None
    BY <1>2, <1>3 DEF Fanning
  <1> QED
    BY <1>1, <1>4, AimedKept

\* The clients a fan-out begins with are of its kind ...
LEMMA IterAimed ==
    ASSUME HandlerTypes, Aimed, NEW h \in Handlers, Iter(h)
    PROVE  Aimed'
  <1> DEFINE targets == IF CallOf(h) = "none" THEN {} ELSE Kind(handler[h].at) \cap registered
  <1>1. Busy(h) /\ handler[h] \in Working
    BY DEF Iter, At, HandlerTypes, Busy
  <1>2. CASE targets = {}
    BY <1>1, <1>2, GoToAimed DEF Iter, Done
  <1>3. CASE targets # {}
    <2>1. handler' = [handler EXCEPT ![h].left = targets]
      BY <1>3 DEF Iter
    <2>2. handler'[h].left = targets /\ handler'[h].at = handler[h].at
      BY <1>1, <2>1 DEF HandlerTypes, Working
    <2>3. \A k \in Handlers \ {h} : handler'[k] = handler[k]
      BY <2>1 DEF HandlerTypes
    <2> QED
      BY <2>2, <2>3, AimedKept
  <1> QED
    BY <1>2, <1>3

\* ... and so are those that are left after a call.
LEMMA CalledAimed ==
    ASSUME HandlerTypes, Aimed, NEW h \in Handlers, NEW c, Called(h, c)
    PROVE  Aimed'
  <1>1. Busy(h) /\ handler[h] \in Working /\ handler[h].left # None
    BY DEF Called, HandlerTypes, Busy
  <1>2. CASE handler[h].left = {c}
    BY <1>1, <1>2, GoToAimed DEF Called, Done
  <1>3. CASE handler[h].left # {c}
    <2>1. handler' = [handler EXCEPT ![h].left = @ \ {c}]
      BY <1>3 DEF Called
    <2>2. handler'[h].left = handler[h].left \ {c} /\ handler'[h].at = handler[h].at
      BY <1>1, <2>1 DEF HandlerTypes, Working
    <2>3. \A k \in Handlers \ {h} : handler'[k] = handler[k]
      BY <2>1 DEF HandlerTypes
    <2>4. handler'[h].left \subseteq Kind(handler'[h].at)
      BY <1>1, <2>2 DEF Aimed
    <2> QED
      BY <2>3, <2>4, AimedKept
  <1> QED
    BY <1>2, <1>3

\* A client that registers joins the calls to clients of its kind.
LEMMA JoinsFacts ==
    ASSUME HandlerTypes, NEW c, Joins(c)
    PROVE  \A k \in Handlers : /\ Busy(k)' <=> Busy(k)
                               /\ Busy(k) => Stays(k) /\ Name(k)' = Name(k)
                               /\ \/ handler'[k] = handler[k]
                                  \/ /\ Busy(k) /\ handler[k].left # None /\ c \in Kind(handler[k].at)
                                     /\ handler'[k].left = handler[k].left \cup {c}
  <1> SUFFICES ASSUME NEW k \in Handlers
               PROVE  /\ Busy(k)' <=> Busy(k)
                      /\ Busy(k) => Stays(k) /\ Name(k)' = Name(k)
                      /\ \/ handler'[k] = handler[k]
                         \/ /\ Busy(k) /\ handler[k].left # None /\ c \in Kind(handler[k].at)
                            /\ handler'[k].left = handler[k].left \cup {c}
    OBVIOUS
  <1>1. CASE handler'[k] = handler[k]
    BY <1>1 DEF Busy, Stays, Name
  <1>2. CASE handler'[k] # handler[k]
    <2>1. /\ Busy(k) /\ handler[k].left # None /\ c \in Kind(handler[k].at)
          /\ handler'[k] = [handler[k] EXCEPT !.left = @ \cup {c}]
      BY <1>2 DEF Joins
    <2>2. handler[k] \in Working
      BY <2>1 DEF HandlerTypes, Busy
    <2>3. Stays(k) /\ Name(k)' = Name(k) /\ handler'[k].left = handler[k].left \cup {c}
      BY <2>1, <2>2 DEF Stays, Working, Name
    <2>4. Busy(k)'
      <3>1. handler'[k].at # "idle"
        BY <2>2, <2>3 DEF Stays, Working, Statements, FanOuts
      <3> QED
        BY <3>1 DEF Busy, Idle
    <2> QED
      BY <2>1, <2>3, <2>4
  <1> QED
    BY <1>1, <1>2

\* A client joins only fan-outs to its kind.
LEMMA JoinsAimed ==
    ASSUME HandlerTypes, Aimed, NEW c, Joins(c)
    PROVE  Aimed'
  <1> SUFFICES ASSUME NEW k \in Handlers, Busy(k)', handler'[k].left # None
               PROVE  handler'[k] = handler[k] \/ handler'[k].left \subseteq Kind(handler'[k].at)
    BY AimedKept
  <1>1. CASE handler'[k] # handler[k]
    <2>1. /\ Busy(k) /\ handler[k].left # None /\ c \in Kind(handler[k].at) /\ Stays(k)
          /\ handler'[k].left = handler[k].left \cup {c}
      BY <1>1, JoinsFacts
    <2> QED
      BY <2>1 DEF Aimed, Stays
  <1> QED
    BY <1>1

\* Every step keeps the fan-outs to their kinds.
LEMMA AimedStep ==
    ASSUME HandlerTypes, Fanning, Aimed, [Next]_vars
    PROVE  Aimed'
  <1> USE ControlAssumption DEF store, dispatching, pushing, history, Statement
  <1>1. ASSUME NEW h \in Handlers, NEW n \in Names, NEW s \in Settings, NEW b \in BOOLEAN,
              doAddTask(h, n, s, b)
        PROVE  Aimed'
    BY <1>1, ReceiveAimed DEF doAddTask
  <1>2. ASSUME NEW h \in Handlers, NEW i \in Ids, NEW s \in Settings, NEW b \in BOOLEAN,
              doUpdateTask(h, i, s, b)
        PROVE  Aimed'
    BY <1>2, ReceiveAimed DEF doUpdateTask
  <1>3. ASSUME NEW h \in Handlers, NEW i \in Ids, NEW b \in BOOLEAN, changeTaskStat(h, i, b)
        PROVE  Aimed'
    BY <1>3, ReceiveAimed DEF changeTaskStat
  <1>4. ASSUME NEW h \in Handlers, NEW i \in Ids, NEW op \in {"delete"} \cup SubOps \cup PushOps,
              doSimple(h, op, i)
        PROVE  Aimed'
    BY <1>4, ReceiveAimed DEF doSimple
  <1>5. ASSUME NEW h \in Handlers, NameExists(h) PROVE Aimed'
    BY <1>5, GoToAimed DEF NameExists, At, Done
  <1>6. ASSUME NEW h \in Handlers, Insert(h) PROVE Aimed'
    BY <1>6, InsertAimed
  <1>7. ASSUME NEW h \in Handlers, InsertFields(h) PROVE Aimed'
    BY <1>7, InsertAimed
  <1>8. ASSUME NEW h \in Handlers, DeleteFields(h) PROVE Aimed'
    BY <1>8, GoToAimed DEF DeleteFields, At, Done
  <1>9. ASSUME NEW h \in Handlers, UpdateRow(h) PROVE Aimed'
    BY <1>9, GoToAimed DEF UpdateRow, At, Done
  <1>10. ASSUME NEW h \in Handlers, DeleteRow(h) PROVE Aimed'
    BY <1>10, GoToAimed DEF DeleteRow, At, Done
  <1>11. ASSUME NEW h \in Handlers, StatementFails(h) PROVE Aimed'
    BY <1>11, GoToAimed DEF StatementFails, At
  <1>12. ASSUME NEW h \in Handlers, Iter(h) PROVE Aimed'
    BY <1>12, IterAimed
  <1>13. ASSUME NEW h \in Handlers, NEW c \in Clients, Call(h, c) PROVE Aimed'
    BY <1>13, CalledAimed DEF Call
  <1>14. ASSUME NEW h \in Handlers, NEW c \in Clients, CallFails(h, c) PROVE Aimed'
    BY <1>14, CalledAimed DEF CallFails
  <1>15. ASSUME NEW c \in Clients, Crash(c) PROVE Aimed'
    BY <1>15 DEF Crash, Fault, Aimed, Busy
  <1>16. ASSUME NEW c \in Clients, Register(c) PROVE Aimed'
    BY <1>16, JoinsAimed DEF Register
  <1>17. ASSUME NEW d \in Dispatchers, StartDispatcher(d) PROVE Aimed'
    BY <1>17 DEF StartDispatcher, Aimed, Busy
  <1>18. ASSUME NEW p \in Pushers, StartPusher(p) PROVE Aimed'
    BY <1>18, JoinsAimed DEF StartPusher
  <1>19. CASE MonitorCrash
    BY <1>19 DEF MonitorCrash, Fault, Aimed, Busy
  <1>20. CASE UNCHANGED vars
    BY <1>20 DEF vars, Aimed, Busy
  <1>21. ASSUME NEW h \in Handlers, NEW c \in Clients, CallUnserved(h, c) PROVE Aimed'
    BY <1>21, CalledAimed DEF CallUnserved
  <1>22. ASSUME NEW h \in Handlers, NEW c \in Clients, Panics(h, c) PROVE Aimed'
    BY <1>22, CalledAimed DEF Panics
  <1>23. ASSUME NEW c \in Clients, StartBlind(c) PROVE Aimed'
    BY <1>23 DEF StartBlind, Aimed, Busy
  <1> HIDE DEF store, dispatching, pushing, history, Statement
  <1> QED
    BY <1>1, <1>2, <1>3, <1>4, <1>5, <1>6, <1>7, <1>8, <1>9, <1>10,
       <1>11, <1>12, <1>13, <1>14, <1>15, <1>16, <1>17, <1>18, <1>19, <1>20,
       <1>21, <1>22, <1>23 DEF Next

-----------------------------------------------------------------------------
(* Fan-outs and calls.                                                       *)

\* The clients a fan-out begins with are all the dispatchers that run, or the
\* name is disturbed; without a call they agree already.
LEMMA IterFollows ==
    ASSUME FieldInv, FieldInv', FollowInv, NEW h \in Handlers, Iter(h)
    PROVE  FollowInv'
  <1> DEFINE at == handler[h].at
             targets == IF CallOf(h) = "none" THEN {} ELSE Kind(at) \cap registered
  <1>1. /\ HandlerTypes /\ Busy(h) /\ at \in FanOuts /\ handler[h].left = None
        /\ handler[h] \in Working /\ Name(h) \in Names
        /\ UNCHANGED <<store, up, blind, registered, toggled, consumer, taskMap>>
        /\ disturbed \subseteq disturbed'
        /\ Name(h) \notin disturbed' => Kind(at) \cap up \subseteq registered
    BY TypeParts, BusyNames DEF Iter, At, FieldInv, NameInv, HandlerTypes, Busy, Name, living, dispatching
  <1>2. \/ targets = {} /\ Done(h)
        \/ targets # {} /\ handler' = [handler EXCEPT ![h].left = targets]
    <2>1. CASE targets = {}
      BY <2>1 DEF Iter
    <2>2. CASE targets # {}
      BY <2>2 DEF Iter
    <2> QED
      BY <2>1, <2>2
  <1>3. \A n : Untouched(n)
    BY <1>1, StoreUntouched
  <1>4. CASE targets # {}
    <2>1. /\ \A k \in Handlers \ {h} : handler'[k] = handler[k]
          /\ Stays(h) /\ Name(h)' = Name(h) /\ handler'[h].left = targets
      BY <1>1, <1>2, <1>4 DEF HandlerTypes, Working, Stays, Name
    <2>2. targets # None
      <3>1. targets \in SUBSET (Settings \cup Dispatchers \cup Pushers)
        BY DEF Kind
      <3> QED
        BY <3>1, ControlAssumption DEF ControlAssumption
    <2>3. Calm(h)' => Plan(h)'
      BY <1>1, <1>3, <2>1, PlanKept DEF Calm, FollowInv
    <2>4. ASSUME Name(h) \notin disturbed', NEW d \in Dispatchers \cap up
          PROVE  /\ Untold(h, d)' => Ready(h, d)'
                 /\ ~Untold(h, d)' => (\A n \in Names : n = Name(h) => Agrees(d, n)')
      <3>1. Calm(h) /\ Plan(h) /\ Heeds(d, Name(h))
        BY <1>1, <2>4 DEF Calm, FollowInv
      <3>2. CASE at = "dispatchers" /\ handler[h].op \notin PushOps
        <4>1. Untold(h, d)
          BY <1>1, <3>2 DEF Untold
        <4>2. Ready(h, d)'
          BY <1>1, <1>3, <2>1, <3>1, <4>1, HeedsAlone, ReadyKept
        <4>3. d \in targets
          BY <1>1, <1>4, <2>4, <3>2 DEF Kind
        <4>4. Untold(h, d)'
          BY <1>1, <2>1, <3>2, <4>3, <2>4 DEF Untold, Stays, Kind
        <4> QED
          BY <4>2, <4>4
      <3>3. CASE ~(at = "dispatchers" /\ handler[h].op \notin PushOps)
        <4>1. ~Untold(h, d) /\ ~Untold(h, d)'
          BY <1>1, <2>1, <3>3 DEF Untold, Stays, FanOuts, Statements
        <4>2. Agrees(d, Name(h))
          BY <3>1, <4>1, HeedsAlone
        <4>3. \A n \in Names : n = Name(h) => Agrees(d, n)'
          BY <1>1, <1>3, <4>2, AgreesKept
        <4> QED
          BY <4>1, <4>3
      <3> QED
        BY <3>2, <3>3
    <2>5. Busy(h)'
      BY <1>1, <2>1 DEF Busy, Idle, Stays, FanOuts
    <2> HIDE DEF at, targets
    <2> QED
      BY <1>1, <1>3, <2>1, <2>3, <2>4, <2>5, OneActs
  <1>5. CASE targets = {}
    <2>1. GoTo(h, Then(handler[h].op, at)) /\ Done(h)
      BY <1>2, <1>5 DEF Done
    <2>2. /\ \A k \in Handlers \ {h} : handler'[k] = handler[k]
          /\ Busy(h)' => Name(h)' = Name(h)
      BY <1>1, <2>1, GoToFacts
    <2>3. Calm(h)' => Plan(h)'
      <3> SUFFICES ASSUME Calm(h)' PROVE Plan(h)'
        OBVIOUS
      <3>1. Calm(h) /\ Plan(h) /\ Busy(h)'
        BY <1>1, <2>2 DEF Calm, FollowInv
      <3> QED
        BY <1>1, <1>3, <2>1, <3>1, DoneFans
    <2>4. ASSUME Name(h) \notin disturbed', NEW d \in Dispatchers \cap up
          PROVE  /\ Busy(h)' => ~Untold(h, d)'
                 /\ \A n \in Names : n = Name(h) => Agrees(d, n)'
      <3>1. Calm(h) /\ Plan(h) /\ Heeds(d, Name(h))
        BY <1>1, <2>4 DEF Calm, FollowInv
      <3>2. Busy(h)' => ~Untold(h, d)'
        BY <1>1, <1>3, <2>1, <3>1, DoneFans
      <3>3. Agrees(d, Name(h))
        <4>1. CASE Untold(h, d)
          <5>1. at = "dispatchers" /\ Ready(h, d)
            BY <1>1, <3>1, <4>1, HeedsAlone DEF Untold, FanOuts, Statements
          <5>2. d \in Kind(at) \cap registered
            BY <1>1, <2>4, <5>1 DEF Kind
          <5>3. CallOf(h) = "none"
            BY <1>5, <5>2
          <5> QED
            BY <3>1, <5>1, <5>3, UncalledAgrees
        <4>2. CASE ~Untold(h, d)
          BY <3>1, <4>2, HeedsAlone
        <4> QED
          BY <4>1, <4>2
      <3>4. \A n \in Names : n = Name(h) => Agrees(d, n)'
        BY <1>1, <1>3, <3>3, AgreesKept
      <3> QED
        BY <3>2, <3>4
    <2> HIDE DEF at, targets
    <2> QED
      BY <1>1, <1>3, <2>2, <2>3, <2>4, OneActs
  <1> QED
    BY <1>4, <1>5

\* The dispatcher that is called agrees afterwards, the others are left alone.
LEMMA CallFollows ==
    ASSUME FieldInv, FieldInv', Aimed, FollowInv, NEW h \in Handlers, NEW c \in Clients,
           Call(h, c) \/ Panics(h, c)
    PROVE  FollowInv'
  <1> DEFINE at == handler[h].at
  <1>1. /\ HandlerTypes /\ ProcessTypes /\ Busy(h) /\ at \in FanOuts /\ handler[h].left # None
        /\ c \in handler[h].left /\ c \in Kind(at)
        /\ handler[h] \in Working /\ Name(h) \in Names
        /\ UNCHANGED <<store, up, toggled, disturbed>> /\ blind' \subseteq blind
        /\ \A d \in up : d \in registered' <=> d \in registered
    BY TypeParts, BusyNames
       DEF Call, Panics, Called, FieldInv, NameInv, FollowInv, Fanning, Aimed, HandlerTypes, Busy, Name,
           living, history
  <1>2. \/ handler[h].left = {c} /\ Done(h)
        \/ handler[h].left # {c} /\ handler' = [handler EXCEPT ![h].left = @ \ {c}]
    BY DEF Call, Panics, Called
  <1>3. \A n : Untouched(n)
    BY <1>1, StoreUntouched
  <1>4. /\ \A d \in Dispatchers, n \in Names : d # c \/ n # Name(h) =>
              consumer'[d][n] = consumer[d][n] /\ taskMap'[d][n] = taskMap[d][n]
        /\ at # "dispatchers" => UNCHANGED <<consumer, taskMap>>
        /\ \/ UNCHANGED <<consumer, taskMap>> /\ (c \in Dispatchers \cap up => c \notin registered)
           \/ c \in Dispatchers /\ DispatcherDoes(c, CallOf(h), handler[h].task)
    <2>1. CASE c \notin registered /\ UNCHANGED <<dispatching, pushing>>
      BY <2>1 DEF dispatching
    <2>2. CASE c \in up \cap Dispatchers /\ DispatcherDoes(c, CallOf(h), handler[h].task)
      <3>1. at = "dispatchers"
        BY <1>1, <2>2, ControlAssumption DEF Kind, FanOuts, ControlAssumption
      <3> QED
        BY <1>1, <2>2, <3>1 DEF DispatcherDoes, ProcessTypes, Name
    <2>3. CASE c \in (up \cup blind) \cap Pushers /\ PusherDoes(c, CallOf(h), handler[h].task)
      BY <2>3, ControlAssumption DEF PusherDoes, dispatching, ControlAssumption
    <2>4. CASE Panics(h, c)
      BY <2>4 DEF Panics, FollowInv, dispatching
    <2> QED
      BY <2>1, <2>2, <2>3, <2>4 DEF Call
  <1>5. /\ \A k \in Handlers \ {h} : handler'[k] = handler[k]
        /\ Busy(h)' => Name(h)' = Name(h)
        /\ handler[h].left # {c} => Busy(h)' /\ Stays(h) /\ handler'[h].left = handler[h].left \ {c}
    <2>1. CASE handler[h].left = {c}
      BY <1>1, <1>2, <2>1, GoToFacts DEF Done
    <2>2. CASE handler[h].left # {c}
      <3>1. /\ \A k \in Handlers \ {h} : handler'[k] = handler[k]
            /\ Stays(h) /\ Name(h)' = Name(h) /\ handler'[h].left = handler[h].left \ {c}
        BY <1>1, <1>2, <2>2 DEF HandlerTypes, Working, Stays, Name
      <3>2. Busy(h)'
        BY <1>1, <3>1 DEF Busy, Idle, Stays, FanOuts
      <3> QED
        BY <3>1, <3>2
    <2> QED
      BY <2>1, <2>2
  <1>6. Calm(h)' => Plan(h)'
    <2> SUFFICES ASSUME Calm(h)' PROVE Plan(h)'
      OBVIOUS
    <2>1. Calm(h) /\ Plan(h) /\ Busy(h)'
      BY <1>1, <1>5 DEF Calm, FollowInv
    <2>2. CASE handler[h].left = {c}
      BY <1>1, <1>2, <1>3, <2>1, <2>2, DoneFans
    <2>3. CASE handler[h].left # {c}
      BY <1>1, <1>3, <1>5, <2>1, <2>3, PlanKept
    <2> QED
      BY <2>2, <2>3
  <1>7. ASSUME Name(h) \notin disturbed', NEW d \in Dispatchers \cap up
        PROVE  /\ Busy(h)' /\ Untold(h, d)' => Ready(h, d)'
               /\ ~Busy(h)' \/ ~Untold(h, d)' =>
                     (\A n \in Names : n = Name(h) => Agrees(d, n)')
    <2>1. Calm(h) /\ Plan(h) /\ Heeds(d, Name(h))
      BY <1>1, <1>7 DEF Calm, FollowInv
    <2>2. handler[h].left = {c} => (Busy(h)' => ~Untold(h, d)')
      BY <1>1, <1>2, <1>3, <2>1, DoneFans
    <2>3. CASE at # "dispatchers"
      <3>1. ~Untold(h, d) /\ (Busy(h)' => ~Untold(h, d)')
        BY <1>1, <1>5, <2>2, <2>3 DEF Untold, Stays, FanOuts, Statements
      <3>2. Agrees(d, Name(h))
        BY <2>1, <3>1, HeedsAlone
      <3>3. \A n \in Names : n = Name(h) => Agrees(d, n)'
        BY <1>1, <1>3, <1>4, <2>3, <3>2, AgreesKept
      <3> QED
        BY <3>1, <3>3
    <2>4. CASE at = "dispatchers" /\ d # c
      <3>1. CASE Untold(h, d)
        <4>1. d \in handler[h].left /\ handler[h].left # {c}
          BY <1>1, <2>4, <3>1 DEF Untold, Statements
        <4>2. Untold(h, d)'
          <5>1. handler'[h].left = handler[h].left \ {c} /\ Stays(h) /\ d \in handler'[h].left
            BY <1>5, <2>4, <4>1
          <5> QED
            BY <1>1, <2>4, <3>1, <5>1 DEF Untold, Stays, Statements
        <4>3. Ready(h, d)'
          BY <1>1, <1>3, <1>4, <1>5, <2>1, <2>4, <3>1, <4>1, HeedsAlone, ReadyKept
        <4> QED
          BY <1>5, <4>1, <4>2, <4>3
      <3>2. CASE ~Untold(h, d)
        <4>1. Agrees(d, Name(h))
          BY <2>1, <3>2, HeedsAlone
        <4>2. \A n \in Names : n = Name(h) => Agrees(d, n)'
          BY <1>1, <1>3, <1>4, <2>4, <4>1, AgreesKept
        <4>3. Busy(h)' => ~Untold(h, d)'
          <5>1. CASE handler[h].left # {c}
            <6>1. handler'[h].left # None
              <7>1. handler[h].left \ {c} \in SUBSET (Settings \cup Dispatchers \cup Pushers)
                BY <1>1 DEF Working, Clients
              <7> QED
                BY <1>5, <5>1, <7>1, ControlAssumption DEF ControlAssumption
            <6> QED
              BY <1>1, <1>5, <2>4, <3>2, <5>1, <6>1 DEF Untold, Stays, Statements
          <5> QED
            BY <2>2, <5>1
        <4> QED
          BY <4>2, <4>3
      <3> QED
        BY <3>1, <3>2
    <2>5. CASE at = "dispatchers" /\ d = c
      <3>1. Busy(h)' => ~Untold(h, d)'
        <4>1. CASE handler[h].left # {c}
          <5>1. handler'[h].left # None /\ d \notin handler'[h].left
            <6>1. handler[h].left \ {c} \in SUBSET (Settings \cup Dispatchers \cup Pushers)
              BY <1>1 DEF Working, Clients
            <6> QED
              BY <1>5, <2>5, <4>1, <6>1, ControlAssumption DEF ControlAssumption
          <5> QED
            BY <1>5, <2>5, <4>1, <5>1 DEF Untold, Stays, Statements
        <4> QED
          BY <2>2, <4>1
      <3>2. ~Untold(h, d) => Agrees(d, Name(h))
        BY <2>1, HeedsAlone
      <3>3. Ready(h, d)
        BY <2>1, <2>5, <3>2, AgreesIsReady, HeedsAlone
      <3>4. handler[h].op \notin PushOps
        BY <2>1, <2>5 DEF Plan, Program, PushOps, SubOps
      <3>5. c \notin registered => ~Untold(h, d)
        BY <1>1, <2>5 DEF Untold, Statements
      <3>6. CASE UNCHANGED <<consumer, taskMap>> /\ c \notin registered
        <4>1. \A n \in Names : n = Name(h) => Agrees(d, n)'
          BY <1>1, <1>3, <3>2, <3>5, <3>6, AgreesKept
        <4> QED
          BY <3>1, <4>1
      <3>7. CASE DispatcherDoes(c, CallOf(h), handler[h].task)
        <4>1. \A n \in Names : n = Name(h) => Agrees(d, n)'
          BY <1>1, <2>1, <2>5, <3>3, <3>7, CalledAgrees
        <4> QED
          BY <3>1, <4>1
      <3> QED
        BY <1>4, <2>5, <3>6, <3>7
    <2> QED
      BY <2>3, <2>4, <2>5
  <1> HIDE DEF at
  <1> QED
    BY <1>1, <1>3, <1>4, <1>5, <1>6, <1>7, OneActs

-----------------------------------------------------------------------------
(* Requests.                                                                 *)

\* A request about a name nobody works on finds every dispatcher in agreement,
\* hence ready for what it asks.
LEMMA RequestFollows ==
    ASSUME FieldInv, FieldInv', FollowInv, NEW h \in Handlers, NEW op \in Ops,
           NEW i \in 0 .. MaxId, NEW t \in Tasks, Receive(h, op, i, t), toggled \subseteq toggled',
           op = "changeStat" => t.row.name \in toggled',
           op # "add" => i \in Listed(t.row.name),
           op = "update" /\ rows[i].sub => t.row.sub,
           op \in SubOps => t.row.sub = (op = "startSub") /\ t.fields = fields[i]
    PROVE  FollowInv'
  <1> DEFINE n == t.row.name
  <1>1. /\ \A k \in Handlers \ {h} : handler'[k] = handler[k]
        /\ ~Busy(h) /\ Busy(h)' /\ Name(h)' = n
        /\ handler'[h].op = op /\ handler'[h].id = i /\ handler'[h].at = First(op)
        /\ handler'[h].task = t
        /\ disturbed \subseteq disturbed'
        /\ Active(n) => n \in disturbed'
        /\ UNCHANGED <<store, up, blind, registered, consumer, taskMap>>
    <2>1. UNCHANGED <<store, up, blind, registered, consumer, taskMap>>
      BY DEF Receive, living, dispatching
    <2> QED
      BY <2>1, AskedParts DEF FieldInv
  <1>2. \A m : Untouched(m) /\ Listed(m)' = Listed(m)
    BY <1>1, StoreUntouched
  <1>3. \A k \in Handlers \ {h} : Busy(k)' = Busy(k) /\ Name(k)' = Name(k) /\ Stays(k)
    BY <1>1 DEF Busy, Name, Stays
  <1>4. /\ First(op) \notin {"insertRow", "insertFields"} \cup FanOuts
        /\ op # "add" => First(op) \in Statements \ {"nameExists", "insertRow"}
        /\ op = "add" => First(op) = "nameExists"
        /\ op = "delete" => First(op) = "deleteRow"
    BY DEF First, FanOuts, Statements, SubOps
  <1>5. Calm(h)' => Plan(h)'
    <2> SUFFICES ASSUME Calm(h)' PROVE Plan(h)'
      OBVIOUS
    <2>1. Program(h)'
      BY <1>1 DEF Program, First, Ops, SubOps, PushOps
    <2>2. ~Gone(h)' /\ (Present(h)' => op # "add")
      BY <1>1, <1>4 DEF Gone, Present
    <2>3. op # "add" => i \in Listed(n)' /\ rows'[i] = rows[i] /\ fields'[i] = fields[i]
      BY <1>1, <1>2 DEF store
    <2> HIDE DEF n
    <2>4. op = "update" => op # "add"
      OBVIOUS
    <2>5. op \in SubOps => op # "add"
      BY DEF SubOps
    <2>6. /\ handler'[h].op = "changeStat" => Name(h)' \in toggled'
          /\ handler'[h].op \in SubOps =>
                /\ handler'[h].task.row.sub = (handler'[h].op = "startSub")
                /\ fields'[handler'[h].id] = handler'[h].task.fields
          /\ handler'[h].op = "update" /\ rows'[handler'[h].id].sub => handler'[h].task.row.sub
          /\ handler'[h].at \notin {"insertFields"} \cup FanOuts
      BY <1>1, <1>4, <2>3, <2>4, <2>5 DEF n
    <2> QED
      BY <1>1, <2>1, <2>2, <2>3, <2>6 DEF Plan
  <1>6. ASSUME NEW k \in Handlers, Calm(k)'
        PROVE  Plan(k)'
    <2>1. CASE k = h
      BY <1>5, <1>6, <2>1
    <2>2. CASE k # h
      <3>1. Calm(k)
        BY <1>1, <1>3, <1>6, <2>2 DEF Calm
      <3> QED
        BY <1>2, <1>3, <2>2, <3>1, PlanKept DEF FollowInv
    <2> QED
      BY <2>1, <2>2
  <1>7. ASSUME NEW d \in Dispatchers \cap up, NEW m \in Names \ disturbed'
        PROVE  Heeds(d, m)'
    <2>1. Heeds(d, m)
      BY <1>1, <1>7 DEF FollowInv
    <2>2. CASE m # n
      <3>1. \A k \in Handlers : About(k, m) \/ About(k, m)' => k # h /\ Calm(k)
        BY <1>1, <1>3, <1>7, <2>2 DEF About, Calm, Name
      <3>2. \A k \in Handlers : About(k, m) \/ About(k, m)' =>
               About(k, m) /\ About(k, m)' /\ Plan(k) /\ Stays(k) /\ Untold(k, d)' = Untold(k, d)
        BY <1>1, <1>3, <3>1 DEF About, FollowInv, Name, Untold
      <3> QED
        BY <1>1, <1>2, <2>1, <3>2, HeedsKept
    <2>3. CASE m = n
      <3>1. Calm(h)' /\ Name(h)' = m /\ \A k \in Handlers : ~About(k, m)
        BY <1>1, <1>7, <2>3 DEF Calm, Active
      <3>2. Agrees(d, m)
        BY <2>1, <3>1 DEF Heeds
      <3>3. Agrees(d, m)'
        BY <1>1, <1>2, <3>2, AgreesKept
      <3>4. Untold(h, d)' => Ready(h, d)'
        <4> SUFFICES ASSUME Untold(h, d)', m \notin toggled'
                     PROVE  /\ op = "startSub" => consumer[d][m] \in {None, fields[i]}
                            /\ op \in {"add", "update"} /\ ~t.row.sub => consumer[d][m] = None
          BY <1>1, <3>1 DEF Ready, store
        <4>1. op # "add"
          BY <1>1, <1>4 DEF Untold
        <4>2. i \in Listed(m) /\ consumer[d][m] = IF rows[i].sub THEN fields[i] ELSE None
          BY <2>3, <3>2, <4>1 DEF Agrees
        <4> QED
          BY <4>1, <4>2
      <3>5. \A k \in Handlers : About(k, m)' => k = h
        BY <3>1 DEF FieldInv, NameInv, OneHandler, About, Name
      <3> QED
        BY <3>3, <3>4, <3>5 DEF Heeds
    <2> QED
      BY <2>2, <2>3
  <1>8. (up \cap blind = {})'
    BY <1>1 DEF FollowInv
  <1> QED
    BY <1>1, <1>6, <1>7, <1>8 DEF FollowInv

\* The handlers' requests, each with the task it has made of a form or a row.
LEMMA RequestsFollow ==
    ASSUME FieldInv, FieldInv', FollowInv, NEW h \in Handlers,
           \/ \E n \in Names, s \in Settings, b \in BOOLEAN : doAddTask(h, n, s, b)
           \/ \E i \in Ids, s \in Settings, b \in BOOLEAN : doUpdateTask(h, i, s, b)
           \/ \E i \in Ids, b \in BOOLEAN : changeTaskStat(h, i, b)
           \/ \E i \in Ids, op \in {"delete"} \cup SubOps \cup PushOps : doSimple(h, op, i)
    PROVE  FollowInv'
  <1>1. StoreTypes /\ ControlAssumption
    BY TypeParts, ControlAssumption DEF FieldInv, NameInv
  <1>2. ASSUME NEW n \in Names, NEW s \in Settings, NEW b \in BOOLEAN, doAddTask(h, n, s, b)
        PROVE  FollowInv'
    <2> DEFINE t == [id |-> 0, fields |-> {s},
                     row |-> copyTask([name |-> n, stat |-> FALSE, sub |-> FALSE, push |-> FALSE], b)]
    <2>1. t \in Tasks /\ 0 \in 0 .. MaxId /\ "add" \in Ops /\ "add" \notin SubOps
      BY <1>1, FormsAreTyped DEF ControlAssumption, Ops, SubOps
    <2>2. Receive(h, "add", 0, t) /\ toggled' = toggled
      BY <1>2 DEF doAddTask
    <2> HIDE DEF t
    <2> QED
      BY <2>1, <2>2, RequestFollows
  <1>3. ASSUME NEW i \in Ids, NEW op \in Ops \ {"add"}, NEW S \in SUBSET Settings, NEW b \in BOOLEAN,
               rows[i] # None,
               Receive(h, op, i, [id |-> i, fields |-> S, row |-> Requested(op, rows[i], b)]),
               toggled \subseteq toggled', op = "changeStat" => rows[i].name \in toggled',
               op \in SubOps => S = fields[i]
        PROVE  FollowInv'
    <2> DEFINE t == [id |-> i, fields |-> S, row |-> Requested(op, rows[i], b)]
    <2>1. t \in Tasks /\ i \in 0 .. MaxId /\ op \in Ops
      BY <1>1, <1>3, RequestsAreTyped DEF Ids
    <2>2. t.row.name = rows[i].name /\ t.fields = S
      BY <1>1, <1>3, RequestsKeepNames
    <2>3. i \in Listed(t.row.name)
      BY <1>3, <2>2 DEF Listed
    <2>4. rows[i] \in Rows
      BY <1>1, <1>3 DEF StoreTypes
    <2>5. /\ op = "update" /\ rows[i].sub => t.row.sub
          /\ op \in SubOps => t.row.sub = (op = "startSub")
      <3>1. CASE op = "update"
        BY <2>4, <3>1 DEF Requested, copyTask, SubOps, Rows
      <3>2. CASE op \in SubOps
        <4>1. t.row = [rows[i] EXCEPT !.sub = (op = "startSub")]
          BY <3>2 DEF Requested, SubOps, PushOps
        <4>2. t.row.sub = (op = "startSub")
          BY <2>4, <4>1 DEF Rows
        <4> QED
          BY <3>2, <4>2 DEF SubOps
      <3> QED
        BY <3>1, <3>2
    <2>6. Receive(h, op, i, t)
      BY <1>3
    <2> HIDE DEF t
    <2> QED
      BY <1>3, <2>1, <2>2, <2>3, <2>5, <2>6, RequestFollows
  <1>4. \A i \in Ids : fields[i] \in SUBSET Settings
    BY <1>1 DEF StoreTypes
  <1>5. ASSUME NEW i \in Ids, NEW s \in Settings, NEW b \in BOOLEAN, doUpdateTask(h, i, s, b)
        PROVE  FollowInv'
    <2>1. "update" \in Ops \ {"add"} /\ "update" \notin SubOps /\ {s} \in SUBSET Settings
      BY DEF Ops, SubOps
    <2> QED
      BY <1>3, <1>5, <2>1 DEF doUpdateTask
  <1>6. ASSUME NEW i \in Ids, NEW b \in BOOLEAN, changeTaskStat(h, i, b)
        PROVE  FollowInv'
    <2>1. "changeStat" \in Ops \ {"add"}
      BY DEF Ops
    <2> QED
      BY <1>3, <1>4, <1>6, <2>1 DEF changeTaskStat
  <1>7. ASSUME NEW i \in Ids, NEW op \in {"delete"} \cup SubOps \cup PushOps, doSimple(h, op, i)
        PROVE  FollowInv'
    <2>1. op \in Ops \ {"add"} /\ op # "changeStat"
      BY DEF Ops, SubOps, PushOps
    <2> QED
      BY <1>3, <1>4, <1>7, <2>1 DEF doSimple
  <1> QED
    BY <1>2, <1>5, <1>6, <1>7

-----------------------------------------------------------------------------
(* Processes that go and come.                                               *)

\* What the list of tasks says of a name.
LEMMA FreshLists ==
    ASSUME FieldInv, NEW n \in Names, n \notin disturbed
    PROVE  /\ Listed(n) = {} => InitTasks[n] = None /\ InitConsumers[n] = None
           /\ \A i \in Listed(n) :
                 /\ InitTasks[n] = fields[i]
                 /\ InitConsumers[n] = IF rows[i].sub THEN Fetched(fields[i]) ELSE None
  <1>1. Listed(n) = {} => InitTasks[n] = None /\ InitConsumers[n] = None
    BY DEF InitTasks, InitConsumers
  <1>2. ASSUME NEW i \in Listed(n)
        PROVE  /\ InitTasks[n] = fields[i]
               /\ InitConsumers[n] = IF rows[i].sub THEN Fetched(fields[i]) ELSE None
    <2>1. \A j \in Listed(n) : j = i
      BY ListedOnce
    <2>2. (CHOOSE j \in Listed(n) : TRUE) = i
      BY <2>1
    <2>3. rows[i].sub => (CHOOSE j \in Listed(n) : rows[j].sub) = i
      BY <2>1
    <2>4. (\E j \in Listed(n) : rows[j].sub) <=> rows[i].sub
      BY <2>1
    <2>5. InitTasks[n] = fields[i]
      BY <2>2 DEF InitTasks
    <2>6. InitConsumers[n] = IF rows[i].sub THEN Fetched(fields[i]) ELSE None
      BY <2>3, <2>4 DEF InitConsumers
    <2> QED
      BY <2>5, <2>6
  <1> QED
    BY <1>1, <1>2

\* A step that moves no handler and changes no row keeps what handlers know.
LEMMA PlansKept ==
    ASSUME FollowInv, UNCHANGED <<store, toggled>>, disturbed \subseteq disturbed',
           \A k \in Handlers : Busy(k)' => Busy(k) /\ Stays(k)
    PROVE  \A k \in Handlers : Calm(k)' => Plan(k)'
  <1> SUFFICES ASSUME NEW k \in Handlers, Calm(k)' PROVE Plan(k)'
    OBVIOUS
  <1>1. Calm(k) /\ Stays(k)
    BY DEF Calm, Stays, Name
  <1>2. Untouched(Name(k))
    BY StoreUntouched
  <1> QED
    BY <1>1, <1>2, PlanKept DEF FollowInv

\* A client that registers may be called: a dispatcher that it concerns heeds
\* the database already, and the call leaves it so.
LEMMA JoinHeeds ==
    ASSUME FieldInv, FieldInv', FollowInv, NEW c, Joins(c), UNCHANGED <<store, toggled>>,
           registered' = registered \cup {c}, NEW d, NEW n, n \notin disturbed, n \notin disturbed',
           Heeds(d, n), consumer'[d][n] = consumer[d][n], taskMap'[d][n] = taskMap[d][n]
    PROVE  Heeds(d, n)'
  <1>1. Untouched(n)
    BY StoreUntouched
  <1>2. HandlerTypes
    BY TypeParts DEF FieldInv, NameInv
  <1>3. \A k \in Handlers : (About(k, n)' <=> About(k, n)) /\ (About(k, n) => Stays(k))
    <2> SUFFICES ASSUME NEW k \in Handlers
                 PROVE  (About(k, n)' <=> About(k, n)) /\ (About(k, n) => Stays(k))
      OBVIOUS
    <2>1. (Busy(k)' <=> Busy(k)) /\ (Busy(k) => Stays(k))
      BY <1>2, JoinsFacts
    <2> QED
      BY <2>1 DEF About, Stays
  <1>4. CASE \E h \in Handlers : About(h, n)
    <2>1. PICK h \in Handlers : About(h, n)
      BY <1>4
    <2>2. Calm(h) /\ Plan(h) /\ Name(h) = n /\ Stays(h) /\ About(h, n)' /\ Calm(h)' /\ Name(h)' = n
      BY <1>3, <2>1 DEF About, Calm, Name, FollowInv
    <2>3. \/ handler'[h] = handler[h]
          \/ handler[h].left # None /\ handler'[h].left = handler[h].left \cup {c}
      BY <1>2, JoinsFacts
    <2>4. Untold(h, d) => Untold(h, d)'
      BY <2>2, <2>3 DEF Untold, Stays
    <2>5. Untold(h, d)' => Untold(h, d) \/ handler[h].at = "dispatchers"
      BY <2>2 DEF Untold, Stays
    <2>6. Untold(h, d) => Ready(h, d)
      BY <2>2, HeedsAlone
    <2>7. ~Untold(h, d) => Agrees(d, n)
      BY <2>2, HeedsAlone
    <2>8. Untold(h, d)' => Ready(h, d)'
      <3>1. Untold(h, d)' => Ready(h, d)
        BY <2>2, <2>5, <2>6, <2>7, AgreesIsReady
      <3> QED
        BY <1>1, <2>2, <3>1, ReadyKept
    <2>9. ~Untold(h, d)' => Agrees(d, n)'
      BY <1>1, <2>4, <2>7, AgreesKept
    <2>10. \A k \in Handlers : About(k, n)' => k = h
      BY <2>2 DEF FieldInv, NameInv, OneHandler, About, Name
    <2> QED
      BY <2>2, <2>8, <2>9, <2>10 DEF Heeds
  <1>5. CASE \A h \in Handlers : ~About(h, n)
    <2>1. Agrees(d, n)'
      BY <1>1, <1>5, AgreesKept DEF Heeds
    <2> QED
      BY <1>3, <1>5, <2>1 DEF Heeds
  <1> QED
    BY <1>4, <1>5

\* Registrations, and pushers that start.
LEMMA RegisterFollows ==
    ASSUME FieldInv, FieldInv', FollowInv, NEW c \in Clients,
           Register(c) \/ (c \in Pushers /\ StartPusher(c))
    PROVE  FollowInv'
  <1>1. /\ Joins(c) /\ UNCHANGED <<store, toggled, consumer, taskMap>>
        /\ registered' = registered \cup {c} /\ disturbed \subseteq disturbed'
        /\ up' = up \/ (up' = up \cup {c} /\ c \notin blind)
        /\ blind' = blind /\ (c \in Dispatchers => up' = up)
    <2>1. CASE Register(c)
      BY <2>1 DEF Register, dispatching, history
    <2>2. CASE c \in Pushers /\ StartPusher(c)
      <3>1. c \notin Dispatchers
        BY <2>2, ControlAssumption DEF ControlAssumption
      <3>2. disturbed \subseteq disturbed'
        BY <2>2 DEF StartPusher
      <3>3. /\ Joins(c) /\ UNCHANGED <<store, toggled, consumer, taskMap>>
            /\ registered' = registered \cup {c} /\ up' = up \cup {c}
            /\ c \notin blind /\ blind' = blind
        BY <2>2 DEF StartPusher, dispatching
      <3> QED
        BY <3>1, <3>2, <3>3
    <2> QED
      BY <2>1, <2>2
  <1>2. \A k \in Handlers : Busy(k)' => Busy(k) /\ Stays(k)
    BY <1>1, JoinsFacts, TypeParts DEF FieldInv, NameInv
  <1>3. \A k \in Handlers : Calm(k)' => Plan(k)'
    BY <1>1, <1>2, PlansKept
  <1>4. ASSUME NEW d \in Dispatchers \cap up', NEW n \in Names \ disturbed'
        PROVE  Heeds(d, n)'
    <2>1. d \in up /\ n \notin disturbed
      BY <1>1, <1>4
    <2>2. Heeds(d, n)
      BY <1>4, <2>1 DEF FollowInv
    <2> QED
      BY <1>1, <1>4, <2>1, <2>2, JoinHeeds
  <1>5. (up \cap blind = {})'
    BY <1>1 DEF FollowInv
  <1> QED
    BY <1>3, <1>4, <1>5 DEF FollowInv

\* A client that has gone is not asked to agree.
LEMMA CrashFollows ==
    ASSUME FieldInv, FollowInv, NEW c \in Clients, Crash(c)
    PROVE  FollowInv'
  <1>1. /\ UNCHANGED <<store, handler, toggled, consumer, taskMap>> /\ disturbed' = disturbed
        /\ up' = up \ {c} /\ blind' = blind \ {c} /\ registered' = registered \ {c}
    BY DEF Crash, Fault, dispatching
  <1>2. \A k \in Handlers : (Busy(k)' <=> Busy(k)) /\ Stays(k) /\ (\A n : About(k, n)' <=> About(k, n))
    BY <1>1 DEF Busy, Stays, About
  <1>3. \A k \in Handlers : Calm(k)' => Plan(k)'
    BY <1>1, <1>2, PlansKept
  <1>4. ASSUME NEW d \in Dispatchers \cap up', NEW n \in Names \ disturbed'
        PROVE  Heeds(d, n)'
    <2>1. Heeds(d, n) /\ Untouched(n) /\ d # c
      BY <1>1, <1>4, StoreUntouched DEF FollowInv
    <2>2. \A k \in Handlers : About(k, n) => Plan(k)
      BY <1>1, <1>4 DEF FollowInv, Calm, About, Name
    <2>3. \A k \in Handlers : Untold(k, d)' = Untold(k, d)
      BY <1>1, <2>1 DEF Untold
    <2> QED
      BY <1>1, <1>2, <2>1, <2>2, <2>3, HeedsKept
  <1>5. (up \cap blind = {})'
    BY <1>1 DEF FollowInv
  <1> QED
    BY <1>1, <1>3, <1>4, <1>5 DEF FollowInv

\* A dispatcher that starts in the middle of a request has what the rows show,
\* and will be called, or comes after the last statement and agrees.
LEMMA StartFollows ==
    ASSUME FieldInv, FieldInv', FollowInv, NEW c \in Dispatchers, StartDispatcher(c)
    PROVE  FollowInv'
  <1>1. /\ UNCHANGED <<store, handler, registered, toggled>> /\ disturbed \subseteq disturbed'
        /\ up' = up \cup {c} /\ blind' = blind /\ c \notin blind
        /\ taskMap'[c] = InitTasks
        /\ \A n \in Names \ disturbed' : consumer'[c][n] = InitConsumers[n]
        /\ \A d \in Dispatchers \ {c} : taskMap'[d] = taskMap[d] /\ consumer'[d] = consumer[d]
    <2>1. ProcessTypes
      BY TypeParts DEF FieldInv, NameInv
    <2>2. PICK skipped \in SUBSET Names :
             /\ consumer' = [consumer EXCEPT ![c] =
                   [n \in Names |-> IF n \in skipped THEN None ELSE InitConsumers[n]]]
             /\ disturbed' = disturbed \cup skipped
      BY DEF StartDispatcher
    <2> QED
      BY <2>1, <2>2 DEF StartDispatcher, ProcessTypes
  <1>2. \A k \in Handlers : (Busy(k)' <=> Busy(k)) /\ Stays(k) /\ (\A n : About(k, n)' <=> About(k, n))
    BY <1>1 DEF Busy, Stays, About
  <1>3. \A k \in Handlers : Calm(k)' => Plan(k)'
    BY <1>1, <1>2, PlansKept
  <1>4. \A k \in Handlers : \A d : Untold(k, d)' = Untold(k, d)
    BY <1>1 DEF Untold
  <1>5. ASSUME NEW d \in Dispatchers \cap up', NEW n \in Names \ disturbed'
        PROVE  Heeds(d, n)'
    <2>1. /\ n \notin disturbed
          /\ \A k \in Handlers : About(k, n) => Plan(k) /\ Calm(k) /\ Name(k) = n
          /\ Listed(n)' = Listed(n) /\ rows' = rows /\ fields' = fields
      BY <1>1, <1>5, StoreUntouched DEF FollowInv, Calm, About, Name, store
    <2>2. CASE d # c
      <3>1. Heeds(d, n) /\ Untouched(n)
        BY <1>1, <1>5, <2>2, StoreUntouched DEF FollowInv
      <3> QED
        BY <1>1, <1>2, <1>4, <2>1, <2>2, <3>1, HeedsKept
    <2>3. CASE d = c
      <3>1. ASSUME NEW h \in Handlers, About(h, n), Untold(h, d)
            PROVE  Ready(h, d)'
        <4> DEFINE i == handler[h].id
        <4>1. SUFFICES ASSUME n \notin toggled'
                       PROVE  /\ handler[h].op = "startSub" => InitConsumers[n] \in {None, fields[i]}
                              /\ handler[h].op \in {"add", "update"} /\ ~handler[h].task.row.sub =>
                                    InitConsumers[n] = None
          BY <1>1, <1>5, <2>1, <2>3, <3>1 DEF Ready, Name
        <4>2. handler[h].op = "startSub" \/ handler[h].op \in {"add", "update"} => i \in Listed(n)
          BY <2>1, <3>1 DEF Plan, Present, Untold, Program, SubOps, FanOuts, Statements
        <4>3. i \in Listed(n) => InitConsumers[n] = IF rows[i].sub THEN Fetched(fields[i]) ELSE None
          BY <1>5, <2>1, FreshLists
        <4>4. handler[h].op \in {"add", "update"} /\ rows[i].sub => handler[h].task.row.sub
          <5>1. CASE handler[h].op = "add"
            <6>1. handler[h].at \in {"insertFields"} \cup FanOuts
              BY <2>1, <3>1, <5>1 DEF Plan, Untold, Program, SubOps, FanOuts, Statements
            <6> QED
              BY <2>1, <3>1, <5>1, <6>1 DEF Plan
          <5>2. CASE handler[h].op = "update"
            <6>1. handler[h].at \in {"deleteFields", "updateRow"} \cup {"insertFields"} \cup FanOuts
              BY <2>1, <3>1, <5>2 DEF Plan, Program, SubOps
            <6> QED
              BY <2>1, <3>1, <5>2, <6>1 DEF Plan
          <5> QED
            BY <5>1, <5>2
        <4> HIDE DEF i
        <4> QED
          BY <4>2, <4>3, <4>4 DEF Fetched
      <3>2. ASSUME \A k \in Handlers : About(k, n) => ~Untold(k, d)
            PROVE  Agrees(d, n)'
        <4>1. \A k \in Handlers : About(k, n) => handler[k].at \notin Emptied
          <5> SUFFICES ASSUME NEW k \in Handlers, About(k, n), handler[k].at \in Emptied PROVE FALSE
            OBVIOUS
          <5>1. handler[k].op \in PushOps
            BY <3>2 DEF Untold, Emptied, Statements
          <5> QED
            BY <2>1, <5>1 DEF Plan, Program, PushOps, SubOps, Emptied
        <4>2. \A i \in Listed(n) : Fetched(fields[i]) = fields[i]
          BY <2>1, <4>1, FieldsThere
        <4>3. /\ consumer'[d][n] = InitConsumers[n] /\ taskMap'[d][n] = InitTasks[n]
          BY <1>1, <1>5, <2>3
        <4> QED
          BY <1>5, <2>1, <4>2, <4>3, FreshLists DEF Agrees
      <3> QED
        BY <1>2, <1>4, <3>1, <3>2 DEF Heeds
    <2> QED
      BY <2>2, <2>3
  <1>6. (up \cap blind = {})'
    BY <1>1 DEF FollowInv
  <1> QED
    BY <1>3, <1>5, <1>6 DEF FollowInv

\* Nobody asks a process that starts without the list of tasks to agree.
LEMMA BlindFollows ==
    ASSUME FieldInv, FollowInv, NEW c \in Clients, StartBlind(c)
    PROVE  FollowInv'
  <1>1. /\ UNCHANGED <<store, handler, up, registered, toggled>> /\ disturbed' = disturbed
        /\ blind' = blind \cup {c} /\ c \notin up
        /\ \A d \in Dispatchers \ {c} : taskMap'[d] = taskMap[d] /\ consumer'[d] = consumer[d]
    <2>1. ProcessTypes
      BY TypeParts DEF FieldInv, NameInv
    <2> QED
      BY <2>1 DEF StartBlind, history, dispatching, ProcessTypes
  <1>2. \A k \in Handlers : (Busy(k)' <=> Busy(k)) /\ Stays(k) /\ (\A n : About(k, n)' <=> About(k, n))
    BY <1>1 DEF Busy, Stays, About
  <1>3. \A k \in Handlers : Calm(k)' => Plan(k)'
    BY <1>1, <1>2, PlansKept
  <1>4. ASSUME NEW d \in Dispatchers \cap up', NEW n \in Names \ disturbed'
        PROVE  Heeds(d, n)'
    <2>1. Heeds(d, n) /\ Untouched(n) /\ d # c
      BY <1>1, <1>4, StoreUntouched DEF FollowInv
    <2>2. \A k \in Handlers : About(k, n) => Plan(k)
      BY <1>1, <1>4 DEF FollowInv, Calm, About, Name
    <2>3. \A k \in Handlers : Untold(k, d)' = Untold(k, d)
      BY <1>1, <2>1 DEF Untold
    <2> QED
      BY <1>1, <1>2, <1>4, <2>1, <2>2, <2>3, HeedsKept
  <1>5. (up \cap blind = {})'
    BY <1>1 DEF FollowInv
  <1> QED
    BY <1>3, <1>4, <1>5 DEF FollowInv

\* The requests that the monitor's crash ends have disturbed their names.
LEMMA MonitorCrashFollows ==
    ASSUME FollowInv, MonitorCrash
    PROVE  FollowInv'
  <1>1. /\ UNCHANGED <<store, up, blind, toggled, consumer, taskMap>> /\ registered' = {}
        /\ disturbed' = disturbed \cup {n \in Names : Active(n)}
        /\ \A k \in Handlers : ~Busy(k)'
    BY DEF MonitorCrash, Fault, dispatching, Busy
  <1>2. \A k \in Handlers : Calm(k)' => Plan(k)'
    BY <1>1 DEF Calm
  <1>3. ASSUME NEW d \in Dispatchers \cap up, NEW n \in Names \ disturbed'
        PROVE  Heeds(d, n)'
    <2>1. Heeds(d, n) /\ Untouched(n) /\ \A k \in Handlers : ~About(k, n)
      BY <1>1, <1>3, StoreUntouched DEF FollowInv, Active
    <2>2. \A k \in Handlers : ~About(k, n)'
      BY <1>1 DEF About
    <2> QED
      BY <1>1, <2>1, <2>2, HeedsKept
  <1> QED
    BY <1>1, <1>2, <1>3 DEF FollowInv

\* Nothing happens.
LEMMA StutterFollows ==
    ASSUME FollowInv, UNCHANGED vars
    PROVE  FollowInv'
  <1>1. UNCHANGED <<store, handler, up, blind, registered, toggled, disturbed, consumer, taskMap>>
    BY DEF vars, living, dispatching, history
  <1>2. \A k \in Handlers : (Busy(k)' <=> Busy(k)) /\ Stays(k) /\ (\A n : About(k, n)' <=> About(k, n))
    BY <1>1 DEF Busy, Stays, About
  <1>3. \A k \in Handlers : Calm(k)' => Plan(k)'
    BY <1>1, <1>2, PlansKept
  <1>4. ASSUME NEW d \in Dispatchers \cap up, NEW n \in Names \ disturbed
        PROVE  Heeds(d, n)'
    <2>1. Heeds(d, n) /\ Untouched(n)
      BY <1>1, <1>4, StoreUntouched DEF FollowInv
    <2>2. \A k \in Handlers : About(k, n) => Plan(k)
      BY <1>4 DEF FollowInv, Calm, About, Name
    <2>3. \A k \in Handlers : Untold(k, d)' = Untold(k, d)
      BY <1>1 DEF Untold
    <2> QED
      BY <1>1, <1>2, <2>1, <2>2, <2>3, HeedsKept
  <1> QED
    BY <1>1, <1>3, <1>4 DEF FollowInv

-----------------------------------------------------------------------------
(* The invariant, and what follows from it.                                  *)

\* Every step keeps the invariant.
LEMMA FollowStep ==
    ASSUME FieldInv, FieldInv', Aimed, FollowInv, [Next]_vars
    PROVE  FollowInv'
  <1>1. ASSUME NEW h \in Handlers, NEW n \in Names, NEW s \in Settings, NEW b \in BOOLEAN,
              doAddTask(h, n, s, b)
        PROVE  FollowInv'
    BY <1>1, RequestsFollow
  <1>2. ASSUME NEW h \in Handlers, NEW i \in Ids, NEW s \in Settings, NEW b \in BOOLEAN,
              doUpdateTask(h, i, s, b)
        PROVE  FollowInv'
    BY <1>2, RequestsFollow
  <1>3. ASSUME NEW h \in Handlers, NEW i \in Ids, NEW b \in BOOLEAN, changeTaskStat(h, i, b)
        PROVE  FollowInv'
    BY <1>3, RequestsFollow
  <1>4. ASSUME NEW h \in Handlers, NEW i \in Ids, NEW op \in {"delete"} \cup SubOps \cup PushOps,
              doSimple(h, op, i)
        PROVE  FollowInv'
    BY <1>4, RequestsFollow
  <1>5. ASSUME NEW h \in Handlers, NameExists(h) PROVE FollowInv'
    BY <1>5, NameExistsFollows
  <1>6. ASSUME NEW h \in Handlers, Insert(h) PROVE FollowInv'
    BY <1>6, InsertFollows
  <1>7. ASSUME NEW h \in Handlers, InsertFields(h) \/ DeleteFields(h) PROVE FollowInv'
    BY <1>7, FieldsFollow
  <1>8. ASSUME NEW h \in Handlers, UpdateRow(h) PROVE FollowInv'
    BY <1>8, UpdateFollows
  <1>9. ASSUME NEW h \in Handlers, DeleteRow(h) PROVE FollowInv'
    BY <1>9, DeleteFollows
  <1>10. ASSUME NEW h \in Handlers,
                StatementFails(h) \/ \E c \in Clients : CallFails(h, c) \/ CallUnserved(h, c)
         PROVE  FollowInv'
    BY <1>10, FaultsFollow
  <1>11. ASSUME NEW h \in Handlers, Iter(h) PROVE FollowInv'
    BY <1>11, IterFollows
  <1>12. ASSUME NEW h \in Handlers, NEW c \in Clients, Call(h, c) \/ Panics(h, c) PROVE FollowInv'
    BY <1>12, CallFollows
  <1>13. ASSUME NEW c \in Clients, Crash(c) PROVE FollowInv'
    BY <1>13, CrashFollows
  <1>14. ASSUME NEW c \in Clients, Register(c) PROVE FollowInv'
    BY <1>14, RegisterFollows
  <1>15. ASSUME NEW d \in Dispatchers, StartDispatcher(d) PROVE FollowInv'
    BY <1>15, StartFollows
  <1>16. ASSUME NEW p \in Pushers, StartPusher(p) PROVE FollowInv'
    BY <1>16, RegisterFollows DEF Clients
  <1>17. CASE MonitorCrash
    BY <1>17, MonitorCrashFollows
  <1>18. CASE UNCHANGED vars
    BY <1>18, StutterFollows
  <1>19. ASSUME NEW c \in Clients, StartBlind(c) PROVE FollowInv'
    BY <1>19, BlindFollows
  <1> QED
    BY <1>1, <1>2, <1>3, <1>4, <1>5, <1>6, <1>7, <1>8, <1>9, <1>10,
       <1>11, <1>12, <1>13, <1>14, <1>15, <1>16, <1>17, <1>18, <1>19 DEF Next

\* The processes have started from the list of tasks.
LEMMA InitFollow ==
    ASSUME Init
    PROVE  Aimed /\ FollowInv
  <1>1. /\ \A h \in Handlers : ~Busy(h)
        /\ registered = Clients /\ up = Clients /\ blind = {}
    BY DEF Init, Busy
  <1>2. FieldInv
    BY InitFieldInv
  <1>3. ASSUME NEW d \in Dispatchers, NEW n \in Names, n \notin disturbed
        PROVE  Heeds(d, n)
    <2>1. \A k \in Handlers : ~About(k, n)
      BY <1>1 DEF About
    <2>2. \A i \in Listed(n) : Fetched(fields[i]) = fields[i]
      BY <1>2, <1>3, <2>1, FieldsThere
    <2>3. consumer[d][n] = InitConsumers[n] /\ taskMap[d][n] = InitTasks[n]
      BY DEF Init
    <2>4. Agrees(d, n)
      BY <1>2, <1>3, <2>2, <2>3, FreshLists DEF Agrees
    <2> QED
      BY <2>1, <2>4 DEF Heeds
  <1> QED
    BY <1>1, <1>3 DEF Aimed, FollowInv, Calm

\* Each undisturbed name is heeded, in every reachable state.
THEOREM FollowInvariant == Spec => [](FieldInv /\ Aimed /\ FollowInv)
  <1>1. Init => FieldInv /\ Aimed /\ FollowInv
    BY InitFieldInv, InitFollow
  <1>2. FieldInv /\ Aimed /\ FollowInv /\ [Next]_vars => (FieldInv /\ Aimed /\ FollowInv)'
    <2> SUFFICES ASSUME FieldInv, Aimed, FollowInv, [Next]_vars
                 PROVE  FieldInv' /\ Aimed' /\ FollowInv'
      OBVIOUS
    <2>1. FieldInv'
      BY FieldInvStep
    <2>2. Aimed'
      BY AimedStep, TypeParts DEF FieldInv, NameInv
    <2> QED
      BY <2>1, <2>2, FollowStep
  <1> QED
    BY <1>1, <1>2, PTL DEF Spec

\* When the requests about an undisturbed task are done, each registered
\* dispatcher consumes what the database shows, with its settings.
THEOREM DispatchersFollowTheDatabase == Spec => []DispatchersFollow
  <1>1. FieldInv /\ Aimed /\ FollowInv => DispatchersFollow
    <2> SUFFICES ASSUME FieldInv, FollowInv, NEW d \in Dispatchers \cap registered \cap up, NEW i \in Ids,
                        Exists(i), Settled(rows[i].name), rows[i].name \notin toggled
                 PROVE  /\ consumer[d][rows[i].name] = IF rows[i].sub THEN fields[i] ELSE None
                        /\ rows[i].sub => taskMap[d][rows[i].name] = fields[i]
      BY DEF DispatchersFollow
    <2> DEFINE n == rows[i].name
    <2>1. n \in Names /\ i \in Listed(n)
      BY DEF FieldInv, NameInv, TypeOK, Rows, Exists, Listed
    <2>2. Heeds(d, n) /\ \A h \in Handlers : ~About(h, n)
      BY <2>1 DEF FollowInv, Settled, Active
    <2>3. Agrees(d, n)
      BY <2>2 DEF Heeds
    <2> QED
      BY <2>1, <2>3 DEF Agrees
  <1> QED
    BY <1>1, FollowInvariant, PTL

-----------------------------------------------------------------------------
(* The pushers.  The same argument, with other calls: a task's calls to the *)
(* pushers come last, changeTaskStat makes none, and a pusher remembers     *)
(* settings by the task's id.                                               *)

\* The fan-out at which a request reaches the pushers for good: an added task is
\* unknown to a pusher until AddTask.
Final(h) == IF handler[h].op = "add" THEN "pushersAdd" ELSE "pushers"

\* The id a request sends is the one it works on, or 0 until Add has set it.
OwnId(h) ==
    /\ handler[h].task.id \in {0, handler[h].id}
    /\ handler[h].at \in {"nameExists", "insertRow"} => handler[h].op = "add" /\ handler[h].task.id = 0
    /\ handler[h].at = "pushersAdd" => handler[h].op = "add"
    /\ handler[h].op # "add" => handler[h].id \in Ids /\ handler[h].task.id = handler[h].id
TaskIds == \A h \in Handlers : Busy(h) => OwnId(h)

\* What the handler of an undisturbed name knows besides.
PushPlan(h) ==
    LET op == handler[h].op
        at == handler[h].at
        i  == handler[h].id
        t  == handler[h].task
    IN  /\ op = "add" /\ at \in FanOuts => t.id = i
        /\ op = "changeStat" => rows[i].push = t.row.push
        /\ op = "changeStat" /\ at = "dispatchers" => fields[i] = t.fields
        /\ op \in {"add", "update"} /\ at \in {"insertFields"} \cup FanOuts => rows[i].push = t.row.push
        /\ op \in PushOps => fields[i] = t.fields

\* The pusher has of the name what the rows show.
Knows(p, n) ==
    /\ Listed(n) = {} => receiver[p][n] = "none"
    /\ \A i \in Listed(n) :
          /\ receiver[p][n] # "none" /\ taskIdMap[p][i] # None
          /\ rows[i].push => taskIdMap[p][i] = fields[i]

\* The handler is still to call the pusher, to find out that it need not, or to
\* write the fields as they were.
Unaware(h, p) ==
    \/ handler[h].op \notin SubOps /\ handler[h].at \in Statements \ {"nameExists", "insertRow"}
    \/ /\ handler[h].op \in {"add", "update", "delete"} \cup PushOps
       /\ \/ handler[h].at \in FanOuts \ {Final(h)}
          \/ /\ handler[h].at = Final(h)
             /\ handler[h].left = None \/ p \in handler[h].left \cap registered

\* The pusher will know once the handler has called it: only a task it has can be
\* updated, started or stopped, and it forgets one only if it has a consumer.
Fit(h, p) ==
    LET i == handler[h].id
        t == handler[h].task
    IN  /\ handler[h].op \in {"update", "changeStat"} \cup PushOps =>
              receiver[p][Name(h)] # "none" /\ taskIdMap[p][i] # None
        /\ handler[h].op = "changeStat" /\ t.row.push => taskIdMap[p][i] = t.fields
        /\ handler[h].op = "delete" /\ receiver[p][Name(h)] = "none" => taskIdMap[p][i] = None

\* The pusher has forgotten the task that was deleted.
Dropped(h, p) == handler[h].op = "delete" => taskIdMap[p][handler[h].id] = None

\* The pusher is fit for the handler of the name, or knows it.
Mind(h, p, n) == IF Unaware(h, p) THEN Fit(h, p) ELSE Dropped(h, p) /\ Knows(p, n)
Minds(p, n) ==
    /\ \A h \in Handlers : About(h, n) => Mind(h, p, n)
    /\ (\A h \in Handlers : ~About(h, n)) => Knows(p, n)

\* The invariant of the pushers.
KnowInv ==
    /\ \A h \in Handlers : Calm(h) => PushPlan(h)
    /\ \A p \in Pushers \cap up, n \in Names \ disturbed : Minds(p, n)

\* A request that ends has deleted what it was to delete.
Ends ==
    \A h \in Handlers, p \in Pushers \cap up' :
        Calm(h) /\ ~Busy(h)' /\ Name(h) \notin disturbed' /\ handler[h].op = "delete" =>
            taskIdMap'[p][handler[h].id] = None

\* The handler has deleted the row, and is still to delete what belongs to it.
Deleting(h, i) ==
    Busy(h) /\ handler[h].op = "delete" /\ handler[h].id = i /\ handler[h].at # "deleteRow"

\* As long as nothing has gone wrong, what is left of a task without a row has a
\* handler that is about to remove it.
Forgotten ==
    disturbed = {} => \A i \in Ids : ~Exists(i) =>
        /\ fields[i] = {} \/ \E h \in Handlers : Deleting(h, i) /\ handler[h].at = "deleteFields"
        /\ \A p \in Pushers \cap up :
              taskIdMap[p][i] = None \/ \E h \in Handlers : Deleting(h, i) /\ Unaware(h, p)

-----------------------------------------------------------------------------
(* The ids that requests send.                                               *)

\* A handler that moves on keeps what it sends.
LEMMA IdsKept ==
    ASSUME TaskIds,
           \A k \in Handlers : Busy(k)' => (Busy(k) /\ handler'[k] = handler[k]) \/ OwnId(k)'
    PROVE  TaskIds'
  BY DEF TaskIds, OwnId, Busy

\* So does one that goes to another place ...
LEMMA GoToIds ==
    ASSUME HandlerTypes, TaskIds, NEW h \in Handlers, Busy(h), NEW at, GoTo(h, at),
           at \in {"nameExists", "insertRow"} => handler[h].at = "nameExists",
           at = "pushersAdd" => handler[h].op = "add"
    PROVE  TaskIds'
  <1>1. /\ \A k \in Handlers \ {h} : handler'[k] = handler[k]
        /\ Busy(h)' => /\ handler'[h].at = at /\ handler'[h].op = handler[h].op
                       /\ handler'[h].id = handler[h].id /\ handler'[h].task = handler[h].task
    BY GoToFacts
  <1>2. Busy(h)' => OwnId(h)'
    BY <1>1 DEF OwnId, TaskIds
  <1>3. \A k \in Handlers \ {h} : Busy(k)' => Busy(k)
    BY <1>1 DEF Busy
  <1> QED
    BY <1>1, <1>2, <1>3, IdsKept

\* ... a request that begins ...
LEMMA ReceiveIds ==
    ASSUME HandlerTypes, TaskIds, NEW h \in Handlers, NEW op \in Ops, NEW i, NEW t,
           Receive(h, op, i, t), t.id = i, op = "add" => i = 0, op # "add" => i \in Ids
    PROVE  TaskIds'
  <1>1. /\ \A k \in Handlers \ {h} : handler'[k] = handler[k]
        /\ handler'[h].op = op /\ handler'[h].id = i /\ handler'[h].at = First(op)
        /\ handler'[h].task = t
    BY DEF Receive, HandlerTypes
  <1>2. First(op) \notin {"insertRow", "pushersAdd"} /\ (First(op) = "nameExists" => op = "add")
    BY DEF First, Ops
  <1>3. OwnId(h)'
    BY <1>1, <1>2 DEF OwnId
  <1>4. \A k \in Handlers \ {h} : Busy(k)' => Busy(k)
    BY <1>1 DEF Busy
  <1> QED
    BY <1>1, <1>3, <1>4, IdsKept

\* ... one that inserts ...
LEMMA InsertIds ==
    ASSUME HandlerTypes, TaskIds, NEW h \in Handlers, Insert(h) \/ InsertFields(h)
    PROVE  TaskIds'
  <1>1. \A k \in Handlers \ {h} : handler'[k] = handler[k] /\ (Busy(k)' => Busy(k))
    BY DEF Insert, InsertFields, HandlerTypes, Busy
  <1>2. Busy(h) /\ handler[h] \in Working /\ OwnId(h)
    BY DEF Insert, InsertFields, At, HandlerTypes, Busy, TaskIds
  <1>3. OwnId(h)'
    <2>1. CASE Insert(h)
      <3>1. /\ handler'[h].op = handler[h].op /\ handler'[h].task = handler[h].task
            /\ handler'[h].at = "insertFields" /\ handler[h].at = "insertRow"
        BY <1>2, <2>1 DEF Insert, At, HandlerTypes, Working, Then
      <3> QED
        BY <1>2, <3>1 DEF OwnId
    <2>2. CASE InsertFields(h)
      <3>1. handler'[h] = [handler[h] EXCEPT !.at = Then(handler[h].op, "insertFields"),
                                             !.task.id = handler[h].id]
        BY <2>2 DEF InsertFields, HandlerTypes
      <3>2. /\ handler'[h].op = handler[h].op /\ handler'[h].id = handler[h].id
            /\ handler'[h].task.id = handler[h].id /\ handler'[h].at = "dispatchers"
        BY <1>2, <3>1 DEF Working, Tasks, Then
      <3> QED
        BY <1>2, <3>2 DEF OwnId
    <2> QED
      BY <2>1, <2>2
  <1> QED
    BY <1>1, <1>3, IdsKept

\* ... and one that calls.
LEMMA CalledIds ==
    ASSUME HandlerTypes, TaskIds, NEW h \in Handlers, Busy(h),
           \/ Done(h) /\ handler[h].at \in FanOuts
           \/ \E S : handler' = [handler EXCEPT ![h].left = S]
    PROVE  TaskIds'
  <1>1. CASE Done(h) /\ handler[h].at \in FanOuts
    <2>1. /\ Then(handler[h].op, handler[h].at) \notin {"nameExists", "insertRow"}
          /\ Then(handler[h].op, handler[h].at) = "pushersAdd" => handler[h].op = "add"
      BY <1>1 DEF Then, FanOuts
    <2> QED
      BY <1>1, <2>1, GoToIds DEF Done
  <1>2. ASSUME NEW S, handler' = [handler EXCEPT ![h].left = S] PROVE TaskIds'
    <2>1. handler[h] \in Working /\ OwnId(h)
      BY DEF HandlerTypes, Busy, TaskIds
    <2>2. /\ \A k \in Handlers \ {h} : handler'[k] = handler[k] /\ (Busy(k)' => Busy(k))
          /\ handler'[h].op = handler[h].op /\ handler'[h].id = handler[h].id
          /\ handler'[h].task = handler[h].task /\ handler'[h].at = handler[h].at
      BY <1>2, <2>1 DEF HandlerTypes, Working, Busy
    <2>3. OwnId(h)'
      BY <2>1, <2>2 DEF OwnId
    <2> QED
      BY <2>2, <2>3, IdsKept
  <1> QED
    BY <1>1, <1>2

\* A client that joins leaves them alone.
LEMMA JoinsIds ==
    ASSUME HandlerTypes, TaskIds, NEW c, Joins(c)
    PROVE  TaskIds'
  <1>1. \A k \in Handlers : Busy(k)' => Busy(k) /\ Stays(k)
    BY JoinsFacts
  <1>2. \A k \in Handlers : Busy(k)' => OwnId(k)'
    BY <1>1 DEF TaskIds, OwnId, Stays
  <1> QED
    BY <1>2 DEF TaskIds

\* Every step keeps them.
LEMMA TaskIdsStep ==
    ASSUME StoreTypes, HandlerTypes, Fanning, TaskIds, [Next]_vars
    PROVE  TaskIds'
  <1> USE DEF Statement
  <1>1. ASSUME NEW h \in Handlers, NEW n \in Names, NEW s \in Settings, NEW b \in BOOLEAN,
              doAddTask(h, n, s, b)
        PROVE  TaskIds'
    <2>1. "add" \in Ops
      BY DEF Ops
    <2> QED
      BY <1>1, <2>1, ReceiveIds DEF doAddTask
  <1>2. ASSUME NEW h \in Handlers, NEW i \in Ids, NEW s \in Settings, NEW b \in BOOLEAN,
              doUpdateTask(h, i, s, b)
        PROVE  TaskIds'
    <2>1. "update" \in Ops
      BY DEF Ops
    <2> QED
      BY <1>2, <2>1, ReceiveIds DEF doUpdateTask
  <1>3. ASSUME NEW h \in Handlers, NEW i \in Ids, NEW b \in BOOLEAN, changeTaskStat(h, i, b)
        PROVE  TaskIds'
    <2>1. "changeStat" \in Ops
      BY DEF Ops
    <2> QED
      BY <1>3, <2>1, ReceiveIds DEF changeTaskStat
  <1>4. ASSUME NEW h \in Handlers, NEW i \in Ids, NEW op \in {"delete"} \cup SubOps \cup PushOps,
              doSimple(h, op, i)
        PROVE  TaskIds'
    <2>1. op \in Ops /\ op # "add"
      BY DEF Ops, SubOps, PushOps
    <2> QED
      BY <1>4, <2>1, ReceiveIds DEF doSimple
  <1>5. ASSUME NEW h \in Handlers, NameExists(h) PROVE TaskIds'
    BY <1>5, GoToIds DEF NameExists, At, Done, Then
  <1>6. ASSUME NEW h \in Handlers, Insert(h) PROVE TaskIds'
    BY <1>6, InsertIds
  <1>7. ASSUME NEW h \in Handlers, InsertFields(h) PROVE TaskIds'
    BY <1>7, InsertIds
  <1>8. ASSUME NEW h \in Handlers, DeleteFields(h) PROVE TaskIds'
    BY <1>8, GoToIds DEF DeleteFields, At, Done, Then
  <1>9. ASSUME NEW h \in Handlers, UpdateRow(h) PROVE TaskIds'
    BY <1>9, GoToIds DEF UpdateRow, At, Done, Then
  <1>10. ASSUME NEW h \in Handlers, DeleteRow(h) PROVE TaskIds'
    BY <1>10, GoToIds DEF DeleteRow, At, Done, Then
  <1>11. ASSUME NEW h \in Handlers, StatementFails(h) PROVE TaskIds'
    <2>1. /\ Otherwise(handler[h].op, handler[h].at) \in {"nameExists", "insertRow"} =>
                handler[h].at = "nameExists"
          /\ Otherwise(handler[h].op, handler[h].at) # "pushersAdd"
      BY DEF Otherwise
    <2> QED
      BY <1>11, <2>1, GoToIds DEF StatementFails, At
  <1>12. ASSUME NEW h \in Handlers, Iter(h) PROVE TaskIds'
    BY <1>12, CalledIds DEF Iter, At
  <1>13. ASSUME NEW h \in Handlers, NEW c \in Clients, Called(h, c) PROVE TaskIds'
    BY <1>13, CalledIds DEF Called, Fanning
  <1>14. ASSUME NEW c \in Clients, Crash(c) PROVE TaskIds'
    BY <1>14 DEF Crash, TaskIds, OwnId, Busy
  <1>15. ASSUME NEW c \in Clients, Register(c) PROVE TaskIds'
    BY <1>15, JoinsIds DEF Register
  <1>16. ASSUME NEW d \in Dispatchers, StartDispatcher(d) PROVE TaskIds'
    BY <1>16 DEF StartDispatcher, TaskIds, OwnId, Busy
  <1>17. ASSUME NEW p \in Pushers, StartPusher(p) PROVE TaskIds'
    BY <1>17, JoinsIds DEF StartPusher
  <1>18. CASE MonitorCrash
    BY <1>18 DEF MonitorCrash, TaskIds, Busy
  <1>19. CASE UNCHANGED vars
    BY <1>19 DEF vars, TaskIds, OwnId, Busy
  <1>20. ASSUME NEW c \in Clients, StartBlind(c) PROVE TaskIds'
    BY <1>20 DEF StartBlind, TaskIds, OwnId, Busy
  <1> QED
    BY <1>1, <1>2, <1>3, <1>4, <1>5, <1>6, <1>7, <1>8, <1>9, <1>10, <1>11, <1>12, <1>13, <1>14,
       <1>15, <1>16, <1>17, <1>18, <1>19, <1>20 DEF Next, Call, CallFails, CallUnserved, Panics

-----------------------------------------------------------------------------
(* What is left alone is kept.                                               *)

\* A handler that stays, while nobody writes to its name, keeps its plan ...
LEMMA PushPlanKept ==
    ASSUME NEW h \in Handlers, Plan(h), PushPlan(h), Stays(h), Untouched(Name(h))
    PROVE  PushPlan(h)'
  <1> DEFINE i == handler[h].id
  <1>1. Present(h) => rows'[i] = rows[i] /\ fields'[i] = fields[i]
    BY DEF Plan, Untouched, Listed
  <1>2. /\ handler[h].op \in {"update", "changeStat"} \cup PushOps => Present(h)
        /\ handler[h].op = "add" /\ handler[h].at \in {"insertFields"} \cup FanOuts => Present(h)
    BY DEF Present, PushOps, FanOuts
  <1> HIDE DEF i
  <1>3. /\ handler[h].op = "changeStat" => rows'[i].push = handler[h].task.row.push
        /\ handler[h].op = "changeStat" /\ handler[h].at = "dispatchers" => fields'[i] = handler[h].task.fields
        /\ handler[h].op \in {"add", "update"} /\ handler[h].at \in {"insertFields"} \cup FanOuts =>
              rows'[i].push = handler[h].task.row.push
        /\ handler[h].op \in PushOps => fields'[i] = handler[h].task.fields
    BY <1>1, <1>2 DEF PushPlan, i
  <1> QED
    BY <1>3 DEF PushPlan, Stays, i

\* ... a pusher that nobody calls knows as before ...
LEMMA KnowsKept ==
    ASSUME NEW p, NEW n, Knows(p, n), Untouched(n), receiver'[p][n] = receiver[p][n],
           \A i \in Listed(n) : taskIdMap'[p][i] = taskIdMap[p][i]
    PROVE  Knows(p, n)'
  <1>1. Listed(n) = {} <=> Listed(n)' = {}
    BY DEF Untouched, Listed
  <1>2. \A i \in Listed(n)' : i \in Listed(n) /\ rows'[i] = rows[i] /\ fields'[i] = fields[i]
    BY DEF Untouched, Listed
  <1> QED
    BY <1>1, <1>2 DEF Knows

\* ... and is as fit as before ...
LEMMA FitKept ==
    ASSUME NEW h \in Handlers, NEW p, Fit(h, p), Stays(h),
           receiver'[p][Name(h)] = receiver[p][Name(h)],
           handler[h].op # "add" => taskIdMap'[p][handler[h].id] = taskIdMap[p][handler[h].id]
    PROVE  Fit(h, p)'
  <1>1. Name(h)' = Name(h)
    BY DEF Stays, Name
  <1> QED
    BY <1>1 DEF Fit, Stays, PushOps

\* A pusher that nobody has called minds as it did.
LEMMA MindKept ==
    ASSUME NEW h \in Handlers, NEW p, NEW n, n = Name(h), Mind(h, p, n), Stays(h),
           Unaware(h, p)' = Unaware(h, p), Untouched(n), receiver'[p][n] = receiver[p][n],
           \A i \in Listed(n) : taskIdMap'[p][i] = taskIdMap[p][i],
           handler[h].op # "add" => taskIdMap'[p][handler[h].id] = taskIdMap[p][handler[h].id]
    PROVE  Mind(h, p, n)'
  <1>1. Fit(h, p) => Fit(h, p)'
    BY FitKept
  <1>2. Knows(p, n) => Knows(p, n)'
    BY KnowsKept
  <1>3. Dropped(h, p) => Dropped(h, p)'
    BY DEF Dropped, Stays
  <1> QED
    BY <1>1, <1>2, <1>3 DEF Mind

\* ... for every handler of the name.
LEMMA MindsKept ==
    ASSUME NEW p, NEW n, Minds(p, n), Untouched(n), receiver'[p][n] = receiver[p][n],
           \A i \in Listed(n) : taskIdMap'[p][i] = taskIdMap[p][i],
           \A k \in Handlers : About(k, n) \/ About(k, n)' =>
              /\ About(k, n) /\ About(k, n)' /\ Stays(k) /\ Unaware(k, p)' = Unaware(k, p)
              /\ handler[k].op # "add" => taskIdMap'[p][handler[k].id] = taskIdMap[p][handler[k].id]
    PROVE  Minds(p, n)'
  <1>1. ASSUME NEW k \in Handlers, About(k, n)'
        PROVE  Mind(k, p, n)'
    BY <1>1, MindKept DEF Minds, About, Name
  <1>2. (\A k \in Handlers : ~About(k, n)') => Knows(p, n)'
    BY KnowsKept DEF Minds
  <1> QED
    BY <1>1, <1>2 DEF Minds

\* What holds of the one handler of a name holds of the name.
LEMMA MindsAlone ==
    ASSUME FieldInv, NEW h \in Handlers, Calm(h), NEW p
    PROVE  Minds(p, Name(h)) <=> Mind(h, p, Name(h))
  <1>1. About(h, Name(h)) /\ \A k \in Handlers : About(k, Name(h)) => k = h
    BY DEF FieldInv, NameInv, OneHandler, Calm, About, Name
  <1> QED
    BY <1>1 DEF Minds

\* A step of handler h: what is left to show is what it does to its own name.
LEMMA OneTells ==
    ASSUME FieldInv, FieldInv', FollowInv, TaskIds, KnowInv, NEW h \in Handlers, Busy(h),
           \A k \in Handlers \ {h} : handler'[k] = handler[k],
           Busy(h)' => Name(h)' = Name(h),
           disturbed \subseteq disturbed', up' = up, \A p \in up : p \in registered' <=> p \in registered,
           \A n \in Names \ {Name(h)} :
              Untouched(n) /\ \A p \in Pushers : receiver'[p][n] = receiver[p][n],
           \A p \in Pushers, i \in Ids : i # handler[h].id => taskIdMap'[p][i] = taskIdMap[p][i],
           Calm(h)' => PushPlan(h)',
           Name(h) \notin disturbed' =>
              \A p \in Pushers \cap up, n \in Names : n = Name(h) =>
                 IF Busy(h)' THEN Mind(h, p, n)'
                 ELSE /\ Knows(p, n)'
                      /\ handler[h].op = "delete" => taskIdMap'[p][handler[h].id] = None
    PROVE  KnowInv' /\ Ends
  <1>1. \A k \in Handlers \ {h} : Busy(k)' = Busy(k) /\ Name(k)' = Name(k) /\ Stays(k)
    BY DEF Busy, Name, Stays
  <1>2. Name(h) \in Names
    BY BusyNames, TypeParts DEF FieldInv, NameInv, Name
  <1>3. ASSUME NEW k \in Handlers, Calm(k)'
        PROVE  PushPlan(k)'
    <2>1. CASE k # h
      <3>1. Calm(k)
        BY <1>1, <1>3, <2>1 DEF Calm
      <3>2. Name(k) \in Names \ {Name(h)}
        BY <2>1, <3>1, BusyNames, TypeParts DEF FieldInv, NameInv, OneHandler, Name, Calm
      <3> QED
        BY <1>1, <2>1, <3>1, <3>2, PushPlanKept DEF FollowInv, KnowInv
    <2> QED
      BY <1>3, <2>1
  <1>4. ASSUME NEW p \in Pushers \cap up, NEW n \in Names \ disturbed'
        PROVE  Minds(p, n)'
    <2>1. Minds(p, n)
      BY <1>4 DEF KnowInv
    <2>2. CASE n # Name(h)
      <3>1. \A k \in Handlers : About(k, n) \/ About(k, n)' => k # h /\ Busy(k) /\ Name(k) = n
        BY <1>1, <1>4, <2>2 DEF About, Name
      <3>2. \A i \in Listed(n) : taskIdMap'[p][i] = taskIdMap[p][i]
        BY <2>2, NotItsRow DEF Listed
      <3>3. ASSUME NEW k \in Handlers, About(k, n) \/ About(k, n)'
            PROVE  /\ About(k, n) /\ About(k, n)' /\ Stays(k) /\ Unaware(k, p)' = Unaware(k, p)
                   /\ handler[k].op # "add" => taskIdMap'[p][handler[k].id] = taskIdMap[p][handler[k].id]
        <4>1. k # h /\ Busy(k) /\ Name(k) = n
          BY <3>1, <3>3
        <4>2. Final(k)' = Final(k)
          BY <4>1 DEF Final
        <4>3. Unaware(k, p)' = Unaware(k, p)
          BY <1>4, <4>1, <4>2 DEF Unaware
        <4>4. handler[k].op # "add" => handler[k].id \in Ids
          BY <4>1 DEF TaskIds, OwnId
        <4>5. handler[k].op # "add" => handler[k].id # handler[h].id
          BY <2>2, <4>1, <4>4 DEF FieldInv, NameInv, SameTask, Ids
        <4> QED
          BY <1>1, <4>1, <4>3, <4>4, <4>5 DEF About, Name
      <3> QED
        BY <1>4, <2>1, <2>2, <3>2, <3>3, MindsKept
    <2>3. CASE n = Name(h) /\ Busy(h)'
      <3>1. Calm(h)' /\ Name(h)' = n /\ Mind(h, p, n)'
        BY <1>4, <2>3 DEF Calm
      <3>2. \A k \in Handlers : About(k, n)' => k = h
        BY <3>1 DEF FieldInv, NameInv, OneHandler, About, Name
      <3>3. About(h, n)'
        BY <3>1 DEF About, Name, Calm
      <3> QED
        BY <3>1, <3>2, <3>3 DEF Minds
    <2>4. CASE n = Name(h) /\ ~Busy(h)'
      <3>1. \A k \in Handlers : ~About(k, n)'
        <4> SUFFICES ASSUME NEW k \in Handlers, About(k, n)' PROVE FALSE
          OBVIOUS
        <4>1. k # h /\ Calm(h) /\ Name(k) = Name(h) /\ Busy(k)
          BY <1>1, <1>4, <2>4 DEF About, Calm, Name
        <4> QED
          BY <4>1 DEF FieldInv, NameInv, OneHandler
      <3>2. Knows(p, n)'
        BY <1>4, <2>4
      <3> QED
        BY <3>1, <3>2 DEF Minds
    <2> QED
      BY <2>2, <2>3, <2>4
  <1>5. Ends
    <2> SUFFICES ASSUME NEW k \in Handlers, NEW p \in Pushers \cap up', Calm(k), ~Busy(k)',
                        Name(k) \notin disturbed', handler[k].op = "delete"
                 PROVE  taskIdMap'[p][handler[k].id] = None
      BY DEF Ends
    <2>1. k = h
      BY <1>1 DEF Calm
    <2> QED
      BY <1>2, <2>1
  <1> QED
    BY <1>3, <1>4, <1>5 DEF KnowInv

-----------------------------------------------------------------------------
(* The statements.                                                           *)

\* What every statement of a handler leaves alone.
LEMMA StatementSilent ==
    ASSUME Statement
    PROVE  UNCHANGED <<up, registered, disturbed, taskIdMap, receiver>>
  BY DEF Statement, living, pushing, history

\* NameExists finds no row of an undisturbed name, or the request ends.
LEMMA NameExistsTells ==
    ASSUME FieldInv, FieldInv', FollowInv, TaskIds, KnowInv, NEW h \in Handlers, NameExists(h)
    PROVE  KnowInv' /\ Ends
  <1>1. /\ HandlerTypes /\ Busy(h) /\ handler[h].at = "nameExists"
        /\ UNCHANGED <<store, up, registered, disturbed, taskIdMap, receiver>>
    BY TypeParts, StatementSilent DEF NameExists, At, FieldInv, NameInv
  <1>2. PICK at : GoTo(h, at) /\ at \in {"idle", "insertRow"}
    BY <1>1 DEF NameExists, Done, Then
  <1>3. \A n : Untouched(n)
    BY <1>1, StoreUntouched
  <1>4. handler[h].op = "add"
    BY <1>1 DEF TaskIds, OwnId
  <1>5. Busy(h)' => handler'[h].at = "insertRow" /\ handler'[h].op = "add"
    BY <1>1, <1>2, <1>4, GoToFacts
  <1>6. Busy(h)' => PushPlan(h)'
    BY <1>5 DEF PushPlan, PushOps, FanOuts
  <1>7. ASSUME Name(h) \notin disturbed', NEW p \in Pushers \cap up, NEW n \in Names, n = Name(h)
        PROVE  Knows(p, n)' /\ (Busy(h)' => Mind(h, p, n)')
    <2>1. Final(h) # "nameExists" /\ ~Unaware(h, p)
      BY <1>1 DEF Unaware, Final, FanOuts
    <2>2. Knows(p, n)
      BY <1>1, <1>7, <2>1, MindsAlone DEF Calm, KnowInv, Mind
    <2>3. Knows(p, n)'
      BY <1>1, <1>3, <2>2, KnowsKept
    <2>4. Busy(h)' => ~Unaware(h, p)' /\ Dropped(h, p)'
      BY <1>5 DEF Unaware, Dropped, Final, FanOuts
    <2> QED
      BY <2>3, <2>4 DEF Mind
  <1> QED
    BY <1>1, <1>2, <1>3, <1>4, <1>6, <1>7, GoToFacts, OneTells DEF Calm

\* A new row: the pushers do not know it, and AddTask is still to come.
LEMMA InsertTells ==
    ASSUME FieldInv, FieldInv', FollowInv, TaskIds, KnowInv, NEW h \in Handlers, Insert(h)
    PROVE  KnowInv' /\ Ends
  <1> DEFINE j == lastId + 1
  <1>1. /\ Busy(h) /\ handler[h].at = "insertRow" /\ Busy(h)' /\ handler'[h].at = "insertFields"
        /\ handler'[h].op = handler[h].op /\ handler'[h].task = handler[h].task
        /\ Name(h)' = Name(h) /\ handler'[h].id = j /\ j \in Ids
        /\ \A k \in Handlers \ {h} : handler'[k] = handler[k]
        /\ rows'[j] = handler[h].task.row /\ rows'[j] # None
        /\ \A i \in Ids : i # j => rows'[i] = rows[i]
        /\ fields' = fields
    BY InsertParts, ControlAssumption DEF FieldInv, Name
  <1>2. UNCHANGED <<up, registered, disturbed, taskIdMap, receiver>>
    BY StatementSilent DEF Insert
  <1>3. ~Exists(j)
    BY <1>1 DEF FieldInv, NameInv, TypeOK, Numbered
  <1>4. \A n \in Names \ {Name(h)} : Untouched(n)
    <2> SUFFICES ASSUME NEW n \in Names \ {Name(h)} PROVE Untouched(n)
      OBVIOUS
    <2>1. j \notin Listed(n) /\ j \notin Listed(n)'
      BY <1>1, <1>3 DEF Listed, Exists, Name
    <2>2. \A i \in Ids : i # j => rows'[i] = rows[i] /\ fields'[i] = fields[i]
      BY <1>1
    <2> HIDE DEF j
    <2> QED
      BY <2>1, <2>2, OthersUntouched
  <1>5. handler[h].op = "add"
    BY <1>1 DEF TaskIds, OwnId
  <1> HIDE DEF j
  <1>6. PushPlan(h)'
    BY <1>1, <1>5 DEF PushPlan, PushOps, FanOuts
  <1>7. ASSUME NEW p, NEW n
        PROVE  Mind(h, p, n)'
    <2>1. Unaware(h, p)'
      BY <1>1, <1>5 DEF Unaware, SubOps, Statements
    <2>2. Fit(h, p)'
      BY <1>1, <1>5 DEF Fit, PushOps
    <2> QED
      BY <2>1, <2>2 DEF Mind
  <1> QED
    BY <1>1, <1>2, <1>4, <1>6, <1>7, OneTells

\* changeTaskStat inserts the fields it has deleted, and the pushers that push
\* the task remember those; the others have calls to come.
LEMMA FieldsTell ==
    ASSUME FieldInv, FieldInv', FollowInv, TaskIds, KnowInv, NEW h \in Handlers,
           InsertFields(h) \/ DeleteFields(h)
    PROVE  KnowInv' /\ Ends
  <1> DEFINE j == handler[h].id
  <1>1. /\ FieldsStep(h) /\ Busy(h) /\ Busy(h)' /\ Name(h)' = Name(h)
        /\ \A k \in Handlers \ {h} : handler'[k] = handler[k]
        /\ handler'[h].at = Then(handler[h].op, handler[h].at)
        /\ handler[h].at \in {"insertFields", "deleteFields"} /\ rows' = rows
        /\ handler'[h].op = handler[h].op /\ handler'[h].id = handler[h].id
        /\ handler'[h].task.row = handler[h].task.row
        /\ handler'[h].task.fields = handler[h].task.fields
    BY FieldsParts DEF FieldInv, FieldsStep, Same
  <1>2. UNCHANGED <<up, registered, disturbed, taskIdMap, receiver>>
    BY StatementSilent DEF InsertFields, DeleteFields
  <1>3. \A n : Listed(n)' = Listed(n)
    BY <1>1 DEF Listed
  <1>4. \A n \in Names \ {Name(h)} : Untouched(n)
    <2> SUFFICES ASSUME NEW n \in Names \ {Name(h)} PROVE Untouched(n)
      OBVIOUS
    <2>1. handler[h].id \notin Listed(n) /\ handler[h].id \notin Listed(n)'
      BY <1>1, <1>3, NotItsRow
    <2>2. \A i \in Ids : i # handler[h].id => rows'[i] = rows[i] /\ fields'[i] = fields[i]
      BY <1>1 DEF FieldsStep
    <2> QED
      BY <2>1, <2>2, OthersUntouched
  <1>5. ASSUME Name(h) \notin disturbed
        PROVE  /\ Plan(h) /\ FieldsPlanOf(h) /\ PushPlan(h)
               /\ handler[h].op \in {"add", "update", "changeStat", "delete"}
               /\ handler[h].op = "add" => handler[h].at = "insertFields"
               /\ handler[h].op = "delete" => handler[h].at = "deleteFields"
    <2>1. Plan(h) /\ FieldsPlanOf(h) /\ PushPlan(h)
      BY <1>1, <1>5 DEF FollowInv, Calm, FieldInv, FieldsPlan, KnowInv
    <2>2. handler[h].op \in Ops
      BY <1>1, TypeParts DEF FieldInv, NameInv, HandlerTypes, Busy, Working
    <2> QED
      BY <1>1, <2>1, <2>2 DEF Plan, Program, Ops, SubOps, PushOps, FanOuts
  <1>6. handler'[h].at = IF handler[h].at = "deleteFields" /\ handler[h].op # "delete"
                         THEN "updateRow" ELSE "dispatchers"
    BY <1>1 DEF Then
  <1>7. handler[h].at = "insertFields" => handler'[h].task.id = handler[h].id
    <2> SUFFICES ASSUME handler[h].at = "insertFields" PROVE handler'[h].task.id = handler[h].id
      OBVIOUS
    <2>1. handler'[h] = [handler[h] EXCEPT !.at = Then(handler[h].op, "insertFields"),
                                           !.task.id = handler[h].id]
      BY DEF InsertFields, DeleteFields, At, FieldInv, NameInv, TypeOK
    <2>2. handler[h] \in Working
      BY <1>1, TypeParts DEF FieldInv, NameInv, HandlerTypes, Busy
    <2> QED
      BY <2>1, <2>2 DEF Working, Tasks
  <1>8. ASSUME Name(h) \notin disturbed, handler[h].op = "changeStat", handler[h].at = "insertFields"
        PROVE  j \in Listed(Name(h)) /\ fields'[j] = handler[h].task.fields
    <2>1. j \in Listed(Name(h))
      BY <1>5, <1>8 DEF Plan, Present
    <2>2. fields[j] = {}
      BY <1>5, <1>8, <2>1 DEF FieldsPlanOf, Emptied, Listed
    <2>3. InsertFields(h)
      BY <1>8 DEF DeleteFields, At
    <2> QED
      BY <2>1, <2>2, <2>3 DEF InsertFields, FieldInv, NameInv, TypeOK, Listed
  <1>9. Calm(h)' => PushPlan(h)'
    <2> SUFFICES ASSUME Calm(h)' PROVE PushPlan(h)'
      OBVIOUS
    <2>1. Name(h) \notin disturbed
      BY <1>1, <1>2 DEF Calm
    <2>2. handler'[h].op \notin PushOps
      BY <1>1, <1>5, <2>1 DEF PushOps
    <2>3. handler'[h].op = "add" => handler'[h].task.id = handler'[h].id
      BY <1>1, <1>5, <1>7, <2>1
    <2>4. /\ handler'[h].op = "changeStat" => rows'[j].push = handler'[h].task.row.push
          /\ handler'[h].op = "changeStat" /\ handler'[h].at = "dispatchers" =>
                fields'[j] = handler'[h].task.fields
      BY <1>1, <1>5, <1>6, <1>8, <2>1 DEF PushPlan
    <2>5. handler'[h].op \in {"add", "update"} /\ handler'[h].at \in {"insertFields"} \cup FanOuts =>
             rows'[j].push = handler'[h].task.row.push
      BY <1>1, <1>5, <1>6, <2>1 DEF PushPlan, FanOuts
    <2> QED
      BY <1>1, <2>2, <2>3, <2>4, <2>5 DEF PushPlan
  <1>10. ASSUME Name(h) \notin disturbed', NEW p \in Pushers \cap up, NEW n \in Names, n = Name(h)
         PROVE  Mind(h, p, n)'
    <2>1. Plan(h) /\ PushPlan(h) /\ Name(h) \notin disturbed /\ Mind(h, p, n)
      BY <1>1, <1>2, <1>5, <1>10, MindsAlone DEF Calm, KnowInv
    <2>2. Unaware(h, p) /\ Fit(h, p)
      BY <1>1, <1>5, <2>1 DEF Unaware, Statements, SubOps, Mind
    <2>3. Fit(h, p)'
      BY <1>1, <1>2, <1>5, <2>1, <2>2 DEF Fit, PushOps
    <2>4. CASE handler'[h].op = "changeStat" /\ handler'[h].at = "dispatchers"
      <3>1. handler[h].op = "changeStat" /\ handler[h].at = "insertFields"
        BY <1>1, <1>6, <2>4
      <3>2. j \in Listed(n) /\ fields'[j] = handler[h].task.fields
        BY <1>8, <1>10, <2>1, <3>1
      <3>3. \A i \in Listed(n) : i = j
        BY <1>10, <2>1, <3>2, ListedOnce
      <3>4. rows[j].push = handler[h].task.row.push
        BY <2>1, <3>1 DEF PushPlan
      <3>5. /\ receiver[p][n] # "none" /\ taskIdMap[p][j] # None
            /\ rows[j].push => taskIdMap[p][j] = fields'[j]
        BY <1>10, <2>2, <3>1, <3>2, <3>4 DEF Fit
      <3> HIDE DEF j
      <3>6. Knows(p, n)'
        BY <1>1, <1>2, <1>3, <3>2, <3>3, <3>5 DEF Knows
      <3>7. ~Unaware(h, p)' /\ Dropped(h, p)'
        BY <2>4 DEF Unaware, Dropped, Statements, PushOps
      <3> QED
        BY <3>6, <3>7 DEF Mind
    <2>5. CASE ~(handler'[h].op = "changeStat" /\ handler'[h].at = "dispatchers")
      <3>1. Unaware(h, p)'
        BY <1>1, <1>5, <1>6, <2>1, <2>5 DEF Unaware, Statements, FanOuts, SubOps, Final
      <3> QED
        BY <2>3, <3>1 DEF Mind
    <2> QED
      BY <2>4, <2>5
  <1> HIDE DEF j
  <1> QED
    BY <1>1, <1>2, <1>4, <1>9, <1>10, OneTells

\* The columns that the pushers go by change only before they are called.
LEMMA UpdateTells ==
    ASSUME FieldInv, FieldInv', FollowInv, TaskIds, KnowInv, NEW h \in Handlers, UpdateRow(h)
    PROVE  KnowInv' /\ Ends
  <1> DEFINE j == handler[h].id
             at == handler[h].at
  <1>1. /\ HandlerTypes /\ Busy(h) /\ at \in {"updateRow", "setSub", "setPush"}
        /\ GoTo(h, Then(handler[h].op, at)) /\ fields' = fields
        /\ UNCHANGED <<up, registered, disturbed, taskIdMap, receiver>>
    BY TypeParts, StatementSilent DEF UpdateRow, At, FieldInv, NameInv, Done
  <1>2. /\ Then(handler[h].op, at) = (CASE at = "updateRow" -> "insertFields"
                                        [] at = "setSub"    -> "dispatchers"
                                        [] OTHER            -> "pushers")
        /\ Then(handler[h].op, at) # "idle"
    BY <1>1 DEF Then
  <1>3. /\ \A k \in Handlers \ {h} : handler'[k] = handler[k]
        /\ Busy(h)' /\ handler'[h].at = Then(handler[h].op, at) /\ handler'[h].left = None
        /\ handler'[h].op = handler[h].op /\ handler'[h].id = j
        /\ handler'[h].task = handler[h].task /\ Name(h)' = Name(h)
    BY <1>1, <1>2, GoToFacts
  <1>4. /\ rows \in [Ids -> {None} \cup Rows] /\ handler[h].task.row \in Rows
        /\ \A r \in Rows : r # None
    <2>1. handler[h] \in Working
      BY <1>1 DEF HandlerTypes, Busy
    <2> QED
      BY <2>1, ControlAssumption DEF FieldInv, NameInv, TypeOK, Working, Tasks, ControlAssumption, Rows
  <1>5. /\ \A i \in Ids : i # j => rows'[i] = rows[i]
        /\ j \in Ids /\ rows[j] = None => rows'[j] = None
        /\ j \in Ids /\ rows[j] # None =>
              rows'[j] = Columns(h, rows[j]) /\ rows[j].name = Name(h) /\ rows[j] \in Rows
    BY <1>1, <1>4 DEF UpdateRow, FieldInv, NameInv, Numbered, Exists
  <1>6. j \in Ids /\ rows[j] # None =>
           /\ rows'[j] # None /\ rows'[j].name = Name(h)
           /\ at = "updateRow" => rows'[j].push = handler[h].task.row.push
           /\ at = "setSub" => rows'[j].push = rows[j].push
    <2> SUFFICES ASSUME j \in Ids, rows[j] # None
                 PROVE  /\ rows'[j] \in Rows /\ rows'[j].name = Name(h)
                        /\ at = "updateRow" => rows'[j].push = handler[h].task.row.push
                        /\ at = "setSub" => rows'[j].push = rows[j].push
      BY <1>4
    <2>1. CASE at = "updateRow"
      BY <1>4, <1>5, <2>1 DEF Columns, Name
    <2>2. CASE at = "setSub"
      BY <1>4, <1>5, <2>2 DEF Columns, Rows
    <2>3. CASE at = "setPush"
      BY <1>4, <1>5, <2>3 DEF Columns, Rows
    <2> QED
      BY <1>1, <2>1, <2>2, <2>3
  <1>7. \A n : Listed(n)' = Listed(n)
    BY <1>5, <1>6 DEF Listed
  <1>8. \A n \in Names \ {Name(h)} : Untouched(n)
    <2> SUFFICES ASSUME NEW n \in Names \ {Name(h)} PROVE Untouched(n)
      OBVIOUS
    <2>1. j \notin Listed(n) /\ j \notin Listed(n)'
      BY <1>1, <1>7, NotItsRow
    <2>2. \A i \in Ids : i # j => rows'[i] = rows[i] /\ fields'[i] = fields[i]
      BY <1>1, <1>5
    <2> HIDE DEF j
    <2> QED
      BY <2>1, <2>2, OthersUntouched
  <1>9. ASSUME Name(h) \notin disturbed
        PROVE  /\ Plan(h) /\ PushPlan(h) /\ j \in Listed(Name(h))
               /\ at = "updateRow" => handler[h].op \in {"update", "changeStat"}
               /\ at = "setSub" => handler[h].op \in SubOps
               /\ at = "setPush" => handler[h].op \in PushOps
    <2>1. Plan(h) /\ PushPlan(h)
      BY <1>1, <1>9 DEF FollowInv, Calm, KnowInv
    <2>2. handler[h].op \in Ops
      BY <1>1 DEF HandlerTypes, Busy, Working
    <2>3. /\ at = "updateRow" => handler[h].op \in {"update", "changeStat"}
          /\ at = "setSub" => handler[h].op \in SubOps
          /\ at = "setPush" => handler[h].op \in PushOps
      BY <1>1, <2>1, <2>2 DEF Plan, Program, Ops, SubOps, PushOps, FanOuts
    <2>4. Present(h)
      BY <1>1, <2>3 DEF Present, SubOps, PushOps
    <2> QED
      BY <2>1, <2>3, <2>4 DEF Plan
  <1>10. Calm(h)' => PushPlan(h)'
    <2> SUFFICES ASSUME Calm(h)' PROVE PushPlan(h)'
      OBVIOUS
    <2>1. Name(h) \notin disturbed
      BY <1>1, <1>3 DEF Calm
    <2>2. j \in Ids /\ rows[j] # None
      BY <1>9, <2>1 DEF Listed
    <2>3. CASE at = "updateRow"
      <3>1. handler'[h].at = "insertFields" /\ handler'[h].op \in {"update", "changeStat"}
        BY <1>2, <1>3, <1>9, <2>1, <2>3
      <3>2. rows'[j].push = handler'[h].task.row.push
        BY <1>3, <1>6, <2>2, <2>3
      <3> QED
        BY <1>3, <3>1, <3>2 DEF PushPlan, PushOps, FanOuts
    <2>4. CASE at = "setSub"
      <3>1. handler'[h].op \in SubOps
        BY <1>3, <1>9, <2>1, <2>4
      <3> QED
        BY <3>1 DEF PushPlan, SubOps, PushOps
    <2>5. CASE at = "setPush"
      <3>1. handler'[h].op \in PushOps /\ fields'[j] = handler'[h].task.fields
        BY <1>1, <1>3, <1>9, <2>1, <2>5 DEF PushPlan
      <3> QED
        BY <1>3, <3>1 DEF PushPlan, PushOps
    <2> QED
      BY <1>1, <2>3, <2>4, <2>5
  <1>11. ASSUME Name(h) \notin disturbed', NEW p \in Pushers \cap up, NEW n \in Names, n = Name(h)
         PROVE  Mind(h, p, n)'
    <2>1. Plan(h) /\ PushPlan(h) /\ Name(h) \notin disturbed /\ Mind(h, p, n)
      BY <1>1, <1>9, <1>11, MindsAlone DEF Calm, KnowInv
    <2>2. CASE at # "setSub"
      <3>1. handler[h].op \notin SubOps
        BY <1>1, <1>9, <2>1, <2>2 DEF SubOps, PushOps
      <3>2. Unaware(h, p) /\ Unaware(h, p)'
        <4>1. Unaware(h, p)
          BY <1>1, <3>1 DEF Unaware, Statements
        <4>2. CASE at = "updateRow"
          BY <1>2, <1>3, <3>1, <4>2 DEF Unaware, Statements
        <4>3. CASE at = "setPush"
          <5>1. handler'[h].at = "pushers" /\ handler'[h].op \in PushOps
            BY <1>2, <1>3, <1>9, <2>1, <4>3
          <5>2. Final(h)' = "pushers"
            BY <5>1 DEF Final, PushOps
          <5> QED
            BY <1>3, <4>1, <5>1, <5>2 DEF Unaware
        <4> QED
          BY <1>1, <2>2, <4>1, <4>2, <4>3
      <3>3. Fit(h, p)'
        BY <1>1, <1>3, <2>1, <3>2 DEF Fit, Mind
      <3> QED
        BY <3>2, <3>3 DEF Mind
    <2>3. CASE at = "setSub"
      <3>1. handler[h].op \in SubOps /\ handler'[h].op \in SubOps
        BY <1>3, <1>9, <2>1, <2>3
      <3>2. ~Unaware(h, p) /\ ~Unaware(h, p)' /\ Dropped(h, p)'
        BY <3>1 DEF Unaware, Dropped, SubOps, PushOps
      <3>3. \A i \in Listed(n) : rows'[i].push = rows[i].push
        BY <1>5, <1>6, <2>3 DEF Listed
      <3>4. Knows(p, n)'
        BY <1>1, <1>7, <2>1, <3>2, <3>3 DEF Mind, Knows
      <3> QED
        BY <3>2, <3>4 DEF Mind
    <2> QED
      BY <2>2, <2>3
  <1> HIDE DEF j, at
  <1> QED
    BY <1>1, <1>3, <1>8, <1>10, <1>11, OneTells

\* The name has no row any more, and Delete is still to be called.
LEMMA DeleteTells ==
    ASSUME FieldInv, FieldInv', FollowInv, TaskIds, KnowInv, NEW h \in Handlers, DeleteRow(h)
    PROVE  KnowInv' /\ Ends
  <1> DEFINE j == handler[h].id
  <1>1. /\ HandlerTypes /\ Busy(h) /\ handler[h].at = "deleteRow"
        /\ GoTo(h, "deleteFields") /\ fields' = fields
        /\ UNCHANGED <<up, registered, disturbed, taskIdMap, receiver>>
    BY TypeParts, StatementSilent DEF DeleteRow, At, FieldInv, NameInv, Done, Then
  <1>2. /\ \A k \in Handlers \ {h} : handler'[k] = handler[k]
        /\ Busy(h)' /\ handler'[h].at = "deleteFields" /\ handler'[h].left = None
        /\ handler'[h].op = handler[h].op /\ handler'[h].id = j
        /\ handler'[h].task = handler[h].task /\ Name(h)' = Name(h)
    BY <1>1, GoToFacts
  <1>3. /\ \A i \in Ids : i # j => rows'[i] = rows[i]
        /\ j \in Ids => rows'[j] = None
    BY DEF DeleteRow, FieldInv, NameInv, TypeOK
  <1>4. \A n \in Names \ {Name(h)} : Untouched(n)
    <2> SUFFICES ASSUME NEW n \in Names \ {Name(h)} PROVE Untouched(n)
      OBVIOUS
    <2>1. j \notin Listed(n) /\ j \notin Listed(n)'
      BY <1>1, <1>3, NotItsRow DEF Listed
    <2>2. \A i \in Ids : i # j => rows'[i] = rows[i] /\ fields'[i] = fields[i]
      BY <1>1, <1>3
    <2> HIDE DEF j
    <2> QED
      BY <2>1, <2>2, OthersUntouched
  <1>5. ASSUME Name(h) \notin disturbed
        PROVE  handler[h].op = "delete"
    <2>1. Plan(h)
      BY <1>1, <1>5 DEF FollowInv, Calm
    <2> QED
      BY <1>1, <2>1 DEF Plan, Program, SubOps, FanOuts
  <1>6. Calm(h)' => PushPlan(h)'
    <2> SUFFICES ASSUME Calm(h)' PROVE PushPlan(h)'
      OBVIOUS
    <2>1. handler'[h].op = "delete"
      BY <1>1, <1>2, <1>5 DEF Calm
    <2> QED
      BY <2>1 DEF PushPlan, PushOps
  <1>7. ASSUME Name(h) \notin disturbed', NEW p \in Pushers \cap up, NEW n \in Names, n = Name(h)
        PROVE  Mind(h, p, n)'
    <2>1. handler[h].op = "delete" /\ Mind(h, p, n)
      BY <1>1, <1>5, <1>7, MindsAlone DEF Calm, KnowInv
    <2>2. Unaware(h, p) /\ Unaware(h, p)'
      BY <1>1, <1>2, <2>1 DEF Unaware, SubOps, Statements
    <2>3. Fit(h, p)'
      BY <1>1, <1>2, <2>1, <2>2 DEF Fit, Mind
    <2> QED
      BY <2>2, <2>3 DEF Mind
  <1> HIDE DEF j
  <1> QED
    BY <1>1, <1>2, <1>4, <1>6, <1>7, OneTells

\* A failure is on the record.
LEMMA FaultsTell ==
    ASSUME FieldInv, FieldInv', FollowInv, TaskIds, KnowInv, NEW h \in Handlers,
           StatementFails(h) \/ \E c \in Clients : CallFails(h, c) \/ CallUnserved(h, c)
    PROVE  KnowInv' /\ Ends
  <1>1. /\ Busy(h) /\ Name(h) \in disturbed' /\ disturbed \subseteq disturbed' /\ HandlerTypes
        /\ UNCHANGED <<store, up, registered, taskIdMap, receiver>>
    BY TypeParts DEF StatementFails, CallFails, CallUnserved, Called, At, Fault, Name, living, pushing,
                     FieldInv, NameInv
  <1>2. /\ \A k \in Handlers \ {h} : handler'[k] = handler[k]
        /\ Busy(h)' => Name(h)' = Name(h)
    <2>1. CASE StatementFails(h)
      BY <1>1, <2>1, GoToFacts DEF StatementFails
    <2>2. ASSUME NEW c \in Clients, Called(h, c)
          PROVE  /\ \A k \in Handlers \ {h} : handler'[k] = handler[k]
                 /\ Busy(h)' => Name(h)' = Name(h)
      <3>1. CASE handler[h].left = {c}
        BY <1>1, <2>2, <3>1, GoToFacts DEF Called, Done
      <3>2. CASE handler[h].left # {c}
        <4>1. handler' = [handler EXCEPT ![h].left = @ \ {c}]
          BY <2>2, <3>2 DEF Called
        <4>2. handler[h] \in Working
          BY <1>1 DEF HandlerTypes, Busy
        <4> QED
          BY <1>1, <4>1, <4>2 DEF HandlerTypes, Working, Name
      <3> QED
        BY <3>1, <3>2
    <2> QED
      BY <2>1, <2>2 DEF CallFails, CallUnserved
  <1>3. \A n : Untouched(n)
    BY <1>1, StoreUntouched
  <1>4. ~Calm(h)'
    BY <1>1, <1>2 DEF Calm
  <1> QED
    BY <1>1, <1>2, <1>3, <1>4, OneTells

-----------------------------------------------------------------------------
(* The fan-outs.                                                             *)

\* The places of the requests whose fan-outs end: each calls the pushers last.
LEMMA FinalPlaces ==
    ASSUME FieldInv, TaskIds, NEW h \in Handlers, Calm(h), Plan(h), handler[h].at \in FanOuts
    PROVE  /\ handler[h].op \in {"changeStat"} \cup SubOps => handler[h].at = "dispatchers"
           /\ handler[h].op \in PushOps => handler[h].at = "pushers"
           /\ handler[h].at = "pushersAdd" => handler[h].op = "add"
           /\ handler[h].op \in {"add", "update", "delete", "changeStat"} \cup SubOps \cup PushOps
           /\ handler[h].op \in {"add", "update", "delete"} \cup PushOps =>
                 /\ handler[h].op \notin SubOps
                 /\ handler[h].at = Final(h) => Then(handler[h].op, handler[h].at) = "idle"
                 /\ handler[h].at # Final(h) => Then(handler[h].op, handler[h].at) \in FanOuts
           /\ handler[h].op \in {"changeStat"} \cup SubOps => Then(handler[h].op, handler[h].at) = "idle"
           /\ handler[h].at \notin Statements
  <1>1. handler[h].op \in Ops /\ Busy(h)
    BY TypeParts DEF FieldInv, NameInv, HandlerTypes, Calm, Busy, Working
  <1>2. handler[h].at = "pushersAdd" => handler[h].op = "add"
    BY <1>1 DEF TaskIds, OwnId
  <1>3. /\ handler[h].op \in {"changeStat"} \cup SubOps => handler[h].at = "dispatchers"
        /\ handler[h].op \in PushOps => handler[h].at = "pushers"
    BY DEF Plan, Program, SubOps, PushOps, FanOuts
  <1>4. handler[h].at \notin Statements
    BY DEF FanOuts, Statements
  <1>5. handler[h].op \in {"add", "update", "delete"} \cup PushOps =>
           /\ handler[h].op \notin SubOps
           /\ handler[h].at = Final(h) => Then(handler[h].op, handler[h].at) = "idle"
           /\ handler[h].at # Final(h) => Then(handler[h].op, handler[h].at) \in FanOuts
    BY <1>2, <1>3 DEF SubOps, PushOps, Then, Final, FanOuts
  <1>6. handler[h].op \in {"changeStat"} \cup SubOps => Then(handler[h].op, handler[h].at) = "idle"
    BY <1>3 DEF Then, SubOps
  <1> QED
    BY <1>1, <1>2, <1>3, <1>4, <1>5, <1>6 DEF Ops

\* Calm handlers at a fan-out that are unaware of a pusher ...
LEMMA UnawarePlaces ==
    ASSUME FieldInv, TaskIds, NEW h \in Handlers, Calm(h), Plan(h), handler[h].at \in FanOuts, NEW p
    PROVE  Unaware(h, p) <=>
              /\ handler[h].op \in {"add", "update", "delete"} \cup PushOps
              /\ handler[h].at = Final(h) =>
                    handler[h].left = None \/ p \in handler[h].left \cap registered
  BY FinalPlaces DEF Unaware

\* A handler that is done with a fan-out has ended, or has the last one before it.
LEMMA DoneTells ==
    ASSUME FieldInv, TaskIds, NEW h \in Handlers, Calm(h), Plan(h), PushPlan(h),
           handler[h].at \in FanOuts, Done(h), Untouched(Name(h)), Busy(h)'
    PROVE  /\ PushPlan(h)' /\ handler[h].op \in {"add", "update", "delete"} \cup PushOps
           /\ handler[h].at # Final(h) /\ \A p : Unaware(h, p) /\ Unaware(h, p)'
           /\ handler'[h].op = handler[h].op /\ handler'[h].id = handler[h].id
           /\ handler'[h].task = handler[h].task /\ Name(h)' = Name(h)
  <1>1. HandlerTypes /\ Busy(h) /\ GoTo(h, Then(handler[h].op, handler[h].at))
    BY TypeParts DEF Done, Calm, FieldInv, NameInv
  <1>2. /\ Then(handler[h].op, handler[h].at) # "idle"
        /\ handler'[h].at = Then(handler[h].op, handler[h].at) /\ handler'[h].left = None
        /\ handler'[h].op = handler[h].op /\ handler'[h].id = handler[h].id
        /\ handler'[h].task = handler[h].task /\ Name(h)' = Name(h)
    BY <1>1, GoToFacts
  <1>3. /\ handler[h].op \in {"add", "update", "delete"} \cup PushOps /\ handler[h].at # Final(h)
        /\ handler'[h].at \in FanOuts
    BY <1>2, FinalPlaces
  <1>4. \A p : Unaware(h, p)
    BY <1>3, UnawarePlaces
  <1>5. Final(h)' = Final(h)
    BY <1>2 DEF Final
  <1>6. \A p : Unaware(h, p)'
    BY <1>2, <1>3, <1>5 DEF Unaware
  <1>7. PushPlan(h)'
    <2>1. Present(h) => rows'[handler[h].id] = rows[handler[h].id] /\ fields'[handler[h].id] = fields[handler[h].id]
      BY DEF Plan, Untouched, Listed
    <2>2. handler[h].op # "delete" => Present(h)
      BY DEF Present, FanOuts
    <2>3. handler[h].op # "changeStat"
      BY <1>3 DEF PushOps
    <2>4. handler[h].op \in PushOps => handler[h].op # "delete"
      BY DEF PushOps
    <2> QED
      BY <1>2, <2>1, <2>2, <2>3, <2>4 DEF PushPlan
  <1> QED
    BY <1>2, <1>3, <1>4, <1>6, <1>7

\* A pusher that knows the name may be called all the same.
LEMMA KnowsIsFit ==
    ASSUME FieldInv, TaskIds, NEW h \in Handlers, Calm(h), Plan(h), handler[h].at = Final(h),
           NEW p, Knows(p, Name(h)), Dropped(h, p)
    PROVE  Fit(h, p)
  <1>1. handler[h].at \in FanOuts
    BY DEF Final, FanOuts
  <1>2. handler[h].op # "changeStat"
    BY <1>1, FinalPlaces DEF Final
  <1>3. handler[h].op \in {"update"} \cup PushOps => handler[h].id \in Listed(Name(h))
    BY DEF Plan, Present, PushOps
  <1> QED
    BY <1>2, <1>3 DEF Fit, Knows, Dropped

\* A pusher that needs no call knows the name already.
LEMMA UncalledKnows ==
    ASSUME FieldInv, TaskIds, NEW h \in Handlers, Calm(h), Plan(h), PushPlan(h), NEW p, Fit(h, p),
           handler[h].op \in {"add", "update", "delete"} \cup PushOps,
           handler[h].at = Final(h), CallOf(h) = "none"
    PROVE  Knows(p, Name(h)) /\ handler[h].op # "delete"
  <1>1. handler[h].op = "update" /\ ~handler[h].task.row.push
    <2>1. handler[h].at = "pushersAdd" => CallOf(h) = "Add"
      BY DEF CallOf
    <2>2. handler[h].at = "pushers" /\ handler[h].op = "delete" => CallOf(h) = "Delete"
      BY DEF CallOf
    <2>3. handler[h].at = "pushers" /\ handler[h].op \in PushOps => CallOf(h) \in {"Start", "Stop"}
      BY DEF CallOf, PushOps
    <2>4. handler[h].at = "pushers" /\ handler[h].op = "update" /\ handler[h].task.row.push =>
             CallOf(h) = "Update"
      BY DEF CallOf
    <2>5. handler[h].at = IF handler[h].op = "add" THEN "pushersAdd" ELSE "pushers"
      BY DEF Final
    <2> QED
      BY <2>1, <2>2, <2>3, <2>4, <2>5
  <1>2. handler[h].id \in Listed(Name(h)) /\ ~rows[handler[h].id].push
    BY <1>1 DEF Plan, Present, PushPlan, FanOuts, Final
  <1>3. \A i \in Listed(Name(h)) : i = handler[h].id
    BY <1>2, ListedOnce DEF Calm
  <1> QED
    BY <1>1, <1>2, <1>3 DEF Fit, Knows

\* What a call to a pusher leaves alone.
LEMMA PusherFrame ==
    ASSUME FieldInv, TaskIds, NEW h \in Handlers, Busy(h), NEW p \in Pushers,
           PusherDoes(p, CallOf(h), handler[h].task)
    PROVE  /\ \A q \in Pushers, n \in Names : q # p \/ n # Name(h) => receiver'[q][n] = receiver[q][n]
           /\ \A q \in Pushers, i \in Ids : q # p \/ i # handler[h].id => taskIdMap'[q][i] = taskIdMap[q][i]
  <1>1. ProcessTypes /\ handler[h] \in Working /\ OwnId(h)
    BY TypeParts DEF FieldInv, NameInv, HandlerTypes, Busy, TaskIds
  <1>2. handler[h].task.id \in 0 .. MaxId /\ handler[h].task.id \in {0, handler[h].id}
    BY <1>1 DEF Working, Tasks, OwnId
  <1>3. \A q \in Pushers, i \in Ids : q # p \/ i # handler[h].task.id => taskIdMap'[q][i] = taskIdMap[q][i]
    <2>1. \E v : taskIdMap' = [taskIdMap EXCEPT ![p] = [taskIdMap[p] EXCEPT ![handler[h].task.id] = v]]
      BY <1>1 DEF PusherDoes, ProcessTypes
    <2>2. \A q \in Pushers : taskIdMap[q] \in [0 .. MaxId -> {None} \cup SUBSET Settings]
      BY <1>1 DEF ProcessTypes
    <2>3. \A i \in Ids : i \in 0 .. MaxId
      BY DEF Ids
    <2> QED
      BY <1>1, <2>1, <2>2, <2>3 DEF ProcessTypes
  <1>4. \A q \in Pushers, n \in Names : q # p \/ n # Name(h) => receiver'[q][n] = receiver[q][n]
    BY <1>1 DEF PusherDoes, ProcessTypes, Name
  <1>5. \A i \in Ids : i # 0
    BY DEF Ids
  <1> QED
    BY <1>2, <1>3, <1>4, <1>5

\* A pusher that has done what the last call asks for knows the name, and has
\* nothing left of a task that was deleted.
LEMMA CalledKnows ==
    ASSUME FieldInv, TaskIds, NEW h \in Handlers, Calm(h), Plan(h), PushPlan(h), NEW p \in Pushers,
           Fit(h, p), handler[h].op \in {"add", "update", "delete"} \cup PushOps,
           handler[h].at = Final(h), PusherDoes(p, CallOf(h), handler[h].task), UNCHANGED store,
           NEW n \in Names, n = Name(h)
    PROVE  /\ Knows(p, n)'
           /\ handler[h].op = "delete" => taskIdMap'[p][handler[h].id] = None
  <1> DEFINE i == handler[h].id
             t == handler[h].task
             known == receiver[p][n] # "none"
             call == CallOf(h)
  <1>1. /\ ProcessTypes /\ handler[h] \in Working /\ OwnId(h) /\ t.id \in 0 .. MaxId
        /\ t.fields \in SUBSET Settings /\ t.fields # None
    <2>1. ProcessTypes /\ handler[h] \in Working /\ OwnId(h)
      BY TypeParts DEF FieldInv, NameInv, HandlerTypes, Calm, Busy, TaskIds
    <2>2. t.id \in 0 .. MaxId /\ t.fields \in SUBSET Settings
      BY <2>1 DEF Working, Tasks
    <2>3. t.fields \in SUBSET (Settings \cup Dispatchers \cup Pushers)
      BY <2>2
    <2> QED
      BY <2>1, <2>2, <2>3, ControlAssumption DEF ControlAssumption
  <1>2. taskIdMap'[p][t.id] = CASE call = "Add"                -> t.fields
                                [] call = "Update" /\ taskIdMap[p][t.id] # None -> t.fields
                                [] call = "Delete" /\ known    -> None
                                [] call \in {"Start", "Stop"} /\ known -> t.fields
                                [] OTHER                       -> taskIdMap[p][t.id]
    BY <1>1 DEF PusherDoes, ProcessTypes, Name
  <1>3. receiver'[p][n] = CASE call = "Add"             -> IF t.row.stat \/ t.row.push THEN "receiving" ELSE "idle"
                            [] call = "Start" /\ known  -> "receiving"
                            [] call = "Stop" /\ known   -> "idle"
                            [] call = "Delete" /\ known -> "none"
                            [] OTHER                    -> receiver[p][n]
    BY <1>1 DEF PusherDoes, ProcessTypes, Name
  <1>4. Listed(n)' = Listed(n) /\ rows' = rows /\ fields' = fields
    BY DEF store, Listed
  <1>5. t.id = i
    BY <1>1 DEF OwnId, PushPlan, Final, FanOuts
  <1>6. ASSUME handler[h].op # "delete"
        PROVE  i \in Listed(n) /\ \A k \in Listed(n) : k = i
    <2>1. i \in Listed(n)
      BY <1>6 DEF Plan, Present, Final
    <2> QED
      BY <2>1, ListedOnce DEF Calm
  <1> HIDE DEF i, t, known, call
  <1>7. CASE handler[h].op = "delete"
    <2>1. call = "Delete" /\ Listed(n) = {}
      BY <1>7 DEF CallOf, Plan, Gone, Final, call
    <2>2. ~known => taskIdMap[p][i] = None
      BY <1>7 DEF Fit, known, i
    <2>3. receiver'[p][n] = "none" /\ taskIdMap'[p][i] = None
      BY <1>2, <1>3, <1>5, <2>1, <2>2 DEF known
    <2> QED
      BY <1>4, <2>1, <2>3 DEF Knows, i
  <1>8. CASE handler[h].op # "delete"
    <2> SUFFICES /\ receiver'[p][n] # "none" /\ taskIdMap'[p][i] # None
                 /\ rows[i].push => taskIdMap'[p][i] = fields[i]
      BY <1>4, <1>6, <1>8 DEF Knows
    <2>1. CASE handler[h].op = "add"
      <3>1. call = "Add" /\ fields[i] = t.fields
        <4>1. handler[h].at = "pushersAdd"
          BY <2>1 DEF Final
        <4>2. call = "Add"
          BY <4>1 DEF CallOf, call
        <4> QED
          BY <2>1, <4>1, <4>2 DEF Plan, FanOuts, i, t
      <3> QED
        BY <1>1, <1>2, <1>3, <1>5, <3>1
    <2>2. CASE handler[h].op = "update"
      <3>1. /\ call = IF t.row.push THEN "Update" ELSE "none"
            /\ rows[i].push = t.row.push /\ fields[i] = t.fields
        BY <2>2 DEF CallOf, Final, Plan, PushPlan, FanOuts, call, i, t
      <3>2. known /\ taskIdMap[p][i] # None
        BY <2>2 DEF Fit, known, i
      <3> QED
        BY <1>1, <1>2, <1>3, <1>5, <3>1, <3>2 DEF known
    <2>3. CASE handler[h].op \in PushOps
      <3>1. call \in {"Start", "Stop"} /\ fields[i] = t.fields
        BY <2>3 DEF CallOf, Final, PushPlan, PushOps, call, i, t
      <3>2. known
        BY <2>3 DEF Fit, known, i
      <3> QED
        BY <1>1, <1>2, <1>3, <1>5, <3>1, <3>2
    <2> QED
      BY <1>8, <2>1, <2>2, <2>3
  <1> QED
    BY <1>7, <1>8

-----------------------------------------------------------------------------
(* Fan-outs and calls.                                                       *)

\* The clients the last fan-out begins with are all the pushers that run, or
\* the name is disturbed; without a call they know the name already.
LEMMA IterTells ==
    ASSUME FieldInv, FieldInv', FollowInv, TaskIds, KnowInv, NEW h \in Handlers, Iter(h)
    PROVE  KnowInv' /\ Ends
  <1> DEFINE at == handler[h].at
             targets == IF CallOf(h) = "none" THEN {} ELSE Kind(at) \cap registered
  <1>1. /\ HandlerTypes /\ Busy(h) /\ at \in FanOuts /\ handler[h].left = None
        /\ handler[h] \in Working /\ Name(h) \in Names
        /\ UNCHANGED <<store, up, registered, taskIdMap, receiver>>
        /\ disturbed \subseteq disturbed'
        /\ Name(h) \notin disturbed' => Kind(at) \cap up \subseteq registered
    BY TypeParts, BusyNames DEF Iter, At, FieldInv, NameInv, HandlerTypes, Busy, Name, living, pushing
  <1>2. \/ targets = {} /\ Done(h)
        \/ targets # {} /\ handler' = [handler EXCEPT ![h].left = targets]
    <2>1. CASE targets = {}
      BY <2>1 DEF Iter
    <2>2. CASE targets # {}
      BY <2>2 DEF Iter
    <2> QED
      BY <2>1, <2>2
  <1>3. \A n : Untouched(n)
    BY <1>1, StoreUntouched
  <1>4. Calm(h) => Plan(h) /\ PushPlan(h) /\ \A p \in Pushers \cap up : Mind(h, p, Name(h))
    BY <1>1, MindsAlone DEF Calm, FollowInv, KnowInv
  <1>5. Name(h) \notin disturbed' /\ at = Final(h) => Pushers \cap up \subseteq Kind(at) \cap registered
    BY <1>1 DEF Kind, Final
  <1>6. CASE targets # {}
    <2>1. /\ \A k \in Handlers \ {h} : handler'[k] = handler[k]
          /\ Stays(h) /\ Name(h)' = Name(h) /\ handler'[h].left = targets
      BY <1>1, <1>2, <1>6 DEF HandlerTypes, Working, Stays, Name
    <2>2. targets # None
      <3>1. targets \in SUBSET (Settings \cup Dispatchers \cup Pushers)
        BY DEF Kind
      <3> QED
        BY <3>1, ControlAssumption DEF ControlAssumption
    <2>3. Busy(h)'
      BY <1>1, <2>1 DEF Busy, Idle, Stays, FanOuts
    <2>4. Calm(h)' => PushPlan(h)'
      BY <1>1, <1>3, <1>4, <2>1, PushPlanKept DEF Calm
    <2>5. ASSUME Name(h) \notin disturbed', NEW p \in Pushers \cap up, NEW n \in Names, n = Name(h)
          PROVE  Mind(h, p, n)'
      <3>1. Calm(h) /\ Plan(h) /\ Mind(h, p, n)
        BY <1>1, <1>4, <2>5 DEF Calm
      <3>2. at = Final(h) => p \in targets \cap registered
        BY <1>5, <1>6, <2>5
      <3>3. Final(h)' = Final(h)
        BY <2>1 DEF Final, Stays
      <3>4. handler'[h].left = targets /\ handler'[h].at = at /\ handler'[h].op = handler[h].op
        BY <2>1 DEF Stays
      <3> HIDE DEF targets, at
      <3>5. Unaware(h, p) <=> handler[h].op \in {"add", "update", "delete"} \cup PushOps
        BY <1>1, <3>1, UnawarePlaces DEF at
      <3>6. at \notin Statements
        BY <1>1 DEF FanOuts, Statements
      <3>7. Unaware(h, p)' = Unaware(h, p)
        BY <1>1, <3>2, <3>3, <3>4, <3>5, <3>6 DEF Unaware
      <3> QED
        BY <1>1, <1>3, <2>1, <2>5, <3>1, <3>7, MindKept
    <2> HIDE DEF at, targets
    <2> QED
      BY <1>1, <1>3, <2>1, <2>3, <2>4, <2>5, OneTells
  <1>7. CASE targets = {}
    <2>1. GoTo(h, Then(handler[h].op, at)) /\ Done(h)
      BY <1>2, <1>7 DEF Done
    <2>2. /\ \A k \in Handlers \ {h} : handler'[k] = handler[k]
          /\ Busy(h)' => Name(h)' = Name(h)
      BY <1>1, <2>1, GoToFacts
    <2>3. Calm(h)' => PushPlan(h)'
      <3> SUFFICES ASSUME Calm(h)' PROVE PushPlan(h)'
        OBVIOUS
      <3>1. Calm(h) /\ Plan(h) /\ PushPlan(h) /\ Busy(h)'
        BY <1>1, <1>4, <2>2 DEF Calm
      <3> QED
        BY <1>1, <1>3, <2>1, <3>1, DoneTells
    <2>4. ASSUME Name(h) \notin disturbed', NEW p \in Pushers \cap up, NEW n \in Names, n = Name(h)
          PROVE  IF Busy(h)' THEN Mind(h, p, n)'
                 ELSE Knows(p, n)' /\ (handler[h].op = "delete" => taskIdMap'[p][handler[h].id] = None)
      <3>1. Calm(h) /\ Plan(h) /\ PushPlan(h) /\ Mind(h, p, n)
        BY <1>1, <1>4, <2>4 DEF Calm
      <3>2. CASE Busy(h)'
        <4>1. /\ Unaware(h, p) /\ Unaware(h, p)'
              /\ handler'[h].op = handler[h].op /\ handler'[h].id = handler[h].id
              /\ handler'[h].task = handler[h].task /\ Name(h)' = Name(h)
          BY <1>1, <1>3, <2>1, <3>1, <3>2, DoneTells
        <4>2. Fit(h, p)'
          BY <1>1, <3>1, <4>1 DEF Fit, Mind
        <4> QED
          BY <3>2, <4>1, <4>2 DEF Mind
      <3>3. CASE ~Busy(h)'
        <4>1. Knows(p, n) /\ Dropped(h, p)
          <5>1. CASE ~Unaware(h, p)
            BY <3>1, <5>1 DEF Mind
          <5>2. CASE Unaware(h, p)
            <6>1. Then(handler[h].op, at) = "idle"
              BY <1>1, <2>1, <3>3, GoToFacts
            <6>2. handler[h].op \in {"add", "update", "delete"} \cup PushOps /\ at = Final(h)
              BY <1>1, <3>1, <5>2, <6>1, FinalPlaces, UnawarePlaces DEF FanOuts
            <6>3. CallOf(h) = "none"
              BY <1>5, <1>7, <2>4, <6>2
            <6> QED
              BY <2>4, <3>1, <5>2, <6>2, <6>3, UncalledKnows DEF Mind, Dropped
          <5> QED
            BY <5>1, <5>2
        <4>2. Knows(p, n)'
          BY <1>1, <1>3, <4>1, KnowsKept
        <4> QED
          BY <1>1, <3>3, <4>1, <4>2 DEF Dropped
      <3> QED
        BY <3>2, <3>3
    <2> HIDE DEF at, targets
    <2> QED
      BY <1>1, <1>3, <2>2, <2>3, <2>4, OneTells
  <1> QED
    BY <1>6, <1>7

\* The pusher that is called last knows the name afterwards, the others are left alone.
LEMMA CallTells ==
    ASSUME FieldInv, FieldInv', Aimed, FollowInv, TaskIds, KnowInv,
           NEW h \in Handlers, NEW c \in Clients, Call(h, c) \/ Panics(h, c)
    PROVE  KnowInv' /\ Ends
  <1> DEFINE at == handler[h].at
  <1>1. /\ HandlerTypes /\ ProcessTypes /\ Busy(h) /\ at \in FanOuts /\ handler[h].left # None
        /\ c \in handler[h].left /\ c \in Kind(at)
        /\ handler[h] \in Working /\ Name(h) \in Names
        /\ UNCHANGED <<store, up, disturbed>>
        /\ \A p \in up : p \in registered' <=> p \in registered
    BY TypeParts, BusyNames
       DEF Call, Panics, Called, FieldInv, NameInv, FollowInv, Fanning, Aimed, HandlerTypes, Busy, Name,
           living, history
  <1>2. \/ handler[h].left = {c} /\ Done(h)
        \/ handler[h].left # {c} /\ handler' = [handler EXCEPT ![h].left = @ \ {c}]
    BY DEF Call, Panics, Called
  <1>3. \A n : Untouched(n)
    BY <1>1, StoreUntouched
  <1>4. \/ UNCHANGED <<taskIdMap, receiver>> /\ (c \in Pushers => c \notin registered)
        \/ c \in Pushers /\ PusherDoes(c, CallOf(h), handler[h].task)
    <2>1. CASE Call(h, c)
      BY <2>1, ControlAssumption DEF Call, DispatcherDoes, pushing, ControlAssumption
    <2>2. CASE Panics(h, c)
      BY <2>2, ControlAssumption DEF Panics, pushing, ControlAssumption
    <2> QED
      BY <2>1, <2>2
  <1>5. /\ \A q \in Pushers, n \in Names : q # c \/ n # Name(h) => receiver'[q][n] = receiver[q][n]
        /\ \A q \in Pushers, i \in Ids : q # c \/ i # handler[h].id => taskIdMap'[q][i] = taskIdMap[q][i]
    BY <1>1, <1>4, PusherFrame
  <1>6. /\ \A k \in Handlers \ {h} : handler'[k] = handler[k]
        /\ Busy(h)' => Name(h)' = Name(h)
        /\ handler[h].left # {c} => Busy(h)' /\ Stays(h) /\ handler'[h].left = handler[h].left \ {c}
    <2>1. CASE handler[h].left = {c}
      BY <1>1, <1>2, <2>1, GoToFacts DEF Done
    <2>2. CASE handler[h].left # {c}
      <3>1. /\ \A k \in Handlers \ {h} : handler'[k] = handler[k]
            /\ Stays(h) /\ Name(h)' = Name(h) /\ handler'[h].left = handler[h].left \ {c}
        BY <1>1, <1>2, <2>2 DEF HandlerTypes, Working, Stays, Name
      <3>2. Busy(h)'
        BY <1>1, <3>1 DEF Busy, Idle, Stays, FanOuts
      <3> QED
        BY <3>1, <3>2
    <2> QED
      BY <2>1, <2>2
  <1>7. Calm(h) => Plan(h) /\ PushPlan(h) /\ \A p \in Pushers \cap up : Mind(h, p, Name(h))
    BY <1>1, MindsAlone DEF Calm, FollowInv, KnowInv
  <1>8. Calm(h)' => PushPlan(h)'
    <2> SUFFICES ASSUME Calm(h)' PROVE PushPlan(h)'
      OBVIOUS
    <2>1. Calm(h) /\ Plan(h) /\ PushPlan(h) /\ Busy(h)'
      BY <1>1, <1>6, <1>7 DEF Calm
    <2>2. CASE handler[h].left = {c}
      BY <1>1, <1>2, <1>3, <2>1, <2>2, DoneTells
    <2>3. CASE handler[h].left # {c}
      BY <1>1, <1>3, <1>6, <2>1, <2>3, PushPlanKept
    <2> QED
      BY <2>2, <2>3
  <1>9. handler[h].left # {c} => handler'[h].left # None
    <2>1. handler[h].left \ {c} \in SUBSET (Settings \cup Dispatchers \cup Pushers)
      BY <1>1 DEF Working, Clients
    <2> QED
      BY <1>6, <2>1, ControlAssumption DEF ControlAssumption
  <1>10. ASSUME Name(h) \notin disturbed', NEW p \in Pushers \cap up, NEW n \in Names, n = Name(h)
         PROVE  IF Busy(h)' THEN Mind(h, p, n)'
                ELSE Knows(p, n)' /\ (handler[h].op = "delete" => taskIdMap'[p][handler[h].id] = None)
    <2>1. Calm(h) /\ Plan(h) /\ PushPlan(h) /\ Mind(h, p, n)
      BY <1>1, <1>7, <1>10 DEF Calm
    <2>2. handler[h].op # "add" => handler[h].id \in Ids
      BY <1>1 DEF TaskIds, OwnId
    <2>3. \A i \in Ids : p # c => taskIdMap'[p][i] = taskIdMap[p][i]
      BY <1>5, <1>10
    <2>4. \A i \in Listed(n) : i \in Ids
      BY DEF Listed
    <2>5. CASE ~(handler[h].op \in {"add", "update", "delete"} \cup PushOps)
      <3>1. at = "dispatchers" /\ Then(handler[h].op, at) = "idle" /\ handler[h].op \notin PushOps
        BY <1>1, <2>1, <2>5, FinalPlaces
      <3>2. c \notin Pushers
        BY <1>1, <3>1, ControlAssumption DEF Kind, ControlAssumption
      <3>3. ~Unaware(h, p)
        BY <1>1, <2>1, <2>5, UnawarePlaces
      <3>4. Knows(p, n) /\ Dropped(h, p) /\ Knows(p, n)'
        BY <1>3, <1>4, <2>1, <3>2, <3>3, KnowsKept DEF Mind
      <3>5. CASE Busy(h)'
        <4>1. Stays(h)
          BY <1>1, <1>2, <1>6, <3>1, <3>5, GoToFacts DEF Done
        <4>2. ~Unaware(h, p)' /\ Dropped(h, p)'
          <5>1. at \notin Statements
            BY <1>1 DEF FanOuts, Statements
          <5> QED
            BY <2>5, <4>1, <5>1 DEF Unaware, Dropped, Stays
        <4> QED
          BY <3>4, <3>5, <4>2 DEF Mind
      <3> QED
        BY <2>5, <3>4, <3>5
    <2>6. CASE handler[h].op \in {"add", "update", "delete"} \cup PushOps /\ at # Final(h)
      <3>1. Busy(h)'
        <4>1. Then(handler[h].op, at) \in FanOuts
          BY <1>1, <2>1, <2>6, FinalPlaces
        <4> QED
          BY <1>1, <1>2, <1>6, <4>1, GoToFacts DEF Done, FanOuts
      <3>2. Unaware(h, p)
        BY <1>1, <2>1, <2>6, UnawarePlaces
      <3>3. /\ Unaware(h, p)'
            /\ handler'[h].op = handler[h].op /\ handler'[h].id = handler[h].id
            /\ handler'[h].task = handler[h].task /\ Name(h)' = Name(h)
        <4>1. CASE handler[h].left = {c}
          BY <1>1, <1>2, <1>3, <2>1, <3>1, <4>1, DoneTells
        <4>2. CASE handler[h].left # {c}
          <5>1. Stays(h) /\ Final(h)' = Final(h)
            BY <1>6, <4>2 DEF Stays, Final
          <5>2. Unaware(h, p)'
            BY <1>1, <2>6, <5>1 DEF Unaware, Stays
          <5> QED
            BY <1>6, <3>1, <5>1, <5>2 DEF Stays
        <4> QED
          BY <4>1, <4>2
      <3>4. Fit(h, p)'
        <4>1. CASE handler[h].op = "add"
          BY <3>3, <4>1 DEF Fit, PushOps
        <4>2. CASE handler[h].op # "add"
          <5>1. at = "dispatchers"
            BY <1>1, <2>1, <2>6, <4>2, FinalPlaces DEF FanOuts, Final
          <5>2. c \notin Pushers
            BY <1>1, <5>1, ControlAssumption DEF Kind, ControlAssumption
          <5> QED
            BY <1>4, <2>1, <3>2, <3>3, <5>2 DEF Fit, Mind
        <4> QED
          BY <4>1, <4>2
      <3> QED
        BY <3>1, <3>3, <3>4 DEF Mind
    <2>7. CASE handler[h].op \in {"add", "update", "delete"} \cup PushOps /\ at = Final(h)
      <3>1. at \in FanOuts /\ (Busy(h)' => handler[h].left # {c})
        <4>1. Then(handler[h].op, at) = "idle"
          BY <1>1, <2>1, <2>7, FinalPlaces
        <4> QED
          BY <1>1, <1>2, <4>1, GoToFacts DEF Done
      <3>2. Unaware(h, p) <=> p \in handler[h].left \cap registered
        BY <1>1, <2>1, <2>7, UnawarePlaces
      <3>3. Busy(h)' => /\ Stays(h) /\ Calm(h)' /\ Plan(h)'
                        /\ Unaware(h, p)' <=> p \in (handler[h].left \ {c}) \cap registered
        <4> SUFFICES ASSUME Busy(h)'
                     PROVE  /\ Stays(h) /\ Calm(h)' /\ Plan(h)'
                            /\ Unaware(h, p)' <=> p \in (handler[h].left \ {c}) \cap registered
          OBVIOUS
        <4>1. /\ Stays(h) /\ handler'[h].left = handler[h].left \ {c} /\ handler'[h].left # None
              /\ Name(h)' = Name(h)
          BY <1>6, <1>9, <3>1
        <4>2. Calm(h)'
          BY <1>10, <4>1 DEF Calm
        <4>3. Final(h)' = Final(h) /\ at \notin Statements
          BY <1>1, <4>1 DEF Final, Stays, FanOuts, Statements
        <4>4. Plan(h)'
          BY <1>1, <1>3, <2>1, <4>1, PlanKept DEF Call, Panics, history
        <4>5. Unaware(h, p)' <=> p \in (handler[h].left \ {c}) \cap registered
          BY <1>1, <2>7, <4>1, <4>3 DEF Unaware, Stays
        <4> QED
          BY <4>1, <4>2, <4>4, <4>5
      <3>4. CASE p # c
        <4>1. Mind(h, p, n) /\ (Busy(h)' => Unaware(h, p)' = Unaware(h, p))
          <5>1. Unaware(h, p) \in BOOLEAN /\ Unaware(h, p)' \in BOOLEAN
            BY DEF Unaware
          <5> QED
            BY <2>1, <3>2, <3>3, <3>4, <5>1
        <4>2. Busy(h)' => Mind(h, p, n)'
          BY <1>3, <1>5, <1>10, <2>2, <2>3, <2>4, <3>3, <3>4, <4>1, MindKept
        <4>3. ~Busy(h)' => Knows(p, n) /\ Dropped(h, p)
          <5>1. ~Busy(h)' => handler[h].left = {c}
            BY <1>6
          <5> QED
            BY <3>2, <3>4, <4>1, <5>1 DEF Mind
        <4>4. ~Busy(h)' => Knows(p, n)'
          BY <1>3, <1>5, <1>10, <2>3, <2>4, <3>4, <4>3, KnowsKept
        <4> QED
          BY <2>2, <2>3, <3>4, <4>2, <4>3, <4>4 DEF Dropped
      <3>5. CASE p = c
        <4>1. ~Unaware(h, p) => Knows(p, n) /\ Dropped(h, p)
          BY <2>1 DEF Mind
        <4>2. Fit(h, p)
          BY <1>10, <2>1, <2>7, <4>1, KnowsIsFit DEF Mind
        <4>3. Knows(p, n)' /\ (handler[h].op = "delete" => taskIdMap'[p][handler[h].id] = None)
          <5>1. CASE UNCHANGED <<taskIdMap, receiver>> /\ c \notin registered
            <6>1. Knows(p, n) /\ Dropped(h, p)
              BY <3>2, <3>5, <4>1, <5>1
            <6> QED
              BY <1>3, <5>1, <6>1, KnowsKept DEF Dropped
          <5>2. CASE PusherDoes(c, CallOf(h), handler[h].task)
            BY <1>1, <1>10, <2>1, <2>7, <3>5, <4>2, <5>2, CalledKnows
          <5> QED
            BY <1>4, <1>10, <3>5, <5>1, <5>2
        <4>4. Busy(h)' => ~Unaware(h, p)' /\ (handler[h].op = "delete" => Dropped(h, p)')
          BY <3>3, <3>5, <4>3 DEF Dropped, Stays
        <4>5. Busy(h)' => Mind(h, p, n)'
          BY <3>3, <4>3, <4>4 DEF Mind, Dropped, Stays
        <4> QED
          BY <4>3, <4>5
      <3> QED
        BY <3>4, <3>5
    <2> QED
      BY <2>5, <2>6, <2>7
  <1> HIDE DEF at
  <1>11. \A p \in Pushers, i \in Ids : i # handler[h].id => taskIdMap'[p][i] = taskIdMap[p][i]
    BY <1>5
  <1>12. \A n \in Names \ {Name(h)} :
              Untouched(n) /\ \A p \in Pushers : receiver'[p][n] = receiver[p][n]
    BY <1>3, <1>5
  <1> QED
    BY <1>1, <1>6, <1>8, <1>10, <1>11, <1>12, OneTells

-----------------------------------------------------------------------------
(* Requests.                                                                 *)

\* A request about a name nobody works on finds every pusher knowing, hence fit
\* for what it asks.
LEMMA RequestTells ==
    ASSUME FieldInv, FieldInv', FollowInv, TaskIds, KnowInv, NEW h \in Handlers, NEW op \in Ops,
           NEW i \in 0 .. MaxId, NEW t \in Tasks, Receive(h, op, i, t),
           op # "add" => i \in Listed(t.row.name),
           op = "changeStat" => t.row.push = rows[i].push /\ t.fields = fields[i],
           op \in PushOps => t.fields = fields[i]
    PROVE  KnowInv' /\ Ends
  <1> DEFINE n == t.row.name
  <1>1. /\ \A k \in Handlers \ {h} : handler'[k] = handler[k]
        /\ ~Busy(h) /\ Busy(h)' /\ Name(h)' = n
        /\ handler'[h].op = op /\ handler'[h].id = i /\ handler'[h].at = First(op)
        /\ handler'[h].task = t
        /\ disturbed \subseteq disturbed'
        /\ Active(n) => n \in disturbed'
        /\ UNCHANGED <<store, up, registered, taskIdMap, receiver>>
    <2>1. UNCHANGED <<store, up, registered, taskIdMap, receiver>>
      BY DEF Receive, living, pushing
    <2> QED
      BY <2>1, AskedParts DEF FieldInv
  <1>2. \A m : Untouched(m) /\ Listed(m)' = Listed(m)
    BY <1>1, StoreUntouched
  <1>3. \A k \in Handlers \ {h} : Busy(k)' = Busy(k) /\ Name(k)' = Name(k) /\ Stays(k)
    BY <1>1 DEF Busy, Name, Stays
  <1>4. /\ First(op) \notin {"insertRow", "insertFields"} \cup FanOuts
        /\ op \notin {"add"} \cup SubOps => First(op) \in Statements \ {"nameExists", "insertRow"}
        /\ op = "add" => First(op) = "nameExists"
    BY DEF First, FanOuts, Statements, SubOps
  <1>5. PushPlan(h)'
    <2>1. op # "add" => rows'[i] = rows[i] /\ fields'[i] = fields[i]
      BY <1>1 DEF store
    <2>2. op = "changeStat" => op # "add"
      OBVIOUS
    <2>3. op \in PushOps => op # "add"
      BY DEF PushOps
    <2> HIDE DEF n
    <2>4. /\ op = "changeStat" => rows'[i].push = t.row.push /\ fields'[i] = t.fields
          /\ op \in PushOps => fields'[i] = t.fields
      BY <2>1, <2>2, <2>3
    <2> QED
      BY <1>1, <1>4, <2>4 DEF PushPlan
  <1>6. ASSUME NEW k \in Handlers, Calm(k)'
        PROVE  PushPlan(k)'
    <2>1. CASE k = h
      BY <1>5, <2>1
    <2>2. CASE k # h
      <3>1. Calm(k)
        BY <1>1, <1>3, <1>6, <2>2 DEF Calm
      <3> QED
        BY <1>2, <1>3, <2>2, <3>1, PushPlanKept DEF FollowInv, KnowInv
    <2> QED
      BY <2>1, <2>2
  <1>7. ASSUME NEW p \in Pushers \cap up, NEW m \in Names \ disturbed'
        PROVE  Minds(p, m)'
    <2>1. Minds(p, m)
      BY <1>1, <1>7 DEF KnowInv
    <2>2. CASE m # n
      <3>1. \A k \in Handlers : About(k, m) \/ About(k, m)' => k # h /\ Busy(k) /\ Name(k) = m
        BY <1>1, <1>3, <1>7, <2>2 DEF About, Name
      <3>2. ASSUME NEW k \in Handlers, About(k, m) \/ About(k, m)'
            PROVE  About(k, m) /\ About(k, m)' /\ Stays(k) /\ Unaware(k, p)' = Unaware(k, p)
        <4>1. k # h /\ Busy(k) /\ Name(k) = m
          BY <3>1, <3>2
        <4>2. Unaware(k, p)' = Unaware(k, p)
          BY <1>1, <4>1 DEF Unaware, Final
        <4> QED
          BY <1>3, <4>1, <4>2 DEF About, Name
      <3> QED
        BY <1>1, <1>2, <2>1, <3>2, MindsKept
    <2>3. CASE m = n
      <3>1. About(h, m)' /\ \A k \in Handlers : ~About(k, m)
        BY <1>1, <1>7, <2>3 DEF Active, About, Name
      <3>2. Knows(p, m)
        BY <2>1, <3>1 DEF Minds
      <3>3. Knows(p, m)'
        BY <1>1, <1>2, <3>2, KnowsKept
      <3>4. \A k \in Handlers : About(k, m)' => k = h
        BY <1>3, <3>1 DEF About, Name
      <3>5. Mind(h, p, m)'
        <4>1. CASE op \in {"add"} \cup SubOps
          <5>1. Final(h)' \in FanOuts
            BY DEF Final, FanOuts
          <5>2. ~Unaware(h, p)' /\ Dropped(h, p)'
            BY <1>1, <1>4, <4>1, <5>1 DEF Unaware, Dropped, SubOps, PushOps
          <5> QED
            BY <3>3, <5>2 DEF Mind
        <4>2. CASE op \notin {"add"} \cup SubOps
          <5>1. Unaware(h, p)'
            BY <1>1, <1>4, <4>2 DEF Unaware
          <5>2. receiver[p][m] # "none" /\ taskIdMap[p][i] # None /\ (rows[i].push => taskIdMap[p][i] = fields[i])
            BY <2>3, <3>2, <4>2 DEF Knows
          <5>3. Fit(h, p)'
            BY <1>1, <2>3, <5>2 DEF Fit
          <5> QED
            BY <5>1, <5>3 DEF Mind
        <4> QED
          BY <4>1, <4>2
      <3> QED
        BY <3>1, <3>4, <3>5 DEF Minds
    <2> QED
      BY <2>2, <2>3
  <1>8. Ends
    BY <1>1, <1>3 DEF Ends, Calm
  <1> QED
    BY <1>1, <1>6, <1>7, <1>8 DEF KnowInv

\* The handlers' requests, each with the task it has made of a form or a row.
LEMMA RequestsTell ==
    ASSUME FieldInv, FieldInv', FollowInv, TaskIds, KnowInv, NEW h \in Handlers,
           \/ \E n \in Names, s \in Settings, b \in BOOLEAN : doAddTask(h, n, s, b)
           \/ \E i \in Ids, s \in Settings, b \in BOOLEAN : doUpdateTask(h, i, s, b)
           \/ \E i \in Ids, b \in BOOLEAN : changeTaskStat(h, i, b)
           \/ \E i \in Ids, op \in {"delete"} \cup SubOps \cup PushOps : doSimple(h, op, i)
    PROVE  KnowInv' /\ Ends
  <1>1. StoreTypes /\ ControlAssumption
    BY TypeParts, ControlAssumption DEF FieldInv, NameInv
  <1>2. ASSUME NEW n \in Names, NEW s \in Settings, NEW b \in BOOLEAN, doAddTask(h, n, s, b)
        PROVE  KnowInv' /\ Ends
    <2> DEFINE t == [id |-> 0, fields |-> {s},
                     row |-> copyTask([name |-> n, stat |-> FALSE, sub |-> FALSE, push |-> FALSE], b)]
    <2>1. t \in Tasks /\ 0 \in 0 .. MaxId /\ "add" \in Ops /\ "add" \notin PushOps
      BY <1>1, FormsAreTyped DEF ControlAssumption, Ops, PushOps
    <2>2. Receive(h, "add", 0, t)
      BY <1>2 DEF doAddTask
    <2> HIDE DEF t
    <2> QED
      BY <2>1, <2>2, RequestTells
  <1>3. ASSUME NEW i \in Ids, NEW op \in Ops \ {"add"}, NEW S \in SUBSET Settings, NEW b \in BOOLEAN,
               rows[i] # None,
               Receive(h, op, i, [id |-> i, fields |-> S, row |-> Requested(op, rows[i], b)]),
               op \in {"changeStat"} \cup PushOps => S = fields[i]
        PROVE  KnowInv' /\ Ends
    <2> DEFINE t == [id |-> i, fields |-> S, row |-> Requested(op, rows[i], b)]
    <2>1. t \in Tasks /\ i \in 0 .. MaxId /\ op \in Ops
      BY <1>1, <1>3, RequestsAreTyped DEF Ids
    <2>2. t.row.name = rows[i].name /\ t.fields = S
      BY <1>1, <1>3, RequestsKeepNames
    <2>3. i \in Listed(t.row.name)
      BY <1>3, <2>2 DEF Listed
    <2>4. rows[i] \in Rows
      BY <1>1, <1>3 DEF StoreTypes
    <2>5. op = "changeStat" => t.row.push = rows[i].push
      BY <2>4 DEF Requested, SubOps, PushOps, Rows
    <2>6. Receive(h, op, i, t)
      BY <1>3
    <2> HIDE DEF t
    <2> QED
      BY <1>3, <2>1, <2>2, <2>3, <2>5, <2>6, RequestTells
  <1>4. \A i \in Ids : fields[i] \in SUBSET Settings
    BY <1>1 DEF StoreTypes
  <1>5. ASSUME NEW i \in Ids, NEW s \in Settings, NEW b \in BOOLEAN, doUpdateTask(h, i, s, b)
        PROVE  KnowInv' /\ Ends
    <2>1. "update" \in Ops \ {"add"} /\ "update" \notin {"changeStat"} \cup PushOps /\ {s} \in SUBSET Settings
      BY DEF Ops, PushOps
    <2> QED
      BY <1>3, <1>5, <2>1 DEF doUpdateTask
  <1>6. ASSUME NEW i \in Ids, NEW b \in BOOLEAN, changeTaskStat(h, i, b)
        PROVE  KnowInv' /\ Ends
    <2>1. "changeStat" \in Ops \ {"add"}
      BY DEF Ops
    <2> QED
      BY <1>3, <1>4, <1>6, <2>1 DEF changeTaskStat
  <1>7. ASSUME NEW i \in Ids, NEW op \in {"delete"} \cup SubOps \cup PushOps, doSimple(h, op, i)
        PROVE  KnowInv' /\ Ends
    <2>1. op \in Ops \ {"add"}
      BY DEF Ops, SubOps, PushOps
    <2> QED
      BY <1>3, <1>4, <1>7, <2>1 DEF doSimple
  <1> QED
    BY <1>2, <1>5, <1>6, <1>7

-----------------------------------------------------------------------------
(* Processes that go and come.                                               *)

\* A step that moves no handler and changes no row keeps what handlers know.
LEMMA PushPlansKept ==
    ASSUME FollowInv, KnowInv, UNCHANGED store, disturbed \subseteq disturbed',
           \A k \in Handlers : Busy(k)' => Busy(k) /\ Stays(k)
    PROVE  \A k \in Handlers : Calm(k)' => PushPlan(k)'
  <1> SUFFICES ASSUME NEW k \in Handlers, Calm(k)' PROVE PushPlan(k)'
    OBVIOUS
  <1>1. Calm(k) /\ Stays(k)
    BY DEF Calm, Stays, Name
  <1>2. Untouched(Name(k))
    BY StoreUntouched
  <1> QED
    BY <1>1, <1>2, PushPlanKept DEF FollowInv, KnowInv

\* What the list of tasks says of a name.
LEMMA FreshMaps ==
    ASSUME FieldInv, NEW n \in Names
    PROVE  /\ InitReceivers[n] = "none" <=> Listed(n) = {}
           /\ \A i \in Listed(n) : InitIdMap[i] = fields[i] /\ InitIdMap[i] # None
           /\ \A i \in Ids : rows[i] = None => InitIdMap[i] = None
  <1>1. InitReceivers[n] = "none" <=> Listed(n) = {}
    BY DEF InitReceivers
  <1>2. \A i \in Ids : i \in 0 .. MaxId /\ i # 0
    BY DEF Ids
  <1>3. ASSUME NEW i \in Listed(n)
        PROVE  InitIdMap[i] = fields[i] /\ InitIdMap[i] # None
    <2>1. i \in Ids /\ rows[i] # None
      BY DEF Listed
    <2>2. InitIdMap[i] = fields[i]
      BY <1>2, <2>1 DEF InitIdMap
    <2>3. fields[i] \in SUBSET (Settings \cup Dispatchers \cup Pushers)
      BY <2>1 DEF FieldInv, NameInv, TypeOK
    <2> QED
      BY <2>2, <2>3, ControlAssumption DEF ControlAssumption
  <1>4. \A i \in Ids : rows[i] = None => InitIdMap[i] = None
    BY <1>2 DEF InitIdMap
  <1> QED
    BY <1>1, <1>3, <1>4

\* A pusher that starts reads the list of tasks: it knows every name, and is fit
\* for what the handlers are about to call.
LEMMA FreshMinds ==
    ASSUME FieldInv, FollowInv, TaskIds, NEW p, NEW n \in Names \ disturbed, UNCHANGED store,
           receiver'[p][n] = InitReceivers[n],
           \A i \in Ids : i \in Listed(n) \/ rows[i] = None => taskIdMap'[p][i] = InitIdMap[i],
           \A k \in Handlers : About(k, n)' => /\ About(k, n) /\ Stays(k)
                                               /\ handler[k].op # "changeStat"
    PROVE  Minds(p, n)'
  <1>1. Listed(n)' = Listed(n) /\ rows' = rows /\ fields' = fields
    BY DEF store, Listed
  <1>2. Knows(p, n)'
    BY <1>1, FreshMaps DEF Knows, Listed
  <1>3. ASSUME NEW k \in Handlers, About(k, n)'
        PROVE  Mind(k, p, n)'
    <2> DEFINE i == handler[k].id
    <2>1. /\ Plan(k) /\ Busy(k) /\ Name(k) = n /\ handler[k].op # "changeStat"
          /\ Stays(k) /\ Name(k)' = n
      BY <1>3 DEF About, Name, FollowInv, Calm, Stays
    <2>2. handler[k].op = "delete" /\ handler[k].at # "deleteRow" => taskIdMap'[p][i] = None
      <3> SUFFICES ASSUME handler[k].op = "delete", handler[k].at # "deleteRow"
                   PROVE  taskIdMap'[p][i] = None
        OBVIOUS
      <3>1. Listed(n) = {} /\ i \in Ids
        BY <2>1 DEF Plan, Gone, TaskIds, OwnId
      <3>2. rows[i] = None
        BY <2>1, <3>1 DEF FieldInv, NameInv, Numbered, Listed, Exists
      <3> QED
        BY <3>1, <3>2, FreshMaps
    <2>3. handler[k].op \in {"update"} \cup PushOps => i \in Listed(n)
      BY <2>1 DEF Plan, Present, PushOps
    <2>4. handler[k].op = "delete" /\ handler[k].at = "deleteRow" => i \in Listed(n)
      BY <2>1 DEF Plan, Present
    <2>5. i \in Listed(n) => receiver'[p][n] # "none" /\ taskIdMap'[p][i] # None
      BY <1>1, <1>2 DEF Knows
    <2>6. Fit(k, p)'
      BY <2>1, <2>2, <2>3, <2>4, <2>5 DEF Fit, Stays
    <2>7. ~Unaware(k, p)' => Dropped(k, p)'
      <3>1. handler[k].op = "delete" /\ handler[k].at = "deleteRow" => Unaware(k, p)'
        BY <2>1 DEF Unaware, SubOps, Statements, Stays
      <3> QED
        BY <2>1, <2>2, <3>1 DEF Dropped, Stays
    <2> QED
      BY <1>2, <2>6, <2>7 DEF Mind
  <1> QED
    BY <1>2, <1>3 DEF Minds

\* A client that registers may be called: a pusher that it concerns knows the
\* name already, and the call leaves it so.
LEMMA JoinMinds ==
    ASSUME FieldInv, FollowInv, TaskIds, NEW c, Joins(c), UNCHANGED store,
           registered' = registered \cup {c}, NEW p, NEW n, n \notin disturbed,
           Minds(p, n), receiver'[p] = receiver[p], taskIdMap'[p] = taskIdMap[p]
    PROVE  Minds(p, n)'
  <1>1. Untouched(n)
    BY StoreUntouched
  <1>2. HandlerTypes
    BY TypeParts DEF FieldInv, NameInv
  <1>3. \A k \in Handlers : (About(k, n)' <=> About(k, n)) /\ (About(k, n) => Stays(k))
    <2> SUFFICES ASSUME NEW k \in Handlers
                 PROVE  (About(k, n)' <=> About(k, n)) /\ (About(k, n) => Stays(k))
      OBVIOUS
    <2>1. (Busy(k)' <=> Busy(k)) /\ (Busy(k) => Stays(k))
      BY <1>2, JoinsFacts
    <2> QED
      BY <2>1 DEF About, Stays
  <1>4. ASSUME NEW h \in Handlers, About(h, n)
        PROVE  Mind(h, p, n)'
    <2>1. Calm(h) /\ Plan(h) /\ Name(h) = n /\ Stays(h) /\ Mind(h, p, n)
      BY <1>3, <1>4 DEF About, Calm, Name, FollowInv, Minds
    <2>2. \/ handler'[h] = handler[h]
          \/ handler[h].left # None /\ handler'[h].left = handler[h].left \cup {c}
      BY <1>2, JoinsFacts
    <2>3. Final(h)' = Final(h)
      BY <2>1 DEF Stays, Final
    <2>4. Unaware(h, p) => Unaware(h, p)'
      BY <2>1, <2>2, <2>3 DEF Unaware, Stays
    <2>5. Unaware(h, p)' => Unaware(h, p) \/ handler[h].at = Final(h)
      BY <2>1, <2>3 DEF Unaware, Stays
    <2>6. Unaware(h, p)' => Fit(h, p)
      BY <2>1, <2>5, KnowsIsFit DEF Mind
    <2>7. Fit(h, p) => Fit(h, p)'
      BY <2>1, FitKept
    <2>8. ~Unaware(h, p)' => Dropped(h, p)' /\ Knows(p, n)'
      <3>1. ~Unaware(h, p)' => Dropped(h, p) /\ Knows(p, n)
        BY <2>1, <2>4 DEF Mind
      <3>2. Knows(p, n) => Knows(p, n)'
        BY <1>1, KnowsKept
      <3> QED
        BY <2>1, <3>1, <3>2 DEF Dropped, Stays
    <2> QED
      BY <2>6, <2>7, <2>8 DEF Mind
  <1>5. (\A h \in Handlers : ~About(h, n)) => Knows(p, n)'
    BY <1>1, KnowsKept DEF Minds
  <1> QED
    BY <1>3, <1>4, <1>5 DEF Minds

\* Registrations, and pushers that start.
LEMMA RegisterTells ==
    ASSUME FieldInv, FollowInv, TaskIds, KnowInv, NEW c \in Clients,
           Register(c) \/ (c \in Pushers /\ StartPusher(c))
    PROVE  KnowInv' /\ Ends
  <1>1. /\ Joins(c) /\ UNCHANGED store /\ registered' = registered \cup {c}
        /\ disturbed \subseteq disturbed'
        /\ \A p \in Pushers : p \in up => receiver'[p] = receiver[p] /\ taskIdMap'[p] = taskIdMap[p]
        /\ \A p \in up' : p \in up \/ (p = c /\ StartPusher(c) /\ c \in Pushers)
    <2>1. CASE Register(c)
      BY <2>1 DEF Register, pushing, history
    <2>2. CASE c \in Pushers /\ StartPusher(c)
      <3>1. /\ Joins(c) /\ UNCHANGED store /\ registered' = registered \cup {c}
            /\ disturbed \subseteq disturbed' /\ up' = up \cup {c} /\ c \notin up
        BY <2>2 DEF StartPusher
      <3>2. \A p \in Pushers : p # c => receiver'[p] = receiver[p] /\ taskIdMap'[p] = taskIdMap[p]
        BY <2>2, TypeParts DEF StartPusher, FieldInv, NameInv, ProcessTypes
      <3> QED
        BY <2>2, <3>1, <3>2
    <2> QED
      BY <2>1, <2>2
  <1>2. \A k \in Handlers : (Busy(k)' <=> Busy(k)) /\ (Busy(k)' => Stays(k))
    BY <1>1, JoinsFacts, TypeParts DEF FieldInv, NameInv
  <1>3. \A k \in Handlers : Calm(k)' => PushPlan(k)'
    BY <1>1, <1>2, PushPlansKept
  <1>4. ASSUME NEW p \in Pushers \cap up', NEW n \in Names \ disturbed'
        PROVE  Minds(p, n)'
    <2>1. CASE p \in up
      <3>1. Minds(p, n) /\ n \notin disturbed
        BY <1>1, <1>4, <2>1 DEF KnowInv
      <3>2. receiver'[p] = receiver[p] /\ taskIdMap'[p] = taskIdMap[p]
        BY <1>1, <1>4, <2>1
      <3> QED
        BY <1>1, <3>1, <3>2, JoinMinds
    <2>2. CASE p \notin up
      <3>1. p = c /\ StartPusher(c) /\ c \in Pushers
        BY <1>1, <1>4, <2>2
      <3>2. /\ receiver'[p][n] = InitReceivers[n]
            /\ \A i \in Ids : i \in Listed(n) \/ rows[i] = None => taskIdMap'[p][i] = InitIdMap[i]
        <4>1. PICK skipped \in SUBSET Names :
                 /\ taskIdMap' = [taskIdMap EXCEPT ![p] =
                       [i \in 0 .. MaxId |-> IF \E m \in skipped : i \in Listed(m) THEN None
                                             ELSE InitIdMap[i]]]
                 /\ receiver' = [receiver EXCEPT ![p] =
                       [m \in Names |-> IF m \in skipped THEN "none" ELSE InitReceivers[m]]]
                 /\ n \notin skipped
          BY <1>4, <3>1 DEF StartPusher
        <4>2. ProcessTypes
          BY TypeParts DEF FieldInv, NameInv
        <4>3. /\ taskIdMap'[p] = [i \in 0 .. MaxId |-> IF \E m \in skipped : i \in Listed(m) THEN None
                                                        ELSE InitIdMap[i]]
              /\ receiver'[p] = [m \in Names |-> IF m \in skipped THEN "none" ELSE InitReceivers[m]]
          BY <4>1, <4>2 DEF ProcessTypes
        <4>4. receiver'[p][n] = InitReceivers[n]
          BY <1>4, <4>1, <4>3
        <4>5. ASSUME NEW i \in Ids, i \in Listed(n) \/ rows[i] = None
              PROVE  taskIdMap'[p][i] = InitIdMap[i]
          <5>1. i \in 0 .. MaxId /\ ~\E m \in skipped : i \in Listed(m)
            BY <4>1, <4>5 DEF Ids, Listed
          <5> QED
            BY <4>3, <5>1
        <4> QED
          BY <4>4, <4>5
      <3>3. \A k \in Handlers : About(k, n)' => /\ About(k, n) /\ Stays(k)
                                                /\ handler[k].op # "changeStat"
        <4> SUFFICES ASSUME NEW k \in Handlers, About(k, n)'
                     PROVE  About(k, n) /\ Stays(k) /\ handler[k].op # "changeStat"
          OBVIOUS
        <4>1. About(k, n) /\ Stays(k)
          BY <1>2 DEF About, Stays
        <4> QED
          BY <1>4, <3>1, <4>1 DEF StartPusher
      <3>4. n \in Names \ disturbed
        BY <1>1, <1>4
      <3> QED
        BY <1>1, <3>2, <3>3, <3>4, FreshMinds
    <2> QED
      BY <2>1, <2>2
  <1>5. Ends
    BY <1>2 DEF Ends, Calm
  <1> QED
    BY <1>3, <1>4, <1>5 DEF KnowInv

\* A step of a client that is no pusher, of a pusher that goes, or of one without
\* the list.
LEMMA OthersTell ==
    ASSUME FieldInv, FollowInv, KnowInv, UNCHANGED <<store, handler>>, disturbed \subseteq disturbed',
           \A p \in Pushers \cap up' :
              /\ p \in up /\ (p \in registered' <=> p \in registered)
              /\ receiver'[p] = receiver[p] /\ taskIdMap'[p] = taskIdMap[p]
    PROVE  KnowInv' /\ Ends
  <1>1. \A k \in Handlers : (Busy(k)' <=> Busy(k)) /\ Stays(k) /\ (\A n : About(k, n)' <=> About(k, n))
    BY DEF Busy, Stays, About
  <1>2. \A k \in Handlers : Calm(k)' => PushPlan(k)'
    BY <1>1, PushPlansKept
  <1>3. ASSUME NEW p \in Pushers \cap up', NEW n \in Names \ disturbed'
        PROVE  Minds(p, n)'
    <2>1. Minds(p, n) /\ Untouched(n)
      BY <1>3, StoreUntouched DEF KnowInv
    <2>2. \A k \in Handlers : Unaware(k, p)' = Unaware(k, p)
      BY <1>3 DEF Unaware, Final
    <2> QED
      BY <1>1, <1>3, <2>1, <2>2, MindsKept
  <1>4. Ends
    BY <1>1 DEF Ends, Calm
  <1> QED
    BY <1>2, <1>3, <1>4 DEF KnowInv

\* A pusher that starts without the list has none of the others' maps.
LEMMA BlindTells ==
    ASSUME FieldInv, FollowInv, KnowInv, NEW c \in Clients, StartBlind(c)
    PROVE  KnowInv' /\ Ends
  <1>1. /\ UNCHANGED <<store, handler, up, registered>> /\ disturbed \subseteq disturbed' /\ c \notin up
        /\ \A p \in Pushers \ {c} : receiver'[p] = receiver[p] /\ taskIdMap'[p] = taskIdMap[p]
    <2>1. ProcessTypes
      BY TypeParts DEF FieldInv, NameInv
    <2> QED
      BY <2>1 DEF StartBlind, history, pushing, ProcessTypes
  <1> QED
    BY <1>1, OthersTell

\* The requests that the monitor's crash ends have disturbed their names.
LEMMA MonitorCrashTells ==
    ASSUME FieldInv, FollowInv, KnowInv, MonitorCrash
    PROVE  KnowInv' /\ Ends
  <1>1. /\ UNCHANGED <<store, up, taskIdMap, receiver>>
        /\ disturbed' = disturbed \cup {n \in Names : Active(n)}
        /\ \A k \in Handlers : ~Busy(k)'
    BY DEF MonitorCrash, Fault, pushing, Busy
  <1>2. \A k \in Handlers : Calm(k)' => PushPlan(k)'
    BY <1>1 DEF Calm
  <1>3. ASSUME NEW p \in Pushers \cap up, NEW n \in Names \ disturbed'
        PROVE  Minds(p, n)'
    <2>1. Minds(p, n) /\ Untouched(n) /\ \A k \in Handlers : ~About(k, n)
      BY <1>1, <1>3, StoreUntouched DEF KnowInv, Active
    <2>2. \A k \in Handlers : ~About(k, n)'
      BY <1>1 DEF About
    <2> QED
      BY <1>1, <2>1, <2>2, MindsKept
  <1>4. Ends
    <2> SUFFICES ASSUME NEW k \in Handlers, Calm(k), Name(k) \notin disturbed' PROVE FALSE
      BY DEF Ends
    <2>1. Active(Name(k)) /\ Name(k) \in Names
      BY BusyNames, TypeParts DEF Calm, Active, About, Name, FieldInv, NameInv
    <2> QED
      BY <1>1, <2>1
  <1> QED
    BY <1>1, <1>2, <1>3, <1>4 DEF KnowInv

-----------------------------------------------------------------------------
(* What is left of a deleted task.                                           *)

\* Every step keeps what the pushers know.
LEMMA KnowStep ==
    ASSUME FieldInv, FieldInv', Aimed, FollowInv, TaskIds, KnowInv, [Next]_vars
    PROVE  KnowInv' /\ Ends
  <1>1. ASSUME NEW h \in Handlers, NEW n \in Names, NEW s \in Settings, NEW b \in BOOLEAN,
              doAddTask(h, n, s, b)
        PROVE  KnowInv' /\ Ends
    BY <1>1, RequestsTell
  <1>2. ASSUME NEW h \in Handlers, NEW i \in Ids, NEW s \in Settings, NEW b \in BOOLEAN,
              doUpdateTask(h, i, s, b)
        PROVE  KnowInv' /\ Ends
    BY <1>2, RequestsTell
  <1>3. ASSUME NEW h \in Handlers, NEW i \in Ids, NEW b \in BOOLEAN, changeTaskStat(h, i, b)
        PROVE  KnowInv' /\ Ends
    BY <1>3, RequestsTell
  <1>4. ASSUME NEW h \in Handlers, NEW i \in Ids, NEW op \in {"delete"} \cup SubOps \cup PushOps,
              doSimple(h, op, i)
        PROVE  KnowInv' /\ Ends
    BY <1>4, RequestsTell
  <1>5. ASSUME NEW h \in Handlers, NameExists(h) PROVE KnowInv' /\ Ends
    BY <1>5, NameExistsTells
  <1>6. ASSUME NEW h \in Handlers, Insert(h) PROVE KnowInv' /\ Ends
    BY <1>6, InsertTells
  <1>7. ASSUME NEW h \in Handlers, InsertFields(h) PROVE KnowInv' /\ Ends
    BY <1>7, FieldsTell
  <1>8. ASSUME NEW h \in Handlers, DeleteFields(h) PROVE KnowInv' /\ Ends
    BY <1>8, FieldsTell
  <1>9. ASSUME NEW h \in Handlers, UpdateRow(h) PROVE KnowInv' /\ Ends
    BY <1>9, UpdateTells
  <1>10. ASSUME NEW h \in Handlers, DeleteRow(h) PROVE KnowInv' /\ Ends
    BY <1>10, DeleteTells
  <1>11. ASSUME NEW h \in Handlers, StatementFails(h) PROVE KnowInv' /\ Ends
    BY <1>11, FaultsTell
  <1>12. ASSUME NEW h \in Handlers, Iter(h) PROVE KnowInv' /\ Ends
    BY <1>12, IterTells
  <1>13. ASSUME NEW h \in Handlers, NEW c \in Clients, Call(h, c) \/ Panics(h, c)
         PROVE  KnowInv' /\ Ends
    BY <1>13, CallTells
  <1>14. ASSUME NEW h \in Handlers, NEW c \in Clients, CallFails(h, c) \/ CallUnserved(h, c)
         PROVE  KnowInv' /\ Ends
    BY <1>14, FaultsTell
  <1>15. ASSUME NEW c \in Clients, Crash(c) PROVE KnowInv' /\ Ends
    BY <1>15, OthersTell DEF Crash, Fault, pushing
  <1>16. ASSUME NEW c \in Clients, Register(c) PROVE KnowInv' /\ Ends
    BY <1>16, RegisterTells
  <1>17. ASSUME NEW d \in Dispatchers, StartDispatcher(d) PROVE KnowInv' /\ Ends
    <2>1. /\ UNCHANGED <<store, handler, registered, taskIdMap, receiver>>
          /\ disturbed \subseteq disturbed' /\ up' = up \cup {d} /\ d \notin Pushers
      BY <1>17, ControlAssumption DEF StartDispatcher, pushing, ControlAssumption
    <2> QED
      BY <2>1, OthersTell
  <1>18. ASSUME NEW p \in Pushers, StartPusher(p) PROVE KnowInv' /\ Ends
    BY <1>18, RegisterTells DEF Clients
  <1>19. CASE MonitorCrash
    BY <1>19, MonitorCrashTells
  <1>20. CASE UNCHANGED vars
    BY <1>20, OthersTell DEF vars, living, history, pushing
  <1>21. ASSUME NEW c \in Clients, StartBlind(c) PROVE KnowInv' /\ Ends
    BY <1>21, BlindTells
  <1> QED
    BY <1>1, <1>2, <1>3, <1>4, <1>5, <1>6, <1>7, <1>8, <1>9, <1>10, <1>11, <1>12, <1>13, <1>14,
       <1>15, <1>16, <1>17, <1>18, <1>19, <1>20, <1>21 DEF Next

\* Who writes to the tables and to the pushers' maps.
Writers ==
    /\ rows' = rows \/ \E h \in Handlers : Insert(h) \/ UpdateRow(h) \/ DeleteRow(h)
    /\ fields' = fields \/ \E h \in Handlers : InsertFields(h) \/ DeleteFields(h)
    /\ \/ taskIdMap' = taskIdMap
       \/ \E h \in Handlers, c \in Clients : Call(h, c)
       \/ \E p \in Pushers : StartPusher(p)
       \/ \E c \in Clients : StartBlind(c)
    /\ \A p \in Pushers \cap up' : p \in up \/ StartPusher(p)

\* Every step is one of theirs, or leaves the tables and the maps alone.
LEMMA WritersStep ==
    ASSUME [Next]_vars
    PROVE  Writers
  <1> USE ControlAssumption DEF Writers, ControlAssumption, Receive, Statement, Fault, Called,
                                store, living, dispatching, pushing, history, Clients
  <1>1. ASSUME NEW h \in Handlers, NEW n \in Names, NEW s \in Settings, NEW b \in BOOLEAN,
              doAddTask(h, n, s, b)
        PROVE  Writers
    BY <1>1 DEF doAddTask
  <1>2. ASSUME NEW h \in Handlers, NEW i \in Ids, NEW s \in Settings, NEW b \in BOOLEAN,
              doUpdateTask(h, i, s, b)
        PROVE  Writers
    BY <1>2 DEF doUpdateTask
  <1>3. ASSUME NEW h \in Handlers, NEW i \in Ids, NEW b \in BOOLEAN, changeTaskStat(h, i, b)
        PROVE  Writers
    BY <1>3 DEF changeTaskStat
  <1>4. ASSUME NEW h \in Handlers, NEW i \in Ids, NEW op \in {"delete"} \cup SubOps \cup PushOps,
              doSimple(h, op, i)
        PROVE  Writers
    BY <1>4 DEF doSimple
  <1>5. ASSUME NEW h \in Handlers, NameExists(h) PROVE Writers
    BY <1>5 DEF NameExists
  <1>6. ASSUME NEW h \in Handlers, Insert(h) PROVE Writers
    BY <1>6 DEF Insert
  <1>7. ASSUME NEW h \in Handlers, InsertFields(h) PROVE Writers
    BY <1>7 DEF InsertFields
  <1>8. ASSUME NEW h \in Handlers, DeleteFields(h) PROVE Writers
    BY <1>8 DEF DeleteFields
  <1>9. ASSUME NEW h \in Handlers, UpdateRow(h) PROVE Writers
    BY <1>9 DEF UpdateRow
  <1>10. ASSUME NEW h \in Handlers, DeleteRow(h) PROVE Writers
    BY <1>10 DEF DeleteRow
  <1>11. ASSUME NEW h \in Handlers, StatementFails(h) PROVE Writers
    BY <1>11 DEF StatementFails
  <1>12. ASSUME NEW h \in Handlers, Iter(h) PROVE Writers
    BY <1>12 DEF Iter
  <1>13. ASSUME NEW h \in Handlers, NEW c \in Clients, Call(h, c) PROVE Writers
    BY <1>13 DEF Call
  <1>14. ASSUME NEW h \in Handlers, NEW c \in Clients, CallFails(h, c) PROVE Writers
    BY <1>14 DEF CallFails
  <1>21. ASSUME NEW h \in Handlers, NEW c \in Clients, CallUnserved(h, c) PROVE Writers
    BY <1>21 DEF CallUnserved
  <1>22. ASSUME NEW h \in Handlers, NEW c \in Clients, Panics(h, c) PROVE Writers
    BY <1>22 DEF Panics
  <1>23. ASSUME NEW c \in Clients, StartBlind(c) PROVE Writers
    BY <1>23 DEF StartBlind
  <1>15. ASSUME NEW c \in Clients, Crash(c) PROVE Writers
    BY <1>15 DEF Crash
  <1>16. ASSUME NEW c \in Clients, Register(c) PROVE Writers
    BY <1>16 DEF Register
  <1>17. ASSUME NEW d \in Dispatchers, StartDispatcher(d) PROVE Writers
    BY <1>17 DEF StartDispatcher
  <1>18. ASSUME NEW p \in Pushers, StartPusher(p) PROVE Writers
    BY <1>18 DEF StartPusher
  <1>19. CASE MonitorCrash
    BY <1>19 DEF MonitorCrash
  <1>20. CASE UNCHANGED vars
    BY <1>20 DEF vars
  <1> HIDE DEF Writers, Receive, Statement, Fault, Called, store, living, dispatching, pushing, history
  <1> QED
    BY <1>1, <1>2, <1>3, <1>4, <1>5, <1>6, <1>7, <1>8, <1>9, <1>10, <1>11, <1>12, <1>13, <1>14,
       <1>15, <1>16, <1>17, <1>18, <1>19, <1>20, <1>21, <1>22, <1>23 DEF Next

\* A handler that is about to delete fields does so, or fails on the record.
LEMMA DeletersStay ==
    ASSUME HandlerTypes, Fanning, [Next]_vars, disturbed' = {}, NEW g \in Handlers, Busy(g),
           handler[g].at = "deleteFields", ~DeleteFields(g)
    PROVE  Busy(g)' /\ Stays(g)
  <1> Active(Name(g)) /\ Name(g) \in Names
    BY BusyNames DEF Active, About, Name
  <1> USE DEF Receive, HandlerTypes, GoTo, Done, Busy, Stays
  <1>1. ASSUME NEW h \in Handlers, NEW n \in Names, NEW s \in Settings, NEW b \in BOOLEAN,
              doAddTask(h, n, s, b)
        PROVE  Busy(g)' /\ Stays(g)
    BY <1>1 DEF doAddTask
  <1>2. ASSUME NEW h \in Handlers, NEW i \in Ids, NEW s \in Settings, NEW b \in BOOLEAN,
              doUpdateTask(h, i, s, b)
        PROVE  Busy(g)' /\ Stays(g)
    BY <1>2 DEF doUpdateTask
  <1>3. ASSUME NEW h \in Handlers, NEW i \in Ids, NEW b \in BOOLEAN, changeTaskStat(h, i, b)
        PROVE  Busy(g)' /\ Stays(g)
    BY <1>3 DEF changeTaskStat
  <1>4. ASSUME NEW h \in Handlers, NEW i \in Ids, NEW op \in {"delete"} \cup SubOps \cup PushOps,
              doSimple(h, op, i)
        PROVE  Busy(g)' /\ Stays(g)
    BY <1>4 DEF doSimple
  <1>5. ASSUME NEW h \in Handlers, NameExists(h) PROVE Busy(g)' /\ Stays(g)
    BY <1>5 DEF NameExists, At
  <1>6. ASSUME NEW h \in Handlers, Insert(h) PROVE Busy(g)' /\ Stays(g)
    BY <1>6 DEF Insert, At
  <1>7. ASSUME NEW h \in Handlers, InsertFields(h) PROVE Busy(g)' /\ Stays(g)
    BY <1>7 DEF InsertFields, At
  <1>8. ASSUME NEW h \in Handlers, DeleteFields(h) PROVE Busy(g)' /\ Stays(g)
    BY <1>8 DEF DeleteFields, At
  <1>9. ASSUME NEW h \in Handlers, UpdateRow(h) PROVE Busy(g)' /\ Stays(g)
    BY <1>9 DEF UpdateRow, At
  <1>10. ASSUME NEW h \in Handlers, DeleteRow(h) PROVE Busy(g)' /\ Stays(g)
    BY <1>10 DEF DeleteRow, At
  <1>11. ASSUME NEW h \in Handlers, StatementFails(h) PROVE Busy(g)' /\ Stays(g)
    BY <1>11 DEF StatementFails, At, Fault, Name
  <1>12. ASSUME NEW h \in Handlers, Iter(h) PROVE Busy(g)' /\ Stays(g)
    BY <1>12, GoToFacts DEF Iter, At, FanOuts
  <1>13. ASSUME NEW h \in Handlers, NEW c \in Clients, Call(h, c) \/ Panics(h, c)
         PROVE  Busy(g)' /\ Stays(g)
    BY <1>13 DEF Call, Panics, Called, Fanning, FanOuts
  <1>14. ASSUME NEW h \in Handlers, NEW c \in Clients, CallFails(h, c) \/ CallUnserved(h, c)
         PROVE  Busy(g)' /\ Stays(g)
    BY <1>14 DEF CallFails, CallUnserved, Called, Fault, Fanning, FanOuts
  <1>15. ASSUME NEW c \in Clients, Crash(c) PROVE Busy(g)' /\ Stays(g)
    BY <1>15 DEF Crash
  <1>16. ASSUME NEW c \in Clients, Register(c) PROVE Busy(g)' /\ Stays(g)
    BY <1>16, JoinsFacts DEF Register
  <1>17. ASSUME NEW d \in Dispatchers, StartDispatcher(d) PROVE Busy(g)' /\ Stays(g)
    BY <1>17 DEF StartDispatcher
  <1>18. ASSUME NEW p \in Pushers, StartPusher(p) PROVE Busy(g)' /\ Stays(g)
    BY <1>18, JoinsFacts DEF StartPusher
  <1>19. CASE MonitorCrash
    BY <1>19 DEF MonitorCrash, Fault
  <1>20. CASE UNCHANGED vars
    BY <1>20 DEF vars
  <1>21. ASSUME NEW c \in Clients, StartBlind(c) PROVE Busy(g)' /\ Stays(g)
    BY <1>21 DEF StartBlind
  <1> HIDE DEF Receive, HandlerTypes, GoTo, Done, Busy, Stays
  <1> QED
    BY <1>1, <1>2, <1>3, <1>4, <1>5, <1>6, <1>7, <1>8, <1>9, <1>10, <1>11, <1>12, <1>13, <1>14,
       <1>15, <1>16, <1>17, <1>18, <1>19, <1>20, <1>21 DEF Next

\* A handler that deletes goes on to remove what is left, or ends.
LEMMA DeletersGoOn ==
    ASSUME FieldInv, TaskIds, [Next]_vars, disturbed' = {}, NEW g \in Handlers, NEW i,
           Deleting(g, i), Busy(g)'
    PROVE  Deleting(g, i)'
  <1>1. /\ StoreTypes /\ HandlerTypes /\ Fanning /\ Numbered /\ NameInv /\ Busy(g)
        /\ handler[g].op = "delete"
    BY TypeParts DEF FieldInv, NameInv, Deleting
  <1>2. Kinds
    BY <1>1, KindsStep
  <1>3. \A op, at : Then(op, at) # "deleteRow"
    BY DEF Then
  <1>4. CASE Asked
    BY <1>1, <1>4, AskedParts DEF Asked, Deleting, Busy
  <1>5. CASE Quiet
    BY <1>3, <1>5 DEF Quiet, Kept, Same, Follows, Deleting
  <1>6. ASSUME NEW h \in Handlers, Insert(h)
        PROVE  Deleting(g, i)'
    <2>1. h # g /\ handler'[g] = handler[g]
      BY <1>1, <1>6 DEF Insert, At, TaskIds, OwnId, HandlerTypes
    <2> QED
      BY <2>1 DEF Deleting, Busy
  <1>7. ASSUME NEW h \in Handlers, InsertFields(h) \/ DeleteFields(h)
        PROVE  Deleting(g, i)'
    <2>1. FieldsStep(h)
      BY <1>1, <1>7, FieldsParts
    <2> QED
      BY <1>3, <2>1 DEF FieldsStep, Same, Deleting, Busy
  <1> QED
    BY <1>2, <1>4, <1>5, <1>6, <1>7 DEF Kinds

\* A row that goes has a handler that has deleted it.
LEMMA DeletersBegin ==
    ASSUME FieldInv, FollowInv, [Next]_vars, disturbed = {}, NEW i \in Ids, Exists(i), ~Exists(i)'
    PROVE  \E h \in Handlers :
              Deleting(h, i)' /\ handler'[h].at = "deleteFields" /\ \A p : Unaware(h, p)'
  <1>1. PICK h \in Handlers : Insert(h) \/ UpdateRow(h) \/ DeleteRow(h)
    BY WritersStep DEF Writers, Exists
  <1>2. rows \in [Ids -> {None} \cup Rows] /\ HandlerTypes /\ \A r \in Rows : r # None
    BY TypeParts, ControlAssumption DEF FieldInv, NameInv, TypeOK, ControlAssumption, Rows
  <1>3. ~Insert(h)
    <2> SUFFICES ASSUME Insert(h) PROVE FALSE
      OBVIOUS
    <2> QED
      BY InsertParts, ControlAssumption DEF FieldInv, Exists
  <1>4. ~UpdateRow(h)
    <2> SUFFICES ASSUME UpdateRow(h) PROVE FALSE
      OBVIOUS
    <2>1. rows'[i] = rows[i] \/ rows'[i] = Columns(h, rows[i])
      BY <1>2 DEF UpdateRow, Exists
    <2>2. rows[i] \in Rows /\ handler[h].task.row \in Rows
      BY <1>2 DEF Exists, UpdateRow, At, HandlerTypes, Busy, Working, Tasks
    <2>3. Columns(h, rows[i]) \in Rows
      BY <2>2 DEF Columns, Rows
    <2> QED
      BY <1>2, <2>1, <2>2, <2>3 DEF Exists
  <1>5. DeleteRow(h)
    BY <1>1, <1>3, <1>4
  <1>6. /\ Busy(h) /\ handler[h].at = "deleteRow" /\ GoTo(h, "deleteFields") /\ handler[h].id = i
    BY <1>2, <1>5 DEF DeleteRow, At, Done, Then, Exists
  <1>7. handler[h].op = "delete"
    <2>1. Plan(h)
      BY <1>6 DEF FollowInv, Calm
    <2> QED
      BY <1>6, <2>1 DEF Plan, Program, SubOps, FanOuts
  <1>8. Busy(h)' /\ handler'[h].at = "deleteFields" /\ handler'[h].op = "delete" /\ handler'[h].id = i
    BY <1>2, <1>6, <1>7, GoToFacts
  <1>9. \A p : Unaware(h, p)'
    BY <1>8 DEF Unaware, SubOps, Statements
  <1> QED
    BY <1>8, <1>9 DEF Deleting

\* Nobody gives a pusher settings for a task without a row.
LEMMA NothingNew ==
    ASSUME FieldInv, Aimed, FollowInv, TaskIds, [Next]_vars, disturbed = {}, NEW i \in Ids, ~Exists(i),
           NEW p \in Pushers \cap up', p \in up => taskIdMap[p][i] = None
    PROVE  taskIdMap'[p][i] = None
  <1>1. ProcessTypes /\ HandlerTypes
    BY TypeParts DEF FieldInv, NameInv
  <1>2. ASSUME NEW q \in Pushers, StartPusher(q)
        PROVE  taskIdMap'[p][i] = None
    <2>1. CASE q = p
      <3>1. \E skipped \in SUBSET Names : taskIdMap'[p] =
               [j \in 0 .. MaxId |-> IF \E n \in skipped : j \in Listed(n) THEN None ELSE InitIdMap[j]]
        BY <1>1, <1>2, <2>1 DEF StartPusher, ProcessTypes
      <3>2. i \in 0 .. MaxId /\ i # 0
        BY DEF Ids
      <3> QED
        BY <3>1, <3>2 DEF InitIdMap, Exists
    <2>2. CASE q # p
      <3>1. taskIdMap'[p] = taskIdMap[p] /\ p \in up
        BY <1>1, <1>2, <2>2 DEF StartPusher, ProcessTypes
      <3> QED
        BY <3>1
    <2> QED
      BY <2>1, <2>2
  <1>3. ASSUME p \in up, NEW h \in Handlers, NEW c \in Clients, Call(h, c)
        PROVE  taskIdMap'[p][i] = None
    <2>1. CASE taskIdMap' = taskIdMap
      BY <1>3, <2>1
    <2>2. CASE taskIdMap' # taskIdMap
      <3>1. Busy(h) /\ handler[h].at \in FanOuts /\ Plan(h) /\ OwnId(h)
        BY <1>3 DEF Call, Called, FieldInv, NameInv, Fanning, FollowInv, Calm, TaskIds
      <3>2. c \in Pushers /\ PusherDoes(c, CallOf(h), handler[h].task)
        BY <1>3, <2>2, ControlAssumption DEF Call, DispatcherDoes, pushing, ControlAssumption
      <3>3. CASE c # p \/ i # handler[h].id
        BY <1>3, <3>1, <3>2, <3>3, PusherFrame
      <3>4. CASE c = p /\ i = handler[h].id
        <4>1. ~Present(h)
          BY <3>1, <3>4 DEF Plan, Listed, Exists
        <4>2. handler[h].op = "delete" /\ handler[h].task.id = i /\ handler[h].at # "pushersAdd"
          BY <3>1, <3>4, <4>1 DEF Present, FanOuts, OwnId
        <4>3. CallOf(h) = "Delete"
          BY <4>2 DEF CallOf
        <4> QED
          BY <1>1, <1>3, <3>2, <3>4, <4>2, <4>3 DEF PusherDoes, ProcessTypes, Ids
      <3> QED
        BY <3>3, <3>4
    <2> QED
      BY <2>1, <2>2
  <1>4. CASE taskIdMap' = taskIdMap /\ p \in up
    BY <1>4
  <1>5. ASSUME p \in up, NEW c \in Clients, StartBlind(c)
        PROVE  taskIdMap'[p][i] = None
    BY <1>1, <1>5 DEF StartBlind, pushing, ProcessTypes
  <1> QED
    BY <1>2, <1>3, <1>4, <1>5, WritersStep DEF Writers

\* The rows of fields of a deleted task have a handler that is about to delete them.
LEMMA FieldsForgotten ==
    ASSUME FieldInv, FollowInv, [Next]_vars, disturbed = {}, disturbed' = {}, NEW i \in Ids, ~Exists(i),
           fields[i] = {} \/ \E g \in Handlers : Deleting(g, i) /\ handler[g].at = "deleteFields"
    PROVE  fields'[i] = {} \/ \E g \in Handlers : Deleting(g, i)' /\ handler'[g].at = "deleteFields"
  <1>1. HandlerTypes /\ Fanning /\ fields \in [Ids -> SUBSET Settings]
    BY TypeParts DEF FieldInv, NameInv, TypeOK
  <1>2. ASSUME NEW g \in Handlers, Deleting(g, i), handler[g].at = "deleteFields"
        PROVE  fields'[i] = {} \/ (Deleting(g, i)' /\ handler'[g].at = "deleteFields")
    <2>1. CASE DeleteFields(g)
      BY <1>1, <1>2, <2>1 DEF DeleteFields, Deleting
    <2>2. CASE ~DeleteFields(g)
      BY <1>1, <1>2, <2>2, DeletersStay DEF Deleting, Stays
    <2> QED
      BY <2>1, <2>2
  <1>3. CASE fields[i] = {}
    <2>1. CASE fields' = fields
      BY <1>3, <2>1
    <2>2. ASSUME NEW h \in Handlers, DeleteFields(h)
          PROVE  fields'[i] = {}
      BY <1>1, <1>3, <2>2 DEF DeleteFields
    <2>3. ASSUME NEW h \in Handlers, InsertFields(h)
          PROVE  fields'[i] = {}
      <3>1. Busy(h) /\ handler[h].at = "insertFields" /\ Plan(h)
        BY <2>3 DEF InsertFields, At, FollowInv, Calm
      <3>2. Present(h)
        BY <3>1 DEF Plan, Program, Present, SubOps, FanOuts
      <3>3. handler[h].id # i
        BY <3>1, <3>2 DEF Plan, Listed, Exists
      <3> QED
        BY <1>1, <1>3, <2>3, <3>3 DEF InsertFields
    <2> QED
      BY <2>1, <2>2, <2>3, WritersStep DEF Writers
  <1> QED
    BY <1>2, <1>3

\* Every step keeps what is left of a task in the hands of its handler.
LEMMA ForgottenStep ==
    ASSUME FieldInv, FieldInv', Aimed, FollowInv, TaskIds, KnowInv', Ends, Forgotten, [Next]_vars
    PROVE  Forgotten'
  <1> SUFFICES ASSUME disturbed' = {}, NEW i \in Ids, ~Exists(i)'
               PROVE  /\ \/ fields'[i] = {}
                         \/ \E h \in Handlers : Deleting(h, i)' /\ handler'[h].at = "deleteFields"
                      /\ \A p \in Pushers \cap up' :
                            \/ taskIdMap'[p][i] = None
                            \/ \E h \in Handlers : Deleting(h, i)' /\ Unaware(h, p)'
    BY DEF Forgotten
  <1>1. disturbed = {} /\ HandlerTypes
    BY DisturbedGrows, TypeParts DEF FieldInv, NameInv
  <1>2. CASE Exists(i)
    BY <1>1, <1>2, DeletersBegin
  <1>3. CASE ~Exists(i)
    <2>1. fields'[i] = {} \/ \E h \in Handlers : Deleting(h, i)' /\ handler'[h].at = "deleteFields"
      BY <1>1, <1>3, FieldsForgotten DEF Forgotten
    <2>2. ASSUME NEW p \in Pushers \cap up'
          PROVE  taskIdMap'[p][i] = None \/ \E h \in Handlers : Deleting(h, i)' /\ Unaware(h, p)'
      <3>1. CASE p \in up => taskIdMap[p][i] = None
        BY <1>1, <1>3, <2>2, <3>1, NothingNew
      <3>2. ASSUME NEW h \in Handlers, Deleting(h, i), Unaware(h, p)
            PROVE  taskIdMap'[p][i] = None \/ (Deleting(h, i)' /\ Unaware(h, p)')
        <4>1. CASE Busy(h)'
          <5>1. Deleting(h, i)'
            BY <3>2, <4>1, DeletersGoOn
          <5>2. PICK n \in Names : About(h, n)'
            <6>1. HandlerTypes'
              BY DEF FieldInv, NameInv, TypeOK, HandlerTypes
            <6> QED
              BY <4>1, <6>1 DEF HandlerTypes, Busy, Working, Tasks, Rows, Name, About
          <5>3. Mind(h, p, n)'
            BY <2>2, <5>2 DEF KnowInv, Minds
          <5>4. ~Unaware(h, p)' => Dropped(h, p)'
            BY <5>3 DEF Mind
          <5> QED
            BY <5>1, <5>4 DEF Dropped, Deleting
        <4>2. CASE ~Busy(h)'
          BY <1>1, <2>2, <3>2, <4>2 DEF Ends, Calm, Deleting
        <4> QED
          BY <4>1, <4>2
      <3> QED
        BY <1>1, <1>3, <2>2, <3>1, <3>2 DEF Forgotten
    <2> QED
      BY <2>1, <2>2
  <1> QED
    BY <1>2, <1>3

-----------------------------------------------------------------------------
(* The invariant of the pushers, and what follows from it.                   *)

\* The pushers have started from the list of tasks.
LEMMA InitKnow ==
    ASSUME Init
    PROVE  TaskIds /\ KnowInv /\ Forgotten
  <1>1. /\ \A h \in Handlers : ~Busy(h)
        /\ FieldInv
    BY InitFieldInv DEF Init, Busy
  <1>2. \A p \in Pushers : receiver[p] = InitReceivers /\ taskIdMap[p] = InitIdMap
    BY DEF Init
  <1>3. ASSUME NEW p \in Pushers, NEW n \in Names
        PROVE  Minds(p, n)
    <2>1. \A k \in Handlers : ~About(k, n)
      BY <1>1 DEF About
    <2>2. Knows(p, n)
      BY <1>1, <1>2, FreshMaps DEF Knows
    <2> QED
      BY <2>1, <2>2 DEF Minds
  <1>4. ASSUME NEW i \in Ids, ~Exists(i)
        PROVE  fields[i] = {} /\ \A p \in Pushers : taskIdMap[p][i] = None
    <2>1. i > lastId \/ i <= lastId
      BY DEF Init, Ids
    <2>2. i \in 0 .. MaxId /\ i # 0
      BY DEF Ids
    <2>3. \A p \in Pushers : taskIdMap[p][i] = None
      BY <1>2, <1>4, <2>2 DEF InitIdMap, Exists
    <2>4. ~(i <= lastId)
      <3> SUFFICES ASSUME i <= lastId PROVE FALSE
        OBVIOUS
      <3>1. PICK n \in Names, b \in BOOLEAN :
               rows[i] = copyTask([name |-> n, stat |-> FALSE, sub |-> FALSE, push |-> FALSE], b)
        BY DEF Init
      <3>2. rows[i] \in Rows
        BY <3>1 DEF copyTask, Rows
      <3> QED
        BY <1>4, <3>2, ControlAssumption DEF Exists, ControlAssumption, Rows
    <2>5. fields[i] = {}
      BY <2>4 DEF Init
    <2> QED
      BY <2>3, <2>5
  <1> QED
    BY <1>1, <1>3, <1>4 DEF TaskIds, KnowInv, Calm, Forgotten

\* Each running pusher knows each undisturbed name, or is about to be called, in
\* every reachable state; and what is left of a task is in its handler's hands.
THEOREM KnowInvariant == Spec => [](FieldInv /\ Aimed /\ FollowInv /\ TaskIds /\ KnowInv /\ Forgotten)
  <1> DEFINE Inv == FieldInv /\ Aimed /\ FollowInv /\ TaskIds /\ KnowInv /\ Forgotten
  <1>1. Init => Inv
    BY InitFieldInv, InitFollow, InitKnow
  <1>2. Inv /\ [Next]_vars => Inv'
    <2> SUFFICES ASSUME Inv, [Next]_vars PROVE Inv'
      OBVIOUS
    <2>1. FieldInv'
      BY FieldInvStep
    <2>2. Aimed' /\ TaskIds'
      BY AimedStep, TaskIdsStep, TypeParts DEF FieldInv, NameInv
    <2>3. FollowInv'
      BY <2>1, FollowStep
    <2>4. KnowInv' /\ Ends
      BY <2>1, KnowStep
    <2>5. Forgotten'
      BY <2>1, <2>4, ForgottenStep
    <2> QED
      BY <2>1, <2>2, <2>3, <2>4, <2>5
  <1> QED
    BY <1>1, <1>2, PTL DEF Spec

\* When the requests about an undisturbed task are done, each registered pusher
\* has the task, and pushes with the settings of the database if it is to push.
THEOREM PushersKnowTheTasks == Spec => []PushersKnow
  <1>1. FieldInv /\ FollowInv /\ KnowInv => PushersKnow
    <2> SUFFICES ASSUME FieldInv, FollowInv, KnowInv, NEW p \in Pushers \cap registered \cap up, NEW i \in Ids,
                        Exists(i), Settled(rows[i].name)
                 PROVE  /\ receiver[p][rows[i].name] # "none"
                        /\ rows[i].push => taskIdMap[p][i] = fields[i]
      BY DEF PushersKnow
    <2>1. rows[i].name \in Names /\ i \in Listed(rows[i].name)
      BY DEF FieldInv, NameInv, TypeOK, Rows, Exists, Listed
    <2>2. Knows(p, rows[i].name)
      BY <2>1 DEF KnowInv, Minds, FollowInv, Settled, Active
    <2> QED
      BY <2>1, <2>2 DEF Knows
  <1> QED
    BY <1>1, KnowInvariant, PTL

\* When the requests about an undisturbed name without a row are done, no
\* registered process has anything of the name; and when all requests are done,
\* and nothing has gone wrong, nothing is left of an id without a row.
THEOREM DeletedTasksAreForgotten == Spec => []DeletedIsForgotten
  <1>1. FieldInv /\ FollowInv /\ KnowInv /\ Forgotten => DeletedIsForgotten
    <2> SUFFICES ASSUME FieldInv, FollowInv, KnowInv, Forgotten PROVE DeletedIsForgotten
      OBVIOUS
    <2>1. ASSUME NEW n \in Names, Settled(n), Listed(n) = {}
          PROVE  /\ \A d \in Dispatchers \cap registered \cap up : consumer[d][n] = None /\ taskMap[d][n] = None
                 /\ \A p \in Pushers \cap registered \cap up : receiver[p][n] = "none"
      <3>1. n \notin disturbed /\ \A h \in Handlers : ~About(h, n)
        BY <2>1 DEF Settled, Active
      <3>2. \A d \in Dispatchers \cap registered \cap up : Agrees(d, n)
        BY <3>1 DEF FollowInv, Heeds
      <3>3. \A p \in Pushers \cap registered \cap up : Knows(p, n)
        BY <3>1 DEF FollowInv, KnowInv, Minds
      <3> QED
        BY <2>1, <3>2, <3>3 DEF Agrees, Knows
    <2>2. ASSUME NEW i \in Ids, disturbed = {}, \A n \in Names : ~Active(n), ~Exists(i)
          PROVE  /\ fields[i] = {}
                 /\ \A p \in Pushers \cap registered \cap up : taskIdMap[p][i] = None
      <3>1. \A h \in Handlers : ~Busy(h)
        BY <2>2, BusyNames, TypeParts DEF Active, About, FieldInv, NameInv
      <3> QED
        BY <2>2, <3>1 DEF Forgotten, Deleting, FollowInv
    <2> QED
      BY <2>1, <2>2 DEF DeletedIsForgotten
  <1> QED
    BY <1>1, KnowInvariant, PTL

=============================================================================
