-------------------------- MODULE EventFilterProofs --------------------------
(***************************************************************************)
(* Proofs about ColumnCache and EventFilter, for every set of schemas and  *)
(* definitions, every list of columns and of fields, and any number of     *)
(* changes, failed queries and restarts.                                   *)
(***************************************************************************)
EXTENDS EventFilter, TLAPS, FiniteSetTheorems

-----------------------------------------------------------------------------
(* The column cache.                                                       *)

\* What a schema is now, it has been since any refresh began.
NowCounts == \A s \in Schemas : types[s] \in since[s] /\ types[s] \in pending[s]

\* A refresh has read of each schema it is done with, and assumed of each that was
\* not there, what that schema was at some time since the refresh began.
ReadWasTrue == todo # None => \A s \in Schemas \ todo : read[s] \in pending[s]

CacheInv == CacheTypeOK /\ NowCounts /\ ReadWasTrue /\ CacheWasTrue

-----------------------------------------------------------------------------
\* An empty map gives every schema a value.
LEMMA EmptyIsTyped == Empty \in [Schemas -> Definitions \cup {Absent}]
  BY DEF Empty

\* What is true now is a set of definitions for each schema.
LEMMA NowIsTyped ==
    ASSUME types \in [Schemas -> Definitions \cup {Absent}]
    PROVE  /\ Now \in [Schemas -> SUBSET (Definitions \cup {Absent})]
           /\ \A s \in Schemas : types[s] \in Now[s]
  BY DEF Now

\* The cache starts without a map and without a refresh.
LEMMA InitInv == CacheInit => CacheInv
  <1> SUFFICES ASSUME CacheInit PROVE CacheInv
    OBVIOUS
  <1>1. emptied \in BOOLEAN
    BY DEF CacheInit
  <1>2. CacheTypeOK
    BY <1>1, CacheAssumption, EmptyIsTyped, NowIsTyped DEF CacheInit, CacheTypeOK
  <1>3. NowCounts
    BY NowIsTyped DEF CacheInit, NowCounts
  <1> QED
    BY <1>2, <1>3 DEF CacheInit, CacheInv, ReadWasTrue, CacheWasTrue

\* Every step of the cache keeps the types.
LEMMA TypeStep ==
    ASSUME CacheTypeOK, [CacheNext \/ Dies]_cacheVars
    PROVE  CacheTypeOK'
  <1> USE CacheAssumption, EmptyIsTyped, NowIsTyped DEF CacheTypeOK, Fails
  <1>1. CASE BuildColumnMap
    BY <1>1 DEF BuildColumnMap
  <1>2. CASE FirstLookup
    <2>1. emptied' \in BOOLEAN
      BY <1>2 DEF FirstLookup
    <2>2. columnMap' \in [Schemas -> Definitions \cup {Absent}]
      BY <1>2 DEF FirstLookup
    <2>3. failures' \in 0 .. MaxFailures
      BY <1>2 DEF FirstLookup
    <2> QED
      BY <1>2, <2>1, <2>2, <2>3 DEF FirstLookup
  <1>3. CASE GetSchemas
    BY <1>3 DEF GetSchemas
  <1>4. CASE QueryFails
    BY <1>4 DEF QueryFails
  <1>5. CASE Install
    BY <1>5 DEF Install
  <1>6. ASSUME NEW s \in Schemas, QuerySchema(s) PROVE CacheTypeOK'
    BY <1>6 DEF QuerySchema
  <1>7. ASSUME NEW s \in Schemas, NEW d \in Definitions \cup {Absent}, Alter(s, d)
        PROVE  CacheTypeOK'
    BY <1>7 DEF Alter
  <1>8. CASE Dies
    BY <1>8 DEF Dies
  <1>9. CASE UNCHANGED cacheVars
    BY <1>9 DEF cacheVars
  <1> QED
    BY <1>1, <1>2, <1>3, <1>4, <1>5, <1>6, <1>7, <1>8, <1>9 DEF CacheNext

\* A change of a table is noted in both histories, and a new one starts from now.
LEMMA NowStep ==
    ASSUME CacheTypeOK, NowCounts, [CacheNext \/ Dies]_cacheVars
    PROVE  NowCounts'
  <1> USE NowIsTyped DEF CacheTypeOK, NowCounts
  <1>1. CASE BuildColumnMap
    BY <1>1 DEF BuildColumnMap
  <1>2. CASE FirstLookup
    BY <1>2 DEF FirstLookup
  <1>3. CASE GetSchemas
    BY <1>3 DEF GetSchemas
  <1>4. CASE QueryFails \/ Dies
    BY <1>4 DEF QueryFails, Dies
  <1>5. CASE Install
    BY <1>5 DEF Install
  <1>6. ASSUME NEW s \in Schemas, QuerySchema(s) PROVE NowCounts'
    BY <1>6 DEF QuerySchema
  <1>7. ASSUME NEW s \in Schemas, NEW d \in Definitions \cup {Absent}, Alter(s, d)
        PROVE  NowCounts'
    BY <1>7 DEF Alter
  <1>8. CASE UNCHANGED cacheVars
    BY <1>8 DEF cacheVars
  <1> QED
    BY <1>1, <1>2, <1>3, <1>4, <1>5, <1>6, <1>7, <1>8 DEF CacheNext

\* A step reads a schema as it is, or leaves what was read alone.
LEMMA ReadStep ==
    ASSUME CacheTypeOK, NowCounts, ReadWasTrue, [CacheNext \/ Dies]_cacheVars
    PROVE  ReadWasTrue'
  <1> USE DEF CacheTypeOK, NowCounts, ReadWasTrue
  <1>1. CASE BuildColumnMap
    BY <1>1 DEF BuildColumnMap
  <1>2. CASE FirstLookup
    BY <1>2 DEF FirstLookup
  <1>3. CASE GetSchemas
    <2>1. \A s \in Schemas \ todo' : types[s] = Absent /\ read'[s] = Absent
      BY <1>3 DEF GetSchemas, Empty
    <2> QED
      BY <1>3, <2>1, NowIsTyped DEF GetSchemas
  <1>4. CASE QueryFails \/ Install \/ Dies
    BY <1>4 DEF QueryFails, Install, Dies
  <1>5. ASSUME NEW s \in Schemas, QuerySchema(s) PROVE ReadWasTrue'
    BY <1>5 DEF QuerySchema
  <1>6. ASSUME NEW s \in Schemas, NEW d \in Definitions \cup {Absent}, Alter(s, d)
        PROVE  ReadWasTrue'
    BY <1>6 DEF Alter
  <1>7. CASE UNCHANGED cacheVars
    BY <1>7 DEF cacheVars
  <1> QED
    BY <1>1, <1>2, <1>3, <1>4, <1>5, <1>6, <1>7 DEF CacheNext

\* A refresh that gets as far as Install has read every schema; one that fails
\* installs nothing.
LEMMA WasTrueStep ==
    ASSUME CacheTypeOK, ReadWasTrue, CacheWasTrue, [CacheNext \/ Dies]_cacheVars
    PROVE  CacheWasTrue'
  <1> USE NowIsTyped DEF CacheTypeOK, CacheWasTrue
  <1>1. CASE BuildColumnMap
    BY <1>1 DEF BuildColumnMap
  <1>2. CASE FirstLookup
    BY <1>2 DEF FirstLookup
  <1>3. CASE GetSchemas \/ QueryFails \/ Dies
    BY <1>3 DEF GetSchemas, QueryFails, Dies
  <1>4. CASE Install
    BY <1>4, CacheAssumption DEF Install, ReadWasTrue
  <1>5. ASSUME NEW s \in Schemas, QuerySchema(s) PROVE CacheWasTrue'
    BY <1>5 DEF QuerySchema
  <1>6. ASSUME NEW s \in Schemas, NEW d \in Definitions \cup {Absent}, Alter(s, d)
        PROVE  CacheWasTrue'
    BY <1>6 DEF Alter
  <1>7. CASE UNCHANGED cacheVars
    BY <1>7 DEF cacheVars
  <1> QED
    BY <1>1, <1>2, <1>3, <1>4, <1>5, <1>6, <1>7 DEF CacheNext

\* The inductive invariant.
THEOREM Invariant == CacheSpec => []CacheInv
  <1>1. CacheInv /\ [CacheNext \/ Dies]_cacheVars => CacheInv'
    BY TypeStep, NowStep, ReadStep, WasTrueStep DEF CacheInv
  <1> QED
    BY InitInv, <1>1, PTL DEF CacheSpec

\* The inspector's goroutine keeps its variables' types.
THEOREM TypeCorrect == CacheSpec => []CacheTypeOK
  <1>1. CacheInv => CacheTypeOK
    BY DEF CacheInv
  <1> QED
    BY Invariant, <1>1, PTL

\* Whatever fails or changes meanwhile, the column map has of no schema what it was
\* before the refresh that installed the map, and misses no schema that was there
\* all the time.
THEOREM CacheIsTrue == CacheSpec => []CacheWasTrue
  <1>1. CacheInv => CacheWasTrue
    BY DEF CacheInv
  <1> QED
    BY Invariant, <1>1, PTL

\* The handler of events only reads the cache: whatever it does, the cache behaves
\* as it does alone, where a process may die.
THEOREM CacheBehaves == Spec => CacheSpec
  <1>1. Init => CacheInit
    BY DEF Init
  <1>2. ASSUME [Next]_allVars PROVE [CacheNext \/ Dies]_cacheVars
    <2>1. CASE CacheNext /\ UNCHANGED filterVars
      BY <2>1
    <2>2. ASSUME NEW s \in Schemas, NEW type \in Types, NEW updated \in SUBSET Names,
                 HandleKafkaEvent(s, type, updated)
          PROVE  UNCHANGED cacheVars
      BY <2>2 DEF HandleKafkaEvent
    <2>3. CASE translateColumnValue \/ NextMessage
      BY <2>3 DEF translateColumnValue, NextMessage
    <2>4. CASE NilMap
      BY <2>4 DEF NilMap
    <2>5. ASSUME NEW list \in FieldLists, genNotifyEvent(list) PROVE UNCHANGED cacheVars
      BY <2>5 DEF genNotifyEvent
    <2>6. CASE UNCHANGED allVars
      BY <2>6 DEF allVars
    <2> QED
      BY <1>2, <2>1, <2>2, <2>3, <2>4, <2>5, <2>6 DEF Next
  <1> QED
    BY <1>1, <1>2, PTL DEF Spec, CacheSpec

\* So the map an event is translated by is as true as it is alone.
THEOREM FilterCacheIsTrue == Spec => []CacheWasTrue
  BY CacheBehaves, CacheIsTrue, PTL

-----------------------------------------------------------------------------
(* Induction, and the recursive function that is enqueue's loop.           *)

\* A set of natural numbers has a least one, as their order is well-founded.
LEMMA LeastNumber ==
    ASSUME NEW T \in SUBSET Nat, T # {}
    PROVE  \E x \in T : \A y \in T : x <= y
  <1> DEFINE R == OpToRel(<, Nat)
  <1>1. IsWellFoundedOn(R, Nat)
    BY NatLessThanWellFounded
  <1>2. \A x, y \in Nat : <<y, x>> \in R <=> y < x
    BY DEF OpToRel
  <1> HIDE DEF R
  <1>3. PICK x \in T : \A y \in T : ~ (<<y, x>> \in R)
    BY <1>1, WFMin
  <1>4. \A y \in T : ~ (y < x)
    BY <1>2, <1>3
  <1> QED
    BY <1>4

\* Induction for a set of numbers, without a predicate for a parameter.
LEMMA Induction ==
    ASSUME NEW P \in SUBSET Nat, 0 \in P, \A n \in P : n + 1 \in P
    PROVE  P = Nat
  <1> SUFFICES ASSUME Nat \ P # {} PROVE FALSE
    OBVIOUS
  <1>1. PICK x \in Nat \ P : \A y \in Nat \ P : x <= y
    BY LeastNumber
  <1>2. x # 0 /\ x - 1 \in Nat /\ x - 1 \notin Nat \ P
    BY <1>1
  <1> QED
    BY <1>2

Start == [fields |-> <<>>, keys |-> <<>>, changed |-> FALSE]
IsLoop(e, list, n, f) ==
    f = [k \in 0 .. n |-> IF k = 0 THEN Start ELSE Accumulate(e, list, f[k - 1], Columns[k])]

\* The equations of the loop have a solution, for any number of turns.
LEMMA LoopsExist ==
    ASSUME NEW e, NEW list, NEW N \in Nat
    PROVE  \E f : IsLoop(e, list, N, f)
  <1> DEFINE P == {n \in Nat : \E f : IsLoop(e, list, n, f)}
  <1>1. 0 \in P
    <2>1. IsLoop(e, list, 0, [k \in 0 .. 0 |-> Start])
      BY DEF IsLoop
    <2> QED
      BY <2>1
  <1>2. ASSUME NEW n \in P PROVE n + 1 \in P
    <2>1. PICK f : IsLoop(e, list, n, f)
      OBVIOUS
    <2> DEFINE g == [k \in 0 .. n + 1 |->
                        IF k = n + 1 THEN Accumulate(e, list, f[n], Columns[k]) ELSE f[k]]
    <2>2. n \in Nat /\ n + 1 \in Nat
      OBVIOUS
    <2>3. \A k \in 0 .. n + 1 :
             g[k] = IF k = 0 THEN Start ELSE Accumulate(e, list, g[k - 1], Columns[k])
      <3> SUFFICES ASSUME NEW k \in 0 .. n + 1
                   PROVE  g[k] = IF k = 0 THEN Start
                                 ELSE Accumulate(e, list, g[k - 1], Columns[k])
        OBVIOUS
      <3>1. CASE k = 0
        BY <3>1, <2>1, <2>2 DEF IsLoop
      <3>2. CASE k = n + 1
        <4>1. g[k - 1] = f[n] /\ k # 0
          BY <3>2, <2>2
        <4> QED
          BY <4>1, <3>2, <2>2
      <3>3. CASE k # 0 /\ k # n + 1
        <4>1. k \in 0 .. n /\ g[k] = f[k] /\ g[k - 1] = f[k - 1]
          BY <3>3, <2>2
        <4> QED
          BY <4>1, <3>3, <2>1 DEF IsLoop
      <3> QED
        BY <3>1, <3>2, <3>3
    <2>4. g = [k \in 0 .. n + 1 |-> g[k]]
      OBVIOUS
    <2> HIDE DEF g
    <2>5. IsLoop(e, list, n + 1, g)
      BY <2>3, <2>4 DEF IsLoop
    <2> QED
      BY <2>2, <2>5
  <1> HIDE DEF P
  <1>3. P \in SUBSET Nat
    BY DEF P
  <1>4. P = Nat
    BY <1>1, <1>2, <1>3, Induction
  <1> QED
    BY <1>4 DEF P

\* What the loop has after k columns, it has made of what it had after k - 1.
LEMMA LoopTurns ==
    ASSUME NEW e, NEW list, NEW k \in 0 .. Len(Columns)
    PROVE  Loop(e, list)[k] = IF k = 0 THEN Start
                              ELSE Accumulate(e, list, Loop(e, list)[k - 1], Columns[k])
  <1>1. Len(Columns) \in Nat
    BY FilterAssumption
  <1>2. Loop(e, list) = CHOOSE f : IsLoop(e, list, Len(Columns), f)
    BY DEF Loop, IsLoop, Start
  <1>3. IsLoop(e, list, Len(Columns), Loop(e, list))
    BY <1>1, <1>2, LoopsExist
  <1> QED
    BY <1>3 DEF IsLoop

-----------------------------------------------------------------------------
(* The fields a column matches.                                            *)

SubscribedIn(list) == {c \in Names : Matching(list, c) # {}}
WithValueIn(list) == {c \in SubscribedIn(list) : list[First(list, c)].send}
ChangedIn(e, list) ==
    IF e.type = "UPDATE" THEN e.updated \cap SubscribedIn(list) ELSE SubscribedIn(list)

\* A list of fields is a sequence of fields.
LEMMA ListTyped ==
    ASSUME NEW list \in FieldLists
    PROVE  /\ DOMAIN list \in SUBSET Nat
           /\ \A i \in DOMAIN list : list[i] \in Fields /\ i >= 1
  <1>1. PICK n \in 0 .. MaxFields : list \in [1 .. n -> Fields]
    BY DEF FieldLists
  <1>2. DOMAIN list = 1 .. n /\ n \in Nat
    BY <1>1, FilterAssumption
  <1> QED
    BY <1>1, <1>2

\* GetTaskField takes the first of the matching fields.
LEMMA FirstIsFirst ==
    ASSUME NEW list \in FieldLists, NEW c, Matching(list, c) # {}
    PROVE  /\ First(list, c) \in Matching(list, c)
           /\ \A j \in Matching(list, c) : First(list, c) <= j
  <1>1. Matching(list, c) \in SUBSET Nat
    BY ListTyped DEF Matching
  <1>2. \E i \in Matching(list, c) : \A j \in Matching(list, c) : i <= j
    BY <1>1, LeastNumber
  <1> QED
    BY <1>2 DEF First

\* GetTaskField finds a field for the subscribed columns, and whether it sends the value.
LEMMA FieldOfColumn ==
    ASSUME NEW list \in FieldLists, NEW c \in Names
    PROVE  /\ GetTaskField(list, c) = None <=> c \notin SubscribedIn(list)
           /\ c \in SubscribedIn(list) =>
                (GetTaskField(list, c).send <=> c \in WithValueIn(list))
  <1>1. CASE Matching(list, c) = {}
    BY <1>1 DEF GetTaskField, SubscribedIn
  <1>2. CASE Matching(list, c) # {}
    <2>1. First(list, c) \in DOMAIN list
      BY <1>2, FirstIsFirst DEF Matching
    <2>2. list[First(list, c)] # None
      BY <2>1, ListTyped, FilterAssumption
    <2> QED
      BY <1>2, <2>2 DEF GetTaskField, SubscribedIn, WithValueIn
  <1> QED
    BY <1>1, <1>2

\* What the property says of the fields looked up is what GetTaskField goes by.
LEMMA ReadByFields ==
    ASSUME fields \in FieldLists
    PROVE  Subscribed = SubscribedIn(fields) /\ WithValue = WithValueIn(fields)
  <1>1. Subscribed = SubscribedIn(fields)
    BY DEF Subscribed, SubscribedIn, Matching
  <1>2. ASSUME NEW c \in Subscribed, NEW i \in DOMAIN fields,
               fields[i].matches /\ fields[i].column = c /\ fields[i].send,
               \A j \in 1 .. i - 1 : ~(fields[j].matches /\ fields[j].column = c)
        PROVE  c \in WithValueIn(fields)
    <2>1. i \in Matching(fields, c) /\ i \in Nat
      BY <1>2, ListTyped DEF Matching
    <2>2. /\ First(fields, c) \in Matching(fields, c) /\ First(fields, c) <= i
          /\ First(fields, c) \in Nat /\ First(fields, c) >= 1
      BY <2>1, FirstIsFirst, ListTyped DEF Matching
    <2>3. First(fields, c) \notin 1 .. i - 1
      BY <1>2, <2>2 DEF Matching
    <2>4. First(fields, c) = i
      BY <2>1, <2>2, <2>3
    <2> QED
      BY <1>1, <1>2, <2>4 DEF WithValueIn
  <1>3. ASSUME NEW c \in WithValueIn(fields) PROVE c \in WithValue
    <2>1. c \in Subscribed /\ c \in Names /\ Matching(fields, c) # {}
      BY <1>1 DEF WithValueIn, SubscribedIn
    <2> DEFINE i == First(fields, c)
    <2>2. /\ i \in DOMAIN fields /\ i \in Nat /\ fields[i].matches /\ fields[i].column = c
          /\ fields[i].send
      BY <2>1, FirstIsFirst, ListTyped DEF Matching, WithValueIn
    <2>3. ASSUME NEW j \in 1 .. i - 1, fields[j].matches /\ fields[j].column = c PROVE FALSE
      <3>1. j \in DOMAIN fields
        <4>1. PICK n \in 0 .. MaxFields : fields \in [1 .. n -> Fields]
          BY DEF FieldLists
        <4>2. n \in Nat /\ DOMAIN fields = 1 .. n
          BY <4>1, FilterAssumption
        <4> HIDE DEF i
        <4> QED
          BY <4>2, <2>2
      <3>2. j \in Matching(fields, c)
        BY <3>1, <2>3 DEF Matching
      <3>3. i <= j
        BY <2>1, <3>2, FirstIsFirst
      <3> HIDE DEF i
      <3> QED
        BY <2>2, <3>3
    <2> HIDE DEF i
    <2> QED
      BY <2>1, <2>2, <2>3 DEF WithValue
  <1>4. WithValue \in SUBSET WithValueIn(fields)
    BY <1>2 DEF WithValue
  <1> QED
    BY <1>1, <1>3, <1>4

-----------------------------------------------------------------------------
(* The loop.                                                               *)

Prefix(k) == {Columns[i] : i \in 1 .. k}
Lists(seq, set) ==
    seq \in Seq(Names) /\ In(seq) = set /\ IsFiniteSet(set) /\ Len(seq) = Cardinality(set)

\* After k columns the message has each of them once that it must have, where it
\* belongs, and a change is noted exactly when there is one.
Sorted(e, list, acc, k) ==
    /\ acc \in [fields : Seq(Names), keys : Seq(Names), changed : BOOLEAN]
    /\ Lists(acc.fields, Prefix(k) \cap WithValueIn(list))
    /\ Lists(acc.keys, Prefix(k) \cap (ChangedIn(e, list) \ WithValueIn(list)))
    /\ e.type = "UPDATE" => (acc.changed <=> Prefix(k) \cap ChangedIn(e, list) # {})

\* The next column is none of those before it.
LEMMA ColumnIsNew ==
    ASSUME NEW k \in Nat, k < Len(Columns)
    PROVE  /\ Columns[k + 1] \in Names /\ Columns[k + 1] \notin Prefix(k)
           /\ Prefix(k + 1) = Prefix(k) \cup {Columns[k + 1]}
  <1>1. Len(Columns) \in Nat /\ k + 1 \in 1 .. Len(Columns)
    BY FilterAssumption
  <1>2. Columns[k + 1] \notin Prefix(k)
    BY <1>1, FilterAssumption DEF Prefix
  <1>3. 1 .. k + 1 = (1 .. k) \cup {k + 1}
    BY <1>1
  <1>4. Prefix(k + 1) = Prefix(k) \cup {Columns[k + 1]}
    BY <1>3 DEF Prefix
  <1> QED
    BY <1>1, <1>2, <1>4 DEF Names

\* A list of a set, with a new element appended, lists the set with the element.
LEMMA AppendLists ==
    ASSUME NEW seq, NEW set, NEW c \in Names, Lists(seq, set), c \notin set
    PROVE  Lists(Append(seq, c), set \cup {c})
  <1>1. /\ Append(seq, c) \in Seq(Names) /\ Len(Append(seq, c)) = Len(seq) + 1
        /\ Len(seq) \in Nat
        /\ DOMAIN seq = 1 .. Len(seq) /\ DOMAIN Append(seq, c) = 1 .. Len(seq) + 1
    BY DEF Lists
  <1>2. /\ Append(seq, c)[Len(seq) + 1] = c
        /\ \A i \in 1 .. Len(seq) : Append(seq, c)[i] = seq[i]
    BY DEF Lists
  <1>3. 1 .. Len(seq) + 1 = (1 .. Len(seq)) \cup {Len(seq) + 1}
    BY <1>1
  <1>4. In(Append(seq, c)) = In(seq) \cup {c}
    BY <1>1, <1>2, <1>3 DEF In
  <1>5. IsFiniteSet(set \cup {c}) /\ Cardinality(set \cup {c}) = Cardinality(set) + 1
    BY FS_AddElement DEF Lists
  <1> QED
    BY <1>1, <1>4, <1>5 DEF Lists

\* Before the first turn nothing has been sorted.
LEMMA SortedStart ==
    ASSUME NEW e \in Events, NEW list \in FieldLists
    PROVE  Sorted(e, list, Start, 0)
  <1>1. Prefix(0) = {}
    BY DEF Prefix
  <1>2. Lists(<<>>, {})
    BY FS_EmptySet DEF Lists, In
  <1>3. /\ Prefix(0) \cap WithValueIn(list) = {}
        /\ Prefix(0) \cap ChangedIn(e, list) = {}
        /\ Prefix(0) \cap (ChangedIn(e, list) \ WithValueIn(list)) = {}
    BY <1>1
  <1>4. Start.fields = <<>> /\ Start.keys = <<>> /\ Start.changed = FALSE
    BY DEF Start
  <1>5. Start \in [fields : Seq(Names), keys : Seq(Names), changed : BOOLEAN]
    BY DEF Start
  <1> QED
    BY <1>2, <1>3, <1>4, <1>5 DEF Sorted

\* One turn of the loop puts the next column where it belongs.
LEMMA SortedTurn ==
    ASSUME NEW e \in Events, NEW list \in FieldLists, NEW acc,
           NEW k \in Nat, k < Len(Columns), Sorted(e, list, acc, k)
    PROVE  Sorted(e, list, Accumulate(e, list, acc, Columns[k + 1]), k + 1)
  <1> DEFINE c == Columns[k + 1]
             with == WithValueIn(list)
             rest == ChangedIn(e, list) \ with
             next == Accumulate(e, list, acc, c)
             tf == GetTaskField(list, c)
  <1>1. c \in Names /\ c \notin Prefix(k) /\ Prefix(k + 1) = Prefix(k) \cup {c}
    BY ColumnIsNew
  <1>2. /\ tf = None <=> c \notin SubscribedIn(list)
        /\ c \in SubscribedIn(list) => (tf.send <=> c \in with)
    BY <1>1, FieldOfColumn
  <1>3. /\ acc \in [fields : Seq(Names), keys : Seq(Names), changed : BOOLEAN]
        /\ Lists(acc.fields, Prefix(k) \cap with) /\ Lists(acc.keys, Prefix(k) \cap rest)
        /\ e.type = "UPDATE" => (acc.changed <=> Prefix(k) \cap ChangedIn(e, list) # {})
    BY DEF Sorted
  <1>4. with \in SUBSET SubscribedIn(list) /\ ChangedIn(e, list) \in SUBSET SubscribedIn(list)
    BY DEF WithValueIn, ChangedIn
  <1>5. next = IF tf = None THEN acc
               ELSE IF tf.send
               THEN [acc EXCEPT !.fields = Append(@, c), !.changed = @ \/ c \in e.updated]
               ELSE IF e.type # "UPDATE" THEN [acc EXCEPT !.keys = Append(@, c)]
               ELSE IF c \in e.updated THEN [acc EXCEPT !.keys = Append(@, c), !.changed = TRUE]
               ELSE acc
    BY DEF Accumulate
  <1>6. SUFFICES
        /\ next \in [fields : Seq(Names), keys : Seq(Names), changed : BOOLEAN]
        /\ Lists(next.fields, Prefix(k + 1) \cap with)
        /\ Lists(next.keys, Prefix(k + 1) \cap rest)
        /\ e.type = "UPDATE" => (next.changed <=> Prefix(k + 1) \cap ChangedIn(e, list) # {})
    BY DEF Sorted
  <1> HIDE DEF c, with, next, tf
  \* The task has no field of the column.
  <1>7. CASE c \notin SubscribedIn(list)
    <2>1. next = acc
      BY <1>2, <1>5, <1>7
    <2>2. /\ Prefix(k + 1) \cap with = Prefix(k) \cap with
          /\ Prefix(k + 1) \cap rest = Prefix(k) \cap rest
          /\ Prefix(k + 1) \cap ChangedIn(e, list) = Prefix(k) \cap ChangedIn(e, list)
      BY <1>1, <1>4, <1>7
    <2> QED
      BY <2>1, <2>2, <1>3
  \* It has one that asks for the value.
  <1>8. CASE c \in with
    <2>1. next = [acc EXCEPT !.fields = Append(@, c), !.changed = @ \/ c \in e.updated]
      BY <1>2, <1>4, <1>5, <1>8
    <2>2. /\ next.fields = Append(acc.fields, c) /\ next.keys = acc.keys
          /\ next.changed = (acc.changed \/ c \in e.updated)
          /\ next = [fields |-> Append(acc.fields, c), keys |-> acc.keys,
                     changed |-> next.changed]
      BY <2>1, <1>3
    <2>3. /\ Prefix(k + 1) \cap with = (Prefix(k) \cap with) \cup {c}
          /\ c \notin Prefix(k) \cap with
          /\ Prefix(k + 1) \cap rest = Prefix(k) \cap rest
      BY <1>1, <1>8
    <2>4. Lists(next.fields, Prefix(k + 1) \cap with) /\ Lists(next.keys, Prefix(k + 1) \cap rest)
      <3>1. Lists(Append(acc.fields, c), (Prefix(k) \cap with) \cup {c})
        BY <2>3, <1>1, <1>3, AppendLists
      <3> QED
        BY <3>1, <2>2, <2>3, <1>3
    <2>5. next \in [fields : Seq(Names), keys : Seq(Names), changed : BOOLEAN]
      <3>1. next.changed \in BOOLEAN
        BY <2>2
      <3>2. next.fields \in Seq(Names) /\ next.keys \in Seq(Names)
        BY <2>4 DEF Lists
      <3> QED
        BY <3>1, <3>2, <2>2
    <2>6. e.type = "UPDATE" => (next.changed <=> Prefix(k + 1) \cap ChangedIn(e, list) # {})
      <3>1. e.type = "UPDATE" => (c \in e.updated <=> c \in ChangedIn(e, list))
        BY <1>4, <1>8 DEF ChangedIn
      <3>2. Prefix(k + 1) \cap ChangedIn(e, list) # {} <=>
              (Prefix(k) \cap ChangedIn(e, list) # {} \/ c \in ChangedIn(e, list))
        BY <1>1
      <3> QED
        BY <3>1, <3>2, <2>2, <1>3
    <2> QED
      BY <2>4, <2>5, <2>6
  \* It has one that does not, and the column counts as changed.
  <1>9. CASE c \in rest
    <2>1. /\ c \in SubscribedIn(list) /\ c \notin with /\ c \in ChangedIn(e, list)
          /\ e.type = "UPDATE" => c \in e.updated
      BY <1>4, <1>9 DEF ChangedIn
    <2>2. /\ next.fields = acc.fields /\ next.keys = Append(acc.keys, c)
          /\ next.changed = (acc.changed \/ e.type = "UPDATE")
          /\ next = [fields |-> acc.fields, keys |-> Append(acc.keys, c),
                     changed |-> next.changed]
      BY <2>1, <1>2, <1>3, <1>5
    <2>3. /\ Prefix(k + 1) \cap rest = (Prefix(k) \cap rest) \cup {c}
          /\ c \notin Prefix(k) \cap rest
          /\ Prefix(k + 1) \cap with = Prefix(k) \cap with
          /\ c \in Prefix(k + 1) \cap ChangedIn(e, list)
      BY <2>1, <1>1, <1>9
    <2>4. Lists(next.fields, Prefix(k + 1) \cap with) /\ Lists(next.keys, Prefix(k + 1) \cap rest)
      <3>1. Lists(Append(acc.keys, c), (Prefix(k) \cap rest) \cup {c})
        BY <2>3, <1>1, <1>3, AppendLists
      <3> QED
        BY <3>1, <2>2, <2>3, <1>3
    <2>5. next \in [fields : Seq(Names), keys : Seq(Names), changed : BOOLEAN]
      <3>1. next.changed \in BOOLEAN
        BY <2>2
      <3>2. next.fields \in Seq(Names) /\ next.keys \in Seq(Names)
        BY <2>4 DEF Lists
      <3> QED
        BY <3>1, <3>2, <2>2
    <2> QED
      BY <2>2, <2>3, <2>4, <2>5
  \* It has one that does not, and the update left the column as it was.
  <1>10. CASE c \in SubscribedIn(list) /\ c \notin with /\ c \notin rest
    <2>1. e.type = "UPDATE" /\ c \notin e.updated /\ c \notin ChangedIn(e, list)
      BY <1>10 DEF ChangedIn
    <2>2. next = acc
      BY <2>1, <1>2, <1>5, <1>10
    <2>3. /\ Prefix(k + 1) \cap with = Prefix(k) \cap with
          /\ Prefix(k + 1) \cap rest = Prefix(k) \cap rest
          /\ Prefix(k + 1) \cap ChangedIn(e, list) = Prefix(k) \cap ChangedIn(e, list)
      BY <2>1, <1>1, <1>10
    <2> QED
      BY <2>2, <2>3, <1>3
  <1> QED
    BY <1>7, <1>8, <1>9, <1>10

\* So the whole loop sorts all columns.
LEMMA SortedLoop ==
    ASSUME NEW e \in Events, NEW list \in FieldLists
    PROVE  Sorted(e, list, Loop(e, list)[Len(Columns)], Len(Columns))
  <1> DEFINE P == {k \in Nat : k <= Len(Columns) => Sorted(e, list, Loop(e, list)[k], k)}
  <1>1. Len(Columns) \in Nat
    BY FilterAssumption
  <1>2. 0 \in P
    BY <1>1, LoopTurns, SortedStart
  <1>3. ASSUME NEW k \in P PROVE k + 1 \in P
    <2> SUFFICES ASSUME k + 1 <= Len(Columns)
                 PROVE  Sorted(e, list, Loop(e, list)[k + 1], k + 1)
      OBVIOUS
    <2>1. Sorted(e, list, Loop(e, list)[k], k) /\ k \in Nat /\ k < Len(Columns)
      BY <1>1
    <2>2. Loop(e, list)[k + 1] = Accumulate(e, list, Loop(e, list)[k], Columns[k + 1])
      <3>1. k + 1 \in 0 .. Len(Columns) /\ k + 1 # 0 /\ (k + 1) - 1 = k
        BY <1>1, <2>1
      <3> QED
        BY <3>1, LoopTurns
    <2> QED
      BY <2>1, <2>2, SortedTurn
  <1> HIDE DEF P
  <1>4. P \in SUBSET Nat
    BY DEF P
  <1>5. P = Nat
    BY <1>2, <1>3, <1>4, Induction
  <1> QED
    BY <1>1, <1>5 DEF P

\* What enqueue makes of any event and any list of fields.
LEMMA EnqueueSorts ==
    ASSUME NEW e \in Events, NEW list \in FieldLists
    PROVE  LET msg == enqueue(e, list)
               changed == ChangedIn(e, list)
               with == WithValueIn(list)
           IN  /\ msg \in Messages
               /\ msg = Nothing <=> changed = {}
               /\ msg # Nothing => Lists(msg.fields, with) /\ Lists(msg.keys, changed \ with)
  <1> DEFINE acc == Loop(e, list)[Len(Columns)]
             changed == ChangedIn(e, list)
             with == WithValueIn(list)
  <1>1. Sorted(e, list, acc, Len(Columns)) /\ Prefix(Len(Columns)) = Names
    BY SortedLoop DEF Prefix, Names
  <1>2. with \in SUBSET Names /\ changed \in SUBSET Names
    BY DEF WithValueIn, ChangedIn, SubscribedIn
  <1>3. /\ acc.fields \in Seq(Names) /\ acc.keys \in Seq(Names)
        /\ Lists(acc.fields, with) /\ Lists(acc.keys, changed \ with)
        /\ e.type = "UPDATE" => (acc.changed <=> changed # {})
    <2>1. /\ Names \cap with = with /\ Names \cap (changed \ with) = changed \ with
          /\ Names \cap changed = changed
      BY <1>2
    <2> QED
      BY <1>1, <2>1 DEF Sorted, Lists
  <1>4. enqueue(e, list) = IF e.type = "UPDATE" /\ ~acc.changed THEN Nothing
                           ELSE [fields |-> acc.fields, keys |-> acc.keys]
    BY DEF enqueue
  <1>5. with \cup (changed \ with) = {} => changed = {}
    OBVIOUS
  <1>6. e.type # "UPDATE" => with \in SUBSET changed
    BY DEF WithValueIn, ChangedIn
  <1>7. In(<<>>) = {}
    BY DEF In
  <1>8. acc.fields = <<>> /\ acc.keys = <<>> <=> with \cup (changed \ with) = {}
    <2>1. acc.fields = <<>> <=> with = {}
      BY <1>3, <1>7, FS_EmptySet DEF Lists
    <2>2. acc.keys = <<>> <=> changed \ with = {}
      BY <1>3, <1>7, FS_EmptySet DEF Lists
    <2> QED
      BY <2>1, <2>2
  <1>9. Nothing \in Messages
    BY DEF Nothing, Messages
  <1> HIDE DEF acc, changed, with
  <1>10. enqueue(e, list) \in Messages
    BY <1>3, <1>4, <1>9 DEF Messages
  <1>11. enqueue(e, list) = Nothing <=> changed = {}
    <2>1. CASE e.type = "UPDATE" /\ ~acc.changed
      BY <2>1, <1>3, <1>4
    <2>2. CASE e.type = "UPDATE" /\ acc.changed
      BY <2>2, <1>3, <1>4, <1>5, <1>8 DEF Nothing
    <2>3. CASE e.type # "UPDATE"
      BY <2>3, <1>4, <1>5, <1>6, <1>8 DEF Nothing
    <2> QED
      BY <2>1, <2>2, <2>3
  <1>12. ASSUME enqueue(e, list) # Nothing
         PROVE  /\ Lists(enqueue(e, list).fields, with)
                /\ Lists(enqueue(e, list).keys, changed \ with)
    BY <1>3, <1>4, <1>12
  <1> QED
    BY <1>10, <1>11, <1>12 DEF changed, with

-----------------------------------------------------------------------------
\* Until the next message what is queued is what enqueue made of the event and the
\* fields that were looked up.
FilterInv ==
    /\ event # None => event \in Events
    /\ sent # None => /\ event \in Events /\ event # None /\ fields \in FieldLists
                      /\ sent = enqueue(event, fields)

\* What is queued is what enqueue makes of the event and the fields.
LEMMA FilterStep ==
    ASSUME FilterInv, [Next]_allVars
    PROVE  FilterInv'
  <1> USE DEF FilterInv
  <1>1. CASE CacheNext /\ UNCHANGED filterVars
    BY <1>1 DEF filterVars
  <1>2. ASSUME NEW s \in Schemas, NEW type \in Types, NEW updated \in SUBSET Names,
               HandleKafkaEvent(s, type, updated)
        PROVE  FilterInv'
    BY <1>2 DEF HandleKafkaEvent, Events
  <1>3. CASE translateColumnValue
    BY <1>3 DEF translateColumnValue
  <1>4. CASE NilMap \/ NextMessage
    BY <1>4 DEF NilMap, NextMessage
  <1>5. ASSUME NEW list \in FieldLists, genNotifyEvent(list) PROVE FilterInv'
    BY <1>5 DEF genNotifyEvent
  <1>6. CASE UNCHANGED allVars
    BY <1>6 DEF allVars, filterVars
  <1> QED
    BY <1>1, <1>2, <1>3, <1>4, <1>5, <1>6 DEF Next

\* And what enqueue makes of them is what NotifiesWhatChanged says.
LEMMA FilterInvNotifies ==
    ASSUME FilterInv
    PROVE  NotifiesWhatChanged
  <1> SUFFICES ASSUME sent # None PROVE NotifiesWhatChanged
    BY DEF NotifiesWhatChanged
  <1> DEFINE changed == IF event.type = "UPDATE" THEN event.updated \cap Subscribed ELSE Subscribed
  <1>1. /\ event \in Events /\ fields \in FieldLists /\ sent = enqueue(event, fields)
    BY DEF FilterInv
  <1>2. WithValue = WithValueIn(fields) /\ changed = ChangedIn(event, fields)
    BY <1>1, ReadByFields DEF ChangedIn
  <1>3. /\ sent = Nothing <=> changed = {}
        /\ sent # Nothing => Lists(sent.fields, WithValue) /\ Lists(sent.keys, changed \ WithValue)
    BY <1>1, <1>2, EnqueueSorts
  <1> HIDE DEF changed
  <1>4. ASSUME sent # Nothing
        PROVE  /\ In(sent.fields) = WithValue /\ In(sent.keys) = changed \ WithValue
               /\ Len(sent.fields) + Len(sent.keys) = Cardinality(WithValue \cup changed)
    <2>1. /\ IsFiniteSet(WithValue) /\ IsFiniteSet(changed \ WithValue)
          /\ Len(sent.fields) = Cardinality(WithValue)
          /\ Len(sent.keys) = Cardinality(changed \ WithValue)
          /\ In(sent.fields) = WithValue /\ In(sent.keys) = changed \ WithValue
      BY <1>3, <1>4 DEF Lists
    <2>2. /\ WithValue \cup (changed \ WithValue) = WithValue \cup changed
          /\ WithValue \cap (changed \ WithValue) = {}
      OBVIOUS
    <2>3. Cardinality(WithValue \cup changed)
            = Cardinality(WithValue) + Cardinality(changed \ WithValue) - Cardinality({})
      BY <2>1, <2>2, FS_Union
    <2> QED
      BY <2>1, <2>3, FS_EmptySet, FS_CardinalityType
  <1> QED
    BY <1>3, <1>4 DEF NotifiesWhatChanged, changed

\* For every event, every list of columns and every list of fields: a task hears of
\* a row exactly when a column it has a field of may have changed, of each of those
\* once, and with the value where the first field that matches asks for it.
THEOREM NotifiesExactly == Spec => []NotifiesWhatChanged
  <1>1. Init => FilterInv
    BY DEF Init, FilterInv
  <1>2. FilterInv /\ [Next]_allVars => FilterInv'
    BY FilterStep
  <1>3. FilterInv => NotifiesWhatChanged
    BY FilterInvNotifies
  <1> QED
    BY <1>1, <1>2, <1>3, PTL DEF Spec
=============================================================================
