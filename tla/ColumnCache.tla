----------------------------- MODULE ColumnCache -----------------------------
(***************************************************************************)
(* The dispatcher's cache of column types (mysql_schema): a map of all     *)
(* columns, built once before events are handled, built again by the       *)
(* inspector's goroutine when that starts, and then once per interval by   *)
(* one query per schema.  Queries may fail, and the tables change at any   *)
(* time.  What the cache has of a schema is one of Definitions, or Absent. *)
(***************************************************************************)
EXTENDS Naturals

CONSTANTS
    Schemas, Definitions,
    Absent,       \* the schema is not there, or the map has nothing of it
    MaxAlters,    \* bound: changes of a definition
    MaxFailures,  \* bound: failed queries
    None

ASSUME CacheAssumption ==
    /\ MaxAlters \in Nat /\ MaxFailures \in Nat
    /\ Absent \notin Definitions
    /\ \A S \in SUBSET Schemas : S # None

VARIABLES
    types,      \* the database: schema -> definition or Absent
    columnMap,  \* the inspector's map, None before the first is installed
    loop,       \* the inspector's goroutine: "off", "first" or "running"
    todo,       \* schemas a refresh has still to query, None outside one
    read,       \* what it has read
    since,      \* history: what each schema was since the map's refresh began
    pending,    \* history: what each schema was since the refresh under way began
    emptied,    \* history: the map comes from the goroutine's first query, which failed
    alters, failures

cacheVars == <<types, columnMap, loop, todo, read, since, pending, emptied, alters, failures>>

Empty == [s \in Schemas |-> Absent]
Now == [s \in Schemas |-> {types[s]}]

CacheInit ==
    /\ types \in [Schemas -> Definitions \cup {Absent}]
    /\ columnMap = None /\ loop = "off" /\ todo = None /\ read = Empty
    /\ since = Now /\ pending = Now /\ emptied = FALSE
    /\ alters = 0 /\ failures = 0

Fails == failures < MaxFailures /\ failures' = failures + 1

\* ColumnManager.BuildColumnMap forgets the error; then the goroutine starts.
BuildColumnMap ==
    /\ loop = "off"
    /\ loop' = "first"
    /\ \/ columnMap' = types /\ since' = Now /\ UNCHANGED failures
       \/ UNCHANGED <<columnMap, since>> /\ Fails
    /\ UNCHANGED <<types, todo, read, pending, emptied, alters>>

\* LookupLoop installs what its first query returned, error or not.
FirstLookup ==
    /\ loop = "first"
    /\ loop' = "running"
    /\ since' = Now
    /\ \/ columnMap' = types /\ emptied' = FALSE /\ UNCHANGED failures
       \/ columnMap' = Empty /\ emptied' = TRUE /\ Fails
    /\ UNCHANGED <<types, todo, read, pending, alters>>

\* A tick: getColumnsMultiTimes asks for the schemas.
GetSchemas ==
    /\ loop = "running" /\ todo = None
    /\ todo' = {s \in Schemas : types[s] # Absent}
    /\ read' = Empty /\ pending' = Now
    /\ UNCHANGED <<types, columnMap, loop, since, emptied, alters, failures>>

\* Then for each schema's columns.
QuerySchema(s) ==
    /\ todo # None /\ s \in todo
    /\ todo' = todo \ {s}
    /\ read' = [read EXCEPT ![s] = types[s]]
    /\ UNCHANGED <<types, columnMap, loop, since, pending, emptied, alters, failures>>

\* Mutant: a refresh that fails half-way installs what it has.
MutantQueryFails ==
    /\ todo # None /\ todo # {} /\ Fails
    /\ todo' = {}
    /\ UNCHANGED <<types, columnMap, loop, read, since, pending, emptied, alters>>
QueryFails ==
    /\ todo # None /\ todo # {} /\ Fails
    /\ todo' = None
    /\ UNCHANGED <<types, columnMap, loop, read, since, pending, emptied, alters>>

Install ==
    /\ todo = {}
    /\ columnMap' = read /\ since' = pending /\ emptied' = FALSE
    /\ todo' = None
    /\ UNCHANGED <<types, loop, read, pending, alters, failures>>

\* Somebody creates, alters or drops a schema's tables.
Alter(s, d) ==
    /\ alters < MaxAlters /\ d # types[s]
    /\ types' = [types EXCEPT ![s] = d]
    /\ since' = [since EXCEPT ![s] = @ \cup {d}]
    /\ pending' = [pending EXCEPT ![s] = @ \cup {d}]
    /\ alters' = alters + 1
    /\ UNCHANGED <<columnMap, loop, todo, read, emptied, failures>>

\* The dispatcher's process ends.
Dies ==
    /\ loop # "off"
    /\ loop' = "off" /\ columnMap' = None /\ todo' = None /\ read' = Empty /\ emptied' = FALSE
    /\ UNCHANGED <<types, since, pending, alters, failures>>

CacheNext ==
    \/ BuildColumnMap \/ FirstLookup \/ GetSchemas \/ QueryFails \/ Install
    \/ \E s \in Schemas : QuerySchema(s) \/ \E d \in Definitions \cup {Absent} : Alter(s, d)

CacheSpec == CacheInit /\ [][CacheNext \/ Dies]_cacheVars

-----------------------------------------------------------------------------
CacheTypeOK ==
    /\ types \in [Schemas -> Definitions \cup {Absent}]
    /\ read \in [Schemas -> Definitions \cup {Absent}]
    /\ columnMap # None => columnMap \in [Schemas -> Definitions \cup {Absent}]
    /\ loop \in {"off", "first", "running"}
    /\ todo # None => todo \in SUBSET Schemas
    /\ since \in [Schemas -> SUBSET (Definitions \cup {Absent})]
    /\ pending \in [Schemas -> SUBSET (Definitions \cup {Absent})]
    /\ emptied \in BOOLEAN
    /\ alters \in 0 .. MaxAlters /\ failures \in 0 .. MaxFailures

\* Every entry of the map was so in the database at some time since the refresh
\* that installed the map began: queries of one schema after the other, among
\* changes and failures, never leave an older entry or a hole.
CacheWasTrue ==
    columnMap # None /\ ~emptied => \A s \in Schemas : columnMap[s] \in since[s]
=============================================================================
