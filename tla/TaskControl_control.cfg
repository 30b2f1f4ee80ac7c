SPECIFICATION Spec
CONSTANTS
    Names = {n1, n2}
    Settings = {s1, s2}
    Handlers = {h1, h2}
    Dispatchers = {d1}
    Pushers = {p1}
    MaxId = 2
    MaxRequests = 2
    MaxFaults = 1
    None = None
SYMMETRY Symmetry
CHECK_DEADLOCK FALSE
INVARIANTS TypeOK NamesUnique FieldsKept DispatchersFollow PushersKnow DeletedIsForgotten
