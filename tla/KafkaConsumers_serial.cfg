\* Two tasks in two versions; the RPCs come one after the other.
CONSTANTS
    Tasks = {t1, t2}
    Fields = {f1, f2}
    Slots = {s1, s2}
    Calls = {p1}
    Overlap = FALSE
    None = None
SPECIFICATION Spec
SYMMETRY SafetySymmetry
INVARIANTS
    TypeOK
    OneConsumer
    StopTakesEffect
    UpdateTakesEffect
    ConsumedTaskIsKnown
PROPERTY ServiceSpec
