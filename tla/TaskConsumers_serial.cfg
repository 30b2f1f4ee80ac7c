\* One task known to the pusher in two versions; its requests come one after the other.
CONSTANTS
    Tasks = {t1}
    Fields = {f1, f2}
    Slots = {s1, s2, s3}
    Calls = {p1, p2}
    Overlap = FALSE
    None = None
SPECIFICATION Spec
SYMMETRY SafetySymmetry
INVARIANTS
    TypeOK
    OneReceiver
    StopTakesEffect
    ReceivedTaskIsKnown
    SettingsAgree
PROPERTY ServiceSpec
