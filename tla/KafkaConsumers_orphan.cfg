\* Two RPCs about one task in flight together.
CONSTANTS
    Tasks = {t1}
    Fields = {f1}
    Slots = {s1, s2}
    Calls = {p1, p2}
    Overlap = TRUE
    None = None
SPECIFICATION Spec
INVARIANT NoEntryNoSubscription
