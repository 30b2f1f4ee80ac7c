\* Two overlapping requests about one task, under fairness.
CONSTANTS
    Tasks = {t1}
    Fields = {f1}
    Slots = {s1, s2}
    Calls = {p1, p2}
    Overlap = TRUE
    None = None
SPECIFICATION FairSpec
PROPERTY CallsReturn
