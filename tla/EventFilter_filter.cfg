SPECIFICATION Spec
CONSTANTS
    c1 = c1
    c2 = c2
    Schemas = {s1, s2}
    Definitions = {d1, d2}
    Columns <- TwoColumns
    MaxFields = 2
    MaxAlters = 2
    MaxFailures = 1
    Absent = Absent
    None = None
SYMMETRY Symmetry
CHECK_DEADLOCK FALSE
INVARIANTS CacheWasTrue NotifiesWhatChanged
