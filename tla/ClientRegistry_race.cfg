\* One dispatcher; an expiry and its signals may interleave.
CONSTANTS
    Nodes = {n1}
    Addresses = {a1}
    Timers = {tm1, tm2}
    ByDesc = TRUE
    Overlap = TRUE
    MaxRestarts = 0
    None = None
SPECIFICATION Spec
INVARIANT SomeTimerLeft
