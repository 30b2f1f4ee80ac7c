\* One pusher, two addresses; its signals and expiries are handled one after the
\* other, and the monitor may restart once.
CONSTANTS
    Nodes = {n1}
    Addresses = {a1, a2}
    Timers = {tm1, tm2, tm3}
    ByDesc = FALSE
    Overlap = FALSE
    MaxRestarts = 1
    None = None
SPECIFICATION FairSpec
INVARIANTS
    TypeOK
    EntriesExpire
PROPERTIES
    RegistrationTakesEffect
    LiveNodesComeBack
    DeadAddressesLeave
