SPECIFICATION FairSpec
CONSTANTS
    Groups = {g1}
    q1 = q1
    q2 = q2
    Nsqds = {q1, q2}
    Sites <- MCSites
    MaxEvents = 2
    MaxFaults = 2
    MaxCloses = 1
    None = None
CHECK_DEADLOCK FALSE
INVARIANTS Accounted BoundedRepeats LossHasACause
PROPERTIES EventsGetOut ProducersComeBack
