CONSTANTS
    j1 = j1  j2 = j2  s1 = s1
    Job = {j1, j2}
    Slot = {s1}
    NoJob = NoJob
    Pilot = {j1}
    Modes = {"poll", "pilot", "notify"}
    GlobalLimit = 2
    DbMayFail = TRUE
SPECIFICATION FairSpec
PROPERTIES
    DueWorkIsLookedFor
    LeasesAreTended
    DrainEnds
CHECK_DEADLOCK FALSE
