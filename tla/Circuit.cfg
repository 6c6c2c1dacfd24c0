CONSTANTS
    w1 = w1  w2 = w2  j1 = j1  j2 = j2
    Worker = {w1, w2}
    Job = {j1, j2}
    StartStage <- Stages
    Token = {1, 2, 3, 4, 5}
    NoToken = 0
    NoWorker = NoWorker
    NoJob = NoJob
    Lease = 1
    First = 1
    Longest = 1
    FailureCap = 1
    MaxLapses = 1
SPECIFICATION FairSpec
INVARIANTS
    TypeOK
    OneProbe
PROPERTIES
    ProbeStands
    WorkResumes
CHECK_DEADLOCK FALSE
