CONSTANTS
    j1 = j1  j2 = j2  j3 = j3  j4 = j4  j5 = j5  j6 = j6
    t1 = t1  t2 = t2
    k1 = k1  k2 = k2  k3 = k3
    w1 = w1  w2 = w2  c1 = c1  c2 = c2
    Job = {j1}
    Worker = {w1, w2}
    Client = {c1, c2}
    Tenant = {t1}
    Token = {k1, k2, k3}
    NoJob = NoJob
    NoToken = NoToken
    Kind <- Note
    TenantOf <- OneTenant
    Enrolled = {t1}
    Legacy = {}
    GlobalLimit = 2
    TenantLimit = 2
    MaxAttempts = 2
SPECIFICATION Spec
SYMMETRY Symmetry
PROPERTIES
    PendingNoteNotResent
CHECK_DEADLOCK FALSE
