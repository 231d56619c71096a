CONSTANTS
    Users = {admin, bob}
    Seed = admin
    Workers = {w1}
    Nil = Nil
    MaxIssued = 3
    MaxChanges = 3
    MaxWork = 4
    MaxFails = 1
    MaxCrashes = 1
SPECIFICATION FairSpec
INVARIANTS TypeOK RoleCurrentOrDead RevokedStaysDead EndedStaysEnded AdminRemains
PROPERTY DirtyFlushed
CHECK_DEADLOCK FALSE
