SPECIFICATION Spec
CONSTANTS
    VMs = {v1, v2}
    Config = config
    Nil = Nil
    MaxJobs = 2
    Pruners = {p1}
    Policy <- MCKeepOne
    Wirings = {TRUE}
    Modes = {"incremental"}
    AdHoc = FALSE
    Mixes <- MCRecords
INVARIANTS ChainGroundedUnlessRaced ReconcileTruthful
