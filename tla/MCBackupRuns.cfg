SPECIFICATION FairSpec
CONSTANTS
    VMs = {v1}
    Config = config
    Nil = Nil
    MaxJobs = 2
    Pruners = {p1}
    Policy <- MCKeepOne
    Wirings = {TRUE, FALSE}
    Modes = {"full", "incremental"}
    AdHoc = TRUE
    Mixes <- MCRuns
INVARIANTS TypeOK RunningRunIntact SuccessMeansComplete ReconcileTruthful
CHECK_DEADLOCK FALSE
PROPERTIES JobEnds
