SPECIFICATION FairSpec
CONSTANTS
    VMs = {v1}
    Config = config
    Nil = Nil
    MaxJobs = 2
    Pruners = {p1}
    Policy <- MCKeepOne
    Wirings = {FALSE}
    Modes = {"incremental"}
    AdHoc = FALSE
    Mixes <- MCPassesOnly
PROPERTIES DecisionSparesChains
