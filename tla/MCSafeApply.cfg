SPECIFICATION FairSpec
CONSTANTS
    HostRules = {none, h1}
    EmptyRules = none
    Appliers = {a1, a2}
    Nil = Nil
    MaxStages = 2
    MaxChanges = 2
    MaxCrashes = 1
    Budgets <- MCBudgets
INVARIANTS TypeOK KernelTracksBook AckedVmRulesLive TrialCanBeUndone
PROPERTIES ApplyReturns ImplementsTrial
CHECK_DEADLOCK FALSE
