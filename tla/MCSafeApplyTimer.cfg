SPECIFICATION FairSpec
CONSTANTS
    HostRules = {none, h1}
    EmptyRules = none
    Appliers = {a1}
    Nil = Nil
    MaxStages = 2
    MaxChanges = 1
    MaxCrashes = 0
    Budgets <- MCNoCrash
PROPERTY TimerRollsBackItsOwn
