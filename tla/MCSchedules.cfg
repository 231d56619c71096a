SPECIFICATION FairSpec
CONSTANTS
    TargetIds = {default, t1}
    Default = default
    ScheduleIds = {s1}
    Nil = Nil
    MaxChanges = 3
PROPERTY EnabledScheduleRuns
