CONSTANTS
    Loop = loop
    Main = main
    Retention = 2
    Slack = 1
    MaxBuckets = 3
    MaxLag = 2
    MaxLate = 1
    MaxTime = 4
    MaxFails = 0
    MaxCrashes = 1
SPECIFICATION FairSpec
INVARIANTS HistorySurvives
