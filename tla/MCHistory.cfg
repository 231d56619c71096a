CONSTANTS
    Loop = loop
    Main = main
    Retention = 2
    Slack = 1
    MaxBuckets = 3
    MaxLag = 2
    MaxLate = 1
    MaxTime = 4
    MaxFails = 1
    MaxCrashes = 1
SPECIFICATION FairSpec
INVARIANTS TypeOK MarkedIsWritten WrittenOnce WindowServed
PROPERTY EventuallyFlushed
