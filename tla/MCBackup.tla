----------------------------- MODULE MCBackup ------------------------------
(* Small instances of Backup for TLC.                                        *)
EXTENDS Backup

\* Keep the newest run of each group.
MCKeepOne == [keepLast |-> 1, keepDays |-> 0, tier |-> [t \in Tiers |-> 0]]

Mix(d, r, f, p) == [deletes |-> d, reconciles |-> r, faults |-> f, passes |-> p]
MCPassesOnly == {Mix(0, 0, 0, TRUE)}
MCRecords == {Mix(1, 0, 0, TRUE), Mix(0, 1, 0, TRUE), Mix(0, 0, 1, TRUE)}
MCRuns == {Mix(1, 0, 1, TRUE), Mix(0, 1, 1, FALSE), Mix(0, 0, 2, FALSE)}
=============================================================================
