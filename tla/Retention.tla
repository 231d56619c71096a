----------------------------- MODULE Retention -----------------------------
(* The pure half of backend/internal/backupstore/retention.go: which runs a  *)
(* policy keeps, and what the chain records change about it.  A run is       *)
(* identified by its suffix; time gives the newest modification time of its  *)
(* files in days, 0 for a run the storage reports no time for; the runner's   *)
(* mutex gives distinct runs distinct times.                                 *)
EXTENDS Integers, Sequences, FiniteSets

DaysPerWeek == 7
DaysPerMonth == 30  \* months are of one length here: only sameness matters

Tiers == {"daily", "weekly", "monthly"}

\* retentionBucket: the period a time falls into.
retentionBucket(t, period) ==
    CASE period = "daily" -> t
      [] period = "weekly" -> t \div DaysPerWeek
      [] period = "monthly" -> t \div DaysPerMonth

\* A policy: [keepLast, keepDays : Nat, tier : [Tiers -> Nat]].
Enabled(policy) ==
    \/ policy.keepLast > 0 \/ policy.keepDays > 0
    \/ \E p \in Tiers : policy.tier[p] > 0

Newer(runs, time, r) == {s \in runs : time[s] > time[r]}

\* Mutant: the N newest runs are miscounted by one.
decideRetention_OneShort(policy, now, runs, time) ==
    {r \in runs : Cardinality(Newer(runs, time, r)) + 1 < policy.keepLast}

\* decideRetention: the runs of one group to keep, by any of the rules.
decideRetention(policy, now, runs, time) ==
    {r \in runs :
        /\ Enabled(policy)
        /\ \/ time[r] = 0
           \/ Cardinality(Newer(runs, time, r)) < policy.keepLast
           \/ policy.keepDays > 0 /\ now - time[r] <= policy.keepDays
           \/ \E p \in Tiers :
                Cardinality({s \in Newer(runs, time, r) :
                    retentionBucket(time[s], p) = retentionBucket(time[r], p)})
                        < policy.tier[p]}

\* The chain file is a sequence of [vm, entries]; an entry's name is the run
\* that made it, its parent the run it is an increment of.
EntryRuns(c) == {c.entries[i].name : i \in DOMAIN c.entries}

ChainRunSet(chains) == UNION {EntryRuns(chains[i]) : i \in DOMAIN chains}

\* chainRuns: each run of a chain is filed under ONE machine, the one of the
\* last chain that holds it.
chainRuns(chains) ==
    [r \in ChainRunSet(chains) |->
        chains[CHOOSE i \in DOMAIN chains :
            /\ r \in EntryRuns(chains[i])
            /\ \A k \in DOMAIN chains : k > i => r \notin EntryRuns(chains[k])].vm]

\* chainAllDelete: the machines none of whose (filed) runs is kept.
chainAllDelete(chains, keep) ==
    LET filed == chainRuns(chains) IN
    {filed[r] : r \in DOMAIN filed} \ {filed[r] : r \in DOMAIN filed \cap keep}

\* The runs ApplyRetention deletes: not kept, and not of a protected chain.
Doomed(runs, keep, chains) ==
    LET filed == chainRuns(chains) IN
    {r \in runs \ keep :
        r \in DOMAIN filed => filed[r] \in chainAllDelete(chains, keep)}
=============================================================================
