------------------------------- MODULE Backup -------------------------------
(* Backup runs on one local target: the runner of                            *)
(* backend/internal/backupstore/runner.go, the job log of store.go, the      *)
(* chain records of chain.go, the retention passes of retention.go and the   *)
(* reconciliation of reconcile.go, which run beside the runner without its   *)
(* mutex.                                                                    *)
(*                                                                           *)
(* A job that gets the runner's mutex becomes a run: its files carry the     *)
(* job's suffix and the time at which it started.  A file is <<job, item>>,  *)
(* item being a machine or the configuration archive.  An incremental run    *)
(* adds an entry to the chain of each machine it backs up; the checkpoint is *)
(* named after the job.  Retention passes start at any time: after a run,    *)
(* from the janitor's ticker, or by request.                                 *)
EXTENDS Retention

CONSTANTS
    VMs,           \* machines
    Config,        \* the configuration archive of a run
    Nil,           \* no machine, no parent, a free mutex
    MaxJobs,       \* bound: jobs recorded over a behaviour
    Pruners,       \* goroutines that run ApplyRetention
    Policy,        \* the target's retention policy
    Wirings,       \* may retention open the runner's chain file (see shared)
    Modes,         \* the modes jobs are started in
    AdHoc,         \* may one machine be backed up on its own
    Mixes          \* bound: how many deletions and reconciliations by the operator,
                   \* how many crashes and failures of disk, target and libvirt, and
                   \* whether there are retention passes, in one behaviour

Jobs == 1 .. MaxJobs
Items == VMs \cup {Config}
Files == Jobs \X Items

ASSUME BackupConstants ==
    /\ Nil \notin VMs /\ Config \notin VMs /\ Nil # Config
    /\ MaxJobs \in Nat \ {0}
    /\ Mixes \subseteq [deletes : Nat, reconciles : Nat, faults : Nat, passes : BOOLEAN]
    /\ Policy \in [keepLast : Nat, keepDays : Nat, tier : [Tiers -> Nat]]
    /\ Enabled(Policy)
    /\ Modes \subseteq {"full", "incremental"}
    /\ Wirings \subseteq BOOLEAN /\ AdHoc \in BOOLEAN

VARIABLES
    shared,  \* does retention open the runner's chain file: the daemon gives the
             \* two different directories, the retention test the same one
    mix,     \* the member of Mixes the behaviour stays within
    up,      \* is the daemon running
    jobs,    \* the job log: status, scope (Nil: the whole target), mode, files and
             \* the ones named when the job ended, which leave Filename behind
    queue,   \* recorded jobs whose goroutine waits for the runner's mutex
    w,       \* the run that holds it, Nil when it is free
    time,    \* when each run started (0: not yet)
    files,   \* what is on the target
    chains,  \* chains-<target>.json
    ckpts,   \* libvirt's checkpoints of each machine
    prune,   \* the state of each retention pass
    adm,     \* a DeleteBackupChain request in flight
    rec,     \* a Reconcile request in flight
    adopted, \* the files that synthetic jobs of Reconcile, all successes, name
    faults, deletes, reconciles

\* Observations no code keeps.
VARIABLES
    purged,  \* runs some deletion was started on
    raced,   \* machines whose chain was changed under a running backup, or whose
             \* backup took a chain it could not read for none
    want,    \* the machines each run set out to write
    blurred, \* runs that Reconcile saw on the target at another point of their
             \* life than in the log, or at a target that was not there
    blind,   \* runs that took a libvirt backup which did not complete for done
    unlogged \* jobs that were recorded in memory only, and never run

env == <<shared, mix, up, faults, deletes, reconciles>>
runner == <<jobs, queue, w, time>>
records == <<chains, ckpts>>
requests == <<prune, adm, rec, adopted>>
seen == <<purged, raced, want, blurred, blind, unlogged>>
vars == <<env, runner, files, records, requests, seen>>

NoJob == [status |-> "none", scope |-> Nil, mode |-> "full", files |-> {},
          named |-> {}]
\* A retention pass: the runs it has listed or will delete, the machines whose
\* records it will drop, and the records it has loaded.
Pass(pc, runs, dead, loaded) == [pc |-> pc, runs |-> runs, dead |-> dead, loaded |-> loaded]
IdlePass == Pass("idle", {}, {}, <<>>)

Entry(j, p) == [name |-> j, parent |-> p]

Init ==
    /\ shared \in Wirings /\ mix \in Mixes /\ up = TRUE
    /\ jobs = [j \in Jobs |-> NoJob] /\ queue = {} /\ w = Nil
    /\ time = [j \in Jobs |-> 0]
    /\ files = {} /\ chains = <<>> /\ ckpts = [v \in VMs |-> {}]
    /\ prune = [p \in Pruners |-> IdlePass]
    /\ adm = Nil /\ rec = Nil /\ adopted = {} /\ faults = 0 /\ deletes = 0 /\ reconciles = 0
    /\ purged = {} /\ raced = {} /\ blurred = {} /\ want = [j \in Jobs |-> {}]
    /\ blind = {} /\ unlogged = {}

\* Something outside the program fails.
Fault == faults < mix.faults /\ faults' = faults + 1
FaultIf(failed) == IF failed THEN Fault ELSE UNCHANGED faults

FilesOf(j) == {f \in files : f[1] = j}
OnTarget == {f[1] : f \in files}
Clock == Cardinality({j \in Jobs : time[j] > 0})

\* GetChain: the machine's chain, the empty sequence when it has none.
ChainIndex(cs, v) == {i \in DOMAIN cs : cs[i].vm = v}
EntriesOf(cs, v) ==
    IF ChainIndex(cs, v) = {} THEN <<>>
    ELSE cs[CHOOSE i \in ChainIndex(cs, v) : TRUE].entries

\* Chain.Checkpoint: the name of the last entry.
Tip(cs, v) ==
    LET es == EntriesOf(cs, v) IN IF es = <<>> THEN Nil ELSE es[Len(es)].name

\* Mutant: every increment starts a chain of its own.
Appended_AlwaysNew(cs, v, e) == Append(cs, [vm |-> v, entries |-> <<e>>])

\* AppendEntry and DeleteChain on the chains that were loaded.
Appended(cs, v, e) ==
    IF ChainIndex(cs, v) = {} THEN Append(cs, [vm |-> v, entries |-> <<e>>])
    ELSE [i \in DOMAIN cs |->
            IF cs[i].vm = v THEN [vm |-> v, entries |-> Append(cs[i].entries, e)] ELSE cs[i]]
Without(cs, v) ==
    LET i == CHOOSE k \in ChainIndex(cs, v) : TRUE IN
    [k \in 1 .. Len(cs) - 1 |-> IF k < i THEN cs[k] ELSE cs[k + 1]]

-----------------------------------------------------------------------------
(* The runner.                                                               *)

\* RunOnce, RunOnceAsync, RunOnceForVM: the job is logged as running before its
\* goroutine asks for the mutex.  Only a scheduled job of the whole target can
\* be incremental.  When the log cannot be saved the caller gets the error and
\* starts nothing, but the log in memory keeps the job.
RecordJob(j, scope, mode, saved) ==
    /\ up /\ jobs[j].status = "none"
    /\ \A k \in 1 .. j - 1 : jobs[k].status # "none"
    /\ mode \in Modes /\ (mode = "incremental" => scope = Nil)
    /\ scope # Nil => AdHoc
    /\ jobs' = [jobs EXCEPT ![j] = [status |-> "running", scope |-> scope, mode |-> mode,
                                    files |-> {}, named |-> {}]]
    /\ FaultIf(~saved)
    /\ queue' = IF saved THEN queue \cup {j} ELSE queue
    /\ unlogged' = IF saved THEN unlogged ELSE unlogged \cup {j}
    /\ UNCHANGED <<shared, mix, up, deletes, reconciles, w, time, files, records, requests,
                   purged, raced, want, blurred, blind>>

\* runJob takes the mutex; writeBackup draws the suffix and resolves the
\* machines in scope as they are by now: any of the target's, the one machine of
\* an ad-hoc job, or none when it is gone.
StartRun(j, scope) ==
    /\ j \in queue /\ w = Nil
    /\ jobs[j].scope # Nil => scope \subseteq {jobs[j].scope}
    /\ queue' = queue \ {j}
    /\ time' = [time EXCEPT ![j] = Clock + 1]
    /\ w' = [job |-> j, todo |-> scope, done |-> {}, phase |-> "next",
             item |-> Nil, parent |-> Nil, loaded |-> <<>>]
    /\ want' = [want EXCEPT ![j] = scope]
    /\ UNCHANGED <<env, jobs, files, records, requests, purged, raced, blurred, blind, unlogged>>

Incremental == jobs[w.job].mode = "incremental"
Writing(phase) == w # Nil /\ w.phase = phase

\* The job's last update, with the names of the files it wrote; the mutex goes.
EndRun(status, names) ==
    /\ jobs' = [jobs EXCEPT ![w.job] = [status |-> status, scope |-> @.scope, mode |-> @.mode,
                                        files |-> names, named |-> names]]
    /\ w' = Nil

\* A file appears on the target as soon as it is created: a machine's archive,
\* in a full run, or the configuration archive once all machines are done.
CreateArchive(i) ==
    /\ Writing("next")
    /\ IF w.todo = {} THEN i = Config ELSE i \in w.todo /\ ~Incremental
    /\ files' = files \cup {<<w.job, i>>}
    /\ w' = [w EXCEPT !.phase = "archive", !.item = i]
    /\ UNCHANGED <<env, jobs, queue, time, records, requests, seen>>

\* The archive is complete.  The configuration is the last one of a run.
FinishArchive ==
    /\ Writing("archive")
    /\ IF w.item = Config
       THEN EndRun("success", w.done \cup {Config})
       ELSE /\ w' = [w EXCEPT !.phase = "next", !.item = Nil,
                               !.todo = @ \ {w.item}, !.done = @ \cup {w.item}]
            /\ UNCHANGED jobs
    /\ UNCHANGED <<env, queue, time, files, records, requests, seen>>

\* Mutant: a run that could not write one machine goes on to the next.
FailArchive_GoOn ==
    /\ Writing("archive") /\ ~Incremental /\ w.item # Config
    /\ Fault
    /\ files' = files \ {<<w.job, w.item>>}
    /\ w' = [w EXCEPT !.phase = "next", !.item = Nil, !.todo = @ \ {w.item}]
    /\ UNCHANGED <<shared, mix, up, deletes, reconciles, jobs, queue, time, records, requests, seen>>

\* Writing it failed: a full run removes this one file and ends in error,
\* naming the files it wrote before (or none, on the container and timeout
\* paths); an incremental run logs it, leaves the file and succeeds.
FailArchive ==
    /\ Writing("archive")
    /\ Fault
    /\ IF Incremental
       THEN EndRun("success", w.done) /\ UNCHANGED files
       ELSE /\ files' = files \ {<<w.job, w.item>>}
            /\ \E names \in {w.done, {}} : EndRun("error", names)
    /\ UNCHANGED <<shared, mix, up, deletes, reconciles, queue, time, records, requests, seen>>

\* The run fails between two files: path, space, scope or, for a full run,
\* timeout and names.
FailRun ==
    /\ Writing("next") /\ (Incremental => w.done = {})
    /\ Fault
    /\ \E names \in {w.done, {}} : EndRun("error", names)
    /\ UNCHANGED <<shared, mix, up, deletes, reconciles, queue, time, files, records, requests, seen>>

\* writeIncrementalBackup, per machine: the chain's tip is the parent, and there
\* is none when the chain file cannot be read ...
ReadParent(v, read) ==
    /\ Writing("next") /\ Incremental /\ v \in w.todo
    /\ FaultIf(~read)
    /\ w' = [w EXCEPT !.phase = "backup", !.item = v,
                      !.parent = IF read THEN Tip(chains, v) ELSE Nil]
    /\ raced' = raced \cup (IF read \/ Tip(chains, v) = Nil THEN {} ELSE {v})
    /\ UNCHANGED <<shared, mix, up, deletes, reconciles, jobs, queue, time, files, records,
                   requests, purged, want, blurred, blind, unlogged>>

\* libvirt writes the increment and makes the checkpoint, given the parent's.
PushBackup ==
    /\ w.parent \in ckpts[w.item] \cup {Nil}
    /\ files' = files \cup {<<w.job, w.item>>}
    /\ ckpts' = [ckpts EXCEPT ![w.item] = @ \cup {w.job}]

\* ... virsh backup-begin, waited for ...
BeginBackup ==
    /\ Writing("backup") /\ PushBackup
    /\ w' = [w EXCEPT !.phase = "load", !.done = @ \cup {w.item}]
    /\ UNCHANGED <<env, jobs, queue, time, chains, requests, seen>>

\* ... where domjobinfo failing, and a job that is no more, count as its end
\* whatever became of the image; a missing one has size 0 ...
BackupUnseen(there) ==
    /\ Writing("backup") /\ w.parent \in ckpts[w.item] \cup {Nil}
    /\ Fault
    /\ files' = IF there THEN files \cup {<<w.job, w.item>>} ELSE files
    /\ ckpts' \in {ckpts, [ckpts EXCEPT ![w.item] = @ \cup {w.job}]}
    /\ blind' = blind \cup {w.job}
    /\ w' = [w EXCEPT !.phase = "load", !.done = @ \cup {w.item}]
    /\ UNCHANGED <<shared, mix, up, deletes, reconciles, jobs, queue, time, chains, requests,
                   purged, raced, want, blurred, unlogged>>

\* ... or it fails, as it must when the parent's checkpoint is gone; what libvirt
\* did by then stays.
BeginBackupFails ==
    /\ Writing("backup")
    /\ FaultIf(w.parent \in ckpts[w.item] \cup {Nil})
    /\ PushBackup \/ UNCHANGED <<files, ckpts>>
    /\ EndRun("error", w.done)
    /\ UNCHANGED <<shared, mix, up, deletes, reconciles, queue, time, chains, requests, seen>>

\* AppendEntry loads the chain file ...
AppendLoad ==
    /\ Writing("load")
    /\ w' = [w EXCEPT !.phase = "save", !.loaded = chains]
    /\ UNCHANGED <<env, jobs, queue, time, files, records, requests, seen>>

\* Mutant: the entry of an increment does not name its parent.
AppendSave_NoParent(saved) ==
    /\ Writing("save")
    /\ FaultIf(~saved)
    /\ chains' = IF saved THEN Appended(w.loaded, w.item, Entry(w.job, Nil)) ELSE chains
    /\ w' = [w EXCEPT !.phase = "next", !.item = Nil, !.todo = @ \ {w.item},
                      !.parent = Nil, !.loaded = <<>>]
    /\ UNCHANGED <<shared, mix, up, deletes, reconciles, jobs, queue, time, files, ckpts, requests, seen>>

\* ... and saves it with the entry; a failure is logged and the run goes on.
AppendSave(saved) ==
    /\ Writing("save")
    /\ FaultIf(~saved)
    /\ chains' = IF saved THEN Appended(w.loaded, w.item, Entry(w.job, w.parent)) ELSE chains
    /\ w' = [w EXCEPT !.phase = "next", !.item = Nil, !.todo = @ \ {w.item},
                      !.parent = Nil, !.loaded = <<>>]
    /\ UNCHANGED <<shared, mix, up, deletes, reconciles, jobs, queue, time, files, ckpts, requests, seen>>

-----------------------------------------------------------------------------
(* Retention: a pass lists the target, decides, deletes run by run and then  *)
(* drops the records of the chains it deleted.                               *)

PruneList(p) ==
    /\ up /\ mix.passes /\ prune[p].pc = "idle"
    /\ prune' = [prune EXCEPT ![p] = Pass("decide", OnTarget, {}, <<>>)]
    /\ UNCHANGED <<env, runner, files, records, adm, rec, adopted, seen>>

\* runScopes: a run belongs to the group of the machine its job was started
\* for, once the job names its files; until then to the whole target's group.
runScope(j) == IF jobs[j].named = {} THEN Nil ELSE jobs[j].scope

\* The chain file ApplyRetention opens.
RetentionChains == IF shared THEN chains ELSE <<>>

\* The policy is applied group by group.
Keep(runs) ==
    UNION {decideRetention(Policy, Clock, {r \in runs : runScope(r) = g}, time) :
             g \in VMs \cup {Nil}}

\* What the policy does not keep goes; chains that cannot be read protect nothing.
PruneDecide(p, read) ==
    /\ prune[p].pc = "decide"
    /\ FaultIf(~read)
    /\ LET runs == prune[p].runs
           keep == Keep(runs)
           cs == IF read THEN RetentionChains ELSE <<>>
       IN prune' = [prune EXCEPT ![p] =
            Pass("delete", Doomed(runs, keep, cs), chainAllDelete(cs, keep), <<>>)]
    /\ UNCHANGED <<shared, mix, up, deletes, reconciles, runner, files, records, adm, rec, adopted, seen>>

\* DeleteBackupRun: whatever file cannot be removed stays, without an error.
PruneDelete(p, r, left) ==
    /\ prune[p].pc = "delete" /\ r \in prune[p].runs
    /\ FaultIf(left # {})
    /\ left \subseteq FilesOf(r)
    /\ files' = (files \ FilesOf(r)) \cup left
    /\ purged' = purged \cup {r}
    /\ prune' = [prune EXCEPT ![p] = Pass("delete", @.runs \ {r}, @.dead, <<>>)]
    /\ UNCHANGED <<shared, mix, up, deletes, reconciles, runner, records, adm, rec, adopted, raced, want, blurred, blind, unlogged>>

\* The machine being backed up, when cs no longer ends in the parent it read.
Overtaken(cs) ==
    IF w # Nil /\ w.phase \in {"backup", "load"} /\ Tip(cs, w.item) # w.parent
    THEN {w.item} ELSE {}

\* DeleteChain loads the file ...
PruneLoad(p) ==
    /\ prune[p].pc = "delete" /\ prune[p].runs = {}
    /\ prune' = [prune EXCEPT ![p] = IF @.dead = {} THEN IdlePass
                                     ELSE Pass("drop", {}, @.dead, chains)]
    /\ UNCHANGED <<env, runner, files, records, adm, rec, adopted, seen>>

\* ... and saves it without the machine's chain, if the disk lets it.
PruneDrop(p, v, saved) ==
    /\ prune[p].pc = "drop" /\ v \in prune[p].dead
    /\ FaultIf(~saved)
    /\ chains' = IF saved /\ ChainIndex(prune[p].loaded, v) # {}
                 THEN Without(prune[p].loaded, v) ELSE chains
    /\ raced' = raced \cup Overtaken(chains')
    /\ prune' = [prune EXCEPT ![p] = Pass("delete", {}, @.dead \ {v}, <<>>)]
    /\ UNCHANGED <<shared, mix, up, deletes, reconciles, runner, files, ckpts, adm, rec, adopted, purged, want, blurred, blind, unlogged>>

-----------------------------------------------------------------------------
(* The operator.                                                             *)

\* The Files tab: a whole run is deleted, again but for what cannot be removed.
DeleteRun(r, left) ==
    /\ up /\ deletes < mix.deletes /\ FilesOf(r) # {}
    /\ deletes' = deletes + 1
    /\ FaultIf(left # {})
    /\ files' = (files \ FilesOf(r)) \cup left
    /\ purged' = purged \cup {r}
    /\ UNCHANGED <<shared, mix, up, reconciles, runner, records, requests, raced, want, blurred, blind, unlogged>>

\* DeleteBackupChain: the checkpoints of the chain's entries are deleted first
\* (a failure, of one or of all, is logged) ...
DropCheckpoints(v, dropped) ==
    /\ up /\ deletes < mix.deletes /\ adm = Nil
    /\ deletes' = deletes + 1
    /\ LET names == {EntriesOf(chains, v)[i].name : i \in DOMAIN EntriesOf(chains, v)}
       IN dropped \subseteq names /\ FaultIf(dropped # names)
    /\ ckpts' = [ckpts EXCEPT ![v] = @ \ dropped]
    /\ adm' = [vm |-> v, pc |-> "load", loaded |-> <<>>]
    /\ UNCHANGED <<shared, mix, up, reconciles, runner, files, chains, prune, rec, adopted, seen>>

\* ... then DeleteChain loads ...
AdmLoad ==
    /\ adm # Nil /\ adm.pc = "load"
    /\ adm' = [adm EXCEPT !.pc = "save", !.loaded = chains]
    /\ UNCHANGED <<env, runner, files, records, prune, rec, adopted, seen>>

\* ... and saves, when the chain is still there and the disk lets it.
AdmSave(saved) ==
    /\ adm # Nil /\ adm.pc = "save"
    /\ FaultIf(~saved)
    /\ chains' = IF saved /\ ChainIndex(adm.loaded, adm.vm) # {}
                 THEN Without(adm.loaded, adm.vm) ELSE chains
    /\ raced' = raced \cup Overtaken(chains')
    /\ adm' = Nil
    /\ UNCHANGED <<shared, mix, up, deletes, reconciles, runner, files, ckpts, prune, rec, adopted, purged, want, blurred, blind, unlogged>>

-----------------------------------------------------------------------------
(* Reconcile, with "apply": the target is listed before the log is read, and *)
(* both are used later.                                                      *)

Alive(j) == jobs[j].status \in {"none", "running"}

\* Mutant: the listing passes over the increments, which are .qcow2 files.
ReconcileList_NoQcow2(there) ==
    /\ up /\ reconciles < mix.reconciles /\ rec = Nil
    /\ reconciles' = reconciles + 1
    /\ FaultIf(~there)
    /\ rec' = [pc |-> "read", orphans |-> {}, ghosts |-> {},
               listed |-> {f \in files : there /\ (f[2] = Config \/ jobs[f[1]].mode = "full")},
               alive |-> {j \in Jobs : ~there \/ Alive(j)}]
    /\ UNCHANGED <<shared, mix, up, deletes, runner, files, records, prune, adm, adopted, seen>>

\* ListBackupsOnTarget; a directory that does not exist has no backups.
ReconcileList(there) ==
    /\ up /\ reconciles < mix.reconciles /\ rec = Nil
    /\ reconciles' = reconciles + 1
    /\ FaultIf(~there)
    /\ rec' = [pc |-> "read", orphans |-> {}, ghosts |-> {},
               listed |-> IF there THEN files ELSE {},
               alive |-> {j \in Jobs : ~there \/ Alive(j)}]
    /\ UNCHANGED <<shared, mix, up, deletes, runner, files, records, prune, adm, adopted, seen>>

\* The files the log names; a running job names none yet.
Indexed == {f \in Files : f[2] \in jobs[f[1]].files} \cup adopted

ReconcileRead ==
    /\ rec # Nil /\ rec.pc = "read"
    /\ rec' = [pc |-> "adopt", listed |-> {}, alive |-> {},
               orphans |-> rec.listed \ Indexed, ghosts |-> Indexed \ rec.listed]
    /\ blurred' = blurred \cup {j \in rec.alive : time[j] > 0}
    /\ UNCHANGED <<env, runner, files, records, prune, adm, adopted, purged, raced, want, blind, unlogged>>

\* Mutant: the orphan's whole run is adopted, with the archive it lacks.
Adopted_WholeRun(r) == {r} \X (want[r] \cup {Config})

\* A synthetic job for the orphans of one run.
Adopted(r) == {f \in rec.orphans : f[1] = r}

\* RecordJob, for each run with orphans.
ReconcileAdopt(r) ==
    /\ rec # Nil /\ rec.pc = "adopt" /\ \E f \in rec.orphans : f[1] = r
    /\ adopted' = adopted \cup Adopted(r)
    /\ rec' = [rec EXCEPT !.orphans = {f \in @ : f[1] # r}]
    /\ UNCHANGED <<env, runner, files, records, prune, adm, seen>>

\* The ghosts leave the records of their jobs; a job that keeps no file becomes
\* an error (of the synthetic jobs that are left, only the files matter).
ReconcileClean ==
    /\ rec # Nil /\ rec.pc = "adopt" /\ rec.orphans = {}
    /\ jobs' = [j \in Jobs |->
                 LET left == {i \in jobs[j].files : <<j, i>> \notin rec.ghosts}
                 IN IF left = jobs[j].files THEN jobs[j]
                    ELSE [jobs[j] EXCEPT !.files = left,
                                         !.status = IF left = {} THEN "error" ELSE @]]
    /\ adopted' = adopted \ rec.ghosts
    /\ rec' = Nil
    /\ UNCHANGED <<env, queue, w, time, files, records, prune, adm, seen>>

-----------------------------------------------------------------------------
(* Crash and restart.                                                        *)

\* The daemon dies; a backup libvirt is pushing may still complete.
Crash ==
    /\ up /\ Fault
    /\ up' = FALSE
    /\ (Writing("backup") /\ PushBackup) \/ UNCHANGED <<files, ckpts>>
    /\ queue' = {} /\ w' = Nil /\ adm' = Nil /\ rec' = Nil
    /\ prune' = [p \in Pruners |-> IdlePass]
    /\ UNCHANGED <<shared, mix, deletes, reconciles, jobs, time, chains, adopted, seen>>

\* Mutant: the jobs of the dead daemon stay as they were.
Restart_NoSweep(gone) ==
    /\ ~up /\ gone \subseteq unlogged
    /\ up' = TRUE
    /\ UNCHANGED <<shared, mix, faults, deletes, reconciles, runner, files, records, requests, seen>>

\* New loads the job log and sweepStuckJobs ends the jobs that were running; the
\* jobs that no later save brought into the file are gone.
Restart(gone) ==
    /\ ~up /\ gone \subseteq unlogged
    /\ up' = TRUE
    /\ jobs' = [j \in Jobs |-> CASE j \in gone -> NoJob
                                 [] jobs[j].status = "running" /\ j \notin gone ->
                                      [jobs[j] EXCEPT !.status = "error"]
                                 [] OTHER -> jobs[j]]
    /\ unlogged' = {}
    /\ UNCHANGED <<shared, mix, faults, deletes, reconciles, queue, w, time, files, records, requests,
                   purged, raced, want, blurred, blind>>

-----------------------------------------------------------------------------
RunnerNext ==
    \/ \E j \in Jobs, s \in VMs \cup {Nil}, m \in Modes, b \in BOOLEAN : RecordJob(j, s, m, b)
    \/ \E j \in Jobs, s \in SUBSET VMs : StartRun(j, s)
    \/ \E i \in Items : CreateArchive(i)
    \/ FinishArchive \/ FailArchive \/ FailRun
    \/ \E v \in VMs, b \in BOOLEAN : ReadParent(v, b)
    \/ BeginBackup \/ BeginBackupFails \/ AppendLoad
    \/ \E b \in BOOLEAN : BackupUnseen(b)
    \/ \E b \in BOOLEAN : AppendSave(b)

PruneNext(p) ==
    \/ PruneList(p) \/ PruneLoad(p)
    \/ \E b \in BOOLEAN : PruneDecide(p, b)
    \/ \E r \in Jobs : \E left \in SUBSET FilesOf(r) : PruneDelete(p, r, left)
    \/ \E v \in VMs, b \in BOOLEAN : PruneDrop(p, v, b)

OperatorNext ==
    \/ \E r \in Jobs : \E left \in SUBSET FilesOf(r) : DeleteRun(r, left)
    \/ \E v \in VMs, d \in SUBSET Jobs : DropCheckpoints(v, d)
    \/ AdmLoad \/ \E b \in BOOLEAN : AdmSave(b)

ReconcileNext ==
    \/ \E b \in BOOLEAN : ReconcileList(b)
    \/ ReconcileRead \/ ReconcileClean
    \/ \E r \in Jobs : ReconcileAdopt(r)

Next ==
    \/ RunnerNext \/ OperatorNext \/ ReconcileNext \/ Crash
    \/ \E gone \in SUBSET Jobs : Restart(gone)
    \/ \E p \in Pruners : PruneNext(p)

\* Fairness: a job's goroutine gets the mutex (Go's mutexes do not starve a
\* waiter), writing a file and a libvirt backup end one way or the other, a
\* run goes on to its next file, and the service manager restarts the daemon.
Fairness ==
    /\ \A j \in Jobs : SF_vars(\E s \in SUBSET VMs : StartRun(j, s))
    /\ WF_vars(\/ FinishArchive \/ FailArchive \/ FailRun
               \/ \E i \in Items : CreateArchive(i)
               \/ \E v \in VMs, b \in BOOLEAN : ReadParent(v, b)
               \/ BeginBackup \/ BeginBackupFails \/ AppendLoad
               \/ \E b \in BOOLEAN : BackupUnseen(b)
               \/ \E b \in BOOLEAN : AppendSave(b))
    /\ WF_vars(\E gone \in SUBSET Jobs : Restart(gone))

Spec == Init /\ [][Next]_vars

FairSpec == Spec /\ Fairness

-----------------------------------------------------------------------------
JobType ==
    [status : {"none", "running", "success", "error"}, scope : VMs \cup {Nil},
     mode : {"full", "incremental"}, files : SUBSET Items, named : SUBSET Items]
EntryType == [name : Jobs, parent : Jobs \cup {Nil}]

\* A chain file has one chain per machine.
ChainFile ==
    {cs \in Seq([vm : VMs, entries : Seq(EntryType)]) :
        \A i, k \in DOMAIN cs : cs[i].vm = cs[k].vm => i = k}

RunType ==
    [job : Jobs, todo : SUBSET VMs, done : SUBSET VMs,
     phase : {"next", "archive", "backup", "load", "save"},
     item : Items \cup {Nil}, parent : Jobs \cup {Nil}, loaded : ChainFile]
PassType ==
    [pc : {"idle", "decide", "delete", "drop"}, runs : SUBSET Jobs, dead : SUBSET VMs,
     loaded : ChainFile]
DeleteType == [vm : VMs, pc : {"load", "save"}, loaded : ChainFile]
ReconcileType ==
    [pc : {"read", "adopt"}, listed : SUBSET Files, alive : SUBSET Jobs,
     orphans : SUBSET Files, ghosts : SUBSET Files]

TypeOK ==
    /\ shared \in BOOLEAN /\ mix \in Mixes /\ up \in BOOLEAN
    /\ jobs \in [Jobs -> JobType] /\ queue \subseteq Jobs /\ w \in RunType \cup {Nil}
    /\ time \in [Jobs -> 0 .. MaxJobs] /\ files \subseteq Files
    /\ chains \in ChainFile /\ ckpts \in [VMs -> SUBSET Jobs]
    /\ prune \in [Pruners -> PassType] /\ adm \in DeleteType \cup {Nil}
    /\ rec \in ReconcileType \cup {Nil} /\ adopted \subseteq Files
    /\ faults \in 0 .. mix.faults /\ deletes \in 0 .. mix.deletes
    /\ reconciles \in 0 .. mix.reconciles
    /\ purged \subseteq Jobs /\ raced \subseteq VMs /\ blurred \subseteq Jobs
    /\ want \in [Jobs -> SUBSET VMs] /\ blind \subseteq Jobs /\ unlogged \subseteq Jobs

\* "An in-progress run is never torn apart" (runner.go, where runJob starts the
\* retention pass without its mutex): no pass ever intends to delete the run that
\* is being written, whatever runs were listed, finished, failed, crashed or
\* deleted since and whichever group the unfinished run was counted in.
RunningRunIntact ==
    w # Nil => \A p \in Pruners : prune[p].pc = "delete" => w.job \notin prune[p].runs

\* What the log calls a success is on the target: every machine the run set out
\* to write is among the files the job names, so is the configuration archive of
\* a full run, and all of them are there until someone deletes the run.  Errors,
\* retention passes that fail half way, and restarts between the last file and
\* the log entry do not break it (runner.go: writeBackup,
\* writeIncrementalBackup, runJob; store.go: sweepStuckJobs), nor does Reconcile
\* unless it listed the target before the run ended.  The one way in which a run
\* itself breaks it is a libvirt backup whose failure nobody saw.
SuccessMeansComplete ==
    \A j \in Jobs : jobs[j].status = "success" /\ j \notin purged \cup blurred \cup blind =>
        /\ {j} \X jobs[j].files \subseteq files
        /\ jobs[j].mode = "full" => Config \in jobs[j].files
        /\ want[j] \subseteq jobs[j].files

\* Reconcile keeps the log true to the target: no file is struck from the record
\* of its job, which would turn a success into an error once none is left, and a
\* file that a synthetic success names is there, for every run that nobody
\* deleted and that had ended when the target, being there, was listed
\* (reconcile.go: Reconcile reads the target, the log, and writes the log, in
\* three critical sections).  A run that took a failed libvirt backup for done
\* may lose files from its record, as it never had them.
ReconcileTruthful ==
    /\ \A f \in adopted : f \in files \/ f[1] \in purged \cup blurred
    /\ \A j \in Jobs : jobs[j].files # jobs[j].named => j \in purged \cup blurred \cup blind

\* A chain can be restored from its records: the first entry is a full backup
\* and every later one an increment of the entry before it.  Only two things
\* break this: a deletion of the chain, or a save of other records over it,
\* between a backup's reading of its parent and its loading of the records, and
\* a backup that could not read the chain it then appends to.  Stale saves at any
\* other moment, failed saves, failed, blind and crashed runs do not (chain.go:
\* AppendEntry and DeleteChain, each a load and a save without a common lock).
ChainGroundedUnlessRaced ==
    \A i \in DOMAIN chains : chains[i].vm \notin raced =>
        LET es == chains[i].entries IN
        \A k \in DOMAIN es : es[k].parent = IF k = 1 THEN Nil ELSE es[k - 1].name

\* Every job that was logged comes to an end, also across a crash of the daemon
\* (store.go: sweepStuckJobs; before it "the UI shows it as Running forever").
\* A job that RecordJob could not save does so only when the daemon restarts.
JobEnds ==
    \A j \in Jobs : jobs[j].status = "running" /\ j \notin unlogged
                        ~> jobs[j].status \in {"success", "error"}

\* retention.go says of the chains that "if ANY run of a chain is marked for
\* deletion, the ENTIRE chain is kept" unless all are: of the recorded chain a
\* pass deletes all runs that are on the target, or none.
DecisionSparesChains ==
    [][\A p \in Pruners : prune[p].pc = "decide" /\ prune'[p].pc = "delete" =>
        \A i \in DOMAIN chains :
            LET runs == EntryRuns(chains[i]) \cap prune[p].runs IN
            runs \cap prune'[p].runs \in {{}, runs}]_vars

\* runner.go says of the pass that a finished run starts: "This never removes
\* the run we just wrote (it is the newest)": a successful run is not deleted
\* by retention while no later run of its scope succeeded.
NewestGoodKept ==
    [][\A p \in Pruners : prune[p].pc = "decide" /\ prune'[p].pc = "delete" =>
        \A r \in prune'[p].runs : jobs[r].status = "success" =>
            \E s \in Jobs : /\ jobs[s].status = "success" /\ time[s] > time[r]
                            /\ jobs[s].scope = jobs[r].scope]_vars
=============================================================================
