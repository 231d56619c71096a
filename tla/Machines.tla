------------------------------ MODULE Machines ------------------------------
(* The machines of a host with everything that acts on them at once: storage *)
(* moves (DiskMoves), the power scheduler (vmsched/vmsched.go), the requests *)
(* that edit a schedule (api/vmsched.go) and the deletion of a machine with  *)
(* its disks (api/vms.go, libvirt/storage.go).                               *)
(*                                                                           *)
(* A schedule is the set of power actions it has a cron line for.  The lines *)
(* themselves, the snapshot line (which acts on snapshots only) and the      *)
(* firewall entries a deletion clears are left out.                          *)
EXTENDS DiskMoves

CONSTANTS
    Acts,       \* "start" and "stop"
    Named,      \* Named[v]: the name of machine v, which its sweep looks for
    Requests,   \* bound: schedule edits and deletions, each one request
    Budgets     \* bound: the jobs, requests and starts a behaviour may use

ASSUME BudgetsAssumption ==
    Budgets \subseteq [jobs : SUBSET Jobs, requests : SUBSET Requests, starts : Nat]
ASSUME RequestsAssumption == Nil \notin Requests

VARIABLES
    sched,    \* Store.byVM: <<machine, action>> for every cron line
    saved,    \* vm_schedules.json
    entries,  \* the entries of the running cron
    firing,   \* entries that fired and passed their look at the store
    rebuild,  \* the request inside Rebuild, or Nil
    req       \* where each request is

\* Observations no code keeps: a save failed after the last Rebuild; the file
\* could not be read at the last start, and was not written since.
VARIABLES unsaved, unloaded

schedVars == <<sched, saved, entries, firing, rebuild, req, unsaved, unloaded>>
vars == <<moveVars, schedVars>>

\* A request: its machine, the names of the machine's files, and the file that
\* the sweep has looked at and will remove, as it was.
Request(at, vm, exact, victim) == [at |-> at, vm |-> vm, exact |-> exact, victim |-> victim]
NoVm(at) == Request(at, Nil, {}, Nil)
SetReq(r, rec) == req' = [req EXCEPT ![r] = rec]

Init ==
    /\ \E b \in Budgets :
         /\ MoveInit(b.jobs, b.starts)
         /\ req = [r \in Requests |-> NoVm(IF r \in b.requests THEN "new" ELSE "ended")]
    /\ sched = {} /\ saved = {} /\ entries = {} /\ firing = {}
    /\ rebuild = Nil /\ unsaved = FALSE /\ unloaded = FALSE

-----------------------------------------------------------------------------
(* The scheduler.                                                            *)

Enabled(v) == \E a \in Acts : <<v, a>> \in sched

\* The hour of an entry comes: fire reads the schedule again, and goes on if
\* the machine has any.  A stopped cron fires nothing.
Fire(v, a) ==
    /\ rebuild = Nil /\ <<v, a>> \in entries /\ Enabled(v)
    /\ firing' = firing \cup {<<v, a>>}
    /\ UNCHANGED <<moveVars, sched, saved, entries, rebuild, req, unsaved, unloaded>>

\* ... and calls StartDomain or ShutdownDomain, which may do nothing.
Power(v, a) ==
    /\ <<v, a>> \in firing
    /\ firing' = firing \ {<<v, a>>}
    /\ \/ a = "start" /\ StartDomain(v)
       \/ a = "stop" /\ dom[v] = "running" /\ PowerOff(v)
       \/ UNCHANGED moveVars
    /\ UNCHANGED <<sched, saved, entries, rebuild, req, unsaved, unloaded>>

-----------------------------------------------------------------------------
(* Requests.                                                                 *)

\* SetVMSchedule: Store.Set changes the table in memory first.  Nobody asks
\* whether the machine exists.
SetVMSchedule(r, v, S) ==
    /\ req[r].at = "new"
    /\ sched' = {e \in sched : e[1] # v} \cup ({v} \X S)
    /\ SetReq(r, NoVm("save"))
    /\ UNCHANGED <<moveVars, saved, entries, firing, rebuild, unsaved, unloaded>>

\* Save writes the whole table.  When it fails the request ends here: the
\* table keeps the change and the cron its old entries.
Save(r, ok) ==
    /\ req[r].at = "save"
    /\ saved' = IF ok THEN sched ELSE saved
    /\ unsaved' = (unsaved \/ ~ok) /\ unloaded' = (unloaded /\ ~ok)
    /\ SetReq(r, NoVm(IF ok THEN "rebuild" ELSE "ended"))
    /\ UNCHANGED <<moveVars, sched, entries, firing, rebuild>>

\* Rebuild takes the mutex and stops the cron, waits for the entries that are
\* running, and registers the table as it is then.
RebuildStop(r) ==
    /\ req[r].at = "rebuild" /\ rebuild = Nil
    /\ rebuild' = r
    /\ UNCHANGED <<moveVars, sched, saved, entries, firing, req, unsaved, unloaded>>

\* Mutant: Rebuild does not wait for the entries that are running.
Rebuilt_NoWait(r) ==
    /\ rebuild = r
    /\ entries' = sched
    /\ unsaved' = (unsaved /\ saved # sched)
    /\ rebuild' = Nil
    /\ SetReq(r, NoVm("ended"))
    /\ UNCHANGED <<moveVars, sched, saved, firing, unloaded>>

Rebuilt(r) ==
    /\ rebuild = r /\ firing = {}
    /\ entries' = sched
    /\ unsaved' = (unsaved /\ saved # sched)
    /\ rebuild' = Nil
    /\ SetReq(r, NoVm("ended"))
    /\ UNCHANGED <<moveVars, sched, saved, firing, unloaded>>

\* DeleteVM: the names of the machine and of its disks are read, then it is
\* undefined.  With "disks" the sweep follows.
DeleteVM(r, v, disks) ==
    /\ req[r].at = "new"
    /\ DeleteDomain(v)
    /\ SetReq(r, Request(IF disks THEN "sweep" ELSE "clear", v, {Shown(d).name : d \in DisksOf(v)}, Nil))
    /\ UNCHANGED <<src, starts, files, jobVars, cause, sched, saved, entries, firing, rebuild, unsaved, unloaded>>

\* The machine of the file p, when a move of it is at work, or when p is not the
\* file that was looked at, made by job by: a move has taken the name since.
Struck(p, by) ==
    {v \in VMs : /\ p \in DOMAIN files /\ Owner(p) = v
                 /\ files[p].by # by \/ \E j \in Jobs : Busy(j) /\ job[j].vm = v}
Look(r, victim) == SetReq(r, [req[r] EXCEPT !.victim = victim])

\* DeleteVMDiskFiles looks, in every pool, at the files that have the name of a
\* disk of v or its own name with a number, and passes over the attached ones.
SweepMatches(r, p) ==
    \/ p.name \in req[r].exact
    \/ Numbered(p.name, Named[req[r].vm])

\* The machines of which p is a disk, though it did not look so.
Overlooked(p, unread) ==
    {v \in VMs : Misread(v, unread) /\ \E d \in DisksOf(v) : src[d] = p}

\* Mutant: the sweep trusts the name and does not look who has the file.
SweepCheck_NameTrusted(r, p, unread) ==
    /\ req[r].at = "sweep" /\ req[r].victim = Nil
    /\ p \in DOMAIN files /\ SweepMatches(r, p)
    /\ Look(r, [path |-> p, by |-> files[p].by])
    /\ cause' = cause \cup (Struck(p, files[p].by) \X {"swept"})
                     \cup (Overlooked(p, unread) \X {"misread"})
    /\ UNCHANGED <<domVars, files, jobVars, sched, saved, entries, firing, rebuild, unsaved, unloaded>>

SweepCheck(r, p, unread) ==
    /\ req[r].at = "sweep" /\ req[r].victim = Nil
    /\ p \in DOMAIN files /\ SweepMatches(r, p) /\ Attached(p, unread) = {}
    /\ Look(r, [path |-> p, by |-> files[p].by])
    /\ cause' = cause \cup (Struck(p, files[p].by) \X {"swept"})
                     \cup (Overlooked(p, unread) \X {"misread"})
    /\ UNCHANGED <<domVars, files, jobVars, sched, saved, entries, firing, rebuild, unsaved, unloaded>>

\* DeleteStorageVolume removes the file of that name.  A move's copy, or an
\* original it could still go back to, may be among them.
SweepDelete(r) ==
    /\ req[r].at = "sweep" /\ req[r].victim # Nil
    /\ Unlink({req[r].victim.path})
    /\ cause' = cause \cup (Struck(req[r].victim.path, req[r].victim.by) \X {"swept"})
    /\ Look(r, Nil)
    /\ UNCHANGED <<dom, transient, src, live, starts, jobVars, sched, saved, entries, firing, rebuild, unsaved, unloaded>>

\* Every other match was skipped or could not be deleted.
SweepEnd(r) ==
    /\ req[r].at = "sweep" /\ req[r].victim = Nil
    /\ SetReq(r, [req[r] EXCEPT !.at = "clear"])
    /\ UNCHANGED <<moveVars, sched, saved, entries, firing, rebuild, unsaved, unloaded>>

\* The schedule of the machine is cleared, with the same Set and Rebuild.
ClearSchedule(r) ==
    /\ req[r].at = "clear"
    /\ sched' = {e \in sched : e[1] # req[r].vm}
    /\ SetReq(r, NoVm("save"))
    /\ UNCHANGED <<moveVars, saved, entries, firing, rebuild, unsaved, unloaded>>

-----------------------------------------------------------------------------
\* The program dies and starts: the schedules are read from their file, and
\* registered.  When the file cannot be read it goes on with none.
Restart(read) ==
    /\ JobsLost
    /\ sched' = IF read THEN saved ELSE {}
    /\ entries' = sched' /\ firing' = {} /\ rebuild' = Nil
    /\ unsaved' = FALSE /\ unloaded' = ~read
    /\ req' = [r \in Requests |-> NoVm(IF req[r].at = "new" THEN "new" ELSE "ended")]
    /\ UNCHANGED <<domVars, files, cause, saved>>

MoveStep(j) == JobStep(j) /\ UNCHANGED schedVars

OperatorNext ==
    /\ \/ \E v \in VMs : StartDomain(v) \/ PowerOff(v)
       \/ \E v \in VMs : SuspendDomain(v) \/ ResumeDomain(v) \/ Sleep(v) \/ Wake(v)
       \/ \E d \in Disks : GuestWrite(d)
       \/ \E j \in Jobs, v \in VMs, p \in Pools : MoveVMStorage(j, v, p)
       \/ \E j \in Jobs : Panic(j) \/ PruneExpiredJobs(j)
    /\ UNCHANGED schedVars

RequestNext ==
    \/ \E r \in Requests, v \in VMs : \E S \in SUBSET Acts : SetVMSchedule(r, v, S)
    \/ \E r \in Requests, v \in VMs : \E d \in BOOLEAN : DeleteVM(r, v, d)
    \/ \E r \in Requests, unread \in SUBSET VMs : \E p \in DOMAIN files : SweepCheck(r, p, unread)
    \/ \E r \in Requests : SweepDelete(r) \/ SweepEnd(r) \/ ClearSchedule(r)
    \/ \E r \in Requests : (\E ok \in BOOLEAN : Save(r, ok)) \/ RebuildStop(r) \/ Rebuilt(r)

Next ==
    \/ \E j \in Jobs : MoveStep(j)
    \/ OperatorNext
    \/ RequestNext
    \/ \E v \in VMs, a \in Acts : Fire(v, a) \/ Power(v, a)
    \/ \E read \in BOOLEAN : Restart(read)

Spec == Init /\ [][Next]_vars

-----------------------------------------------------------------------------
(* Properties.                                                               *)

Lines == VMs \X Acts

Victims == [path : Path, by : Jobs \cup {Nil}]
RequestType ==
    [at : {"new", "save", "rebuild", "sweep", "clear", "ended"}, vm : VMs \cup {Nil},
     exact : SUBSET Name, victim : Victims \cup {Nil}]

TypeOK ==
    /\ MoveTypeOK
    /\ sched \subseteq Lines /\ saved \subseteq Lines /\ entries \subseteq Lines /\ firing \subseteq Lines
    /\ req \in [Requests -> RequestType]
    /\ rebuild \in Requests \cup {Nil} /\ unsaved \in BOOLEAN /\ unloaded \in BOOLEAN

Spared(v, S) == \A c \in S : <<v, c>> \notin cause

\* The comment on libvirt/storage_move.go: a failure at any step leaves the
\* machine pointing at files that exist.  So it does, across failed copies and
\* repointings, panics, crashes, starts, sleeps and deletions, unless two moves
\* of the machine overlap, another move or a sweep removes a file of its move by
\* name, the rollback could not point it back, or a sweep or a move that read its
\* XML did not get its definition.
DiskThere ==
    \A v \in VMs : dom[v] # "gone" /\ Spared(v, Causes \ {"live"}) =>
        \A d \in DisksOf(v) : src[d] \in DOMAIN files

\* And the file is that disk, complete, with everything the guest ever wrote to
\* it, unless moreover the machine had a QEMU in the middle of its move: it was
\* started then, or was asleep when the move began.
DataKept ==
    \A v \in VMs : dom[v] # "gone" /\ Spared(v, Causes) =>
        \A d \in DisksOf(v) :
            /\ src[d] \in DOMAIN files
            /\ files[src[d]].of = d
            /\ files[src[d]].whole /\ files[src[d]].cur

\* No request is between its change of the table and its Rebuild.
Settled == \A r \in Requests : req[r].at \in {"new", "ended", "sweep", "clear"}

\* Once the requests have returned and none failed to save, the cron's entries
\* are the schedules, no entry that was taken out still acts, and the file is
\* the table, but for a file that could not be read when the program started.
ScheduleObeyed ==
    ~unsaved /\ Settled =>
        entries = sched /\ firing \subseteq sched /\ (saved = sched \/ unloaded)

\* A job that shows as running, as clients see it that poll until it ends, has a
\* goroutine at work on it or one that panicked, and one that shows an outcome
\* has ended: no error path of a move returns without filing (api/jobs.go).
OutcomeFiled ==
    \A j \in Jobs :
        /\ status[j] = "running" => job[j].at \notin {"new", "ended"}
        /\ status[j] \in {"done", "error"} => job[j].at = "ended"
=============================================================================
