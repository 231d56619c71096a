----------------------------- MODULE DiskMoves -----------------------------
(* Moving the disks of a machine to another pool: the request                *)
(* (api/storage_move.go), the background job it submits (api/jobs.go), the   *)
(* cold move itself (libvirt/storage_move.go) and the power operations that  *)
(* may run meanwhile (libvirt/domain_lifecycle.go).                          *)
(*                                                                           *)
(* The move copies each disk, repoints the machine at the copy, and only     *)
(* when every disk is repointed removes the originals; an error on the way   *)
(* repoints what was done and removes the copies.  Nothing is locked: the    *)
(* machine's state and the names in the pool are read once, and files are    *)
(* removed by path.  The files carry what the properties tell apart: whose   *)
(* disk they hold, which job made them, whether they are complete and        *)
(* whether they hold the guest's last write.                                 *)
(*                                                                           *)
(* External: libvirt and the filesystem, as the code uses them.  libvirt     *)
(* refuses to change the source of a hard disk of a running machine.  The    *)
(* permission and purpose checks of the request and the progress of a job    *)
(* are left out; a lack of space or a linked clone found before the copy is  *)
(* one of the errors of Prepare.                                             *)
EXTENDS Integers, Sequences, FiniteSets, FiniteSetsExt

CONSTANTS
    VMs,      \* machines
    Disks,    \* the disks of all machines, each a device of one of them
    VmOf,     \* VmOf[d]: the machine that disk d is a device of
    Rank,     \* Rank[d]: where d comes among the devices of its machine
    Home,     \* Home[d]: the file of disk d at the start
    Pools,    \* disk pools; a pool is its directory
    Bases,    \* file names without their numbers
    Jobs,     \* bound: the moves of a behaviour, each a job of its own
    Nil

\* A file name: a base and the numbers appended to it, "web-2" is <<2>> on web.
Name == [base : Bases, nums : Seq(Nat)]
Path == [pool : Pools, name : Name]
File == [of : Disks, by : Jobs \cup {Nil}, whole : BOOLEAN, cur : BOOLEAN]

DisksOf(v) == {d \in Disks : VmOf[d] = v}

\* Every disk has a machine, a place among its devices and a file of its own.
ASSUME DisksAssumption ==
    /\ IsFiniteSet(Disks)
    /\ VmOf \in [Disks -> VMs] /\ Rank \in [Disks -> Nat] /\ Home \in [Disks -> Path]
    /\ \A d, e \in Disks : d # e => Home[d] # Home[e]
    /\ \A d, e \in Disks : VmOf[d] = VmOf[e] /\ Rank[d] = Rank[e] => d = e
ASSUME NilAssumption == Nil \notin Jobs \cup Path

VARIABLES
    dom,        \* libvirt's state of each machine
    transient,  \* machines undefined while live: they go when they stop
    src,        \* the <source> of each disk in the machine's definition
    files,      \* the files of the pools, by path
    live,       \* the <source> in the XML of a live machine, Nil for others
    hold,       \* what a live machine has open; Nil once it is unlinked
    job,        \* where each job's goroutine is
    status,     \* isoJobs: the status of each job, "none" when not in the table
    starts      \* bound: the starts a behaviour has left

\* Observation no code keeps: what befell a machine, for the properties.
VARIABLE cause

domVars == <<dom, transient, src, live, hold, starts>>
jobVars == <<job, status>>
moveVars == <<domVars, files, jobVars, cause>>

\* A job: its machine and destination, the disks it has to move, the name it
\* chose for the first of them, and the disks it has moved.
Move(at, vm, pool, todo, to, done) ==
    [at |-> at, vm |-> vm, pool |-> pool, todo |-> todo, to |-> to, done |-> done]
NoMove(at) == Move(at, Nil, Nil, {}, Nil, {})
SetJob(j, m) == job' = [job EXCEPT ![j] = m]

MoveInit(available, n) ==
    /\ dom = [v \in VMs |-> "off"]
    /\ transient = {}
    /\ src = Home
    /\ files = [p \in {Home[d] : d \in Disks} |->
                 [of |-> CHOOSE d \in Disks : Home[d] = p, by |-> Nil, whole |-> TRUE, cur |-> TRUE]]
    /\ live = [d \in Disks |-> Nil] /\ hold = [d \in Disks |-> Nil]
    /\ job = [j \in Jobs |-> NoMove(IF j \in available THEN "new" ELSE "ended")]
    /\ status = [j \in Jobs |-> "none"]
    /\ starts = n
    /\ cause = {}

-----------------------------------------------------------------------------
(* Files.                                                                    *)

\* os.Remove: a machine that has the file open keeps it without its name.
Unlink(S) ==
    /\ files' = [p \in DOMAIN files \ S |-> files[p]]
    /\ hold' = [d \in Disks |-> IF hold[d] \in S THEN Nil ELSE hold[d]]

\* GetDomainXML: the XML of a live machine is that of its start, whatever has
\* become of its definition since.
Shown(d) == IF live[d] = Nil THEN src[d] ELSE live[d]

\* findPathAttachments, which passes over the machines whose XML it cannot get.
Attached(p, unread) ==
    {v \in VMs \ unread : dom[v] # "gone" /\ \E d \in DisksOf(v) : Shown(d) = p}

\* vmDiskSweepMatcher's and VMDiskPath's pattern <name>[-N].
Numbered(name, base) ==
    \/ name = base
    \/ /\ name.base = base.base
       /\ Len(name.nums) = Len(base.nums) + 1
       /\ SubSeq(name.nums, 1, Len(base.nums)) = base.nums

\* VMDiskPath: the name itself when no such name is in the pool, else one more
\* than the highest number.  The file is not created.
VMDiskPath(pool, name) ==
    LET taken == {q \in DOMAIN files : q.pool = pool /\ Numbered(q.name, name)}
        num(q) == IF q.name = name THEN 1 ELSE q.name.nums[Len(q.name.nums)]
    IN [pool |-> pool,
        name |-> IF taken = {} THEN name
                 ELSE [base |-> name.base,
                       nums |-> Append(name.nums, Max({num(q) : q \in taken}) + 1)]]

-----------------------------------------------------------------------------
(* Power.                                                                    *)

\* Where a job has seen its machine stopped and not yet repointed every disk, and
\* where it still removes originals.
Moving(j) == job[j].at \in {"name", "create", "copy", "repoint", "rollback"}
Busy(j) == Moving(j) \/ job[j].at = "cleanup"
MovesOf(v) == {j \in Jobs : Moving(j) /\ job[j].vm = v}

\* A machine with a QEMU.  "suspended" is libvirt's PMSUSPENDED: the guest has
\* put itself to sleep.  SHUTDOWN and CRASHED, which only end, act the same.
Live == {"running", "paused", "suspended"}

Opened(v) ==
    /\ live' = [d \in Disks |-> IF VmOf[d] = v THEN src[d] ELSE live[d]]
    /\ hold' = [d \in Disks |-> IF VmOf[d] = v THEN src[d] ELSE hold[d]]
Closed(v) ==
    /\ live' = [d \in Disks |-> IF VmOf[d] = v THEN Nil ELSE live[d]]
    /\ hold' = [d \in Disks |-> IF VmOf[d] = v THEN Nil ELSE hold[d]]

\* StartDomain.  libvirt opens the files, and fails without them.
StartDomain(v) ==
    /\ starts > 0 /\ starts' = starts - 1
    /\ dom[v] = "off" /\ \A d \in DisksOf(v) : src[d] \in DOMAIN files
    /\ dom' = [dom EXCEPT ![v] = "running"]
    /\ Opened(v)
    /\ cause' = IF MovesOf(v) # {} THEN cause \cup {<<v, "live">>} ELSE cause
    /\ UNCHANGED <<transient, src, files, jobVars>>

\* The guest's writes go to what the machine has open.
GuestWrite(d) ==
    /\ dom[VmOf[d]] = "running"
    /\ files' = [p \in DOMAIN files |->
                  IF files[p].of = d /\ p # hold[d] THEN [files[p] EXCEPT !.cur = FALSE]
                  ELSE files[p]]
    /\ UNCHANGED <<domVars, jobVars, cause>>

\* A guest that obeys ShutdownDomain, or ForceOffDomain.
PowerOff(v) ==
    /\ dom[v] \in Live
    /\ dom' = [dom EXCEPT ![v] = IF v \in transient THEN "gone" ELSE "off"]
    /\ Closed(v)
    /\ UNCHANGED <<transient, src, starts, files, jobVars, cause>>

Turns(v, from, to) ==
    /\ dom[v] = from
    /\ dom' = [dom EXCEPT ![v] = to]
    /\ UNCHANGED <<transient, src, live, hold, starts, files, jobVars, cause>>

SuspendDomain(v) == Turns(v, "running", "paused")
ResumeDomain(v) == Turns(v, "paused", "running")

\* The guest goes to sleep, and wakes; no call of the program does either.
Sleep(v) == Turns(v, "running", "suspended")
Wake(v) == Turns(v, "suspended", "running")

\* DeleteDomain destroys a running machine and undefines it.  Another live one
\* is not destroyed: without its definition it lasts until it stops.
DeleteDomain(v) ==
    LET lasts == dom[v] \in Live \ {"running"}
    IN /\ dom[v] # "gone" /\ ~(lasts /\ v \in transient)
       /\ dom' = [dom EXCEPT ![v] = IF lasts THEN @ ELSE "gone"]
       /\ transient' = IF lasts THEN transient \cup {v} ELSE transient
       /\ IF lasts THEN UNCHANGED <<live, hold>> ELSE Closed(v)

\* UpdateDiskSource changes the definition only, unless the machine runs: then
\* libvirt refuses.  The definition of another live machine changes, its XML not.
CanRepoint(v) == dom[v] \notin {"running", "gone"} /\ v \notin transient

-----------------------------------------------------------------------------
(* The request and its job.                                                  *)

\* "Running" for a move: what both checks of the state refuse.
Refused == {"running", "paused", "gone"}

\* MoveVMStorage looks at the machine's state, and submits the job.
MoveVMStorage(j, v, pool) ==
    /\ job[j].at = "new" /\ dom[v] \notin Refused
    /\ SetJob(j, Move("begin", v, pool, {}, Nil, {}))
    /\ status' = [status EXCEPT ![j] = "running"]
    /\ UNCHANGED <<domVars, files, cause>>

\* Mutant: an error before the first copy is logged and not filed.
Finish_ErrorDropped(j, outcome) ==
    /\ SetJob(j, NoMove("ended"))
    /\ status' = [status EXCEPT ![j] = IF outcome = "error" THEN @ ELSE outcome]

\* fn returned: the goroutine files the outcome under the job.
Finish(j, outcome) ==
    /\ SetJob(j, NoMove("ended"))
    /\ status' = [status EXCEPT ![j] = outcome]

\* The disks of v that are not in the pool yet, and the next of a list: both
\* loops take them in the order of the definition.
Todo(v, pool) == {[disk |-> d, from |-> Shown(d)] : d \in {e \in DisksOf(v) : Shown(e).pool # pool}}
First(S) == CHOOSE m \in S : \A n \in S : Rank[m.disk] <= Rank[n.disk]

\* Mutant: the request's check of the state is thought to be enough.
MayMove_StateTrusted(v, todo, unread) ==
    /\ dom[v] # "gone" /\ todo # {}
    /\ \A m \in todo : Attached(m.from, unread) \subseteq {v}

\* MoveDomainStorage up to "move_preparing": the state is asked again, for the
\* machine may have started since the request, some disk is elsewhere, and no
\* other machine is seen to have it.
MayMove(v, todo, unread) ==
    /\ dom[v] \notin Refused /\ todo # {}
    /\ \A m \in todo : Attached(m.from, unread) \subseteq {v}

\* Who looks at the disks of v does not see those of its definition.
Misread(v, unread) == v \in unread \/ \E d \in DisksOf(v) : Shown(d) # src[d]

Prepare(j, ok, unread) ==
    LET v == job[j].vm
        pool == job[j].pool
    IN /\ job[j].at = "begin"
       /\ IF ok /\ MayMove(v, Todo(v, pool), unread)
          THEN /\ SetJob(j, Move("name", v, pool, Todo(v, pool), Nil, {}))
               /\ cause' = cause \cup (IF MovesOf(v) # {} THEN {<<v, "overlap">>} ELSE {})
                                \cup (IF dom[v] = "suspended" THEN {<<v, "live">>} ELSE {})
                                \cup (IF Misread(v, {}) THEN {<<v, "misread">>} ELSE {})
               /\ UNCHANGED status
          ELSE Finish(j, "error") /\ UNCHANGED cause
       /\ UNCHANGED <<domVars, files>>

\* The job goes on at another point, with name to for the disk it is moving.
Goes(j, at, to) == SetJob(j, [job[j] EXCEPT !.at = at, !.to = to])

\* Mutant: the error of VMDiskPath is ignored.
PickName_ErrorIgnored(j, ok) ==
    /\ job[j].at = "name"
    /\ Goes(j, "create", IF ok THEN VMDiskPath(job[j].pool, First(job[j].todo).from.name) ELSE Nil)
    /\ UNCHANGED <<domVars, files, status, cause>>

PickName(j, ok) ==
    /\ job[j].at = "name"
    /\ IF ok THEN Goes(j, "create", VMDiskPath(job[j].pool, First(job[j].todo).from.name))
       ELSE Goes(j, "rollback", Nil)
    /\ UNCHANGED <<domVars, files, status, cause>>

\* Removing a name takes whatever file has it by now: the machines that lose one
\* which is not theirs to lose, the copies of job j being those of its machine.
Owner(p) == VmOf[files[p].of]
Bereft(S) == cause' = cause \cup (S \X {"clobbered"})
NotMine(j, p) ==
    {v \in VMs : p \in DOMAIN files /\ Owner(p) = v /\ ~(files[p].by = j /\ job[j].vm = v)}
NotOurs(j, p) == {v \in VMs \ {job[j].vm} : p \in DOMAIN files /\ Owner(p) = v}

\* The error path of the copy and of the repointing: remove the file of that
\* name, whoever made it, and roll back.
DropCopy(j) ==
    /\ Unlink({job[j].to})
    /\ Bereft(NotMine(j, job[j].to))
    /\ Goes(j, "rollback", Nil)
    /\ UNCHANGED <<dom, transient, src, live, starts, status>>

\* CopyFileFast opens the source, then creates the destination with O_EXCL.
CreateCopy(j, ok) ==
    LET from == First(job[j].todo).from
        to == job[j].to
    IN /\ job[j].at = "create"
       /\ IF ok /\ from \in DOMAIN files /\ to \notin DOMAIN files
          THEN /\ files' = [p \in DOMAIN files \cup {to} |->
                             IF p = to THEN [of |-> files[from].of, by |-> j, whole |-> FALSE,
                                             cur |-> files[from].cur /\ files[from].whole]
                             ELSE files[p]]
               /\ Goes(j, "copy", to)
               /\ UNCHANGED <<domVars, status, cause>>
          ELSE DropCopy(j)

\* The bytes are copied and synced.  A copy whose name is gone by now, or
\* stands for another file, ends as well.
CopyBytes(j, ok) ==
    LET mine(p) == p = job[j].to /\ files[p].by = j
    IN /\ job[j].at = "copy"
       /\ IF ok
          THEN /\ files' = [p \in DOMAIN files |->
                             IF mine(p) THEN [files[p] EXCEPT !.whole = TRUE] ELSE files[p]]
               /\ Goes(j, "repoint", job[j].to)
               /\ UNCHANGED <<domVars, status, cause>>
          ELSE DropCopy(j)

\* The first of the disks to move is moved; then the next, or the clean-up.
Moved(j) ==
    LET m == First(job[j].todo)
        rest == job[j].todo \ {m}
    IN SetJob(j, Move(IF rest = {} THEN "cleanup" ELSE "name", job[j].vm, job[j].pool, rest, Nil,
                      job[j].done \cup {[disk |-> m.disk, from |-> m.from, to |-> job[j].to]}))

Repointed(j) ==
    /\ src' = [src EXCEPT ![First(job[j].todo).disk] = job[j].to]
    /\ Moved(j)
    /\ UNCHANGED <<dom, transient, live, hold, starts, files, status, cause>>

Repoint(j, ok) ==
    /\ job[j].at = "repoint"
    /\ IF ok /\ CanRepoint(job[j].vm) THEN Repointed(j) ELSE DropCopy(j)

\* A disk of the list done is dealt with.
Undone(j, m) == SetJob(j, [job[j] EXCEPT !.done = job[j].done \ {m}])

\* rollback, a disk at a time: point back, and remove the copy even when the
\* pointing back failed (it is only logged).
RollbackDisk(j, ok) ==
    LET v == job[j].vm
        m == First(job[j].done)
        back == ok /\ CanRepoint(v)
    IN /\ job[j].at = "rollback" /\ job[j].done # {}
       /\ src' = IF back THEN [src EXCEPT ![m.disk] = m.from] ELSE src
       /\ Unlink({m.to})
       /\ cause' = cause \cup (NotMine(j, m.to) \X {"clobbered"})
                        \cup (IF back \/ dom[v] = "gone" THEN {} ELSE {<<v, "unrepointed">>})
       /\ Undone(j, m)
       /\ UNCHANGED <<dom, transient, live, starts, status>>

RollbackEnd(j) ==
    /\ job[j].at = "rollback" /\ job[j].done = {}
    /\ Finish(j, "error")
    /\ UNCHANGED <<domVars, files, cause>>

\* "move_cleanup": the originals go; a failure is a warning.
CleanupDisk(j, ok) ==
    LET m == First(job[j].done)
    IN /\ job[j].at = "cleanup" /\ job[j].done # {}
       /\ IF ok THEN Unlink({m.from}) /\ Bereft(NotOurs(j, m.from))
          ELSE UNCHANGED <<files, hold, cause>>
       /\ Undone(j, m)
       /\ UNCHANGED <<dom, transient, src, live, starts, status>>

CleanupEnd(j) ==
    /\ job[j].at = "cleanup" /\ job[j].done = {}
    /\ Finish(j, "done")
    /\ UNCHANGED <<domVars, files, cause>>

\* One step of the goroutine of job j; ok: the call it makes succeeds; unread:
\* the machines whose XML libvirt does not give.
JobStep(j) ==
    \/ \E ok \in BOOLEAN, unread \in SUBSET VMs : Prepare(j, ok, unread)
    \/ \E ok \in BOOLEAN : PickName(j, ok) \/ CreateCopy(j, ok) \/ CopyBytes(j, ok)
    \/ \E ok \in BOOLEAN : Repoint(j, ok) \/ RollbackDisk(j, ok) \/ CleanupDisk(j, ok)
    \/ RollbackEnd(j) \/ CleanupEnd(j)

\* safego.Recover ends the goroutine and files nothing.
Panic(j) ==
    /\ job[j].at \notin {"new", "ended", "dead"}
    /\ SetJob(j, NoMove("dead"))
    /\ UNCHANGED <<domVars, files, status, cause>>

\* pruneExpiredJobs forgets a job a day after its end.
PruneExpiredJobs(j) ==
    /\ status[j] \in {"done", "error"}
    /\ status' = [status EXCEPT ![j] = "none"]
    /\ UNCHANGED <<domVars, files, job, cause>>

\* The program stops at any point and starts anew: the goroutines and the job
\* table are gone, machines and files are as they were.
JobsLost ==
    /\ job' = [j \in Jobs |-> NoMove(IF job[j].at = "new" THEN "new" ELSE "ended")]
    /\ status' = [j \in Jobs |-> "none"]

-----------------------------------------------------------------------------
(* Types.                                                                    *)

Causes == {"live", "misread", "overlap", "clobbered", "swept", "unrepointed"}
MoveType ==
    [at : {"new", "begin", "name", "create", "copy", "repoint", "rollback", "cleanup", "ended", "dead"},
     vm : VMs \cup {Nil}, pool : Pools \cup {Nil}, todo : SUBSET [disk : Disks, from : Path],
     to : Path \cup {Nil}, done : SUBSET [disk : Disks, from : Path, to : Path]]

\* What a job that is at work has in hand.
InHand(j) ==
    /\ Busy(j) \/ job[j].at = "begin" => job[j].vm \in VMs /\ job[j].pool \in Pools
    /\ job[j].at \in {"create", "copy", "repoint"} => job[j].to # Nil
    /\ job[j].at \in {"name", "create", "copy", "repoint"} => job[j].todo # {}

MoveTypeOK ==
    /\ dom \in [VMs -> {"off", "gone"} \cup Live]
    /\ transient \subseteq VMs
    /\ src \in [Disks -> Path]
    /\ live \in [Disks -> Path \cup {Nil}] /\ hold \in [Disks -> Path \cup {Nil}]
    /\ \A d \in Disks : hold[d] # Nil => hold[d] \in DOMAIN files /\ dom[VmOf[d]] \in Live
    /\ \A p \in DOMAIN files : p \in Path /\ files[p] \in File
    /\ job \in [Jobs -> MoveType] /\ \A j \in Jobs : InHand(j)
    /\ status \in [Jobs -> {"none", "running", "done", "error"}]
    /\ starts \in Nat
    /\ cause \subseteq VMs \X Causes
=============================================================================
