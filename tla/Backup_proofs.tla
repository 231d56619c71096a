--------------------------- MODULE Backup_proofs ---------------------------
(* Proofs about Backup, for any number of machines, jobs, retention passes   *)
(* and faults, and for every retention policy that is enabled: the type      *)
(* invariant, RunningRunIntact, SuccessMeansComplete, ReconcileTruthful and  *)
(* ChainGroundedUnlessRaced.                                                 *)
(*                                                                           *)
(* None of them is inductive.  What a pass will delete was listed and        *)
(* decided on at other moments than the run it might hit; what a job will    *)
(* name depends on how far its run is; what Reconcile writes into the log,   *)
(* on a listing of the target that is older than what it read of the log;    *)
(* and what a save leaves of the chains, on the copy that was loaded before. *)
EXTENDS Backup, FiniteSetTheorems, SequenceTheorems, TLAPS

-----------------------------------------------------------------------------
(* The inductive invariant.                                                  *)

\* Runs start one after the other, so the one that is being written is the last;
\* only a run that has started leaves files, and a trace in what was read of them.
RunsOrdered ==
    /\ \A j \in Jobs : time[j] <= Clock
    /\ \A j \in Jobs : j \in queue \cup unlogged \/ jobs[j].status = "none" => time[j] = 0
    /\ w # Nil => time[w.job] = Clock /\ time[w.job] > 0
    /\ \A f \in files \cup adopted : time[f[1]] > 0
    /\ \A j \in Jobs : jobs[j].files # {} => time[j] > 0
    /\ \A p \in Pruners : \A j \in prune[p].runs : time[j] > 0
    /\ rec # Nil => \A f \in rec.listed \cup rec.orphans : time[f[1]] > 0

\* A job is running until its run ends, and names no files until then; nothing
\* runs while the daemon is down, and what was not logged never does.
JobsFit ==
    /\ \A j \in queue : jobs[j].status = "running"
    /\ w # Nil => w.job \notin queue /\ jobs[w.job].status = "running"
    /\ \A j \in Jobs : Alive(j) => jobs[j].files = {} /\ jobs[j].named = {}
    /\ ~up => queue = {} /\ w = Nil /\ rec = Nil
    /\ \A j \in unlogged : jobs[j].status = "running" /\ j \notin queue

\* What a run still has to write and what it has written, at each of its points.
RunFits ==
    w # Nil =>
        /\ want[w.job] \subseteq w.todo \cup w.done
        /\ w.job \notin purged \cup blind => {w.job} \X w.done \subseteq files
        /\ w.phase \in {"next", "archive", "backup"} => w.todo \cap w.done = {}
        /\ w.phase \in {"backup", "load", "save"} => w.item \in VMs
        /\ w.phase = "backup" => w.item \in w.todo
        /\ w.phase \in {"load", "save"} =>
             w.item \in w.done /\ w.todo \cap w.done \subseteq {w.item}
        /\ w.phase = "archive" =>
             /\ w.job \notin purged \cup blind => <<w.job, w.item>> \in files
             /\ \/ w.item = Config /\ w.todo = {}
                \/ w.item \in w.todo /\ jobs[w.job].mode = "full"

\* The files a job names are there until someone deletes the run, unless libvirt
\* failed to write one unseen.
NamedIsThere ==
    \A j \in Jobs \ (purged \cup blurred \cup blind) : {j} \X jobs[j].files \subseteq files

\* A file that a synthetic job names is of a run that had ended and is there.
Settled(f) == f[1] \in purged \cup blurred \/ (f \in files /\ ~Alive(f[1]))

AdoptedIsThere ==
    \A f \in adopted : Settled(f)

\* What Reconcile has read: the listing shows what it lists of the runs that had
\* ended, and all of it; later its orphans are there and its ghosts are not.
ReadFits ==
    rec # Nil =>
        /\ rec.pc = "read" =>
             /\ \A f \in rec.listed : f[1] \in rec.alive \/ Settled(f)
             /\ \A j \in Jobs \ rec.alive : ~Alive(j)
             /\ \A f \in files : f[1] \in rec.alive \cup purged \cup blurred \/ f \in rec.listed
        /\ rec.pc = "adopt" =>
             /\ \A f \in rec.orphans : Settled(f)
             /\ \A f \in rec.ghosts : f[1] \in purged \cup blurred \cup blind

\* A record loses files only when someone deleted them, Reconcile was misled or
\* they never were there.
RecordsKept ==
    \A j \in Jobs : jobs[j].files # jobs[j].named => j \in purged \cup blurred \cup blind

\* A success names all that its run set out to write.
Complete ==
    \A j \in Jobs : jobs[j].status = "success" /\ j \notin purged \cup blurred \cup blind =>
        /\ jobs[j].mode = "full" => Config \in jobs[j].files
        /\ want[j] \subseteq jobs[j].files

\* Every copy of the chain records is grounded, but for the raced machines.
Grounded(es) == \A k \in DOMAIN es : es[k].parent = IF k = 1 THEN Nil ELSE es[k - 1].name
Sound(cs, R) == \A i \in DOMAIN cs : cs[i].vm \in R \/ Grounded(cs[i].entries)

CopiesGrounded ==
    /\ Sound(chains, raced)
    /\ w # Nil => Sound(w.loaded, raced)
    /\ \A p \in Pruners : Sound(prune[p].loaded, raced)
    /\ adm # Nil => Sound(adm.loaded, raced)

\* The records end in the parent that the backup was made against.
ParentIsTip ==
    w # Nil =>
        /\ w.phase \in {"backup", "load"} => w.item \in raced \/ Tip(chains, w.item) = w.parent
        /\ w.phase = "save" => w.item \in raced \/ Tip(w.loaded, w.item) = w.parent

-----------------------------------------------------------------------------
(* What the operators of the model return.                                   *)

\* A set of numbers that has a bound and is not empty has a greatest one.
LEMMA GreatestExists ==
    ASSUME NEW n \in Nat, NEW S \in SUBSET (1 .. n), S # {}
    PROVE  \E x \in S : \A y \in S : y <= x
<1> DEFINE T == {n - x : x \in S}
<1>1. T \in SUBSET Nat /\ T # {}
  <2>1. \A x \in S : n - x \in Nat
    OBVIOUS
  <2>2. PICK x \in S : TRUE
    OBVIOUS
  <2>3. n - x \in T
    OBVIOUS
  <2>4. QED
    BY <2>1, <2>3
<1>2. PICK t \in T : \A y \in T : ~(<<y, t>> \in OpToRel(<, Nat))
  <2> HIDE DEF T
  <2> QED BY <1>1, NatLessThanWellFounded, WFMin
<1>3. \A y \in T : ~(y < t)
  BY <1>1, <1>2 DEF OpToRel
<1>4. PICK x \in S : t = n - x
  OBVIOUS
<1>5. \A y \in S : y <= x
  <2> SUFFICES ASSUME NEW y \in S PROVE y <= x
    OBVIOUS
  <2>1. n - y \in T
    OBVIOUS
  <2>2. ~(n - y < n - x)
    BY <1>3, <1>4, <2>1
  <2>3. QED
    BY <2>2
<1>6. QED
  BY <1>5

\* The parts of a chain file.
LEMMA ChainParts ==
    ASSUME NEW cs \in ChainFile
    PROVE  /\ Len(cs) \in Nat /\ DOMAIN cs = 1 .. Len(cs)
           /\ cs \in Seq([vm : VMs, entries : Seq(EntryType)])
           /\ \A i \in DOMAIN cs : /\ cs[i] \in [vm : VMs, entries : Seq(EntryType)]
                                   /\ cs[i].vm \in VMs /\ cs[i].entries \in Seq(EntryType)
           /\ \A i, k \in DOMAIN cs : cs[i].vm = cs[k].vm => i = k
<1>1. cs \in Seq([vm : VMs, entries : Seq(EntryType)])
  BY DEF ChainFile
<1>2. Len(cs) \in Nat /\ DOMAIN cs = 1 .. Len(cs)
  BY <1>1
<1>3. \A i \in DOMAIN cs : cs[i] \in [vm : VMs, entries : Seq(EntryType)]
  BY <1>1, <1>2, ElementOfSeq
<1>4. \A i, k \in DOMAIN cs : cs[i].vm = cs[k].vm => i = k
  BY DEF ChainFile
<1>5. QED
  BY <1>1, <1>2, <1>3, <1>4

\* A file without chains.
LEMMA NoChains == <<>> \in ChainFile
BY DEF ChainFile

\* A machine's chain is where its index says, and nowhere else.
LEMMA EntriesAt ==
    ASSUME NEW cs \in ChainFile, NEW i \in DOMAIN cs
    PROVE  EntriesOf(cs, cs[i].vm) = cs[i].entries
<1>1. ChainIndex(cs, cs[i].vm) = {i}
  BY ChainParts DEF ChainIndex
<1>2. (CHOOSE k \in ChainIndex(cs, cs[i].vm) : TRUE) = i
  BY <1>1
<1>3. QED
  BY <1>1, <1>2 DEF EntriesOf

\* The last entry of a chain names a run.
LEMMA TipTyped ==
    ASSUME NEW cs \in ChainFile, NEW v \in VMs PROVE Tip(cs, v) \in Jobs \cup {Nil}
<1>1. EntriesOf(cs, v) \in Seq(EntryType)
  <2>1. CASE ChainIndex(cs, v) = {}
    BY <2>1 DEF EntriesOf
  <2>2. CASE ChainIndex(cs, v) # {}
    <3>1. PICK i \in DOMAIN cs : cs[i].vm = v
      BY <2>2 DEF ChainIndex
    <3>2. QED
      BY <3>1, EntriesAt, ChainParts
  <2>3. QED
    BY <2>1, <2>2
<1>2. CASE EntriesOf(cs, v) = <<>>
  BY <1>2 DEF Tip
<1>3. CASE EntriesOf(cs, v) # <<>>
  <2> DEFINE es == EntriesOf(cs, v)
  <2>1. es \in Seq(EntryType) /\ es # <<>>
    BY <1>1, <1>3
  <2>2. Tip(cs, v) = es[Len(es)].name
    BY <1>3 DEF Tip
  <2> HIDE DEF es
  <2>3. es[Len(es)] \in EntryType
    BY <2>1
  <2>4. QED
    BY <2>2, <2>3 DEF EntryType
<1>4. QED
  BY <1>2, <1>3

\* AppendEntry returns a chain file in which the entry is the last of its
\* machine's chain and the other chains are as they were.
LEMMA AppendedIs ==
    ASSUME NEW cs \in ChainFile, NEW v \in VMs, NEW e \in EntryType
    PROVE  /\ Appended(cs, v, e) \in ChainFile
           /\ \A k \in DOMAIN Appended(cs, v, e) :
                \/ k \in DOMAIN cs /\ cs[k].vm # v /\ Appended(cs, v, e)[k] = cs[k]
                \/ /\ k \in DOMAIN cs /\ cs[k].vm = v
                   /\ Appended(cs, v, e)[k] = [vm |-> v, entries |-> Append(cs[k].entries, e)]
                \/ /\ ChainIndex(cs, v) = {}
                   /\ Appended(cs, v, e)[k] = [vm |-> v, entries |-> <<e>>]
<1> DEFINE C == [vm : VMs, entries : Seq(EntryType)]
           a == Appended(cs, v, e)
<1>1. /\ Len(cs) \in Nat /\ DOMAIN cs = 1 .. Len(cs) /\ cs \in Seq(C)
      /\ \A i \in DOMAIN cs : cs[i] \in C /\ cs[i].entries \in Seq(EntryType)
      /\ \A i, k \in DOMAIN cs : cs[i].vm = cs[k].vm => i = k
  BY ChainParts
<1>2. CASE ChainIndex(cs, v) = {}
  <2> DEFINE c == [vm |-> v, entries |-> <<e>>]
  <2>1. a = Append(cs, c)
    BY <1>2 DEF Appended
  <2>2. c \in C /\ c.vm = v
    OBVIOUS
  <2>3. \A i \in DOMAIN cs : cs[i].vm # v
    BY <1>2 DEF ChainIndex
  <2> HIDE DEF c, a, C
  <2>4. /\ a \in Seq(C) /\ DOMAIN a = 1 .. Len(cs) + 1
        /\ \A k \in 1 .. Len(cs) : a[k] = cs[k]
        /\ a[Len(cs) + 1] = c
    BY <1>1, <2>1, <2>2
  <2>5. \A i, k \in DOMAIN a : a[i].vm = a[k].vm => i = k
    BY <1>1, <2>2, <2>3, <2>4
  <2>6. \A k \in DOMAIN a : \/ k \in DOMAIN cs /\ cs[k].vm # v /\ a[k] = cs[k]
                            \/ a[k] = c
    BY <1>1, <2>3, <2>4
  <2>7. a \in ChainFile
    BY <2>4, <2>5 DEF ChainFile, C
  <2>8. QED
    BY <1>2, <2>6, <2>7 DEF a, c
<1>3. CASE ChainIndex(cs, v) # {}
  <2>1. a = [i \in DOMAIN cs |->
              IF cs[i].vm = v THEN [vm |-> v, entries |-> Append(cs[i].entries, e)] ELSE cs[i]]
    BY <1>3 DEF Appended
  <2> HIDE DEF a
  <2>2. /\ DOMAIN a = 1 .. Len(cs)
        /\ \A k \in DOMAIN cs : a[k] = IF cs[k].vm = v
                                       THEN [vm |-> v, entries |-> Append(cs[k].entries, e)]
                                       ELSE cs[k]
    BY <1>1, <2>1
  <2>3. \A k \in DOMAIN cs : a[k] \in C
    <3> SUFFICES ASSUME NEW k \in DOMAIN cs PROVE a[k] \in C
      OBVIOUS
    <3>1. Append(cs[k].entries, e) \in Seq(EntryType)
      BY <1>1
    <3>2. [vm |-> v, entries |-> Append(cs[k].entries, e)] \in C
      BY <3>1
    <3> HIDE DEF C
    <3>3. QED
      BY <1>1, <2>2, <3>2
  <2>4. \A k \in DOMAIN cs : a[k].vm = cs[k].vm
    <3>1. \A k \in DOMAIN cs : [vm |-> v, entries |-> Append(cs[k].entries, e)].vm = v
      OBVIOUS
    <3>2. QED
      BY <2>2, <3>1
  <2>5. a \in Seq(C)
    <3>1. a = [k \in 1 .. Len(cs) |-> a[k]]
      BY <1>1, <2>1
    <3>2. QED
      BY <1>1, <2>2, <2>3, <3>1
  <2>6. a \in ChainFile
    BY <1>1, <2>2, <2>4, <2>5 DEF ChainFile
  <2>7. QED
    BY <1>1, <2>2, <2>6 DEF a
<1>4. QED
  BY <1>2, <1>3

\* DeleteChain returns a chain file with chains that were there.
LEMMA WithoutIs ==
    ASSUME NEW cs \in ChainFile, NEW v \in VMs, ChainIndex(cs, v) # {}
    PROVE  /\ Without(cs, v) \in ChainFile
           /\ \A k \in DOMAIN Without(cs, v) : \E i \in DOMAIN cs : Without(cs, v)[k] = cs[i]
<1> DEFINE C == [vm : VMs, entries : Seq(EntryType)]
           at == CHOOSE k \in ChainIndex(cs, v) : TRUE
           a == Without(cs, v)
<1>1. /\ Len(cs) \in Nat /\ DOMAIN cs = 1 .. Len(cs) /\ cs \in Seq(C)
      /\ \A i \in DOMAIN cs : cs[i] \in C
      /\ \A i, k \in DOMAIN cs : cs[i].vm = cs[k].vm => i = k
  BY ChainParts
<1>2. at \in 1 .. Len(cs)
  BY <1>1 DEF ChainIndex
<1>3. a = [k \in 1 .. Len(cs) - 1 |-> IF k < at THEN cs[k] ELSE cs[k + 1]]
  BY DEF Without
<1> HIDE DEF at, a, C
<1>4. Len(cs) - 1 \in Nat
  BY <1>1, <1>2
<1>5. DOMAIN a = 1 .. Len(cs) - 1
  BY <1>3
<1>6. \A k \in DOMAIN a : \E i \in DOMAIN cs : a[k] = cs[i] /\ i = IF k < at THEN k ELSE k + 1
  BY <1>1, <1>2, <1>3, <1>4, <1>5
<1>7. \A k \in DOMAIN a : a[k] \in C
  BY <1>1, <1>6
<1>8. a \in Seq(C)
  <2>1. a = [k \in 1 .. Len(cs) - 1 |-> a[k]]
    BY <1>3
  <2>2. QED
    BY <1>4, <1>5, <1>7, <2>1
<1>9. \A i, k \in DOMAIN a : a[i].vm = a[k].vm => i = k
  <2> SUFFICES ASSUME NEW i \in DOMAIN a, NEW k \in DOMAIN a, a[i].vm = a[k].vm PROVE i = k
    OBVIOUS
  <2>1. (IF i < at THEN i ELSE i + 1) = (IF k < at THEN k ELSE k + 1)
    BY <1>1, <1>6
  <2>2. i \in Nat /\ k \in Nat /\ at \in Nat
    BY <1>1, <1>2, <1>5
  <2>3. QED
    BY <2>1, <2>2
<1>10. QED
  BY <1>6, <1>8, <1>9 DEF ChainFile, a, C

\* An entry that names the last one keeps its chain grounded.
LEMMA AppendedSound ==
    ASSUME NEW cs \in ChainFile, NEW v \in VMs, NEW e \in EntryType, NEW R,
           Sound(cs, R), v \in R \/ Tip(cs, v) = e.parent
    PROVE  Sound(Appended(cs, v, e), R)
<1> DEFINE a == Appended(cs, v, e)
<1> SUFFICES ASSUME NEW k \in DOMAIN a, a[k].vm \notin R PROVE Grounded(a[k].entries)
  BY DEF Sound
<1>1. CASE k \in DOMAIN cs /\ cs[k].vm # v /\ a[k] = cs[k]
  BY <1>1 DEF Sound
<1>2. CASE /\ k \in DOMAIN cs /\ cs[k].vm = v
           /\ a[k] = [vm |-> v, entries |-> Append(cs[k].entries, e)]
  <2> DEFINE es == cs[k].entries
  <2>1. a[k].entries = Append(es, e) /\ v \notin R
    BY <1>2
  <2>2. es \in Seq(EntryType) /\ EntriesOf(cs, v) = es /\ Grounded(es)
    BY <1>2, <2>1, EntriesAt, ChainParts DEF Sound
  <2>3. e.parent = IF es = <<>> THEN Nil ELSE es[Len(es)].name
    BY <2>1, <2>2 DEF Tip
  <2> HIDE DEF es
  <2>4. /\ Len(es) \in Nat /\ DOMAIN es = 1 .. Len(es)
        /\ DOMAIN Append(es, e) = 1 .. Len(es) + 1
        /\ \A m \in 1 .. Len(es) : Append(es, e)[m] = es[m]
        /\ Append(es, e)[Len(es) + 1] = e
    BY <2>2
  <2>5. Len(es) = 0 => es = <<>>
    BY <2>2
  <2>6. Grounded(Append(es, e))
    BY <2>2, <2>3, <2>4, <2>5 DEF Grounded
  <2>7. QED
    BY <2>1, <2>6
<1>3. CASE ChainIndex(cs, v) = {} /\ a[k] = [vm |-> v, entries |-> <<e>>]
  <2>1. EntriesOf(cs, v) = <<>>
    BY <1>3 DEF EntriesOf
  <2>2. e.parent = Nil
    BY <1>3, <2>1 DEF Tip
  <2>3. DOMAIN <<e>> = {1} /\ <<e>>[1] = e
    OBVIOUS
  <2>4. Grounded(<<e>>)
    BY <2>2, <2>3 DEF Grounded
  <2>5. QED
    BY <1>3, <2>4
<1>4. QED
  BY <1>1, <1>2, <1>3, AppendedIs

\* The chains that DeleteChain leaves are the ones that were there.
LEMMA WithoutSound ==
    ASSUME NEW cs \in ChainFile, NEW v \in VMs, ChainIndex(cs, v) # {}, NEW R, Sound(cs, R)
    PROVE  Sound(Without(cs, v), R)
BY WithoutIs DEF Sound

\* The machines whose chains a pass drops.
LEMMA DeadTyped ==
    ASSUME NEW cs \in ChainFile, NEW keep PROVE chainAllDelete(cs, keep) \in SUBSET VMs
<1>1. \A r \in ChainRunSet(cs) : chainRuns(cs)[r] \in VMs
  <2> SUFFICES ASSUME NEW r \in ChainRunSet(cs) PROVE chainRuns(cs)[r] \in VMs
    OBVIOUS
  <2> DEFINE S == {i \in DOMAIN cs : r \in EntryRuns(cs[i])}
             Last(i) == /\ r \in EntryRuns(cs[i])
                        /\ \A k \in DOMAIN cs : k > i => r \notin EntryRuns(cs[k])
  <2>1. S # {} /\ S \in SUBSET (1 .. Len(cs)) /\ Len(cs) \in Nat
    BY ChainParts DEF ChainRunSet
  <2>2. PICK x \in S : \A y \in S : y <= x
    <3> HIDE DEF S
    <3> QED BY <2>1, GreatestExists
  <2>3. \A k \in DOMAIN cs : k > x => k \notin S
    BY <2>1, <2>2, ChainParts
  <2>4. x \in DOMAIN cs /\ Last(x)
    BY <2>2, <2>3
  <2>5. (CHOOSE i \in DOMAIN cs : Last(i)) \in DOMAIN cs
    BY <2>4
  <2>6. chainRuns(cs)[r] = cs[CHOOSE i \in DOMAIN cs : Last(i)].vm
    BY DEF chainRuns
  <2>7. QED
    BY <2>5, <2>6, ChainParts
<1>2. DOMAIN chainRuns(cs) = ChainRunSet(cs)
  BY DEF chainRuns
<1>3. QED
  BY <1>1, <1>2 DEF chainAllDelete

\* Jobs are finitely many.
LEMMA JobsFinite == IsFiniteSet(Jobs) /\ Cardinality(Jobs) = MaxJobs
<1>1. 1 \in Int /\ MaxJobs \in Int /\ ~(1 > MaxJobs) /\ MaxJobs - 1 + 1 = MaxJobs
  BY BackupConstants
<1>2. QED
  BY <1>1, FS_Interval DEF Jobs

\* A run that starts gets the next time.
LEMMA ClockTicks ==
    ASSUME NEW t \in [Jobs -> 0 .. MaxJobs], NEW j \in Jobs, t[j] = 0, NEW n \in Nat \ {0}
    PROVE  LET started == {i \in Jobs : t[i] > 0}
               u == [t EXCEPT ![j] = n] IN
           /\ Cardinality(started) \in Nat /\ Cardinality(started) + 1 <= MaxJobs
           /\ Cardinality({i \in Jobs : u[i] > 0}) = Cardinality(started) + 1
<1> DEFINE S == {i \in Jobs : t[i] > 0}
           u == [t EXCEPT ![j] = n]
           T == {i \in Jobs : u[i] > 0}
<1>1. T = S \cup {j} /\ j \notin S /\ S \in SUBSET Jobs /\ T \in SUBSET Jobs
  OBVIOUS
<1> HIDE DEF S, T
<1>2. IsFiniteSet(S) /\ Cardinality(S) \in Nat
  BY <1>1, JobsFinite, FS_Subset, FS_CardinalityType
<1>3. Cardinality(T) = Cardinality(S) + 1
  BY <1>1, <1>2, FS_AddElement
<1>4. Cardinality(T) <= MaxJobs
  BY <1>1, JobsFinite, FS_Subset
<1>5. QED
  BY <1>2, <1>3, <1>4 DEF S, T

-----------------------------------------------------------------------------
(* What the steps of a run do.                                               *)

\* The parts of a run, and of the job it belongs to.
LEMMA RunParts ==
    ASSUME TypeOK, w # Nil
    PROVE  /\ w \in RunType /\ w.job \in Jobs /\ w.todo \in SUBSET VMs /\ w.done \in SUBSET VMs
           /\ w.phase \in {"next", "archive", "backup", "load", "save"}
           /\ w.item \in Items \cup {Nil} /\ w.parent \in Jobs \cup {Nil}
           /\ w.loaded \in ChainFile
BY DEF TypeOK, RunType

\* The run that holds the mutex is now here.
RunMoves(phase, item, todo, done, parent, loaded) ==
    /\ w' \in RunType /\ w'.job = w.job /\ w'.phase = phase /\ w'.item = item
    /\ w'.todo = todo /\ w'.done = done /\ w'.parent = parent /\ w'.loaded = loaded
    /\ w # Nil /\ w \in RunType

\* It has ended, and its job names these files.
RunEnds(status, names) ==
    /\ w' = Nil /\ jobs' \in [Jobs -> JobType]
    /\ w # Nil /\ w \in RunType /\ w.job \in Jobs
    /\ \A j \in Jobs \ {w.job} : jobs'[j] = jobs[j]
    /\ jobs'[w.job].status = status /\ jobs'[w.job].files = names /\ jobs'[w.job].named = names
    /\ jobs'[w.job].mode = jobs[w.job].mode

\* The job's last update.
LEMMA EndRunIs ==
    ASSUME TypeOK, w # Nil, NEW status \in {"success", "error"}, NEW names \in SUBSET Items,
           EndRun(status, names)
    PROVE  RunEnds(status, names)
<1>1. w \in RunType /\ w.job \in Jobs /\ jobs \in [Jobs -> JobType] /\ jobs[w.job] \in JobType
  BY RunParts DEF TypeOK
<1>2. jobs' = [jobs EXCEPT ![w.job] =
        [status |-> status, scope |-> jobs[w.job].scope, mode |-> jobs[w.job].mode,
         files |-> names, named |-> names]]
  BY DEF EndRun
<1>3. [status |-> status, scope |-> jobs[w.job].scope, mode |-> jobs[w.job].mode,
       files |-> names, named |-> names] \in JobType
  BY <1>1 DEF JobType
<1>4. /\ jobs' \in [Jobs -> JobType] /\ \A j \in Jobs \ {w.job} : jobs'[j] = jobs[j]
      /\ jobs'[w.job] = [status |-> status, scope |-> jobs[w.job].scope,
                         mode |-> jobs[w.job].mode, files |-> names, named |-> names]
  BY <1>1, <1>2, <1>3
<1>5. QED
  BY <1>1, <1>4 DEF EndRun, RunEnds

\* Counters stay within the behaviour's mix.
LEMMA FaultIs ==
    ASSUME TypeOK PROVE /\ Fault => faults' \in 0 .. mix.faults
                        /\ \A b : FaultIf(b) => faults' \in 0 .. mix.faults
<1>1. mix.faults \in Nat /\ faults \in 0 .. mix.faults
  BY BackupConstants DEF TypeOK
<1>2. Fault => faults' \in 0 .. mix.faults
  BY <1>1 DEF Fault
<1>3. QED
  BY <1>1, <1>2 DEF FaultIf

\* A job that is recorded is running, and waits for the mutex if it is logged.
LEMMA RecordJobIs ==
    ASSUME TypeOK, NEW j \in Jobs, NEW s \in VMs \cup {Nil}, NEW m \in Modes, NEW b \in BOOLEAN,
             RecordJob(j, s, m, b)
    PROVE  /\ jobs' \in [Jobs -> JobType] /\ \A k \in Jobs \ {j} : jobs'[k] = jobs[k]
           /\ jobs[j].status = "none" /\ jobs'[j].status = "running"
           /\ jobs'[j].files = {} /\ jobs'[j].named = {}
           /\ \/ queue' = queue \cup {j} /\ unlogged' = unlogged
              \/ queue' = queue /\ unlogged' = unlogged \cup {j}
           /\ up /\ faults' \in 0 .. mix.faults
           /\ UNCHANGED <<shared, mix, up, deletes, reconciles, w, time, files,
                          chains, ckpts,
                          prune, adm, rec, adopted, purged, raced, want, blurred, blind>>
<1> DEFINE new == [status |-> "running", scope |-> s, mode |-> m, files |-> {}, named |-> {}]
<1>1. new \in JobType
  BY BackupConstants DEF JobType
<1>2. jobs \in [Jobs -> JobType]
  BY DEF TypeOK
<1>3. jobs' = [jobs EXCEPT ![j] = new]
  BY DEF RecordJob
<1>4. new.status = "running" /\ new.files = {} /\ new.named = {}
  OBVIOUS
<1> HIDE DEF new
<1>5. jobs' \in [Jobs -> JobType] /\ jobs'[j] = new /\ \A k \in Jobs \ {j} : jobs'[k] = jobs[k]
  BY <1>1, <1>2, <1>3
<1>6. faults' \in 0 .. mix.faults
  BY FaultIs DEF RecordJob
<1>7. QED
  BY <1>4, <1>5, <1>6 DEF RecordJob, records, requests

\* A run starts after all the others, with everything still to be written.
LEMMA StartRunIs ==
    ASSUME TypeOK, RunsOrdered, NEW j \in Jobs, NEW s \in SUBSET VMs, StartRun(j, s)
    PROVE  /\ w' \in RunType /\ w'.job = j /\ w'.todo = s /\ w'.done = {} /\ w'.phase = "next"
           /\ w'.item = Nil /\ w'.loaded = <<>>
           /\ w = Nil /\ j \in queue /\ queue' = queue \ {j} /\ time[j] = 0
           /\ time' \in [Jobs -> 0 .. MaxJobs] /\ \A k \in Jobs \ {j} : time'[k] = time[k]
           /\ time'[j] = Clock + 1 /\ Clock' = Clock + 1 /\ Clock \in Nat
           /\ want' \in [Jobs -> SUBSET VMs] /\ want'[j] = s
           /\ \A k \in Jobs \ {j} : want'[k] = want[k]
           /\ UNCHANGED <<shared, mix, up, faults, deletes, reconciles, jobs, files, chains,
                          ckpts,
                          prune, adm, rec, adopted, purged, raced, blurred, blind, unlogged>>
<1>1. /\ w = Nil /\ j \in queue /\ queue' = queue \ {j} /\ time[j] = 0
      /\ UNCHANGED <<shared, mix, up, faults, deletes, reconciles, jobs, files, chains, ckpts,
                     prune, adm, rec, adopted, purged, raced, blurred, blind, unlogged>>
  BY DEF StartRun, RunsOrdered, env, records, requests
<1>2. time \in [Jobs -> 0 .. MaxJobs] /\ want \in [Jobs -> SUBSET VMs]
  BY DEF TypeOK
<1>3. time' = [time EXCEPT ![j] = Clock + 1] /\ want' = [want EXCEPT ![j] = s]
  BY DEF StartRun
<1>4. Clock \in Nat /\ Clock + 1 <= MaxJobs
  <2>1. 1 \in Nat \ {0}
    OBVIOUS
  <2>2. QED
    BY <1>1, <1>2, <2>1, ClockTicks DEF Clock
<1>5. Clock' = Clock + 1
  <2> DEFINE n == Clock + 1
  <2>1. n \in Nat \ {0}
    BY <1>4
  <2>2. Clock' = Cardinality({i \in Jobs : [time EXCEPT ![j] = n][i] > 0})
    BY <1>3 DEF Clock
  <2> HIDE DEF n
  <2>3. Cardinality({i \in Jobs : [time EXCEPT ![j] = n][i] > 0})
          = Cardinality({i \in Jobs : time[i] > 0}) + 1
    BY <1>1, <1>2, <2>1, ClockTicks
  <2>4. QED
    BY <2>2, <2>3 DEF Clock
<1>6. time' \in [Jobs -> 0 .. MaxJobs] /\ time'[j] = Clock + 1
      /\ \A k \in Jobs \ {j} : time'[k] = time[k]
  <2>1. Clock + 1 \in 0 .. MaxJobs
    BY <1>4, BackupConstants
  <2>2. QED
    BY <1>2, <1>3, <2>1
<1>7. /\ want' \in [Jobs -> SUBSET VMs] /\ want'[j] = s
      /\ \A k \in Jobs \ {j} : want'[k] = want[k]
  BY <1>2, <1>3
<1>8. w' = [job |-> j, todo |-> s, done |-> {}, phase |-> "next",
             item |-> Nil, parent |-> Nil, loaded |-> <<>>]
  BY DEF StartRun
<1>9. /\ w' \in RunType /\ w'.job = j /\ w'.todo = s /\ w'.done = {} /\ w'.phase = "next"
      /\ w'.item = Nil /\ w'.loaded = <<>>
  BY <1>8, NoChains DEF RunType
<1>10. QED
  BY <1>1, <1>4, <1>5, <1>6, <1>7, <1>9

\* A file appears, of a machine that is still to be written or the last one.
LEMMA CreateArchiveIs ==
    ASSUME TypeOK, NEW i \in Items, CreateArchive(i)
    PROVE  /\ RunMoves("archive", i, w.todo, w.done, w.parent, w.loaded) /\ w.phase = "next"
           /\ \/ w.todo = {} /\ i = Config
              \/ i \in w.todo /\ jobs[w.job].mode # "incremental"
           /\ files' = files \cup {<<w.job, i>>}
           /\ UNCHANGED <<shared, mix, up, faults, deletes, reconciles, jobs, queue, time,
                          chains, ckpts,
                          prune, adm, rec, adopted, purged, raced, want, blurred, blind, unlogged>>
<1>1. RunMoves("archive", i, w.todo, w.done, w.parent, w.loaded)
  BY RunParts DEF CreateArchive, Writing, RunMoves, RunType
<1>2. QED
  BY <1>1 DEF CreateArchive, Writing, Incremental, env, records, requests, seen

\* It is complete, and with the configuration archive the run is.
LEMMA FinishArchiveIs ==
    ASSUME TypeOK, RunFits, FinishArchive
    PROVE  /\ \/ /\ w.item = Config /\ RunEnds("success", w.done \cup {Config})
              \/ /\ w.item # Config /\ UNCHANGED jobs
                 /\ RunMoves("next", Nil, w.todo \ {w.item}, w.done \cup {w.item},
                             w.parent, w.loaded)
           /\ w.phase = "archive"
           /\ UNCHANGED <<shared, mix, up, faults, deletes, reconciles, queue, time, files,
                          chains,
                          ckpts, prune, adm, rec, adopted, purged, raced, want, blurred, blind, unlogged>>
<1>1. w # Nil /\ w.phase = "archive"
  BY DEF FinishArchive, Writing
<1>2. CASE w.item = Config
  <2>1. w.done \cup {Config} \in SUBSET Items /\ EndRun("success", w.done \cup {Config})
    BY <1>1, <1>2, RunParts DEF FinishArchive, Items
  <2>2. QED
    BY <1>1, <1>2, <2>1, EndRunIs DEF FinishArchive, env, records, requests, seen
<1>3. CASE w.item # Config
  <2>1. w.item \in VMs
    BY <1>1, <1>3, RunParts DEF RunFits
  <2>2. RunMoves("next", Nil, w.todo \ {w.item}, w.done \cup {w.item}, w.parent, w.loaded)
    <3>1. w' = [w EXCEPT !.phase = "next", !.item = Nil, !.todo = w.todo \ {w.item},
                         !.done = w.done \cup {w.item}]
      BY <1>3 DEF FinishArchive
    <3>2. w.todo \ {w.item} \in SUBSET VMs /\ w.done \cup {w.item} \in SUBSET VMs
      BY <1>1, <2>1, RunParts
    <3>3. w' \in RunType
      BY <1>1, <3>1, <3>2, RunParts DEF RunType
    <3>4. QED
      BY <1>1, <3>1, <3>3, RunParts DEF RunMoves, RunType
  <2>3. QED
    BY <1>1, <1>3, <2>2 DEF FinishArchive, env, records, requests, seen
<1>4. QED
  BY <1>2, <1>3

\* A full run takes the file away and ends in error; an incremental one fails
\* with its last file and succeeds without it.
LEMMA FailArchiveIs ==
    ASSUME TypeOK, FailArchive
    PROVE  /\ \/ jobs[w.job].mode = "incremental" /\ RunEnds("success", w.done) /\ UNCHANGED files
              \/ /\ files' = files \ {<<w.job, w.item>>}
                 /\ \E names \in {w.done, {}} : RunEnds("error", names)
           /\ w.phase = "archive" /\ faults' \in 0 .. mix.faults
           /\ UNCHANGED <<shared, mix, up, deletes, reconciles, queue, time, chains,
                          ckpts, prune, adm, rec, adopted, purged, raced, want, blurred, blind, unlogged>>
<1>1. w # Nil /\ w.phase = "archive"
  BY DEF FailArchive, Writing
<1>2. w.done \in SUBSET Items /\ {} \in SUBSET Items
  BY <1>1, RunParts DEF Items
<1>3. /\ EndRun("success", w.done) => RunEnds("success", w.done)
      /\ EndRun("error", w.done) => RunEnds("error", w.done)
      /\ EndRun("error", {}) => RunEnds("error", {})
  BY <1>1, <1>2, EndRunIs
<1>4. faults' \in 0 .. mix.faults
  BY FaultIs DEF FailArchive
<1>5. QED
  BY <1>1, <1>3, <1>4 DEF FailArchive, Incremental, records, requests, seen

\* A run that fails between two files names what it wrote, or nothing.
LEMMA FailRunIs ==
    ASSUME TypeOK, FailRun
    PROVE  /\ \E names \in {w.done, {}} : RunEnds("error", names)
           /\ w.phase = "next" /\ faults' \in 0 .. mix.faults
           /\ UNCHANGED <<shared, mix, up, deletes, reconciles, queue, time, files, chains,
                          ckpts, prune, adm, rec, adopted, purged, raced, want, blurred, blind, unlogged>>
<1>1. w # Nil /\ w.phase = "next"
  BY DEF FailRun, Writing
<1>2. w.done \in SUBSET Items /\ {} \in SUBSET Items
  BY <1>1, RunParts DEF Items
<1>3. /\ EndRun("error", w.done) => RunEnds("error", w.done)
      /\ EndRun("error", {}) => RunEnds("error", {})
  BY <1>1, <1>2, EndRunIs
<1>4. faults' \in 0 .. mix.faults
  BY FaultIs DEF FailRun
<1>5. QED
  BY <1>1, <1>3, <1>4 DEF FailRun, records, requests, seen

\* The parent is the last entry of the chain, or the chain could not be read.
LEMMA ReadParentIs ==
    ASSUME TypeOK, NEW v \in VMs, NEW b \in BOOLEAN, ReadParent(v, b)
    PROVE  /\ \E parent \in {Tip(chains, v), Nil} :
                /\ RunMoves("backup", v, w.todo, w.done, parent, w.loaded)
                /\ v \in raced' \/ parent = Tip(chains, v)
           /\ w.phase = "next" /\ v \in w.todo
           /\ raced \subseteq raced' /\ raced' \subseteq VMs /\ faults' \in 0 .. mix.faults
           /\ UNCHANGED <<shared, mix, up, deletes, reconciles, jobs, queue, time, files, chains,
                          ckpts, prune, adm, rec, adopted, purged, want, blurred, blind, unlogged>>
<1> DEFINE parent == IF b THEN Tip(chains, v) ELSE Nil
<1>1. parent \in Jobs \cup {Nil} /\ parent \in {Tip(chains, v), Nil}
  BY TipTyped DEF TypeOK
<1>2. RunMoves("backup", v, w.todo, w.done, parent, w.loaded)
  <2>1. w' = [w EXCEPT !.phase = "backup", !.item = v, !.parent = parent]
    BY DEF ReadParent
  <2> HIDE DEF parent
  <2>2. QED
    BY <1>1, <2>1, RunParts DEF ReadParent, Writing, RunMoves, RunType, Items
<1>3. raced' = raced \cup (IF b \/ Tip(chains, v) = Nil THEN {} ELSE {v})
  BY DEF ReadParent
<1>4. v \in raced' \/ parent = Tip(chains, v)
  BY <1>3
<1>5. raced \subseteq raced' /\ raced' \subseteq VMs
  BY <1>3 DEF TypeOK
<1>6. faults' \in 0 .. mix.faults
  BY FaultIs DEF ReadParent
<1> HIDE DEF parent
<1>7. QED
  BY <1>1, <1>2, <1>4, <1>5, <1>6 DEF ReadParent, Writing, records, requests

\* Libvirt adds at most the increment and its checkpoint.
LEMMA PushBackupIs ==
    ASSUME TypeOK, w # Nil, w.item \in VMs, PushBackup
    PROVE  files' = files \cup {<<w.job, w.item>>} /\ ckpts' \in [VMs -> SUBSET Jobs]
BY RunParts DEF PushBackup, TypeOK

\* The increment is on the target.
LEMMA BeginBackupIs ==
    ASSUME TypeOK, RunFits, BeginBackup
    PROVE  /\ RunMoves("load", w.item, w.todo, w.done \cup {w.item}, w.parent, w.loaded)
           /\ w.phase = "backup" /\ files' = files \cup {<<w.job, w.item>>}
           /\ ckpts' \in [VMs -> SUBSET Jobs]
           /\ UNCHANGED <<shared, mix, up, faults, deletes, reconciles, jobs, queue, time, chains,
                          prune, adm, rec, adopted, purged, raced, want, blurred, blind, unlogged>>
<1>1. w # Nil /\ w.phase = "backup" /\ w.item \in VMs
  BY DEF BeginBackup, Writing, RunFits
<1>2. RunMoves("load", w.item, w.todo, w.done \cup {w.item}, w.parent, w.loaded)
  BY <1>1, RunParts DEF BeginBackup, RunMoves, RunType
<1>3. QED
  BY <1>1, <1>2, PushBackupIs DEF BeginBackup, env, requests, seen

\* Or it is not, or not all of it, and the run goes on blindly.
LEMMA BackupUnseenIs ==
    ASSUME TypeOK, RunFits, NEW b \in BOOLEAN, BackupUnseen(b)
    PROVE  /\ RunMoves("load", w.item, w.todo, w.done \cup {w.item}, w.parent, w.loaded)
           /\ w.phase = "backup" /\ blind' = blind \cup {w.job}
           /\ files' = files \/ files' = files \cup {<<w.job, w.item>>}
           /\ ckpts' \in [VMs -> SUBSET Jobs] /\ faults' \in 0 .. mix.faults
           /\ UNCHANGED <<shared, mix, up, deletes, reconciles, jobs, queue, time, chains,
                          prune, adm, rec, adopted, purged, raced, want, blurred, unlogged>>
<1>1. w # Nil /\ w.phase = "backup" /\ w.item \in VMs
  BY DEF BackupUnseen, Writing, RunFits
<1>2. RunMoves("load", w.item, w.todo, w.done \cup {w.item}, w.parent, w.loaded)
  BY <1>1, RunParts DEF BackupUnseen, RunMoves, RunType
<1>3. ckpts' \in [VMs -> SUBSET Jobs]
  BY <1>1, RunParts DEF BackupUnseen, TypeOK
<1>4. faults' \in 0 .. mix.faults
  BY FaultIs DEF BackupUnseen
<1>5. QED
  BY <1>1, <1>2, <1>3, <1>4 DEF BackupUnseen, requests

\* Or it may be, although the run ends in error.
LEMMA BeginBackupFailsIs ==
    ASSUME TypeOK, RunFits, BeginBackupFails
    PROVE  /\ RunEnds("error", w.done) /\ w.phase = "backup"
           /\ files' = files \/ files' = files \cup {<<w.job, w.item>>}
           /\ ckpts' \in [VMs -> SUBSET Jobs] /\ faults' \in 0 .. mix.faults
           /\ UNCHANGED <<shared, mix, up, deletes, reconciles, queue, time, chains,
                          prune, adm, rec, adopted, purged, raced, want, blurred, blind, unlogged>>
<1>1. w # Nil /\ w.phase = "backup" /\ w.item \in VMs
  BY DEF BeginBackupFails, Writing, RunFits
<1>2. w.done \in SUBSET Items
  BY <1>1, RunParts DEF Items
<1>3. RunEnds("error", w.done)
  BY <1>1, <1>2, EndRunIs DEF BeginBackupFails
<1>4. faults' \in 0 .. mix.faults
  BY FaultIs DEF BeginBackupFails
<1>5. /\ files' = files \/ files' = files \cup {<<w.job, w.item>>}
      /\ ckpts' \in [VMs -> SUBSET Jobs]
  BY <1>1, PushBackupIs DEF BeginBackupFails, TypeOK
<1>6. QED
  BY <1>1, <1>3, <1>4, <1>5 DEF BeginBackupFails, requests, seen

\* The chain records as they are now ...
LEMMA AppendLoadIs ==
    ASSUME TypeOK, AppendLoad
    PROVE  /\ RunMoves("save", w.item, w.todo, w.done, w.parent, chains) /\ w.phase = "load"
           /\ UNCHANGED <<shared, mix, up, faults, deletes, reconciles, jobs, queue, time,
                          files, chains,
                          ckpts, prune, adm, rec, adopted, purged, raced, want, blurred, blind, unlogged>>
<1>1. chains \in ChainFile
  BY DEF TypeOK
<1>2. RunMoves("save", w.item, w.todo, w.done, w.parent, chains)
  BY <1>1, RunParts DEF AppendLoad, Writing, RunMoves, RunType
<1>3. QED
  BY <1>2 DEF AppendLoad, Writing, env, records, requests, seen

\* ... are saved with the entry of this increment, or not at all.
LEMMA AppendSaveIs ==
    ASSUME TypeOK, RunFits, NEW b \in BOOLEAN, AppendSave(b)
    PROVE  /\ RunMoves("next", Nil, w.todo \ {w.item}, w.done, Nil, <<>>) /\ w.phase = "save"
           /\ chains' = chains \/ chains' = Appended(w.loaded, w.item, Entry(w.job, w.parent))
           /\ chains' \in ChainFile /\ faults' \in 0 .. mix.faults
           /\ Entry(w.job, w.parent) \in EntryType /\ Entry(w.job, w.parent).parent = w.parent
           /\ UNCHANGED <<shared, mix, up, deletes, reconciles, jobs, queue, time, files, ckpts,
                          prune, adm, rec, adopted, purged, raced, want, blurred, blind, unlogged>>
<1>1. w # Nil /\ w.phase = "save" /\ w.item \in VMs
  BY DEF AppendSave, Writing, RunFits
<1>2. Entry(w.job, w.parent) \in EntryType /\ Entry(w.job, w.parent).parent = w.parent
  BY <1>1, RunParts DEF Entry, EntryType
<1>3. chains' = chains \/ chains' = Appended(w.loaded, w.item, Entry(w.job, w.parent))
  BY DEF AppendSave
<1>4. chains' \in ChainFile
  BY <1>1, <1>2, <1>3, RunParts, AppendedIs DEF TypeOK
<1>5. faults' \in 0 .. mix.faults
  BY FaultIs DEF AppendSave
<1>6. RunMoves("next", Nil, w.todo \ {w.item}, w.done, Nil, <<>>)
  BY <1>1, RunParts, NoChains DEF AppendSave, RunMoves, RunType
<1>7. QED
  BY <1>1, <1>2, <1>3, <1>4, <1>5, <1>6 DEF AppendSave, requests, seen

-----------------------------------------------------------------------------
(* What the steps of retention, of the operator and of Reconcile do.         *)

\* A pass p is now here; the others are unchanged.
PassMoves(p, pc, runs, dead, loaded) ==
    /\ prune' \in [Pruners -> PassType] /\ \A q \in Pruners \ {p} : prune'[q] = prune[q]
    /\ prune'[p].pc = pc /\ prune'[p].runs = runs /\ prune'[p].dead = dead
    /\ prune'[p].loaded = loaded

\* The parts of a pass.
LEMMA PassParts ==
    ASSUME TypeOK, NEW p \in Pruners
    PROVE  /\ prune[p] \in PassType /\ prune[p].runs \in SUBSET Jobs
           /\ prune[p].dead \in SUBSET VMs /\ prune[p].loaded \in ChainFile
BY DEF TypeOK, PassType

\* A pass is put together from its parts.
LEMMA PassIs ==
    ASSUME TypeOK, NEW p \in Pruners, NEW pc \in {"idle", "decide", "delete", "drop"},
           NEW runs \in SUBSET Jobs, NEW dead \in SUBSET VMs, NEW loaded \in ChainFile,
           prune' = [prune EXCEPT ![p] = Pass(pc, runs, dead, loaded)]
    PROVE  PassMoves(p, pc, runs, dead, loaded)
<1>1. /\ Pass(pc, runs, dead, loaded) \in PassType
      /\ Pass(pc, runs, dead, loaded).pc = pc /\ Pass(pc, runs, dead, loaded).runs = runs
      /\ Pass(pc, runs, dead, loaded).dead = dead /\ Pass(pc, runs, dead, loaded).loaded = loaded
  BY DEF Pass, PassType
<1>2. QED
  BY <1>1 DEF TypeOK, PassMoves

\* A pass lists the runs that have files on the target.
LEMMA PruneListIs ==
    ASSUME TypeOK, NEW p \in Pruners, PruneList(p)
    PROVE  /\ PassMoves(p, "decide", OnTarget, {}, <<>>)
           /\ UNCHANGED <<shared, mix, up, faults, deletes, reconciles, jobs, queue, w, time,
                          files, chains,
                          ckpts, adm, rec, adopted, purged, raced, want, blurred, blind, unlogged>>
<1>1. OnTarget \in SUBSET Jobs /\ {} \in SUBSET VMs
  BY DEF OnTarget, TypeOK, Files
<1>2. PassMoves(p, "decide", OnTarget, {}, <<>>)
  BY <1>1, PassIs, NoChains DEF PruneList
<1>3. QED
  BY <1>2 DEF PruneList, env, runner, records, seen

\* The decision deletes runs that were listed and that no rule keeps.
LEMMA PruneDecideIs ==
    ASSUME TypeOK, NEW p \in Pruners, NEW b \in BOOLEAN, PruneDecide(p, b)
    PROVE  /\ \E runs \in SUBSET (prune[p].runs \ Keep(prune[p].runs)), dead \in SUBSET VMs :
                PassMoves(p, "delete", runs, dead, <<>>)
           /\ prune[p].pc = "decide" /\ faults' \in 0 .. mix.faults
           /\ UNCHANGED <<shared, mix, up, deletes, reconciles, jobs, queue, w, time,
                          files, chains,
                          ckpts, adm, rec, adopted, purged, raced, want, blurred, blind, unlogged>>
<1> DEFINE keep == Keep(prune[p].runs)
           cs == IF b THEN RetentionChains ELSE <<>>
           runs == Doomed(prune[p].runs, keep, cs)
           dead == chainAllDelete(cs, keep)
<1>1. cs \in ChainFile
  BY NoChains DEF RetentionChains, TypeOK
<1>2. dead \in SUBSET VMs
  BY <1>1, DeadTyped
<1>3. runs \in SUBSET (prune[p].runs \ keep)
  BY DEF Doomed
<1>4. prune' = [prune EXCEPT ![p] = Pass("delete", runs, dead, <<>>)]
  BY DEF PruneDecide
<1> HIDE DEF keep, runs, dead
<1>5. runs \in SUBSET Jobs
  BY <1>3, PassParts
<1>6. PassMoves(p, "delete", runs, dead, <<>>)
  BY <1>2, <1>4, <1>5, PassIs, NoChains
<1>7. faults' \in 0 .. mix.faults
  BY FaultIs DEF PruneDecide
<1>8. QED
  BY <1>2, <1>3, <1>6, <1>7 DEF PruneDecide, runner, records, seen, keep

\* A run loses files only after it was marked as purged.
LEMMA PruneDeleteIs ==
    ASSUME TypeOK, NEW p \in Pruners, NEW r \in Jobs, NEW left \in SUBSET FilesOf(r),
           PruneDelete(p, r, left)
    PROVE  /\ PassMoves(p, "delete", prune[p].runs \ {r}, prune[p].dead, <<>>)
           /\ prune[p].pc = "delete"
           /\ files' \subseteq files /\ \A f \in files : f \in files' \/ f[1] = r
           /\ purged' = purged \cup {r} /\ faults' \in 0 .. mix.faults
           /\ UNCHANGED <<shared, mix, up, deletes, reconciles, jobs, queue, w, time, chains,
                          ckpts, adm, rec, adopted, raced, want, blurred, blind, unlogged>>
<1>1. prune[p].runs \ {r} \in SUBSET Jobs /\ prune[p].dead \in SUBSET VMs
  BY PassParts
<1>2. PassMoves(p, "delete", prune[p].runs \ {r}, prune[p].dead, <<>>)
  BY <1>1, PassIs, NoChains DEF PruneDelete
<1>3. files' \subseteq files /\ \A f \in files : f \in files' \/ f[1] = r
  BY DEF PruneDelete, FilesOf
<1>4. faults' \in 0 .. mix.faults
  BY FaultIs DEF PruneDelete
<1>5. QED
  BY <1>2, <1>3, <1>4 DEF PruneDelete, runner, records

\* A pass ends, or loads the chain records.
LEMMA PruneLoadIs ==
    ASSUME TypeOK, NEW p \in Pruners, PruneLoad(p)
    PROVE  /\ \/ PassMoves(p, "idle", {}, {}, <<>>)
              \/ PassMoves(p, "drop", {}, prune[p].dead, chains)
           /\ UNCHANGED <<shared, mix, up, faults, deletes, reconciles, jobs, queue, w, time,
                          files, chains,
                          ckpts, adm, rec, adopted, purged, raced, want, blurred, blind, unlogged>>
<1>1. /\ {} \in SUBSET Jobs /\ {} \in SUBSET VMs /\ prune[p].dead \in SUBSET VMs
      /\ chains \in ChainFile
  BY PassParts DEF TypeOK
<1>2. \/ prune' = [prune EXCEPT ![p] = Pass("idle", {}, {}, <<>>)]
      \/ prune' = [prune EXCEPT ![p] = Pass("drop", {}, prune[p].dead, chains)]
  BY DEF PruneLoad, IdlePass
<1>3. \/ PassMoves(p, "idle", {}, {}, <<>>) \/ PassMoves(p, "drop", {}, prune[p].dead, chains)
  BY <1>1, <1>2, PassIs, NoChains
<1>4. QED
  BY <1>3 DEF PruneLoad, env, runner, records, seen

\* DeleteChain saves what it loaded without one chain, and notes whether the
\* backup under way has lost its parent.
LEMMA PruneDropIs ==
    ASSUME TypeOK, NEW p \in Pruners, NEW v \in VMs, NEW b \in BOOLEAN, PruneDrop(p, v, b)
    PROVE  /\ PassMoves(p, "delete", {}, prune[p].dead \ {v}, <<>>)
           /\ \/ chains' = chains
              \/ /\ ChainIndex(prune[p].loaded, v) # {}
                 /\ chains' = Without(prune[p].loaded, v)
           /\ chains' \in ChainFile /\ raced' = raced \cup Overtaken(chains')
           /\ faults' \in 0 .. mix.faults
           /\ UNCHANGED <<shared, mix, up, deletes, reconciles, jobs, queue, w, time, files,
                          ckpts, adm, rec, adopted, purged, want, blurred, blind, unlogged>>
<1>1. /\ {} \in SUBSET Jobs /\ prune[p].dead \ {v} \in SUBSET VMs
      /\ prune[p].loaded \in ChainFile /\ chains \in ChainFile
  BY PassParts DEF TypeOK
<1>2. PassMoves(p, "delete", {}, prune[p].dead \ {v}, <<>>)
  BY <1>1, PassIs, NoChains DEF PruneDrop
<1>3. \/ chains' = chains
      \/ ChainIndex(prune[p].loaded, v) # {} /\ chains' = Without(prune[p].loaded, v)
  BY DEF PruneDrop
<1>4. chains' \in ChainFile
  BY <1>1, <1>3, WithoutIs
<1>5. faults' \in 0 .. mix.faults
  BY FaultIs DEF PruneDrop
<1>6. QED
  BY <1>2, <1>3, <1>4, <1>5 DEF PruneDrop, runner

\* The operator deletes a run.
LEMMA DeleteRunIs ==
    ASSUME TypeOK, NEW r \in Jobs, NEW left \in SUBSET FilesOf(r), DeleteRun(r, left)
    PROVE  /\ files' \subseteq files /\ \A f \in files : f \in files' \/ f[1] = r
           /\ purged' = purged \cup {r}
           /\ faults' \in 0 .. mix.faults /\ deletes' \in 0 .. mix.deletes
           /\ UNCHANGED <<shared, mix, up, reconciles, jobs, queue, w, time, chains, ckpts,
                          prune, adm, rec, adopted, raced, want, blurred, blind, unlogged>>
<1>1. files' \subseteq files /\ \A f \in files : f \in files' \/ f[1] = r
  BY DEF DeleteRun, FilesOf
<1>2. faults' \in 0 .. mix.faults
  BY FaultIs DEF DeleteRun
<1>3. deletes' \in 0 .. mix.deletes
  <2>1. mix.deletes \in Nat /\ deletes \in 0 .. mix.deletes
    BY BackupConstants DEF TypeOK
  <2>2. QED
    BY <2>1 DEF DeleteRun
<1>4. QED
  BY <1>1, <1>2, <1>3 DEF DeleteRun, runner, records, requests

\* The operator's deletion of a chain begins with the checkpoints ...
LEMMA DropCheckpointsIs ==
    ASSUME TypeOK, NEW v \in VMs, NEW d \in SUBSET Jobs, DropCheckpoints(v, d)
    PROVE  /\ adm' \in DeleteType /\ adm'.loaded = <<>> /\ ckpts' \in [VMs -> SUBSET Jobs]
           /\ faults' \in 0 .. mix.faults /\ deletes' \in 0 .. mix.deletes
           /\ UNCHANGED <<shared, mix, up, reconciles, jobs, queue, w, time, files, chains,
                          prune, rec, adopted, purged, raced, want, blurred, blind, unlogged>>
<1>1. adm' \in DeleteType /\ adm'.loaded = <<>>
  BY NoChains DEF DropCheckpoints, DeleteType
<1>2. ckpts' \in [VMs -> SUBSET Jobs]
  BY DEF DropCheckpoints, TypeOK
<1>3. faults' \in 0 .. mix.faults
  BY FaultIs DEF DropCheckpoints
<1>4. deletes' \in 0 .. mix.deletes
  <2>1. mix.deletes \in Nat /\ deletes \in 0 .. mix.deletes
    BY BackupConstants DEF TypeOK
  <2>2. QED
    BY <2>1 DEF DropCheckpoints
<1>5. QED
  BY <1>1, <1>2, <1>3, <1>4 DEF DropCheckpoints, runner, seen

\* ... loads the chain records ...
LEMMA AdmLoadIs ==
    ASSUME TypeOK, AdmLoad
    PROVE  /\ adm' \in DeleteType /\ adm'.loaded = chains
           /\ UNCHANGED <<shared, mix, up, faults, deletes, reconciles, jobs, queue, w, time,
                          files, chains,
                          ckpts, prune, rec, adopted, purged, raced, want, blurred, blind, unlogged>>
<1>1. adm \in DeleteType /\ chains \in ChainFile
  BY DEF AdmLoad, TypeOK
<1>2. adm' \in DeleteType /\ adm'.loaded = chains
  BY <1>1 DEF AdmLoad, DeleteType
<1>3. QED
  BY <1>2 DEF AdmLoad, env, runner, records, seen

\* ... and saves them without the chain.
LEMMA AdmSaveIs ==
    ASSUME TypeOK, NEW b \in BOOLEAN, AdmSave(b)
    PROVE  /\ adm' = Nil /\ adm # Nil /\ adm.vm \in VMs /\ adm.loaded \in ChainFile
           /\ \/ chains' = chains
              \/ ChainIndex(adm.loaded, adm.vm) # {} /\ chains' = Without(adm.loaded, adm.vm)
           /\ chains' \in ChainFile /\ raced' = raced \cup Overtaken(chains')
           /\ faults' \in 0 .. mix.faults
           /\ UNCHANGED <<shared, mix, up, deletes, reconciles, jobs, queue, w, time, files,
                          ckpts, prune, rec, adopted, purged, want, blurred, blind, unlogged>>
<1>1. adm # Nil /\ adm.vm \in VMs /\ adm.loaded \in ChainFile /\ chains \in ChainFile
  BY DEF AdmSave, TypeOK, DeleteType
<1>2. \/ chains' = chains
      \/ ChainIndex(adm.loaded, adm.vm) # {} /\ chains' = Without(adm.loaded, adm.vm)
  BY DEF AdmSave
<1>3. chains' \in ChainFile
  BY <1>1, <1>2, WithoutIs
<1>4. faults' \in 0 .. mix.faults
  BY FaultIs DEF AdmSave
<1>5. QED
  BY <1>1, <1>2, <1>3, <1>4 DEF AdmSave, runner

\* The listing is what is on the target, or nothing.
LEMMA ReconcileListIs ==
    ASSUME TypeOK, NEW b \in BOOLEAN, ReconcileList(b)
    PROVE  /\ rec' \in ReconcileType /\ rec'.pc = "read" /\ up
           /\ rec'.listed = (IF b THEN files ELSE {}) /\ rec'.orphans = {}
           /\ rec'.alive = {j \in Jobs : ~b \/ Alive(j)}
           /\ faults' \in 0 .. mix.faults /\ reconciles' \in 0 .. mix.reconciles
           /\ UNCHANGED <<shared, mix, up, deletes, jobs, queue, w, time, files, chains,
                          ckpts, prune, adm, adopted, purged, raced, want, blurred, blind, unlogged>>
<1> DEFINE l == IF b THEN files ELSE {}
           a == {j \in Jobs : ~b \/ Alive(j)}
<1>1. l \in SUBSET Files /\ a \in SUBSET Jobs
  BY DEF TypeOK
<1>2. rec' = [pc |-> "read", orphans |-> {}, ghosts |-> {}, listed |-> l, alive |-> a]
  BY DEF ReconcileList
<1> HIDE DEF l, a
<1>3. /\ rec' \in ReconcileType /\ rec'.pc = "read" /\ rec'.listed = l /\ rec'.alive = a
      /\ rec'.orphans = {}
  BY <1>1, <1>2 DEF ReconcileType
<1>4. faults' \in 0 .. mix.faults
  BY FaultIs DEF ReconcileList
<1>5. reconciles' \in 0 .. mix.reconciles
  <2>1. mix.reconciles \in Nat /\ reconciles \in 0 .. mix.reconciles
    BY BackupConstants DEF TypeOK
  <2>2. QED
    BY <2>1 DEF ReconcileList
<1>6. QED
  BY <1>3, <1>4, <1>5 DEF ReconcileList, runner, records, seen, l, a

\* The parts of what Reconcile has read.
LEMMA ReconcileParts ==
    ASSUME TypeOK, rec # Nil
    PROVE  /\ rec \in ReconcileType /\ rec.listed \in SUBSET Files /\ rec.alive \in SUBSET Jobs
           /\ rec.orphans \in SUBSET Files /\ rec.ghosts \in SUBSET Files
BY DEF TypeOK, ReconcileType

\* Orphans and ghosts are told apart by the listing and the log.
LEMMA ReconcileReadIs ==
    ASSUME TypeOK, ReconcileRead
    PROVE  /\ rec # Nil /\ rec.pc = "read" /\ rec' \in ReconcileType /\ rec'.pc = "adopt"
           /\ rec'.listed = {} /\ rec'.orphans = rec.listed \ Indexed
           /\ rec'.ghosts = Indexed \ rec.listed
           /\ blurred' = blurred \cup {j \in rec.alive : time[j] > 0}
           /\ UNCHANGED <<shared, mix, up, faults, deletes, reconciles, jobs, queue, w, time,
                          files, chains,
                          ckpts, prune, adm, adopted, purged, raced, want, blind, unlogged>>
<1>1. rec # Nil /\ rec.pc = "read"
  BY DEF ReconcileRead
<1>2. Indexed \in SUBSET Files
  BY DEF Indexed, TypeOK
<1>3. rec.listed \ Indexed \in SUBSET Files /\ Indexed \ rec.listed \in SUBSET Files
  BY <1>1, <1>2, ReconcileParts
<1>4. rec' = [pc |-> "adopt", listed |-> {}, alive |-> {},
              orphans |-> rec.listed \ Indexed, ghosts |-> Indexed \ rec.listed]
  BY DEF ReconcileRead
<1>5. /\ rec' \in ReconcileType /\ rec'.pc = "adopt" /\ rec'.listed = {}
      /\ rec'.orphans = rec.listed \ Indexed /\ rec'.ghosts = Indexed \ rec.listed
  BY <1>3, <1>4 DEF ReconcileType
<1>6. QED
  BY <1>1, <1>5 DEF ReconcileRead, env, runner, records

\* Only orphans are adopted.
LEMMA ReconcileAdoptIs ==
    ASSUME TypeOK, NEW r \in Jobs, ReconcileAdopt(r)
    PROVE  /\ rec # Nil /\ rec.pc = "adopt" /\ rec' \in ReconcileType /\ rec'.pc = "adopt"
           /\ rec'.listed = rec.listed /\ rec'.orphans \subseteq rec.orphans
           /\ rec'.ghosts = rec.ghosts
           /\ adopted \subseteq adopted' /\ adopted' \subseteq adopted \cup rec.orphans
           /\ UNCHANGED <<shared, mix, up, faults, deletes, reconciles, jobs, queue, w, time,
                          files, chains,
                          ckpts, prune, adm, purged, raced, want, blurred, blind, unlogged>>
<1>1. rec # Nil /\ rec.pc = "adopt" /\ rec \in ReconcileType
  BY ReconcileParts DEF ReconcileAdopt
<1>2. rec' = [rec EXCEPT !.orphans = {f \in rec.orphans : f[1] # r}]
  BY DEF ReconcileAdopt
<1>3. /\ rec' \in ReconcileType /\ rec'.pc = "adopt" /\ rec'.listed = rec.listed
      /\ rec'.orphans \subseteq rec.orphans /\ rec'.ghosts = rec.ghosts
  BY <1>1, <1>2 DEF ReconcileType
<1>4. adopted' = adopted \cup Adopted(r) /\ Adopted(r) \subseteq rec.orphans
  BY DEF ReconcileAdopt, Adopted
<1>5. QED
  BY <1>1, <1>3, <1>4 DEF ReconcileAdopt, env, runner, records, seen

\* A job keeps its record but for the ghosts.
LEMMA ReconcileCleanIs ==
    ASSUME TypeOK, ReconcileClean
    PROVE  /\ rec # Nil /\ rec.pc = "adopt" /\ rec' = Nil
           /\ jobs' \in [Jobs -> JobType] /\ adopted' = adopted \ rec.ghosts
           /\ \A j \in Jobs :
                \/ jobs'[j] = jobs[j]
                \/ /\ \E i \in jobs[j].files : <<j, i>> \in rec.ghosts
                   /\ jobs'[j].files \subseteq jobs[j].files
                   /\ jobs'[j].status \in {jobs[j].status, "error"}
                   /\ jobs'[j].mode = jobs[j].mode /\ jobs'[j].named = jobs[j].named
           /\ UNCHANGED <<shared, mix, up, faults, deletes, reconciles, queue, w, time,
                          files, chains,
                          ckpts, prune, adm, purged, raced, want, blurred, blind, unlogged>>
<1> DEFINE Left(j) == {i \in jobs[j].files : <<j, i>> \notin rec.ghosts}
           New(j) == IF Left(j) = jobs[j].files THEN jobs[j]
                     ELSE [jobs[j] EXCEPT !.files = Left(j),
                                          !.status = IF Left(j) = {} THEN "error" ELSE @]
<1>1. jobs' = [j \in Jobs |-> New(j)]
  BY DEF ReconcileClean
<1>2. ASSUME NEW j \in Jobs
      PROVE  /\ New(j) \in JobType
             /\ \/ New(j) = jobs[j]
                \/ /\ \E i \in jobs[j].files : <<j, i>> \in rec.ghosts
                   /\ New(j).files \subseteq jobs[j].files
                   /\ New(j).status \in {jobs[j].status, "error"}
                   /\ New(j).mode = jobs[j].mode /\ New(j).named = jobs[j].named
  <2>1. jobs[j] \in JobType
    BY DEF TypeOK
  <2>2. CASE Left(j) = jobs[j].files
    BY <2>1, <2>2
  <2>3. CASE Left(j) # jobs[j].files
    <3> DEFINE l == Left(j)
               s == IF l = {} THEN "error" ELSE jobs[j].status
    <3>1. New(j) = [jobs[j] EXCEPT !.files = l, !.status = s]
      BY <2>3
    <3>2. /\ l \in SUBSET Items /\ l \subseteq jobs[j].files
          /\ \E i \in jobs[j].files : <<j, i>> \in rec.ghosts
      BY <2>1, <2>3 DEF JobType
    <3>3. s \in {"none", "running", "success", "error"} /\ s \in {jobs[j].status, "error"}
      BY <2>1 DEF JobType
    <3> HIDE DEF l, s, New
    <3>4. /\ New(j) \in JobType /\ New(j).files = l /\ New(j).status = s
          /\ New(j).mode = jobs[j].mode /\ New(j).named = jobs[j].named
      BY <2>1, <3>1, <3>2, <3>3 DEF JobType
    <3>5. QED
      BY <3>2, <3>3, <3>4
  <2>4. QED
    BY <2>2, <2>3
<1> HIDE DEF New
<1>3. /\ jobs' \in [Jobs -> JobType]
      /\ \A j \in Jobs : jobs'[j] = New(j)
  BY <1>1, <1>2
<1>4. /\ rec # Nil /\ rec.pc = "adopt" /\ rec' = Nil /\ adopted' = adopted \ rec.ghosts
      /\ UNCHANGED <<shared, mix, up, faults, deletes, reconciles, queue, w, time,
                     files, chains,
                     ckpts, prune, adm, purged, raced, want, blurred, blind, unlogged>>
  BY DEF ReconcileClean, env, records, seen
<1>5. QED
  BY <1>2, <1>3, <1>4

\* What a crash leaves: at most the increment libvirt was pushing is added.
LEMMA CrashIs ==
    ASSUME TypeOK, RunFits, Crash
    PROVE  /\ up' = FALSE /\ queue' = {} /\ w' = Nil /\ adm' = Nil /\ rec' = Nil
           /\ prune' \in [Pruners -> PassType]
           /\ \A p \in Pruners : prune'[p].runs = {} /\ prune'[p].loaded = <<>>
                                 /\ prune'[p].pc = "idle"
           /\ \/ files' = files
              \/ w # Nil /\ files' = files \cup {<<w.job, w.item>>} /\ w.item \in VMs
           /\ ckpts' \in [VMs -> SUBSET Jobs] /\ faults' \in 0 .. mix.faults
           /\ UNCHANGED <<shared, mix, deletes, reconciles, jobs, time, chains, adopted,
                          purged, raced,
                          want, blurred, blind, unlogged>>
<1>1. Writing("backup") => w # Nil /\ w.item \in VMs
  BY DEF Writing, RunFits
<1>2. /\ files' = files \/ (w # Nil /\ files' = files \cup {<<w.job, w.item>>} /\ w.item \in VMs)
      /\ ckpts' \in [VMs -> SUBSET Jobs]
  BY <1>1, PushBackupIs DEF Crash, TypeOK
<1>3. /\ IdlePass \in PassType /\ IdlePass.runs = {} /\ IdlePass.loaded = <<>>
      /\ IdlePass.pc = "idle"
  BY NoChains DEF IdlePass, Pass, PassType
<1>4. faults' \in 0 .. mix.faults
  BY FaultIs DEF Crash
<1>5. QED
  BY <1>2, <1>3, <1>4 DEF Crash, seen

\* The running jobs become errors and keep what they named; those that only the
\* memory knew are gone.
LEMMA RestartIs ==
    ASSUME TypeOK, NEW gone \in SUBSET Jobs, Restart(gone)
    PROVE  /\ ~up /\ up' = TRUE /\ jobs' \in [Jobs -> JobType]
           /\ gone \subseteq unlogged /\ unlogged' = {}
           /\ \A j \in Jobs :
                \/ /\ j \in gone /\ jobs'[j].status = "none"
                   /\ jobs'[j].files = {} /\ jobs'[j].named = {}
                \/ /\ jobs'[j].files = jobs[j].files /\ jobs'[j].named = jobs[j].named
                   /\ jobs'[j].mode = jobs[j].mode
                   /\ jobs'[j].status = IF jobs[j].status = "running" THEN "error"
                                        ELSE jobs[j].status
           /\ UNCHANGED <<shared, mix, faults, deletes, reconciles, queue, w, time, files,
                          chains, ckpts,
                          prune, adm, rec, adopted, purged, raced, want, blurred, blind>>
<1> DEFINE Swept(j) == IF jobs[j].status = "running" THEN [jobs[j] EXCEPT !.status = "error"]
                       ELSE jobs[j]
<1>1. \A j \in Jobs : jobs'[j] = IF j \in gone THEN NoJob ELSE Swept(j)
  BY DEF Restart
<1>2. jobs' = [j \in Jobs |-> IF j \in gone THEN NoJob ELSE Swept(j)]
  BY DEF Restart
<1>3. ASSUME NEW j \in Jobs
      PROVE  /\ Swept(j) \in JobType /\ Swept(j).files = jobs[j].files
             /\ Swept(j).named = jobs[j].named /\ Swept(j).mode = jobs[j].mode
             /\ Swept(j).status = IF jobs[j].status = "running" THEN "error" ELSE jobs[j].status
  <2>1. jobs[j] \in JobType
    BY DEF TypeOK
  <2>2. QED
    BY <2>1 DEF JobType
<1>4. /\ NoJob \in JobType /\ NoJob.files = {} /\ NoJob.named = {} /\ NoJob.status = "none"
  BY DEF NoJob, JobType
<1> HIDE DEF Swept
<1>5. jobs' \in [Jobs -> JobType]
  BY <1>2, <1>3, <1>4
<1>6. QED
  BY <1>1, <1>3, <1>4, <1>5 DEF Restart, records, requests

-----------------------------------------------------------------------------
(* Each part is kept by every step.                                          *)

\* TypeOK is kept by every step.
LEMMA StepTyped == TypeOK /\ RunsOrdered /\ RunFits /\ [Next]_vars => TypeOK'
<1> SUFFICES ASSUME TypeOK, RunsOrdered, RunFits, [Next]_vars PROVE TypeOK'
  OBVIOUS
<1>1. ASSUME NEW j \in Jobs, NEW s \in VMs \cup {Nil}, NEW m \in Modes, NEW b \in BOOLEAN,
             RecordJob(j, s, m, b)
      PROVE  TypeOK'
  <2>1. up' \in BOOLEAN
    BY <1>1, RecordJobIs DEF TypeOK
  <2>2. /\ jobs' \in [Jobs -> JobType] /\ queue' \subseteq Jobs /\ unlogged' \subseteq Jobs
        /\ faults' \in 0 .. mix.faults
    <3>1. queue \subseteq Jobs /\ unlogged \subseteq Jobs
      BY DEF TypeOK
    <3>2. QED
      BY <1>1, <3>1, RecordJobIs
  <2>3. UNCHANGED <<shared, mix, deletes, reconciles, w, time, files, chains, ckpts,
                   prune, adm, rec, adopted, purged, raced, want, blurred, blind>>
    BY <1>1, RecordJobIs
  <2>4. QED
    BY <2>1, <2>2, <2>3 DEF TypeOK
<1>2. ASSUME NEW j \in Jobs, NEW s \in SUBSET VMs, StartRun(j, s) PROVE TypeOK'
  BY <1>2, StartRunIs DEF TypeOK
<1>3. ASSUME NEW i \in Items, CreateArchive(i) PROVE TypeOK'
  <2>1. <<w.job, i>> \in Files
    BY <1>3, CreateArchiveIs, RunParts DEF Files, RunMoves
  <2>2. QED
    BY <1>3, <2>1, CreateArchiveIs DEF TypeOK, RunMoves
<1>4. CASE FinishArchive
  BY <1>4, FinishArchiveIs DEF TypeOK, RunMoves, RunEnds
<1>5. CASE FailArchive
  BY <1>5, FailArchiveIs DEF TypeOK, RunEnds
<1>6. CASE FailRun
  BY <1>6, FailRunIs DEF TypeOK, RunEnds
<1>7. ASSUME NEW v \in VMs, NEW b \in BOOLEAN, ReadParent(v, b) PROVE TypeOK'
  BY <1>7, ReadParentIs DEF TypeOK, RunMoves
<1>8. CASE BeginBackup
  <2>1. <<w.job, w.item>> \in Files
    BY <1>8, BeginBackupIs, RunParts DEF Files, RunMoves, RunFits, Items
  <2>2. QED
    BY <1>8, <2>1, BeginBackupIs DEF TypeOK, RunMoves
<1>8a. ASSUME NEW b \in BOOLEAN, BackupUnseen(b) PROVE TypeOK'
  <2>1. <<w.job, w.item>> \in Files
    BY <1>8a, BackupUnseenIs, RunParts DEF Files, RunMoves, RunFits, Items
  <2>2. files \subseteq Files /\ blind \subseteq Jobs /\ w.job \in Jobs
    BY <1>8a, BackupUnseenIs, RunParts DEF TypeOK, RunMoves
  <2>3. files' \subseteq Files /\ blind' \subseteq Jobs
    BY <1>8a, <2>1, <2>2, BackupUnseenIs
  <2>4. QED
    BY <1>8a, <2>3, BackupUnseenIs DEF TypeOK, RunMoves
<1>9. CASE BeginBackupFails
  <2>1. <<w.job, w.item>> \in Files
    BY <1>9, BeginBackupFailsIs, RunParts DEF Files, RunEnds, RunFits, Items
  <2>2. QED
    BY <1>9, <2>1, BeginBackupFailsIs DEF TypeOK, RunEnds
<1>10. CASE AppendLoad
  BY <1>10, AppendLoadIs DEF TypeOK, RunMoves
<1>11. ASSUME NEW b \in BOOLEAN, AppendSave(b) PROVE TypeOK'
  BY <1>11, AppendSaveIs DEF TypeOK, RunMoves
<1>12. ASSUME NEW p \in Pruners, PruneList(p) PROVE TypeOK'
  BY <1>12, PruneListIs DEF TypeOK, PassMoves
<1>13. ASSUME NEW p \in Pruners, NEW b \in BOOLEAN, PruneDecide(p, b) PROVE TypeOK'
  BY <1>13, PruneDecideIs DEF TypeOK, PassMoves
<1>14. ASSUME NEW p \in Pruners, NEW r \in Jobs, NEW left \in SUBSET FilesOf(r),
             PruneDelete(p, r, left)
      PROVE  TypeOK'
  BY <1>14, PruneDeleteIs DEF TypeOK, PassMoves
<1>15. ASSUME NEW p \in Pruners, PruneLoad(p) PROVE TypeOK'
  BY <1>15, PruneLoadIs DEF TypeOK, PassMoves
<1>16. ASSUME NEW p \in Pruners, NEW v \in VMs, NEW b \in BOOLEAN, PruneDrop(p, v, b)
      PROVE  TypeOK'
  <2>1. Overtaken(chains') \subseteq VMs
    BY DEF Overtaken, RunFits
  <2>2. QED
    BY <1>16, <2>1, PruneDropIs DEF TypeOK, PassMoves
<1>17. ASSUME NEW r \in Jobs, NEW left \in SUBSET FilesOf(r), DeleteRun(r, left)
      PROVE  TypeOK'
  BY <1>17, DeleteRunIs DEF TypeOK
<1>18. ASSUME NEW v \in VMs, NEW d \in SUBSET Jobs, DropCheckpoints(v, d) PROVE TypeOK'
  BY <1>18, DropCheckpointsIs DEF TypeOK
<1>19. CASE AdmLoad
  BY <1>19, AdmLoadIs DEF TypeOK
<1>20. ASSUME NEW b \in BOOLEAN, AdmSave(b) PROVE TypeOK'
  <2>1. Overtaken(chains') \subseteq VMs
    BY DEF Overtaken, RunFits
  <2>2. QED
    BY <1>20, <2>1, AdmSaveIs DEF TypeOK
<1>21. ASSUME NEW b \in BOOLEAN, ReconcileList(b) PROVE TypeOK'
  BY <1>21, ReconcileListIs DEF TypeOK
<1>22. CASE ReconcileRead
  <2>1. blurred' \subseteq Jobs
    BY <1>22, ReconcileReadIs, ReconcileParts DEF TypeOK
  <2>2. QED
    BY <1>22, <2>1, ReconcileReadIs DEF TypeOK
<1>23. ASSUME NEW r \in Jobs, ReconcileAdopt(r) PROVE TypeOK'
  <2>1. adopted' \subseteq Files
    BY <1>23, ReconcileAdoptIs, ReconcileParts DEF TypeOK
  <2>2. QED
    BY <1>23, <2>1, ReconcileAdoptIs DEF TypeOK
<1>24. CASE ReconcileClean
  BY <1>24, ReconcileCleanIs DEF TypeOK
<1>25. CASE Crash
  <2>1. files \subseteq Files
    BY DEF TypeOK
  <2>2. w # Nil /\ w.item \in VMs => <<w.job, w.item>> \in Files
    BY RunParts DEF Files, Items
  <2>3. files' \subseteq Files
    BY <1>25, <2>1, <2>2, CrashIs
  <2>4. up' \in BOOLEAN
    BY <1>25, CrashIs
  <2>5. QED
    BY <1>25, <2>3, <2>4, CrashIs DEF TypeOK
<1>26. ASSUME NEW gone \in SUBSET Jobs, Restart(gone) PROVE TypeOK'
  <2>1. up' \in BOOLEAN
    BY <1>26, RestartIs
  <2>2. QED
    BY <1>26, <2>1, RestartIs DEF TypeOK
<1>27. CASE UNCHANGED vars
  BY <1>27 DEF vars, env, runner, records, requests, seen, TypeOK
<1>28. QED
  BY <1>1, <1>2, <1>3, <1>4, <1>5, <1>6, <1>7, <1>8, <1>8a, <1>9, <1>10, <1>11, <1>12, <1>13,
    <1>14, <1>15, <1>16, <1>17, <1>18, <1>19, <1>20, <1>21, <1>22, <1>23, <1>24, <1>25,
    <1>26, <1>27 DEF Next, RunnerNext, PruneNext, OperatorNext, ReconcileNext

\* Only StartRun moves the clock, and it gives the new run the latest time.
LEMMA StepOrdered ==
    TypeOK /\ JobsFit /\ RunFits /\ RunsOrdered /\ [Next]_vars
        => RunsOrdered'
<1> SUFFICES ASSUME TypeOK, JobsFit, RunFits, RunsOrdered, [Next]_vars PROVE RunsOrdered'
  OBVIOUS
<1>0. (time' = time => Clock' = Clock) /\ queue \subseteq Jobs /\ \A j \in Jobs : time[j] \in Nat
  <2>1. time' = time => Clock' = Clock
    BY DEF Clock
  <2>2. QED
    BY <2>1 DEF TypeOK
<1>0a. \A f \in files \cup adopted : f[1] \in Jobs
  BY DEF TypeOK, Files
<1>1. ASSUME NEW j \in Jobs, NEW s \in VMs \cup {Nil}, NEW m \in Modes, NEW b \in BOOLEAN,
             RecordJob(j, s, m, b)
      PROVE  RunsOrdered'
  <2>1. time[j] = 0
    BY <1>1, RecordJobIs DEF RunsOrdered
  <2>2. QED
    BY <1>1, <2>1, <1>0, RecordJobIs DEF RunsOrdered
<1>2. ASSUME NEW j \in Jobs, NEW s \in SUBSET VMs, StartRun(j, s) PROVE RunsOrdered'
  <2>1. \A k \in Jobs : time[k] > 0 => time'[k] > 0 /\ k # j
    BY <1>2, <1>0, StartRunIs
  <2>2. \A k \in Jobs : time'[k] <= Clock'
    BY <1>2, <1>0, StartRunIs DEF RunsOrdered
  <2>3. \A f \in files \cup adopted : time'[f[1]] > 0
    BY <2>1, <1>0a DEF RunsOrdered
  <2>4. \A k \in Jobs : k \in queue' \cup unlogged' \/ jobs'[k].status = "none" => time'[k] = 0
    BY <1>2, <1>0, StartRunIs DEF RunsOrdered, JobsFit
  <2>5. \A p \in Pruners : \A k \in prune[p].runs : time'[k] > 0
    BY <2>1, PassParts DEF RunsOrdered
  <2>6. rec # Nil => \A f \in rec.listed \cup rec.orphans : time'[f[1]] > 0
    BY <2>1, ReconcileParts DEF RunsOrdered, Files
  <2>7. time'[w'.job] = Clock' /\ time'[w'.job] > 0
    BY <1>2, StartRunIs
  <2>8. QED
    BY <1>2, <2>1, <2>2, <2>3, <2>4, <2>5, <2>6, <2>7, StartRunIs DEF RunsOrdered
<1>3. ASSUME NEW i \in Items, CreateArchive(i) PROVE RunsOrdered'
  BY <1>3, <1>0, CreateArchiveIs DEF RunsOrdered, RunMoves
<1>4. CASE FinishArchive
  BY <1>4, <1>0, FinishArchiveIs DEF RunsOrdered, RunMoves, RunEnds
<1>5. CASE FailArchive
  BY <1>5, <1>0, FailArchiveIs DEF RunsOrdered, RunEnds
<1>6. CASE FailRun
  BY <1>6, <1>0, FailRunIs DEF RunsOrdered, RunEnds
<1>7. ASSUME NEW v \in VMs, NEW b \in BOOLEAN, ReadParent(v, b) PROVE RunsOrdered'
  BY <1>7, <1>0, ReadParentIs DEF RunsOrdered, RunMoves
<1>8. CASE BeginBackup
  BY <1>8, <1>0, BeginBackupIs DEF RunsOrdered, RunMoves
<1>8a. ASSUME NEW b \in BOOLEAN, BackupUnseen(b) PROVE RunsOrdered'
  BY <1>8a, <1>0, BackupUnseenIs DEF RunsOrdered, RunMoves
<1>9. CASE BeginBackupFails
  BY <1>9, <1>0, BeginBackupFailsIs DEF RunsOrdered, RunEnds
<1>10. CASE AppendLoad
  BY <1>10, <1>0, AppendLoadIs DEF RunsOrdered, RunMoves
<1>11. ASSUME NEW b \in BOOLEAN, AppendSave(b) PROVE RunsOrdered'
  BY <1>11, <1>0, AppendSaveIs DEF RunsOrdered, RunMoves
<1>12. ASSUME NEW p \in Pruners, PruneList(p) PROVE RunsOrdered'
  <2>1. \A j \in OnTarget : time[j] > 0
    BY DEF RunsOrdered, OnTarget
  <2>2. QED
    BY <1>12, <2>1, <1>0, PruneListIs DEF RunsOrdered, PassMoves
<1>13. ASSUME NEW p \in Pruners, NEW b \in BOOLEAN, PruneDecide(p, b) PROVE RunsOrdered'
  BY <1>13, <1>0, PruneDecideIs DEF RunsOrdered, PassMoves
<1>14. ASSUME NEW p \in Pruners, NEW r \in Jobs, NEW left \in SUBSET FilesOf(r),
             PruneDelete(p, r, left)
      PROVE  RunsOrdered'
  BY <1>14, <1>0, PruneDeleteIs DEF RunsOrdered, PassMoves
<1>15. ASSUME NEW p \in Pruners, PruneLoad(p) PROVE RunsOrdered'
  BY <1>15, <1>0, PruneLoadIs DEF RunsOrdered, PassMoves
<1>16. ASSUME NEW p \in Pruners, NEW v \in VMs, NEW b \in BOOLEAN, PruneDrop(p, v, b)
      PROVE  RunsOrdered'
  BY <1>16, <1>0, PruneDropIs DEF RunsOrdered, PassMoves
<1>17. ASSUME NEW r \in Jobs, NEW left \in SUBSET FilesOf(r), DeleteRun(r, left)
      PROVE  RunsOrdered'
  BY <1>17, <1>0, DeleteRunIs DEF RunsOrdered
<1>18. ASSUME NEW v \in VMs, NEW d \in SUBSET Jobs, DropCheckpoints(v, d) PROVE RunsOrdered'
  BY <1>18, <1>0, DropCheckpointsIs DEF RunsOrdered
<1>19. CASE AdmLoad
  BY <1>19, <1>0, AdmLoadIs DEF RunsOrdered
<1>20. ASSUME NEW b \in BOOLEAN, AdmSave(b) PROVE RunsOrdered'
  BY <1>20, <1>0, AdmSaveIs DEF RunsOrdered
<1>21. ASSUME NEW b \in BOOLEAN, ReconcileList(b) PROVE RunsOrdered'
  BY <1>21, <1>0, ReconcileListIs DEF RunsOrdered
<1>22. CASE ReconcileRead
  BY <1>22, <1>0, ReconcileReadIs DEF RunsOrdered
<1>23. ASSUME NEW r \in Jobs, ReconcileAdopt(r) PROVE RunsOrdered'
  <2>1. \A f \in adopted' : time[f[1]] > 0
    BY <1>23, ReconcileAdoptIs DEF RunsOrdered
  <2>2. QED
    BY <1>23, <1>0, <2>1, ReconcileAdoptIs DEF RunsOrdered
<1>24. CASE ReconcileClean
  BY <1>24, <1>0, ReconcileCleanIs DEF RunsOrdered
<1>25. CASE Crash
  <2>1. \A f \in files' : time[f[1]] > 0
    BY <1>25, CrashIs DEF RunsOrdered
  <2>2. QED
    BY <1>25, <1>0, <2>1, CrashIs DEF RunsOrdered
<1>26. ASSUME NEW gone \in SUBSET Jobs, Restart(gone) PROVE RunsOrdered'
  BY <1>26, <1>0, RestartIs DEF RunsOrdered
<1>27. CASE UNCHANGED vars
  BY <1>27, <1>0 DEF vars, env, runner, records, requests, seen, RunsOrdered
<1>28. QED
  BY <1>1, <1>2, <1>3, <1>4, <1>5, <1>6, <1>7, <1>8, <1>8a, <1>9, <1>10, <1>11, <1>12, <1>13,
    <1>14, <1>15, <1>16, <1>17, <1>18, <1>19, <1>20, <1>21, <1>22, <1>23, <1>24, <1>25,
    <1>26, <1>27 DEF Next, RunnerNext, PruneNext, OperatorNext, ReconcileNext

\* A job leaves the running state with its run, or when the daemon restarts.
LEMMA StepJobs == TypeOK /\ RunsOrdered /\ RunFits /\ JobsFit /\ [Next]_vars => JobsFit'
<1> SUFFICES ASSUME TypeOK, RunsOrdered, RunFits, JobsFit, [Next]_vars PROVE JobsFit'
  OBVIOUS
<1>0. /\ queue \subseteq Jobs /\ unlogged \subseteq Jobs /\ \A f \in files : f[1] \in Jobs
      /\ w # Nil => w.job \in Jobs /\ w.job \notin unlogged
  <2>1. w # Nil => w.job \in Jobs /\ w.job \notin unlogged
    BY RunParts DEF RunsOrdered
  <2>2. QED
    BY <2>1 DEF TypeOK, Files
<1>1. ASSUME NEW j \in Jobs, NEW s \in VMs \cup {Nil}, NEW m \in Modes, NEW b \in BOOLEAN,
             RecordJob(j, s, m, b)
      PROVE  JobsFit'
  <2>1. w # Nil => w.job # j /\ w.job \in Jobs
    BY <1>1, RecordJobIs, RunParts DEF JobsFit
  <2>2. j \notin queue /\ j \notin unlogged
    BY <1>1, RecordJobIs DEF JobsFit
  <2>3. \A k \in queue' \cup unlogged' : jobs'[k].status = "running"
    BY <1>1, <1>0, <2>2, RecordJobIs DEF JobsFit
  <2>4. \A k \in unlogged' : k \notin queue'
    BY <1>1, <1>0, <2>2, RecordJobIs DEF JobsFit
  <2>5. \A k \in Jobs : Alive(k)' => jobs'[k].files = {} /\ jobs'[k].named = {}
    BY <1>1, RecordJobIs DEF JobsFit, Alive
  <2>6. w # Nil => w.job \notin queue' /\ jobs'[w.job].status = "running"
    BY <1>1, <2>1, RecordJobIs DEF JobsFit
  <2>7. QED
    BY <1>1, <2>3, <2>4, <2>5, <2>6, RecordJobIs DEF JobsFit
<1>2. ASSUME NEW j \in Jobs, NEW s \in SUBSET VMs, StartRun(j, s) PROVE JobsFit'
  BY <1>2, <1>0, StartRunIs DEF JobsFit, Alive
<1>3. ASSUME NEW i \in Items, CreateArchive(i) PROVE JobsFit'
  BY <1>3, <1>0, CreateArchiveIs DEF JobsFit, RunMoves, Alive
<1>4. CASE FinishArchive
  BY <1>4, <1>0, FinishArchiveIs DEF JobsFit, Alive, RunMoves, RunEnds
<1>5. CASE FailArchive
  BY <1>5, <1>0, FailArchiveIs DEF JobsFit, Alive, RunEnds
<1>6. CASE FailRun
  BY <1>6, <1>0, FailRunIs DEF JobsFit, Alive, RunEnds
<1>7. ASSUME NEW v \in VMs, NEW b \in BOOLEAN, ReadParent(v, b) PROVE JobsFit'
  BY <1>7, ReadParentIs DEF JobsFit, RunMoves, Alive
<1>8. CASE BeginBackup
  BY <1>8, BeginBackupIs DEF JobsFit, RunMoves, Alive
<1>8a. ASSUME NEW b \in BOOLEAN, BackupUnseen(b) PROVE JobsFit'
  BY <1>8a, <1>0, BackupUnseenIs DEF JobsFit, RunMoves, Alive
<1>9. CASE BeginBackupFails
  BY <1>9, <1>0, BeginBackupFailsIs DEF JobsFit, Alive, RunEnds
<1>10. CASE AppendLoad
  BY <1>10, AppendLoadIs DEF JobsFit, RunMoves, Alive
<1>11. ASSUME NEW b \in BOOLEAN, AppendSave(b) PROVE JobsFit'
  BY <1>11, AppendSaveIs DEF JobsFit, RunMoves, Alive
<1>12. ASSUME NEW p \in Pruners, PruneList(p) PROVE JobsFit'
  BY <1>12, PruneListIs DEF JobsFit, PassMoves, Alive
<1>13. ASSUME NEW p \in Pruners, NEW b \in BOOLEAN, PruneDecide(p, b) PROVE JobsFit'
  BY <1>13, PruneDecideIs DEF JobsFit, PassMoves, Alive
<1>14. ASSUME NEW p \in Pruners, NEW r \in Jobs, NEW left \in SUBSET FilesOf(r),
             PruneDelete(p, r, left)
      PROVE  JobsFit'
  BY <1>14, PruneDeleteIs DEF JobsFit, PassMoves, Alive
<1>15. ASSUME NEW p \in Pruners, PruneLoad(p) PROVE JobsFit'
  BY <1>15, PruneLoadIs DEF JobsFit, PassMoves, Alive
<1>16. ASSUME NEW p \in Pruners, NEW v \in VMs, NEW b \in BOOLEAN, PruneDrop(p, v, b)
      PROVE  JobsFit'
  BY <1>16, PruneDropIs DEF JobsFit, PassMoves, Alive
<1>17. ASSUME NEW r \in Jobs, NEW left \in SUBSET FilesOf(r), DeleteRun(r, left)
      PROVE  JobsFit'
  BY <1>17, DeleteRunIs DEF JobsFit, Alive
<1>18. ASSUME NEW v \in VMs, NEW d \in SUBSET Jobs, DropCheckpoints(v, d) PROVE JobsFit'
  BY <1>18, DropCheckpointsIs DEF JobsFit, Alive
<1>19. CASE AdmLoad
  BY <1>19, AdmLoadIs DEF JobsFit, Alive
<1>20. ASSUME NEW b \in BOOLEAN, AdmSave(b) PROVE JobsFit'
  BY <1>20, AdmSaveIs DEF JobsFit, Alive
<1>21. ASSUME NEW b \in BOOLEAN, ReconcileList(b) PROVE JobsFit'
  BY <1>21, ReconcileListIs DEF JobsFit, Alive
<1>22. CASE ReconcileRead
  BY <1>22, ReconcileReadIs DEF JobsFit, Alive
<1>23. ASSUME NEW r \in Jobs, ReconcileAdopt(r) PROVE JobsFit'
  BY <1>23, ReconcileAdoptIs DEF JobsFit, Alive
<1>24. CASE ReconcileClean
  <2>1. \A j \in Jobs : Alive(j) => jobs'[j] = jobs[j]
    BY <1>24, ReconcileCleanIs DEF JobsFit
  <2>2. \A j \in Jobs : jobs'[j].status \in {jobs[j].status, "error"}
    BY <1>24, ReconcileCleanIs
  <2>3. \A j \in Jobs : Alive(j)' => Alive(j)
    BY <2>2 DEF Alive
  <2>4. w # Nil => w.job \in Jobs
    BY RunParts
  <2>5. \A j \in Jobs : jobs[j].status = "running" => jobs'[j].status = "running"
    BY <2>1 DEF Alive
  <2>6. QED
    BY <1>24, <1>0, <2>1, <2>3, <2>4, <2>5, ReconcileCleanIs DEF JobsFit
<1>25. CASE Crash
  BY <1>25, CrashIs DEF JobsFit, Alive
<1>26. ASSUME NEW gone \in SUBSET Jobs, Restart(gone) PROVE JobsFit'
  <2>1. ~up /\ up' = TRUE /\ unlogged' = {} /\ UNCHANGED <<queue, w>>
    BY <1>26, RestartIs
  <2>2. \A j \in Jobs : Alive(j)' => jobs'[j].files = {} /\ jobs'[j].named = {}
    BY <1>26, RestartIs DEF JobsFit, Alive
  <2>3. QED
    BY <2>1, <2>2 DEF JobsFit
<1>27. CASE UNCHANGED vars
  BY <1>27 DEF vars, env, runner, records, requests, seen, JobsFit, Alive
<1>28. QED
  BY <1>1, <1>2, <1>3, <1>4, <1>5, <1>6, <1>7, <1>8, <1>8a, <1>9, <1>10, <1>11, <1>12, <1>13,
    <1>14, <1>15, <1>16, <1>17, <1>18, <1>19, <1>20, <1>21, <1>22, <1>23, <1>24, <1>25,
    <1>26, <1>27 DEF Next, RunnerNext, PruneNext, OperatorNext, ReconcileNext

\* The run keeps account of what it has written; only a deletion of the run
\* itself takes a file from it.
LEMMA StepRun == TypeOK /\ RunsOrdered /\ JobsFit /\ RunFits /\ [Next]_vars => RunFits'
<1> SUFFICES ASSUME TypeOK, RunsOrdered, JobsFit, RunFits, [Next]_vars PROVE RunFits'
  OBVIOUS
<1>1. ASSUME NEW j \in Jobs, NEW s \in VMs \cup {Nil}, NEW m \in Modes, NEW b \in BOOLEAN,
             RecordJob(j, s, m, b)
      PROVE  RunFits'
  <2>1. w # Nil => jobs'[w.job] = jobs[w.job]
    BY <1>1, RecordJobIs, RunParts DEF JobsFit
  <2>2. QED
    BY <1>1, <2>1, RecordJobIs DEF RunFits
<1>2. ASSUME NEW j \in Jobs, NEW s \in SUBSET VMs, StartRun(j, s) PROVE RunFits'
  BY <1>2, StartRunIs DEF RunFits
<1>3. ASSUME NEW i \in Items, CreateArchive(i) PROVE RunFits'
  <2>1. i \in w.todo => jobs[w.job].mode = "full"
    BY <1>3, CreateArchiveIs, RunParts DEF RunMoves, TypeOK, JobType
  <2>2. QED
    BY <1>3, <2>1, CreateArchiveIs DEF RunFits, RunMoves
<1>4. CASE FinishArchive
  <2>1. w.job \notin purged \cup blind => {w.job} \X (w.done \cup {w.item}) \subseteq files
    BY <1>4, FinishArchiveIs DEF RunFits, RunMoves, RunEnds
  <2>2. QED
    BY <1>4, <2>1, FinishArchiveIs DEF RunFits, RunMoves, RunEnds
<1>5. CASE FailArchive
  BY <1>5, FailArchiveIs DEF RunFits, RunEnds
<1>6. CASE FailRun
  BY <1>6, FailRunIs DEF RunFits, RunEnds
<1>7. ASSUME NEW v \in VMs, NEW b \in BOOLEAN, ReadParent(v, b) PROVE RunFits'
  BY <1>7, ReadParentIs DEF RunFits, RunMoves
<1>8. CASE BeginBackup
  <2>1. w.job \notin purged \cup blind => {w.job} \X (w.done \cup {w.item}) \subseteq files'
    BY <1>8, BeginBackupIs DEF RunFits, RunMoves
  <2>2. QED
    BY <1>8, <2>1, BeginBackupIs DEF RunFits, RunMoves
<1>8a. ASSUME NEW b \in BOOLEAN, BackupUnseen(b) PROVE RunFits'
  <2>1. w'.job \in blind'
    BY <1>8a, BackupUnseenIs DEF RunMoves
  <2>2. QED
    BY <1>8a, <2>1, BackupUnseenIs DEF RunFits, RunMoves
<1>9. CASE BeginBackupFails
  BY <1>9, BeginBackupFailsIs DEF RunFits, RunEnds
<1>10. CASE AppendLoad
  BY <1>10, AppendLoadIs DEF RunFits, RunMoves
<1>11. ASSUME NEW b \in BOOLEAN, AppendSave(b) PROVE RunFits'
  BY <1>11, AppendSaveIs DEF RunFits, RunMoves
<1>12. ASSUME NEW p \in Pruners, PruneList(p) PROVE RunFits'
  BY <1>12, PruneListIs DEF RunFits, PassMoves
<1>13. ASSUME NEW p \in Pruners, NEW b \in BOOLEAN, PruneDecide(p, b) PROVE RunFits'
  BY <1>13, PruneDecideIs DEF RunFits, PassMoves
<1>14. ASSUME NEW p \in Pruners, NEW r \in Jobs, NEW left \in SUBSET FilesOf(r),
             PruneDelete(p, r, left)
      PROVE  RunFits'
  <2>1. w # Nil /\ w.job \notin purged' \cup blind => w.job # r /\ w.job \notin purged
    BY <1>14 DEF PruneDelete
  <2>2. \A i : w # Nil /\ w.job \notin purged' \cup blind /\ <<w.job, i>> \in files
            => <<w.job, i>> \in files'
    BY <1>14, <2>1, PruneDeleteIs
  <2>3. w # Nil /\ w.job \notin purged' \cup blind => {w.job} \X w.done \subseteq files'
    BY <2>1, <2>2 DEF RunFits
  <2>4. QED
    BY <1>14, <2>1, <2>2, <2>3, PruneDeleteIs DEF RunFits
<1>15. ASSUME NEW p \in Pruners, PruneLoad(p) PROVE RunFits'
  BY <1>15, PruneLoadIs DEF RunFits, PassMoves
<1>16. ASSUME NEW p \in Pruners, NEW v \in VMs, NEW b \in BOOLEAN, PruneDrop(p, v, b)
      PROVE  RunFits'
  BY <1>16, PruneDropIs DEF RunFits, PassMoves
<1>17. ASSUME NEW r \in Jobs, NEW left \in SUBSET FilesOf(r), DeleteRun(r, left)
      PROVE  RunFits'
  <2>1. w # Nil /\ w.job \notin purged' \cup blind => w.job # r /\ w.job \notin purged
    BY <1>17, DeleteRunIs
  <2>2. \A i : w # Nil /\ w.job \notin purged' \cup blind /\ <<w.job, i>> \in files
            => <<w.job, i>> \in files'
    BY <1>17, <2>1, DeleteRunIs
  <2>3. w # Nil /\ w.job \notin purged' \cup blind => {w.job} \X w.done \subseteq files'
    BY <2>1, <2>2 DEF RunFits
  <2>4. QED
    BY <1>17, <2>1, <2>2, <2>3, DeleteRunIs DEF RunFits
<1>18. ASSUME NEW v \in VMs, NEW d \in SUBSET Jobs, DropCheckpoints(v, d) PROVE RunFits'
  BY <1>18, DropCheckpointsIs DEF RunFits
<1>19. CASE AdmLoad
  BY <1>19, AdmLoadIs DEF RunFits
<1>20. ASSUME NEW b \in BOOLEAN, AdmSave(b) PROVE RunFits'
  BY <1>20, AdmSaveIs DEF RunFits
<1>21. ASSUME NEW b \in BOOLEAN, ReconcileList(b) PROVE RunFits'
  BY <1>21, ReconcileListIs DEF RunFits
<1>22. CASE ReconcileRead
  BY <1>22, ReconcileReadIs DEF RunFits
<1>23. ASSUME NEW r \in Jobs, ReconcileAdopt(r) PROVE RunFits'
  BY <1>23, ReconcileAdoptIs DEF RunFits
<1>24. CASE ReconcileClean
  <2>1. w # Nil => jobs'[w.job].mode = jobs[w.job].mode
    BY <1>24, ReconcileCleanIs, RunParts
  <2>2. QED
    BY <1>24, <2>1, ReconcileCleanIs DEF RunFits
<1>25. CASE Crash
  BY <1>25, CrashIs DEF RunFits
<1>26. ASSUME NEW gone \in SUBSET Jobs, Restart(gone) PROVE RunFits'
  <2>1. ~up /\ UNCHANGED w
    BY <1>26 DEF Restart
  <2>2. QED
    BY <2>1 DEF JobsFit, RunFits
<1>27. CASE UNCHANGED vars
  BY <1>27 DEF vars, env, runner, records, requests, seen, RunFits
<1>28. QED
  BY <1>1, <1>2, <1>3, <1>4, <1>5, <1>6, <1>7, <1>8, <1>8a, <1>9, <1>10, <1>11, <1>12, <1>13,
    <1>14, <1>15, <1>16, <1>17, <1>18, <1>19, <1>20, <1>21, <1>22, <1>23, <1>24, <1>25,
    <1>26, <1>27 DEF Next, RunnerNext, PruneNext, OperatorNext, ReconcileNext

\* A job that ends names what its run wrote; later only a deletion of the run
\* takes files away.
LEMMA StepNamed ==
    TypeOK /\ RunsOrdered /\ JobsFit /\ RunFits /\ NamedIsThere /\ [Next]_vars
        => NamedIsThere'
<1> SUFFICES ASSUME TypeOK, RunsOrdered, JobsFit, RunFits, NamedIsThere, [Next]_vars
             PROVE  NamedIsThere'
  OBVIOUS
<1>1. ASSUME NEW j \in Jobs, NEW s \in VMs \cup {Nil}, NEW m \in Modes, NEW b \in BOOLEAN,
             RecordJob(j, s, m, b)
      PROVE  NamedIsThere'
  BY <1>1, RecordJobIs DEF NamedIsThere
<1>2. ASSUME NEW j \in Jobs, NEW s \in SUBSET VMs, StartRun(j, s) PROVE NamedIsThere'
  BY <1>2, StartRunIs DEF NamedIsThere
<1>3. ASSUME NEW i \in Items, CreateArchive(i) PROVE NamedIsThere'
  BY <1>3, CreateArchiveIs DEF NamedIsThere, RunMoves
<1>4. CASE FinishArchive
  <2>1. w.job \in purged \cup blind \/ {w.job} \X (w.done \cup {w.item}) \subseteq files
    BY <1>4, FinishArchiveIs DEF RunFits, RunMoves, RunEnds
  <2>2. QED
    BY <1>4, <2>1, FinishArchiveIs DEF NamedIsThere, RunMoves, RunEnds
<1>5. CASE FailArchive
  <2>1. w # Nil /\ w.phase = "archive" /\ w.item \notin w.done
    BY <1>5, FailArchiveIs, RunParts, BackupConstants DEF RunFits, RunEnds
  <2>2. w.job \in purged \cup blind \/ {w.job} \X w.done \subseteq files'
    BY <1>5, <2>1, FailArchiveIs DEF RunFits
  <2>3. \A k \in Jobs \ {w.job} : {k} \X jobs[k].files \subseteq files
            => {k} \X jobs[k].files \subseteq files'
    BY <1>5, FailArchiveIs
  <2>4. UNCHANGED <<purged, blurred, blind>>
    BY <1>5, FailArchiveIs
  <2>5. jobs'[w.job].files \subseteq w.done /\ \A k \in Jobs \ {w.job} : jobs'[k] = jobs[k]
    BY <1>5, FailArchiveIs DEF RunEnds
  <2>6. QED
    BY <2>2, <2>3, <2>4, <2>5 DEF NamedIsThere
<1>6. CASE FailRun
  <2>1. w.job \in purged \cup blind \/ {w.job} \X w.done \subseteq files
    BY <1>6, FailRunIs DEF RunFits, RunEnds
  <2>2. QED
    BY <1>6, <2>1, FailRunIs DEF NamedIsThere, RunEnds
<1>7. ASSUME NEW v \in VMs, NEW b \in BOOLEAN, ReadParent(v, b) PROVE NamedIsThere'
  BY <1>7, ReadParentIs DEF NamedIsThere, RunMoves
<1>8. CASE BeginBackup
  BY <1>8, BeginBackupIs DEF NamedIsThere, RunMoves
<1>8a. ASSUME NEW b \in BOOLEAN, BackupUnseen(b) PROVE NamedIsThere'
  BY <1>8a, BackupUnseenIs DEF NamedIsThere, RunMoves
<1>9. CASE BeginBackupFails
  <2>1. w.job \in purged \cup blind \/ {w.job} \X w.done \subseteq files
    BY <1>9, BeginBackupFailsIs DEF RunFits, RunEnds
  <2>2. QED
    BY <1>9, <2>1, BeginBackupFailsIs DEF NamedIsThere, RunEnds
<1>10. CASE AppendLoad
  BY <1>10, AppendLoadIs DEF NamedIsThere, RunMoves
<1>11. ASSUME NEW b \in BOOLEAN, AppendSave(b) PROVE NamedIsThere'
  BY <1>11, AppendSaveIs DEF NamedIsThere, RunMoves
<1>12. ASSUME NEW p \in Pruners, PruneList(p) PROVE NamedIsThere'
  BY <1>12, PruneListIs DEF NamedIsThere, PassMoves
<1>13. ASSUME NEW p \in Pruners, NEW b \in BOOLEAN, PruneDecide(p, b) PROVE NamedIsThere'
  BY <1>13, PruneDecideIs DEF NamedIsThere, PassMoves
<1>14. ASSUME NEW p \in Pruners, NEW r \in Jobs, NEW left \in SUBSET FilesOf(r),
             PruneDelete(p, r, left)
      PROVE  NamedIsThere'
  <2>1. \A k \in Jobs \ {r} : {k} \X jobs[k].files \subseteq files
            => {k} \X jobs[k].files \subseteq files'
    BY <1>14, PruneDeleteIs
  <2>2. QED
    BY <1>14, <2>1, PruneDeleteIs DEF NamedIsThere
<1>15. ASSUME NEW p \in Pruners, PruneLoad(p) PROVE NamedIsThere'
  BY <1>15, PruneLoadIs DEF NamedIsThere, PassMoves
<1>16. ASSUME NEW p \in Pruners, NEW v \in VMs, NEW b \in BOOLEAN, PruneDrop(p, v, b)
      PROVE  NamedIsThere'
  BY <1>16, PruneDropIs DEF NamedIsThere, PassMoves
<1>17. ASSUME NEW r \in Jobs, NEW left \in SUBSET FilesOf(r), DeleteRun(r, left)
      PROVE  NamedIsThere'
  <2>1. \A k \in Jobs \ {r} : {k} \X jobs[k].files \subseteq files
            => {k} \X jobs[k].files \subseteq files'
    BY <1>17, DeleteRunIs
  <2>2. QED
    BY <1>17, <2>1, DeleteRunIs DEF NamedIsThere
<1>18. ASSUME NEW v \in VMs, NEW d \in SUBSET Jobs, DropCheckpoints(v, d)
      PROVE  NamedIsThere'
  BY <1>18, DropCheckpointsIs DEF NamedIsThere
<1>19. CASE AdmLoad
  BY <1>19, AdmLoadIs DEF NamedIsThere
<1>20. ASSUME NEW b \in BOOLEAN, AdmSave(b) PROVE NamedIsThere'
  BY <1>20, AdmSaveIs DEF NamedIsThere
<1>21. ASSUME NEW b \in BOOLEAN, ReconcileList(b) PROVE NamedIsThere'
  BY <1>21, ReconcileListIs DEF NamedIsThere
<1>22. CASE ReconcileRead
  BY <1>22, ReconcileReadIs DEF NamedIsThere
<1>23. ASSUME NEW r \in Jobs, ReconcileAdopt(r) PROVE NamedIsThere'
  BY <1>23, ReconcileAdoptIs DEF NamedIsThere
<1>24. CASE ReconcileClean
  <2>1. \A k \in Jobs : jobs'[k].files \subseteq jobs[k].files
    BY <1>24, ReconcileCleanIs
  <2>2. QED
    BY <1>24, <2>1, ReconcileCleanIs DEF NamedIsThere
<1>25. CASE Crash
  BY <1>25, CrashIs DEF NamedIsThere
<1>26. ASSUME NEW gone \in SUBSET Jobs, Restart(gone) PROVE NamedIsThere'
  <2>1. \A k \in Jobs : jobs'[k].files \subseteq jobs[k].files
    BY <1>26, RestartIs
  <2>2. UNCHANGED <<files, purged, blurred, blind>>
    BY <1>26, RestartIs
  <2>3. QED
    BY <2>1, <2>2 DEF NamedIsThere
<1>27. CASE UNCHANGED vars
  BY <1>27 DEF vars, env, runner, records, requests, seen, NamedIsThere
<1>28. QED
  BY <1>1, <1>2, <1>3, <1>4, <1>5, <1>6, <1>7, <1>8, <1>8a, <1>9, <1>10, <1>11, <1>12, <1>13,
    <1>14, <1>15, <1>16, <1>17, <1>18, <1>19, <1>20, <1>21, <1>22, <1>23, <1>24, <1>25,
    <1>26, <1>27 DEF Next, RunnerNext, PruneNext, OperatorNext, ReconcileNext

\* What is settled stays settled: a run that ended is not written any more, and
\* its files only go when it is deleted.
SettledStays ==
    /\ \A j \in Jobs : ~Alive(j) => ~Alive(j)'
    /\ \A f \in Files : Settled(f) => Settled(f)'
    /\ \A f \in files' \ files : f[1] \in Jobs /\ Alive(f[1])
    /\ purged \subseteq purged' /\ blurred \subseteq blurred' /\ blind \subseteq blind'

\* Every step leaves what is settled as it is.
LEMMA SettledStep ==
    TypeOK /\ RunsOrdered /\ JobsFit /\ RunFits /\ [Next]_vars
        => SettledStays
<1> SUFFICES ASSUME TypeOK, RunsOrdered, JobsFit, RunFits, [Next]_vars PROVE SettledStays
  OBVIOUS
<1>0. \A f \in Files : f[1] \in Jobs
  BY DEF Files
<1>0a. w # Nil => w.job \in Jobs /\ Alive(w.job)
  BY RunParts DEF JobsFit, Alive
<1>1. ASSUME NEW j \in Jobs, NEW s \in VMs \cup {Nil}, NEW m \in Modes, NEW b \in BOOLEAN,
             RecordJob(j, s, m, b)
      PROVE  SettledStays
  BY <1>1, <1>0, <1>0a, RecordJobIs DEF SettledStays, Settled, Alive
<1>2. ASSUME NEW j \in Jobs, NEW s \in SUBSET VMs, StartRun(j, s) PROVE SettledStays
  BY <1>2, <1>0, StartRunIs DEF SettledStays, Settled, Alive
<1>3. ASSUME NEW i \in Items, CreateArchive(i) PROVE SettledStays
  BY <1>3, <1>0, <1>0a, CreateArchiveIs DEF SettledStays, Settled, Alive, RunMoves
<1>4. CASE FinishArchive
  BY <1>4, <1>0, <1>0a, FinishArchiveIs DEF SettledStays, Settled, Alive, RunMoves,
    RunEnds
<1>5. CASE FailArchive
  BY <1>5, <1>0, <1>0a, FailArchiveIs DEF SettledStays, Settled, Alive, RunEnds
<1>6. CASE FailRun
  BY <1>6, <1>0, <1>0a, FailRunIs DEF SettledStays, Settled, Alive, RunEnds
<1>7. ASSUME NEW v \in VMs, NEW b \in BOOLEAN, ReadParent(v, b) PROVE SettledStays
  BY <1>7, <1>0, ReadParentIs DEF SettledStays, RunMoves, Settled, Alive
<1>8. CASE BeginBackup
  BY <1>8, <1>0, <1>0a, BeginBackupIs DEF SettledStays, Settled, Alive, RunMoves
<1>8a. ASSUME NEW b \in BOOLEAN, BackupUnseen(b) PROVE SettledStays
  BY <1>8a, <1>0, <1>0a, BackupUnseenIs DEF SettledStays, Settled, Alive, RunMoves
<1>9. CASE BeginBackupFails
  BY <1>9, <1>0, <1>0a, BeginBackupFailsIs DEF SettledStays, Settled, Alive, RunEnds
<1>10. CASE AppendLoad
  BY <1>10, <1>0, AppendLoadIs DEF SettledStays, RunMoves, Settled, Alive
<1>11. ASSUME NEW b \in BOOLEAN, AppendSave(b) PROVE SettledStays
  BY <1>11, <1>0, AppendSaveIs DEF SettledStays, RunMoves, Settled, Alive
<1>12. ASSUME NEW p \in Pruners, PruneList(p) PROVE SettledStays
  BY <1>12, <1>0, PruneListIs DEF SettledStays, PassMoves, Settled, Alive
<1>13. ASSUME NEW p \in Pruners, NEW b \in BOOLEAN, PruneDecide(p, b) PROVE SettledStays
  BY <1>13, <1>0, PruneDecideIs DEF SettledStays, PassMoves, Settled, Alive
<1>14. ASSUME NEW p \in Pruners, NEW r \in Jobs, NEW left \in SUBSET FilesOf(r),
             PruneDelete(p, r, left)
      PROVE  SettledStays
  BY <1>14, <1>0, PruneDeleteIs DEF SettledStays, PassMoves, Settled, Alive
<1>15. ASSUME NEW p \in Pruners, PruneLoad(p) PROVE SettledStays
  BY <1>15, <1>0, PruneLoadIs DEF SettledStays, PassMoves, Settled, Alive
<1>16. ASSUME NEW p \in Pruners, NEW v \in VMs, NEW b \in BOOLEAN, PruneDrop(p, v, b)
      PROVE  SettledStays
  BY <1>16, <1>0, PruneDropIs DEF SettledStays, PassMoves, Settled, Alive
<1>17. ASSUME NEW r \in Jobs, NEW left \in SUBSET FilesOf(r), DeleteRun(r, left)
      PROVE  SettledStays
  BY <1>17, <1>0, DeleteRunIs DEF SettledStays, Settled, Alive
<1>18. ASSUME NEW v \in VMs, NEW d \in SUBSET Jobs, DropCheckpoints(v, d)
      PROVE  SettledStays
  BY <1>18, <1>0, DropCheckpointsIs DEF SettledStays, Settled, Alive
<1>19. CASE AdmLoad
  BY <1>19, <1>0, AdmLoadIs DEF SettledStays, Settled, Alive
<1>20. ASSUME NEW b \in BOOLEAN, AdmSave(b) PROVE SettledStays
  BY <1>20, <1>0, AdmSaveIs DEF SettledStays, Settled, Alive
<1>21. ASSUME NEW b \in BOOLEAN, ReconcileList(b) PROVE SettledStays
  BY <1>21, <1>0, ReconcileListIs DEF SettledStays, Settled, Alive
<1>22. CASE ReconcileRead
  BY <1>22, <1>0, ReconcileReadIs DEF SettledStays, Settled, Alive
<1>23. ASSUME NEW r \in Jobs, ReconcileAdopt(r) PROVE SettledStays
  BY <1>23, <1>0, ReconcileAdoptIs DEF SettledStays, Settled, Alive
<1>24. CASE ReconcileClean
  BY <1>24, <1>0, <1>0a, ReconcileCleanIs DEF SettledStays, Settled, Alive
<1>25. CASE Crash
  BY <1>25, <1>0, <1>0a, CrashIs DEF SettledStays, Settled, Alive
<1>26. ASSUME NEW gone \in SUBSET Jobs, Restart(gone) PROVE SettledStays
  <2>1. UNCHANGED <<files, purged, blurred, blind>>
    BY <1>26, RestartIs
  <2>2. \A j \in Jobs : ~Alive(j) => ~Alive(j)'
    <3>1. \A j \in gone : Alive(j)
      BY <1>26, RestartIs DEF JobsFit, Alive
    <3>2. QED
      BY <1>26, <3>1, RestartIs DEF Alive
  <2>3. QED
    BY <1>0, <2>1, <2>2 DEF SettledStays, Settled
<1>27. CASE UNCHANGED vars
  BY <1>27, <1>0 DEF vars, env, runner, records, requests, seen, SettledStays, Settled,
    Alive
<1>28. QED
  BY <1>1, <1>2, <1>3, <1>4, <1>5, <1>6, <1>7, <1>8, <1>8a, <1>9, <1>10, <1>11, <1>12, <1>13,
    <1>14, <1>15, <1>16, <1>17, <1>18, <1>19, <1>20, <1>21, <1>22, <1>23, <1>24, <1>25,
    <1>26, <1>27 DEF Next, RunnerNext, PruneNext, OperatorNext, ReconcileNext

\* Reconcile adopts settled files, and they stay.
LEMMA StepAdopted ==
    TypeOK /\ RunsOrdered /\ JobsFit /\ RunFits /\ ReadFits /\ AdoptedIsThere /\
    [Next]_vars
        => AdoptedIsThere'
<1> SUFFICES ASSUME TypeOK, RunsOrdered, JobsFit, RunFits, ReadFits, AdoptedIsThere,
                    [Next]_vars
             PROVE  AdoptedIsThere'
  OBVIOUS
<1>0. SettledStays /\ adopted \subseteq Files
  BY SettledStep DEF TypeOK
<1>1. ASSUME NEW j \in Jobs, NEW s \in VMs \cup {Nil}, NEW m \in Modes, NEW b \in BOOLEAN,
             RecordJob(j, s, m, b)
      PROVE  AdoptedIsThere'
  BY <1>1, <1>0, RecordJobIs DEF AdoptedIsThere, SettledStays
<1>2. ASSUME NEW j \in Jobs, NEW s \in SUBSET VMs, StartRun(j, s) PROVE AdoptedIsThere'
  BY <1>2, <1>0, StartRunIs DEF AdoptedIsThere, SettledStays
<1>3. ASSUME NEW i \in Items, CreateArchive(i) PROVE AdoptedIsThere'
  BY <1>3, <1>0, CreateArchiveIs DEF AdoptedIsThere, SettledStays
<1>4. CASE FinishArchive
  BY <1>4, <1>0, FinishArchiveIs DEF AdoptedIsThere, SettledStays
<1>5. CASE FailArchive
  BY <1>5, <1>0, FailArchiveIs DEF AdoptedIsThere, SettledStays
<1>6. CASE FailRun
  BY <1>6, <1>0, FailRunIs DEF AdoptedIsThere, SettledStays
<1>7. ASSUME NEW v \in VMs, NEW b \in BOOLEAN, ReadParent(v, b) PROVE AdoptedIsThere'
  BY <1>7, <1>0, ReadParentIs DEF AdoptedIsThere, SettledStays
<1>8. CASE BeginBackup
  BY <1>8, <1>0, BeginBackupIs DEF AdoptedIsThere, SettledStays
<1>8a. ASSUME NEW b \in BOOLEAN, BackupUnseen(b) PROVE AdoptedIsThere'
  BY <1>8a, <1>0, BackupUnseenIs DEF AdoptedIsThere, SettledStays
<1>9. CASE BeginBackupFails
  BY <1>9, <1>0, BeginBackupFailsIs DEF AdoptedIsThere, SettledStays
<1>10. CASE AppendLoad
  BY <1>10, <1>0, AppendLoadIs DEF AdoptedIsThere, SettledStays
<1>11. ASSUME NEW b \in BOOLEAN, AppendSave(b) PROVE AdoptedIsThere'
  BY <1>11, <1>0, AppendSaveIs DEF AdoptedIsThere, SettledStays
<1>12. ASSUME NEW p \in Pruners, PruneList(p) PROVE AdoptedIsThere'
  BY <1>12, <1>0, PruneListIs DEF AdoptedIsThere, SettledStays
<1>13. ASSUME NEW p \in Pruners, NEW b \in BOOLEAN, PruneDecide(p, b) PROVE AdoptedIsThere'
  BY <1>13, <1>0, PruneDecideIs DEF AdoptedIsThere, SettledStays
<1>14. ASSUME NEW p \in Pruners, NEW r \in Jobs, NEW left \in SUBSET FilesOf(r),
             PruneDelete(p, r, left)
      PROVE  AdoptedIsThere'
  BY <1>14, <1>0, PruneDeleteIs DEF AdoptedIsThere, SettledStays
<1>15. ASSUME NEW p \in Pruners, PruneLoad(p) PROVE AdoptedIsThere'
  BY <1>15, <1>0, PruneLoadIs DEF AdoptedIsThere, SettledStays
<1>16. ASSUME NEW p \in Pruners, NEW v \in VMs, NEW b \in BOOLEAN, PruneDrop(p, v, b)
      PROVE  AdoptedIsThere'
  BY <1>16, <1>0, PruneDropIs DEF AdoptedIsThere, SettledStays
<1>17. ASSUME NEW r \in Jobs, NEW left \in SUBSET FilesOf(r), DeleteRun(r, left)
      PROVE  AdoptedIsThere'
  BY <1>17, <1>0, DeleteRunIs DEF AdoptedIsThere, SettledStays
<1>18. ASSUME NEW v \in VMs, NEW d \in SUBSET Jobs, DropCheckpoints(v, d)
      PROVE  AdoptedIsThere'
  BY <1>18, <1>0, DropCheckpointsIs DEF AdoptedIsThere, SettledStays
<1>19. CASE AdmLoad
  BY <1>19, <1>0, AdmLoadIs DEF AdoptedIsThere, SettledStays
<1>20. ASSUME NEW b \in BOOLEAN, AdmSave(b) PROVE AdoptedIsThere'
  BY <1>20, <1>0, AdmSaveIs DEF AdoptedIsThere, SettledStays
<1>21. ASSUME NEW b \in BOOLEAN, ReconcileList(b) PROVE AdoptedIsThere'
  BY <1>21, <1>0, ReconcileListIs DEF AdoptedIsThere, SettledStays
<1>22. CASE ReconcileRead
  BY <1>22, <1>0, ReconcileReadIs DEF AdoptedIsThere, SettledStays
<1>23. ASSUME NEW r \in Jobs, ReconcileAdopt(r) PROVE AdoptedIsThere'
  <2>1. rec.orphans \subseteq Files /\ adopted' \subseteq adopted \cup rec.orphans
    BY <1>23, ReconcileAdoptIs, ReconcileParts
  <2>2. \A f \in adopted \cup rec.orphans : Settled(f)
    BY <1>23, ReconcileAdoptIs DEF AdoptedIsThere, ReadFits
  <2>3. QED
    BY <1>0, <2>1, <2>2 DEF AdoptedIsThere, SettledStays
<1>24. CASE ReconcileClean
  BY <1>24, <1>0, ReconcileCleanIs DEF AdoptedIsThere, SettledStays
<1>25. CASE Crash
  BY <1>25, <1>0, CrashIs DEF AdoptedIsThere, SettledStays
<1>26. ASSUME NEW gone \in SUBSET Jobs, Restart(gone) PROVE AdoptedIsThere'
  BY <1>26, <1>0, RestartIs DEF AdoptedIsThere, SettledStays
<1>27. CASE UNCHANGED vars
  BY <1>27, <1>0 DEF vars, requests, AdoptedIsThere, SettledStays
<1>28. QED
  BY <1>1, <1>2, <1>3, <1>4, <1>5, <1>6, <1>7, <1>8, <1>8a, <1>9, <1>10, <1>11, <1>12, <1>13,
    <1>14, <1>15, <1>16, <1>17, <1>18, <1>19, <1>20, <1>21, <1>22, <1>23, <1>24, <1>25,
    <1>26, <1>27 DEF Next, RunnerNext, PruneNext, OperatorNext, ReconcileNext

\* While Reconcile works, runs that had ended do not change, and those that had
\* not are taken for blurred when it reads the log.
LEMMA StepRead ==
    TypeOK /\ RunsOrdered /\ JobsFit /\ RunFits /\ NamedIsThere /\ AdoptedIsThere /\
    ReadFits /\ [Next]_vars
        => ReadFits'
<1> SUFFICES ASSUME TypeOK, RunsOrdered, JobsFit, RunFits, NamedIsThere, AdoptedIsThere,
                    ReadFits, [Next]_vars
             PROVE  ReadFits'
  OBVIOUS
<1>0. ASSUME UNCHANGED rec PROVE ReadFits'
  <2> SUFFICES ASSUME rec # Nil PROVE ReadFits'
    BY <1>0 DEF ReadFits
  <2>1. SettledStays
    BY SettledStep
  <2>2. rec.listed \subseteq Files /\ rec.orphans \subseteq Files
    BY ReconcileParts
  <2>3. ASSUME rec.pc = "read"
        PROVE  /\ \A f \in rec.listed : f[1] \in rec.alive \/ Settled(f)'
               /\ \A j \in Jobs \ rec.alive : ~Alive(j)'
               /\ \A f \in files' : \/ f[1] \in rec.alive \cup purged' \cup blurred'
                                    \/ f \in rec.listed
    BY <2>1, <2>2, <2>3 DEF ReadFits, SettledStays
  <2>4. ASSUME rec.pc = "adopt"
        PROVE  /\ \A f \in rec.orphans : Settled(f)'
               /\ \A f \in rec.ghosts : f[1] \in purged' \cup blurred' \cup blind'
    BY <2>1, <2>2, <2>4 DEF ReadFits, SettledStays
  <2>5. QED
    BY <1>0, <2>3, <2>4 DEF ReadFits
<1>1. ASSUME NEW j \in Jobs, NEW s \in VMs \cup {Nil}, NEW m \in Modes, NEW b \in BOOLEAN,
             RecordJob(j, s, m, b)
      PROVE  ReadFits'
  BY <1>1, <1>0, RecordJobIs
<1>2. ASSUME NEW j \in Jobs, NEW s \in SUBSET VMs, StartRun(j, s) PROVE ReadFits'
  BY <1>2, <1>0, StartRunIs
<1>3. ASSUME NEW i \in Items, CreateArchive(i) PROVE ReadFits'
  BY <1>3, <1>0, CreateArchiveIs
<1>4. CASE FinishArchive
  BY <1>4, <1>0, FinishArchiveIs
<1>5. CASE FailArchive
  BY <1>5, <1>0, FailArchiveIs
<1>6. CASE FailRun
  BY <1>6, <1>0, FailRunIs
<1>7. ASSUME NEW v \in VMs, NEW b \in BOOLEAN, ReadParent(v, b) PROVE ReadFits'
  BY <1>7, <1>0, ReadParentIs
<1>8. CASE BeginBackup
  BY <1>8, <1>0, BeginBackupIs
<1>8a. ASSUME NEW b \in BOOLEAN, BackupUnseen(b) PROVE ReadFits'
  BY <1>8a, <1>0, BackupUnseenIs
<1>9. CASE BeginBackupFails
  BY <1>9, <1>0, BeginBackupFailsIs
<1>10. CASE AppendLoad
  BY <1>10, <1>0, AppendLoadIs
<1>11. ASSUME NEW b \in BOOLEAN, AppendSave(b) PROVE ReadFits'
  BY <1>11, <1>0, AppendSaveIs
<1>12. ASSUME NEW p \in Pruners, PruneList(p) PROVE ReadFits'
  BY <1>12, <1>0, PruneListIs
<1>13. ASSUME NEW p \in Pruners, NEW b \in BOOLEAN, PruneDecide(p, b) PROVE ReadFits'
  BY <1>13, <1>0, PruneDecideIs
<1>14. ASSUME NEW p \in Pruners, NEW r \in Jobs, NEW left \in SUBSET FilesOf(r),
             PruneDelete(p, r, left)
      PROVE  ReadFits'
  BY <1>14, <1>0, PruneDeleteIs
<1>15. ASSUME NEW p \in Pruners, PruneLoad(p) PROVE ReadFits'
  BY <1>15, <1>0, PruneLoadIs
<1>16. ASSUME NEW p \in Pruners, NEW v \in VMs, NEW b \in BOOLEAN, PruneDrop(p, v, b)
      PROVE  ReadFits'
  BY <1>16, <1>0, PruneDropIs
<1>17. ASSUME NEW r \in Jobs, NEW left \in SUBSET FilesOf(r), DeleteRun(r, left)
      PROVE  ReadFits'
  BY <1>17, <1>0, DeleteRunIs
<1>18. ASSUME NEW v \in VMs, NEW d \in SUBSET Jobs, DropCheckpoints(v, d) PROVE ReadFits'
  BY <1>18, <1>0, DropCheckpointsIs
<1>19. CASE AdmLoad
  BY <1>19, <1>0, AdmLoadIs
<1>20. ASSUME NEW b \in BOOLEAN, AdmSave(b) PROVE ReadFits'
  BY <1>20, <1>0, AdmSaveIs
<1>21. ASSUME NEW b \in BOOLEAN, ReconcileList(b) PROVE ReadFits'
  <2>1. \A f \in rec'.listed : f \in files /\ b
    BY <1>21, ReconcileListIs
  <2>2. \A j \in Jobs \ rec'.alive : b /\ ~Alive(j)
    BY <1>21, ReconcileListIs
  <2>3. \A f \in files : f[1] \in Jobs
    BY DEF TypeOK, Files
  <2>4. \A f \in rec'.listed : f[1] \in rec'.alive \/ Settled(f)'
    BY <1>21, <2>1, <2>2, <2>3, ReconcileListIs DEF Settled, Alive
  <2>5. \A j \in Jobs \ rec'.alive : ~Alive(j)'
    BY <1>21, <2>2, ReconcileListIs DEF Alive
  <2>6. \A f \in files' : f[1] \in rec'.alive \/ f \in rec'.listed
    BY <1>21, <2>2, <2>3, ReconcileListIs
  <2>7. QED
    BY <1>21, <2>4, <2>5, <2>6, ReconcileListIs DEF ReadFits
<1>22. CASE ReconcileRead
  <2>1. rec # Nil /\ rec.pc = "read" /\ rec.listed \subseteq Files /\ adopted \subseteq Files
    BY <1>22, ReconcileReadIs, ReconcileParts DEF TypeOK
  <2>2. SettledStays
    BY SettledStep
  <2>3. \A f \in Files : f[1] \in rec.alive /\ time[f[1]] > 0 => f[1] \in blurred'
    BY <1>22, ReconcileReadIs
  <2>4. \A f \in rec.listed : Settled(f)'
    BY <2>1, <2>2, <2>3 DEF ReadFits, RunsOrdered, SettledStays, Settled
  <2>5. \A f \in Indexed : f \in Files /\ time[f[1]] > 0
    BY <2>1 DEF Indexed, RunsOrdered, Files
  <2>6. \A f \in Indexed : f \in files \/ f[1] \in purged \cup blurred \cup blind
      <3>1. \A f \in adopted : f \in files \/ f[1] \in purged \cup blurred
      BY DEF AdoptedIsThere, Settled
    <3>2. ASSUME NEW f \in Files, f[2] \in jobs[f[1]].files,
                      f[1] \notin purged \cup blurred \cup blind
          PROVE  f \in files
      <4>1. f = <<f[1], f[2]>> /\ f[1] \in Jobs
        BY DEF Files
      <4>2. {f[1]} \X jobs[f[1]].files \subseteq files
        BY <3>2, <4>1 DEF NamedIsThere
      <4>3. QED
        BY <3>2, <4>1, <4>2
    <3>3. QED
      BY <3>1, <3>2 DEF Indexed
  <2>7. \A f \in Indexed \ rec.listed : f[1] \in purged' \cup blurred' \cup blind'
    BY <1>22, <2>1, <2>3, <2>5, <2>6, ReconcileReadIs DEF ReadFits
  <2>8. QED
    BY <1>22, <2>4, <2>7, ReconcileReadIs DEF ReadFits
<1>23. ASSUME NEW r \in Jobs, ReconcileAdopt(r) PROVE ReadFits'
  <2>1. SettledStays /\ rec.orphans \subseteq Files
    BY <1>23, SettledStep, ReconcileAdoptIs, ReconcileParts
  <2>2. \A f \in rec.orphans : Settled(f)'
    BY <1>23, <2>1, ReconcileAdoptIs DEF ReadFits, SettledStays
  <2>3. QED
    BY <1>23, <2>2, ReconcileAdoptIs DEF ReadFits
<1>24. CASE ReconcileClean
  BY <1>24, ReconcileCleanIs DEF ReadFits
<1>25. CASE Crash
  BY <1>25, CrashIs DEF ReadFits
<1>26. ASSUME NEW gone \in SUBSET Jobs, Restart(gone) PROVE ReadFits'
  BY <1>26, <1>0, RestartIs
<1>27. CASE UNCHANGED vars
  BY <1>27, <1>0 DEF vars, requests
<1>28. QED
  BY <1>1, <1>2, <1>3, <1>4, <1>5, <1>6, <1>7, <1>8, <1>8a, <1>9, <1>10, <1>11, <1>12, <1>13,
    <1>14, <1>15, <1>16, <1>17, <1>18, <1>19, <1>20, <1>21, <1>22, <1>23, <1>24, <1>25,
    <1>26, <1>27 DEF Next, RunnerNext, PruneNext, OperatorNext, ReconcileNext

\* Reconcile strikes ghosts only, which are of purged, blurred or blind runs.
LEMMA StepRecords ==
    TypeOK /\ RunsOrdered /\ RunFits /\ ReadFits /\ RecordsKept /\ [Next]_vars
        => RecordsKept'
<1> SUFFICES ASSUME TypeOK, RunsOrdered, RunFits, ReadFits, RecordsKept, [Next]_vars
             PROVE  RecordsKept'
  OBVIOUS
<1>1. ASSUME NEW j \in Jobs, NEW s \in VMs \cup {Nil}, NEW m \in Modes, NEW b \in BOOLEAN,
             RecordJob(j, s, m, b)
      PROVE  RecordsKept'
  <2>1. /\ jobs'[j].files = {} /\ jobs'[j].named = {}
        /\ \A k \in Jobs \ {j} : jobs'[k] = jobs[k]
    BY <1>1, RecordJobIs
  <2>2. UNCHANGED <<purged, blurred, blind>>
    BY <1>1, RecordJobIs
  <2>3. QED
    BY <2>1, <2>2 DEF RecordsKept
<1>2. ASSUME NEW j \in Jobs, NEW s \in SUBSET VMs, StartRun(j, s) PROVE RecordsKept'
  BY <1>2, StartRunIs DEF RecordsKept
<1>3. ASSUME NEW i \in Items, CreateArchive(i) PROVE RecordsKept'
  BY <1>3, CreateArchiveIs DEF RecordsKept, RunMoves
<1>4. CASE FinishArchive
  BY <1>4, FinishArchiveIs DEF RecordsKept, RunMoves, RunEnds
<1>5. CASE FailArchive
  BY <1>5, FailArchiveIs DEF RecordsKept, RunEnds
<1>6. CASE FailRun
  BY <1>6, FailRunIs DEF RecordsKept, RunEnds
<1>7. ASSUME NEW v \in VMs, NEW b \in BOOLEAN, ReadParent(v, b) PROVE RecordsKept'
  BY <1>7, ReadParentIs DEF RecordsKept, RunMoves
<1>8. CASE BeginBackup
  BY <1>8, BeginBackupIs DEF RecordsKept, RunMoves
<1>8a. ASSUME NEW b \in BOOLEAN, BackupUnseen(b) PROVE RecordsKept'
  BY <1>8a, BackupUnseenIs DEF RecordsKept, RunMoves
<1>9. CASE BeginBackupFails
  BY <1>9, BeginBackupFailsIs DEF RecordsKept, RunEnds
<1>10. CASE AppendLoad
  BY <1>10, AppendLoadIs DEF RecordsKept, RunMoves
<1>11. ASSUME NEW b \in BOOLEAN, AppendSave(b) PROVE RecordsKept'
  BY <1>11, AppendSaveIs DEF RecordsKept, RunMoves
<1>12. ASSUME NEW p \in Pruners, PruneList(p) PROVE RecordsKept'
  BY <1>12, PruneListIs DEF RecordsKept, PassMoves
<1>13. ASSUME NEW p \in Pruners, NEW b \in BOOLEAN, PruneDecide(p, b) PROVE RecordsKept'
  BY <1>13, PruneDecideIs DEF RecordsKept, PassMoves
<1>14. ASSUME NEW p \in Pruners, NEW r \in Jobs, NEW left \in SUBSET FilesOf(r),
             PruneDelete(p, r, left)
      PROVE  RecordsKept'
  BY <1>14, PruneDeleteIs DEF RecordsKept, PassMoves
<1>15. ASSUME NEW p \in Pruners, PruneLoad(p) PROVE RecordsKept'
  BY <1>15, PruneLoadIs DEF RecordsKept, PassMoves
<1>16. ASSUME NEW p \in Pruners, NEW v \in VMs, NEW b \in BOOLEAN, PruneDrop(p, v, b)
      PROVE  RecordsKept'
  BY <1>16, PruneDropIs DEF RecordsKept, PassMoves
<1>17. ASSUME NEW r \in Jobs, NEW left \in SUBSET FilesOf(r), DeleteRun(r, left)
      PROVE  RecordsKept'
  BY <1>17, DeleteRunIs DEF RecordsKept
<1>18. ASSUME NEW v \in VMs, NEW d \in SUBSET Jobs, DropCheckpoints(v, d) PROVE RecordsKept'
  BY <1>18, DropCheckpointsIs DEF RecordsKept
<1>19. CASE AdmLoad
  BY <1>19, AdmLoadIs DEF RecordsKept
<1>20. ASSUME NEW b \in BOOLEAN, AdmSave(b) PROVE RecordsKept'
  BY <1>20, AdmSaveIs DEF RecordsKept
<1>21. ASSUME NEW b \in BOOLEAN, ReconcileList(b) PROVE RecordsKept'
  BY <1>21, ReconcileListIs DEF RecordsKept
<1>22. CASE ReconcileRead
  BY <1>22, ReconcileReadIs DEF RecordsKept
<1>23. ASSUME NEW r \in Jobs, ReconcileAdopt(r) PROVE RecordsKept'
  BY <1>23, ReconcileAdoptIs DEF RecordsKept
<1>24. CASE ReconcileClean
  <2>1. \A f \in rec.ghosts : f[1] \in purged \cup blurred \cup blind
    BY <1>24, ReconcileCleanIs DEF ReadFits
  <2>2. \A j \in Jobs : jobs'[j] = jobs[j] \/ j \in purged \cup blurred \cup blind
    BY <1>24, <2>1, ReconcileCleanIs
  <2>3. QED
    BY <1>24, <2>2, ReconcileCleanIs DEF RecordsKept
<1>25. CASE Crash
  BY <1>25, CrashIs DEF RecordsKept
<1>26. ASSUME NEW gone \in SUBSET Jobs, Restart(gone) PROVE RecordsKept'
  <2>1. \A j \in Jobs : jobs'[j].files # jobs'[j].named => jobs[j].files # jobs[j].named
    BY <1>26, RestartIs
  <2>2. UNCHANGED <<purged, blurred, blind>>
    BY <1>26, RestartIs
  <2>3. QED
    BY <2>1, <2>2 DEF RecordsKept
<1>27. CASE UNCHANGED vars
  BY <1>27 DEF vars, env, runner, records, requests, seen, RecordsKept
<1>28. QED
  BY <1>1, <1>2, <1>3, <1>4, <1>5, <1>6, <1>7, <1>8, <1>8a, <1>9, <1>10, <1>11, <1>12, <1>13,
    <1>14, <1>15, <1>16, <1>17, <1>18, <1>19, <1>20, <1>21, <1>22, <1>23, <1>24, <1>25,
    <1>26, <1>27 DEF Next, RunnerNext, PruneNext, OperatorNext, ReconcileNext

\* A run succeeds when nothing is left to write; a record that Reconcile cuts is
\* of a purged, blurred or blind run.
LEMMA StepComplete ==
    TypeOK /\ RunsOrdered /\ JobsFit /\ RunFits /\ ReadFits /\ Complete /\ [Next]_vars
        => Complete'
<1> SUFFICES ASSUME TypeOK, RunsOrdered, JobsFit, RunFits, ReadFits, Complete, [Next]_vars
             PROVE  Complete'
  OBVIOUS
<1>1. ASSUME NEW j \in Jobs, NEW s \in VMs \cup {Nil}, NEW m \in Modes, NEW b \in BOOLEAN,
             RecordJob(j, s, m, b)
      PROVE  Complete'
  BY <1>1, RecordJobIs DEF Complete
<1>2. ASSUME NEW j \in Jobs, NEW s \in SUBSET VMs, StartRun(j, s) PROVE Complete'
  <2>1. jobs[j].status # "success"
    BY <1>2, StartRunIs DEF JobsFit
  <2>2. QED
    BY <1>2, <2>1, StartRunIs DEF Complete
<1>3. ASSUME NEW i \in Items, CreateArchive(i) PROVE Complete'
  BY <1>3, CreateArchiveIs DEF Complete, RunMoves
<1>4. CASE FinishArchive
  <2>1. w.item = Config => want[w.job] \subseteq w.done
    BY <1>4, FinishArchiveIs, RunParts, BackupConstants DEF RunFits, RunEnds
  <2>2. QED
    BY <1>4, <2>1, FinishArchiveIs DEF Complete, RunMoves, RunEnds
<1>5. CASE FailArchive
  <2>1. jobs[w.job].mode = "incremental" => want[w.job] \subseteq w.done
    BY <1>5, FailArchiveIs DEF RunFits, RunEnds
  <2>2. QED
    BY <1>5, <2>1, FailArchiveIs DEF Complete, RunEnds
<1>6. CASE FailRun
  BY <1>6, FailRunIs DEF Complete, RunEnds
<1>7. ASSUME NEW v \in VMs, NEW b \in BOOLEAN, ReadParent(v, b) PROVE Complete'
  BY <1>7, ReadParentIs DEF Complete, RunMoves
<1>8. CASE BeginBackup
  BY <1>8, BeginBackupIs DEF Complete, RunMoves
<1>8a. ASSUME NEW b \in BOOLEAN, BackupUnseen(b) PROVE Complete'
  BY <1>8a, BackupUnseenIs DEF Complete, RunMoves
<1>9. CASE BeginBackupFails
  BY <1>9, BeginBackupFailsIs DEF Complete, RunEnds
<1>10. CASE AppendLoad
  BY <1>10, AppendLoadIs DEF Complete, RunMoves
<1>11. ASSUME NEW b \in BOOLEAN, AppendSave(b) PROVE Complete'
  BY <1>11, AppendSaveIs DEF Complete, RunMoves
<1>12. ASSUME NEW p \in Pruners, PruneList(p) PROVE Complete'
  BY <1>12, PruneListIs DEF Complete, PassMoves
<1>13. ASSUME NEW p \in Pruners, NEW b \in BOOLEAN, PruneDecide(p, b) PROVE Complete'
  BY <1>13, PruneDecideIs DEF Complete, PassMoves
<1>14. ASSUME NEW p \in Pruners, NEW r \in Jobs, NEW left \in SUBSET FilesOf(r),
             PruneDelete(p, r, left)
      PROVE  Complete'
  BY <1>14, PruneDeleteIs DEF Complete, PassMoves
<1>15. ASSUME NEW p \in Pruners, PruneLoad(p) PROVE Complete'
  BY <1>15, PruneLoadIs DEF Complete, PassMoves
<1>16. ASSUME NEW p \in Pruners, NEW v \in VMs, NEW b \in BOOLEAN, PruneDrop(p, v, b)
      PROVE  Complete'
  BY <1>16, PruneDropIs DEF Complete, PassMoves
<1>17. ASSUME NEW r \in Jobs, NEW left \in SUBSET FilesOf(r), DeleteRun(r, left)
      PROVE  Complete'
  BY <1>17, DeleteRunIs DEF Complete
<1>18. ASSUME NEW v \in VMs, NEW d \in SUBSET Jobs, DropCheckpoints(v, d) PROVE Complete'
  BY <1>18, DropCheckpointsIs DEF Complete
<1>19. CASE AdmLoad
  BY <1>19, AdmLoadIs DEF Complete
<1>20. ASSUME NEW b \in BOOLEAN, AdmSave(b) PROVE Complete'
  BY <1>20, AdmSaveIs DEF Complete
<1>21. ASSUME NEW b \in BOOLEAN, ReconcileList(b) PROVE Complete'
  BY <1>21, ReconcileListIs DEF Complete
<1>22. CASE ReconcileRead
  BY <1>22, ReconcileReadIs DEF Complete
<1>23. ASSUME NEW r \in Jobs, ReconcileAdopt(r) PROVE Complete'
  BY <1>23, ReconcileAdoptIs DEF Complete
<1>24. CASE ReconcileClean
  <2>1. \A f \in rec.ghosts : f[1] \in purged \cup blurred \cup blind
    BY <1>24, ReconcileCleanIs DEF ReadFits
  <2>2. \A j \in Jobs : jobs'[j] = jobs[j] \/ j \in purged \cup blurred \cup blind
    BY <1>24, <2>1, ReconcileCleanIs
  <2>3. QED
    BY <1>24, <2>2, ReconcileCleanIs DEF Complete
<1>25. CASE Crash
  BY <1>25, CrashIs DEF Complete
<1>26. ASSUME NEW gone \in SUBSET Jobs, Restart(gone) PROVE Complete'
  BY <1>26, RestartIs DEF Complete
<1>27. CASE UNCHANGED vars
  BY <1>27 DEF vars, env, runner, records, requests, seen, Complete
<1>28. QED
  BY <1>1, <1>2, <1>3, <1>4, <1>5, <1>6, <1>7, <1>8, <1>8a, <1>9, <1>10, <1>11, <1>12, <1>13,
    <1>14, <1>15, <1>16, <1>17, <1>18, <1>19, <1>20, <1>21, <1>22, <1>23, <1>24, <1>25,
    <1>26, <1>27 DEF Next, RunnerNext, PruneNext, OperatorNext, ReconcileNext

\* No rule drops the newest run of a group, and the run that is being written is
\* the newest of all.
LEMMA NewestKept ==
    ASSUME TypeOK, RunsOrdered, w # Nil, NEW runs \in SUBSET Jobs, w.job \in runs
    PROVE  w.job \in Keep(runs)
<1> DEFINE g == runScope(w.job)
           G == {r \in runs : runScope(r) = g}
<1>1. w.job \in Jobs /\ w.job \in G
  BY RunParts
<1>2. g \in VMs \cup {Nil}
  BY <1>1 DEF runScope, TypeOK, JobType
<1>3. Newer(G, time, w.job) = {}
  BY <1>1 DEF Newer, RunsOrdered, TypeOK
<1>4. \A q \in Tiers : {s \in Newer(G, time, w.job) :
        retentionBucket(time[s], q) = retentionBucket(time[w.job], q)} = {}
  BY <1>3
<1>5. Cardinality({}) = 0
  BY FS_EmptySet
<1>6. /\ Policy.keepLast \in Nat /\ Policy.keepDays \in Nat
      /\ \A q \in Tiers : Policy.tier[q] \in Nat
      /\ Enabled(Policy)
  BY BackupConstants
<1>7. Clock - time[w.job] = 0
  BY <1>1 DEF RunsOrdered, TypeOK
<1> HIDE DEF g, G
<1>8. \/ Cardinality(Newer(G, time, w.job)) < Policy.keepLast
      \/ Policy.keepDays > 0 /\ Clock - time[w.job] <= Policy.keepDays
      \/ \E q \in Tiers : Cardinality({s \in Newer(G, time, w.job) :
             retentionBucket(time[s], q) = retentionBucket(time[w.job], q)}) < Policy.tier[q]
  <2>1. CASE Policy.keepLast > 0
    BY <1>3, <1>5, <1>6, <2>1
  <2>2. CASE Policy.keepDays > 0
    BY <1>6, <1>7, <2>2
  <2>3. CASE \E q \in Tiers : Policy.tier[q] > 0
    BY <1>4, <1>5, <1>6, <2>3
  <2>4. QED
    BY <1>6, <2>1, <2>2, <2>3 DEF Enabled
<1>9. w.job \in decideRetention(Policy, Clock, G, time)
  BY <1>1, <1>6, <1>8 DEF decideRetention
<1>10. QED
  BY <1>2, <1>9 DEF Keep, G

\* A pass that decides keeps the run that is being written, and one that has
\* decided holds none that is yet to start.
LEMMA StepIntact ==
    TypeOK /\ RunsOrdered /\ RunFits /\ RunningRunIntact /\ [Next]_vars
        => RunningRunIntact'
<1> SUFFICES ASSUME TypeOK, RunsOrdered, RunFits, RunningRunIntact, [Next]_vars
             PROVE  RunningRunIntact'
  OBVIOUS
<1>1. ASSUME NEW j \in Jobs, NEW s \in VMs \cup {Nil}, NEW m \in Modes, NEW b \in BOOLEAN,
             RecordJob(j, s, m, b)
      PROVE  RunningRunIntact'
  BY <1>1, RecordJobIs DEF RunningRunIntact
<1>2. ASSUME NEW j \in Jobs, NEW s \in SUBSET VMs, StartRun(j, s) PROVE RunningRunIntact'
  <2>1. \A p \in Pruners : \A r \in prune[p].runs : time[r] > 0 /\ time[j] = 0
    BY <1>2, StartRunIs DEF RunsOrdered
  <2>2. \A p \in Pruners : j \notin prune[p].runs
    BY <2>1
  <2>3. QED
    BY <1>2, <2>2, StartRunIs DEF RunningRunIntact
<1>3. ASSUME NEW i \in Items, CreateArchive(i) PROVE RunningRunIntact'
  BY <1>3, CreateArchiveIs DEF RunningRunIntact, RunMoves
<1>4. CASE FinishArchive
  BY <1>4, FinishArchiveIs DEF RunningRunIntact, RunMoves, RunEnds
<1>5. CASE FailArchive
  BY <1>5, FailArchiveIs DEF RunningRunIntact, RunEnds
<1>6. CASE FailRun
  BY <1>6, FailRunIs DEF RunningRunIntact, RunEnds
<1>7. ASSUME NEW v \in VMs, NEW b \in BOOLEAN, ReadParent(v, b) PROVE RunningRunIntact'
  BY <1>7, ReadParentIs DEF RunningRunIntact, RunMoves
<1>8. CASE BeginBackup
  BY <1>8, BeginBackupIs DEF RunningRunIntact, RunMoves
<1>8a. ASSUME NEW b \in BOOLEAN, BackupUnseen(b) PROVE RunningRunIntact'
  BY <1>8a, BackupUnseenIs DEF RunningRunIntact, RunMoves
<1>9. CASE BeginBackupFails
  BY <1>9, BeginBackupFailsIs DEF RunningRunIntact, RunEnds
<1>10. CASE AppendLoad
  BY <1>10, AppendLoadIs DEF RunningRunIntact, RunMoves
<1>11. ASSUME NEW b \in BOOLEAN, AppendSave(b) PROVE RunningRunIntact'
  BY <1>11, AppendSaveIs DEF RunningRunIntact, RunMoves
<1>12. ASSUME NEW p \in Pruners, PruneList(p) PROVE RunningRunIntact'
  BY <1>12, PruneListIs DEF RunningRunIntact, PassMoves
<1>13. ASSUME NEW p \in Pruners, NEW b \in BOOLEAN, PruneDecide(p, b) PROVE RunningRunIntact'
  <2>1. prune[p].runs \in SUBSET Jobs
    BY PassParts
  <2>2. w # Nil => w.job \notin prune[p].runs \ Keep(prune[p].runs)
    BY <2>1, NewestKept
  <2>3. QED
    BY <1>13, <2>2, PruneDecideIs DEF RunningRunIntact, PassMoves
<1>14. ASSUME NEW p \in Pruners, NEW r \in Jobs, NEW left \in SUBSET FilesOf(r),
             PruneDelete(p, r, left)
      PROVE  RunningRunIntact'
  BY <1>14, PruneDeleteIs DEF RunningRunIntact, PassMoves
<1>15. ASSUME NEW p \in Pruners, PruneLoad(p) PROVE RunningRunIntact'
  BY <1>15, PruneLoadIs DEF RunningRunIntact, PassMoves
<1>16. ASSUME NEW p \in Pruners, NEW v \in VMs, NEW b \in BOOLEAN, PruneDrop(p, v, b)
      PROVE  RunningRunIntact'
  BY <1>16, PruneDropIs DEF RunningRunIntact, PassMoves
<1>17. ASSUME NEW r \in Jobs, NEW left \in SUBSET FilesOf(r), DeleteRun(r, left)
      PROVE  RunningRunIntact'
  BY <1>17, DeleteRunIs DEF RunningRunIntact
<1>18. ASSUME NEW v \in VMs, NEW d \in SUBSET Jobs, DropCheckpoints(v, d)
      PROVE  RunningRunIntact'
  BY <1>18, DropCheckpointsIs DEF RunningRunIntact
<1>19. CASE AdmLoad
  BY <1>19, AdmLoadIs DEF RunningRunIntact
<1>20. ASSUME NEW b \in BOOLEAN, AdmSave(b) PROVE RunningRunIntact'
  BY <1>20, AdmSaveIs DEF RunningRunIntact
<1>21. ASSUME NEW b \in BOOLEAN, ReconcileList(b) PROVE RunningRunIntact'
  BY <1>21, ReconcileListIs DEF RunningRunIntact
<1>22. CASE ReconcileRead
  BY <1>22, ReconcileReadIs DEF RunningRunIntact
<1>23. ASSUME NEW r \in Jobs, ReconcileAdopt(r) PROVE RunningRunIntact'
  BY <1>23, ReconcileAdoptIs DEF RunningRunIntact
<1>24. CASE ReconcileClean
  BY <1>24, ReconcileCleanIs DEF RunningRunIntact
<1>25. CASE Crash
  BY <1>25, CrashIs DEF RunningRunIntact
<1>26. ASSUME NEW gone \in SUBSET Jobs, Restart(gone) PROVE RunningRunIntact'
  BY <1>26, RestartIs DEF RunningRunIntact
<1>27. CASE UNCHANGED vars
  BY <1>27 DEF vars, env, runner, records, requests, seen, RunningRunIntact
<1>28. QED
  BY <1>1, <1>2, <1>3, <1>4, <1>5, <1>6, <1>7, <1>8, <1>8a, <1>9, <1>10, <1>11, <1>12, <1>13,
    <1>14, <1>15, <1>16, <1>17, <1>18, <1>19, <1>20, <1>21, <1>22, <1>23, <1>24, <1>25,
    <1>26, <1>27 DEF Next, RunnerNext, PruneNext, OperatorNext, ReconcileNext

\* A file without chains is sound.
LEMMA NoneSound == \A R : Sound(<<>>, R)
BY DEF Sound

\* Excusing more machines does not hurt.
LEMMA SoundGrows == ASSUME NEW R, NEW T, R \subseteq T, NEW cs, Sound(cs, R) PROVE Sound(cs, T)
BY DEF Sound

\* A save writes what was loaded with one chain more, longer or less; the entry
\* that is appended names the last one of the copy.
LEMMA StepCopies ==
    TypeOK /\ RunsOrdered /\ RunFits /\ ParentIsTip /\ CopiesGrounded /\ [Next]_vars
        => CopiesGrounded'
<1> SUFFICES ASSUME TypeOK, RunsOrdered, RunFits, ParentIsTip, CopiesGrounded, [Next]_vars
             PROVE  CopiesGrounded'
  OBVIOUS
<1>1. ASSUME NEW j \in Jobs, NEW s \in VMs \cup {Nil}, NEW m \in Modes, NEW b \in BOOLEAN,
             RecordJob(j, s, m, b)
      PROVE  CopiesGrounded'
  BY <1>1, RecordJobIs DEF CopiesGrounded
<1>2. ASSUME NEW j \in Jobs, NEW s \in SUBSET VMs, StartRun(j, s) PROVE CopiesGrounded'
  BY <1>2, StartRunIs, NoneSound DEF CopiesGrounded
<1>3. ASSUME NEW i \in Items, CreateArchive(i) PROVE CopiesGrounded'
  BY <1>3, CreateArchiveIs DEF CopiesGrounded, RunMoves
<1>4. CASE FinishArchive
  BY <1>4, FinishArchiveIs DEF CopiesGrounded, RunMoves, RunEnds
<1>5. CASE FailArchive
  BY <1>5, FailArchiveIs DEF CopiesGrounded, RunEnds
<1>6. CASE FailRun
  BY <1>6, FailRunIs DEF CopiesGrounded, RunEnds
<1>7. ASSUME NEW v \in VMs, NEW b \in BOOLEAN, ReadParent(v, b) PROVE CopiesGrounded'
  <2>1. \A cs : Sound(cs, raced) => Sound(cs, raced')
    <3>1. raced \subseteq raced'
      BY <1>7, ReadParentIs
    <3>2. QED
      BY <3>1, SoundGrows
  <2>2. w # Nil /\ w'.loaded = w.loaded /\ UNCHANGED <<chains, prune, adm>>
    BY <1>7, ReadParentIs DEF RunMoves
  <2>3. QED
    BY <2>1, <2>2 DEF CopiesGrounded
<1>8. CASE BeginBackup
  BY <1>8, BeginBackupIs DEF CopiesGrounded, RunMoves
<1>8a. ASSUME NEW b \in BOOLEAN, BackupUnseen(b) PROVE CopiesGrounded'
  BY <1>8a, BackupUnseenIs DEF CopiesGrounded, RunMoves
<1>9. CASE BeginBackupFails
  BY <1>9, BeginBackupFailsIs DEF CopiesGrounded, RunEnds
<1>10. CASE AppendLoad
  BY <1>10, AppendLoadIs DEF CopiesGrounded, RunMoves
<1>11. ASSUME NEW b \in BOOLEAN, AppendSave(b) PROVE CopiesGrounded'
  <2>1. w # Nil /\ w.item \in VMs /\ w.loaded \in ChainFile /\ w.phase = "save"
    BY <1>11, AppendSaveIs, RunParts DEF RunFits, RunMoves
  <2>2. Sound(w.loaded, raced) /\ (w.item \in raced \/ Tip(w.loaded, w.item) = w.parent)
    BY <2>1 DEF CopiesGrounded, ParentIsTip
  <2>3. Sound(Appended(w.loaded, w.item, Entry(w.job, w.parent)), raced)
    BY <1>11, <2>1, <2>2, AppendSaveIs, AppendedSound
  <2>4. QED
    BY <1>11, <2>3, AppendSaveIs, NoneSound DEF CopiesGrounded, RunMoves
<1>12. ASSUME NEW p \in Pruners, PruneList(p) PROVE CopiesGrounded'
  BY <1>12, PruneListIs, NoneSound DEF CopiesGrounded, PassMoves
<1>13. ASSUME NEW p \in Pruners, NEW b \in BOOLEAN, PruneDecide(p, b) PROVE CopiesGrounded'
  BY <1>13, PruneDecideIs, NoneSound DEF CopiesGrounded, PassMoves
<1>14. ASSUME NEW p \in Pruners, NEW r \in Jobs, NEW left \in SUBSET FilesOf(r),
             PruneDelete(p, r, left)
      PROVE  CopiesGrounded'
  BY <1>14, PruneDeleteIs, NoneSound DEF CopiesGrounded, PassMoves
<1>15. ASSUME NEW p \in Pruners, PruneLoad(p) PROVE CopiesGrounded'
  BY <1>15, PruneLoadIs, NoneSound DEF CopiesGrounded, PassMoves
<1>16. ASSUME NEW p \in Pruners, NEW v \in VMs, NEW b \in BOOLEAN, PruneDrop(p, v, b)
      PROVE  CopiesGrounded'
  <2>1. \A cs : Sound(cs, raced) => Sound(cs, raced')
    <3>1. raced \subseteq raced'
      BY <1>16, PruneDropIs
    <3>2. QED
      BY <3>1, SoundGrows
  <2>2. prune[p].loaded \in ChainFile /\ Sound(prune[p].loaded, raced)
    BY PassParts DEF CopiesGrounded
  <2>3. Sound(chains', raced)
    BY <1>16, <2>2, PruneDropIs, WithoutSound DEF CopiesGrounded
  <2>4. QED
    BY <1>16, <2>1, <2>3, PruneDropIs, NoneSound DEF CopiesGrounded, PassMoves
<1>17. ASSUME NEW r \in Jobs, NEW left \in SUBSET FilesOf(r), DeleteRun(r, left)
      PROVE  CopiesGrounded'
  BY <1>17, DeleteRunIs DEF CopiesGrounded
<1>18. ASSUME NEW v \in VMs, NEW d \in SUBSET Jobs, DropCheckpoints(v, d)
      PROVE  CopiesGrounded'
  BY <1>18, DropCheckpointsIs, NoneSound DEF CopiesGrounded
<1>19. CASE AdmLoad
  BY <1>19, AdmLoadIs DEF CopiesGrounded
<1>20. ASSUME NEW b \in BOOLEAN, AdmSave(b) PROVE CopiesGrounded'
  <2>1. \A cs : Sound(cs, raced) => Sound(cs, raced')
    <3>1. raced \subseteq raced'
      BY <1>20, AdmSaveIs
    <3>2. QED
      BY <3>1, SoundGrows
  <2>2. Sound(chains', raced)
    BY <1>20, AdmSaveIs, WithoutSound DEF CopiesGrounded
  <2>3. QED
    BY <1>20, <2>1, <2>2, AdmSaveIs DEF CopiesGrounded
<1>21. ASSUME NEW b \in BOOLEAN, ReconcileList(b) PROVE CopiesGrounded'
  BY <1>21, ReconcileListIs DEF CopiesGrounded
<1>22. CASE ReconcileRead
  BY <1>22, ReconcileReadIs DEF CopiesGrounded
<1>23. ASSUME NEW r \in Jobs, ReconcileAdopt(r) PROVE CopiesGrounded'
  BY <1>23, ReconcileAdoptIs DEF CopiesGrounded
<1>24. CASE ReconcileClean
  BY <1>24, ReconcileCleanIs DEF CopiesGrounded
<1>25. CASE Crash
  BY <1>25, CrashIs, NoneSound DEF CopiesGrounded
<1>26. ASSUME NEW gone \in SUBSET Jobs, Restart(gone) PROVE CopiesGrounded'
  BY <1>26, RestartIs DEF CopiesGrounded
<1>27. CASE UNCHANGED vars
  BY <1>27 DEF vars, env, runner, records, requests, seen, CopiesGrounded
<1>28. QED
  BY <1>1, <1>2, <1>3, <1>4, <1>5, <1>6, <1>7, <1>8, <1>8a, <1>9, <1>10, <1>11, <1>12, <1>13,
    <1>14, <1>15, <1>16, <1>17, <1>18, <1>19, <1>20, <1>21, <1>22, <1>23, <1>24, <1>25,
    <1>26, <1>27 DEF Next, RunnerNext, PruneNext, OperatorNext, ReconcileNext

\* While a backup is under way only a deletion changes the records, and it marks
\* the machine as raced when the parent is no longer the last entry.
LEMMA StepTip ==
    TypeOK /\ RunsOrdered /\ RunFits /\ ParentIsTip /\ [Next]_vars
        => ParentIsTip'
<1> SUFFICES ASSUME TypeOK, RunsOrdered, RunFits, ParentIsTip, [Next]_vars
             PROVE  ParentIsTip'
  OBVIOUS
<1>1. ASSUME NEW j \in Jobs, NEW s \in VMs \cup {Nil}, NEW m \in Modes, NEW b \in BOOLEAN,
             RecordJob(j, s, m, b)
      PROVE  ParentIsTip'
  BY <1>1, RecordJobIs DEF ParentIsTip
<1>2. ASSUME NEW j \in Jobs, NEW s \in SUBSET VMs, StartRun(j, s) PROVE ParentIsTip'
  BY <1>2, StartRunIs DEF ParentIsTip
<1>3. ASSUME NEW i \in Items, CreateArchive(i) PROVE ParentIsTip'
  BY <1>3, CreateArchiveIs DEF ParentIsTip, RunMoves
<1>4. CASE FinishArchive
  BY <1>4, FinishArchiveIs DEF ParentIsTip, RunMoves, RunEnds
<1>5. CASE FailArchive
  BY <1>5, FailArchiveIs DEF ParentIsTip, RunEnds
<1>6. CASE FailRun
  BY <1>6, FailRunIs DEF ParentIsTip, RunEnds
<1>7. ASSUME NEW v \in VMs, NEW b \in BOOLEAN, ReadParent(v, b) PROVE ParentIsTip'
  BY <1>7, ReadParentIs DEF ParentIsTip, RunMoves
<1>8. CASE BeginBackup
  BY <1>8, BeginBackupIs DEF ParentIsTip, RunMoves
<1>8a. ASSUME NEW b \in BOOLEAN, BackupUnseen(b) PROVE ParentIsTip'
  BY <1>8a, BackupUnseenIs DEF ParentIsTip, RunMoves
<1>9. CASE BeginBackupFails
  BY <1>9, BeginBackupFailsIs DEF ParentIsTip, RunEnds
<1>10. CASE AppendLoad
  BY <1>10, AppendLoadIs DEF ParentIsTip, RunMoves
<1>11. ASSUME NEW b \in BOOLEAN, AppendSave(b) PROVE ParentIsTip'
  BY <1>11, AppendSaveIs DEF ParentIsTip, RunMoves
<1>12. ASSUME NEW p \in Pruners, PruneList(p) PROVE ParentIsTip'
  BY <1>12, PruneListIs DEF ParentIsTip, PassMoves
<1>13. ASSUME NEW p \in Pruners, NEW b \in BOOLEAN, PruneDecide(p, b) PROVE ParentIsTip'
  BY <1>13, PruneDecideIs DEF ParentIsTip, PassMoves
<1>14. ASSUME NEW p \in Pruners, NEW r \in Jobs, NEW left \in SUBSET FilesOf(r),
             PruneDelete(p, r, left)
      PROVE  ParentIsTip'
  BY <1>14, PruneDeleteIs DEF ParentIsTip, PassMoves
<1>15. ASSUME NEW p \in Pruners, PruneLoad(p) PROVE ParentIsTip'
  BY <1>15, PruneLoadIs DEF ParentIsTip, PassMoves
<1>16. ASSUME NEW p \in Pruners, NEW v \in VMs, NEW b \in BOOLEAN, PruneDrop(p, v, b)
      PROVE  ParentIsTip'
  <2>1. raced \subseteq raced' /\ Overtaken(chains') \subseteq raced' /\ UNCHANGED w
    BY <1>16, PruneDropIs
  <2>2. w # Nil /\ w.phase \in {"backup", "load"}
            => w.item \in raced' \/ Tip(chains', w.item) = w.parent
    BY <2>1 DEF Overtaken
  <2>3. QED
    BY <2>1, <2>2 DEF ParentIsTip
<1>17. ASSUME NEW r \in Jobs, NEW left \in SUBSET FilesOf(r), DeleteRun(r, left)
      PROVE  ParentIsTip'
  BY <1>17, DeleteRunIs DEF ParentIsTip
<1>18. ASSUME NEW v \in VMs, NEW d \in SUBSET Jobs, DropCheckpoints(v, d) PROVE ParentIsTip'
  BY <1>18, DropCheckpointsIs DEF ParentIsTip
<1>19. CASE AdmLoad
  BY <1>19, AdmLoadIs DEF ParentIsTip
<1>20. ASSUME NEW b \in BOOLEAN, AdmSave(b) PROVE ParentIsTip'
  <2>1. raced \subseteq raced' /\ Overtaken(chains') \subseteq raced' /\ UNCHANGED w
    BY <1>20, AdmSaveIs
  <2>2. w # Nil /\ w.phase \in {"backup", "load"}
            => w.item \in raced' \/ Tip(chains', w.item) = w.parent
    BY <2>1 DEF Overtaken
  <2>3. QED
    BY <2>1, <2>2 DEF ParentIsTip
<1>21. ASSUME NEW b \in BOOLEAN, ReconcileList(b) PROVE ParentIsTip'
  BY <1>21, ReconcileListIs DEF ParentIsTip
<1>22. CASE ReconcileRead
  BY <1>22, ReconcileReadIs DEF ParentIsTip
<1>23. ASSUME NEW r \in Jobs, ReconcileAdopt(r) PROVE ParentIsTip'
  BY <1>23, ReconcileAdoptIs DEF ParentIsTip
<1>24. CASE ReconcileClean
  BY <1>24, ReconcileCleanIs DEF ParentIsTip
<1>25. CASE Crash
  BY <1>25, CrashIs DEF ParentIsTip
<1>26. ASSUME NEW gone \in SUBSET Jobs, Restart(gone) PROVE ParentIsTip'
  <2>1. UNCHANGED <<w, chains, raced>>
    BY <1>26, RestartIs
  <2>2. QED
    BY <2>1 DEF ParentIsTip
<1>27. CASE UNCHANGED vars
  BY <1>27 DEF vars, env, runner, records, requests, seen, ParentIsTip
<1>28. QED
  BY <1>1, <1>2, <1>3, <1>4, <1>5, <1>6, <1>7, <1>8, <1>8a, <1>9, <1>10, <1>11, <1>12, <1>13,
    <1>14, <1>15, <1>16, <1>17, <1>18, <1>19, <1>20, <1>21, <1>22, <1>23, <1>24, <1>25,
    <1>26, <1>27 DEF Next, RunnerNext, PruneNext, OperatorNext, ReconcileNext

-----------------------------------------------------------------------------
(* The theorems.                                                             *)

BackupInv ==
    /\ TypeOK /\ RunsOrdered /\ JobsFit /\ RunFits /\ NamedIsThere /\ AdoptedIsThere
    /\ ReadFits /\ RecordsKept /\ Complete /\ CopiesGrounded /\ ParentIsTip
    /\ RunningRunIntact

\* A target without backups, and a log without jobs.
LEMMA InitBackup == Init => BackupInv
<1> SUFFICES ASSUME Init PROVE BackupInv
  OBVIOUS
<1>1. /\ jobs = [j \in Jobs |-> NoJob] /\ NoJob \in JobType
      /\ NoJob.status = "none" /\ NoJob.files = {} /\ NoJob.named = {}
  BY DEF Init, NoJob, JobType
<1>2. /\ prune = [p \in Pruners |-> IdlePass] /\ IdlePass \in PassType
      /\ IdlePass.pc = "idle" /\ IdlePass.runs = {} /\ IdlePass.loaded = <<>>
  BY NoChains DEF Init, IdlePass, Pass, PassType
<1>3. /\ mix \in Mixes /\ mix.faults \in Nat /\ mix.deletes \in Nat /\ mix.reconciles \in Nat
      /\ MaxJobs \in Nat
  BY BackupConstants DEF Init
<1>4. shared \in BOOLEAN /\ up \in BOOLEAN
  BY BackupConstants DEF Init
<1>5. /\ queue = {} /\ w = Nil /\ time = [j \in Jobs |-> 0] /\ files = {} /\ chains = <<>>
      /\ ckpts = [v \in VMs |-> {}] /\ adm = Nil /\ rec = Nil /\ adopted = {} /\ faults = 0
      /\ deletes = 0 /\ reconciles = 0 /\ purged = {} /\ raced = {} /\ blurred = {}
      /\ blind = {} /\ unlogged = {} /\ want = [j \in Jobs |-> {}] /\ up = TRUE
  BY DEF Init
<1>6. TypeOK
  BY <1>1, <1>2, <1>3, <1>4, <1>5, NoChains DEF TypeOK
<1>7. RunsOrdered
  <2>1. {j \in Jobs : time[j] > 0} = {}
    BY <1>5
  <2>2. Clock = 0
    BY <2>1, FS_EmptySet DEF Clock
  <2>3. QED
    BY <1>1, <1>2, <1>5, <2>2 DEF RunsOrdered
<1>8. /\ JobsFit /\ RunFits /\ NamedIsThere /\ AdoptedIsThere /\ ReadFits /\ RecordsKept
      /\ Complete
  BY <1>1, <1>5 DEF JobsFit, RunFits, NamedIsThere, AdoptedIsThere, ReadFits, RecordsKept,
                    Complete
<1>9. CopiesGrounded /\ ParentIsTip /\ RunningRunIntact
  BY <1>2, <1>5, NoneSound DEF CopiesGrounded, ParentIsTip, RunningRunIntact
<1>10. QED
  BY <1>6, <1>7, <1>8, <1>9 DEF BackupInv

\* All the parts together are kept.
LEMMA StepBackup == BackupInv /\ [Next]_vars => BackupInv'
BY StepTyped, StepOrdered, StepJobs, StepRun, StepNamed, StepAdopted, StepRead, StepRecords,
   StepComplete, StepCopies, StepTip, StepIntact DEF BackupInv

\* The inductive invariant holds in every state.
THEOREM BackupInvariant == Spec => []BackupInv
<1>1. QED
  BY InitBackup, StepBackup, PTL DEF Spec

\* Every part of the state keeps its type; in particular the chain file and every
\* copy of it in flight has one chain per machine (chain.go: AppendEntry,
\* DeleteChain).
THEOREM BackupTyped == Spec => []TypeOK
<1>1. BackupInv => TypeOK
  BY DEF BackupInv
<1>2. QED
  BY <1>1, BackupInvariant, PTL

\* "An in-progress run is never torn apart" (runner.go): retention never decides
\* to delete the run that is being written, for every policy that is enabled and
\* however many passes, runs and deletions overlap (retention.go: ApplyRetention,
\* decideRetention).
THEOREM RunNeverTornApart == Spec => []RunningRunIntact
<1>1. BackupInv => RunningRunIntact
  BY DEF BackupInv
<1>2. QED
  BY <1>1, BackupInvariant, PTL

\* What the log calls a success is complete and on the target, through failing
\* archives, retention, deletions of other runs, reconciliation and crashes, but
\* for the runs that took a failed libvirt backup for done (runner.go:
\* writeBackup, writeIncrementalBackup, runJob; libvirtbackup/backup.go:
\* waitBackupJob).
THEOREM SuccessIsComplete == Spec => []SuccessMeansComplete
<1>1. BackupInv => SuccessMeansComplete
  BY DEF BackupInv, NamedIsThere, Complete, SuccessMeansComplete
<1>2. QED
  BY <1>1, BackupInvariant, PTL

\* The files that synthetic jobs name are there, and a job's record loses files
\* only when its run was purged, blurred or blind (reconcile.go: Reconcile).
THEOREM ReconcileIsTruthful == Spec => []ReconcileTruthful
<1>1. BackupInv => ReconcileTruthful
  BY DEF BackupInv, AdoptedIsThere, Settled, RecordsKept, ReconcileTruthful
<1>2. QED
  BY <1>1, BackupInvariant, PTL

\* A chain's records lead from a full backup to its last increment, whatever is
\* loaded and saved side by side, unless the chain changed between a backup's
\* reading of its parent and its loading of the records, or that reading failed
\* (chain.go: AppendEntry, DeleteChain; runner.go: writeIncrementalBackup).
THEOREM ChainsGrounded == Spec => []ChainGroundedUnlessRaced
<1>1. BackupInv => ChainGroundedUnlessRaced
  BY DEF BackupInv, CopiesGrounded, Sound, Grounded, ChainGroundedUnlessRaced
<1>2. QED
  BY <1>1, BackupInvariant, PTL

=============================================================================
