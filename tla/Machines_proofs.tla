-------------------------- MODULE Machines_proofs --------------------------
(* Proofs about Machines, for any machines, disks, pools, moves, requests    *)
(* and starts: the type invariant, DiskThere, DataKept, ScheduleObeyed and   *)
(* OutcomeFiled.                                                             *)
(*                                                                           *)
(* The module first says what every step does to machines, files and jobs,   *)
(* as one of a few kinds of steps: the part of the proof that is about       *)
(* arguments, not updates, reads only those.  The inductive invariant says   *)
(* why a name that a move or a sweep is about to remove is no name that a    *)
(* machine needs, although it was read several steps ago and nothing is      *)
(* locked.                                                                   *)
EXTENDS Machines, FiniteSetTheorems, SequenceTheorems, TLAPS

-----------------------------------------------------------------------------
(* Operators.                                                                *)

\* A finite set of numbers that is not empty has a greatest one.
LEMMA FiniteGreatest ==
    ASSUME NEW S \in SUBSET Int, IsFiniteSet(S), S # {}
    PROVE  \E x \in S : \A y \in S : x >= y
<1> DEFINE Has(T) == \E x \in T : \A y \in T : x >= y
           B == {T \in SUBSET S : T # {} /\ ~Has(T)}
<1>1. SUFFICES B = {}
  BY DEF B
<1>2. SUFFICES ASSUME B # {} PROVE FALSE
  OBVIOUS
<1>3. IsWellFoundedOn(StrictSubsetOrdering(S), SUBSET S)
  BY FS_StrictSubsetOrderingWellFounded, FS_FiniteSubsetsOfFinite
<1>4. PICK T \in B : \A U \in B : ~(<<U, T>> \in StrictSubsetOrdering(S))
  <2>1. B \subseteq SUBSET S
    OBVIOUS
  <2> HIDE DEF B
  <2>2. QED
    BY <1>2, <1>3, <2>1, WFMin
<1>5. PICK x \in T : TRUE
  OBVIOUS
<1>6. CASE T = {x}
  BY <1>6
<1>7. CASE T # {x}
  <2>1. T \ {x} # {} /\ T \ {x} \in SUBSET S /\ T \in SUBSET S
    BY <1>5, <1>7
  <2>2. <<T \ {x}, T>> \in StrictSubsetOrdering(S)
    BY <2>1, <1>5 DEF StrictSubsetOrdering
  <2>3. PICK m \in T \ {x} : \A y \in T \ {x} : m >= y
    BY <1>4, <2>1, <2>2
  <2>4. m \in Int /\ x \in Int /\ \A y \in T : y \in Int
    BY <2>1, <1>5
  <2>5. CASE m >= x
    BY <2>3, <2>4, <2>5
  <2>6. CASE ~(m >= x)
    BY <2>3, <2>4, <2>6, <1>5
  <2>7. QED
    BY <2>5, <2>6
<1>8. QED
  BY <1>6, <1>7

\* Max of the community modules, for such a set.
LEMMA MaxIs ==
    ASSUME NEW S \in SUBSET Int, IsFiniteSet(S), S # {}
    PROVE  Max(S) \in S /\ \A y \in S : Max(S) >= y
BY FiniteGreatest DEF Max

\* A set of numbers has a least one.
LEMMA LeastExists ==
    ASSUME NEW S \in SUBSET Nat, S # {}
    PROVE  \E x \in S : \A y \in S : x <= y
<1>1. PICK x \in S : \A y \in S : ~(<<y, x>> \in OpToRel(<, Nat))
  BY NatLessThanWellFounded, WFMin
<1>2. \A y \in S : ~(y < x)
  BY <1>1 DEF OpToRel
<1>3. QED
  BY <1>2

\* The next of a list is one of the list.
LEMMA FirstIn ==
    ASSUME NEW S, S # {}, \A m \in S : m.disk \in Disks
    PROVE  First(S) \in S
<1> DEFINE R == {n \in Nat : \E m \in S : n = Rank[m.disk]}
<1>1. \A m \in S : Rank[m.disk] \in Nat
  BY DisksAssumption
<1>2. R \in SUBSET Nat /\ R # {}
  BY <1>1
<1>3. PICK x \in R : \A y \in R : x <= y
  <2> HIDE DEF R
  <2> QED BY <1>2, LeastExists
<1>4. PICK m \in S : x = Rank[m.disk]
  OBVIOUS
<1>5. \A n \in S : Rank[m.disk] <= Rank[n.disk]
  BY <1>1, <1>3, <1>4
<1>6. QED
  BY <1>5 DEF First

\* A name the pool does not have.
LEMMA FreeName ==
    ASSUME NEW pool \in Pools, NEW name \in Name, IsFiniteSet(DOMAIN files),
           \A p \in DOMAIN files : p \in Path
    PROVE  /\ VMDiskPath(pool, name) \in Path
           /\ VMDiskPath(pool, name).pool = pool
           /\ VMDiskPath(pool, name) \notin DOMAIN files
<1> DEFINE taken == {q \in DOMAIN files : q.pool = pool /\ Numbered(q.name, name)}
           num(q) == IF q.name = name THEN 1 ELSE q.name.nums[Len(q.name.nums)]
           N == {num(q) : q \in taken}
           new == [base |-> name.base, nums |-> Append(name.nums, Max(N) + 1)]
<1>1. VMDiskPath(pool, name) = [pool |-> pool, name |-> IF taken = {} THEN name ELSE new]
  BY DEF VMDiskPath
<1>2. name.base \in Bases /\ name.nums \in Seq(Nat) /\ Len(name.nums) \in Nat
  BY DEF Name
<1>3. CASE taken = {}
  <2>1. [pool |-> pool, name |-> name] \notin DOMAIN files
    BY <1>3 DEF Numbered
  <2>2. QED
    BY <1>1, <1>3, <2>1 DEF Path
<1>4. CASE taken # {}
  <2>1. \A q \in taken : /\ q.name \in Name /\ q.name.nums \in Seq(Nat)
                         /\ Len(q.name.nums) \in Nat /\ num(q) \in Nat
    <3> SUFFICES ASSUME NEW q \in taken
                 PROVE  /\ q.name \in Name /\ q.name.nums \in Seq(Nat)
                        /\ Len(q.name.nums) \in Nat /\ num(q) \in Nat
      OBVIOUS
    <3>1. q.name \in Name /\ q.name.nums \in Seq(Nat)
      BY DEF Path, Name
    <3>2. Len(q.name.nums) \in Nat /\ DOMAIN q.name.nums = 1 .. Len(q.name.nums)
      BY <3>1
    <3>3. q.name # name => Len(q.name.nums) = Len(name.nums) + 1
      BY DEF Numbered
    <3>4. q.name # name => q.name.nums[Len(q.name.nums)] \in Nat
      BY <3>1, <3>2, <3>3, <1>2, ElementOfSeq
    <3>5. QED
      BY <3>1, <3>2, <3>4
  <2>2. N \in SUBSET Int /\ N # {}
    BY <2>1, <1>4
  <2>3. IsFiniteSet(N)
    <3> DEFINE f == [q \in taken |-> num(q)]
    <3>1. f \in Surjection(taken, N)
      BY DEF Surjection
    <3>2. taken \in SUBSET DOMAIN files
      OBVIOUS
    <3>3. IsFiniteSet(taken)
      <4> HIDE DEF taken
      <4> QED BY <3>2, FS_Subset
    <3> HIDE DEF f, taken, N
    <3>4. QED
      BY <3>1, <3>3, FS_Surjection
  <2>4. Max(N) \in N /\ \A y \in N : Max(N) >= y
    <3> HIDE DEF N
    <3> QED BY <2>2, <2>3, MaxIs
  <2>5. Max(N) + 1 \in Nat /\ Max(N) \in Int
    BY <2>1, <2>4
  <2>6. new.nums \in Seq(Nat) /\ Len(new.nums) = Len(name.nums) + 1 /\ new.nums[Len(new.nums)] = Max(N) + 1
    <3> HIDE DEF N
    <3> QED BY <1>2, <2>5
  <2>7. SubSeq(new.nums, 1, Len(name.nums)) = name.nums
    <3> HIDE DEF N
    <3> QED BY <1>2, <2>5
  <2>8. new \in Name /\ new # name
    <3> HIDE DEF N
    <3>1. new \in Name
      BY <1>2, <2>6 DEF Name
    <3>2. new # name
      BY <1>2, <2>6
    <3>3. QED
      BY <3>1, <3>2
  <2>9. [pool |-> pool, name |-> new] \notin DOMAIN files
    <3> DEFINE q == [pool |-> pool, name |-> new]
    <3> SUFFICES ASSUME q \in DOMAIN files PROVE FALSE
      OBVIOUS
    <3>1. Numbered(new, name)
      BY <2>6, <2>7 DEF Numbered
    <3>2. q \in taken
      BY <3>1
    <3>3. num(q) = Max(N) + 1
      <4> HIDE DEF N
      <4> QED BY <2>6, <2>8
    <3>4. \A x \in taken : num(x) \in N
      OBVIOUS
    <3>5. num(q) \in N
      <4> HIDE DEF N, num, taken, q
      <4> QED BY <3>2, <3>4
    <3>6. QED
      <4> HIDE DEF N, num, q
      <4> QED BY <3>3, <3>5, <2>4, <2>5
  <2>10. VMDiskPath(pool, name) = [pool |-> pool, name |-> new]
    BY <1>1, <1>4
  <2>11. QED
    <3> HIDE DEF new
    <3> QED BY <2>8, <2>9, <2>10 DEF Path
<1>5. QED
  BY <1>3, <1>4

-----------------------------------------------------------------------------
(* What a step does to machines, files and jobs.                             *)

\* Job j goes on, the others stay where they are.
After(j, at, todo, to, done) ==
    /\ \A k \in Jobs \ {j} : job'[k] = job[k]
    /\ job'[j] \in MoveType
    /\ job'[j].at = at /\ job'[j].vm = job[j].vm /\ job'[j].pool = job[j].pool
    /\ job'[j].todo = todo /\ job'[j].to = to /\ job'[j].done = done

Unlinked(p) ==
    /\ DOMAIN files' = DOMAIN files \ {p}
    /\ \A q \in DOMAIN files' : files'[q] = files[q]
    /\ \A d \in Disks : hold'[d] = IF hold[d] = p THEN Nil ELSE hold[d]

\* Jobs only begin or end.
JobsLeave ==
    /\ UNCHANGED <<dom, src, files, hold, cause>>
    /\ \A k \in Jobs : \/ job'[k] = job[k]
                       \/ /\ job'[k].at \in {"new", "begin", "ended", "dead"}
                          /\ job'[k].at \in {"new", "begin"} => job[k].at \in {"new", "begin"}
                          /\ job'[k].at = "begin" => job'[k].vm \in VMs /\ job'[k].pool \in Pools

\* The state of a machine changes.
Powered(v) ==
    /\ UNCHANGED <<src, files, job>>
    /\ \A u \in VMs \ {v} : dom'[u] = dom[u]
    /\ \A d \in Disks : VmOf[d] # v => hold'[d] = hold[d]

Started(v) ==
    /\ Powered(v)
    /\ dom[v] = "off" /\ dom'[v] = "running"
    /\ \A d \in DisksOf(v) : src[d] \in DOMAIN files /\ hold'[d] = src[d]
    /\ cause \subseteq cause'
    /\ MovesOf(v) # {} => <<v, "live">> \in cause'

Stopped(v) ==
    /\ Powered(v)
    /\ dom[v] # "gone" /\ dom'[v] \in {"off", "gone"} /\ (dom'[v] = "off" => dom[v] # "off")
    /\ \A d \in DisksOf(v) : hold'[d] = Nil
    /\ UNCHANGED cause

Suspended(v) ==
    /\ Powered(v)
    /\ dom[v] \in Live /\ dom'[v] \in Live
    /\ UNCHANGED <<hold, cause>>

Written(d) ==
    /\ UNCHANGED <<dom, src, hold, job, cause>>
    /\ dom[VmOf[d]] = "running"
    /\ DOMAIN files' = DOMAIN files
    /\ \A p \in DOMAIN files :
         /\ files'[p].of = files[p].of /\ files'[p].by = files[p].by /\ files'[p].whole = files[p].whole
         /\ files[p].of # d \/ p = hold[d] => files'[p].cur = files[p].cur

Prepared(j) ==
    /\ UNCHANGED <<dom, src, files, hold>>
    /\ job[j].at = "begin" /\ Todo(job[j].vm, job[j].pool) # {}
    /\ dom[job[j].vm] = "off" \/ <<job[j].vm, "live">> \in cause'
    /\ <<job[j].vm, "misread">> \in cause' \/ \A d \in DisksOf(job[j].vm) : Shown(d) = src[d]
    /\ After(j, "name", Todo(job[j].vm, job[j].pool), Nil, {})
    /\ cause \subseteq cause'
    /\ MovesOf(job[j].vm) # {} => <<job[j].vm, "overlap">> \in cause'

Chosen(j) ==
    /\ UNCHANGED <<dom, src, files, hold, cause>>
    /\ job[j].at = "name" /\ After(j, "create", job[j].todo, job'[j].to, job[j].done)
    /\ job'[j].to \in Path /\ job'[j].to.pool = job[j].pool /\ job'[j].to \notin DOMAIN files

GivenUp(j) ==
    /\ UNCHANGED <<dom, src, files, hold, cause>>
    /\ job[j].at = "name" /\ After(j, "rollback", job[j].todo, Nil, job[j].done)

Dropped(j) ==
    /\ UNCHANGED <<dom, src>>
    /\ job[j].at \in {"create", "copy", "repoint"}
    /\ After(j, "rollback", job[j].todo, Nil, job[j].done)
    /\ Unlinked(job[j].to)
    /\ cause \subseteq cause'
    /\ job[j].to \in DOMAIN files /\ ~(files[job[j].to].by = j /\ job[j].vm = Owner(job[j].to)) =>
         <<Owner(job[j].to), "clobbered">> \in cause'

Created(j) ==
    /\ UNCHANGED <<dom, src, hold, cause>>
    /\ job[j].at = "create" /\ After(j, "copy", job[j].todo, job[j].to, job[j].done)
    /\ First(job[j].todo) \in job[j].todo /\ First(job[j].todo).from \in DOMAIN files
    /\ job[j].to \notin DOMAIN files /\ DOMAIN files' = DOMAIN files \cup {job[j].to}
    /\ \A p \in DOMAIN files : files'[p] = files[p]
    /\ LET f == files[First(job[j].todo).from]
           g == files'[job[j].to]
       IN g.of = f.of /\ g.by = j /\ (f.cur /\ f.whole => g.cur)

Copied(j) ==
    /\ UNCHANGED <<dom, src, hold, cause>>
    /\ job[j].at = "copy" /\ After(j, "repoint", job[j].todo, job[j].to, job[j].done)
    /\ DOMAIN files' = DOMAIN files
    /\ \A p \in DOMAIN files :
         /\ files'[p].of = files[p].of /\ files'[p].by = files[p].by /\ files'[p].cur = files[p].cur
         /\ files[p].whole => files'[p].whole
         /\ p = job[j].to /\ files[p].by = j => files'[p].whole

Pointed(j) ==
    LET m == First(job[j].todo) IN
    /\ UNCHANGED <<dom, files, hold, cause>>
    /\ job[j].at = "repoint" /\ m \in job[j].todo
    /\ After(j, job'[j].at, job[j].todo \ {m}, Nil,
             job[j].done \cup {[disk |-> m.disk, from |-> m.from, to |-> job[j].to]})
    /\ job'[j].at \in {"name", "cleanup"} /\ (job'[j].at = "name" => job[j].todo \ {m} # {})
    /\ src'[m.disk] = job[j].to /\ \A d \in Disks \ {m.disk} : src'[d] = src[d]

Reverted(j) ==
    LET m == First(job[j].done) IN
    /\ UNCHANGED dom
    /\ job[j].at = "rollback" /\ m \in job[j].done
    /\ After(j, "rollback", job[j].todo, job[j].to, job[j].done \ {m})
    /\ Unlinked(m.to)
    /\ \A d \in Disks \ {m.disk} : src'[d] = src[d]
    /\ \/ src'[m.disk] = m.from
       \/ src'[m.disk] = src[m.disk] /\ (dom[job[j].vm] = "gone" \/ <<job[j].vm, "unrepointed">> \in cause')
    /\ cause \subseteq cause'
    /\ m.to \in DOMAIN files /\ ~(files[m.to].by = j /\ job[j].vm = Owner(m.to)) =>
         <<Owner(m.to), "clobbered">> \in cause'

Cleaned(j) ==
    LET m == First(job[j].done) IN
    /\ UNCHANGED <<dom, src>>
    /\ job[j].at = "cleanup" /\ m \in job[j].done
    /\ After(j, "cleanup", job[j].todo, job[j].to, job[j].done \ {m})
    /\ Unlinked(m.from)
    /\ cause \subseteq cause'
    /\ m.from \in DOMAIN files /\ job[j].vm # Owner(m.from) => <<Owner(m.from), "clobbered">> \in cause'

PassedOver(j) ==
    /\ UNCHANGED <<dom, src, files, hold, cause>>
    /\ job[j].at = "cleanup"
    /\ After(j, "cleanup", job[j].todo, job[j].to, job[j].done \ {First(job[j].done)})

\* What the sweeps have looked at is what it was.
Sweeping(r) == req[r].at = "sweep" /\ req[r].victim # Nil
SameVictims ==
    \A r \in Requests : Sweeping(r)' => Sweeping(r) /\ req'[r].victim = req[r].victim

Looked(r) ==
    /\ UNCHANGED <<dom, src, files, hold, job>>
    /\ \A q \in Requests \ {r} : req'[q] = req[q]
    /\ LET p == req'[r].victim.path IN
       /\ p \in DOMAIN files /\ req'[r].victim.by = files[p].by
       /\ \A v \in VMs : dom[v] # "gone" =>
            <<v, "misread">> \in cause' \/ \A d \in DisksOf(v) : src[d] # p
       /\ (\E j \in Jobs : Busy(j) /\ job[j].vm = Owner(p)) => <<Owner(p), "swept">> \in cause'
    /\ cause \subseteq cause'

Deleted(r) ==
    LET p == req[r].victim.path IN
    /\ UNCHANGED <<dom, src, job>>
    /\ Sweeping(r)
    /\ Unlinked(p)
    /\ cause \subseteq cause'
    /\ p \in DOMAIN files =>
         /\ files[p].by # req[r].victim.by => <<Owner(p), "swept">> \in cause'
         /\ (\E j \in Jobs : Busy(j) /\ job[j].vm = Owner(p)) => <<Owner(p), "swept">> \in cause'

MoveKind(j) ==
    \/ Prepared(j) \/ Chosen(j) \/ GivenUp(j) \/ Dropped(j) \/ Created(j) \/ Copied(j)
    \/ Pointed(j) \/ Reverted(j) \/ Cleaned(j) \/ PassedOver(j)

Kind ==
    \/ SameVictims /\ JobsLeave
    \/ SameVictims /\ \E v \in VMs : Started(v) \/ Stopped(v) \/ Suspended(v)
    \/ SameVictims /\ \E d \in Disks : Written(d)
    \/ SameVictims /\ \E j \in Jobs : MoveKind(j)
    \/ \E r \in Requests : Looked(r)
    \/ SameVictims /\ \E r \in Requests : Deleted(r)

-----------------------------------------------------------------------------
\* The parts of a job's record.
LEMMA MoveParts ==
    ASSUME MoveTypeOK, NEW j \in Jobs
    PROVE  /\ job \in [Jobs -> MoveType] /\ job[j] \in MoveType
           /\ job[j].at \in {"new", "begin", "name", "create", "copy", "repoint", "rollback",
                             "cleanup", "ended", "dead"}
           /\ job[j].vm \in VMs \cup {Nil} /\ job[j].pool \in Pools \cup {Nil}
           /\ job[j].to \in Path \cup {Nil}
           /\ \A m \in job[j].todo : m \in [disk : Disks, from : Path] /\ m.disk \in Disks /\ m.from \in Path
           /\ \A m \in job[j].done : /\ m \in [disk : Disks, from : Path, to : Path]
                                     /\ m.disk \in Disks /\ m.from \in Path /\ m.to \in Path
<1>1. job \in [Jobs -> MoveType] /\ job[j] \in MoveType
  BY DEF MoveTypeOK
<1>2. job[j].todo \subseteq [disk : Disks, from : Path] /\ job[j].done \subseteq [disk : Disks, from : Path, to : Path]
  BY <1>1 DEF MoveType
<1>3. \A m \in [disk : Disks, from : Path] : m.disk \in Disks /\ m.from \in Path
  OBVIOUS
<1>4. \A m \in [disk : Disks, from : Path, to : Path] : m.disk \in Disks /\ m.from \in Path /\ m.to \in Path
  OBVIOUS
<1>5. /\ job[j].at \in {"new", "begin", "name", "create", "copy", "repoint", "rollback",
                        "cleanup", "ended", "dead"}
      /\ job[j].vm \in VMs \cup {Nil} /\ job[j].pool \in Pools \cup {Nil} /\ job[j].to \in Path \cup {Nil}
  BY <1>1 DEF MoveType
<1>6. QED
  BY <1>1, <1>2, <1>3, <1>4, <1>5

\* The next disk of a list.
LEMMA NextIn ==
    ASSUME MoveTypeOK, NEW j \in Jobs
    PROVE  /\ job[j].todo # {} => First(job[j].todo) \in job[j].todo
           /\ job[j].done # {} => First(job[j].done) \in job[j].done
BY MoveParts, FirstIn

\* A job goes on as After says.
LEMMA SetJobIs ==
    ASSUME MoveTypeOK, NEW j \in Jobs, NEW m \in MoveType, SetJob(j, m),
           m.vm = job[j].vm, m.pool = job[j].pool
    PROVE  After(j, m.at, m.todo, m.to, m.done)
BY DEF SetJob, After, MoveTypeOK

\* The same for a job that goes on within its loop.
LEMMA GoesIs ==
    ASSUME MoveTypeOK, NEW j \in Jobs, NEW to \in Path \cup {Nil},
           NEW at \in {"create", "copy", "repoint", "rollback"}, Goes(j, at, to)
    PROVE  After(j, at, job[j].todo, to, job[j].done)
<1> DEFINE m == [job[j] EXCEPT !.at = at, !.to = to]
<1>1. job[j] \in MoveType
  BY MoveParts
<1>2. /\ m \in MoveType /\ m.vm = job[j].vm /\ m.pool = job[j].pool /\ m.at = at
      /\ m.todo = job[j].todo /\ m.to = to /\ m.done = job[j].done
  BY <1>1 DEF MoveType
<1>3. SetJob(j, m)
  BY DEF Goes
<1> HIDE DEF m
<1>4. QED
  BY <1>2, <1>3, SetJobIs

\* ... and for one that is done with a disk of its list.
LEMMA UndoneIs ==
    ASSUME MoveTypeOK, NEW j \in Jobs, NEW x, Undone(j, x)
    PROVE  After(j, job[j].at, job[j].todo, job[j].to, job[j].done \ {x})
<1> DEFINE m == [job[j] EXCEPT !.done = job[j].done \ {x}]
<1>1. job[j] \in MoveType
  BY MoveParts
<1>2. /\ m \in MoveType /\ m.vm = job[j].vm /\ m.pool = job[j].pool /\ m.at = job[j].at
      /\ m.todo = job[j].todo /\ m.to = job[j].to /\ m.done = job[j].done \ {x}
  BY <1>1 DEF MoveType
<1>3. SetJob(j, m)
  BY DEF Undone
<1> HIDE DEF m
<1>4. QED
  BY <1>2, <1>3, SetJobIs

\* Removing a name takes that file and no other.
LEMMA UnlinkIs ==
    ASSUME MoveTypeOK, NEW p, Unlink({p})
    PROVE  Unlinked(p)
BY DEF Unlink, Unlinked, MoveTypeOK

\* The lists of a job that is about to move.
LEMMA TodoTyped ==
    ASSUME MoveTypeOK, NEW v, NEW pool
    PROVE  /\ Todo(v, pool) \subseteq [disk : Disks, from : Path]
           /\ \A m \in Todo(v, pool) : VmOf[m.disk] = v /\ m.from = Shown(m.disk) /\ m.from.pool # pool
<1>1. \A d \in Disks : Shown(d) \in Path
  BY DEF Shown, MoveTypeOK
<1>2. QED
  BY <1>1 DEF Todo, DisksOf

\* The error path of a copy and of a repointing (storage_move.go:319-331).
LEMMA DropCopyIs ==
    ASSUME MoveTypeOK, NEW j \in Jobs, job[j].at \in {"create", "copy", "repoint"}, DropCopy(j)
    PROVE  Dropped(j)
<1>1. After(j, "rollback", job[j].todo, Nil, job[j].done)
  BY GoesIs DEF DropCopy
<1>2. Unlinked(job[j].to)
  BY UnlinkIs DEF DropCopy
<1>3. \A p \in DOMAIN files : Owner(p) \in VMs
  BY DisksAssumption DEF MoveTypeOK, File, Owner
<1>4. QED
  BY <1>1, <1>2, <1>3 DEF Dropped, DropCopy, Bereft, NotMine

\* Up to the first copy, a move begins or its job ends (storage_move.go:189-285).
LEMMA PrepareIs ==
    ASSUME MoveTypeOK, NEW j \in Jobs, NEW ok \in BOOLEAN, NEW unread \in SUBSET VMs, Prepare(j, ok, unread)
    PROVE  Prepared(j) \/ JobsLeave
<1> DEFINE v == job[j].vm
           pool == job[j].pool
<1>1. CASE ok /\ MayMove(v, Todo(v, pool), unread)
  <2> DEFINE m == Move("name", v, pool, Todo(v, pool), Nil, {})
  <2>1. /\ m \in MoveType /\ m.vm = v /\ m.pool = pool /\ m.at = "name"
        /\ m.todo = Todo(v, pool) /\ m.to = Nil /\ m.done = {}
    BY MoveParts, TodoTyped DEF Move, MoveType
  <2>2. SetJob(j, m)
    BY <1>1 DEF Prepare
  <2> HIDE DEF m
  <2>3. After(j, "name", Todo(v, pool), Nil, {})
    BY <2>1, <2>2, SetJobIs
  <2>4. dom[v] \in {"off", "suspended"}
    <3>1. v \in VMs /\ dom[v] \in {"off", "gone"} \cup Live
      BY DEF Prepare, MoveTypeOK, InHand
    <3>2. QED
      BY <1>1, <3>1 DEF MayMove, Refused, Live
  <2>5. /\ cause \subseteq cause'
        /\ MovesOf(v) # {} => <<v, "overlap">> \in cause'
        /\ dom[v] = "off" \/ <<v, "live">> \in cause'
        /\ <<v, "misread">> \in cause' \/ \A d \in DisksOf(v) : Shown(d) = src[d]
    BY <1>1, <2>4 DEF Prepare, Misread
  <2>6. QED
    BY <1>1, <2>3, <2>5 DEF Prepare, Prepared, MayMove, domVars
<1>2. CASE ~(ok /\ MayMove(v, Todo(v, pool), unread))
  <2>1. job' = [job EXCEPT ![j] = NoMove("ended")] /\ UNCHANGED <<dom, src, files, hold, cause>>
    BY <1>2 DEF Prepare, Finish, SetJob, domVars
  <2>2. QED
    BY <2>1, MoveParts DEF JobsLeave, NoMove, Move
<1>3. QED
  BY <1>1, <1>2

\* The name of a copy is new when it is chosen (disknaming.go:29-94).
LEMMA PickNameIs ==
    ASSUME MoveTypeOK, IsFiniteSet(DOMAIN files), NEW j \in Jobs, NEW ok \in BOOLEAN, PickName(j, ok)
    PROVE  Chosen(j) \/ GivenUp(j)
<1>1. CASE ok
  <2> DEFINE to == VMDiskPath(job[j].pool, First(job[j].todo).from.name)
  <2>1. job[j].pool \in Pools /\ First(job[j].todo).from.name \in Name
    BY NextIn, MoveParts DEF PickName, MoveTypeOK, InHand, Busy, Moving, Path
  <2>2. to \in Path /\ to.pool = job[j].pool /\ to \notin DOMAIN files
    BY <2>1, FreeName DEF MoveTypeOK
  <2>3. Goes(j, "create", to)
    BY <1>1 DEF PickName
  <2> HIDE DEF to
  <2>4. After(j, "create", job[j].todo, to, job[j].done)
    BY <2>2, <2>3, GoesIs
  <2>5. QED
    BY <2>2, <2>4 DEF PickName, Chosen, After, domVars
<1>2. CASE ~ok
  <2>1. After(j, "rollback", job[j].todo, Nil, job[j].done)
    BY <1>2, GoesIs DEF PickName
  <2>2. QED
    BY <2>1 DEF PickName, GivenUp, domVars
<1>3. QED
  BY <1>1, <1>2

\* O_EXCL: a copy is a new file, or is given up (reflink_linux.go:36-57).
LEMMA CreateCopyIs ==
    ASSUME MoveTypeOK, NEW j \in Jobs, NEW ok \in BOOLEAN, CreateCopy(j, ok)
    PROVE  Created(j) \/ Dropped(j)
<1> DEFINE from == First(job[j].todo).from
           to == job[j].to
<1>1. CASE ok /\ from \in DOMAIN files /\ to \notin DOMAIN files
  <2>1. to \in Path /\ First(job[j].todo) \in job[j].todo
    BY NextIn, MoveParts DEF CreateCopy, MoveTypeOK, InHand
  <2>2. After(j, "copy", job[j].todo, to, job[j].done)
    BY <1>1, <2>1, GoesIs DEF CreateCopy
  <2>3. files' = [p \in DOMAIN files \cup {to} |->
                   IF p = to THEN [of |-> files[from].of, by |-> j, whole |-> FALSE,
                                   cur |-> files[from].cur /\ files[from].whole]
                   ELSE files[p]]
    BY <1>1 DEF CreateCopy
  <2>4. QED
    BY <1>1, <2>1, <2>2, <2>3 DEF CreateCopy, Created, domVars
<1>2. CASE ~(ok /\ from \in DOMAIN files /\ to \notin DOMAIN files)
  BY <1>2, DropCopyIs DEF CreateCopy
<1>3. QED
  BY <1>1, <1>2

\* The copy is completed or given up (reflink_linux.go:58-109).
LEMMA CopyBytesIs ==
    ASSUME MoveTypeOK, NEW j \in Jobs, NEW ok \in BOOLEAN, CopyBytes(j, ok)
    PROVE  Copied(j) \/ Dropped(j)
<1>1. CASE ok
  <2>1. job[j].to \in Path
    BY MoveParts DEF CopyBytes, MoveTypeOK, InHand
  <2>2. After(j, "repoint", job[j].todo, job[j].to, job[j].done)
    BY <1>1, <2>1, GoesIs DEF CopyBytes
  <2>3. files' = [p \in DOMAIN files |->
                   IF p = job[j].to /\ files[p].by = j THEN [files[p] EXCEPT !.whole = TRUE] ELSE files[p]]
    BY <1>1 DEF CopyBytes
  <2>4. \A p \in DOMAIN files : files[p] \in File
    BY DEF MoveTypeOK
  <2>5. \A p \in DOMAIN files :
         /\ files'[p].of = files[p].of /\ files'[p].by = files[p].by /\ files'[p].cur = files[p].cur
         /\ files[p].whole => files'[p].whole
         /\ p = job[j].to /\ files[p].by = j => files'[p].whole
    BY <2>3, <2>4 DEF File
  <2>6. QED
    BY <1>1, <2>2, <2>3, <2>5 DEF CopyBytes, Copied, domVars
<1>2. CASE ~ok
  BY <1>2, DropCopyIs DEF CopyBytes
<1>3. QED
  BY <1>1, <1>2

\* The machine points at the copy, or the copy is given up (storage_move.go:325-333).
LEMMA RepointIs ==
    ASSUME MoveTypeOK, NEW j \in Jobs, NEW ok \in BOOLEAN, Repoint(j, ok)
    PROVE  Pointed(j) \/ Dropped(j)
<1> DEFINE m == First(job[j].todo)
           rest == job[j].todo \ {m}
           d == [disk |-> m.disk, from |-> m.from, to |-> job[j].to]
           new == Move(IF rest = {} THEN "cleanup" ELSE "name", job[j].vm, job[j].pool, rest, Nil,
                       job[j].done \cup {d})
<1>1. CASE ok /\ CanRepoint(job[j].vm)
  <2>1. m \in job[j].todo /\ m.disk \in Disks /\ m.from \in Path /\ job[j].to \in Path
    BY NextIn, MoveParts DEF Repoint, MoveTypeOK, InHand
  <2>2. job[j].done \cup {d} \subseteq [disk : Disks, from : Path, to : Path]
    BY <2>1, MoveParts
  <2>3. rest \subseteq [disk : Disks, from : Path]
    BY MoveParts
  <2>4. /\ new \in MoveType /\ new.vm = job[j].vm /\ new.pool = job[j].pool
        /\ new.at = (IF rest = {} THEN "cleanup" ELSE "name")
        /\ new.todo = rest /\ new.to = Nil /\ new.done = job[j].done \cup {d}
    <3> HIDE DEF rest, d
    <3> QED BY <2>2, <2>3, MoveParts DEF Move, MoveType
  <2>5. SetJob(j, new) /\ Repointed(j)
    BY <1>1 DEF Repoint, Repointed, Moved
  <2>6. After(j, new.at, rest, Nil, job[j].done \cup {d})
    <3> HIDE DEF new
    <3> QED BY <2>4, <2>5, SetJobIs
  <2>7. src' = [src EXCEPT ![m.disk] = job[j].to] /\ UNCHANGED <<dom, files, hold, cause>>
    BY <2>5 DEF Repointed
  <2>8. src'[m.disk] = job[j].to /\ \A e \in Disks \ {m.disk} : src'[e] = src[e]
    BY <2>1, <2>7 DEF MoveTypeOK
  <2>9. job'[j].at = new.at
    BY <2>6 DEF After
  <2>10. QED
    <3> HIDE DEF new
    <3> QED BY <1>1, <2>1, <2>4, <2>6, <2>7, <2>8, <2>9 DEF Repoint, Pointed
<1>2. CASE ~(ok /\ CanRepoint(job[j].vm))
  BY <1>2, DropCopyIs DEF Repoint
<1>3. QED
  BY <1>1, <1>2

\* One disk of the rollback (storage_move.go:290-298).
LEMMA RollbackDiskIs ==
    ASSUME MoveTypeOK, NEW j \in Jobs, NEW ok \in BOOLEAN, RollbackDisk(j, ok)
    PROVE  Reverted(j)
<1> DEFINE m == First(job[j].done)
<1>1. m \in job[j].done /\ m.disk \in Disks
  BY NextIn, MoveParts DEF RollbackDisk
<1>2. After(j, "rollback", job[j].todo, job[j].to, job[j].done \ {m})
  BY UndoneIs DEF RollbackDisk
<1>3. Unlinked(m.to)
  BY UnlinkIs DEF RollbackDisk
<1>4. /\ \A d \in Disks \ {m.disk} : src'[d] = src[d]
      /\ \/ src'[m.disk] = m.from
         \/ src'[m.disk] = src[m.disk] /\ (dom[job[j].vm] = "gone" \/ <<job[j].vm, "unrepointed">> \in cause')
  BY <1>1 DEF RollbackDisk, MoveTypeOK
<1>5. \A p \in DOMAIN files : Owner(p) \in VMs
  BY DisksAssumption DEF MoveTypeOK, File, Owner
<1>6. /\ cause \subseteq cause'
      /\ m.to \in DOMAIN files /\ ~(files[m.to].by = j /\ job[j].vm = Owner(m.to)) =>
           <<Owner(m.to), "clobbered">> \in cause'
  BY <1>5 DEF RollbackDisk, NotMine
<1>7. QED
  BY <1>1, <1>2, <1>3, <1>4, <1>6 DEF RollbackDisk, Reverted

\* One original of the clean-up (storage_move.go:339-345).
LEMMA CleanupDiskIs ==
    ASSUME MoveTypeOK, NEW j \in Jobs, NEW ok \in BOOLEAN, CleanupDisk(j, ok)
    PROVE  Cleaned(j) \/ PassedOver(j)
<1> DEFINE m == First(job[j].done)
<1>1. m \in job[j].done
  BY NextIn DEF CleanupDisk
<1>2. After(j, "cleanup", job[j].todo, job[j].to, job[j].done \ {m})
  BY UndoneIs DEF CleanupDisk
<1>3. CASE ok
  <2>1. Unlinked(m.from)
    BY <1>3, UnlinkIs DEF CleanupDisk
  <2>2. \A p \in DOMAIN files : Owner(p) \in VMs
    BY DisksAssumption DEF MoveTypeOK, File, Owner
  <2>3. QED
    BY <1>1, <1>2, <1>3, <2>1, <2>2 DEF CleanupDisk, Cleaned, Bereft, NotOurs
<1>4. CASE ~ok
  BY <1>1, <1>2, <1>4 DEF CleanupDisk, PassedOver
<1>5. QED
  BY <1>3, <1>4

\* A job that is through with its list, or panics, leaves.
LEMMA EndIs ==
    ASSUME MoveTypeOK, NEW j \in Jobs, RollbackEnd(j) \/ CleanupEnd(j) \/ Panic(j)
    PROVE  JobsLeave
<1>1. /\ UNCHANGED <<dom, src, files, hold, cause>>
      /\ \E at \in {"ended", "dead"} : job' = [job EXCEPT ![j] = NoMove(at)]
  BY DEF RollbackEnd, CleanupEnd, Panic, Finish, SetJob, domVars
<1>2. QED
  BY <1>1, MoveParts DEF JobsLeave, NoMove, Move

\* One step of a job's goroutine.
LEMMA JobStepIs ==
    ASSUME MoveTypeOK, IsFiniteSet(DOMAIN files), NEW j \in Jobs, JobStep(j)
    PROVE  MoveKind(j) \/ JobsLeave
BY PrepareIs, PickNameIs, CreateCopyIs, CopyBytesIs, RepointIs, RollbackDiskIs, CleanupDiskIs, EndIs
   DEF JobStep, MoveKind

\* StartDomain (domain_lifecycle.go:11-22).
LEMMA StartIs ==
    ASSUME MoveTypeOK, NEW v \in VMs, StartDomain(v)
    PROVE  Started(v)
BY DEF StartDomain, Opened, Started, Powered, DisksOf, MoveTypeOK, jobVars

\* A guest that obeys, or ForceOffDomain (domain_lifecycle.go:24-59).
LEMMA PowerOffIs ==
    ASSUME MoveTypeOK, NEW v \in VMs, PowerOff(v)
    PROVE  Stopped(v)
BY DEF PowerOff, Stopped, Powered, Closed, DisksOf, MoveTypeOK, Live, jobVars

\* SuspendDomain and ResumeDomain (domain_lifecycle.go:74-103), and the guest's
\* own sleep.
Turned(v) == SuspendDomain(v) \/ ResumeDomain(v) \/ Sleep(v) \/ Wake(v)
LEMMA SuspendIs ==
    ASSUME MoveTypeOK, NEW v \in VMs, Turned(v)
    PROVE  Suspended(v)
BY DEF Turned, SuspendDomain, ResumeDomain, Sleep, Wake, Turns, Suspended, Powered, MoveTypeOK, Live, jobVars

\* DeleteDomain: the machine is gone, or stays paused (domain_lifecycle.go:105-119).
LEMMA DeleteIs ==
    ASSUME MoveTypeOK, NEW v \in VMs, DeleteDomain(v), UNCHANGED <<src, files, job, cause>>
    PROVE  Stopped(v) \/ Suspended(v)
BY DEF DeleteDomain, Stopped, Suspended, Powered, Closed, DisksOf, MoveTypeOK, Live

\* A write of the guest ages every file of the disk but the open one.
LEMMA GuestWriteIs ==
    ASSUME MoveTypeOK, NEW d \in Disks, GuestWrite(d)
    PROVE  Written(d)
<1>1. \A p \in DOMAIN files : files[p] \in File
  BY DEF MoveTypeOK
<1>2. \A p \in DOMAIN files :
         /\ files'[p].of = files[p].of /\ files'[p].by = files[p].by /\ files'[p].whole = files[p].whole
         /\ files[p].of # d \/ p = hold[d] => files'[p].cur = files[p].cur
  BY <1>1 DEF GuestWrite, File
<1>3. QED
  BY <1>2 DEF GuestWrite, Written, domVars, jobVars

\* A request submits its job (storage_move.go:74-154).
LEMMA BeginIs ==
    ASSUME MoveTypeOK, NEW j \in Jobs, NEW v \in VMs, NEW p \in Pools, MoveVMStorage(j, v, p)
    PROVE  JobsLeave
BY MoveParts DEF MoveVMStorage, SetJob, Move, JobsLeave, domVars

\* A restart ends every job.
LEMMA LostIs ==
    ASSUME MoveTypeOK, JobsLost, UNCHANGED <<domVars, files, cause>>
    PROVE  JobsLeave
BY DEF JobsLost, NoMove, Move, JobsLeave, domVars

\* A step of the scheduler alone.
LEMMA StillIs ==
    ASSUME UNCHANGED <<dom, src, files, hold, job, cause>>
    PROVE  JobsLeave
BY DEF JobsLeave

\* The parts of a request's record.
LEMMA RequestParts ==
    ASSUME TypeOK, NEW r \in Requests
    PROVE  /\ req \in [Requests -> RequestType] /\ req[r] \in RequestType
           /\ req[r].at \in {"new", "save", "rebuild", "sweep", "clear", "ended"}
           /\ req[r].victim # Nil => /\ req[r].victim \in Victims /\ req[r].victim.path \in Path
                                     /\ req[r].victim.by \in Jobs \cup {Nil}
BY DEF TypeOK, RequestType, Victims

\* A sweep turns to a file, or away from it; the other requests stay.
LEMMA LookIs ==
    ASSUME TypeOK, NEW r \in Requests, NEW x \in Victims \cup {Nil}, Look(r, x)
    PROVE  /\ req' \in [Requests -> RequestType]
           /\ \A q \in Requests \ {r} : req'[q] = req[q]
           /\ req'[r].at = req[r].at /\ req'[r].victim = x
<1>1. req' = [req EXCEPT ![r] = [req[r] EXCEPT !.victim = x]]
  BY DEF Look, SetReq
<1>2. req \in [Requests -> RequestType] /\ req[r] \in RequestType
  BY RequestParts
<1>3. /\ [req[r] EXCEPT !.victim = x] \in RequestType
      /\ [req[r] EXCEPT !.victim = x].at = req[r].at /\ [req[r] EXCEPT !.victim = x].victim = x
  BY <1>2 DEF RequestType
<1>4. QED
  BY <1>1, <1>2, <1>3

\* The check of a sweep (storage.go:993-1017).
LEMMA SweepCheckIs ==
    ASSUME TypeOK, NEW r \in Requests, NEW p \in DOMAIN files, NEW unread \in SUBSET VMs, SweepCheck(r, p, unread)
    PROVE  Looked(r) /\ req' \in [Requests -> RequestType]
<1> DEFINE x == [path |-> p, by |-> files[p].by]
<1>1. p \in Path /\ files[p] \in File
  BY DEF TypeOK, MoveTypeOK
<1>2. x \in Victims /\ x.path = p /\ x.by = files[p].by
  BY <1>1 DEF Victims, File
<1>3. Look(r, x)
  BY DEF SweepCheck
<1> HIDE DEF x
<1>4. /\ req' \in [Requests -> RequestType]
      /\ \A q \in Requests \ {r} : req'[q] = req[q]
      /\ req'[r].victim = x
  BY <1>2, <1>3, LookIs
<1>5. Owner(p) \in VMs
  BY <1>1, DisksAssumption DEF Owner, File
<1>6. /\ cause \subseteq cause'
      /\ (\E j \in Jobs : Busy(j) /\ job[j].vm = Owner(p)) => <<Owner(p), "swept">> \in cause'
  BY <1>5 DEF SweepCheck, Struck
<1>7. \A v \in VMs : dom[v] # "gone" =>
        <<v, "misread">> \in cause' \/ \A d \in DisksOf(v) : src[d] # p
  BY DEF SweepCheck, Attached, Overlooked, Misread
<1>8. UNCHANGED <<dom, src, files, hold, job>>
  BY DEF SweepCheck, domVars, jobVars
<1>9. QED
  BY <1>2, <1>4, <1>6, <1>7, <1>8 DEF Looked

\* The removal it decided on (storage.go:835-853).
LEMMA SweepDeleteIs ==
    ASSUME TypeOK, NEW r \in Requests, SweepDelete(r)
    PROVE  Deleted(r) /\ SameVictims /\ req' \in [Requests -> RequestType]
<1> DEFINE p == req[r].victim.path
<1>1. \A q \in DOMAIN files : Owner(q) \in VMs
  BY DisksAssumption DEF TypeOK, MoveTypeOK, File, Owner
<1>2. /\ cause \subseteq cause'
      /\ p \in DOMAIN files =>
           /\ files[p].by # req[r].victim.by => <<Owner(p), "swept">> \in cause'
           /\ (\E j \in Jobs : Busy(j) /\ job[j].vm = Owner(p)) => <<Owner(p), "swept">> \in cause'
  BY <1>1 DEF SweepDelete, Struck
<1>3. Unlinked(p)
  BY UnlinkIs DEF SweepDelete, TypeOK
<1>4. /\ req' \in [Requests -> RequestType]
      /\ \A q \in Requests \ {r} : req'[q] = req[q]
      /\ req'[r].victim = Nil
  BY LookIs DEF SweepDelete
<1>5. QED
  BY <1>2, <1>3, <1>4 DEF SweepDelete, Deleted, Sweeping, SameVictims, jobVars

\* A request that is about no machine has no victim.
LEMMA NoVmIs ==
    ASSUME TypeOK, NEW r \in Requests, NEW at \in {"new", "save", "rebuild", "ended"}, SetReq(r, NoVm(at))
    PROVE  SameVictims /\ req' \in [Requests -> RequestType] /\ req'[r].at = at
           /\ \A q \in Requests \ {r} : req'[q] = req[q]
<1>1. req \in [Requests -> RequestType]
  BY DEF TypeOK
<1>2. NoVm(at) \in RequestType /\ NoVm(at).at = at
  BY DEF NoVm, Request, RequestType
<1>3. req' \in [Requests -> RequestType] /\ req'[r] = NoVm(at) /\ \A q \in Requests \ {r} : req'[q] = req[q]
  BY <1>1, <1>2 DEF SetReq
<1>4. QED
  BY <1>2, <1>3 DEF SameVictims, Sweeping

\* A deletion begins with nothing looked at (vms.go:354-388).
LEMMA DeleteVMIs ==
    ASSUME TypeOK, NEW r \in Requests, NEW v \in VMs, NEW disks \in BOOLEAN, DeleteVM(r, v, disks)
    PROVE  /\ SameVictims /\ req' \in [Requests -> RequestType]
           /\ req'[r].at \in {"sweep", "clear"} /\ \A q \in Requests \ {r} : req'[q] = req[q]
<1> DEFINE x == Request(IF disks THEN "sweep" ELSE "clear", v, {Shown(d).name : d \in DisksOf(v)}, Nil)
<1>1. {Shown(d).name : d \in DisksOf(v)} \subseteq Name
  BY DEF TypeOK, MoveTypeOK, DisksOf, Shown, Path
<1>2. x \in RequestType /\ x.at \in {"sweep", "clear"} /\ x.victim = Nil
  BY <1>1 DEF Request, RequestType
<1>3. req' = [req EXCEPT ![r] = x]
  BY DEF DeleteVM, SetReq
<1> HIDE DEF x
<1>4. req' \in [Requests -> RequestType] /\ req'[r] = x /\ \A q \in Requests \ {r} : req'[q] = req[q]
  BY <1>2, <1>3 DEF TypeOK
<1>5. QED
  BY <1>2, <1>4 DEF SameVictims, Sweeping

\* ... and ends with nothing looked at.
LEMMA SweepEndIs ==
    ASSUME TypeOK, NEW r \in Requests, SweepEnd(r)
    PROVE  /\ SameVictims /\ req' \in [Requests -> RequestType]
           /\ req'[r].at = "clear" /\ \A q \in Requests \ {r} : req'[q] = req[q]
<1> DEFINE x == [req[r] EXCEPT !.at = "clear"]
<1>1. x \in RequestType /\ x.at = "clear"
  BY RequestParts DEF RequestType
<1>2. req' = [req EXCEPT ![r] = x]
  BY DEF SweepEnd, SetReq
<1> HIDE DEF x
<1>3. req' \in [Requests -> RequestType] /\ req'[r] = x /\ \A q \in Requests \ {r} : req'[q] = req[q]
  BY <1>1, <1>2 DEF TypeOK
<1>4. QED
  BY <1>1, <1>3 DEF SameVictims, Sweeping

\* A restart leaves no job at work and no sweep under way.
LEMMA RestartIs ==
    ASSUME TypeOK, NEW read \in BOOLEAN, Restart(read)
    PROVE  /\ JobsLeave /\ SameVictims /\ req' \in [Requests -> RequestType]
           /\ \A r \in Requests : req'[r].at \in {"new", "ended"}
<1>1. JobsLeave
  BY LostIs DEF Restart, TypeOK
<1>2. /\ req' \in [Requests -> RequestType]
      /\ \A r \in Requests : req'[r].at \in {"new", "ended"}
  BY DEF Restart, NoVm, Request, RequestType
<1>3. QED
  BY <1>1, <1>2 DEF SameVictims, Sweeping

FilesFinite == IsFiniteSet(DOMAIN files)

\* Every step is of one of the kinds.
LEMMA StepKinds ==
    ASSUME TypeOK, FilesFinite, [Next]_vars
    PROVE  Kind
<1> USE DEF FilesFinite
<1>0. MoveTypeOK
  BY DEF TypeOK
<1>a. ASSUME UNCHANGED schedVars PROVE SameVictims
  BY <1>a DEF schedVars, SameVictims, Sweeping
<1>b. ASSUME UNCHANGED req PROVE SameVictims
  BY <1>b DEF SameVictims, Sweeping
<1>1. ASSUME NEW j \in Jobs, MoveStep(j) PROVE Kind
  BY <1>1, <1>0, <1>a, JobStepIs DEF MoveStep, Kind
<1>2. CASE OperatorNext
  <2>1. SameVictims
    BY <1>2, <1>a DEF OperatorNext
  <2>2. ASSUME NEW v \in VMs, StartDomain(v) \/ PowerOff(v) \/ Turned(v) PROVE Kind
    BY <2>1, <2>2, <1>0, StartIs, PowerOffIs, SuspendIs DEF Kind
  <2>3. ASSUME NEW d \in Disks, GuestWrite(d) PROVE Kind
    BY <2>1, <2>3, <1>0, GuestWriteIs DEF Kind
  <2>4. ASSUME NEW j \in Jobs, NEW v \in VMs, NEW p \in Pools, MoveVMStorage(j, v, p) PROVE Kind
    BY <2>1, <2>4, <1>0, BeginIs DEF Kind
  <2>5. ASSUME NEW j \in Jobs, Panic(j) PROVE Kind
    BY <2>1, <2>5, <1>0, EndIs DEF Kind
  <2>6. ASSUME NEW j \in Jobs, PruneExpiredJobs(j) PROVE Kind
    BY <2>1, <2>6, StillIs DEF Kind, PruneExpiredJobs, domVars
  <2>7. QED
    BY <1>2, <2>2, <2>3, <2>4, <2>5, <2>6 DEF OperatorNext, Turned
<1>3. CASE RequestNext
  <2>a. ASSUME UNCHANGED moveVars PROVE JobsLeave
    BY <2>a, StillIs DEF moveVars, domVars, jobVars
  <2>1. ASSUME NEW r \in Requests, NEW v \in VMs, NEW S \in SUBSET Acts, SetVMSchedule(r, v, S) PROVE Kind
    BY <2>1, <2>a, NoVmIs DEF SetVMSchedule, Kind
  <2>2. ASSUME NEW r \in Requests, NEW v \in VMs, NEW d \in BOOLEAN, DeleteVM(r, v, d) PROVE Kind
    <3>1. DeleteDomain(v) /\ UNCHANGED <<src, files, job, cause>>
      BY <2>2 DEF DeleteVM, jobVars
    <3>2. QED
      BY <2>2, <3>1, <1>0, DeleteIs, DeleteVMIs DEF Kind
  <2>3. ASSUME NEW r \in Requests, NEW p \in DOMAIN files, NEW unread \in SUBSET VMs,
             SweepCheck(r, p, unread) PROVE Kind
    BY <2>3, SweepCheckIs DEF Kind
  <2>4. ASSUME NEW r \in Requests, SweepDelete(r) PROVE Kind
    BY <2>4, SweepDeleteIs DEF Kind
  <2>5. ASSUME NEW r \in Requests, SweepEnd(r) PROVE Kind
    BY <2>5, <2>a, SweepEndIs DEF SweepEnd, Kind
  <2>6. ASSUME NEW r \in Requests, ClearSchedule(r) PROVE Kind
    BY <2>6, <2>a, NoVmIs DEF ClearSchedule, Kind
  <2>7. ASSUME NEW r \in Requests, NEW ok \in BOOLEAN, Save(r, ok) PROVE Kind
    BY <2>7, <2>a, NoVmIs DEF Save, Kind
  <2>8. ASSUME NEW r \in Requests, RebuildStop(r) PROVE Kind
    BY <2>8, <2>a, <1>b DEF RebuildStop, Kind
  <2>9. ASSUME NEW r \in Requests, Rebuilt(r) PROVE Kind
    BY <2>9, <2>a, NoVmIs DEF Rebuilt, Kind
  <2>10. QED
    BY <1>3, <2>1, <2>2, <2>3, <2>4, <2>5, <2>6, <2>7, <2>8, <2>9 DEF RequestNext
<1>4. ASSUME NEW v \in VMs, NEW a \in Acts, Fire(v, a) PROVE Kind
  BY <1>4, <1>b, StillIs DEF Fire, Kind, moveVars, domVars, jobVars
<1>5. ASSUME NEW v \in VMs, NEW a \in Acts, Power(v, a) PROVE Kind
  <2>1. SameVictims
    BY <1>5, <1>b DEF Power
  <2>2. CASE StartDomain(v)
    BY <2>1, <2>2, <1>0, StartIs DEF Kind
  <2>3. CASE PowerOff(v)
    BY <2>1, <2>3, <1>0, PowerOffIs DEF Kind
  <2>4. CASE UNCHANGED moveVars
    BY <2>1, <2>4, StillIs DEF Kind, moveVars, domVars, jobVars
  <2>5. QED
    BY <1>5, <2>2, <2>3, <2>4 DEF Power
<1>6. ASSUME NEW read \in BOOLEAN, Restart(read) PROVE Kind
  BY <1>6, RestartIs DEF Kind
<1>7. CASE UNCHANGED vars
  BY <1>7, <1>a, StillIs DEF vars, Kind, moveVars, domVars, jobVars
<1>8. QED
  BY <1>1, <1>2, <1>3, <1>4, <1>5, <1>6, <1>7 DEF Next

\* Files come one at a time.
LEMMA StepFinite ==
    ASSUME FilesFinite, Kind
    PROVE  FilesFinite'
<1>1. \E p : DOMAIN files' \in SUBSET (DOMAIN files \cup {p})
  BY DEF Kind, JobsLeave, Started, Stopped, Suspended, Powered, Written, MoveKind, Prepared, Chosen,
         GivenUp, Dropped, Created, Copied, Pointed, Reverted, Cleaned, PassedOver, Looked, Deleted, Unlinked
<1>2. QED
  BY <1>1, FS_AddElement, FS_Subset DEF FilesFinite

\* The types of the variables, each by itself.
Shapes ==
    /\ dom \in [VMs -> {"off", "gone"} \cup Live]
    /\ transient \subseteq VMs
    /\ src \in [Disks -> Path]
    /\ live \in [Disks -> Path \cup {Nil}] /\ hold \in [Disks -> Path \cup {Nil}]
    /\ \A p \in DOMAIN files : p \in Path /\ files[p] \in File
    /\ job \in [Jobs -> MoveType]
    /\ status \in [Jobs -> {"none", "running", "done", "error"}]
    /\ starts \in Nat
    /\ cause \subseteq VMs \X Causes

\* Types of what the steps are made of.
LEMMA SetJobTyped ==
    ASSUME MoveTypeOK, NEW j \in Jobs, NEW m, SetJob(j, m), m \in MoveType \/ job'[j] \in MoveType
    PROVE  job' \in [Jobs -> MoveType]
BY DEF SetJob, MoveTypeOK

\* A job without a move.
LEMMA NoMoveTyped ==
    \A at \in {"new", "ended", "dead"} : NoMove(at) \in MoveType
BY DEF NoMove, Move, MoveType

\* A job that files its outcome.
LEMMA FinishTyped ==
    ASSUME MoveTypeOK, NEW j \in Jobs, NEW o \in {"done", "error"}, Finish(j, o)
    PROVE  job' \in [Jobs -> MoveType] /\ status' \in [Jobs -> {"none", "running", "done", "error"}]
BY SetJobTyped, NoMoveTyped DEF Finish, MoveTypeOK

\* What is left after a removal.
LEMMA UnlinkTyped ==
    ASSUME MoveTypeOK, NEW S, Unlink(S)
    PROVE  /\ \A p \in DOMAIN files' : p \in Path /\ files'[p] \in File
           /\ hold' \in [Disks -> Path \cup {Nil}]
BY DEF Unlink, MoveTypeOK

\* The error path.
LEMMA DropCopyTyped ==
    ASSUME MoveTypeOK, NEW j \in Jobs, DropCopy(j)
    PROVE  Shapes'
<1>1. job' \in [Jobs -> MoveType]
  <2>1. Goes(j, "rollback", Nil)
    BY DEF DropCopy
  <2>2. job'[j] \in MoveType
    BY <2>1, GoesIs DEF After
  <2>3. QED
    BY <2>1, <2>2, SetJobTyped DEF Goes
<1>2. \A p \in DOMAIN files' : p \in Path /\ files'[p] \in File
  BY UnlinkTyped DEF DropCopy
<1>3. hold' \in [Disks -> Path \cup {Nil}]
  BY UnlinkTyped DEF DropCopy
<1>4. cause' \subseteq VMs \X Causes
  BY DEF DropCopy, Bereft, NotMine, MoveTypeOK, Causes
<1>5. QED
  BY <1>1, <1>2, <1>3, <1>4 DEF DropCopy, Shapes, MoveTypeOK

\* A step of a job keeps the types.
LEMMA JobStepTyped ==
    ASSUME MoveTypeOK, FilesFinite, NEW j \in Jobs, JobStep(j)
    PROVE  Shapes'
<1>1. ASSUME NEW ok \in BOOLEAN, NEW unread \in SUBSET VMs, Prepare(j, ok, unread) PROVE Shapes'
  <2>0. job[j].at = "begin" /\ UNCHANGED <<dom, transient, src, live, hold, starts, files>>
    BY <1>1 DEF Prepare, domVars
  <2>1. CASE ok /\ MayMove(job[j].vm, Todo(job[j].vm, job[j].pool), unread)
    <3> DEFINE m == Move("name", job[j].vm, job[j].pool, Todo(job[j].vm, job[j].pool), Nil, {})
    <3>1. SetJob(j, m) /\ UNCHANGED status
      BY <1>1, <2>1 DEF Prepare
    <3>2. m \in MoveType
      BY MoveParts, TodoTyped DEF Move, MoveType
    <3>3. job' \in [Jobs -> MoveType]
      <4> HIDE DEF m
      <4> QED BY <3>1, <3>2, SetJobTyped
    <3>4. job[j].vm \in VMs
      BY <2>0 DEF MoveTypeOK, InHand
    <3>5. cause' \subseteq VMs \X Causes
      BY <1>1, <2>1, <3>4 DEF Prepare, MoveTypeOK, Causes
    <3>6. QED
      BY <2>0, <3>1, <3>3, <3>5 DEF Shapes, MoveTypeOK
  <2>2. CASE ~(ok /\ MayMove(job[j].vm, Todo(job[j].vm, job[j].pool), unread))
    BY <1>1, <2>0, <2>2, FinishTyped DEF Prepare, Shapes, MoveTypeOK
  <2>3. QED
    BY <2>1, <2>2
<1>2. ASSUME NEW ok \in BOOLEAN, PickName(j, ok) PROVE Shapes'
  <2>1. job'[j] \in MoveType
    BY <1>2, PickNameIs DEF Chosen, GivenUp, After, FilesFinite
  <2>2. job' \in [Jobs -> MoveType]
    BY <1>2, <2>1, SetJobTyped DEF PickName, Goes
  <2>3. QED
    BY <1>2, <2>2 DEF PickName, Shapes, MoveTypeOK, domVars
<1>3. ASSUME NEW ok \in BOOLEAN, CreateCopy(j, ok) PROVE Shapes'
  <2> DEFINE from == First(job[j].todo).from
             to == job[j].to
  <2>1. CASE ok /\ from \in DOMAIN files /\ to \notin DOMAIN files
    <3>1. to \in Path /\ Goes(j, "copy", to)
      BY <1>3, <2>1, MoveParts DEF CreateCopy, MoveTypeOK, InHand
    <3>2. job'[j] \in MoveType
      BY <3>1, GoesIs DEF After
    <3>3. job' \in [Jobs -> MoveType]
      BY <3>1, <3>2, SetJobTyped DEF Goes
    <3>4. files' = [p \in DOMAIN files \cup {to} |->
                     IF p = to THEN [of |-> files[from].of, by |-> j, whole |-> FALSE,
                                     cur |-> files[from].cur /\ files[from].whole]
                     ELSE files[p]]
      BY <1>3, <2>1 DEF CreateCopy
    <3>5. files[from] \in File
      BY <2>1 DEF MoveTypeOK
    <3>6. (files[from].cur /\ files[from].whole) \in BOOLEAN
      OBVIOUS
    <3>7. [of |-> files[from].of, by |-> j, whole |-> FALSE,
           cur |-> files[from].cur /\ files[from].whole] \in File
      BY <3>5, <3>6 DEF File
    <3>8. \A p \in DOMAIN files' : p \in Path /\ files'[p] \in File
      BY <3>1, <3>4, <3>7 DEF MoveTypeOK
    <3>9. QED
      BY <1>3, <2>1, <3>3, <3>8 DEF CreateCopy, Shapes, MoveTypeOK, domVars
  <2>2. CASE ~(ok /\ from \in DOMAIN files /\ to \notin DOMAIN files)
    BY <1>3, <2>2, DropCopyTyped DEF CreateCopy
  <2>3. QED
    BY <2>1, <2>2
<1>4. ASSUME NEW ok \in BOOLEAN, CopyBytes(j, ok) PROVE Shapes'
  <2>1. CASE ok
    <3>1. job[j].to \in Path /\ Goes(j, "repoint", job[j].to)
      BY <1>4, <2>1, MoveParts DEF CopyBytes, MoveTypeOK, InHand
    <3>2. job'[j] \in MoveType
      BY <3>1, GoesIs DEF After
    <3>3. job' \in [Jobs -> MoveType]
      BY <3>1, <3>2, SetJobTyped DEF Goes
    <3>4. files' = [p \in DOMAIN files |->
                     IF p = job[j].to /\ files[p].by = j THEN [files[p] EXCEPT !.whole = TRUE] ELSE files[p]]
      BY <1>4, <2>1 DEF CopyBytes
    <3>5. \A f \in File : [f EXCEPT !.whole = TRUE] \in File
      BY DEF File
    <3>6. \A p \in DOMAIN files' : p \in Path /\ files'[p] \in File
      BY <3>4, <3>5 DEF MoveTypeOK
    <3>7. QED
      BY <1>4, <2>1, <3>3, <3>6 DEF CopyBytes, Shapes, MoveTypeOK, domVars
  <2>2. CASE ~ok
    BY <1>4, <2>2, DropCopyTyped DEF CopyBytes
  <2>3. QED
    BY <2>1, <2>2
<1>5. ASSUME NEW ok \in BOOLEAN, Repoint(j, ok) PROVE Shapes'
  <2>1. CASE ok /\ CanRepoint(job[j].vm)
    <3>1. Repointed(j) /\ job[j].at = "repoint"
      BY <1>5, <2>1 DEF Repoint
    <3>2. \E m : SetJob(j, m)
      BY <3>1 DEF Repointed, Moved
    <3>3. job'[j] \in MoveType
      <4>1. Pointed(j) \/ Dropped(j)
        BY <1>5, RepointIs
      <4>2. QED
        BY <4>1 DEF Pointed, Dropped, After
    <3>4. job' \in [Jobs -> MoveType]
      BY <3>2, <3>3, SetJobTyped
    <3>5. job[j].to \in Path
      BY <3>1, MoveParts DEF MoveTypeOK, InHand
    <3>6. src' \in [Disks -> Path]
      BY <3>1, <3>5 DEF Repointed, MoveTypeOK
    <3>7. QED
      BY <3>1, <3>4, <3>6 DEF Repointed, Shapes, MoveTypeOK
  <2>2. CASE ~(ok /\ CanRepoint(job[j].vm))
    BY <1>5, <2>2, DropCopyTyped DEF Repoint
  <2>3. QED
    BY <2>1, <2>2
<1>6. ASSUME NEW ok \in BOOLEAN, RollbackDisk(j, ok) PROVE Shapes'
  <2> DEFINE m == First(job[j].done)
  <2>1. m \in job[j].done /\ m.from \in Path /\ job[j].vm \in VMs
    BY <1>6, NextIn, MoveParts DEF RollbackDisk, MoveTypeOK, InHand, Busy, Moving
  <2>2. job'[j] \in MoveType
    BY <1>6, RollbackDiskIs DEF Reverted, After
  <2>3. job' \in [Jobs -> MoveType]
    BY <1>6, <2>2, SetJobTyped DEF RollbackDisk, Undone
  <2>4. src' \in [Disks -> Path]
    BY <1>6, <2>1 DEF RollbackDisk, MoveTypeOK
  <2>5. /\ \A p \in DOMAIN files' : p \in Path /\ files'[p] \in File
        /\ hold' \in [Disks -> Path \cup {Nil}]
    BY <1>6, UnlinkTyped DEF RollbackDisk
  <2>6. cause' \subseteq VMs \X Causes
    BY <1>6, <2>1 DEF RollbackDisk, NotMine, MoveTypeOK, Causes
  <2>7. QED
    BY <1>6, <2>3, <2>4, <2>5, <2>6 DEF RollbackDisk, Shapes, MoveTypeOK
<1>7. ASSUME NEW ok \in BOOLEAN, CleanupDisk(j, ok) PROVE Shapes'
  <2>1. job'[j] \in MoveType
    BY <1>7, CleanupDiskIs DEF Cleaned, PassedOver, After
  <2>2. job' \in [Jobs -> MoveType]
    BY <1>7, <2>1, SetJobTyped DEF CleanupDisk, Undone
  <2>3. /\ \A p \in DOMAIN files' : p \in Path /\ files'[p] \in File
        /\ hold' \in [Disks -> Path \cup {Nil}]
    BY <1>7, UnlinkTyped DEF CleanupDisk, MoveTypeOK
  <2>4. cause' \subseteq VMs \X Causes
    BY <1>7 DEF CleanupDisk, Bereft, NotOurs, MoveTypeOK, Causes
  <2>5. QED
    BY <1>7, <2>2, <2>3, <2>4 DEF CleanupDisk, Shapes, MoveTypeOK
<1>8. CASE RollbackEnd(j) \/ CleanupEnd(j)
  BY <1>8, FinishTyped DEF RollbackEnd, CleanupEnd, Shapes, MoveTypeOK, domVars
<1>9. QED
  BY <1>1, <1>2, <1>3, <1>4, <1>5, <1>6, <1>7, <1>8 DEF JobStep

\* A machine that closes its files.
LEMMA ClosedTyped ==
    ASSUME MoveTypeOK, NEW v, Closed(v)
    PROVE  live' \in [Disks -> Path \cup {Nil}] /\ hold' \in [Disks -> Path \cup {Nil}]
BY DEF Closed, MoveTypeOK

\* The power operations keep the types.
LEMMA PowerTyped ==
    ASSUME MoveTypeOK, NEW v \in VMs, StartDomain(v) \/ PowerOff(v) \/ Turned(v)
    PROVE  Shapes'
<1>1. CASE StartDomain(v)
  <2>1. live' \in [Disks -> Path \cup {Nil}] /\ hold' \in [Disks -> Path \cup {Nil}]
    BY <1>1 DEF StartDomain, Opened, MoveTypeOK
  <2>2. starts' \in Nat
    BY <1>1 DEF StartDomain, MoveTypeOK
  <2>3. cause' \subseteq VMs \X Causes
    BY <1>1 DEF StartDomain, MoveTypeOK, Causes
  <2>4. QED
    BY <1>1, <2>1, <2>2, <2>3 DEF StartDomain, Shapes, MoveTypeOK, Live, jobVars
<1>2. CASE PowerOff(v)
  BY <1>2, ClosedTyped DEF PowerOff, Shapes, MoveTypeOK, jobVars
<1>3. CASE Turned(v)
  BY <1>3 DEF Turned, SuspendDomain, ResumeDomain, Sleep, Wake, Turns, Shapes, MoveTypeOK, Live, jobVars
<1>4. QED
  BY <1>1, <1>2, <1>3

\* A step of the scheduler alone keeps them.
LEMMA SameShapes ==
    ASSUME MoveTypeOK, UNCHANGED moveVars
    PROVE  Shapes'
BY DEF MoveTypeOK, Shapes, moveVars, domVars, jobVars

\* MoveTypeOK is its shapes and what jobs and started machines have in hand.
LEMMA HandsKept ==
    ASSUME MoveTypeOK, Kind, Shapes'
    PROVE  MoveTypeOK'
<1>1. ASSUME NEW d \in Disks, hold'[d] # Nil
      PROVE  hold'[d] \in DOMAIN files' /\ dom'[VmOf[d]] \in Live
  <2>0. (hold[d] # Nil => hold[d] \in DOMAIN files /\ dom[VmOf[d]] \in Live) /\ VmOf[d] \in VMs
    BY DisksAssumption DEF MoveTypeOK
  <2>1. CASE \E v \in VMs : Started(v) \/ Stopped(v) \/ Suspended(v)
    BY <1>1, <2>0, <2>1 DEF Started, Stopped, Suspended, Powered, DisksOf, Live
  <2>2. CASE JobsLeave \/ \E e \in Disks : Written(e)
    BY <1>1, <2>0, <2>2 DEF JobsLeave, Written
  <2>3. ASSUME NEW p, Unlinked(p), UNCHANGED dom
        PROVE  hold'[d] \in DOMAIN files' /\ dom'[VmOf[d]] \in Live
    BY <1>1, <2>0, <2>3 DEF Unlinked
  <2>4. ASSUME NEW j \in Jobs, MoveKind(j)
        PROVE  hold'[d] \in DOMAIN files' /\ dom'[VmOf[d]] \in Live
    BY <1>1, <2>0, <2>3, <2>4 DEF MoveKind, Prepared, Chosen, GivenUp, Dropped, Created, Copied, Pointed,
         Reverted, Cleaned, PassedOver
  <2>5. ASSUME NEW r \in Requests, Looked(r) \/ Deleted(r)
        PROVE  hold'[d] \in DOMAIN files' /\ dom'[VmOf[d]] \in Live
    BY <1>1, <2>0, <2>3, <2>5 DEF Looked, Deleted
  <2>6. QED
    BY <2>1, <2>2, <2>4, <2>5 DEF Kind
<1>2. ASSUME NEW k \in Jobs, job'[k] = job[k] PROVE InHand(k)'
  BY <1>2 DEF MoveTypeOK, InHand, Busy, Moving
<1>3. ASSUME NEW k \in Jobs PROVE InHand(k)'
  <2>1. CASE UNCHANGED job
    BY <2>1, <1>2
  <2>2. CASE JobsLeave
    BY <2>2, <1>2 DEF JobsLeave, InHand, Busy, Moving
  <2>3. ASSUME NEW j \in Jobs, MoveKind(j) PROVE InHand(k)'
    <3>1. CASE k # j
      <4>1. job'[k] = job[k]
        BY <2>3, <3>1 DEF MoveKind, Prepared, Chosen, GivenUp, Dropped, Created, Copied, Pointed,
                          Reverted, Cleaned, PassedOver, After
      <4>2. QED
        BY <4>1, <1>2
    <3>2. CASE k = j
      <4>0. /\ Busy(j) \/ job[j].at = "begin" => job[j].vm \in VMs /\ job[j].pool \in Pools
            /\ job[j].at \in {"create", "copy", "repoint"} => job[j].to # Nil
            /\ job[j].at \in {"name", "create", "copy", "repoint"} => job[j].todo # {}
        BY DEF MoveTypeOK, InHand
      <4>1. job'[j].vm = job[j].vm /\ job'[j].pool = job[j].pool /\ (Busy(j) \/ job[j].at = "begin")
        BY <2>3 DEF MoveKind, Prepared, Chosen, GivenUp, Dropped, Created, Copied, Pointed,
                    Reverted, Cleaned, PassedOver, After, Busy, Moving
      <4>2. CASE GivenUp(j) \/ Dropped(j) \/ Reverted(j) \/ Cleaned(j) \/ PassedOver(j)
        <5>1. job'[j].at \in {"rollback", "cleanup"}
          BY <4>2 DEF GivenUp, Dropped, Reverted, Cleaned, PassedOver, After
        <5>2. QED
          BY <3>2, <4>0, <4>1, <5>1 DEF InHand
      <4>3. CASE Created(j) \/ Copied(j)
        <5>1. job'[j].to = job[j].to /\ job'[j].todo = job[j].todo /\ job[j].at \in {"create", "copy"}
          BY <4>3 DEF Created, Copied, After
        <5>2. QED
          BY <3>2, <4>0, <4>1, <5>1 DEF InHand
      <4>4. CASE Prepared(j)
        BY <3>2, <4>0, <4>1, <4>4 DEF Prepared, After, InHand
      <4>5. CASE Chosen(j)
        BY <3>2, <4>0, <4>1, <4>5, NilAssumption DEF Chosen, After, InHand
      <4>6. CASE Pointed(j)
        BY <3>2, <4>0, <4>1, <4>6 DEF Pointed, After, InHand
      <4>7. QED
        BY <2>3, <4>2, <4>3, <4>4, <4>5, <4>6 DEF MoveKind
    <3>3. QED
      BY <3>1, <3>2
  <2>4. QED
    BY <2>1, <2>2, <2>3 DEF Kind, Started, Stopped, Suspended, Powered, Written, Looked, Deleted
<1>4. QED
  BY <1>1, <1>3 DEF Shapes, MoveTypeOK

\* The table differs from its file only while a request is about to save it,
\* after a save failed, or when the file could not be read; the cron's entries, until that request has rebuilt them.
TablesAgree ==
    /\ saved # sched => unsaved \/ unloaded \/ \E r \in Requests : req[r].at = "save"
    /\ entries # sched => unsaved \/ \E r \in Requests : req[r].at \in {"save", "rebuild"}
    /\ firing \subseteq entries
    /\ rebuild # Nil => req[rebuild].at = "rebuild"

SchedTypes ==
    /\ sched \subseteq Lines /\ saved \subseteq Lines /\ entries \subseteq Lines /\ firing \subseteq Lines
    /\ rebuild \in Requests \cup {Nil}
Flags == unsaved \in BOOLEAN /\ unloaded \in BOOLEAN

\* The scheduler's side of a step.
LEMMA StepScheduled ==
    ASSUME TypeOK, TablesAgree, [Next]_vars
    PROVE  /\ SchedTypes' /\ TablesAgree' /\ Flags'
           /\ req' \in [Requests -> RequestType]
<1> DEFINE Goal == /\ SchedTypes' /\ TablesAgree' /\ Flags'
                   /\ req' \in [Requests -> RequestType]
<1>0. /\ sched \subseteq Lines /\ saved \subseteq Lines /\ entries \subseteq Lines /\ firing \subseteq Lines
      /\ rebuild \in Requests \cup {Nil} /\ Flags /\ req \in [Requests -> RequestType]
  BY DEF TypeOK, Flags
<1>a. ASSUME UNCHANGED <<sched, saved, entries, firing, rebuild, unsaved, unloaded>>,
             req' \in [Requests -> RequestType],
             NEW r \in Requests, \A q \in Requests \ {r} : req'[q] = req[q],
             req[r].at \notin {"save", "rebuild"}
      PROVE  Goal
  <2>1. SchedTypes' /\ Flags'
    BY <1>a, <1>0 DEF SchedTypes, Flags
  <2>2. TablesAgree'
    BY <1>a, <1>0 DEF TablesAgree
  <2>3. QED
    BY <2>1, <2>2, <1>a
<1>b. ASSUME UNCHANGED schedVars PROVE Goal
  <2>1. SchedTypes' /\ Flags' /\ req' \in [Requests -> RequestType]
    BY <1>b, <1>0 DEF SchedTypes, Flags, schedVars
  <2>2. TablesAgree'
    BY <1>b DEF TablesAgree, schedVars
  <2>3. QED
    BY <2>1, <2>2
<1>1. CASE (\E j \in Jobs : MoveStep(j)) \/ OperatorNext
  BY <1>1, <1>b DEF MoveStep, OperatorNext
<1>2. ASSUME NEW r \in Requests, NEW v \in VMs, NEW S \in SUBSET Acts, SetVMSchedule(r, v, S) PROVE Goal
  <2>1. /\ req' \in [Requests -> RequestType] /\ req'[r].at = "save"
        /\ \A q \in Requests \ {r} : req'[q] = req[q]
    BY <1>2, NoVmIs DEF SetVMSchedule
  <2>2. sched' \subseteq Lines
    BY <1>2, <1>0 DEF SetVMSchedule, Lines
  <2>3. UNCHANGED <<saved, entries, firing, rebuild, unsaved, unloaded>> /\ req[r].at = "new"
    BY <1>2 DEF SetVMSchedule
  <2>4. SchedTypes' /\ Flags'
    BY <1>0, <2>2, <2>3 DEF SchedTypes, Flags
  <2>5. TablesAgree'
    BY <1>0, <2>1, <2>3 DEF TablesAgree
  <2>6. QED
    BY <2>1, <2>4, <2>5
<1>3. ASSUME NEW r \in Requests, ClearSchedule(r) PROVE Goal
  <2>1. /\ req' \in [Requests -> RequestType] /\ req'[r].at = "save"
        /\ \A q \in Requests \ {r} : req'[q] = req[q]
    BY <1>3, NoVmIs DEF ClearSchedule
  <2>2. sched' \subseteq Lines
    BY <1>3, <1>0 DEF ClearSchedule
  <2>3. UNCHANGED <<saved, entries, firing, rebuild, unsaved, unloaded>> /\ req[r].at = "clear"
    BY <1>3 DEF ClearSchedule
  <2>4. SchedTypes' /\ Flags'
    BY <1>0, <2>2, <2>3 DEF SchedTypes, Flags
  <2>5. TablesAgree'
    BY <1>0, <2>1, <2>3 DEF TablesAgree
  <2>6. QED
    BY <2>1, <2>4, <2>5
<1>4. ASSUME NEW r \in Requests, NEW v \in VMs, NEW d \in BOOLEAN, DeleteVM(r, v, d) PROVE Goal
  <2>1. UNCHANGED <<sched, saved, entries, firing, rebuild, unsaved, unloaded>> /\ req[r].at = "new"
    BY <1>4 DEF DeleteVM
  <2>2. QED
    BY <1>4, <2>1, <1>a, DeleteVMIs
<1>5. ASSUME NEW r \in Requests, NEW p \in DOMAIN files, NEW unread \in SUBSET VMs,
             SweepCheck(r, p, unread) PROVE Goal
  <2>1. UNCHANGED <<sched, saved, entries, firing, rebuild, unsaved, unloaded>> /\ req[r].at = "sweep"
    BY <1>5 DEF SweepCheck
  <2>2. QED
    BY <1>5, <2>1, <1>a, SweepCheckIs DEF Looked
<1>6. ASSUME NEW r \in Requests, SweepDelete(r) PROVE Goal
  <2>1. UNCHANGED <<sched, saved, entries, firing, rebuild, unsaved, unloaded>> /\ req[r].at = "sweep" /\ Look(r, Nil)
    BY <1>6 DEF SweepDelete
  <2>2. QED
    BY <2>1, <1>a, LookIs
<1>7. ASSUME NEW r \in Requests, SweepEnd(r) PROVE Goal
  <2>1. UNCHANGED <<sched, saved, entries, firing, rebuild, unsaved, unloaded>> /\ req[r].at = "sweep"
    BY <1>7 DEF SweepEnd
  <2>2. QED
    BY <1>7, <2>1, <1>a, SweepEndIs
<1>8. ASSUME NEW r \in Requests, NEW ok \in BOOLEAN, Save(r, ok) PROVE Goal
  <2>1. /\ req' \in [Requests -> RequestType] /\ req'[r].at = (IF ok THEN "rebuild" ELSE "ended")
        /\ \A q \in Requests \ {r} : req'[q] = req[q]
    <3>1. SetReq(r, NoVm(IF ok THEN "rebuild" ELSE "ended"))
      BY <1>8 DEF Save
    <3>2. QED
      BY <3>1, NoVmIs
  <2>2. UNCHANGED <<sched, entries, firing, rebuild>> /\ req[r].at = "save"
    BY <1>8 DEF Save
  <2>3. unsaved' = (unsaved \/ ~ok) /\ unloaded' = (unloaded /\ ~ok)
    BY <1>8 DEF Save
  <2>4. Flags'
    BY <2>3 DEF Flags
  <2>5. saved' = IF ok THEN sched ELSE saved
    BY <1>8 DEF Save
  <2>6. SchedTypes'
    BY <1>0, <2>2, <2>5 DEF SchedTypes, Flags
  <2>7. TablesAgree'
    <3>1. CASE ok
      BY <1>0, <2>1, <2>2, <2>3, <2>5, <3>1 DEF TablesAgree
    <3>2. CASE ~ok
      BY <1>0, <2>1, <2>2, <2>3, <2>5, <3>2 DEF TablesAgree
    <3>3. QED
      BY <3>1, <3>2
  <2>8. QED
    BY <2>1, <2>4, <2>6, <2>7
<1>9. ASSUME NEW r \in Requests, RebuildStop(r) PROVE Goal
  <2>1. UNCHANGED <<sched, saved, entries, firing, req, unsaved, unloaded>> /\ rebuild' = r /\ req[r].at = "rebuild"
    BY <1>9 DEF RebuildStop
  <2>2. SchedTypes' /\ Flags'
    BY <1>0, <2>1 DEF SchedTypes, Flags
  <2>3. TablesAgree'
    BY <2>1 DEF TablesAgree
  <2>4. QED
    BY <1>0, <2>1, <2>2, <2>3
<1>10. ASSUME NEW r \in Requests, Rebuilt(r) PROVE Goal
  <2>1. /\ req' \in [Requests -> RequestType] /\ req'[r].at = "ended"
        /\ \A q \in Requests \ {r} : req'[q] = req[q]
    BY <1>10, NoVmIs DEF Rebuilt
  <2>2. UNCHANGED <<sched, saved, firing>> /\ entries' = sched /\ rebuild' = Nil /\ firing = {} /\ rebuild = r
    BY <1>10 DEF Rebuilt
  <2>3. unsaved' = (unsaved /\ saved # sched) /\ unloaded' = unloaded
    BY <1>10 DEF Rebuilt
  <2>4. Flags'
    BY <1>0, <2>3 DEF Flags
  <2>5. req[r].at = "rebuild"
    BY <2>2, RequestsAssumption DEF TablesAgree
  <2>6. SchedTypes'
    BY <1>0, <2>2 DEF SchedTypes, Flags
  <2>7. TablesAgree'
    BY <1>0, <2>1, <2>2, <2>3, <2>5 DEF TablesAgree
  <2>8. QED
    BY <2>1, <2>4, <2>6, <2>7
<1>11. ASSUME NEW v \in VMs, NEW a \in Acts, Fire(v, a) PROVE Goal
  <2>1. UNCHANGED <<sched, saved, entries, rebuild, req, unsaved, unloaded>> /\ firing' = firing \cup {<<v, a>>} /\ <<v, a>> \in entries
    BY <1>11 DEF Fire
  <2>2. SchedTypes' /\ Flags'
    BY <1>0, <2>1 DEF SchedTypes, Flags
  <2>3. TablesAgree'
    BY <2>1 DEF TablesAgree
  <2>4. QED
    BY <1>0, <2>1, <2>2, <2>3
<1>12. ASSUME NEW v \in VMs, NEW a \in Acts, Power(v, a) PROVE Goal
  <2>1. UNCHANGED <<sched, saved, entries, rebuild, req, unsaved, unloaded>> /\ firing' \subseteq firing
    BY <1>12 DEF Power
  <2>2. SchedTypes' /\ Flags'
    BY <1>0, <2>1 DEF SchedTypes, Flags
  <2>3. TablesAgree'
    BY <2>1 DEF TablesAgree
  <2>4. QED
    BY <1>0, <2>1, <2>2, <2>3
<1>13. ASSUME NEW read \in BOOLEAN, Restart(read) PROVE Goal
  <2>1. req' \in [Requests -> RequestType]
    BY <1>13, RestartIs
  <2>2. Flags'
    BY <1>13 DEF Restart, Flags
  <2>3. /\ sched' \in {saved, {}} /\ (sched' = saved \/ unloaded') /\ entries' = sched'
        /\ firing' = {} /\ rebuild' = Nil /\ saved' = saved
    BY <1>13 DEF Restart
  <2>4. QED
    BY <1>0, <2>1, <2>2, <2>3 DEF SchedTypes, TablesAgree
<1>14. CASE UNCHANGED vars
  BY <1>14, <1>b DEF vars
<1>15. CASE RequestNext
  BY <1>15, <1>2, <1>3, <1>4, <1>5, <1>6, <1>7, <1>8, <1>9, <1>10 DEF RequestNext
<1>16. QED
  BY <1>1, <1>11, <1>12, <1>13, <1>14, <1>15 DEF Next

\* Every step keeps the types of the variables, each by itself.
LEMMA StepShaped ==
    ASSUME TypeOK, FilesFinite, [Next]_vars
    PROVE  Shapes'
<1>0. MoveTypeOK
  BY DEF TypeOK
<1>1. ASSUME NEW j \in Jobs, MoveStep(j) PROVE Shapes'
  BY <1>0, <1>1, JobStepTyped DEF MoveStep
<1>2. CASE OperatorNext
  <2>1. ASSUME NEW d \in Disks, GuestWrite(d) PROVE Shapes'
    <3>1. \A f \in File : [f EXCEPT !.cur = FALSE] \in File
      BY DEF File
    <3>2. \A p \in DOMAIN files' : p \in Path /\ files'[p] \in File
      BY <1>0, <2>1, <3>1 DEF GuestWrite, MoveTypeOK
    <3>3. QED
      BY <1>0, <2>1, <3>2 DEF GuestWrite, MoveTypeOK, Shapes, domVars, jobVars
  <2>2. ASSUME NEW j \in Jobs, NEW v \in VMs, NEW p \in Pools, MoveVMStorage(j, v, p) PROVE Shapes'
    <3>1. Move("begin", v, p, {}, Nil, {}) \in MoveType
      BY DEF Move, MoveType
    <3>2. job' \in [Jobs -> MoveType]
      BY <1>0, <2>2, <3>1, SetJobTyped DEF MoveVMStorage
    <3>3. QED
      BY <1>0, <2>2, <3>2 DEF MoveVMStorage, MoveTypeOK, Shapes, domVars
  <2>3. ASSUME NEW j \in Jobs, Panic(j) PROVE Shapes'
    BY <1>0, <2>3, SetJobTyped, NoMoveTyped DEF Panic, MoveTypeOK, Shapes, domVars
  <2>4. ASSUME NEW j \in Jobs, PruneExpiredJobs(j) PROVE Shapes'
    BY <1>0, <2>4 DEF PruneExpiredJobs, MoveTypeOK, Shapes, domVars
  <2>5. QED
    BY <1>0, <1>2, <2>1, <2>2, <2>3, <2>4, PowerTyped DEF OperatorNext, Turned
<1>3. CASE RequestNext
  <2>a. ASSUME UNCHANGED moveVars PROVE Shapes'
    BY <1>0, <2>a, SameShapes
  <2>1. ASSUME NEW r \in Requests, NEW v \in VMs, NEW S \in SUBSET Acts, SetVMSchedule(r, v, S) PROVE Shapes'
    BY <2>1, <2>a DEF SetVMSchedule
  <2>2. ASSUME NEW r \in Requests, NEW v \in VMs, NEW d \in BOOLEAN, DeleteVM(r, v, d) PROVE Shapes'
    <3>1. live' \in [Disks -> Path \cup {Nil}] /\ hold' \in [Disks -> Path \cup {Nil}]
      BY <1>0, <2>2, ClosedTyped DEF DeleteVM, DeleteDomain, MoveTypeOK
    <3>2. dom' \in [VMs -> {"off", "gone"} \cup Live] /\ transient' \subseteq VMs
      BY <1>0, <2>2 DEF DeleteVM, DeleteDomain, MoveTypeOK
    <3>3. QED
      BY <1>0, <2>2, <3>1, <3>2 DEF DeleteVM, MoveTypeOK, Shapes, jobVars
  <2>3. ASSUME NEW r \in Requests, NEW p \in DOMAIN files, NEW unread \in SUBSET VMs,
             SweepCheck(r, p, unread) PROVE Shapes'
    <3>1. cause' \subseteq VMs \X Causes
      BY <1>0, <2>3 DEF SweepCheck, Struck, Overlooked, MoveTypeOK, Causes
    <3>2. QED
      BY <1>0, <2>3, <3>1 DEF SweepCheck, MoveTypeOK, Shapes, domVars, jobVars
  <2>4. ASSUME NEW r \in Requests, SweepDelete(r) PROVE Shapes'
    <3>1. cause' \subseteq VMs \X Causes
      BY <1>0, <2>4 DEF SweepDelete, Struck, MoveTypeOK, Causes
    <3>2. /\ \A p \in DOMAIN files' : p \in Path /\ files'[p] \in File
          /\ hold' \in [Disks -> Path \cup {Nil}]
      BY <1>0, <2>4, UnlinkTyped DEF SweepDelete
    <3>3. QED
      BY <1>0, <2>4, <3>1, <3>2 DEF SweepDelete, MoveTypeOK, Shapes, jobVars
  <2>5. ASSUME NEW r \in Requests, SweepEnd(r) \/ ClearSchedule(r) \/ RebuildStop(r) \/ Rebuilt(r) PROVE Shapes'
    BY <2>5, <2>a DEF SweepEnd, ClearSchedule, RebuildStop, Rebuilt
  <2>6. ASSUME NEW r \in Requests, NEW ok \in BOOLEAN, Save(r, ok) PROVE Shapes'
    BY <2>6, <2>a DEF Save
  <2>7. QED
    BY <1>3, <2>1, <2>2, <2>3, <2>4, <2>5, <2>6 DEF RequestNext
<1>4. ASSUME NEW v \in VMs, NEW a \in Acts, Fire(v, a) \/ Power(v, a) PROVE Shapes'
  BY <1>0, <1>4, PowerTyped, SameShapes DEF Fire, Power
<1>5. ASSUME NEW read \in BOOLEAN, Restart(read) PROVE Shapes'
  <2>1. job' \in [Jobs -> MoveType] /\ status' \in [Jobs -> {"none", "running", "done", "error"}]
    BY <1>5, NoMoveTyped DEF Restart, JobsLost
  <2>2. QED
    BY <1>0, <1>5, <2>1 DEF Restart, MoveTypeOK, Shapes, domVars
<1>6. CASE UNCHANGED vars
  BY <1>0, <1>6, SameShapes DEF vars
<1>7. QED
  BY <1>1, <1>2, <1>3, <1>4, <1>5, <1>6 DEF Next

\* The types, the agreement of the tables and the finiteness of the pools are kept.
LEMMA StepTyped ==
    ASSUME TypeOK, TablesAgree, FilesFinite, [Next]_vars
    PROVE  TypeOK' /\ TablesAgree' /\ FilesFinite'
<1>1. MoveTypeOK /\ Kind /\ Shapes'
  BY StepKinds, StepShaped DEF TypeOK
<1>2. MoveTypeOK'
  BY <1>1, HandsKept
<1>3. /\ SchedTypes' /\ TablesAgree' /\ Flags'
      /\ req' \in [Requests -> RequestType]
  BY StepScheduled
<1>4. TypeOK'
  BY <1>2, <1>3 DEF TypeOK, SchedTypes, Flags
<1>5. QED
  BY <1>1, <1>3, <1>4, StepFinite

-----------------------------------------------------------------------------
(* Outcomes.                                                                 *)

\* A job goes on with its move, and shows as before.
GoesOn(j) ==
    /\ status' = status
    /\ \A k \in Jobs \ {j} : job'[k] = job[k]
    /\ job[j].at \notin {"new", "ended"} /\ job'[j].at \notin {"new", "ended"}

\* A step of a job goes on or files an outcome.
LEMMA JobStepFiles ==
    ASSUME MoveTypeOK, FilesFinite, NEW j \in Jobs, JobStep(j)
    PROVE  GoesOn(j) \/ \E o \in {"done", "error"} : Finish(j, o)
<1>0. ASSUME MoveKind(j), status' = status PROVE GoesOn(j)
  BY <1>0 DEF MoveKind, Prepared, Chosen, GivenUp, Dropped, Created, Copied, Pointed, Reverted,
        Cleaned, PassedOver, After, GoesOn
<1>1. ASSUME NEW ok \in BOOLEAN, NEW unread \in SUBSET VMs, Prepare(j, ok, unread)
      PROVE  GoesOn(j) \/ \E o \in {"done", "error"} : Finish(j, o)
  <2>1. CASE ok /\ MayMove(job[j].vm, Todo(job[j].vm, job[j].pool), unread)
    <3> DEFINE m == Move("name", job[j].vm, job[j].pool, Todo(job[j].vm, job[j].pool), Nil, {})
    <3>1. SetJob(j, m) /\ status' = status /\ job[j].at = "begin"
      BY <1>1, <2>1 DEF Prepare
    <3>2. m.at = "name"
      BY DEF Move
    <3> HIDE DEF m
    <3>3. QED
      BY <3>1, <3>2 DEF SetJob, MoveTypeOK, GoesOn
  <2>2. CASE ~(ok /\ MayMove(job[j].vm, Todo(job[j].vm, job[j].pool), unread))
    BY <1>1, <2>2 DEF Prepare
  <2>3. QED
    BY <2>1, <2>2
<1>2. ASSUME NEW ok \in BOOLEAN, PickName(j, ok) PROVE GoesOn(j)
  BY <1>0, <1>2, PickNameIs DEF PickName, MoveKind, FilesFinite
<1>3. ASSUME NEW ok \in BOOLEAN, CreateCopy(j, ok) PROVE GoesOn(j)
  BY <1>0, <1>3, CreateCopyIs DEF CreateCopy, DropCopy, MoveKind
<1>4. ASSUME NEW ok \in BOOLEAN, CopyBytes(j, ok) PROVE GoesOn(j)
  BY <1>0, <1>4, CopyBytesIs DEF CopyBytes, DropCopy, MoveKind
<1>5. ASSUME NEW ok \in BOOLEAN, Repoint(j, ok) PROVE GoesOn(j)
  BY <1>0, <1>5, RepointIs DEF Repoint, Repointed, DropCopy, MoveKind
<1>6. ASSUME NEW ok \in BOOLEAN, RollbackDisk(j, ok) PROVE GoesOn(j)
  BY <1>0, <1>6, RollbackDiskIs DEF RollbackDisk, MoveKind
<1>7. ASSUME NEW ok \in BOOLEAN, CleanupDisk(j, ok) PROVE GoesOn(j)
  BY <1>0, <1>7, CleanupDiskIs DEF CleanupDisk, MoveKind
<1>8. CASE RollbackEnd(j) \/ CleanupEnd(j)
  BY <1>8 DEF RollbackEnd, CleanupEnd
<1>9. QED
  BY <1>1, <1>2, <1>3, <1>4, <1>5, <1>6, <1>7, <1>8 DEF JobStep

\* Every step keeps the outcomes true.
LEMMA OutcomesStay ==
    ASSUME TypeOK, FilesFinite, OutcomeFiled, [Next]_vars
    PROVE  OutcomeFiled'
<1>0. MoveTypeOK /\ job \in [Jobs -> MoveType] /\ status \in [Jobs -> {"none", "running", "done", "error"}]
  BY DEF TypeOK, MoveTypeOK
<1>1. ASSUME UNCHANGED jobVars PROVE OutcomeFiled'
  BY <1>1 DEF OutcomeFiled, jobVars
<1>2. ASSUME NEW j \in Jobs, MoveStep(j) PROVE OutcomeFiled'
  <2>1. CASE GoesOn(j)
    BY <2>1 DEF OutcomeFiled, GoesOn
  <2>2. ASSUME NEW o \in {"done", "error"}, Finish(j, o) PROVE OutcomeFiled'
    BY <1>0, <2>2 DEF OutcomeFiled, Finish, SetJob, NoMove, Move
  <2>3. QED
    BY <1>0, <1>2, <2>1, <2>2, JobStepFiles DEF MoveStep
<1>3. CASE OperatorNext
  <2>1. ASSUME NEW j \in Jobs, NEW v \in VMs, NEW p \in Pools, MoveVMStorage(j, v, p) PROVE OutcomeFiled'
    BY <1>0, <2>1 DEF OutcomeFiled, MoveVMStorage, SetJob, Move
  <2>2. ASSUME NEW j \in Jobs, Panic(j) PROVE OutcomeFiled'
    BY <1>0, <2>2 DEF OutcomeFiled, Panic, SetJob, NoMove, Move
  <2>3. ASSUME NEW j \in Jobs, PruneExpiredJobs(j) PROVE OutcomeFiled'
    BY <1>0, <2>3 DEF OutcomeFiled, PruneExpiredJobs
  <2>4. ASSUME NEW v \in VMs, StartDomain(v) \/ PowerOff(v) \/ Turned(v) PROVE OutcomeFiled'
    BY <1>1, <2>4 DEF StartDomain, PowerOff, Turned, SuspendDomain, ResumeDomain, Sleep, Wake, Turns
  <2>5. ASSUME NEW d \in Disks, GuestWrite(d) PROVE OutcomeFiled'
    BY <1>1, <2>5 DEF GuestWrite
  <2>6. QED
    BY <1>3, <2>1, <2>2, <2>3, <2>4, <2>5 DEF OperatorNext, Turned
<1>4. CASE RequestNext
  <2>1. UNCHANGED jobVars
    BY <1>4 DEF RequestNext, SetVMSchedule, DeleteVM, SweepCheck, SweepDelete, SweepEnd, ClearSchedule,
          Save, RebuildStop, Rebuilt, moveVars
  <2>2. QED
    BY <1>1, <2>1
<1>5. ASSUME NEW v \in VMs, NEW a \in Acts, Fire(v, a) \/ Power(v, a) PROVE OutcomeFiled'
  BY <1>1, <1>5 DEF Fire, Power, StartDomain, PowerOff, moveVars
<1>6. ASSUME NEW read \in BOOLEAN, Restart(read) PROVE OutcomeFiled'
  BY <1>6 DEF Restart, JobsLost, OutcomeFiled
<1>7. CASE UNCHANGED vars
  BY <1>1, <1>7 DEF vars, moveVars
<1>8. QED
  BY <1>2, <1>3, <1>4, <1>5, <1>6, <1>7 DEF Next

-----------------------------------------------------------------------------
(* The inductive invariant of the machines and their files.                  *)

\* The machines that DiskThere and DataKept are about.
Fine == {v \in VMs : dom[v] # "gone" /\ Spared(v, Causes \ {"live"})}
Sound == {v \in VMs : dom[v] # "gone" /\ Spared(v, Causes)}

\* The source of a disk is a file of that disk.
SourceThere ==
    \A d \in Disks : VmOf[d] \in Fine => src[d] \in DOMAIN files /\ files[src[d]].of = d

\* A machine has one move that may still repoint it.
OneMove ==
    \A j, k \in Jobs : Moving(j) /\ Moving(k) /\ job[j].vm = job[k].vm /\ job[j].vm \in Fine => j = k

\* The lists of a job: disks of its machine, each once, from other pools to its own.
ListsFit ==
    \A j \in Jobs : Busy(j) =>
        /\ \A m \in job[j].todo : VmOf[m.disk] = job[j].vm /\ m.from.pool # job[j].pool
        /\ \A m \in job[j].done : /\ VmOf[m.disk] = job[j].vm /\ m.from.pool # job[j].pool
                                  /\ m.to.pool = job[j].pool
        /\ \A m, n \in job[j].todo : m.disk = n.disk => m = n
        /\ \A m, n \in job[j].done : m.disk = n.disk => m = n
        /\ job[j].at # "rollback" => \A m \in job[j].todo, n \in job[j].done : m.disk # n.disk
        /\ job[j].to # Nil => job[j].to.pool = job[j].pool

\* What is still to be moved is where the job saw it.
TodoFits ==
    \A j \in Jobs : Moving(j) /\ job[j].vm \in Fine /\ job[j].at # "rollback" =>
        \A m \in job[j].todo : m.from = src[m.disk]

\* What has been moved has its original, which is the source no more; until the
\* clean-up the source is the copy.
DoneFits ==
    \A j \in Jobs : Busy(j) /\ job[j].vm \in Fine =>
        \A m \in job[j].done :
            /\ m.from \in DOMAIN files /\ files[m.from].of = m.disk
            /\ m.from # src[m.disk]
            /\ Moving(j) => src[m.disk] = m.to /\ files[m.to].by = j

\* Two jobs of a machine, one of them cleaning up, have different originals.
OriginalsApart ==
    \A j, k \in Jobs : j # k /\ Busy(j) /\ Busy(k) /\ job[j].vm = job[k].vm /\ job[j].vm \in Fine =>
        \A m \in job[j].done, n \in job[k].done : m.from # n.from

\* The name of a copy is no name the machine needs, and once the copy is there
\* it is the job's own.
CopyFits ==
    \A j \in Jobs : job[j].at \in {"create", "copy", "repoint"} /\ job[j].vm \in Fine =>
        /\ \A d \in DisksOf(job[j].vm) : src[d] # job[j].to
        /\ \A k \in Jobs : Busy(k) /\ job[k].vm = job[j].vm => \A m \in job[k].done : m.from # job[j].to
        /\ job[j].at # "create" => /\ job[j].to \in DOMAIN files
                                   /\ files[job[j].to].by = j
                                   /\ files[job[j].to].of = First(job[j].todo).disk

\* A job makes files once it is moving, of its own machine.
MadeByMover ==
    \A p \in DOMAIN files : \A j \in Jobs : files[p].by = j =>
        /\ job[j].at \notin {"new", "begin"}
        /\ Busy(j) /\ job[j].vm \in Fine => Owner(p) = job[j].vm

\* What a sweep has looked at, as long as it is that file, is nothing a machine
\* needs, and was not made by a job that is at work.
VictimsFit ==
    \A r \in Requests : Sweeping(r) =>
        /\ \A j \in Jobs : req[r].victim.by = j =>
             job[j].at \notin {"new", "begin"} /\ ~(Busy(j) /\ job[j].vm \in Fine)
        /\ LET p == req[r].victim.path IN
           p \in DOMAIN files /\ files[p].by = req[r].victim.by /\ Owner(p) \in Fine =>
             /\ \A d \in DisksOf(Owner(p)) : src[d] # p
             /\ \A j \in Jobs : Busy(j) /\ job[j].vm = Owner(p) => \A m \in job[j].done : m.from # p

\* A machine that nobody started in the middle of a move is off during it.
OffWhileMoving == \A j \in Jobs : Moving(j) /\ job[j].vm \in Sound => dom[job[j].vm] = "off"

\* A started machine has its sources open.
OpenIsSource ==
    \A d \in Disks : VmOf[d] \in Sound /\ dom[VmOf[d]] \in Live => hold[d] = src[d]

\* Every file a machine has, or may go back to, is complete and current.
Full(p) == files[p].whole /\ files[p].cur
DataThere == \A d \in Disks : VmOf[d] \in Sound => Full(src[d])
OriginalsFull ==
    \A j \in Jobs : Moving(j) /\ job[j].vm \in Sound =>
        /\ \A m \in job[j].done : Full(m.from)
        /\ job[j].at = "copy" => files[job[j].to].cur
        /\ job[j].at = "repoint" => Full(job[j].to)

-----------------------------------------------------------------------------
\* What a step leaves of the fine machines, and what it has not done to them.
LEMMA Ground ==
    ASSUME MoveTypeOK, Kind
    PROVE  /\ Fine' \subseteq Fine /\ Sound' \subseteq Sound /\ Sound \subseteq Fine /\ Sound' \subseteq Fine'
           /\ \A v \in Fine : v \in VMs /\ dom[v] # "gone"
           /\ \A v \in Fine' : /\ dom'[v] # "gone" /\ <<v, "overlap">> \notin cause'
                             /\ <<v, "clobbered">> \notin cause' /\ <<v, "swept">> \notin cause'
                             /\ <<v, "unrepointed">> \notin cause' /\ <<v, "misread">> \notin cause'
           /\ \A v \in Sound' : <<v, "live">> \notin cause'
<1>1. cause \subseteq cause'
  BY DEF Kind, JobsLeave, Started, Stopped, Suspended, Written, MoveKind, Prepared, Chosen, GivenUp,
         Dropped, Created, Copied, Pointed, Reverted, Cleaned, PassedOver, Looked, Deleted
<1>2. \A v \in VMs : dom[v] = "gone" => dom'[v] = "gone"
  <2>1. CASE UNCHANGED dom
    BY <2>1
  <2>2. ASSUME NEW v \in VMs, Started(v) \/ Stopped(v) \/ Suspended(v)
        PROVE  \A u \in VMs : dom[u] = "gone" => dom'[u] = "gone"
    BY <2>2 DEF Started, Stopped, Suspended, Powered, Live
  <2>3. QED
    BY <2>1, <2>2 DEF Kind, JobsLeave, Written, MoveKind, Prepared, Chosen, GivenUp,
         Dropped, Created, Copied, Pointed, Reverted, Cleaned, PassedOver, Looked, Deleted
<1>3. Sound \subseteq Fine /\ Sound' \subseteq Fine'
  BY DEF Fine, Sound, Spared, Causes
<1>4. Fine' \subseteq Fine /\ Sound' \subseteq Sound
  BY <1>1, <1>2 DEF Fine, Sound, Spared
<1>5. QED
  BY <1>3, <1>4 DEF Fine, Sound, Spared, Causes

\* The disks and the machines in hand.
LEMMA Parts ==
    ASSUME MoveTypeOK
    PROVE  /\ \A d \in Disks : VmOf[d] \in VMs
           /\ \A p \in DOMAIN files : files[p].of \in Disks
           /\ \A j \in Jobs : \A m \in job[j].todo : m.disk \in Disks
           /\ \A j \in Jobs : \A m \in job[j].done : m.disk \in Disks
           /\ \A j \in Jobs : job[j].at \in {"create", "copy", "repoint"} =>
                job[j].to # Nil /\ First(job[j].todo) \in job[j].todo
<1>1. \A j \in Jobs : job[j].at \in {"create", "copy", "repoint"} => job[j].to # Nil /\ job[j].todo # {}
  BY DEF MoveTypeOK, InHand
<1>2. QED
  BY <1>1, MoveParts, NextIn, DisksAssumption DEF MoveTypeOK, File

\* A file of a fine machine that a job's error path, rollback or clean-up, or a
\* sweep, takes away is one that was its to take: the machine is marked otherwise.
LEMMA DropTakes ==
    ASSUME MoveTypeOK, Kind, NEW j \in Jobs, Dropped(j), job[j].to \in DOMAIN files,
           VmOf[files[job[j].to].of] \in Fine'
    PROVE  files[job[j].to].by = j /\ job[j].vm = VmOf[files[job[j].to].of]
BY Ground DEF Dropped, Owner

\* ... a rollback,
LEMMA RevertTakes ==
    ASSUME MoveTypeOK, Kind, NEW j \in Jobs, Reverted(j), First(job[j].done).to \in DOMAIN files,
           VmOf[files[First(job[j].done).to].of] \in Fine'
    PROVE  /\ files[First(job[j].done).to].by = j
           /\ job[j].vm = VmOf[files[First(job[j].done).to].of]
BY Ground DEF Reverted, Owner

\* ... a clean-up,
LEMMA CleanTakes ==
    ASSUME MoveTypeOK, Kind, NEW j \in Jobs, Cleaned(j), First(job[j].done).from \in DOMAIN files,
           VmOf[files[First(job[j].done).from].of] \in Fine'
    PROVE  job[j].vm = VmOf[files[First(job[j].done).from].of]
BY Ground DEF Cleaned, Owner

\* ... a sweep.
LEMMA SweepTakes ==
    ASSUME MoveTypeOK, Kind, NEW r \in Requests, Deleted(r), req[r].victim.path \in DOMAIN files,
           VmOf[files[req[r].victim.path].of] \in Fine'
    PROVE  /\ files[req[r].victim.path].by = req[r].victim.by
           /\ \A k \in Jobs : Busy(k) => job[k].vm # VmOf[files[req[r].victim.path].of]
BY Ground DEF Deleted, Owner

-----------------------------------------------------------------------------
(* Each part of the invariant is kept by every kind of step.                 *)

\* The sources stay: nobody removes one but marks its machine.
LEMMA SourcesStay ==
    ASSUME TypeOK, SourceThere, ListsFit, DoneFits, CopyFits, VictimsFit, Kind
    PROVE  SourceThere'
<1>0. MoveTypeOK
  BY DEF TypeOK
<1>1. CASE JobsLeave /\ SameVictims
  BY <1>0, <1>1, Ground DEF JobsLeave, SourceThere
<1>2. ASSUME NEW v \in VMs, Started(v), SameVictims PROVE SourceThere'
  BY <1>0, <1>2, Ground DEF Started, Powered, SourceThere
<1>3. ASSUME NEW v \in VMs, Stopped(v), SameVictims PROVE SourceThere'
  BY <1>0, <1>3, Ground DEF Stopped, Powered, SourceThere
<1>4. ASSUME NEW v \in VMs, Suspended(v), SameVictims PROVE SourceThere'
  BY <1>0, <1>4, Ground DEF Suspended, Powered, SourceThere
<1>5. ASSUME NEW d \in Disks, Written(d), SameVictims PROVE SourceThere'
  BY <1>0, <1>5, Ground DEF Written, SourceThere
<1>6. ASSUME NEW j \in Jobs, Prepared(j), SameVictims PROVE SourceThere'
  BY <1>0, <1>6, Ground DEF Prepared, After, SourceThere
<1>7. ASSUME NEW j \in Jobs, Chosen(j), SameVictims PROVE SourceThere'
  BY <1>0, <1>7, Ground DEF Chosen, After, SourceThere
<1>8. ASSUME NEW j \in Jobs, GivenUp(j), SameVictims PROVE SourceThere'
  BY <1>0, <1>8, Ground DEF GivenUp, After, SourceThere
<1>9. ASSUME NEW j \in Jobs, Dropped(j), SameVictims PROVE SourceThere'
  <2> SUFFICES ASSUME NEW e \in Disks, VmOf[e] \in Fine'
               PROVE  src'[e] \in DOMAIN files' /\ files'[src'[e]].of = e
    BY DEF SourceThere
  <2>1. VmOf[e] \in Fine /\ src[e] \in DOMAIN files /\ files[src[e]].of = e
    BY <1>0, Ground DEF SourceThere
  <2>2. src[e] # job[j].to
    BY <1>0, <1>9, <2>1, DropTakes DEF Dropped, CopyFits, DisksOf
  <2>3. QED
    BY <1>9, <2>1, <2>2 DEF Dropped, Unlinked
<1>10. ASSUME NEW j \in Jobs, Created(j), SameVictims PROVE SourceThere'
  BY <1>0, <1>10, Ground DEF Created, After, SourceThere
<1>11. ASSUME NEW j \in Jobs, Copied(j), SameVictims PROVE SourceThere'
  BY <1>0, <1>11, Ground DEF Copied, After, SourceThere
<1>12. ASSUME NEW j \in Jobs, Pointed(j), SameVictims PROVE SourceThere'
  BY <1>0, <1>12, Ground DEF Pointed, After, SourceThere, ListsFit, CopyFits, Busy, Moving
<1>13. ASSUME NEW j \in Jobs, Reverted(j), SameVictims PROVE SourceThere'
  <2> SUFFICES ASSUME NEW e \in Disks, VmOf[e] \in Fine'
               PROVE  src'[e] \in DOMAIN files' /\ files'[src'[e]].of = e
    BY DEF SourceThere
  <2>1. VmOf[e] \in Fine /\ src[e] \in DOMAIN files /\ files[src[e]].of = e
    BY <1>0, Ground DEF SourceThere
  <2> DEFINE m == First(job[j].done)
  <2>2. /\ Busy(j) /\ Moving(j) /\ m \in job[j].done /\ m.disk \in Disks
        /\ VmOf[m.disk] = job[j].vm /\ m.from # m.to
    BY <1>0, <1>13, Parts DEF Reverted, ListsFit, Busy, Moving
  <2>3. job[j].vm \in Fine => m.from \in DOMAIN files /\ files[m.from].of = m.disk /\ src[m.disk] = m.to
    BY <2>2 DEF DoneFits
  <2>4. CASE e = m.disk
    <3>1. src'[e] = m.from
      BY <1>0, <1>13, <2>1, <2>2, <2>4, Ground DEF Reverted
    <3>2. QED
      BY <1>13, <2>1, <2>2, <2>3, <2>4, <3>1 DEF Reverted, Unlinked
  <2>5. CASE e # m.disk
    <3>1. src[e] # m.to
      BY <1>0, <1>13, <2>1, <2>2, <2>3, <2>5, RevertTakes DEF SourceThere
    <3>2. QED
      BY <1>13, <2>1, <2>5, <3>1 DEF Reverted, Unlinked
  <2>6. QED
    BY <2>4, <2>5
<1>14. ASSUME NEW j \in Jobs, Cleaned(j), SameVictims PROVE SourceThere'
  <2> SUFFICES ASSUME NEW e \in Disks, VmOf[e] \in Fine'
               PROVE  src'[e] \in DOMAIN files' /\ files'[src'[e]].of = e
    BY DEF SourceThere
  <2>1. VmOf[e] \in Fine /\ src[e] \in DOMAIN files /\ files[src[e]].of = e
    BY <1>0, Ground DEF SourceThere
  <2>2. src[e] # First(job[j].done).from
    BY <1>0, <1>14, <2>1, CleanTakes DEF Cleaned, DoneFits, Busy
  <2>3. QED
    BY <1>14, <2>1, <2>2 DEF Cleaned, Unlinked
<1>15. ASSUME NEW j \in Jobs, PassedOver(j), SameVictims PROVE SourceThere'
  BY <1>0, <1>15, Ground DEF PassedOver, After, SourceThere
<1>16. ASSUME NEW r \in Requests, Looked(r) PROVE SourceThere'
  BY <1>0, <1>16, Ground DEF Looked, SourceThere
<1>17. ASSUME NEW r \in Requests, Deleted(r), SameVictims PROVE SourceThere'
  <2> SUFFICES ASSUME NEW e \in Disks, VmOf[e] \in Fine'
               PROVE  src'[e] \in DOMAIN files' /\ files'[src'[e]].of = e
    BY DEF SourceThere
  <2>1. VmOf[e] \in Fine /\ src[e] \in DOMAIN files /\ files[src[e]].of = e
    BY <1>0, Ground DEF SourceThere
  <2>2. src[e] # req[r].victim.path
    BY <1>0, <1>17, <2>1, SweepTakes DEF Deleted, VictimsFit, Owner, DisksOf
  <2>3. QED
    BY <1>17, <2>1, <2>2 DEF Deleted, Unlinked
<1>18. QED
  BY <1>1, <1>2, <1>3, <1>4, <1>5, <1>6, <1>7, <1>8, <1>9, <1>10, <1>11, <1>12, <1>13, <1>14,
     <1>15, <1>16, <1>17 DEF Kind, MoveKind

\* A second move of a machine marks it.
LEMMA OneMoveStays ==
    ASSUME TypeOK, OneMove, Kind
    PROVE  OneMove'
<1>0. MoveTypeOK
  BY DEF TypeOK
<1>1. CASE JobsLeave /\ SameVictims
  BY <1>0, <1>1, Ground DEF JobsLeave, OneMove, Moving
<1>2. ASSUME NEW v \in VMs, Started(v), SameVictims PROVE OneMove'
  BY <1>0, <1>2, Ground DEF Started, Powered, OneMove, Moving
<1>3. ASSUME NEW v \in VMs, Stopped(v), SameVictims PROVE OneMove'
  BY <1>0, <1>3, Ground DEF Stopped, Powered, OneMove, Moving
<1>4. ASSUME NEW v \in VMs, Suspended(v), SameVictims PROVE OneMove'
  BY <1>0, <1>4, Ground DEF Suspended, Powered, OneMove, Moving
<1>5. ASSUME NEW d \in Disks, Written(d), SameVictims PROVE OneMove'
  BY <1>0, <1>5, Ground DEF Written, OneMove, Moving
<1>6. ASSUME NEW j \in Jobs, Prepared(j), SameVictims PROVE OneMove'
  <2> SUFFICES ASSUME NEW k \in Jobs, NEW l \in Jobs, Moving(k)', Moving(l)',
                      job'[k].vm = job'[l].vm, job'[k].vm \in Fine'
               PROVE  k = l
    BY DEF OneMove
  <2>1. \A i \in Jobs : job'[i].vm = job[i].vm /\ (i # j /\ Moving(i)' => Moving(i))
    BY <1>6 DEF Prepared, After, Moving
  <2>2. job[j].vm \in Fine' => MovesOf(job[j].vm) = {}
    BY <1>0, <1>6, Ground DEF Prepared
  <2>3. CASE k # j /\ l # j
    BY <1>0, <2>1, <2>3, Ground DEF OneMove
  <2>4. CASE k = j \/ l = j
    BY <2>1, <2>2, <2>4 DEF MovesOf
  <2>5. QED
    BY <2>3, <2>4
<1>7. ASSUME NEW j \in Jobs, Chosen(j), SameVictims PROVE OneMove'
  BY <1>0, <1>7, Ground DEF Chosen, After, OneMove, Moving
<1>8. ASSUME NEW j \in Jobs, GivenUp(j), SameVictims PROVE OneMove'
  BY <1>0, <1>8, Ground DEF GivenUp, After, OneMove, Moving
<1>9. ASSUME NEW j \in Jobs, Dropped(j), SameVictims PROVE OneMove'
  BY <1>0, <1>9, Ground DEF Dropped, After, Unlinked, OneMove, Moving
<1>10. ASSUME NEW j \in Jobs, Created(j), SameVictims PROVE OneMove'
  BY <1>0, <1>10, Ground DEF Created, After, OneMove, Moving
<1>11. ASSUME NEW j \in Jobs, Copied(j), SameVictims PROVE OneMove'
  BY <1>0, <1>11, Ground DEF Copied, After, OneMove, Moving
<1>12. ASSUME NEW j \in Jobs, Pointed(j), SameVictims PROVE OneMove'
  BY <1>0, <1>12, Ground DEF Pointed, After, OneMove, Moving
<1>13. ASSUME NEW j \in Jobs, Reverted(j), SameVictims PROVE OneMove'
  BY <1>0, <1>13, Ground DEF Reverted, After, Unlinked, OneMove, Moving
<1>14. ASSUME NEW j \in Jobs, Cleaned(j), SameVictims PROVE OneMove'
  BY <1>0, <1>14, Ground DEF Cleaned, After, Unlinked, OneMove, Moving
<1>15. ASSUME NEW j \in Jobs, PassedOver(j), SameVictims PROVE OneMove'
  BY <1>0, <1>15, Ground DEF PassedOver, After, OneMove, Moving
<1>16. ASSUME NEW r \in Requests, Looked(r) PROVE OneMove'
  BY <1>0, <1>16, Ground DEF Looked, OneMove, Moving
<1>17. ASSUME NEW r \in Requests, Deleted(r), SameVictims PROVE OneMove'
  BY <1>0, <1>17, Ground DEF Deleted, Unlinked, OneMove, Moving
<1>18. QED
  BY <1>1, <1>2, <1>3, <1>4, <1>5, <1>6, <1>7, <1>8, <1>9, <1>10, <1>11, <1>12, <1>13, <1>14,
     <1>15, <1>16, <1>17 DEF Kind, MoveKind

\* The lists stay disks of the machine, each once.
LEMMA ListsStayFit ==
    ASSUME TypeOK, ListsFit, Kind
    PROVE  ListsFit'
<1>0. MoveTypeOK
  BY DEF TypeOK
<1>1. CASE JobsLeave /\ SameVictims
  BY <1>0, <1>1, Ground DEF JobsLeave, ListsFit, Busy, Moving
<1>2. ASSUME NEW v \in VMs, Started(v), SameVictims PROVE ListsFit'
  BY <1>0, <1>2, Ground DEF Started, Powered, ListsFit, Busy, Moving
<1>3. ASSUME NEW v \in VMs, Stopped(v), SameVictims PROVE ListsFit'
  BY <1>0, <1>3, Ground DEF Stopped, Powered, ListsFit, Busy, Moving
<1>4. ASSUME NEW v \in VMs, Suspended(v), SameVictims PROVE ListsFit'
  BY <1>0, <1>4, Ground DEF Suspended, Powered, ListsFit, Busy, Moving
<1>5. ASSUME NEW d \in Disks, Written(d), SameVictims PROVE ListsFit'
  BY <1>0, <1>5, Ground DEF Written, ListsFit, Busy, Moving
<1>6. ASSUME NEW j \in Jobs, Prepared(j), SameVictims PROVE ListsFit'
  <2> DEFINE S == Todo(job[j].vm, job[j].pool)
  <2>1. /\ S \subseteq [disk : Disks, from : Path]
        /\ \A m \in S : VmOf[m.disk] = job[j].vm /\ m.from = Shown(m.disk) /\ m.from.pool # job[j].pool
    BY <1>0, TodoTyped
  <2>2. \A m, n \in S : m.disk = n.disk => m = n
    BY <2>1
  <2> HIDE DEF S
  <2>3. QED
    BY <1>6, <2>1, <2>2 DEF Prepared, After, ListsFit, Busy, Moving, S
<1>7. ASSUME NEW j \in Jobs, Chosen(j), SameVictims PROVE ListsFit'
  BY <1>0, <1>7, Ground DEF Chosen, After, ListsFit, Busy, Moving
<1>8. ASSUME NEW j \in Jobs, GivenUp(j), SameVictims PROVE ListsFit'
  BY <1>0, <1>8, Ground DEF GivenUp, After, ListsFit, Busy, Moving
<1>9. ASSUME NEW j \in Jobs, Dropped(j), SameVictims PROVE ListsFit'
  BY <1>0, <1>9, Ground DEF Dropped, After, Unlinked, ListsFit, Busy, Moving
<1>10. ASSUME NEW j \in Jobs, Created(j), SameVictims PROVE ListsFit'
  BY <1>0, <1>10, Ground DEF Created, After, ListsFit, Busy, Moving
<1>11. ASSUME NEW j \in Jobs, Copied(j), SameVictims PROVE ListsFit'
  BY <1>0, <1>11, Ground DEF Copied, After, ListsFit, Busy, Moving
<1>12. ASSUME NEW j \in Jobs, Pointed(j), SameVictims PROVE ListsFit'
  BY <1>0, <1>12, Ground, Parts DEF Pointed, After, ListsFit, Busy, Moving
<1>13. ASSUME NEW j \in Jobs, Reverted(j), SameVictims PROVE ListsFit'
  BY <1>0, <1>13, Ground DEF Reverted, After, Unlinked, ListsFit, Busy, Moving
<1>14. ASSUME NEW j \in Jobs, Cleaned(j), SameVictims PROVE ListsFit'
  BY <1>0, <1>14, Ground DEF Cleaned, After, Unlinked, ListsFit, Busy, Moving
<1>15. ASSUME NEW j \in Jobs, PassedOver(j), SameVictims PROVE ListsFit'
  BY <1>0, <1>15, Ground DEF PassedOver, After, ListsFit, Busy, Moving
<1>16. ASSUME NEW r \in Requests, Looked(r) PROVE ListsFit'
  BY <1>0, <1>16, Ground DEF Looked, ListsFit, Busy, Moving
<1>17. ASSUME NEW r \in Requests, Deleted(r), SameVictims PROVE ListsFit'
  BY <1>0, <1>17, Ground DEF Deleted, Unlinked, ListsFit, Busy, Moving
<1>18. QED
  BY <1>1, <1>2, <1>3, <1>4, <1>5, <1>6, <1>7, <1>8, <1>9, <1>10, <1>11, <1>12, <1>13, <1>14,
     <1>15, <1>16, <1>17 DEF Kind, MoveKind

\* No other move repoints a disk that is still to be moved.
LEMMA TodoStaysFit ==
    ASSUME TypeOK, OneMove, ListsFit, TodoFits, Kind
    PROVE  TodoFits'
<1>0. MoveTypeOK
  BY DEF TypeOK
<1>1. CASE JobsLeave /\ SameVictims
  BY <1>0, <1>1, Ground DEF JobsLeave, TodoFits, Moving
<1>2. ASSUME NEW v \in VMs, Started(v), SameVictims PROVE TodoFits'
  BY <1>0, <1>2, Ground DEF Started, Powered, TodoFits, Moving
<1>3. ASSUME NEW v \in VMs, Stopped(v), SameVictims PROVE TodoFits'
  BY <1>0, <1>3, Ground DEF Stopped, Powered, TodoFits, Moving
<1>4. ASSUME NEW v \in VMs, Suspended(v), SameVictims PROVE TodoFits'
  BY <1>0, <1>4, Ground DEF Suspended, Powered, TodoFits, Moving
<1>5. ASSUME NEW d \in Disks, Written(d), SameVictims PROVE TodoFits'
  BY <1>0, <1>5, Ground DEF Written, TodoFits, Moving
<1>6. ASSUME NEW j \in Jobs, Prepared(j), SameVictims PROVE TodoFits'
  <2>1. ASSUME job[j].vm \in Fine' PROVE \A m \in Todo(job[j].vm, job[j].pool) : m.from = src[m.disk]
    <3>1. \A d \in DisksOf(job[j].vm) : Shown(d) = src[d]
      BY <1>0, <1>6, <2>1, Ground DEF Prepared
    <3>2. \A m \in Todo(job[j].vm, job[j].pool) : m.disk \in DisksOf(job[j].vm) /\ m.from = Shown(m.disk)
      BY <1>0, TodoTyped DEF DisksOf
    <3>3. QED
      BY <3>1, <3>2
  <2>2. QED
    BY <1>0, <1>6, <2>1, Ground DEF Prepared, After, TodoFits, Moving
<1>7. ASSUME NEW j \in Jobs, Chosen(j), SameVictims PROVE TodoFits'
  BY <1>0, <1>7, Ground DEF Chosen, After, TodoFits, Moving
<1>8. ASSUME NEW j \in Jobs, GivenUp(j), SameVictims PROVE TodoFits'
  BY <1>0, <1>8, Ground DEF GivenUp, After, TodoFits, Moving
<1>9. ASSUME NEW j \in Jobs, Dropped(j), SameVictims PROVE TodoFits'
  BY <1>0, <1>9, Ground DEF Dropped, After, Unlinked, TodoFits, Moving
<1>10. ASSUME NEW j \in Jobs, Created(j), SameVictims PROVE TodoFits'
  BY <1>0, <1>10, Ground DEF Created, After, TodoFits, Moving
<1>11. ASSUME NEW j \in Jobs, Copied(j), SameVictims PROVE TodoFits'
  BY <1>0, <1>11, Ground DEF Copied, After, TodoFits, Moving
<1>12. ASSUME NEW j \in Jobs, Pointed(j), SameVictims PROVE TodoFits'
  BY <1>0, <1>12, Ground, Parts DEF Pointed, After, TodoFits, Moving, OneMove, ListsFit, Busy
<1>13. ASSUME NEW j \in Jobs, Reverted(j), SameVictims PROVE TodoFits'
  BY <1>0, <1>13, Ground, Parts DEF Reverted, After, Unlinked, TodoFits, Moving, OneMove,
     ListsFit, Busy
<1>14. ASSUME NEW j \in Jobs, Cleaned(j), SameVictims PROVE TodoFits'
  BY <1>0, <1>14, Ground DEF Cleaned, After, Unlinked, TodoFits, Moving
<1>15. ASSUME NEW j \in Jobs, PassedOver(j), SameVictims PROVE TodoFits'
  BY <1>0, <1>15, Ground DEF PassedOver, After, TodoFits, Moving
<1>16. ASSUME NEW r \in Requests, Looked(r) PROVE TodoFits'
  BY <1>0, <1>16, Ground DEF Looked, TodoFits, Moving
<1>17. ASSUME NEW r \in Requests, Deleted(r), SameVictims PROVE TodoFits'
  BY <1>0, <1>17, Ground DEF Deleted, Unlinked, TodoFits, Moving
<1>18. QED
  BY <1>1, <1>2, <1>3, <1>4, <1>5, <1>6, <1>7, <1>8, <1>9, <1>10, <1>11, <1>12, <1>13, <1>14,
     <1>15, <1>16, <1>17 DEF Kind, MoveKind

\* The originals stay until the clean-up that is theirs.
LEMMA DoneStaysFit ==
    ASSUME TypeOK, SourceThere, SourceThere', OneMove, ListsFit, TodoFits, DoneFits,
       OriginalsApart, CopyFits, Kind
    PROVE  DoneFits'
<1>0. MoveTypeOK
  BY DEF TypeOK
<1>1. CASE JobsLeave /\ SameVictims
  BY <1>0, <1>1, Ground DEF JobsLeave, DoneFits, SourceThere, ListsFit, Busy, Moving
<1>2. ASSUME NEW v \in VMs, Started(v), SameVictims PROVE DoneFits'
  BY <1>0, <1>2, Ground DEF Started, Powered, DoneFits, SourceThere, ListsFit, Busy, Moving
<1>3. ASSUME NEW v \in VMs, Stopped(v), SameVictims PROVE DoneFits'
  BY <1>0, <1>3, Ground DEF Stopped, Powered, DoneFits, SourceThere, ListsFit, Busy, Moving
<1>4. ASSUME NEW v \in VMs, Suspended(v), SameVictims PROVE DoneFits'
  BY <1>0, <1>4, Ground DEF Suspended, Powered, DoneFits, SourceThere, ListsFit, Busy, Moving
<1>5. ASSUME NEW d \in Disks, Written(d), SameVictims PROVE DoneFits'
  BY <1>0, <1>5, Ground, Parts DEF Written, DoneFits, SourceThere, ListsFit, Busy, Moving
<1>6. ASSUME NEW j \in Jobs, Prepared(j), SameVictims PROVE DoneFits'
  BY <1>0, <1>6, Ground DEF Prepared, After, DoneFits, SourceThere, ListsFit, Busy, Moving
<1>7. ASSUME NEW j \in Jobs, Chosen(j), SameVictims PROVE DoneFits'
  BY <1>0, <1>7, Ground DEF Chosen, After, DoneFits, SourceThere, ListsFit, Busy, Moving
<1>8. ASSUME NEW j \in Jobs, GivenUp(j), SameVictims PROVE DoneFits'
  BY <1>0, <1>8, Ground DEF GivenUp, After, DoneFits, SourceThere, ListsFit, Busy, Moving
<1>9. ASSUME NEW j \in Jobs, Dropped(j), SameVictims PROVE DoneFits'
  <2> SUFFICES ASSUME NEW k \in Jobs, Busy(k)', job'[k].vm \in Fine', NEW m \in job'[k].done
               PROVE  /\ m.from \in DOMAIN files' /\ files'[m.from].of = m.disk
                      /\ m.from # src'[m.disk]
                      /\ Moving(k)' => src'[m.disk] = m.to /\ files'[m.to].by = k
    BY DEF DoneFits
  <2>1. /\ Busy(k) /\ (Moving(k)' => Moving(k)) /\ job'[k].vm = job[k].vm /\ job[k].vm \in Fine
        /\ m \in job[k].done /\ m.disk \in Disks /\ VmOf[m.disk] = job[k].vm
    BY <1>0, <1>9, Ground, Parts DEF Dropped, After, Busy, Moving, ListsFit
  <2>2. /\ m.from \in DOMAIN files /\ files[m.from].of = m.disk /\ m.from # src[m.disk]
        /\ Moving(k) => src[m.disk] = m.to /\ files[m.to].by = k
    BY <2>1 DEF DoneFits
  <2>3. src'[m.disk] \in DOMAIN files'
    BY <2>1 DEF SourceThere
  <2>4. m.from # job[j].to
    BY <1>0, <1>9, <2>1, <2>2, DropTakes DEF Dropped, CopyFits
  <2>5. QED
    BY <1>9, <2>1, <2>2, <2>3, <2>4 DEF Dropped, Unlinked
<1>10. ASSUME NEW j \in Jobs, Created(j), SameVictims PROVE DoneFits'
  <2> SUFFICES ASSUME NEW k \in Jobs, Busy(k)', job'[k].vm \in Fine', NEW m \in job'[k].done
               PROVE  /\ m.from \in DOMAIN files' /\ files'[m.from].of = m.disk
                      /\ m.from # src'[m.disk]
                      /\ Moving(k)' => src'[m.disk] = m.to /\ files'[m.to].by = k
    BY DEF DoneFits
  <2>1. /\ Busy(k) /\ (Moving(k)' => Moving(k)) /\ job'[k].vm = job[k].vm /\ job[k].vm \in Fine
        /\ m \in job[k].done /\ m.disk \in Disks /\ VmOf[m.disk] = job[k].vm
    BY <1>0, <1>10, Ground, Parts DEF Created, After, Busy, Moving, ListsFit
  <2>2. /\ m.from \in DOMAIN files /\ files[m.from].of = m.disk /\ m.from # src[m.disk]
        /\ Moving(k) => src[m.disk] = m.to /\ files[m.to].by = k
    BY <2>1 DEF DoneFits
  <2>3. src[m.disk] \in DOMAIN files
    BY <2>1 DEF SourceThere
  <2>4. QED
    BY <1>10, <2>1, <2>2, <2>3 DEF Created
<1>11. ASSUME NEW j \in Jobs, Copied(j), SameVictims PROVE DoneFits'
  BY <1>0, <1>11, Ground, Parts DEF Copied, After, DoneFits, SourceThere, ListsFit, Busy, Moving
<1>12. ASSUME NEW j \in Jobs, Pointed(j), SameVictims PROVE DoneFits'
  BY <1>0, <1>12, Ground, Parts DEF Pointed, After, DoneFits, SourceThere, ListsFit, Busy, Moving,
     OneMove, TodoFits, CopyFits
<1>13. ASSUME NEW j \in Jobs, Reverted(j), SameVictims PROVE DoneFits'
  <2> SUFFICES ASSUME NEW k \in Jobs, Busy(k)', job'[k].vm \in Fine', NEW m \in job'[k].done
               PROVE  /\ m.from \in DOMAIN files' /\ files'[m.from].of = m.disk
                      /\ m.from # src'[m.disk]
                      /\ Moving(k)' => src'[m.disk] = m.to /\ files'[m.to].by = k
    BY DEF DoneFits
  <2>1. /\ Busy(k) /\ (Moving(k)' => Moving(k)) /\ job'[k].vm = job[k].vm /\ job[k].vm \in Fine
        /\ m \in job[k].done /\ m.disk \in Disks /\ VmOf[m.disk] = job[k].vm
    BY <1>0, <1>13, Ground, Parts DEF Reverted, After, Busy, Moving, ListsFit
  <2>2. /\ m.from \in DOMAIN files /\ files[m.from].of = m.disk /\ m.from # src[m.disk]
        /\ Moving(k) => src[m.disk] = m.to /\ files[m.to].by = k
    BY <2>1 DEF DoneFits
  <2>3. src'[m.disk] \in DOMAIN files'
    BY <2>1 DEF SourceThere
  <2> DEFINE n == First(job[j].done)
  <2>4. /\ Busy(j) /\ Moving(j) /\ n \in job[j].done /\ n.disk \in Disks /\ VmOf[n.disk] = job[j].vm
    BY <1>0, <1>13, Parts DEF Reverted, ListsFit, Busy, Moving
  <2>5. job[j].vm \in Fine => src[n.disk] = n.to /\ files[src[n.disk]].of = n.disk
    BY <2>4 DEF DoneFits, SourceThere
  <2>6. m.from # n.to
    BY <1>0, <1>13, <2>1, <2>2, <2>4, <2>5, RevertTakes
  <2>7. CASE m.disk # n.disk
    BY <1>13, <2>1, <2>2, <2>3, <2>6, <2>7 DEF Reverted, Unlinked
  <2>8. CASE m.disk = n.disk
    <3>1. k # j
      BY <1>13, <2>1, <2>4, <2>8 DEF Reverted, After, ListsFit
    <3>2. ~Moving(k) /\ m.from # n.from
      BY <2>1, <2>4, <2>8, <3>1 DEF OneMove, OriginalsApart
    <3>3. QED
      BY <1>13, <2>1, <2>2, <2>6, <2>8, <3>2 DEF Reverted, Unlinked
  <2>9. QED
    BY <2>7, <2>8
<1>14. ASSUME NEW j \in Jobs, Cleaned(j), SameVictims PROVE DoneFits'
  <2> SUFFICES ASSUME NEW k \in Jobs, Busy(k)', job'[k].vm \in Fine', NEW m \in job'[k].done
               PROVE  /\ m.from \in DOMAIN files' /\ files'[m.from].of = m.disk
                      /\ m.from # src'[m.disk]
                      /\ Moving(k)' => src'[m.disk] = m.to /\ files'[m.to].by = k
    BY DEF DoneFits
  <2>1. /\ Busy(k) /\ (Moving(k)' => Moving(k)) /\ job'[k].vm = job[k].vm /\ job[k].vm \in Fine
        /\ m \in job[k].done /\ m.disk \in Disks /\ VmOf[m.disk] = job[k].vm
    BY <1>0, <1>14, Ground, Parts DEF Cleaned, After, Busy, Moving, ListsFit
  <2>2. /\ m.from \in DOMAIN files /\ files[m.from].of = m.disk /\ m.from # src[m.disk]
        /\ Moving(k) => src[m.disk] = m.to /\ files[m.to].by = k
    BY <2>1 DEF DoneFits
  <2>3. src'[m.disk] \in DOMAIN files'
    BY <2>1 DEF SourceThere
  <2> DEFINE n == First(job[j].done)
  <2>4. Busy(j) /\ n \in job[j].done
    BY <1>14 DEF Cleaned, Busy
  <2>5. m.from # n.from
    <3> SUFFICES ASSUME m.from = n.from PROVE FALSE
      OBVIOUS
    <3>1. job[j].vm = job[k].vm
      BY <1>0, <1>14, <2>1, <2>2, CleanTakes
    <3>2. CASE k = j
      BY <1>14, <2>1, <2>2, <2>4, <3>2 DEF Cleaned, After, DoneFits, ListsFit
    <3>3. CASE k # j
      BY <2>1, <2>4, <3>1, <3>3 DEF OriginalsApart
    <3>4. QED
      BY <3>2, <3>3
  <2>6. QED
    BY <1>14, <2>1, <2>2, <2>3, <2>5 DEF Cleaned, Unlinked
<1>15. ASSUME NEW j \in Jobs, PassedOver(j), SameVictims PROVE DoneFits'
  BY <1>0, <1>15, Ground DEF PassedOver, After, DoneFits, SourceThere, ListsFit, Busy, Moving
<1>16. ASSUME NEW r \in Requests, Looked(r) PROVE DoneFits'
  BY <1>0, <1>16, Ground DEF Looked, DoneFits, SourceThere, ListsFit, Busy, Moving
<1>17. ASSUME NEW r \in Requests, Deleted(r), SameVictims PROVE DoneFits'
  <2> SUFFICES ASSUME NEW k \in Jobs, Busy(k)', job'[k].vm \in Fine', NEW m \in job'[k].done
               PROVE  /\ m.from \in DOMAIN files' /\ files'[m.from].of = m.disk
                      /\ m.from # src'[m.disk]
                      /\ Moving(k)' => src'[m.disk] = m.to /\ files'[m.to].by = k
    BY DEF DoneFits
  <2>1. /\ Busy(k) /\ (Moving(k)' => Moving(k)) /\ job'[k].vm = job[k].vm /\ job[k].vm \in Fine
        /\ m \in job[k].done /\ m.disk \in Disks /\ VmOf[m.disk] = job[k].vm
    BY <1>0, <1>17, Ground, Parts DEF Deleted, Busy, Moving, ListsFit
  <2>2. /\ m.from \in DOMAIN files /\ files[m.from].of = m.disk /\ m.from # src[m.disk]
        /\ Moving(k) => src[m.disk] = m.to /\ files[m.to].by = k
    BY <2>1 DEF DoneFits
  <2>3. src'[m.disk] \in DOMAIN files'
    BY <2>1 DEF SourceThere
  <2>4. m.from # req[r].victim.path
    BY <1>0, <1>17, <2>1, <2>2, SweepTakes
  <2>5. QED
    BY <1>17, <2>1, <2>2, <2>3, <2>4 DEF Deleted, Unlinked
<1>18. QED
  BY <1>1, <1>2, <1>3, <1>4, <1>5, <1>6, <1>7, <1>8, <1>9, <1>10, <1>11, <1>12, <1>13, <1>14,
     <1>15, <1>16, <1>17 DEF Kind, MoveKind

\* A disk that is repointed had a source no other job has as an original.
LEMMA OriginalsStayApart ==
    ASSUME TypeOK, SourceThere, ListsFit, TodoFits, DoneFits, OriginalsApart, Kind
    PROVE  OriginalsApart'
<1>0. MoveTypeOK
  BY DEF TypeOK
<1>1. CASE JobsLeave /\ SameVictims
  BY <1>0, <1>1, Ground DEF JobsLeave, OriginalsApart, Busy, Moving
<1>2. ASSUME NEW v \in VMs, Started(v), SameVictims PROVE OriginalsApart'
  BY <1>0, <1>2, Ground DEF Started, Powered, OriginalsApart, Busy, Moving
<1>3. ASSUME NEW v \in VMs, Stopped(v), SameVictims PROVE OriginalsApart'
  BY <1>0, <1>3, Ground DEF Stopped, Powered, OriginalsApart, Busy, Moving
<1>4. ASSUME NEW v \in VMs, Suspended(v), SameVictims PROVE OriginalsApart'
  BY <1>0, <1>4, Ground DEF Suspended, Powered, OriginalsApart, Busy, Moving
<1>5. ASSUME NEW d \in Disks, Written(d), SameVictims PROVE OriginalsApart'
  BY <1>0, <1>5, Ground DEF Written, OriginalsApart, Busy, Moving
<1>6. ASSUME NEW j \in Jobs, Prepared(j), SameVictims PROVE OriginalsApart'
  BY <1>0, <1>6, Ground DEF Prepared, After, OriginalsApart, Busy, Moving
<1>7. ASSUME NEW j \in Jobs, Chosen(j), SameVictims PROVE OriginalsApart'
  BY <1>0, <1>7, Ground DEF Chosen, After, OriginalsApart, Busy, Moving
<1>8. ASSUME NEW j \in Jobs, GivenUp(j), SameVictims PROVE OriginalsApart'
  BY <1>0, <1>8, Ground DEF GivenUp, After, OriginalsApart, Busy, Moving
<1>9. ASSUME NEW j \in Jobs, Dropped(j), SameVictims PROVE OriginalsApart'
  BY <1>0, <1>9, Ground DEF Dropped, After, Unlinked, OriginalsApart, Busy, Moving
<1>10. ASSUME NEW j \in Jobs, Created(j), SameVictims PROVE OriginalsApart'
  BY <1>0, <1>10, Ground DEF Created, After, OriginalsApart, Busy, Moving
<1>11. ASSUME NEW j \in Jobs, Copied(j), SameVictims PROVE OriginalsApart'
  BY <1>0, <1>11, Ground DEF Copied, After, OriginalsApart, Busy, Moving
<1>12. ASSUME NEW j \in Jobs, Pointed(j), SameVictims PROVE OriginalsApart'
  BY <1>0, <1>12, Ground, Parts DEF Pointed, After, OriginalsApart, Busy, Moving, SourceThere,
     ListsFit, TodoFits, DoneFits
<1>13. ASSUME NEW j \in Jobs, Reverted(j), SameVictims PROVE OriginalsApart'
  BY <1>0, <1>13, Ground DEF Reverted, After, Unlinked, OriginalsApart, Busy, Moving
<1>14. ASSUME NEW j \in Jobs, Cleaned(j), SameVictims PROVE OriginalsApart'
  BY <1>0, <1>14, Ground DEF Cleaned, After, Unlinked, OriginalsApart, Busy, Moving
<1>15. ASSUME NEW j \in Jobs, PassedOver(j), SameVictims PROVE OriginalsApart'
  BY <1>0, <1>15, Ground DEF PassedOver, After, OriginalsApart, Busy, Moving
<1>16. ASSUME NEW r \in Requests, Looked(r) PROVE OriginalsApart'
  BY <1>0, <1>16, Ground DEF Looked, OriginalsApart, Busy, Moving
<1>17. ASSUME NEW r \in Requests, Deleted(r), SameVictims PROVE OriginalsApart'
  BY <1>0, <1>17, Ground DEF Deleted, Unlinked, OriginalsApart, Busy, Moving
<1>18. QED
  BY <1>1, <1>2, <1>3, <1>4, <1>5, <1>6, <1>7, <1>8, <1>9, <1>10, <1>11, <1>12, <1>13, <1>14,
     <1>15, <1>16, <1>17 DEF Kind, MoveKind

\* A copy under way stays its job's, under a name of its own.
LEMMA CopyStaysFit ==
    ASSUME TypeOK, SourceThere, OneMove, ListsFit, TodoFits, DoneFits, CopyFits, Kind
    PROVE  CopyFits'
<1>0. MoveTypeOK
  BY DEF TypeOK
<1>1. CASE JobsLeave /\ SameVictims
  BY <1>0, <1>1, Ground DEF JobsLeave, CopyFits, DisksOf, Busy, Moving
<1>2. ASSUME NEW v \in VMs, Started(v), SameVictims PROVE CopyFits'
  BY <1>0, <1>2, Ground DEF Started, Powered, CopyFits, DisksOf, Busy, Moving
<1>3. ASSUME NEW v \in VMs, Stopped(v), SameVictims PROVE CopyFits'
  BY <1>0, <1>3, Ground DEF Stopped, Powered, CopyFits, DisksOf, Busy, Moving
<1>4. ASSUME NEW v \in VMs, Suspended(v), SameVictims PROVE CopyFits'
  BY <1>0, <1>4, Ground DEF Suspended, Powered, CopyFits, DisksOf, Busy, Moving
<1>5. ASSUME NEW d \in Disks, Written(d), SameVictims PROVE CopyFits'
  BY <1>0, <1>5, Ground DEF Written, CopyFits, DisksOf, Busy, Moving
<1>6. ASSUME NEW j \in Jobs, Prepared(j), SameVictims PROVE CopyFits'
  BY <1>0, <1>6, Ground DEF Prepared, After, CopyFits, DisksOf, Busy, Moving, OneMove
<1>7. ASSUME NEW j \in Jobs, Chosen(j), SameVictims PROVE CopyFits'
  BY <1>0, <1>7, Ground DEF Chosen, After, CopyFits, DisksOf, Busy, Moving, SourceThere, DoneFits
<1>8. ASSUME NEW j \in Jobs, GivenUp(j), SameVictims PROVE CopyFits'
  BY <1>0, <1>8, Ground DEF GivenUp, After, CopyFits, DisksOf, Busy, Moving
<1>9. ASSUME NEW j \in Jobs, Dropped(j), SameVictims PROVE CopyFits'
  <2> SUFFICES ASSUME NEW k \in Jobs, job'[k].at \in {"create", "copy", "repoint"}, job'[k].vm \in Fine'
               PROVE  /\ \A d \in Disks : VmOf[d] = job'[k].vm => src'[d] # job'[k].to
                      /\ \A l \in Jobs : Busy(l)' /\ job'[l].vm = job'[k].vm =>
                           \A m \in job'[l].done : m.from # job'[k].to
                      /\ job'[k].at # "create" => /\ job'[k].to \in DOMAIN files'
                                                  /\ files'[job'[k].to].by = k
                                                  /\ files'[job'[k].to].of = First(job'[k].todo).disk
    BY DEF CopyFits, DisksOf
  <2>1. /\ job'[k] = job[k] /\ job[k].at \in {"create", "copy", "repoint"} /\ job[k].vm \in Fine
        /\ Busy(k) /\ Moving(k) /\ VmOf[First(job[k].todo).disk] = job[k].vm
    BY <1>0, <1>9, Ground, Parts DEF Dropped, After, ListsFit, Busy, Moving
  <2>2. /\ \A d \in Disks : VmOf[d] = job[k].vm => src[d] # job[k].to
        /\ \A l \in Jobs : Busy(l) /\ job[l].vm = job[k].vm => \A m \in job[l].done : m.from # job[k].to
        /\ job[k].at # "create" => /\ job[k].to \in DOMAIN files
                                   /\ files[job[k].to].by = k
                                   /\ files[job[k].to].of = First(job[k].todo).disk
    BY <2>1 DEF CopyFits, DisksOf
  <2>3. \A l \in Jobs : Busy(l)' => Busy(l) /\ job'[l].vm = job[l].vm /\ job'[l].done \subseteq job[l].done
    BY <1>9 DEF Dropped, After, Busy, Moving
  <2>4. job[k].at # "create" => job[k].to # job[j].to
    BY <1>0, <1>9, <2>1, <2>2, DropTakes DEF Dropped, After
  <2>5. QED
    BY <1>9, <2>1, <2>2, <2>3, <2>4 DEF Dropped, Unlinked
<1>10. ASSUME NEW j \in Jobs, Created(j), SameVictims PROVE CopyFits'
  <2> SUFFICES ASSUME NEW k \in Jobs, job'[k].at \in {"create", "copy", "repoint"}, job'[k].vm \in Fine'
               PROVE  /\ \A d \in Disks : VmOf[d] = job'[k].vm => src'[d] # job'[k].to
                      /\ \A l \in Jobs : Busy(l)' /\ job'[l].vm = job'[k].vm =>
                           \A m \in job'[l].done : m.from # job'[k].to
                      /\ job'[k].at # "create" => /\ job'[k].to \in DOMAIN files'
                                                  /\ files'[job'[k].to].by = k
                                                  /\ files'[job'[k].to].of = First(job'[k].todo).disk
    BY DEF CopyFits, DisksOf
  <2>1. \A l \in Jobs : /\ job'[l].vm = job[l].vm /\ job'[l].done = job[l].done /\ job'[l].to = job[l].to
                        /\ job'[l].todo = job[l].todo /\ (Busy(l)' => Busy(l))
    BY <1>10 DEF Created, After, Busy, Moving
  <2>2. job[k].vm \in Fine /\ job[k].at \in {"create", "copy", "repoint"}
    BY <1>0, <1>10, <2>1, Ground DEF Created, After
  <2>3. /\ \A d \in Disks : VmOf[d] = job[k].vm => src[d] # job[k].to
        /\ \A l \in Jobs : Busy(l) /\ job[l].vm = job[k].vm => \A m \in job[l].done : m.from # job[k].to
        /\ job[k].at # "create" => /\ job[k].to \in DOMAIN files
                                   /\ files[job[k].to].by = k
                                   /\ files[job[k].to].of = First(job[k].todo).disk
    BY <2>2 DEF CopyFits, DisksOf
  <2>4. CASE k # j
    BY <1>10, <2>1, <2>3, <2>4 DEF Created, After
  <2>5. CASE k = j
    <3> DEFINE m == First(job[j].todo)
    <3>1. m \in job[j].todo /\ m.disk \in Disks /\ VmOf[m.disk] = job[j].vm /\ m.from = src[m.disk]
      BY <1>0, <1>10, <2>2, <2>5, Parts DEF Created, ListsFit, TodoFits, Busy, Moving
    <3>2. files[m.from].of = m.disk
      BY <2>2, <2>5, <3>1 DEF SourceThere
    <3>3. files'[job[j].to].of = m.disk /\ files'[job[j].to].by = j /\ job[j].to \in DOMAIN files'
      BY <1>10, <3>2 DEF Created
    <3>4. QED
      BY <1>10, <2>1, <2>3, <2>5, <3>3 DEF Created
  <2>6. QED
    BY <2>4, <2>5
<1>11. ASSUME NEW j \in Jobs, Copied(j), SameVictims PROVE CopyFits'
  BY <1>0, <1>11, Ground DEF Copied, After, CopyFits, DisksOf, Busy, Moving
<1>12. ASSUME NEW j \in Jobs, Pointed(j), SameVictims PROVE CopyFits'
  BY <1>0, <1>12, Ground DEF Pointed, After, CopyFits, DisksOf, Busy, Moving, OneMove, ListsFit
<1>13. ASSUME NEW j \in Jobs, Reverted(j), SameVictims PROVE CopyFits'
  <2> SUFFICES ASSUME NEW k \in Jobs, job'[k].at \in {"create", "copy", "repoint"}, job'[k].vm \in Fine'
               PROVE  /\ \A d \in Disks : VmOf[d] = job'[k].vm => src'[d] # job'[k].to
                      /\ \A l \in Jobs : Busy(l)' /\ job'[l].vm = job'[k].vm =>
                           \A m \in job'[l].done : m.from # job'[k].to
                      /\ job'[k].at # "create" => /\ job'[k].to \in DOMAIN files'
                                                  /\ files'[job'[k].to].by = k
                                                  /\ files'[job'[k].to].of = First(job'[k].todo).disk
    BY DEF CopyFits, DisksOf
  <2>1. /\ job'[k] = job[k] /\ job[k].at \in {"create", "copy", "repoint"} /\ job[k].vm \in Fine
        /\ Busy(k) /\ Moving(k) /\ VmOf[First(job[k].todo).disk] = job[k].vm
    BY <1>0, <1>13, Ground, Parts DEF Reverted, After, ListsFit, Busy, Moving
  <2>2. /\ \A d \in Disks : VmOf[d] = job[k].vm => src[d] # job[k].to
        /\ \A l \in Jobs : Busy(l) /\ job[l].vm = job[k].vm => \A m \in job[l].done : m.from # job[k].to
        /\ job[k].at # "create" => /\ job[k].to \in DOMAIN files
                                   /\ files[job[k].to].by = k
                                   /\ files[job[k].to].of = First(job[k].todo).disk
    BY <2>1 DEF CopyFits, DisksOf
  <2>3. \A l \in Jobs : Busy(l)' => Busy(l) /\ job'[l].vm = job[l].vm /\ job'[l].done \subseteq job[l].done
    BY <1>13 DEF Reverted, After, Busy, Moving
  <2>4. job[k].at # "create" => job[k].to # First(job[j].done).to
    <3>1. k # j
      BY <1>13, <2>1 DEF Reverted
    <3>2. VmOf[files[job[k].to].of] \in Fine' \/ job[k].at = "create"
      BY <2>1, <2>2
    <3>3. QED
      BY <1>0, <1>13, <2>2, <3>1, <3>2, RevertTakes
  <2>5. \A d \in Disks : VmOf[d] = job[k].vm => src'[d] = src[d]
    BY <1>0, <1>13, <2>1, Parts DEF Reverted, After, OneMove, ListsFit, Busy, Moving
  <2>6. QED
    BY <1>13, <2>1, <2>2, <2>3, <2>4, <2>5 DEF Reverted, Unlinked
<1>14. ASSUME NEW j \in Jobs, Cleaned(j), SameVictims PROVE CopyFits'
  <2> SUFFICES ASSUME NEW k \in Jobs, job'[k].at \in {"create", "copy", "repoint"}, job'[k].vm \in Fine'
               PROVE  /\ \A d \in Disks : VmOf[d] = job'[k].vm => src'[d] # job'[k].to
                      /\ \A l \in Jobs : Busy(l)' /\ job'[l].vm = job'[k].vm =>
                           \A m \in job'[l].done : m.from # job'[k].to
                      /\ job'[k].at # "create" => /\ job'[k].to \in DOMAIN files'
                                                  /\ files'[job'[k].to].by = k
                                                  /\ files'[job'[k].to].of = First(job'[k].todo).disk
    BY DEF CopyFits, DisksOf
  <2>1. /\ job'[k] = job[k] /\ job[k].at \in {"create", "copy", "repoint"} /\ job[k].vm \in Fine
        /\ Busy(k) /\ Moving(k) /\ VmOf[First(job[k].todo).disk] = job[k].vm
    BY <1>0, <1>14, Ground, Parts DEF Cleaned, After, ListsFit, Busy, Moving
  <2>2. /\ \A d \in Disks : VmOf[d] = job[k].vm => src[d] # job[k].to
        /\ \A l \in Jobs : Busy(l) /\ job[l].vm = job[k].vm => \A m \in job[l].done : m.from # job[k].to
        /\ job[k].at # "create" => /\ job[k].to \in DOMAIN files
                                   /\ files[job[k].to].by = k
                                   /\ files[job[k].to].of = First(job[k].todo).disk
    BY <2>1 DEF CopyFits, DisksOf
  <2>3. \A l \in Jobs : Busy(l)' => Busy(l) /\ job'[l].vm = job[l].vm /\ job'[l].done \subseteq job[l].done
    BY <1>14 DEF Cleaned, After, Busy, Moving
  <2>4. job[k].at # "create" => job[k].to # First(job[j].done).from
    BY <1>0, <1>14, <2>1, <2>2, CleanTakes DEF Cleaned, Busy
  <2>5. QED
    BY <1>14, <2>1, <2>2, <2>3, <2>4 DEF Cleaned, Unlinked
<1>15. ASSUME NEW j \in Jobs, PassedOver(j), SameVictims PROVE CopyFits'
  BY <1>0, <1>15, Ground DEF PassedOver, After, CopyFits, DisksOf, Busy, Moving
<1>16. ASSUME NEW r \in Requests, Looked(r) PROVE CopyFits'
  BY <1>0, <1>16, Ground DEF Looked, CopyFits, DisksOf, Busy, Moving
<1>17. ASSUME NEW r \in Requests, Deleted(r), SameVictims PROVE CopyFits'
  <2> SUFFICES ASSUME NEW k \in Jobs, job'[k].at \in {"create", "copy", "repoint"}, job'[k].vm \in Fine'
               PROVE  /\ \A d \in Disks : VmOf[d] = job'[k].vm => src'[d] # job'[k].to
                      /\ \A l \in Jobs : Busy(l)' /\ job'[l].vm = job'[k].vm =>
                           \A m \in job'[l].done : m.from # job'[k].to
                      /\ job'[k].at # "create" => /\ job'[k].to \in DOMAIN files'
                                                  /\ files'[job'[k].to].by = k
                                                  /\ files'[job'[k].to].of = First(job'[k].todo).disk
    BY DEF CopyFits, DisksOf
  <2>1. /\ job'[k] = job[k] /\ job[k].at \in {"create", "copy", "repoint"} /\ job[k].vm \in Fine
        /\ Busy(k) /\ Moving(k) /\ VmOf[First(job[k].todo).disk] = job[k].vm
    BY <1>0, <1>17, Ground, Parts DEF Deleted, ListsFit, Busy, Moving
  <2>2. /\ \A d \in Disks : VmOf[d] = job[k].vm => src[d] # job[k].to
        /\ \A l \in Jobs : Busy(l) /\ job[l].vm = job[k].vm => \A m \in job[l].done : m.from # job[k].to
        /\ job[k].at # "create" => /\ job[k].to \in DOMAIN files
                                   /\ files[job[k].to].by = k
                                   /\ files[job[k].to].of = First(job[k].todo).disk
    BY <2>1 DEF CopyFits, DisksOf
  <2>3. \A l \in Jobs : Busy(l)' => Busy(l) /\ job'[l].vm = job[l].vm /\ job'[l].done \subseteq job[l].done
    BY <1>17 DEF Deleted, Busy, Moving
  <2>4. job[k].at # "create" => job[k].to # req[r].victim.path
    BY <1>0, <1>17, <2>1, <2>2, SweepTakes
  <2>5. QED
    BY <1>17, <2>1, <2>2, <2>3, <2>4 DEF Deleted, Unlinked
<1>18. QED
  BY <1>1, <1>2, <1>3, <1>4, <1>5, <1>6, <1>7, <1>8, <1>9, <1>10, <1>11, <1>12, <1>13, <1>14,
     <1>15, <1>16, <1>17 DEF Kind, MoveKind

\* The files a job makes are its machine's.
LEMMA MakersStay ==
    ASSUME TypeOK, SourceThere, ListsFit, TodoFits, MadeByMover, Kind
    PROVE  MadeByMover'
<1>0. MoveTypeOK
  BY DEF TypeOK
<1>1. CASE JobsLeave /\ SameVictims
  BY <1>0, <1>1, Ground DEF JobsLeave, MadeByMover, Busy, Moving, Owner
<1>2. ASSUME NEW v \in VMs, Started(v), SameVictims PROVE MadeByMover'
  BY <1>0, <1>2, Ground DEF Started, Powered, MadeByMover, Busy, Moving, Owner
<1>3. ASSUME NEW v \in VMs, Stopped(v), SameVictims PROVE MadeByMover'
  BY <1>0, <1>3, Ground DEF Stopped, Powered, MadeByMover, Busy, Moving, Owner
<1>4. ASSUME NEW v \in VMs, Suspended(v), SameVictims PROVE MadeByMover'
  BY <1>0, <1>4, Ground DEF Suspended, Powered, MadeByMover, Busy, Moving, Owner
<1>5. ASSUME NEW d \in Disks, Written(d), SameVictims PROVE MadeByMover'
  BY <1>0, <1>5, Ground DEF Written, MadeByMover, Busy, Moving, Owner
<1>6. ASSUME NEW j \in Jobs, Prepared(j), SameVictims PROVE MadeByMover'
  BY <1>0, <1>6, Ground DEF Prepared, After, MadeByMover, Busy, Moving, Owner
<1>7. ASSUME NEW j \in Jobs, Chosen(j), SameVictims PROVE MadeByMover'
  BY <1>0, <1>7, Ground DEF Chosen, After, MadeByMover, Busy, Moving, Owner
<1>8. ASSUME NEW j \in Jobs, GivenUp(j), SameVictims PROVE MadeByMover'
  BY <1>0, <1>8, Ground DEF GivenUp, After, MadeByMover, Busy, Moving, Owner
<1>9. ASSUME NEW j \in Jobs, Dropped(j), SameVictims PROVE MadeByMover'
  BY <1>0, <1>9, Ground DEF Dropped, After, Unlinked, MadeByMover, Busy, Moving, Owner
<1>10. ASSUME NEW j \in Jobs, Created(j), SameVictims PROVE MadeByMover'
  BY <1>0, <1>10, Ground, Parts DEF Created, After, MadeByMover, Busy, Moving, Owner, SourceThere,
     ListsFit, TodoFits
<1>11. ASSUME NEW j \in Jobs, Copied(j), SameVictims PROVE MadeByMover'
  BY <1>0, <1>11, Ground DEF Copied, After, MadeByMover, Busy, Moving, Owner
<1>12. ASSUME NEW j \in Jobs, Pointed(j), SameVictims PROVE MadeByMover'
  BY <1>0, <1>12, Ground DEF Pointed, After, MadeByMover, Busy, Moving, Owner
<1>13. ASSUME NEW j \in Jobs, Reverted(j), SameVictims PROVE MadeByMover'
  BY <1>0, <1>13, Ground DEF Reverted, After, Unlinked, MadeByMover, Busy, Moving, Owner
<1>14. ASSUME NEW j \in Jobs, Cleaned(j), SameVictims PROVE MadeByMover'
  BY <1>0, <1>14, Ground DEF Cleaned, After, Unlinked, MadeByMover, Busy, Moving, Owner
<1>15. ASSUME NEW j \in Jobs, PassedOver(j), SameVictims PROVE MadeByMover'
  BY <1>0, <1>15, Ground DEF PassedOver, After, MadeByMover, Busy, Moving, Owner
<1>16. ASSUME NEW r \in Requests, Looked(r) PROVE MadeByMover'
  BY <1>0, <1>16, Ground DEF Looked, MadeByMover, Busy, Moving, Owner
<1>17. ASSUME NEW r \in Requests, Deleted(r), SameVictims PROVE MadeByMover'
  BY <1>0, <1>17, Ground DEF Deleted, Unlinked, MadeByMover, Busy, Moving, Owner
<1>18. QED
  BY <1>1, <1>2, <1>3, <1>4, <1>5, <1>6, <1>7, <1>8, <1>9, <1>10, <1>11, <1>12, <1>13, <1>14,
     <1>15, <1>16, <1>17 DEF Kind, MoveKind

\* Nothing becomes needed, made or begun: what a sweep has looked at stays as it is.
LEMMA VictimsQuiet ==
    ASSUME VictimsFit, SameVictims, Fine' \subseteq Fine, \A d \in Disks : src'[d] = src[d],
           \A p \in DOMAIN files' : p \in DOMAIN files /\ files'[p].of = files[p].of /\ files'[p].by = files[p].by,
           \A k \in Jobs : job'[k].at \in {"new", "begin"} => job[k].at \in {"new", "begin"},
           \A k \in Jobs : Busy(k)' =>
             /\ job'[k].vm = job[k].vm
             /\ \/ Busy(k) /\ job'[k].done \subseteq job[k].done
                \/ job[k].at = "begin" /\ job'[k].done = {}
    PROVE  VictimsFit'
<1> SUFFICES ASSUME NEW q \in Requests, Sweeping(q)'
             PROVE  /\ \A k \in Jobs : req'[q].victim.by = k =>
                         job'[k].at \notin {"new", "begin"} /\ ~(Busy(k)' /\ job'[k].vm \in Fine')
                    /\ LET p == req'[q].victim.path IN
                       p \in DOMAIN files' /\ files'[p].by = req'[q].victim.by /\ VmOf[files'[p].of] \in Fine' =>
                         /\ \A d \in Disks : VmOf[d] = VmOf[files'[p].of] => src'[d] # p
                         /\ \A k \in Jobs : Busy(k)' /\ job'[k].vm = VmOf[files'[p].of] =>
                              \A n \in job'[k].done : n.from # p
  BY DEF VictimsFit, Owner, DisksOf
<1> DEFINE p == req[q].victim.path
<1>1. Sweeping(q) /\ req'[q].victim = req[q].victim
  BY DEF SameVictims
<1>2. \A k \in Jobs : req[q].victim.by = k =>
        job[k].at \notin {"new", "begin"} /\ ~(Busy(k) /\ job[k].vm \in Fine)
  BY <1>1 DEF VictimsFit
<1>3. p \in DOMAIN files /\ files[p].by = req[q].victim.by /\ VmOf[files[p].of] \in Fine =>
        /\ \A d \in Disks : VmOf[d] = VmOf[files[p].of] => src[d] # p
        /\ \A k \in Jobs : Busy(k) /\ job[k].vm = VmOf[files[p].of] => \A n \in job[k].done : n.from # p
  BY <1>1 DEF VictimsFit, Owner, DisksOf
<1>4. \A k \in Jobs : req'[q].victim.by = k =>
        job'[k].at \notin {"new", "begin"} /\ ~(Busy(k)' /\ job'[k].vm \in Fine')
  BY <1>1, <1>2
<1>5. p \in DOMAIN files' /\ files'[p].by = req[q].victim.by /\ VmOf[files'[p].of] \in Fine' =>
        /\ \A d \in Disks : VmOf[d] = VmOf[files'[p].of] => src'[d] # p
        /\ \A k \in Jobs : Busy(k)' /\ job'[k].vm = VmOf[files'[p].of] => \A n \in job'[k].done : n.from # p
  BY <1>3
<1>6. QED
  BY <1>1, <1>4, <1>5

\* What a sweep has looked at stays a file that is not needed.
LEMMA VictimsStayFit ==
    ASSUME TypeOK, SourceThere, ListsFit, TodoFits, DoneFits, CopyFits, MadeByMover, VictimsFit,
       Kind
    PROVE  VictimsFit'
<1>0. MoveTypeOK
  BY DEF TypeOK
<1>1. CASE JobsLeave /\ SameVictims
  <2>1. \A p \in DOMAIN files' :
          p \in DOMAIN files /\ files'[p].of = files[p].of /\ files'[p].by = files[p].by
    BY <1>1 DEF JobsLeave
  <2>2. \A e \in Disks : src'[e] = src[e]
    BY <1>1 DEF JobsLeave
  <2>3. \A k \in Jobs : /\ job'[k].at \in {"new", "begin"} => job[k].at \in {"new", "begin"}
                        /\ Busy(k)' =>
                             /\ job'[k].vm = job[k].vm
                             /\ \/ Busy(k) /\ job'[k].done \subseteq job[k].done
                                \/ job[k].at = "begin" /\ job'[k].done = {}
    BY <1>1 DEF JobsLeave, Busy, Moving
  <2>4. QED
    BY <1>0, <1>1, <2>1, <2>2, <2>3, Ground, VictimsQuiet
<1>2. ASSUME NEW v \in VMs, Started(v), SameVictims PROVE VictimsFit'
  <2>1. \A p \in DOMAIN files' :
          p \in DOMAIN files /\ files'[p].of = files[p].of /\ files'[p].by = files[p].by
    BY <1>2 DEF Started, Powered
  <2>2. \A e \in Disks : src'[e] = src[e]
    BY <1>2 DEF Started, Powered
  <2>3. \A k \in Jobs : /\ job'[k].at \in {"new", "begin"} => job[k].at \in {"new", "begin"}
                        /\ Busy(k)' =>
                             /\ job'[k].vm = job[k].vm
                             /\ \/ Busy(k) /\ job'[k].done \subseteq job[k].done
                                \/ job[k].at = "begin" /\ job'[k].done = {}
    BY <1>2 DEF Started, Powered, Busy, Moving
  <2>4. QED
    BY <1>0, <1>2, <2>1, <2>2, <2>3, Ground, VictimsQuiet
<1>3. ASSUME NEW v \in VMs, Stopped(v), SameVictims PROVE VictimsFit'
  <2>1. \A p \in DOMAIN files' :
          p \in DOMAIN files /\ files'[p].of = files[p].of /\ files'[p].by = files[p].by
    BY <1>3 DEF Stopped, Powered
  <2>2. \A e \in Disks : src'[e] = src[e]
    BY <1>3 DEF Stopped, Powered
  <2>3. \A k \in Jobs : /\ job'[k].at \in {"new", "begin"} => job[k].at \in {"new", "begin"}
                        /\ Busy(k)' =>
                             /\ job'[k].vm = job[k].vm
                             /\ \/ Busy(k) /\ job'[k].done \subseteq job[k].done
                                \/ job[k].at = "begin" /\ job'[k].done = {}
    BY <1>3 DEF Stopped, Powered, Busy, Moving
  <2>4. QED
    BY <1>0, <1>3, <2>1, <2>2, <2>3, Ground, VictimsQuiet
<1>4. ASSUME NEW v \in VMs, Suspended(v), SameVictims PROVE VictimsFit'
  <2>1. \A p \in DOMAIN files' :
          p \in DOMAIN files /\ files'[p].of = files[p].of /\ files'[p].by = files[p].by
    BY <1>4 DEF Suspended, Powered
  <2>2. \A e \in Disks : src'[e] = src[e]
    BY <1>4 DEF Suspended, Powered
  <2>3. \A k \in Jobs : /\ job'[k].at \in {"new", "begin"} => job[k].at \in {"new", "begin"}
                        /\ Busy(k)' =>
                             /\ job'[k].vm = job[k].vm
                             /\ \/ Busy(k) /\ job'[k].done \subseteq job[k].done
                                \/ job[k].at = "begin" /\ job'[k].done = {}
    BY <1>4 DEF Suspended, Powered, Busy, Moving
  <2>4. QED
    BY <1>0, <1>4, <2>1, <2>2, <2>3, Ground, VictimsQuiet
<1>5. ASSUME NEW d \in Disks, Written(d), SameVictims PROVE VictimsFit'
  <2>1. \A p \in DOMAIN files' :
          p \in DOMAIN files /\ files'[p].of = files[p].of /\ files'[p].by = files[p].by
    BY <1>5 DEF Written
  <2>2. \A e \in Disks : src'[e] = src[e]
    BY <1>5 DEF Written
  <2>3. \A k \in Jobs : /\ job'[k].at \in {"new", "begin"} => job[k].at \in {"new", "begin"}
                        /\ Busy(k)' =>
                             /\ job'[k].vm = job[k].vm
                             /\ \/ Busy(k) /\ job'[k].done \subseteq job[k].done
                                \/ job[k].at = "begin" /\ job'[k].done = {}
    BY <1>5 DEF Written, Busy, Moving
  <2>4. QED
    BY <1>0, <1>5, <2>1, <2>2, <2>3, Ground, VictimsQuiet
<1>6. ASSUME NEW j \in Jobs, Prepared(j), SameVictims PROVE VictimsFit'
  <2>1. \A p \in DOMAIN files' :
          p \in DOMAIN files /\ files'[p].of = files[p].of /\ files'[p].by = files[p].by
    BY <1>6 DEF Prepared
  <2>2. \A e \in Disks : src'[e] = src[e]
    BY <1>6 DEF Prepared
  <2>3. \A k \in Jobs : /\ job'[k].at \in {"new", "begin"} => job[k].at \in {"new", "begin"}
                        /\ Busy(k)' =>
                             /\ job'[k].vm = job[k].vm
                             /\ \/ Busy(k) /\ job'[k].done \subseteq job[k].done
                                \/ job[k].at = "begin" /\ job'[k].done = {}
    BY <1>6 DEF Prepared, After, Busy, Moving
  <2>4. QED
    BY <1>0, <1>6, <2>1, <2>2, <2>3, Ground, VictimsQuiet
<1>7. ASSUME NEW j \in Jobs, Chosen(j), SameVictims PROVE VictimsFit'
  <2>1. \A p \in DOMAIN files' :
          p \in DOMAIN files /\ files'[p].of = files[p].of /\ files'[p].by = files[p].by
    BY <1>7 DEF Chosen
  <2>2. \A e \in Disks : src'[e] = src[e]
    BY <1>7 DEF Chosen
  <2>3. \A k \in Jobs : /\ job'[k].at \in {"new", "begin"} => job[k].at \in {"new", "begin"}
                        /\ Busy(k)' =>
                             /\ job'[k].vm = job[k].vm
                             /\ \/ Busy(k) /\ job'[k].done \subseteq job[k].done
                                \/ job[k].at = "begin" /\ job'[k].done = {}
    BY <1>7 DEF Chosen, After, Busy, Moving
  <2>4. QED
    BY <1>0, <1>7, <2>1, <2>2, <2>3, Ground, VictimsQuiet
<1>8. ASSUME NEW j \in Jobs, GivenUp(j), SameVictims PROVE VictimsFit'
  <2>1. \A p \in DOMAIN files' :
          p \in DOMAIN files /\ files'[p].of = files[p].of /\ files'[p].by = files[p].by
    BY <1>8 DEF GivenUp
  <2>2. \A e \in Disks : src'[e] = src[e]
    BY <1>8 DEF GivenUp
  <2>3. \A k \in Jobs : /\ job'[k].at \in {"new", "begin"} => job[k].at \in {"new", "begin"}
                        /\ Busy(k)' =>
                             /\ job'[k].vm = job[k].vm
                             /\ \/ Busy(k) /\ job'[k].done \subseteq job[k].done
                                \/ job[k].at = "begin" /\ job'[k].done = {}
    BY <1>8 DEF GivenUp, After, Busy, Moving
  <2>4. QED
    BY <1>0, <1>8, <2>1, <2>2, <2>3, Ground, VictimsQuiet
<1>9. ASSUME NEW j \in Jobs, Dropped(j), SameVictims PROVE VictimsFit'
  <2>1. \A p \in DOMAIN files' :
          p \in DOMAIN files /\ files'[p].of = files[p].of /\ files'[p].by = files[p].by
    BY <1>9 DEF Dropped, Unlinked
  <2>2. \A e \in Disks : src'[e] = src[e]
    BY <1>9 DEF Dropped
  <2>3. \A k \in Jobs : /\ job'[k].at \in {"new", "begin"} => job[k].at \in {"new", "begin"}
                        /\ Busy(k)' =>
                             /\ job'[k].vm = job[k].vm
                             /\ \/ Busy(k) /\ job'[k].done \subseteq job[k].done
                                \/ job[k].at = "begin" /\ job'[k].done = {}
    BY <1>9 DEF Dropped, After, Busy, Moving
  <2>4. QED
    BY <1>0, <1>9, <2>1, <2>2, <2>3, Ground, VictimsQuiet
<1>10. ASSUME NEW j \in Jobs, Created(j), SameVictims PROVE VictimsFit'
  <2> SUFFICES ASSUME NEW q \in Requests, Sweeping(q)'
               PROVE  /\ \A k \in Jobs : req'[q].victim.by = k =>
                           job'[k].at \notin {"new", "begin"} /\ ~(Busy(k)' /\ job'[k].vm \in Fine')
                      /\ LET p == req'[q].victim.path IN
                         p \in DOMAIN files' /\ files'[p].by = req'[q].victim.by /\ VmOf[files'[p].of] \in Fine' =>
                           /\ \A d \in Disks : VmOf[d] = VmOf[files'[p].of] => src'[d] # p
                           /\ \A k \in Jobs : Busy(k)' /\ job'[k].vm = VmOf[files'[p].of] =>
                                \A n \in job'[k].done : n.from # p
    BY DEF VictimsFit, Owner, DisksOf
  <2> DEFINE p == req[q].victim.path
  <2>1. Sweeping(q) /\ req'[q].victim = req[q].victim
    BY <1>10 DEF SameVictims
  <2>2. \A k \in Jobs : req[q].victim.by = k =>
          job[k].at \notin {"new", "begin"} /\ ~(Busy(k) /\ job[k].vm \in Fine)
    BY <2>1 DEF VictimsFit
  <2>3. p \in DOMAIN files /\ files[p].by = req[q].victim.by /\ VmOf[files[p].of] \in Fine =>
          /\ \A d \in Disks : VmOf[d] = VmOf[files[p].of] => src[d] # p
          /\ \A k \in Jobs : Busy(k) /\ job[k].vm = VmOf[files[p].of] => \A n \in job[k].done : n.from # p
    BY <2>1 DEF VictimsFit, Owner, DisksOf
  <2>4. /\ Fine' \subseteq Fine /\ src' = src /\ DOMAIN files' = DOMAIN files \cup {job[j].to}
        /\ job[j].to \notin DOMAIN files /\ \A x \in DOMAIN files : files'[x] = files[x]
    BY <1>0, <1>10, Ground DEF Created
  <2>5. \A k \in Jobs : /\ job'[k].vm = job[k].vm /\ job'[k].done = job[k].done /\ (Busy(k)' => Busy(k))
                        /\ job'[k].at \in {"new", "begin"} => job[k].at \in {"new", "begin"}
    BY <1>10 DEF Created, After, Busy, Moving
  <2>6. CASE p \in DOMAIN files
    <3>1. files'[p] = files[p]
      BY <2>4, <2>6
    <3>2. \A k \in Jobs : req'[q].victim.by = k =>
            job'[k].at \notin {"new", "begin"} /\ ~(Busy(k)' /\ job'[k].vm \in Fine')
      BY <2>1, <2>2, <2>4, <2>5
    <3>3. files'[p].by = req[q].victim.by /\ VmOf[files'[p].of] \in Fine' =>
            /\ \A d \in Disks : VmOf[d] = VmOf[files'[p].of] => src'[d] # p
            /\ \A k \in Jobs : Busy(k)' /\ job'[k].vm = VmOf[files'[p].of] => \A n \in job'[k].done : n.from # p
      BY <2>3, <2>4, <2>5, <2>6, <3>1
    <3>4. QED
      BY <2>1, <3>2, <3>3
  <2>7. CASE p \notin DOMAIN files
    <3>1. \A d \in Disks : VmOf[d] \in Fine => src[d] # p
      BY <2>7 DEF SourceThere
    <3>2. \A k \in Jobs : Busy(k) /\ job[k].vm \in Fine => \A n \in job[k].done : n.from # p
      BY <2>7 DEF DoneFits
    <3>3. QED
      BY <2>1, <2>2, <2>4, <2>5, <3>1, <3>2
  <2>8. QED
    BY <2>6, <2>7
<1>11. ASSUME NEW j \in Jobs, Copied(j), SameVictims PROVE VictimsFit'
  <2>1. \A p \in DOMAIN files' :
          p \in DOMAIN files /\ files'[p].of = files[p].of /\ files'[p].by = files[p].by
    BY <1>11 DEF Copied
  <2>2. \A e \in Disks : src'[e] = src[e]
    BY <1>11 DEF Copied
  <2>3. \A k \in Jobs : /\ job'[k].at \in {"new", "begin"} => job[k].at \in {"new", "begin"}
                        /\ Busy(k)' =>
                             /\ job'[k].vm = job[k].vm
                             /\ \/ Busy(k) /\ job'[k].done \subseteq job[k].done
                                \/ job[k].at = "begin" /\ job'[k].done = {}
    BY <1>11 DEF Copied, After, Busy, Moving
  <2>4. QED
    BY <1>0, <1>11, <2>1, <2>2, <2>3, Ground, VictimsQuiet
<1>12. ASSUME NEW j \in Jobs, Pointed(j), SameVictims PROVE VictimsFit'
  <2> SUFFICES ASSUME NEW q \in Requests, Sweeping(q)'
               PROVE  /\ \A k \in Jobs : req'[q].victim.by = k =>
                           job'[k].at \notin {"new", "begin"} /\ ~(Busy(k)' /\ job'[k].vm \in Fine')
                      /\ LET p == req'[q].victim.path IN
                         p \in DOMAIN files' /\ files'[p].by = req'[q].victim.by /\ VmOf[files'[p].of] \in Fine' =>
                           /\ \A d \in Disks : VmOf[d] = VmOf[files'[p].of] => src'[d] # p
                           /\ \A k \in Jobs : Busy(k)' /\ job'[k].vm = VmOf[files'[p].of] =>
                                \A n \in job'[k].done : n.from # p
    BY DEF VictimsFit, Owner, DisksOf
  <2> DEFINE p == req[q].victim.path
  <2>1. Sweeping(q) /\ req'[q].victim = req[q].victim
    BY <1>12 DEF SameVictims
  <2>2. \A k \in Jobs : req[q].victim.by = k =>
          job[k].at \notin {"new", "begin"} /\ ~(Busy(k) /\ job[k].vm \in Fine)
    BY <2>1 DEF VictimsFit
  <2>3. p \in DOMAIN files /\ files[p].by = req[q].victim.by /\ VmOf[files[p].of] \in Fine =>
          /\ \A d \in Disks : VmOf[d] = VmOf[files[p].of] => src[d] # p
          /\ \A k \in Jobs : Busy(k) /\ job[k].vm = VmOf[files[p].of] => \A n \in job[k].done : n.from # p
    BY <2>1 DEF VictimsFit, Owner, DisksOf
  <2> DEFINE m == First(job[j].todo)
  <2>4. /\ Busy(j) /\ Moving(j) /\ m \in job[j].todo /\ m.disk \in Disks /\ VmOf[m.disk] = job[j].vm
        /\ job[j].vm \in Fine => m.from = src[m.disk] /\ files[job[j].to].by = j
    BY <1>0, <1>12, Parts DEF Pointed, ListsFit, TodoFits, CopyFits, Busy, Moving
  <2>5. \A k \in Jobs : /\ job'[k].vm = job[k].vm /\ (Busy(k)' => Busy(k))
                        /\ job'[k].at \in {"new", "begin"} => job[k].at \in {"new", "begin"}
                        /\ \A n \in job'[k].done : n \in job[k].done \/ (k = j /\ n.from = m.from)
    <3>1. job'[j].done = job[j].done \cup {[disk |-> m.disk, from |-> m.from, to |-> job[j].to]}
      BY <1>12 DEF Pointed, After
    <3>2. \A n \in job'[j].done : n \in job[j].done \/ n.from = m.from
      BY <3>1
    <3>3. QED
      BY <1>12, <3>2 DEF Pointed, After, Busy, Moving
  <2>6. ASSUME p \in DOMAIN files, files[p].by = req[q].victim.by, VmOf[files[p].of] \in Fine
        PROVE  /\ \A d \in Disks : VmOf[d] = VmOf[files[p].of] => src'[d] # p
               /\ \A k \in Jobs : Busy(k)' /\ job'[k].vm = VmOf[files[p].of] =>
                    \A n \in job'[k].done : n.from # p
    <3>1. VmOf[m.disk] = VmOf[files[p].of] => job[j].to # p
      BY <2>2, <2>4, <2>6
    <3>2. \A d \in Disks : VmOf[d] = VmOf[files[p].of] => src'[d] # p
      BY <1>12, <2>3, <2>6, <3>1 DEF Pointed
    <3>3. \A k \in Jobs : Busy(k)' /\ job'[k].vm = VmOf[files[p].of] => \A n \in job'[k].done : n.from # p
      BY <2>3, <2>4, <2>5, <2>6
    <3>4. QED
      BY <3>2, <3>3
  <2>7. Fine' \subseteq Fine /\ files' = files
    BY <1>0, <1>12, Ground DEF Pointed
  <2>8. QED
    BY <2>1, <2>2, <2>5, <2>6, <2>7
<1>13. ASSUME NEW j \in Jobs, Reverted(j), SameVictims PROVE VictimsFit'
  <2> SUFFICES ASSUME NEW q \in Requests, Sweeping(q)'
               PROVE  /\ \A k \in Jobs : req'[q].victim.by = k =>
                           job'[k].at \notin {"new", "begin"} /\ ~(Busy(k)' /\ job'[k].vm \in Fine')
                      /\ LET p == req'[q].victim.path IN
                         p \in DOMAIN files' /\ files'[p].by = req'[q].victim.by /\ VmOf[files'[p].of] \in Fine' =>
                           /\ \A d \in Disks : VmOf[d] = VmOf[files'[p].of] => src'[d] # p
                           /\ \A k \in Jobs : Busy(k)' /\ job'[k].vm = VmOf[files'[p].of] =>
                                \A n \in job'[k].done : n.from # p
    BY DEF VictimsFit, Owner, DisksOf
  <2> DEFINE p == req[q].victim.path
  <2>1. Sweeping(q) /\ req'[q].victim = req[q].victim
    BY <1>13 DEF SameVictims
  <2>2. \A k \in Jobs : req[q].victim.by = k =>
          job[k].at \notin {"new", "begin"} /\ ~(Busy(k) /\ job[k].vm \in Fine)
    BY <2>1 DEF VictimsFit
  <2>3. p \in DOMAIN files /\ files[p].by = req[q].victim.by /\ VmOf[files[p].of] \in Fine =>
          /\ \A d \in Disks : VmOf[d] = VmOf[files[p].of] => src[d] # p
          /\ \A k \in Jobs : Busy(k) /\ job[k].vm = VmOf[files[p].of] => \A n \in job[k].done : n.from # p
    BY <2>1 DEF VictimsFit, Owner, DisksOf
  <2> DEFINE m == First(job[j].done)
  <2>4. Busy(j) /\ m \in job[j].done /\ m.disk \in Disks /\ VmOf[m.disk] = job[j].vm
    BY <1>0, <1>13, Parts DEF Reverted, ListsFit, Busy, Moving
  <2>5. \A k \in Jobs : /\ job'[k].vm = job[k].vm /\ (Busy(k)' => Busy(k)) /\ job'[k].done \subseteq job[k].done
                        /\ job'[k].at \in {"new", "begin"} => job[k].at \in {"new", "begin"}
    BY <1>13 DEF Reverted, After, Busy, Moving
  <2>6. ASSUME p \in DOMAIN files, files[p].by = req[q].victim.by, VmOf[files[p].of] \in Fine
        PROVE  /\ \A d \in Disks : VmOf[d] = VmOf[files[p].of] => src'[d] # p
               /\ \A k \in Jobs : Busy(k)' /\ job'[k].vm = VmOf[files[p].of] =>
                    \A n \in job'[k].done : n.from # p
    <3>1. VmOf[m.disk] = VmOf[files[p].of] => m.from # p
      BY <2>3, <2>4, <2>6
    <3>2. \A d \in Disks : VmOf[d] = VmOf[files[p].of] => src'[d] # p
      BY <1>13, <2>3, <2>6, <3>1 DEF Reverted
    <3>3. QED
      BY <2>3, <2>5, <2>6, <3>2
  <2>7. /\ Fine' \subseteq Fine /\ DOMAIN files' \subseteq DOMAIN files
        /\ \A x \in DOMAIN files' : files'[x] = files[x]
    BY <1>0, <1>13, Ground DEF Reverted, Unlinked
  <2>8. QED
    BY <2>1, <2>2, <2>5, <2>6, <2>7
<1>14. ASSUME NEW j \in Jobs, Cleaned(j), SameVictims PROVE VictimsFit'
  <2>1. \A p \in DOMAIN files' :
          p \in DOMAIN files /\ files'[p].of = files[p].of /\ files'[p].by = files[p].by
    BY <1>14 DEF Cleaned, Unlinked
  <2>2. \A e \in Disks : src'[e] = src[e]
    BY <1>14 DEF Cleaned
  <2>3. \A k \in Jobs : /\ job'[k].at \in {"new", "begin"} => job[k].at \in {"new", "begin"}
                        /\ Busy(k)' =>
                             /\ job'[k].vm = job[k].vm
                             /\ \/ Busy(k) /\ job'[k].done \subseteq job[k].done
                                \/ job[k].at = "begin" /\ job'[k].done = {}
    BY <1>14 DEF Cleaned, After, Busy, Moving
  <2>4. QED
    BY <1>0, <1>14, <2>1, <2>2, <2>3, Ground, VictimsQuiet
<1>15. ASSUME NEW j \in Jobs, PassedOver(j), SameVictims PROVE VictimsFit'
  <2>1. \A p \in DOMAIN files' :
          p \in DOMAIN files /\ files'[p].of = files[p].of /\ files'[p].by = files[p].by
    BY <1>15 DEF PassedOver
  <2>2. \A e \in Disks : src'[e] = src[e]
    BY <1>15 DEF PassedOver
  <2>3. \A k \in Jobs : /\ job'[k].at \in {"new", "begin"} => job[k].at \in {"new", "begin"}
                        /\ Busy(k)' =>
                             /\ job'[k].vm = job[k].vm
                             /\ \/ Busy(k) /\ job'[k].done \subseteq job[k].done
                                \/ job[k].at = "begin" /\ job'[k].done = {}
    BY <1>15 DEF PassedOver, After, Busy, Moving
  <2>4. QED
    BY <1>0, <1>15, <2>1, <2>2, <2>3, Ground, VictimsQuiet
<1>16. ASSUME NEW r \in Requests, Looked(r) PROVE VictimsFit'
  <2> SUFFICES ASSUME NEW q \in Requests, Sweeping(q)'
               PROVE  /\ \A k \in Jobs : req'[q].victim.by = k =>
                           job'[k].at \notin {"new", "begin"} /\ ~(Busy(k)' /\ job'[k].vm \in Fine')
                      /\ LET p == req'[q].victim.path IN
                         p \in DOMAIN files' /\ files'[p].by = req'[q].victim.by /\ VmOf[files'[p].of] \in Fine' =>
                           /\ \A d \in Disks : VmOf[d] = VmOf[files'[p].of] => src'[d] # p
                           /\ \A k \in Jobs : Busy(k)' /\ job'[k].vm = VmOf[files'[p].of] =>
                                \A n \in job'[k].done : n.from # p
    BY DEF VictimsFit, Owner, DisksOf
  <2>1. Fine' \subseteq Fine /\ files' = files /\ src' = src /\ job' = job
    BY <1>0, <1>16, Ground DEF Looked
  <2>2. CASE q # r
    <3>1. Sweeping(q) /\ req'[q].victim = req[q].victim
      BY <1>16, <2>2 DEF Looked, Sweeping
    <3>2. QED
      BY <2>1, <3>1 DEF VictimsFit, Owner, DisksOf, Busy, Moving
  <2>3. CASE q = r
    <3> DEFINE p == req'[r].victim.path
    <3>1. /\ p \in DOMAIN files /\ req'[r].victim.by = files[p].by
          /\ \A v \in VMs : dom[v] # "gone" =>
               <<v, "misread">> \in cause' \/ \A d \in Disks : VmOf[d] = v => src[d] # p
          /\ (\E k \in Jobs : Busy(k) /\ job[k].vm = VmOf[files[p].of]) => <<VmOf[files[p].of], "swept">> \in cause'
      BY <1>16 DEF Looked, Owner, DisksOf
    <3>2. VmOf[files[p].of] \in Fine' => /\ \A d \in Disks : VmOf[d] = VmOf[files[p].of] => src[d] # p
                                        /\ \A k \in Jobs : Busy(k) => job[k].vm # VmOf[files[p].of]
      BY <1>0, <2>1, <3>1, Ground
    <3>3. \A k \in Jobs : files[p].by = k => /\ job[k].at \notin {"new", "begin"}
                                             /\ Busy(k) /\ job[k].vm \in Fine => VmOf[files[p].of] = job[k].vm
      BY <3>1 DEF MadeByMover, Owner
    <3>4. QED
      BY <2>1, <2>3, <3>1, <3>2, <3>3 DEF Busy, Moving
  <2>4. QED
    BY <2>2, <2>3
<1>17. ASSUME NEW r \in Requests, Deleted(r), SameVictims PROVE VictimsFit'
  <2>1. \A p \in DOMAIN files' :
          p \in DOMAIN files /\ files'[p].of = files[p].of /\ files'[p].by = files[p].by
    BY <1>17 DEF Deleted, Unlinked
  <2>2. \A e \in Disks : src'[e] = src[e]
    BY <1>17 DEF Deleted
  <2>3. \A k \in Jobs : /\ job'[k].at \in {"new", "begin"} => job[k].at \in {"new", "begin"}
                        /\ Busy(k)' =>
                             /\ job'[k].vm = job[k].vm
                             /\ \/ Busy(k) /\ job'[k].done \subseteq job[k].done
                                \/ job[k].at = "begin" /\ job'[k].done = {}
    BY <1>17 DEF Deleted, Busy, Moving
  <2>4. QED
    BY <1>0, <1>17, <2>1, <2>2, <2>3, Ground, VictimsQuiet
<1>18. QED
  BY <1>1, <1>2, <1>3, <1>4, <1>5, <1>6, <1>7, <1>8, <1>9, <1>10, <1>11, <1>12, <1>13, <1>14,
     <1>15, <1>16, <1>17 DEF Kind, MoveKind

\* A start in the middle of a move marks the machine.
LEMMA OffStays ==
    ASSUME TypeOK, OffWhileMoving, Kind
    PROVE  OffWhileMoving'
<1>0. MoveTypeOK
  BY DEF TypeOK
<1>1. CASE JobsLeave /\ SameVictims
  BY <1>0, <1>1, Ground DEF JobsLeave, OffWhileMoving, Moving
<1>2. ASSUME NEW v \in VMs, Started(v), SameVictims PROVE OffWhileMoving'
  BY <1>0, <1>2, Ground DEF Started, Powered, OffWhileMoving, Moving, MovesOf
<1>3. ASSUME NEW v \in VMs, Stopped(v), SameVictims PROVE OffWhileMoving'
  BY <1>0, <1>3, Ground DEF Stopped, Powered, OffWhileMoving, Moving
<1>4. ASSUME NEW v \in VMs, Suspended(v), SameVictims PROVE OffWhileMoving'
  BY <1>0, <1>4, Ground DEF Suspended, Powered, OffWhileMoving, Moving, Live
<1>5. ASSUME NEW d \in Disks, Written(d), SameVictims PROVE OffWhileMoving'
  BY <1>0, <1>5, Ground DEF Written, OffWhileMoving, Moving
<1>6. ASSUME NEW j \in Jobs, Prepared(j), SameVictims PROVE OffWhileMoving'
  BY <1>0, <1>6, Ground DEF Prepared, After, OffWhileMoving, Moving
<1>7. ASSUME NEW j \in Jobs, Chosen(j), SameVictims PROVE OffWhileMoving'
  BY <1>0, <1>7, Ground DEF Chosen, After, OffWhileMoving, Moving
<1>8. ASSUME NEW j \in Jobs, GivenUp(j), SameVictims PROVE OffWhileMoving'
  BY <1>0, <1>8, Ground DEF GivenUp, After, OffWhileMoving, Moving
<1>9. ASSUME NEW j \in Jobs, Dropped(j), SameVictims PROVE OffWhileMoving'
  BY <1>0, <1>9, Ground DEF Dropped, After, Unlinked, OffWhileMoving, Moving
<1>10. ASSUME NEW j \in Jobs, Created(j), SameVictims PROVE OffWhileMoving'
  BY <1>0, <1>10, Ground DEF Created, After, OffWhileMoving, Moving
<1>11. ASSUME NEW j \in Jobs, Copied(j), SameVictims PROVE OffWhileMoving'
  BY <1>0, <1>11, Ground DEF Copied, After, OffWhileMoving, Moving
<1>12. ASSUME NEW j \in Jobs, Pointed(j), SameVictims PROVE OffWhileMoving'
  BY <1>0, <1>12, Ground DEF Pointed, After, OffWhileMoving, Moving
<1>13. ASSUME NEW j \in Jobs, Reverted(j), SameVictims PROVE OffWhileMoving'
  BY <1>0, <1>13, Ground DEF Reverted, After, Unlinked, OffWhileMoving, Moving
<1>14. ASSUME NEW j \in Jobs, Cleaned(j), SameVictims PROVE OffWhileMoving'
  BY <1>0, <1>14, Ground DEF Cleaned, After, Unlinked, OffWhileMoving, Moving
<1>15. ASSUME NEW j \in Jobs, PassedOver(j), SameVictims PROVE OffWhileMoving'
  BY <1>0, <1>15, Ground DEF PassedOver, After, OffWhileMoving, Moving
<1>16. ASSUME NEW r \in Requests, Looked(r) PROVE OffWhileMoving'
  BY <1>0, <1>16, Ground DEF Looked, OffWhileMoving, Moving
<1>17. ASSUME NEW r \in Requests, Deleted(r), SameVictims PROVE OffWhileMoving'
  BY <1>0, <1>17, Ground DEF Deleted, Unlinked, OffWhileMoving, Moving
<1>18. QED
  BY <1>1, <1>2, <1>3, <1>4, <1>5, <1>6, <1>7, <1>8, <1>9, <1>10, <1>11, <1>12, <1>13, <1>14,
     <1>15, <1>16, <1>17 DEF Kind, MoveKind

\* A started machine keeps its sources open.
LEMMA OpenStaysSource ==
    ASSUME TypeOK, SourceThere', ListsFit, OffWhileMoving, OpenIsSource, Kind
    PROVE  OpenIsSource'
<1>0. MoveTypeOK
  BY DEF TypeOK
<1>1. CASE JobsLeave /\ SameVictims
  BY <1>0, <1>1, Ground DEF JobsLeave, OpenIsSource
<1>2. ASSUME NEW v \in VMs, Started(v), SameVictims PROVE OpenIsSource'
  BY <1>0, <1>2, Ground DEF Started, Powered, OpenIsSource, DisksOf
<1>3. ASSUME NEW v \in VMs, Stopped(v), SameVictims PROVE OpenIsSource'
  BY <1>0, <1>3, Ground DEF Stopped, Powered, OpenIsSource, DisksOf, Live
<1>4. ASSUME NEW v \in VMs, Suspended(v), SameVictims PROVE OpenIsSource'
  BY <1>0, <1>4, Ground DEF Suspended, Powered, OpenIsSource
<1>5. ASSUME NEW d \in Disks, Written(d), SameVictims PROVE OpenIsSource'
  BY <1>0, <1>5, Ground DEF Written, OpenIsSource
<1>6. ASSUME NEW j \in Jobs, Prepared(j), SameVictims PROVE OpenIsSource'
  BY <1>0, <1>6, Ground DEF Prepared, After, OpenIsSource
<1>7. ASSUME NEW j \in Jobs, Chosen(j), SameVictims PROVE OpenIsSource'
  BY <1>0, <1>7, Ground DEF Chosen, After, OpenIsSource
<1>8. ASSUME NEW j \in Jobs, GivenUp(j), SameVictims PROVE OpenIsSource'
  BY <1>0, <1>8, Ground DEF GivenUp, After, OpenIsSource
<1>9. ASSUME NEW j \in Jobs, Dropped(j), SameVictims PROVE OpenIsSource'
  BY <1>0, <1>9, Ground DEF Dropped, After, Unlinked, OpenIsSource, SourceThere
<1>10. ASSUME NEW j \in Jobs, Created(j), SameVictims PROVE OpenIsSource'
  BY <1>0, <1>10, Ground DEF Created, After, OpenIsSource
<1>11. ASSUME NEW j \in Jobs, Copied(j), SameVictims PROVE OpenIsSource'
  BY <1>0, <1>11, Ground DEF Copied, After, OpenIsSource
<1>12. ASSUME NEW j \in Jobs, Pointed(j), SameVictims PROVE OpenIsSource'
  BY <1>0, <1>12, Ground DEF Pointed, After, OpenIsSource, ListsFit, OffWhileMoving, Busy, Moving, Live
<1>13. ASSUME NEW j \in Jobs, Reverted(j), SameVictims PROVE OpenIsSource'
  BY <1>0, <1>13, Ground DEF Reverted, After, Unlinked, OpenIsSource, SourceThere, ListsFit,
     OffWhileMoving, Busy, Moving, Live
<1>14. ASSUME NEW j \in Jobs, Cleaned(j), SameVictims PROVE OpenIsSource'
  BY <1>0, <1>14, Ground DEF Cleaned, After, Unlinked, OpenIsSource, SourceThere
<1>15. ASSUME NEW j \in Jobs, PassedOver(j), SameVictims PROVE OpenIsSource'
  BY <1>0, <1>15, Ground DEF PassedOver, After, OpenIsSource
<1>16. ASSUME NEW r \in Requests, Looked(r) PROVE OpenIsSource'
  BY <1>0, <1>16, Ground DEF Looked, OpenIsSource
<1>17. ASSUME NEW r \in Requests, Deleted(r), SameVictims PROVE OpenIsSource'
  BY <1>0, <1>17, Ground DEF Deleted, Unlinked, OpenIsSource, SourceThere
<1>18. QED
  BY <1>1, <1>2, <1>3, <1>4, <1>5, <1>6, <1>7, <1>8, <1>9, <1>10, <1>11, <1>12, <1>13, <1>14,
     <1>15, <1>16, <1>17 DEF Kind, MoveKind

\* The sources stay complete and current.
LEMMA DataStays ==
    ASSUME TypeOK, SourceThere, SourceThere', ListsFit, OpenIsSource, OriginalsFull, DataThere,
       Kind
    PROVE  DataThere'
<1>0. MoveTypeOK
  BY DEF TypeOK
<1>1. CASE JobsLeave /\ SameVictims
  BY <1>0, <1>1, Ground DEF JobsLeave, DataThere, SourceThere, Full
<1>2. ASSUME NEW v \in VMs, Started(v), SameVictims PROVE DataThere'
  BY <1>0, <1>2, Ground DEF Started, Powered, DataThere, SourceThere, Full
<1>3. ASSUME NEW v \in VMs, Stopped(v), SameVictims PROVE DataThere'
  BY <1>0, <1>3, Ground DEF Stopped, Powered, DataThere, SourceThere, Full
<1>4. ASSUME NEW v \in VMs, Suspended(v), SameVictims PROVE DataThere'
  BY <1>0, <1>4, Ground DEF Suspended, Powered, DataThere, SourceThere, Full
<1>5. ASSUME NEW d \in Disks, Written(d), SameVictims PROVE DataThere'
  BY <1>0, <1>5, Ground DEF Written, DataThere, SourceThere, Full, OpenIsSource, Live
<1>6. ASSUME NEW j \in Jobs, Prepared(j), SameVictims PROVE DataThere'
  BY <1>0, <1>6, Ground DEF Prepared, After, DataThere, SourceThere, Full
<1>7. ASSUME NEW j \in Jobs, Chosen(j), SameVictims PROVE DataThere'
  BY <1>0, <1>7, Ground DEF Chosen, After, DataThere, SourceThere, Full
<1>8. ASSUME NEW j \in Jobs, GivenUp(j), SameVictims PROVE DataThere'
  BY <1>0, <1>8, Ground DEF GivenUp, After, DataThere, SourceThere, Full
<1>9. ASSUME NEW j \in Jobs, Dropped(j), SameVictims PROVE DataThere'
  BY <1>0, <1>9, Ground DEF Dropped, After, Unlinked, DataThere, SourceThere, Full
<1>10. ASSUME NEW j \in Jobs, Created(j), SameVictims PROVE DataThere'
  BY <1>0, <1>10, Ground DEF Created, After, DataThere, SourceThere, Full
<1>11. ASSUME NEW j \in Jobs, Copied(j), SameVictims PROVE DataThere'
  BY <1>0, <1>11, Ground DEF Copied, After, DataThere, SourceThere, Full
<1>12. ASSUME NEW j \in Jobs, Pointed(j), SameVictims PROVE DataThere'
  BY <1>0, <1>12, Ground DEF Pointed, After, DataThere, SourceThere, Full, OriginalsFull,
     ListsFit, Busy, Moving
<1>13. ASSUME NEW j \in Jobs, Reverted(j), SameVictims PROVE DataThere'
  <2> SUFFICES ASSUME NEW e \in Disks, VmOf[e] \in Sound'
               PROVE  files'[src'[e]].whole /\ files'[src'[e]].cur
    BY DEF DataThere, Full
  <2> DEFINE m == First(job[j].done)
  <2>1. VmOf[e] \in Sound /\ VmOf[e] \in Fine' /\ src'[e] \in DOMAIN files'
    BY <1>0, Ground DEF SourceThere
  <2>2. files'[src'[e]] = files[src'[e]]
    BY <1>13, <2>1 DEF Reverted, Unlinked
  <2>3. CASE src'[e] = src[e]
    BY <2>1, <2>2, <2>3 DEF DataThere, Full
  <2>4. CASE src'[e] # src[e]
    <3>1. Busy(j) /\ Moving(j) /\ m \in job[j].done /\ e = m.disk /\ src'[e] = m.from
      BY <1>13, <2>4 DEF Reverted, Busy, Moving
    <3>2. job[j].vm = VmOf[e]
      BY <3>1 DEF ListsFit
    <3>3. QED
      BY <2>1, <2>2, <3>1, <3>2 DEF OriginalsFull, Full
  <2>5. QED
    BY <2>3, <2>4
<1>14. ASSUME NEW j \in Jobs, Cleaned(j), SameVictims PROVE DataThere'
  BY <1>0, <1>14, Ground DEF Cleaned, After, Unlinked, DataThere, SourceThere, Full
<1>15. ASSUME NEW j \in Jobs, PassedOver(j), SameVictims PROVE DataThere'
  BY <1>0, <1>15, Ground DEF PassedOver, After, DataThere, SourceThere, Full
<1>16. ASSUME NEW r \in Requests, Looked(r) PROVE DataThere'
  BY <1>0, <1>16, Ground DEF Looked, DataThere, SourceThere, Full
<1>17. ASSUME NEW r \in Requests, Deleted(r), SameVictims PROVE DataThere'
  BY <1>0, <1>17, Ground DEF Deleted, Unlinked, DataThere, SourceThere, Full
<1>18. QED
  BY <1>1, <1>2, <1>3, <1>4, <1>5, <1>6, <1>7, <1>8, <1>9, <1>10, <1>11, <1>12, <1>13, <1>14,
     <1>15, <1>16, <1>17 DEF Kind, MoveKind

\* What a move may go back to stays complete and current.
LEMMA OriginalsStayFull ==
    ASSUME TypeOK, SourceThere, ListsFit, TodoFits, DoneFits, DoneFits', CopyFits, CopyFits',
       OffWhileMoving, DataThere, OriginalsFull, Kind
    PROVE  OriginalsFull'
<1>0. MoveTypeOK
  BY DEF TypeOK
<1>1. CASE JobsLeave /\ SameVictims
  BY <1>0, <1>1, Ground DEF JobsLeave, OriginalsFull, Full, DoneFits, CopyFits, Busy, Moving
<1>2. ASSUME NEW v \in VMs, Started(v), SameVictims PROVE OriginalsFull'
  BY <1>0, <1>2, Ground DEF Started, Powered, OriginalsFull, Full, DoneFits, CopyFits, Busy,
     Moving
<1>3. ASSUME NEW v \in VMs, Stopped(v), SameVictims PROVE OriginalsFull'
  BY <1>0, <1>3, Ground DEF Stopped, Powered, OriginalsFull, Full, DoneFits, CopyFits, Busy,
     Moving
<1>4. ASSUME NEW v \in VMs, Suspended(v), SameVictims PROVE OriginalsFull'
  BY <1>0, <1>4, Ground DEF Suspended, Powered, OriginalsFull, Full, DoneFits, CopyFits, Busy,
     Moving
<1>5. ASSUME NEW d \in Disks, Written(d), SameVictims PROVE OriginalsFull'
  BY <1>0, <1>5, Ground, Parts DEF Written, OriginalsFull, Full, DoneFits, CopyFits, Busy, Moving,
     ListsFit, OffWhileMoving
<1>6. ASSUME NEW j \in Jobs, Prepared(j), SameVictims PROVE OriginalsFull'
  BY <1>0, <1>6, Ground DEF Prepared, After, OriginalsFull, Full, DoneFits, CopyFits, Busy, Moving
<1>7. ASSUME NEW j \in Jobs, Chosen(j), SameVictims PROVE OriginalsFull'
  BY <1>0, <1>7, Ground DEF Chosen, After, OriginalsFull, Full, DoneFits, CopyFits, Busy, Moving
<1>8. ASSUME NEW j \in Jobs, GivenUp(j), SameVictims PROVE OriginalsFull'
  BY <1>0, <1>8, Ground DEF GivenUp, After, OriginalsFull, Full, DoneFits, CopyFits, Busy, Moving
<1>9. ASSUME NEW j \in Jobs, Dropped(j), SameVictims PROVE OriginalsFull'
  BY <1>0, <1>9, Ground DEF Dropped, After, Unlinked, OriginalsFull, Full, DoneFits, CopyFits,
     Busy, Moving
<1>10. ASSUME NEW j \in Jobs, Created(j), SameVictims PROVE OriginalsFull'
  <2> SUFFICES ASSUME NEW k \in Jobs, Moving(k)', job'[k].vm \in Sound'
               PROVE  /\ \A n \in job'[k].done : files'[n.from].whole /\ files'[n.from].cur
                      /\ job'[k].at = "copy" => files'[job'[k].to].cur
                      /\ job'[k].at = "repoint" => files'[job'[k].to].whole /\ files'[job'[k].to].cur
    BY DEF OriginalsFull, Full
  <2>1. /\ Moving(k) /\ job'[k].vm = job[k].vm /\ job'[k].done = job[k].done /\ job'[k].to = job[k].to
        /\ job[k].vm \in Sound /\ job[k].vm \in Fine
    BY <1>0, <1>10, Ground DEF Created, After, Moving
  <2>2. \A n \in job[k].done : files'[n.from].whole /\ files'[n.from].cur
    <3>1. \A n \in job[k].done : files[n.from].whole /\ files[n.from].cur /\ n.from \in DOMAIN files
      BY <2>1 DEF OriginalsFull, DoneFits, Full, Busy
    <3>2. QED
      BY <1>10, <3>1 DEF Created
  <2>3. CASE k # j
    <3>1. job'[k].at = job[k].at
      BY <1>10, <2>3 DEF Created, After
    <3>2. job[k].at \in {"copy", "repoint"} => job[k].to \in DOMAIN files
      BY <2>1 DEF CopyFits
    <3>3. QED
      BY <1>10, <2>1, <2>2, <3>1, <3>2 DEF Created, OriginalsFull, Full
  <2>4. CASE k = j
    <3> DEFINE m == First(job[j].todo)
    <3>1. m \in job[j].todo /\ m.disk \in Disks /\ VmOf[m.disk] = job[j].vm /\ m.from = src[m.disk]
      BY <1>0, <1>10, <2>1, <2>4, Parts DEF Created, ListsFit, TodoFits, Busy, Moving
    <3>2. files[m.from].whole /\ files[m.from].cur
      BY <2>1, <2>4, <3>1 DEF DataThere, Full
    <3>3. QED
      BY <1>10, <2>1, <2>2, <2>4, <3>2 DEF Created, After
  <2>5. QED
    BY <2>3, <2>4
<1>11. ASSUME NEW j \in Jobs, Copied(j), SameVictims PROVE OriginalsFull'
  BY <1>0, <1>11, Ground DEF Copied, After, OriginalsFull, Full, DoneFits, CopyFits, Busy, Moving
<1>12. ASSUME NEW j \in Jobs, Pointed(j), SameVictims PROVE OriginalsFull'
  BY <1>0, <1>12, Ground, Parts DEF Pointed, After, OriginalsFull, Full, DoneFits, CopyFits, Busy,
     Moving, SourceThere, TodoFits, DataThere, ListsFit
<1>13. ASSUME NEW j \in Jobs, Reverted(j), SameVictims PROVE OriginalsFull'
  <2> SUFFICES ASSUME NEW k \in Jobs, Moving(k)', job'[k].vm \in Sound'
               PROVE  /\ \A n \in job'[k].done : files'[n.from].whole /\ files'[n.from].cur
                      /\ job'[k].at = "copy" => files'[job'[k].to].cur
                      /\ job'[k].at = "repoint" => files'[job'[k].to].whole /\ files'[job'[k].to].cur
    BY DEF OriginalsFull, Full
  <2>1. /\ Moving(k) /\ job'[k].vm = job[k].vm /\ job'[k].done \subseteq job[k].done
        /\ job'[k].to = job[k].to /\ job'[k].at = job[k].at
        /\ job[k].vm \in Sound /\ job'[k].vm \in Fine'
    BY <1>0, <1>13, Ground DEF Reverted, After, Moving
  <2>2. \A n \in job'[k].done : n.from \in DOMAIN files'
    BY <2>1 DEF DoneFits, Busy
  <2>3. job'[k].at \in {"copy", "repoint"} => job'[k].to \in DOMAIN files'
    BY <2>1 DEF CopyFits
  <2>4. \A x \in DOMAIN files' : files'[x] = files[x]
    BY <1>13 DEF Reverted, Unlinked
  <2>5. QED
    BY <2>1, <2>2, <2>3, <2>4 DEF OriginalsFull, Full
<1>14. ASSUME NEW j \in Jobs, Cleaned(j), SameVictims PROVE OriginalsFull'
  BY <1>0, <1>14, Ground DEF Cleaned, After, Unlinked, OriginalsFull, Full, DoneFits, CopyFits,
     Busy, Moving
<1>15. ASSUME NEW j \in Jobs, PassedOver(j), SameVictims PROVE OriginalsFull'
  BY <1>0, <1>15, Ground DEF PassedOver, After, OriginalsFull, Full, DoneFits, CopyFits, Busy,
     Moving
<1>16. ASSUME NEW r \in Requests, Looked(r) PROVE OriginalsFull'
  BY <1>0, <1>16, Ground DEF Looked, OriginalsFull, Full, DoneFits, CopyFits, Busy, Moving
<1>17. ASSUME NEW r \in Requests, Deleted(r), SameVictims PROVE OriginalsFull'
  BY <1>0, <1>17, Ground DEF Deleted, Unlinked, OriginalsFull, Full, DoneFits, CopyFits, Busy,
     Moving
<1>18. QED
  BY <1>1, <1>2, <1>3, <1>4, <1>5, <1>6, <1>7, <1>8, <1>9, <1>10, <1>11, <1>12, <1>13, <1>14,
     <1>15, <1>16, <1>17 DEF Kind, MoveKind

-----------------------------------------------------------------------------
(* All together.                                                             *)

DisksInv ==
    /\ SourceThere /\ OneMove /\ ListsFit /\ TodoFits /\ DoneFits /\ OriginalsApart
    /\ CopyFits /\ MadeByMover /\ VictimsFit
DataInv == OffWhileMoving /\ OpenIsSource /\ DataThere /\ OriginalsFull
MachinesInv == TypeOK /\ FilesFinite /\ TablesAgree /\ OutcomeFiled /\ DisksInv /\ DataInv

\* At first every machine is off, its disks are in files of their own, and nobody
\* moves or sweeps anything.
LEMMA InitMachines == Init => MachinesInv
<1> SUFFICES ASSUME Init PROVE MachinesInv
  OBVIOUS
<1>1. PICK b \in Budgets : /\ MoveInit(b.jobs, b.starts)
                           /\ req = [r \in Requests |-> NoVm(IF r \in b.requests THEN "new" ELSE "ended")]
  BY DEF Init
<1>2. b.starts \in Nat
  BY BudgetsAssumption
<1>3. /\ dom = [v \in VMs |-> "off"] /\ transient = {} /\ src = Home
      /\ live = [d \in Disks |-> Nil] /\ hold = [d \in Disks |-> Nil]
      /\ starts = b.starts /\ cause = {}
      /\ status = [j \in Jobs |-> "none"]
  BY <1>1 DEF MoveInit
<1>4. \A at \in {"new", "ended"} : NoMove(at) \in MoveType /\ NoMove(at).at = at
  BY DEF NoMove, Move, MoveType
<1>5. job \in [Jobs -> MoveType] /\ \A j \in Jobs : job[j].at \in {"new", "ended"}
  BY <1>1, <1>4 DEF MoveInit
<1>6. DOMAIN files = {Home[d] : d \in Disks}
  BY <1>1 DEF MoveInit
<1>7. \A d \in Disks : /\ Home[d] \in DOMAIN files /\ files[Home[d]].of = d /\ files[Home[d]].by = Nil
                       /\ files[Home[d]].whole /\ files[Home[d]].cur /\ files[Home[d]] \in File
  <2> SUFFICES ASSUME NEW d \in Disks
               PROVE  /\ Home[d] \in DOMAIN files /\ files[Home[d]].of = d /\ files[Home[d]].by = Nil
                      /\ files[Home[d]].whole /\ files[Home[d]].cur /\ files[Home[d]] \in File
    OBVIOUS
  <2>1. (CHOOSE e \in Disks : Home[e] = Home[d]) = d
    BY DisksAssumption
  <2>2. files[Home[d]] = [of |-> d, by |-> Nil, whole |-> TRUE, cur |-> TRUE]
    BY <1>1, <2>1 DEF MoveInit
  <2>3. QED
    BY <1>6, <2>2 DEF File
<1>8. \A p \in DOMAIN files : p \in Path /\ files[p] \in File /\ files[p].by = Nil
  BY <1>6, <1>7, DisksAssumption
<1>9. MoveTypeOK
  <2>1. src \in [Disks -> Path] /\ live \in [Disks -> Path \cup {Nil}] /\ hold \in [Disks -> Path \cup {Nil}]
    BY <1>3, DisksAssumption
  <2>2. \A j \in Jobs : InHand(j)
    BY <1>5 DEF InHand, Busy, Moving
  <2>3. QED
    BY <1>2, <1>3, <1>5, <1>8, <2>1, <2>2 DEF MoveTypeOK
<1>10. /\ req \in [Requests -> RequestType]
       /\ \A r \in Requests : req[r].at \in {"new", "ended"}
  BY <1>1 DEF NoVm, Request, RequestType
<1>11. TypeOK /\ TablesAgree
  BY <1>9, <1>10 DEF Init, TypeOK, TablesAgree
<1>12. FilesFinite
  <2> DEFINE f == [d \in Disks |-> Home[d]]
  <2>1. f \in Surjection(Disks, DOMAIN files)
    BY <1>6 DEF Surjection
  <2> HIDE DEF f
  <2>2. QED
    BY <2>1, DisksAssumption, FS_Surjection DEF FilesFinite
<1>13. DisksInv
  <2>1. SourceThere
    BY <1>3, <1>7 DEF SourceThere
  <2>2. MadeByMover
    BY <1>8, NilAssumption DEF MadeByMover
  <2>3. VictimsFit
    BY <1>10 DEF VictimsFit, Sweeping
  <2>4. OneMove /\ ListsFit /\ TodoFits /\ DoneFits /\ OriginalsApart /\ CopyFits
    BY <1>5 DEF OneMove, ListsFit, TodoFits, DoneFits, OriginalsApart, CopyFits, Busy, Moving
  <2>5. QED
    BY <2>1, <2>2, <2>3, <2>4 DEF DisksInv
<1>14. DataInv
  <2>1. \A d \in Disks : dom[VmOf[d]] = "off"
    BY <1>3, DisksAssumption
  <2>2. QED
    BY <1>3, <1>5, <1>7, <2>1 DEF DataInv, Live, OffWhileMoving, OpenIsSource, DataThere, OriginalsFull, Full, Moving
<1>15. OutcomeFiled
  BY <1>3 DEF OutcomeFiled
<1>16. QED
  BY <1>11, <1>12, <1>13, <1>14, <1>15 DEF MachinesInv

\* Every part is kept.
LEMMA StepMachines == MachinesInv /\ [Next]_vars => MachinesInv'
<1> SUFFICES ASSUME MachinesInv, [Next]_vars PROVE MachinesInv'
  OBVIOUS
<1>1. TypeOK /\ FilesFinite /\ TablesAgree /\ OutcomeFiled /\ DisksInv /\ DataInv
  BY DEF MachinesInv
<1>2. TypeOK' /\ TablesAgree' /\ FilesFinite'
  BY <1>1, StepTyped
<1>3. Kind
  BY <1>1, StepKinds DEF TypeOK
<1>4. SourceThere'
  BY <1>1, <1>3, SourcesStay DEF DisksInv
<1>5. OneMove' /\ ListsFit' /\ TodoFits' /\ OriginalsApart' /\ CopyFits' /\ MadeByMover' /\ VictimsFit'
  BY <1>1, <1>3, OneMoveStays, ListsStayFit, TodoStaysFit, OriginalsStayApart, CopyStaysFit,
     MakersStay, VictimsStayFit DEF DisksInv
<1>6. DoneFits'
  BY <1>1, <1>3, <1>4, DoneStaysFit DEF DisksInv
<1>7. OffWhileMoving' /\ OpenIsSource' /\ DataThere'
  BY <1>1, <1>3, <1>4, OffStays, OpenStaysSource, DataStays DEF DisksInv, DataInv
<1>8. OriginalsFull'
  BY <1>1, <1>3, <1>5, <1>6, OriginalsStayFull DEF DisksInv, DataInv
<1>9. OutcomeFiled'
  BY <1>1, OutcomesStay
<1>10. QED
  BY <1>2, <1>4, <1>5, <1>6, <1>7, <1>8, <1>9 DEF MachinesInv, DisksInv, DataInv

\* The inductive invariant holds in every state.
THEOREM MachinesInvariant == Spec => []MachinesInv
<1>1. QED
  BY InitMachines, StepMachines, PTL DEF Spec

\* Every part keeps its type: a job that copies has a name for its copy, a job
\* that moves has something to move, and a machine has only files open that
\* exist (libvirt/storage_move.go: MoveDomainStorage).
THEOREM MachinesTyped == Spec => []TypeOK
<1>1. MachinesInv => TypeOK
  BY DEF MachinesInv
<1>2. QED
  BY <1>1, MachinesInvariant, PTL

\* The comment of libvirt/storage_move.go: after a failure at any step the
\* machine points at files that exist, whatever moves, sweeps, starts, crashes
\* and deletions interleave, but for the machines whose cause is named.
THEOREM DisksThere == Spec => []DiskThere
<1>1. MachinesInv => DiskThere
  BY DEF MachinesInv, DisksInv, SourceThere, DiskThere, Fine, DisksOf
<1>2. QED
  BY <1>1, MachinesInvariant, PTL

\* The file is that disk, complete, with every write of the guest, unless
\* moreover the machine had a QEMU in the middle of its move
\* (libvirt/storage_move.go: MoveDomainStorage).
THEOREM DataIsKept == Spec => []DataKept
<1>1. MachinesInv => DataKept
  <2> SUFFICES ASSUME MachinesInv, NEW v \in VMs, v \in Sound, NEW d \in DisksOf(v)
               PROVE  /\ src[d] \in DOMAIN files /\ files[src[d]].of = d
                      /\ files[src[d]].whole /\ files[src[d]].cur
    BY DEF DataKept, Sound
  <2>1. v \in Fine
    BY DEF Fine, Sound, Spared, Causes
  <2>2. QED
    BY <2>1 DEF MachinesInv, DisksInv, DataInv, SourceThere, DataThere, Full, DisksOf
<1>2. QED
  BY <1>1, MachinesInvariant, PTL

\* Once the requests have returned and none failed to save, the cron's entries
\* are the schedules, nothing that was taken out still acts, and the file is the
\* table unless it could not be read at the start, for any interleaving of
\* edits, deletions, firings and restarts (vmsched.go: Load, Rebuild;
\* api/vmsched.go: SetVMSchedule).
THEOREM SchedulesObeyed == Spec => []ScheduleObeyed
<1>1. MachinesInv => ScheduleObeyed
  BY DEF MachinesInv, TablesAgree, ScheduleObeyed, Settled
<1>2. QED
  BY <1>1, MachinesInvariant, PTL

\* A job shows as running only while its goroutine is at work or after a panic,
\* and with an outcome only after its end, on every path of the move, through
\* panics and restarts (api/jobs.go: submitJob; libvirt/storage_move.go).
THEOREM OutcomesFiled == Spec => []OutcomeFiled
<1>1. MachinesInv => OutcomeFiled
  BY DEF MachinesInv
<1>2. QED
  BY <1>1, MachinesInvariant, PTL
=============================================================================
