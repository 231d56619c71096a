-------------------------- MODULE History_proofs --------------------------
(* Proofs about History, for every window, bound of the memory, lag of the   *)
(* samples and number of failures and crashes: the type invariant,           *)
(* MarkedIsWritten, WrittenOnce and WindowServed.                            *)
(*                                                                           *)
(* None of them is inductive.  Whether a mark passes a bucket that was never *)
(* written depends on what its call collected long before, while samples and *)
(* the other flusher went on; whether a batch was written already depends on *)
(* how far that flusher is.                                                  *)
EXTENDS History, FiniteSetTheorems, TLAPS

USE FlushersAssumption, SizesAssumption

-----------------------------------------------------------------------------
(* The inductive invariant.                                                  *)

\* Nothing is ahead of the clock, and what has left the memory is behind it.
Past ==
    /\ since <= now /\ watermark < now
    /\ \A k \in mem \cup taken : k <= now
    /\ \A f \in Flushers : \A k \in flush[f].batch : k < now
    /\ \A k \in Keys : copies[k] > 0 => k < now

\* A line that parses was appended, and so was one that a rewrite will keep.
LinesCounted ==
    /\ \A k \in Lines(file) \cap Keys : copies[k] > 0
    /\ \A f \in Flushers : \A k \in flush[f].kept : copies[k] > 0

\* A batch has a bucket to be appended or to be marked, and one that is about
\* to be marked was appended.
BatchFits ==
    \A f \in Flushers :
        /\ flush[f].at \in {"append", "mark"} => flush[f].batch # {}
        /\ flush[f].at = "mark" => \A k \in flush[f].batch : copies[k] > 0
        /\ flush[f].at \in {"idle", "trim", "rewrite", "done"} => flush[f].batch = {}

\* A batch skips no bucket that its mark will pass.
BatchCovers ==
    \A f \in Flushers : \A b \in flush[f].batch : \A k \in mem \ late :
        k <= b => k \in flush[f].batch \/ k <= watermark

\* What both flushers carry is known to be written again.
SharedIsAgain ==
    \A f, g \in Flushers : f # g => flush[f].batch \cap flush[g].batch \subseteq again

\* What waits to be appended was not appended.
BatchIsNew ==
    \A f \in Flushers : flush[f].at = "append" =>
        \A k \in flush[f].batch \ again : copies[k] = 0

\* A bucket that can still be collected was not appended, unless its mark is
\* about to pass it.
AppendedIsMarked ==
    life # "down" => \A k \in Keys :
        k > watermark /\ copies[k] > 0 /\ (k \in mem \/ k >= since)
            => k \in again \/ \E f \in Flushers : flush[f].at = "mark" /\ k \in flush[f].batch

\* A daemon that is down has nothing in memory.
DownIsEmpty ==
    life = "down" => /\ mem = {} /\ taken = {} /\ watermark = 0
                     /\ flush = [f \in Flushers |-> Idle]

-----------------------------------------------------------------------------
(* What the operators of the model return.                                   *)

\* A set of numbers that is not empty has a least one.
LEMMA MinExists ==
    ASSUME NEW S \in SUBSET Nat, S # {} PROVE \E x \in S : \A y \in S : x <= y
<1>1. PICK x \in S : \A y \in S : ~(<<y, x>> \in OpToRel(<, Nat))
  BY NatLessThanWellFounded, WFMin
<1>2. \A y \in S : ~(y < x)
  BY <1>1 DEF OpToRel
<1>3. QED
  BY <1>2

\* Min is the least number of its set.
LEMMA MinIsLeast ==
    ASSUME NEW S \in SUBSET Nat, S # {} PROVE Min(S) \in S /\ \A y \in S : Min(S) <= y
BY MinExists DEF Min

\* Max is the greatest number of a set that has a bound.
LEMMA MaxIsGreatest ==
    ASSUME NEW n \in Nat, NEW S \in SUBSET (0 .. n), S # {}
    PROVE  Max(S) \in S /\ \A y \in S : y <= Max(S)
<1> DEFINE T == {n - x : x \in S}
<1>1. T \in SUBSET Nat /\ T # {}
  <2>1. \A x \in S : n - x \in Nat
    OBVIOUS
  <2>2. PICK x \in S : TRUE
    OBVIOUS
  <2>3. n - x \in T
    OBVIOUS
  <2>4. QED
    BY <2>1, <2>3
<1>2. PICK t \in T : \A y \in T : t <= y
  <2> HIDE DEF T
  <2> QED BY <1>1, MinExists
<1>3. PICK x \in S : t = n - x
  OBVIOUS
<1>4. \A y \in S : y <= x
  <2> SUFFICES ASSUME NEW y \in S PROVE y <= x
    OBVIOUS
  <2>1. n - y \in T
    OBVIOUS
  <2>2. n - x <= n - y
    BY <1>2, <1>3, <2>1
  <2>3. QED
    BY <2>2
<1>5. QED
  BY <1>4 DEF Max

\* A query's window has at most Retention keys.
LEMMA WindowSize ==
    ASSUME now \in Keys
    PROVE  IsFiniteSet(Window) /\ Cardinality(Window) <= Retention
<1> DEFINE I == now - Retention + 1 .. now
<1>1. IsFiniteSet(I) /\ Cardinality(I) = Retention
  <2>1. now \in Int /\ now - Retention + 1 \in Int /\ now - Retention + 1 <= now
    BY DEF Keys
  <2>2. now - (now - Retention + 1) + 1 = Retention
    BY <2>1
  <2>3. QED BY <2>1, <2>2, FS_Interval
<1>2. Window \subseteq I
  BY DEF Window, Keys
<1>3. QED
  <2> HIDE DEF I
  <2>1. QED BY <1>1, <1>2, FS_Subset

\* What an append leaves in the file is a file, and its lines that parse were
\* there before or are of the batch.
LEMMA AppendFits ==
    ASSUME NEW f \in FileType, NEW whole \in SUBSET Keys, NEW cut \in BOOLEAN, whole # {} \/ cut
    PROVE  /\ AppendLines(f, whole, cut) \in FileType
           /\ Lines(AppendLines(f, whole, cut)) \cap Keys \subseteq Lines(f) \cup whole
<1> DEFINE last == IF cut THEN Garbled ELSE Max(whole)
<1>1. ~cut => Max(whole) \in whole
  <2>1. whole \in SUBSET (0 .. MaxTime)
    BY DEF Keys
  <2>2. QED
    BY <2>1, MaxIsGreatest
<1>2. last \in Keys \cup {Garbled} /\ (last \in whole \/ last = Garbled)
  BY <1>1
<1> HIDE DEF last
<1>3. /\ f.ended \subseteq Keys \cup {Garbled} /\ f.open \in Keys \cup {Garbled, NoLine}
  BY DEF FileType
<1>4. Garbled \notin Keys
  BY DEF Keys, Garbled
<1>5. \/ AppendLines(f, whole, cut) = [ended |-> f.ended \cup (whole \ {last}), open |-> last]
      \/ AppendLines(f, whole, cut) = [ended |-> f.ended, open |-> Garbled]
      \/ AppendLines(f, whole, cut) =
            [ended |-> f.ended \cup {Garbled} \cup (whole \ {Min(whole), last}), open |-> last]
  BY DEF AppendLines, last
<1>6. QED
  BY <1>2, <1>3, <1>4, <1>5 DEF FileType, Lines

\* The parts of a Flush call.
LEMMA CallParts ==
    ASSUME NEW c \in CallType
    PROVE  /\ c.batch \in SUBSET Keys /\ c.kept \in SUBSET Keys /\ c.last \in BOOLEAN
           /\ c.at \in {"idle", "append", "mark", "trim", "rewrite", "done"}
BY DEF CallType

\* A Flush call is put together from its parts.
LEMMA CallTyped ==
    ASSUME NEW a \in {"idle", "append", "mark", "trim", "rewrite", "done"},
           NEW b \in SUBSET Keys, NEW k \in SUBSET Keys, NEW l \in BOOLEAN
    PROVE  /\ Call(a, b, k, l) \in CallType
           /\ Call(a, b, k, l).at = a /\ Call(a, b, k, l).batch = b
           /\ Call(a, b, k, l).kept = k /\ Call(a, b, k, l).last = l
BY DEF Call, CallType

\* Counting copies touches the appended buckets only.
LEMMA CountedIs ==
    ASSUME copies \in [Keys -> 0 .. 2], NEW S, NEW excused
    PROVE  /\ Counted(S, excused) \in [Keys -> 0 .. 2]
           /\ \A k \in Keys :
                /\ k \notin S => Counted(S, excused)[k] = copies[k]
                /\ k \in S => Counted(S, excused)[k] > 0
                /\ copies[k] = 0 => Counted(S, excused)[k] <= 1
<1>1. \A k \in Keys : Counted(S, excused)[k] =
        IF k \notin S THEN copies[k] ELSE IF k \in excused \/ copies[k] = 0 THEN 1 ELSE 2
  BY DEF Counted
<1>2. Counted(S, excused) = [k \in Keys |-> Counted(S, excused)[k]]
  BY DEF Counted
<1>3. \A k \in Keys : copies[k] \in 0 .. 2
  OBVIOUS
<1>4. \A k \in Keys : Counted(S, excused)[k] \in 0 .. 2
  BY <1>1, <1>3
<1>5. QED
  BY <1>1, <1>2, <1>3, <1>4

\* Keys are numbers below the bound of time.
LEMMA KeysSmall ==
    ASSUME NEW S \in SUBSET Keys
    PROVE  S \in SUBSET (0 .. MaxTime) /\ S \in SUBSET Nat
BY DEF Keys

\* Sets of keys are finite.
LEMMA KeysFinite == ASSUME NEW S \in SUBSET Keys PROVE IsFiniteSet(S)
<1>1. IsFiniteSet(1 .. MaxTime)
  BY FS_Interval
<1>2. QED
  BY <1>1, FS_Subset DEF Keys

\* bucketAt adds k, and drops at most the oldest bucket, when the window has
\* room for fewer than there are.
LEMMA BucketAtIs ==
    ASSUME TypeOK, NEW k \in Keys, \A x \in mem : x <= now
    PROVE  /\ k \in BucketAt(k) /\ BucketAt(k) \subseteq mem \cup {k}
           /\ Cardinality(BucketAt(k)) <= MaxBuckets
           /\ mem \cap Window \subseteq BucketAt(k)
<1>1. mem \in SUBSET Keys /\ Cardinality(mem) <= MaxBuckets /\ now \in Keys
  BY DEF TypeOK
<1>2. IsFiniteSet(mem) /\ Cardinality(mem) \in Nat
  BY <1>1, KeysFinite, FS_CardinalityType
<1>3. CASE k \in mem
  BY <1>1, <1>3 DEF BucketAt
<1>4. CASE k \notin mem /\ Cardinality(mem) < MaxBuckets
  <2>1. BucketAt(k) = mem \cup {k}
    BY <1>2, <1>4 DEF BucketAt
  <2>2. Cardinality(mem \cup {k}) = Cardinality(mem) + 1
    BY <1>2, <1>4, FS_AddElement
  <2>3. QED
    BY <1>2, <1>4, <2>1, <2>2
<1>5. CASE k \notin mem /\ Cardinality(mem) >= MaxBuckets
  <2> DEFINE m == Min(mem)
  <2>1. mem # {}
    BY <1>5, FS_EmptySet
  <2>2. m \in mem /\ \A x \in mem : m <= x
    BY <1>1, <2>1, KeysSmall, MinIsLeast
  <2>3. m \notin Window
    <3> SUFFICES ASSUME m \in Window PROVE FALSE
      OBVIOUS
    <3>1. mem \subseteq Window
      BY <1>1, <2>2 DEF Window, Keys
    <3>2. Cardinality(mem) <= Retention
      BY <1>1, <1>2, <3>1, WindowSize, FS_Subset, FS_CardinalityType
    <3>3. QED
      BY <1>2, <1>5, <3>2
  <2>4. BucketAt(k) = (mem \ {m}) \cup {k}
    BY <1>5 DEF BucketAt
  <2>5. IsFiniteSet(mem \ {m}) /\ Cardinality(mem \ {m}) = Cardinality(mem) - 1
    BY <1>2, <2>2, FS_RemoveElement
  <2>6. Cardinality((mem \ {m}) \cup {k}) = Cardinality(mem)
    <3>1. k \notin mem \ {m}
      BY <1>5
    <3>2. Cardinality((mem \ {m}) \cup {k}) = Cardinality(mem \ {m}) + 1
      BY <2>5, <3>1, FS_AddElement
    <3>3. QED
      BY <1>2, <2>5, <3>2
  <2>7. QED
    BY <1>1, <2>3, <2>4, <2>6
<1>6. QED
  BY <1>1, <1>2, <1>3, <1>4, <1>5

\* Load sets the watermark to the last bucket read.
LEMMA LoadIs ==
    ASSUME TypeOK
    PROVE  /\ Loaded \in SUBSET Keys /\ Cardinality(Loaded) <= MaxBuckets
           /\ \A k \in Loaded : k <= now /\ k <= Max({0} \cup Loaded)
           /\ Max({0} \cup Loaded) \in Loaded \cup {0}
<1>1. Loaded \in SUBSET Keys /\ Loaded \subseteq Window /\ \A k \in Loaded : k <= now
  BY DEF Loaded, Window
<1>2. Cardinality(Loaded) <= MaxBuckets
  <2>1. now \in Keys
    BY DEF TypeOK
  <2>2. /\ Cardinality(Loaded) <= Cardinality(Window) /\ Cardinality(Window) <= Retention
        /\ Cardinality(Loaded) \in Nat /\ Cardinality(Window) \in Nat
    BY <1>1, <2>1, WindowSize, FS_Subset, FS_CardinalityType
  <2>3. QED
    BY <2>2
<1>3. {0} \cup Loaded \in SUBSET (0 .. MaxTime)
  BY <1>1, KeysSmall
<1>4. QED
  BY <1>1, <1>2, <1>3, MaxIsGreatest

\* Fewer buckets are within the bound.
LEMMA CapBounded ==
    ASSUME NEW S \in SUBSET Keys, Cardinality(S) <= MaxBuckets, NEW T
    PROVE  S \cap T \in SUBSET Keys /\ Cardinality(S \cap T) <= MaxBuckets
<1>1. IsFiniteSet(S) /\ S \cap T \in SUBSET S
  BY KeysFinite
<1>2. /\ Cardinality(S \cap T) <= Cardinality(S)
      /\ Cardinality(S) \in Nat /\ Cardinality(S \cap T) \in Nat
  BY <1>1, FS_Subset, FS_CardinalityType
<1>3. QED
  BY <1>2

-----------------------------------------------------------------------------
(* What the steps of a Flush do.                                             *)

\* Idle and Done are calls that carry nothing.
LEMMA AtRest ==
    /\ Idle \in CallType /\ Idle.batch = {} /\ Idle.kept = {} /\ Idle.at = "idle"
    /\ Done \in CallType /\ Done.batch = {} /\ Done.kept = {} /\ Done.at = "done"
BY DEF Idle, Done, Call, CallType

\* The call of f is now at this point with this batch; the other is unchanged.
Moves(f, at, batch, kept) ==
    /\ flush' \in [Flushers -> CallType]
    /\ \A g \in Flushers \ {f} : flush'[g] = flush[g]
    /\ flush'[f].at = at /\ flush'[f].batch = batch /\ flush'[f].kept = kept

\* It has returned.
Rests(f) == Moves(f, "idle", {}, {}) \/ Moves(f, "done", {}, {})

\* A step of a Flush call moves that call and no other.
LEMMA GoesIs ==
    ASSUME TypeOK, NEW f \in Flushers,
           NEW a \in {"idle", "append", "mark", "trim", "rewrite", "done"},
           NEW b \in SUBSET Keys, NEW k \in SUBSET Keys, NEW l \in BOOLEAN,
           Goes(f, Call(a, b, k, l))
    PROVE  Moves(f, a, b, k)
BY CallTyped DEF TypeOK, Goes, Moves

\* A call that returns leaves its flusher at rest.
LEMMA ReturnsIs == ASSUME TypeOK, NEW f \in Flushers, Returns(f) PROVE Rests(f)
BY AtRest DEF TypeOK, Returns, Goes, Rests, Moves

\* Every Flush collects the completed buckets above the watermark.
LEMMA CollectIs ==
    ASSUME TypeOK, NEW f \in Flushers, NEW last \in BOOLEAN, Collect(f, last)
    PROVE  /\ Moves(f, IF Pending = {} THEN "trim" ELSE "append", Pending, {})
           /\ flush[f].at = "idle" /\ life # "down"
           /\ mem' = mem \cap Window /\ late' = late \cap Window /\ taken' = taken \cap Window
           /\ again \subseteq again'
           /\ \A g \in Flushers \ {f} : Pending \cap flush[g].batch \subseteq again'
           /\ UNCHANGED <<now, since, life, watermark, file, copies>>
<1>1. Pending \in SUBSET Keys /\ {} \in SUBSET Keys
  BY DEF Pending, TypeOK
<1>2. Moves(f, IF Pending = {} THEN "trim" ELSE "append", Pending, {})
  BY <1>1, GoesIs DEF Collect
<1>3. QED
  BY <1>2 DEF Collect

\* What AppendBatch does to the file and the copies.
LEMMA AppendBatchIs ==
    ASSUME TypeOK, BatchFits, NEW f \in Flushers, AppendBatch(f)
    PROVE  /\ file' \in FileType
           /\ Lines(file') \cap Keys \subseteq Lines(file) \cup flush[f].batch
           /\ copies' \in [Keys -> 0 .. 2]
           /\ \A k \in Keys : IF k \in flush[f].batch
                              THEN copies'[k] > 0 /\ (copies[k] = 0 => copies'[k] <= 1)
                              ELSE copies'[k] = copies[k]
           /\ Moves(f, "mark", flush[f].batch, {})
           /\ flush[f].at = "append" /\ flush[f].batch # {}
           /\ UNCHANGED <<now, since, life, mem, watermark, fails, crashes, taken, late, again,
                          marked>>
<1>1. flush[f] \in CallType /\ file \in FileType /\ flush[f].at = "append"
  BY DEF TypeOK, AppendBatch
<1>2. /\ flush[f].batch \in SUBSET Keys /\ flush[f].batch # {} /\ {} \in SUBSET Keys
      /\ flush[f].last \in BOOLEAN
  BY <1>1, CallParts DEF BatchFits
<1>3. file' = AppendLines(file, flush[f].batch, FALSE)
  BY DEF AppendBatch
<1>4. /\ AppendLines(file, flush[f].batch, FALSE) \in FileType
      /\ Lines(AppendLines(file, flush[f].batch, FALSE)) \cap Keys
           \subseteq Lines(file) \cup flush[f].batch
  BY <1>1, <1>2, AppendFits
<1>5. Moves(f, "mark", flush[f].batch, {})
  BY <1>2, GoesIs DEF AppendBatch
<1>6. copies' = Counted(flush[f].batch, again) /\ copies \in [Keys -> 0 .. 2]
  BY DEF AppendBatch, TypeOK
<1>7. /\ copies' \in [Keys -> 0 .. 2]
      /\ \A k \in Keys : IF k \in flush[f].batch
                         THEN copies'[k] > 0 /\ (copies[k] = 0 => copies'[k] <= 1)
                         ELSE copies'[k] = copies[k]
  BY <1>6, CountedIs
<1>8. QED
  BY <1>1, <1>2, <1>3, <1>4, <1>5, <1>7 DEF AppendBatch, store, counters

\* What AppendFails does to them: only copies of the whole objects are counted.
LEMMA AppendFailsIs ==
    ASSUME TypeOK, BatchFits, NEW f \in Flushers, NEW whole \in SUBSET flush[f].batch,
           AppendFails(f, whole)
    PROVE  /\ file' \in FileType
           /\ \A k \in Lines(file') \cap Keys : k \in Lines(file) \/ copies'[k] > 0
           /\ copies' \in [Keys -> 0 .. 2]
           /\ \A k \in Keys : \/ copies'[k] = copies[k]
                              \/ k \in flush[f].batch /\ copies'[k] > 0
           /\ Rests(f) /\ flush[f].at = "append"
           /\ again' = again \cup flush[f].batch /\ fails' \in 0 .. MaxFails
           /\ UNCHANGED <<now, since, life, mem, watermark, crashes, taken, late, marked>>
<1>1. flush[f] \in CallType /\ file \in FileType /\ flush[f].at = "append"
  BY DEF TypeOK, AppendFails
<1>2. flush[f].batch \in SUBSET Keys /\ flush[f].batch # {} /\ whole \in SUBSET Keys
  BY <1>1, CallParts DEF BatchFits
<1>3. /\ AppendLines(file, whole, whole # flush[f].batch) \in FileType
      /\ Lines(AppendLines(file, whole, whole # flush[f].batch)) \cap Keys
           \subseteq Lines(file) \cup whole
  <2>1. (whole # flush[f].batch) \in BOOLEAN /\ (whole # {} \/ whole # flush[f].batch)
    BY <1>2
  <2>2. QED
    BY <1>1, <1>2, <2>1, AppendFits
<1>4. copies \in [Keys -> 0 .. 2]
  BY DEF TypeOK
<1>5. /\ file' \in FileType
      /\ \A k \in Lines(file') \cap Keys : k \in Lines(file) \/ copies'[k] > 0
      /\ copies' \in [Keys -> 0 .. 2]
      /\ \A k \in Keys : copies'[k] = copies[k] \/ (k \in flush[f].batch /\ copies'[k] > 0)
  <2>1. CASE UNCHANGED <<file, copies>>
    BY <1>1, <1>4, <2>1
  <2>2. CASE /\ file' = AppendLines(file, whole, whole # flush[f].batch)
             /\ copies' = Counted(whole, again')
    BY <1>3, <1>4, <2>2, CountedIs
  <2>3. QED
    BY <2>1, <2>2 DEF AppendFails
<1>6. fails' \in 0 .. MaxFails
  BY DEF AppendFails, Fail, TypeOK
<1>7. Rests(f)
  BY ReturnsIs DEF AppendFails
<1>8. QED
  BY <1>1, <1>5, <1>6, <1>7 DEF AppendFails, store

\* Mark raises the watermark to the last bucket of the batch.
LEMMA MarkIs ==
    ASSUME TypeOK, BatchFits, NEW f \in Flushers, Mark(f)
    PROVE  /\ watermark' \in {watermark} \cup flush[f].batch /\ watermark' \in 0 .. MaxTime
           /\ watermark <= watermark' /\ \A b \in flush[f].batch : b <= watermark'
           /\ Moves(f, "trim", {}, {}) /\ flush[f].at = "mark"
           /\ UNCHANGED <<now, since, life, mem, file, taken, late, copies, again>>
<1>1. flush[f].batch \in SUBSET Keys /\ flush[f].last \in BOOLEAN /\ {} \in SUBSET Keys
  BY CallParts DEF TypeOK
<1>2. {watermark} \cup flush[f].batch \in SUBSET (0 .. MaxTime)
  BY <1>1, KeysSmall DEF TypeOK
<1>3. watermark' = Max({watermark} \cup flush[f].batch)
  BY DEF Mark
<1>4. /\ watermark' \in {watermark} \cup flush[f].batch
      /\ \A b \in {watermark} \cup flush[f].batch : b <= watermark'
  BY <1>2, <1>3, MaxIsGreatest
<1>5. Moves(f, "trim", {}, {})
  BY <1>1, GoesIs DEF Mark
<1>6. QED
  BY <1>2, <1>4, <1>5 DEF Mark, counters

\* trimLines keeps lines of the file.
LEMMA TrimIs ==
    ASSUME TypeOK, NEW f \in Flushers, Trim(f)
    PROVE  /\ Moves(f, "rewrite", {}, Trimmed) /\ Trimmed \subseteq Lines(file) \cap Keys
           /\ flush[f].at = "trim"
           /\ UNCHANGED <<now, since, life, mem, watermark, file, taken, late, copies, again>>
<1>1. Trimmed \in SUBSET Keys /\ flush[f].last \in BOOLEAN /\ {} \in SUBSET Keys
  BY CallParts DEF TypeOK, Trimmed
<1>2. Moves(f, "rewrite", {}, Trimmed)
  BY <1>1, GoesIs DEF Trim
<1>3. QED
  BY <1>1, <1>2 DEF Trim, Trimmed, store, seen

\* The other ends of a Flush: no directory, nothing to trim, or the rewrite.
Ends(f) ==
    \/ \E last \in BOOLEAN : CollectFails(f, last)
    \/ TrimNothing(f)
    \/ \E ok \in BOOLEAN : Rewrite(f, ok)

\* A call that ends this way leaves memory and counts alone, and the file as it
\* was or with the lines it kept.
LEMMA EndsIs ==
    ASSUME TypeOK, NEW f \in Flushers, Ends(f)
    PROVE  /\ Rests(f) /\ flush[f].at \in {"idle", "trim", "rewrite"}
           /\ file' = file \/ file' = [ended |-> flush[f].kept, open |-> NoLine]
           /\ file' \in FileType /\ fails' \in 0 .. MaxFails
           /\ UNCHANGED <<now, since, life, mem, watermark, crashes, taken, late, copies, again,
                          marked>>
<1>1. ASSUME NEW last \in BOOLEAN, CollectFails(f, last)
      PROVE  /\ Rests(f) /\ flush[f].at = "idle" /\ file' = file
             /\ fails' \in 0 .. MaxFails
             /\ UNCHANGED <<now, since, life, mem, watermark, crashes, taken, late, copies, again,
                            marked>>
  <2>1. Rests(f)
    BY <1>1, AtRest DEF CollectFails, Goes, Rests, Moves, TypeOK
  <2>2. fails' \in 0 .. MaxFails
    BY <1>1 DEF CollectFails, Fail, TypeOK
  <2>3. QED
    BY <1>1, <2>1, <2>2 DEF CollectFails, store, seen
<1>2. ASSUME TrimNothing(f)
      PROVE  /\ Rests(f) /\ flush[f].at = "trim" /\ file' = file
             /\ fails' \in 0 .. MaxFails
             /\ UNCHANGED <<now, since, life, mem, watermark, crashes, taken, late, copies, again,
                            marked>>
  <2>1. fails' \in 0 .. MaxFails
    BY <1>2 DEF TrimNothing, Fail, TypeOK
  <2>2. QED
    BY <1>2, <2>1, ReturnsIs DEF TrimNothing, store, seen
<1>3. ASSUME NEW ok \in BOOLEAN, Rewrite(f, ok)
      PROVE  /\ Rests(f) /\ flush[f].at = "rewrite"
             /\ file' = file \/ file' = [ended |-> flush[f].kept, open |-> NoLine]
             /\ fails' \in 0 .. MaxFails
             /\ UNCHANGED <<now, since, life, mem, watermark, crashes, taken, late, copies, again,
                            marked>>
  <2>1. fails' \in 0 .. MaxFails
    BY <1>3 DEF Rewrite, Fail, TypeOK
  <2>2. QED
    BY <1>3, <2>1, ReturnsIs DEF Rewrite, store, seen
<1>4. file \in FileType /\ [ended |-> flush[f].kept, open |-> NoLine] \in FileType
  BY CallParts DEF TypeOK, FileType
<1>5. QED
  BY <1>1, <1>2, <1>3, <1>4 DEF Ends

-----------------------------------------------------------------------------
(* Each part is kept by every step.                                          *)

\* TypeOK is kept: what a batch or a rewrite holds are keys, and bucketAt and
\* Load stay within MaxBuckets.
LEMMA StepTyped == TypeOK /\ Past /\ BatchFits /\ [Next]_vars => TypeOK'
<1> SUFFICES ASSUME TypeOK, Past, BatchFits, [Next]_vars PROVE TypeOK'
  OBVIOUS
<1>1. CASE Tick
  <2>1. now' \in Keys
    BY <1>1 DEF Tick, TypeOK, Keys
  <2>2. QED
    BY <1>1, <2>1 DEF Tick, store, counters, seen, TypeOK
<1>2. ASSUME NEW k \in Keys, Record(k) PROVE TypeOK'
  <2>1. \A x \in mem : x <= now
    BY DEF Past
  <2>2. BucketAt(k) \subseteq mem \cup {k} /\ Cardinality(BucketAt(k)) <= MaxBuckets
    BY <2>1, BucketAtIs
  <2>3. mem' \in SUBSET Keys /\ Cardinality(mem') <= MaxBuckets
    BY <1>2, <2>2 DEF Record, TypeOK
  <2>4. QED
    BY <1>2, <2>3 DEF Record, counters, TypeOK
<1>3. ASSUME NEW f \in Flushers, NEW last \in BOOLEAN, Collect(f, last) PROVE TypeOK'
  <2>1. Pending \in SUBSET Keys
    BY DEF Pending, TypeOK
  <2>2. flush' \in [Flushers -> CallType]
    BY <1>3, CollectIs DEF Moves
  <2>3. mem' \in SUBSET Keys /\ Cardinality(mem') <= MaxBuckets
    BY <1>3, CapBounded DEF Collect, TypeOK
  <2>4. again' \subseteq Keys
    BY <1>3, <2>1 DEF Collect, TypeOK
  <2>5. QED
    BY <1>3, <2>2, <2>3, <2>4 DEF Collect, counters, TypeOK
<1>4. ASSUME NEW f \in Flushers, AppendBatch(f) PROVE TypeOK'
  BY <1>4, AppendBatchIs DEF TypeOK, Moves
<1>5. ASSUME NEW f \in Flushers, NEW whole \in SUBSET flush[f].batch, AppendFails(f, whole)
     PROVE  TypeOK'
  <2>1. flush' \in [Flushers -> CallType] /\ flush[f].batch \subseteq Keys
    BY <1>5, AppendFailsIs, CallParts DEF Rests, Moves, TypeOK
  <2>2. QED
    BY <1>5, <2>1, AppendFailsIs DEF TypeOK
<1>6. ASSUME NEW f \in Flushers, Mark(f) PROVE TypeOK'
  <2>1. flush[f].batch \in SUBSET Keys
    BY CallParts DEF TypeOK
  <2>2. watermark' \in 0 .. MaxTime /\ flush' \in [Flushers -> CallType]
    BY <1>6, MarkIs DEF Moves
  <2>3. QED
    BY <1>6, <2>1, <2>2 DEF Mark, counters, TypeOK
<1>7. ASSUME NEW f \in Flushers, Trim(f) PROVE TypeOK'
  <2>1. flush' \in [Flushers -> CallType]
    BY <1>7, TrimIs DEF Moves
  <2>2. QED
    BY <1>7, <2>1 DEF Trim, store, counters, seen, TypeOK
<1>8. ASSUME NEW f \in Flushers, Ends(f) PROVE TypeOK'
  BY <1>8, EndsIs DEF TypeOK, Moves, Rests
<1>9. CASE Stop
  BY <1>9 DEF Stop, store, counters, seen, TypeOK
<1>10. CASE Down
  <2>1. flush' \in [Flushers -> CallType]
    BY <1>10, AtRest DEF Down
  <2>2. Cardinality({}) <= MaxBuckets
    BY FS_EmptySet
  <2>3. QED
    BY <1>10, <2>1, <2>2 DEF Down, TypeOK
<1>11. CASE Load
  <2>1. mem' \in SUBSET Keys /\ Cardinality(mem') <= MaxBuckets /\ watermark' \in 0 .. MaxTime
    BY <1>11, LoadIs, KeysSmall DEF Load
  <2>2. QED
    BY <1>11, <2>1 DEF Load, counters, seen, TypeOK
<1>12. ASSUME NEW read \in SUBSET Loaded, LoadFails(read) PROVE TypeOK'
  <2>1. Loaded \cap read = read
    OBVIOUS
  <2>2. mem' \in SUBSET Keys /\ Cardinality(mem') <= MaxBuckets
    BY <1>12, <2>1, LoadIs, CapBounded DEF LoadFails
  <2>3. fails' \in 0 .. MaxFails
    BY <1>12 DEF LoadFails, Fail, TypeOK
  <2>4. QED
    BY <1>12, <2>2, <2>3 DEF LoadFails, TypeOK
<1>13. CASE UNCHANGED vars
  BY <1>13 DEF vars, store, counters, seen, TypeOK
<1>14. QED
  BY <1>1, <1>2, <1>3, <1>4, <1>5, <1>6, <1>7, <1>8, <1>9, <1>10, <1>11, <1>12, <1>13 DEF
    Next, FlushStep, Ends

\* What was read is behind the clock.
LEMMA LoadedPast ==
    ASSUME TypeOK, Past, LinesCounted PROVE Max({0} \cup Loaded) < now
<1>1. Loaded \subseteq Lines(file) \cap Keys
  BY DEF Loaded, Window
<1>2. \A k \in Loaded : k < now
  BY <1>1 DEF LinesCounted, Past
<1>3. 0 < now
  BY DEF TypeOK, Keys
<1>4. QED
  BY <1>2, <1>3, LoadIs

\* Nothing gets ahead of the clock: only the buckets before the current one are
\* collected, and Load's watermark is that of a line, which was collected once.
LEMMA StepPast == TypeOK /\ Past /\ BatchFits /\ LinesCounted /\ [Next]_vars => Past'
<1> SUFFICES ASSUME TypeOK, Past, BatchFits, LinesCounted, [Next]_vars PROVE Past'
  OBVIOUS
<1>1. CASE Tick
  <2>1. /\ now \in Int /\ now' = now + 1 /\ since \in Int /\ watermark \in Int
        /\ mem \cup taken \subseteq Int /\ Keys \subseteq Int
    BY <1>1 DEF Tick, TypeOK, Keys
  <2>2. \A g \in Flushers : flush[g].batch \subseteq Int
    BY CallParts DEF TypeOK, Keys
  <2>3. \A x \in Int : (x <= now => x <= now') /\ (x < now => x < now')
    BY <2>1
  <2>4. UNCHANGED <<since, watermark, mem, taken, flush, copies>>
    BY <1>1 DEF Tick, store, seen
  <2>5. QED
    BY <2>1, <2>2, <2>3, <2>4 DEF Past
<1>2. ASSUME NEW k \in Keys, Record(k) PROVE Past'
  <2>1. mem' \subseteq mem \cup {k}
    BY <1>2, BucketAtIs DEF Record, Past
  <2>2. k <= now
    BY <1>2 DEF Record, TypeOK, Keys
  <2>3. QED
    BY <1>2, <2>1, <2>2 DEF Record, Past
<1>3. ASSUME NEW f \in Flushers, NEW last \in BOOLEAN, Collect(f, last) PROVE Past'
  BY <1>3, CollectIs DEF Past, Moves, Pending
<1>4. ASSUME NEW f \in Flushers, AppendBatch(f) PROVE Past'
  BY <1>4, AppendBatchIs DEF Past, Moves
<1>5. ASSUME NEW f \in Flushers, NEW whole \in SUBSET flush[f].batch, AppendFails(f, whole)
     PROVE  Past'
  BY <1>5, AppendFailsIs DEF Past, Moves, Rests
<1>6. ASSUME NEW f \in Flushers, Mark(f) PROVE Past'
  <2>1. watermark' < now
    BY <1>6, MarkIs DEF Past
  <2>2. QED
    BY <1>6, <2>1, MarkIs DEF Past, Moves
<1>7. ASSUME NEW f \in Flushers, Trim(f) PROVE Past'
  BY <1>7, TrimIs DEF Past, Moves
<1>8. ASSUME NEW f \in Flushers, Ends(f) PROVE Past'
  BY <1>8, EndsIs DEF Past, Moves, Rests
<1>9. CASE Stop
  BY <1>9 DEF Stop, store, seen, Past
<1>10. CASE Down
  <2>1. 0 < now
    BY DEF TypeOK, Keys
  <2>2. QED
    BY <1>10, <2>1, AtRest DEF Down, Past
<1>11. CASE Load
  <2>1. \A k \in mem' : k <= now
    BY <1>11, LoadIs DEF Load
  <2>2. watermark' < now
    BY <1>11, LoadedPast DEF Load
  <2>3. now <= now
    BY DEF TypeOK, Keys
  <2>4. QED
    BY <1>11, <2>1, <2>2, <2>3 DEF Load, seen, Past
<1>12. ASSUME NEW read \in SUBSET Loaded, LoadFails(read) PROVE Past'
  <2>1. \A k \in mem' : k <= now
    BY <1>12, LoadIs DEF LoadFails
  <2>2. now <= now
    BY DEF TypeOK, Keys
  <2>3. QED
    BY <1>12, <2>1, <2>2 DEF LoadFails, Past
<1>13. CASE UNCHANGED vars
  BY <1>13 DEF vars, store, counters, seen, Past
<1>14. QED
  BY <1>1, <1>2, <1>3, <1>4, <1>5, <1>6, <1>7, <1>8, <1>9, <1>10, <1>11, <1>12, <1>13 DEF
    Next, FlushStep, Ends

\* Only an append adds lines, and the other writer keeps lines of the file.
LEMMA StepLines == TypeOK /\ BatchFits /\ LinesCounted /\ [Next]_vars => LinesCounted'
<1> SUFFICES ASSUME TypeOK, BatchFits, LinesCounted, [Next]_vars PROVE LinesCounted'
  OBVIOUS
<1>0. \A g \in Flushers : flush[g].batch \subseteq Keys /\ flush[g].kept \subseteq Keys
  BY CallParts DEF TypeOK
<1>1. CASE Tick
  BY <1>1 DEF Tick, store, seen, LinesCounted
<1>2. ASSUME NEW k \in Keys, Record(k) PROVE LinesCounted'
  BY <1>2 DEF Record, LinesCounted
<1>3. ASSUME NEW f \in Flushers, NEW last \in BOOLEAN, Collect(f, last) PROVE LinesCounted'
  BY <1>3, CollectIs DEF LinesCounted, Moves
<1>4. ASSUME NEW f \in Flushers, AppendBatch(f) PROVE LinesCounted'
  BY <1>4, <1>0, AppendBatchIs DEF LinesCounted, Moves
<1>5. ASSUME NEW f \in Flushers, NEW whole \in SUBSET flush[f].batch, AppendFails(f, whole)
     PROVE  LinesCounted'
  BY <1>5, <1>0, AppendFailsIs DEF LinesCounted, Moves, Rests
<1>6. ASSUME NEW f \in Flushers, Mark(f) PROVE LinesCounted'
  BY <1>6, MarkIs DEF LinesCounted, Moves
<1>7. ASSUME NEW f \in Flushers, Trim(f) PROVE LinesCounted'
  BY <1>7, TrimIs DEF LinesCounted, Moves
<1>8. ASSUME NEW f \in Flushers, Ends(f) PROVE LinesCounted'
  <2>1. Lines(file') \cap Keys \subseteq Lines(file) \cup flush[f].kept
    BY <1>8, EndsIs DEF Lines
  <2>2. QED
    BY <1>8, <2>1, EndsIs DEF LinesCounted, Moves, Rests
<1>9. CASE Stop
  BY <1>9 DEF Stop, store, seen, LinesCounted
<1>10. CASE Down
  BY <1>10, AtRest DEF Down, LinesCounted
<1>11. CASE Load
  BY <1>11 DEF Load, seen, LinesCounted
<1>12. ASSUME NEW read \in SUBSET Loaded, LoadFails(read) PROVE LinesCounted'
  BY <1>12 DEF LoadFails, LinesCounted
<1>13. CASE UNCHANGED vars
  BY <1>13 DEF vars, store, counters, seen, LinesCounted
<1>14. QED
  BY <1>1, <1>2, <1>3, <1>4, <1>5, <1>6, <1>7, <1>8, <1>9, <1>10, <1>11, <1>12, <1>13 DEF
    Next, FlushStep, Ends

\* A call carries its batch from Collect to Mark and through an append.
LEMMA StepFits == TypeOK /\ BatchFits /\ [Next]_vars => BatchFits'
<1> SUFFICES ASSUME TypeOK, BatchFits, [Next]_vars PROVE BatchFits'
  OBVIOUS
<1>0. \A g \in Flushers : flush[g].batch \subseteq Keys /\ flush[g].kept \subseteq Keys
  BY CallParts DEF TypeOK
<1>1. CASE Tick
  BY <1>1 DEF Tick, store, seen, BatchFits
<1>2. ASSUME NEW k \in Keys, Record(k) PROVE BatchFits'
  BY <1>2 DEF Record, BatchFits
<1>3. ASSUME NEW f \in Flushers, NEW last \in BOOLEAN, Collect(f, last) PROVE BatchFits'
  BY <1>3, CollectIs DEF BatchFits, Moves
<1>4. ASSUME NEW f \in Flushers, AppendBatch(f) PROVE BatchFits'
  BY <1>4, <1>0, AppendBatchIs DEF BatchFits, Moves
<1>5. ASSUME NEW f \in Flushers, NEW whole \in SUBSET flush[f].batch, AppendFails(f, whole)
     PROVE  BatchFits'
  BY <1>5, <1>0, AppendFailsIs DEF BatchFits, Moves, Rests
<1>6. ASSUME NEW f \in Flushers, Mark(f) PROVE BatchFits'
  BY <1>6, MarkIs DEF BatchFits, Moves
<1>7. ASSUME NEW f \in Flushers, Trim(f) PROVE BatchFits'
  BY <1>7, TrimIs DEF BatchFits, Moves
<1>8. ASSUME NEW f \in Flushers, Ends(f) PROVE BatchFits'
  BY <1>8, EndsIs DEF BatchFits, Moves, Rests
<1>9. CASE Stop
  BY <1>9 DEF Stop, store, seen, BatchFits
<1>10. CASE Down
  BY <1>10, AtRest DEF Down, BatchFits
<1>11. CASE Load
  BY <1>11 DEF Load, seen, BatchFits
<1>12. ASSUME NEW read \in SUBSET Loaded, LoadFails(read) PROVE BatchFits'
  BY <1>12 DEF LoadFails, BatchFits
<1>13. CASE UNCHANGED vars
  BY <1>13 DEF vars, store, counters, seen, BatchFits
<1>14. QED
  BY <1>1, <1>2, <1>3, <1>4, <1>5, <1>6, <1>7, <1>8, <1>9, <1>10, <1>11, <1>12, <1>13 DEF
    Next, FlushStep, Ends

\* Collect takes every bucket between the watermark and the clock; a bucket that
\* appears later is the clock's own or late.
LEMMA StepCovers ==
    TypeOK /\ Past /\ BatchFits /\ DownIsEmpty /\ BatchCovers /\ [Next]_vars
        => BatchCovers'
<1> SUFFICES ASSUME TypeOK, Past, BatchFits, DownIsEmpty, BatchCovers, [Next]_vars
    PROVE  BatchCovers'
  OBVIOUS
<1>1. CASE Tick
  BY <1>1 DEF Tick, store, seen, BatchCovers
<1>2. ASSUME NEW k \in Keys, Record(k) PROVE BatchCovers'
  <2>1. mem' \subseteq mem \cup {k}
    BY <1>2, BucketAtIs DEF Record, Past
  <2>2. k \in mem \/ k \in late' \/ k = now
    BY <1>2 DEF Record, TypeOK, Keys
  <2>3. \A g \in Flushers : \A b \in flush[g].batch : ~(now <= b)
    BY CallParts DEF Past, TypeOK, Keys
  <2>4. late \subseteq late' /\ UNCHANGED <<flush, watermark>>
    BY <1>2 DEF Record
  <2>5. QED
    BY <2>1, <2>2, <2>3, <2>4 DEF BatchCovers
<1>3. ASSUME NEW f \in Flushers, NEW last \in BOOLEAN, Collect(f, last) PROVE BatchCovers'
  <2>1. \A b \in Pending, k \in mem : k <= b => k \in Pending \/ k <= watermark
    BY DEF Pending, TypeOK, Keys
  <2>2. QED
    BY <1>3, <2>1, CollectIs DEF BatchCovers, Moves
<1>4. ASSUME NEW f \in Flushers, AppendBatch(f) PROVE BatchCovers'
  BY <1>4, AppendBatchIs DEF BatchCovers, Moves
<1>5. ASSUME NEW f \in Flushers, NEW whole \in SUBSET flush[f].batch, AppendFails(f, whole)
     PROVE  BatchCovers'
  BY <1>5, AppendFailsIs DEF BatchCovers, Moves, Rests
<1>6. ASSUME NEW f \in Flushers, Mark(f) PROVE BatchCovers'
  <2>1. \A k \in mem : k <= watermark => k <= watermark'
    BY <1>6, MarkIs DEF TypeOK, Keys
  <2>2. QED
    BY <1>6, <2>1, MarkIs DEF BatchCovers, Moves
<1>7. ASSUME NEW f \in Flushers, Trim(f) PROVE BatchCovers'
  BY <1>7, TrimIs DEF BatchCovers, Moves
<1>8. ASSUME NEW f \in Flushers, Ends(f) PROVE BatchCovers'
  BY <1>8, EndsIs DEF BatchCovers, Moves, Rests
<1>9. CASE Stop
  BY <1>9 DEF Stop, store, seen, BatchCovers
<1>10. CASE Down
  BY <1>10, AtRest DEF Down, BatchCovers
<1>11. CASE Load
  BY <1>11, AtRest DEF Load, DownIsEmpty, BatchCovers
<1>12. ASSUME NEW read \in SUBSET Loaded, LoadFails(read) PROVE BatchCovers'
  BY <1>12, AtRest DEF LoadFails, DownIsEmpty, BatchCovers
<1>13. CASE UNCHANGED vars
  BY <1>13 DEF vars, store, counters, seen, BatchCovers
<1>14. QED
  BY <1>1, <1>2, <1>3, <1>4, <1>5, <1>6, <1>7, <1>8, <1>9, <1>10, <1>11, <1>12, <1>13 DEF
    Next, FlushStep, Ends

\* Collect is the only step that gives a call a batch.
LEMMA StepShared == TypeOK /\ BatchFits /\ SharedIsAgain /\ [Next]_vars => SharedIsAgain'
<1> SUFFICES ASSUME TypeOK, BatchFits, SharedIsAgain, [Next]_vars PROVE SharedIsAgain'
  OBVIOUS
<1>1. CASE Tick
  BY <1>1 DEF Tick, store, seen, SharedIsAgain
<1>2. ASSUME NEW k \in Keys, Record(k) PROVE SharedIsAgain'
  BY <1>2 DEF Record, SharedIsAgain
<1>3. ASSUME NEW f \in Flushers, NEW last \in BOOLEAN, Collect(f, last) PROVE SharedIsAgain'
  BY <1>3, CollectIs DEF SharedIsAgain, Moves
<1>4. ASSUME NEW f \in Flushers, AppendBatch(f) PROVE SharedIsAgain'
  BY <1>4, AppendBatchIs DEF SharedIsAgain, Moves
<1>5. ASSUME NEW f \in Flushers, NEW whole \in SUBSET flush[f].batch, AppendFails(f, whole)
     PROVE  SharedIsAgain'
  BY <1>5, AppendFailsIs DEF SharedIsAgain, Moves, Rests
<1>6. ASSUME NEW f \in Flushers, Mark(f) PROVE SharedIsAgain'
  BY <1>6, MarkIs DEF SharedIsAgain, Moves
<1>7. ASSUME NEW f \in Flushers, Trim(f) PROVE SharedIsAgain'
  BY <1>7, TrimIs DEF SharedIsAgain, Moves
<1>8. ASSUME NEW f \in Flushers, Ends(f) PROVE SharedIsAgain'
  BY <1>8, EndsIs DEF SharedIsAgain, Moves, Rests
<1>9. CASE Stop
  BY <1>9 DEF Stop, store, seen, SharedIsAgain
<1>10. CASE Down
  BY <1>10, AtRest DEF Down, SharedIsAgain
<1>11. CASE Load
  BY <1>11 DEF Load, seen, SharedIsAgain
<1>12. ASSUME NEW read \in SUBSET Loaded, LoadFails(read) PROVE SharedIsAgain'
  BY <1>12 DEF LoadFails, SharedIsAgain
<1>13. CASE UNCHANGED vars
  BY <1>13 DEF vars, store, counters, seen, SharedIsAgain
<1>14. QED
  BY <1>1, <1>2, <1>3, <1>4, <1>5, <1>6, <1>7, <1>8, <1>9, <1>10, <1>11, <1>12, <1>13 DEF
    Next, FlushStep, Ends

\* What Collect takes is above the watermark, so if it was appended then the
\* other flusher has it and has not marked it yet.
LEMMA StepNew ==
    TypeOK /\ BatchFits /\ SharedIsAgain /\ AppendedIsMarked /\ DownIsEmpty /\ BatchIsNew
        /\ [Next]_vars
        => BatchIsNew'
<1> SUFFICES ASSUME TypeOK, BatchFits, SharedIsAgain, AppendedIsMarked, DownIsEmpty,
                BatchIsNew, [Next]_vars
    PROVE  BatchIsNew'
  OBVIOUS
<1>0. \A g \in Flushers : flush[g].batch \subseteq Keys /\ flush[g].kept \subseteq Keys
  BY CallParts DEF TypeOK
<1>1. CASE Tick
  BY <1>1 DEF Tick, store, seen, BatchIsNew
<1>2. ASSUME NEW k \in Keys, Record(k) PROVE BatchIsNew'
  BY <1>2 DEF Record, BatchIsNew
<1>3. ASSUME NEW f \in Flushers, NEW last \in BOOLEAN, Collect(f, last) PROVE BatchIsNew'
  <2>1. life # "down" /\ flush[f].at = "idle" /\ again \subseteq again'
        /\ UNCHANGED copies
        /\ \A g \in Flushers \ {f} : Pending \cap flush[g].batch \subseteq again'
    BY <1>3, CollectIs
  <2>2. \A k \in Pending : k \in Keys /\ k \in mem /\ k > watermark /\ copies[k] \in 0 .. 2
    BY DEF Pending, TypeOK
  <2>3. \A k \in Pending : copies[k] > 0 => k \in again \/ \E g \in Flushers :
                              flush[g].at = "mark" /\ k \in flush[g].batch
    BY <2>1, <2>2 DEF AppendedIsMarked
  <2>4. \A k \in Pending \ again' : ~(copies[k] > 0)
    BY <2>1, <2>3
  <2>5. \A k \in Pending \ again' : copies[k] = 0
    BY <2>2, <2>4
  <2>6. QED
    BY <1>3, <2>5, CollectIs DEF BatchIsNew, Moves
<1>4. ASSUME NEW f \in Flushers, AppendBatch(f) PROVE BatchIsNew'
  BY <1>4, <1>0, AppendBatchIs DEF BatchIsNew, SharedIsAgain, Moves
<1>5. ASSUME NEW f \in Flushers, NEW whole \in SUBSET flush[f].batch, AppendFails(f, whole)
     PROVE  BatchIsNew'
  BY <1>5, <1>0, AppendFailsIs DEF BatchIsNew, SharedIsAgain, Moves, Rests
<1>6. ASSUME NEW f \in Flushers, Mark(f) PROVE BatchIsNew'
  BY <1>6, MarkIs DEF BatchIsNew, Moves
<1>7. ASSUME NEW f \in Flushers, Trim(f) PROVE BatchIsNew'
  BY <1>7, TrimIs DEF BatchIsNew, Moves
<1>8. ASSUME NEW f \in Flushers, Ends(f) PROVE BatchIsNew'
  BY <1>8, EndsIs DEF BatchIsNew, Moves, Rests
<1>9. CASE Stop
  BY <1>9 DEF Stop, store, seen, BatchIsNew
<1>10. CASE Down
  BY <1>10, AtRest DEF Down, BatchIsNew
<1>11. CASE Load
  BY <1>11, AtRest DEF Load, seen, DownIsEmpty, BatchIsNew
<1>12. ASSUME NEW read \in SUBSET Loaded, LoadFails(read) PROVE BatchIsNew'
  BY <1>12, AtRest DEF LoadFails, DownIsEmpty, BatchIsNew
<1>13. CASE UNCHANGED vars
  BY <1>13 DEF vars, store, counters, seen, BatchIsNew
<1>14. QED
  BY <1>1, <1>2, <1>3, <1>4, <1>5, <1>6, <1>7, <1>8, <1>9, <1>10, <1>11, <1>12, <1>13 DEF
    Next, FlushStep, Ends

\* An appended bucket stays with its call until the mark passes it; after a
\* restart what is not read back is older than the daemon's start.
LEMMA StepAppended ==
    TypeOK /\ Past /\ BatchFits /\ DownIsEmpty /\ AppendedIsMarked /\ [Next]_vars
        => AppendedIsMarked'
<1> SUFFICES ASSUME TypeOK, Past, BatchFits, DownIsEmpty, AppendedIsMarked, [Next]_vars
    PROVE  AppendedIsMarked'
  OBVIOUS
<1>1. CASE Tick
  BY <1>1 DEF Tick, store, seen, AppendedIsMarked
<1>2. ASSUME NEW k \in Keys, Record(k) PROVE AppendedIsMarked'
  <2>1. mem' \subseteq mem \cup {k} /\ k >= since
    BY <1>2, BucketAtIs DEF Record, Past
  <2>2. QED
    BY <1>2, <2>1 DEF Record, AppendedIsMarked
<1>3. ASSUME NEW f \in Flushers, NEW last \in BOOLEAN, Collect(f, last)
     PROVE  AppendedIsMarked'
  BY <1>3, CollectIs DEF AppendedIsMarked, Moves
<1>4. ASSUME NEW f \in Flushers, AppendBatch(f) PROVE AppendedIsMarked'
  BY <1>4, AppendBatchIs DEF AppendedIsMarked, Moves
<1>5. ASSUME NEW f \in Flushers, NEW whole \in SUBSET flush[f].batch, AppendFails(f, whole)
     PROVE  AppendedIsMarked'
  BY <1>5, AppendFailsIs DEF AppendedIsMarked, Moves, Rests
<1>6. ASSUME NEW f \in Flushers, Mark(f) PROVE AppendedIsMarked'
  <2>1. \A k \in Keys : k > watermark' => k > watermark /\ k \notin flush[f].batch
    BY <1>6, MarkIs, CallParts DEF TypeOK, Keys
  <2>2. QED
    BY <1>6, <2>1, MarkIs DEF AppendedIsMarked, Moves
<1>7. ASSUME NEW f \in Flushers, Trim(f) PROVE AppendedIsMarked'
  BY <1>7, TrimIs DEF AppendedIsMarked, Moves
<1>8. ASSUME NEW f \in Flushers, Ends(f) PROVE AppendedIsMarked'
  BY <1>8, EndsIs DEF AppendedIsMarked, Moves, Rests
<1>9. CASE Stop
  BY <1>9 DEF Stop, store, seen, AppendedIsMarked
<1>10. CASE Down
  BY <1>10 DEF Down, AppendedIsMarked
<1>11. CASE Load
  <2>1. \A k \in mem' : ~(k > watermark')
    BY <1>11, LoadIs, KeysSmall DEF Load
  <2>2. \A k \in Keys : copies[k] > 0 => ~(k >= since')
    BY <1>11 DEF Load, Past, TypeOK, Keys
  <2>3. copies' = copies
    BY <1>11 DEF Load, seen
  <2>4. QED
    BY <2>1, <2>2, <2>3 DEF AppendedIsMarked
<1>12. ASSUME NEW read \in SUBSET Loaded, LoadFails(read) PROVE AppendedIsMarked'
  <2>1. \A k \in Keys : copies[k] > 0 => ~(k >= since')
    BY <1>12 DEF LoadFails, Past, TypeOK, Keys
  <2>2. QED
    BY <1>12, <2>1 DEF LoadFails, AppendedIsMarked
<1>13. CASE UNCHANGED vars
  BY <1>13 DEF vars, store, counters, seen, AppendedIsMarked
<1>14. QED
  BY <1>1, <1>2, <1>3, <1>4, <1>5, <1>6, <1>7, <1>8, <1>9, <1>10, <1>11, <1>12, <1>13 DEF
    Next, FlushStep, Ends

\* Down drops the memory and the calls, and only Load ends it.
LEMMA StepDown == TypeOK /\ BatchFits /\ DownIsEmpty /\ [Next]_vars => DownIsEmpty'
<1> SUFFICES ASSUME TypeOK, BatchFits, DownIsEmpty, [Next]_vars PROVE DownIsEmpty'
  OBVIOUS
<1>1. CASE Tick
  BY <1>1 DEF Tick, store, seen, DownIsEmpty
<1>2. ASSUME NEW k \in Keys, Record(k) PROVE DownIsEmpty'
  BY <1>2 DEF Record, DownIsEmpty
<1>3. ASSUME NEW f \in Flushers, NEW last \in BOOLEAN, Collect(f, last) PROVE DownIsEmpty'
  BY <1>3, CollectIs, AtRest DEF DownIsEmpty, Collect
<1>4. ASSUME NEW f \in Flushers, AppendBatch(f) PROVE DownIsEmpty'
  BY <1>4, AppendBatchIs, AtRest DEF DownIsEmpty, Collect
<1>5. ASSUME NEW f \in Flushers, NEW whole \in SUBSET flush[f].batch, AppendFails(f, whole)
     PROVE  DownIsEmpty'
  BY <1>5, AppendFailsIs, AtRest DEF DownIsEmpty, Collect
<1>6. ASSUME NEW f \in Flushers, Mark(f) PROVE DownIsEmpty'
  BY <1>6, MarkIs, AtRest DEF DownIsEmpty, Collect
<1>7. ASSUME NEW f \in Flushers, Trim(f) PROVE DownIsEmpty'
  BY <1>7, TrimIs, AtRest DEF DownIsEmpty, Collect
<1>8. ASSUME NEW f \in Flushers, Ends(f) PROVE DownIsEmpty'
  <2>1. life # "down" \/ flush' = flush
    BY <1>8, AtRest DEF Ends, CollectFails, TrimNothing, Rewrite, DownIsEmpty
  <2>2. QED
    BY <1>8, <2>1, EndsIs DEF DownIsEmpty
<1>9. CASE Stop
  BY <1>9 DEF Stop, store, seen, DownIsEmpty
<1>10. CASE Down
  BY <1>10 DEF Down, DownIsEmpty
<1>11. CASE Load
  BY <1>11 DEF Load, seen, DownIsEmpty
<1>12. ASSUME NEW read \in SUBSET Loaded, LoadFails(read) PROVE DownIsEmpty'
  BY <1>12 DEF LoadFails, DownIsEmpty
<1>13. CASE UNCHANGED vars
  BY <1>13 DEF vars, store, counters, seen, DownIsEmpty
<1>14. QED
  BY <1>1, <1>2, <1>3, <1>4, <1>5, <1>6, <1>7, <1>8, <1>9, <1>10, <1>11, <1>12, <1>13 DEF
    Next, FlushStep, Ends

\* MarkedIsWritten is kept: a mark passes its batch, which was appended, and by
\* BatchCovers nothing else; Load's watermark passes lines of the file.
LEMMA StepMarked ==
    TypeOK /\ Past /\ LinesCounted /\ BatchFits /\ BatchCovers /\ MarkedIsWritten /\ [Next]_vars
        => MarkedIsWritten'
<1> SUFFICES ASSUME TypeOK, Past, LinesCounted, BatchFits, BatchCovers, MarkedIsWritten,
                [Next]_vars
    PROVE  MarkedIsWritten'
  OBVIOUS
<1>0. \A g \in Flushers : flush[g].batch \subseteq Keys /\ flush[g].kept \subseteq Keys
  BY CallParts DEF TypeOK
<1>0a. mem \subseteq Keys
  BY DEF TypeOK
<1>1. CASE Tick
  BY <1>1 DEF Tick, store, seen, MarkedIsWritten
<1>2. ASSUME NEW k \in Keys, Record(k) PROVE MarkedIsWritten'
  <2>1. mem' \subseteq mem \cup {k}
    BY <1>2, BucketAtIs DEF Record, Past
  <2>2. k \in mem \/ k \in late' \/ k > watermark
    BY <1>2 DEF Record, Past, TypeOK, Keys
  <2>3. watermark \in Int /\ k \in Int
    BY DEF TypeOK, Keys
  <2>4. QED
    BY <1>2, <2>1, <2>2, <2>3 DEF Record, MarkedIsWritten
<1>3. ASSUME NEW f \in Flushers, NEW last \in BOOLEAN, Collect(f, last)
     PROVE  MarkedIsWritten'
  BY <1>3, CollectIs DEF MarkedIsWritten
<1>4. ASSUME NEW f \in Flushers, AppendBatch(f) PROVE MarkedIsWritten'
  BY <1>4, <1>0a, AppendBatchIs DEF MarkedIsWritten
<1>5. ASSUME NEW f \in Flushers, NEW whole \in SUBSET flush[f].batch, AppendFails(f, whole)
     PROVE  MarkedIsWritten'
  BY <1>5, <1>0a, AppendFailsIs DEF MarkedIsWritten
<1>6. ASSUME NEW f \in Flushers, Mark(f) PROVE MarkedIsWritten'
  <2>1. \A k \in mem \ late : k <= watermark' => k <= watermark \/ k \in flush[f].batch
    BY <1>6, MarkIs DEF BatchCovers
  <2>2. \A k \in flush[f].batch : copies[k] > 0
    BY <1>6, MarkIs DEF BatchFits
  <2>3. QED
    BY <1>6, <2>1, <2>2, MarkIs DEF MarkedIsWritten
<1>7. ASSUME NEW f \in Flushers, Trim(f) PROVE MarkedIsWritten'
  BY <1>7, TrimIs DEF MarkedIsWritten
<1>8. ASSUME NEW f \in Flushers, Ends(f) PROVE MarkedIsWritten'
  BY <1>8, EndsIs DEF MarkedIsWritten
<1>9. CASE Stop
  BY <1>9 DEF Stop, store, seen, MarkedIsWritten
<1>10. CASE Down
  BY <1>10 DEF Down, MarkedIsWritten
<1>11. CASE Load
  <2>1. mem' \subseteq Lines(file) \cap Keys
    BY <1>11 DEF Load, Loaded, Window
  <2>2. QED
    BY <1>11, <2>1 DEF Load, seen, LinesCounted, MarkedIsWritten
<1>12. ASSUME NEW read \in SUBSET Loaded, LoadFails(read) PROVE MarkedIsWritten'
  <2>1. mem' \subseteq Lines(file) \cap Keys
    BY <1>12 DEF LoadFails, Loaded, Window
  <2>2. QED
    BY <1>12, <2>1 DEF LoadFails, LinesCounted, MarkedIsWritten
<1>13. CASE UNCHANGED vars
  BY <1>13 DEF vars, store, counters, seen, MarkedIsWritten
<1>14. QED
  BY <1>1, <1>2, <1>3, <1>4, <1>5, <1>6, <1>7, <1>8, <1>9, <1>10, <1>11, <1>12, <1>13 DEF
    Next, FlushStep, Ends

\* WrittenOnce is kept: by BatchIsNew an append writes what was never written.
LEMMA StepOnce ==
    TypeOK /\ BatchFits /\ BatchIsNew /\ WrittenOnce /\ [Next]_vars
        => WrittenOnce'
<1> SUFFICES ASSUME TypeOK, BatchFits, BatchIsNew, WrittenOnce, [Next]_vars PROVE WrittenOnce'
  OBVIOUS
<1>1. CASE Tick
  BY <1>1 DEF Tick, store, seen, WrittenOnce
<1>2. ASSUME NEW k \in Keys, Record(k) PROVE WrittenOnce'
  BY <1>2 DEF Record, WrittenOnce
<1>3. ASSUME NEW f \in Flushers, NEW last \in BOOLEAN, Collect(f, last) PROVE WrittenOnce'
  BY <1>3, CollectIs DEF WrittenOnce
<1>4. ASSUME NEW f \in Flushers, AppendBatch(f) PROVE WrittenOnce'
  BY <1>4, AppendBatchIs DEF WrittenOnce, BatchIsNew
<1>5. ASSUME NEW f \in Flushers, NEW whole \in SUBSET flush[f].batch, AppendFails(f, whole)
     PROVE  WrittenOnce'
  BY <1>5, AppendFailsIs DEF WrittenOnce
<1>6. ASSUME NEW f \in Flushers, Mark(f) PROVE WrittenOnce'
  BY <1>6, MarkIs DEF WrittenOnce
<1>7. ASSUME NEW f \in Flushers, Trim(f) PROVE WrittenOnce'
  BY <1>7, TrimIs DEF WrittenOnce
<1>8. ASSUME NEW f \in Flushers, Ends(f) PROVE WrittenOnce'
  BY <1>8, EndsIs DEF WrittenOnce
<1>9. CASE Stop
  BY <1>9 DEF Stop, store, seen, WrittenOnce
<1>10. CASE Down
  BY <1>10 DEF Down, WrittenOnce
<1>11. CASE Load
  BY <1>11 DEF Load, seen, WrittenOnce
<1>12. ASSUME NEW read \in SUBSET Loaded, LoadFails(read) PROVE WrittenOnce'
  BY <1>12 DEF LoadFails, WrittenOnce
<1>13. CASE UNCHANGED vars
  BY <1>13 DEF vars, store, counters, seen, WrittenOnce
<1>14. QED
  BY <1>1, <1>2, <1>3, <1>4, <1>5, <1>6, <1>7, <1>8, <1>9, <1>10, <1>11, <1>12, <1>13 DEF
    Next, FlushStep, Ends

\* WindowServed is kept: Flush prunes outside the window and bucketAt drops the
\* oldest of more buckets than the window has.
LEMMA StepServed ==
    TypeOK /\ Past /\ BatchFits /\ DownIsEmpty /\ WindowServed /\ [Next]_vars
        => WindowServed'
<1> SUFFICES ASSUME TypeOK, Past, BatchFits, DownIsEmpty, WindowServed, [Next]_vars
    PROVE  WindowServed'
  OBVIOUS
<1>1. CASE Tick
  <2>1. \A k \in taken : k \in Window' => k \in Window
    BY <1>1 DEF Tick, Window, Past, TypeOK, Keys
  <2>2. QED
    BY <1>1, <2>1 DEF Tick, store, seen, WindowServed
<1>2. ASSUME NEW k \in Keys, Record(k) PROVE WindowServed'
  <2>1. k \in mem' /\ mem \cap Window \subseteq mem'
    BY <1>2, BucketAtIs DEF Record, Past
  <2>2. QED
    BY <1>2, <2>1 DEF Record, WindowServed, Window
<1>3. ASSUME NEW f \in Flushers, NEW last \in BOOLEAN, Collect(f, last) PROVE WindowServed'
  BY <1>3, CollectIs DEF WindowServed, Window
<1>4. ASSUME NEW f \in Flushers, AppendBatch(f) PROVE WindowServed'
  BY <1>4, AppendBatchIs DEF WindowServed, Window
<1>5. ASSUME NEW f \in Flushers, NEW whole \in SUBSET flush[f].batch, AppendFails(f, whole)
     PROVE  WindowServed'
  BY <1>5, AppendFailsIs DEF WindowServed, Window
<1>6. ASSUME NEW f \in Flushers, Mark(f) PROVE WindowServed'
  BY <1>6, MarkIs DEF WindowServed, Window
<1>7. ASSUME NEW f \in Flushers, Trim(f) PROVE WindowServed'
  BY <1>7, TrimIs DEF WindowServed, Window
<1>8. ASSUME NEW f \in Flushers, Ends(f) PROVE WindowServed'
  BY <1>8, EndsIs DEF WindowServed, Window
<1>9. CASE Stop
  BY <1>9 DEF Stop, store, seen, WindowServed, Window
<1>10. CASE Down
  BY <1>10 DEF Down, WindowServed
<1>11. CASE Load
  BY <1>11 DEF Load, seen, DownIsEmpty, WindowServed
<1>12. ASSUME NEW read \in SUBSET Loaded, LoadFails(read) PROVE WindowServed'
  BY <1>12 DEF LoadFails, DownIsEmpty, WindowServed
<1>13. CASE UNCHANGED vars
  BY <1>13 DEF vars, store, counters, seen, WindowServed, Window
<1>14. QED
  BY <1>1, <1>2, <1>3, <1>4, <1>5, <1>6, <1>7, <1>8, <1>9, <1>10, <1>11, <1>12, <1>13 DEF
    Next, FlushStep, Ends

-----------------------------------------------------------------------------
(* The theorems.                                                             *)

HistoryInv ==
    /\ TypeOK /\ Past /\ LinesCounted /\ BatchFits /\ BatchCovers /\ SharedIsAgain
    /\ BatchIsNew /\ AppendedIsMarked /\ DownIsEmpty
    /\ MarkedIsWritten /\ WrittenOnce /\ WindowServed

\* A store that was never used has nothing in memory, on disk or under way.
LEMMA InitHistory == Init => HistoryInv
<1> SUFFICES ASSUME Init PROVE HistoryInv
  OBVIOUS
<1>1. /\ flush = [f \in Flushers |-> Idle] /\ copies = [k \in Keys |-> 0]
      /\ mem = {} /\ taken = {} /\ late = {} /\ again = {} /\ marked = {}
      /\ now = 1 /\ since = 1 /\ watermark = 0 /\ life = "up" /\ file = EmptyFile
      /\ fails = 0 /\ crashes = 0
  BY DEF Init
<1>2. Cardinality(mem) <= MaxBuckets
  BY <1>1, FS_EmptySet
<1>3. file \in FileType /\ Lines(file) = {}
  BY <1>1 DEF EmptyFile, FileType, Lines
<1>4. flush \in [Flushers -> CallType]
  BY <1>1, AtRest
<1>5. TypeOK
  BY <1>1, <1>2, <1>3, <1>4 DEF TypeOK, Keys
<1>6. /\ Past /\ LinesCounted /\ BatchFits /\ BatchCovers /\ SharedIsAgain /\ BatchIsNew
      /\ AppendedIsMarked
  BY <1>1, <1>3, AtRest DEF Past, LinesCounted, BatchFits, BatchCovers, SharedIsAgain,
                            BatchIsNew, AppendedIsMarked
<1>7. DownIsEmpty /\ MarkedIsWritten /\ WrittenOnce /\ WindowServed
  BY <1>1 DEF DownIsEmpty, MarkedIsWritten, WrittenOnce, WindowServed
<1>8. QED
  BY <1>5, <1>6, <1>7 DEF HistoryInv

\* All the parts together are kept.
LEMMA StepHistory == HistoryInv /\ [Next]_vars => HistoryInv'
BY StepTyped, StepPast, StepLines, StepFits, StepCovers, StepShared, StepNew, StepAppended,
   StepDown, StepMarked, StepOnce, StepServed DEF HistoryInv

\* The inductive invariant holds in every state.
THEOREM HistoryInvariant == Spec => []HistoryInv
<1>1. QED
  BY InitHistory, StepHistory, PTL DEF Spec

\* The memory never holds more than MaxBuckets buckets, whatever is recorded,
\* flushed or loaded, and every part keeps its type (history.go: bucketAt, Load).
THEOREM HistoryTyped == Spec => []TypeOK
<1>1. HistoryInv => TypeOK
  BY DEF HistoryInv
<1>2. QED
  BY <1>1, HistoryInvariant, PTL

\* A watermark passes only buckets that were appended, however appends fail,
\* however the two flushes of a shutdown interleave and wherever the daemon
\* dies (history.go: Flush, flushChunks, Load).
THEOREM MarkedMeansWritten == Spec => []MarkedIsWritten
<1>1. HistoryInv => MarkedIsWritten
  BY DEF HistoryInv
<1>2. QED
  BY <1>1, HistoryInvariant, PTL

\* No bucket is appended twice, across crashes and restarts, unless both
\* flushers collected it or an append or a load of it failed (history.go: Flush).
THEOREM AppendedOnce == Spec => []WrittenOnce
<1>1. HistoryInv => WrittenOnce
  BY DEF HistoryInv
<1>2. QED
  BY <1>1, HistoryInvariant, PTL

\* A query is answered with every minute of its window that was sampled since
\* the start, while flushes prune, fail and catch up (history.go: bucketAt,
\* Flush, History).
THEOREM QueriesServed == Spec => []WindowServed
<1>1. HistoryInv => WindowServed
  BY DEF HistoryInv
<1>2. QED
  BY <1>1, HistoryInvariant, PTL

=============================================================================
