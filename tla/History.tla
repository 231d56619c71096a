------------------------------ MODULE History ------------------------------
(* The metric history of one machine at one resolution, minutes or hours     *)
(* (metrics/history.go): the buckets in memory, which answer the queries,    *)
(* and the JSONL file they are flushed to.  The minute and the hour maps,    *)
(* and the machines, have the same code and separate files.                  *)
(*                                                                           *)
(* A bucket is its key, the number of its minute; averages are left out.     *)
(* A line of the file that holds one object is the key of its bucket, and    *)
(* any other, of two objects or of a part of one, does not parse.  Only the  *)
(* last line's place matters, so the lines before it are a set.              *)
EXTENDS Integers, FiniteSetsExt

CONSTANTS
    Loop, Main,    \* who flushes: Run's ticker, and main while shutting down
    Retention,     \* buckets a query reaches back
    Slack,         \* how many more the file keeps
    MaxBuckets,    \* MaxMinuteBuckets, MaxHourBuckets
    MaxLag,        \* bound: buckets between a sample's time and its recording
    MaxLate,       \* bound: buckets at a time that began with such a sample
    MaxTime,       \* bound: the last bucket of a behaviour
    MaxFails,      \* bound: file operations that fail over a behaviour
    MaxCrashes     \* bound: times the daemon goes down

Flushers == {Loop, Main}
Keys == 1 .. MaxTime
Garbled == 0       \* a line that does not parse
NoLine == -1

ASSUME FlushersAssumption == Loop # Main
ASSUME SizesAssumption ==
    /\ Retention \in Nat \ {0} /\ Slack \in Nat
    /\ MaxBuckets \in Nat /\ MaxBuckets > Retention
    /\ MaxLag \in Nat /\ MaxLate \in Nat /\ MaxTime \in Nat \ {0}
    /\ MaxFails \in Nat /\ MaxCrashes \in Nat

VARIABLES
    now,        \* the bucket the clock is in
    since,      \* the bucket in which the daemon started
    life,       \* "up", "stopping" (cancelEvents was called) or "down"
    mem,        \* TimeSeriesStore.minutes: the keys with a bucket
    watermark,  \* lastFlushedMin
    file,       \* the ended lines, and the last one when it lacks its newline
    flush       \* the Flush call of each flusher

\* Observations no code keeps, for the properties.
VARIABLES
    fails, crashes,  \* counters behind the bounds
    taken,    \* keys sampled since the last start
    late,     \* keys whose first sample came after their minute
    copies,   \* how often each bucket was appended whole: 0, 1, or 2 for more;
              \* from then on 1 for those in again
    again,    \* keys in a batch of both flushers, or of a failed append or load
    marked    \* keys a watermark has passed after their append

store == <<mem, watermark>>
counters == <<fails, crashes>>
seen == <<taken, late, copies, again, marked>>
vars == <<now, since, life, store, file, flush, counters, seen>>

\* A Flush call: where it is, the buckets it has encoded, the lines its
\* trimming keeps, and whether its flusher will make another.
Call(at, batch, kept, last) == [at |-> at, batch |-> batch, kept |-> kept, last |-> last]
Idle == Call("idle", {}, {}, FALSE)
Done == Call("done", {}, {}, FALSE)
EmptyFile == [ended |-> {}, open |-> NoLine]

Init ==
    /\ now = 1 /\ since = 1 /\ life = "up"
    /\ mem = {} /\ watermark = 0 /\ file = EmptyFile
    /\ flush = [f \in Flushers |-> Idle]
    /\ fails = 0 /\ crashes = 0
    /\ taken = {} /\ late = {} /\ again = {} /\ marked = {}
    /\ copies = [k \in Keys |-> 0]

Fail(ok) == IF ok THEN UNCHANGED fails ELSE fails < MaxFails /\ fails' = fails + 1

\* The keys a query for the whole window asks for.
Window == {k \in Keys : k <= now /\ k > now - Retention}

Counted(S, excused) ==
    [k \in Keys |-> IF k \notin S THEN copies[k]
                   ELSE IF k \in excused \/ copies[k] = 0 THEN 1 ELSE 2]

-----------------------------------------------------------------------------
(* The text of the file.                                                     *)

\* Whole objects, the oldest first, and a part of one when cut, one on each
\* line and none ended after the last: the next batch begins on that line and
\* spoils it.
AppendLines(f, whole, cut) ==
    LET last == IF cut THEN Garbled ELSE Max(whole)
        alone == whole = {} \/ (~cut /\ whole = {last}) IN
    IF f.open = NoLine
    THEN [ended |-> f.ended \cup (whole \ {last}), open |-> last]
    ELSE IF alone THEN [ended |-> f.ended, open |-> Garbled]
    ELSE [ended |-> f.ended \cup {Garbled} \cup (whole \ {Min(whole), last}), open |-> last]

Lines(f) == f.ended \cup ({f.open} \ {NoLine})

\* trimLines keeps the lines that are young enough; the time of one that does
\* not parse is 0.
Trimmed == {line \in Lines(file) \cap Keys : line > now - Retention - Slack}

\* loadDir: the buckets of the file that are within the window.
Loaded == Lines(file) \cap Window

-----------------------------------------------------------------------------
(* Samples.                                                                  *)

Tick ==
    /\ now < MaxTime /\ now' = now + 1
    /\ UNCHANGED <<since, life, store, file, flush, counters, seen>>

\* Mutant: the minutes are held to the smaller bound of the hours.
BucketAt_SmallerBound(k) ==
    IF k \in mem THEN mem
    ELSE (IF Cardinality(mem) >= Retention - 1 THEN mem \ {Min(mem)} ELSE mem) \cup {k}

\* Mutant: no bound.
BucketAt_Unbounded(k) == mem \cup {k}

\* bucketAt makes room by dropping the oldest bucket.
BucketAt(k) ==
    IF k \in mem THEN mem
    ELSE (IF Cardinality(mem) >= MaxBuckets THEN mem \ {Min(mem)} ELSE mem) \cup {k}

\* The sink records a sample under the time its sampling pass began: that
\* minute may be over, as libvirt answers when it likes, but the daemon was up.
\* A pass outlasts the cancel.
Record(k) ==
    /\ life # "down" /\ k \in now - MaxLag .. now /\ k >= since
    /\ mem' = BucketAt(k)
    /\ taken' = taken \cup {k}
    /\ late' = IF k < now /\ k \notin mem THEN late \cup {k} ELSE late
    /\ Cardinality(late') <= MaxLate
    /\ UNCHANGED <<now, since, life, watermark, file, flush, counters, copies, again, marked>>

-----------------------------------------------------------------------------
(* Flush.                                                                    *)

Goes(f, r) == flush' = [flush EXCEPT ![f] = r]
Returns(f) == Goes(f, IF flush[f].last THEN Done ELSE Idle)

\* The completed buckets above the watermark.
Pending == {k \in mem : k < now /\ k > watermark}

\* Under the mutex the batch is encoded and the memory pruned to the window.
\* last: Run's loop saw the cancel, or main is flushing; a tick that is due as
\* well may be served first.
Collect(f, last) ==
    /\ flush[f].at = "idle" /\ life # "down"
    /\ (f = Main) => (life = "stopping" /\ last)
    /\ last => life = "stopping"
    /\ Goes(f, Call(IF Pending = {} THEN "trim" ELSE "append", Pending, {}, last))
    /\ mem' = mem \cap Window
    /\ taken' = taken \cap Window /\ late' = late \cap Window /\ marked' = marked \cap Window
    /\ again' = again \cup UNION {Pending \cap flush[g].batch : g \in Flushers \ {f}}
    /\ UNCHANGED <<now, since, life, watermark, file, counters, copies>>

\* Mutant: the loop ends with the first flush that fails.
CollectFails_LoopEnds(f, last) ==
    /\ flush[f].at = "idle" /\ life # "down"
    /\ (f = Main) => (life = "stopping" /\ last)
    /\ Fail(FALSE)
    /\ Goes(f, Done)
    /\ UNCHANGED <<now, since, life, store, file, crashes, seen>>

\* The directories cannot be made: nothing is done.
CollectFails(f, last) ==
    /\ flush[f].at = "idle" /\ life # "down"
    /\ (f = Main) => (life = "stopping" /\ last)
    /\ last => life = "stopping"
    /\ Fail(FALSE)
    /\ Goes(f, IF last THEN Done ELSE Idle)
    /\ UNCHANGED <<now, since, life, store, file, crashes, seen>>

\* appendLines: the whole batch.
AppendBatch(f) ==
    /\ flush[f].at = "append"
    /\ file' = AppendLines(file, flush[f].batch, FALSE)
    /\ copies' = Counted(flush[f].batch, again)
    /\ Goes(f, Call("mark", flush[f].batch, {}, flush[f].last))
    /\ UNCHANGED <<now, since, life, store, counters, taken, late, again, marked>>

\* Mutant: the watermark advances although the append failed.
AppendFails_Marks(f, whole) ==
    /\ flush[f].at = "append"
    /\ Fail(FALSE)
    /\ watermark' = Max({watermark} \cup flush[f].batch)
    /\ Returns(f)
    /\ UNCHANGED <<now, since, life, mem, file, crashes, seen>>

\* It fails before the first byte, or inside an object after the whole ones, or
\* at the close; the batch is left to the next Flush and this one trims nothing.
AppendFails(f, whole) ==
    LET batch == flush[f].batch IN
    /\ flush[f].at = "append"
    /\ \A k \in whole, j \in batch \ whole : k < j
    /\ Fail(FALSE)
    /\ again' = again \cup batch
    /\ \/ UNCHANGED <<file, copies>>
       \/ /\ file' = AppendLines(file, whole, whole # batch)
          /\ copies' = Counted(whole, again')
    /\ Returns(f)
    /\ UNCHANGED <<now, since, life, store, crashes, taken, late, marked>>

\* markMinFlushed.
Mark(f) ==
    /\ flush[f].at = "mark"
    /\ watermark' = Max({watermark} \cup flush[f].batch)
    /\ marked' = marked \cup flush[f].batch
    /\ Goes(f, Call("trim", {}, {}, flush[f].last))
    /\ UNCHANGED <<now, since, life, mem, file, counters, taken, late, copies, again>>

\* trimLines reads the file and has something to drop ...
Trim(f) ==
    /\ flush[f].at = "trim" /\ Trimmed # Lines(file)
    /\ Goes(f, Call("rewrite", {}, Trimmed, flush[f].last))
    /\ UNCHANGED <<now, since, life, store, file, counters, seen>>

\* ... or not; or the append to another file had an error, so nothing is trimmed.
TrimNothing(f) ==
    /\ flush[f].at = "trim"
    /\ Fail(Trimmed = Lines(file))
    /\ Returns(f)
    /\ UNCHANGED <<now, since, life, store, file, crashes, seen>>

\* writeLines: the kept lines, each terminated, replace the file by a rename.
Rewrite(f, ok) ==
    /\ flush[f].at = "rewrite"
    /\ Fail(ok)
    /\ file' = IF ok THEN [ended |-> flush[f].kept, open |-> NoLine] ELSE file
    /\ Returns(f)
    /\ UNCHANGED <<now, since, life, store, crashes, seen>>

-----------------------------------------------------------------------------
(* The daemon's life.                                                        *)

\* cancelEvents: the loop and main now flush side by side.
Stop ==
    /\ life = "up" /\ life' = "stopping"
    /\ UNCHANGED <<now, since, store, file, flush, counters, seen>>

\* It is killed, or main's flush is done and it exits without the loop's.
Down ==
    /\ life # "down" /\ crashes < MaxCrashes
    /\ life' = "down" /\ crashes' = crashes + 1
    /\ flush' = [f \in Flushers |-> Idle]
    /\ mem' = {} /\ watermark' = 0 /\ taken' = {} /\ late' = {}
    /\ UNCHANGED <<now, since, file, fails, copies, again, marked>>

\* Mutant: the watermark does not survive.
Load_NoWatermark ==
    /\ life = "down" /\ life' = "up" /\ since' = now
    /\ mem' = Loaded /\ watermark' = 0
    /\ UNCHANGED <<now, file, flush, counters, seen>>

Load ==
    /\ life = "down" /\ life' = "up" /\ since' = now
    /\ mem' = Loaded /\ watermark' = Max({0} \cup Loaded)
    /\ UNCHANGED <<now, file, flush, counters, seen>>

\* An error after some of the lines: main logs it and goes on with what was
\* read, and lastFlushed is not set, so the next Flush takes it for new.
LoadFails(read) ==
    /\ life = "down" /\ life' = "up" /\ since' = now
    /\ Fail(FALSE)
    /\ mem' = read
    /\ again' = again \cup mem'
    /\ UNCHANGED <<now, watermark, file, flush, crashes, taken, late, copies, marked>>

-----------------------------------------------------------------------------
FlushStep(f) ==
    \/ \E last \in BOOLEAN : Collect(f, last) \/ CollectFails(f, last)
    \/ AppendBatch(f) \/ Mark(f) \/ Trim(f) \/ TrimNothing(f)
    \/ \E whole \in SUBSET flush[f].batch : AppendFails(f, whole)
    \/ \E ok \in BOOLEAN : Rewrite(f, ok)

Next ==
    \/ Tick
    \/ \E k \in Keys : Record(k)
    \/ \E f \in Flushers : FlushStep(f)
    \/ Stop \/ Down \/ Load
    \/ \E read \in SUBSET Loaded : LoadFails(read)

Spec == Init /\ [][Next]_vars

\* The ticker fires and the loop's goroutine runs.
FairSpec == Spec /\ WF_vars(FlushStep(Loop))

-----------------------------------------------------------------------------
FileType == [ended : SUBSET (Keys \cup {Garbled}), open : Keys \cup {Garbled, NoLine}]
CallType == [at : {"idle", "append", "mark", "trim", "rewrite", "done"},
             batch : SUBSET Keys, kept : SUBSET Keys, last : BOOLEAN]

TypeOK ==
    /\ now \in Keys /\ since \in Keys /\ life \in {"up", "stopping", "down"}
    /\ mem \subseteq Keys /\ Cardinality(mem) <= MaxBuckets
    /\ watermark \in 0 .. MaxTime
    /\ file \in FileType /\ flush \in [Flushers -> CallType]
    /\ fails \in 0 .. MaxFails /\ crashes \in 0 .. MaxCrashes
    /\ taken \subseteq Keys /\ late \subseteq Keys /\ again \subseteq Keys
    /\ marked \subseteq Keys /\ copies \in [Keys -> 0 .. 2]

\* A bucket the watermark has passed will never be flushed again, so it was
\* appended, whatever failed, crashed or ran side by side; except one that only
\* came to be after its minute (Flush, flushChunks, Load).
MarkedIsWritten ==
    \A k \in mem \ late : k <= watermark => copies[k] > 0

\* "Buckets already written are tracked per VM and never re-appended"
\* (history.go: Flush), across crashes and restarts too; except those the two
\* flushes of a shutdown collected both, and those of a failed append or load.
WrittenOnce == \A k \in Keys \ again : copies[k] <= 1

\* Every minute of the window sampled since the start is there for a query
\* (history.go: bucketAt, Flush, History), also while flushing fails.
WindowServed == life # "down" => taken \cap Window \subseteq mem

\* While the daemon stays up the flushes catch up with the samples, whatever
\* failed before (Run: "flushes are best-effort and retried next tick").
EventuallyFlushed ==
    (life = "up" /\ Pending # {}) ~> (Pending = {} \/ life # "up")

\* Load "rehydrates the in-memory maps from disk so history survives a
\* restart": a bucket that was flushed is still there for a query after it.
HistorySurvives == life # "down" => marked \cap Window \subseteq mem

=============================================================================
