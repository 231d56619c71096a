# A TLA+ verification project for webkvm

webkvm is a web console for one KVM host: a Go daemon (`src/backend`) with an HTTP API, a Svelte
frontend, libvirt and Incus behind it, and a set of subsystems that change the host: its nftables
firewall, its backups, its storage, its users. Almost all state is a JSON file under one mutex, or
lives outside the daemon (kernel, libvirt, disk). What is hard is therefore not one data structure but
the *windows* between a mutex and what it does not cover: an `nft` process, a timer callback, a file
that two objects load and save, a goroutine that prunes what another one is writing, a crash between
two writes.

This directory models the subsystems where a wrong interleaving costs most: the firewall's **Safe-Apply**
protocol (a wrong rule locks the administrator out), the **backup runner with its retention, chains and
reconciliation** (a wrong deletion loses the only copy) and the **schedules** that start it, the
**sessions** (a revoked credential that works again), the **perimeter** (the jail and the login limiter),
the **machines** with what acts on them at once: storage moves, deletions, the power scheduler, and the
**metric history** (samples in memory with a file behind them).

## Modules

| module | models | how it is used |
|---|---|---|
| `HostTrial` | what Safe-Apply promises, without locks, timers or nft | abstract specification |
| `SafeApply` | `firewall/nft.go`, both firewall stores, the requests that call them, startup | component; TLC and TLAPS |
| `SafeApply_proofs` | – | theorems about `SafeApply` |
| `MCSafeApply` | – | TLC instance of `SafeApply` |
| `Retention` | the pure part of `backupstore/retention.go` | operators used by `Backup` |
| `Backup` | `backupstore/runner.go`, `chain.go`, `retention.go`, `reconcile.go`, the job log, chain deletion, libvirt's checkpoints | component, composed with `Retention` |
| `Backup_proofs` | – | theorems about `Backup` |
| `MCBackup` | – | TLC instance of `Backup` |
| `Schedules` | schedule and target tables, cron entries | component |
| `MCSchedules` | – | TLC instance of `Schedules` |
| `Sessions` | `user/store.go`, `tokens/store.go`, `auth/jwt.go`, `blacklist.go`, `ticket.go` and the handlers that mint and end credentials | component |
| `Sessions_proofs` | – | theorems about `Sessions` |
| `MCSessions` | – | TLC instance of `Sessions` |
| `Perimeter` | `netguard/jail.go`, the kernel's ban set, `auth/ratelimit.go`, the login handlers | component |
| `MCPerimeter` | – | TLC instance of `Perimeter` |
| `Perimeter_proofs` | – | theorems about `Perimeter` |
| `DiskMoves` | `libvirt/storage_move.go`, the job around it, libvirt's power operations | component, included by `Machines` |
| `Machines` | `vmsched/vmsched.go`, schedule edits, `DeleteVM` with its sweep | composition with `DiskMoves` |
| `Machines_proofs` | – | theorems about `Machines` and `DiskMoves` |
| `MCMachines` | – | TLC instance of `Machines` |
| `History` | `metrics/history.go`, its flushers in `main` | component |
| `History_proofs` | – | theorems about `History` |
| `MCHistory` | – | TLC instance of `History` |

Operators named `X_Something` with the comment "Mutant:" are broken versions of `X`. Nothing uses
them; replacing `X` by one of them must make a run fail, which shows that the property can fail.

## Inventory

For each component: its state, its operations, how it meets the others, what is hard, what makes it
correct. `PROJECT.json` has the list with the source files and, under `hazards`, every place where
something can go wrong that a test would hardly reach.

**Host firewall (`internal/firewall`).** State: confirmed host rules in memory and in
`firewall-host.json`, per-VM rules in memory and in `firewall.json`, one pending transaction with a
timer, the kernel's table `webkvm`. Operations: stage, confirm, roll back (by request or by timer),
`Apply()` after a change of per-VM rules, a VM start or a network change, load at startup. Two
mutexes: `applyMu` (host transitions, held across nft) and `rulesMu` (`Apply()`, held across nft);
`Apply()` takes `applyMu` inside `rulesMu`, only for the copy of the host rules. Hard: two paths
replace the same table with different locks; `Timer.Stop` does not recall a started callback; nft, the
disk and the daemon can fail between any two steps. Correct when: what is live is what the manager
says is live; acknowledged per-VM rules stay live; a trial can always be undone and always ends; the
baseline moves only by confirmation.

**Backup runner, job log (`internal/backupstore/runner.go`, `store.go`).** State: job log, the runner's
mutex, files on the target. Operations: run for the whole target (full or incremental) or for one
machine, fail at any file, crash, sweep stuck jobs at startup. Hard: a job is logged as running before
it has the mutex, files appear on the target before they are complete, a failed run leaves some. Correct
when: what is called a success is complete, every job ends.

**Backup chains (`chain.go`).** State: `chains-<target>.json`. `AppendEntry` and `DeleteChain` load and
save the whole file, through `ChainStore`s that each have a mutex of their own; the runner, retention and
the API each create one. Hard: lost updates across machines; a chain deleted under a running backup.
Correct when: each chain can be restored from its records.

**Retention (`retention.go`).** State: none of its own; reads the target, the job log and the chain
records at different moments and deletes whole runs. Runs beside the runner, without its mutex: after
each successful run, from a ticker, on request. Correct when: the run being written is left alone, the
newest good run is kept, a chain is deleted whole or not at all.

**Schedules and cron (`runner.go`, `store.go`, `api/backup.go`).** State: schedule and target tables,
`schedules.json`, the cron entries. Hard: the table is changed before it is saved; `Reload` replaces the
cron instance. Correct when: an enabled schedule produces jobs.

**Reconcile (`reconcile.go`).** State: none of its own; lists the target, reads the job log, records a
synthetic job for each run with files nobody names, strikes files that are not there from the jobs that name
them. Hard: three critical sections with runs, passes and deletions between. Correct when: the log says what is
on the target.

**Accounts, credentials (`internal/user`, `internal/tokens`, `internal/auth`, `api/auth.go`, `users.go`,
`tokens.go`).** State: accounts with role, activity and session epoch, the blacklist, the API tokens, each with
its file; tickets in memory. Operations: change an account, log in, refresh, change the password, create and
revoke an API token, issue and use a ticket, log out, sweep, crash, load. Hard: a handler checks a credential
and mints another one later; a failed save leaves some changes in memory and takes others back; logout
answers before its entry is safe. Correct when: a revoked or ended credential stays dead across restarts, the
role in an accepted one is current, an administrator remains.

**Jail and login limiter (`internal/netguard`, `auth/ratelimit.go`).** State: bans, failures, whitelist,
`jail.json`, limiter buckets; the kernel's set `jail_blacklist`, which is inside the table the firewall manager
replaces. Hard: nft's outcome is ignored; `Unban` deletes the element after it released the mutex; the limiter
is asked before the password check and told after it. Correct when: whoever is listed is dropped and whoever is
dropped is listed, a whitelisted address is neither, the guesses of a client are bounded.

**Machines (`api/storage_move.go`, `jobs.go`, `vms.go`, `libvirt/storage_move.go`, `storage.go`, `vmsched`).**
State: libvirt's definitions and states, the files of the pools, the job table, the power schedules with their
file and cron. Operations: move a machine's disks as a background job, start, stop, suspend, delete with the
sweep of its disks, edit a schedule, fire an entry, crash. Hard: nothing is locked during a copy of minutes,
files are removed by name, a rollback can fail. Correct when: a machine's disks are where its definition says,
complete and with what the guest wrote; schedules are obeyed; a job files its outcome on every path.

**Metric history (`metrics/history.go`).** State: the buckets in memory, which answer the queries, a watermark and
a JSONL file per machine and resolution. Operations: record a sample, flush (collect under the mutex, append, mark,
trim, rewrite) by the ticker's loop and by `main` at shutdown, load. Hard: file operations outside the mutex, failing
half way; two flushes at once; a crash between append and mark. Correct when: every completed bucket gets to the
file once, a query finds the whole window, and history survives a restart.

**Not modelled:** restore and verification of backups (they read archives and write into fresh directories),
remote backup transports, the event hub (buffered channels that drop what does not fit), moving a single volume
and Incus containers, linked clones, the snapshot line of a schedule, the global request limiter, second
factors, hypervisor wrappers beyond the power operations, parsers of host tools (zvol, mdraid, SMART), disk
preparation on the host, alerts, exporters and notifications, appliances, cloud-init and image import, request decoding,
the frontend and the CLI. Most are I/O and format conversion; their state is kept by someone else.

## SafeApply and the code

| model | code |
|---|---|
| `hostMem`, `hostDisk` | `HostStore.fw`, `firewall-host.json` |
| `vmMem`, `vmDisk` | `Store.byVM`, `firewall.json`, each abstracted to the set of the changes in it |
| `pending`, `armed`, `fired` | `Manager.pending`, timers still running, timers whose callback waits for `applyMu` |
| `crit` | the stage or rollback that holds `applyMu` while its nft process runs |
| `rulesMu`, `pc`, `req`, `snap`, `rend` | an `Apply()`: mutex, position, the change it carries, the host rules it copied, the per-VM rules it rendered |
| `kernel` | the nftables table: `applyRuleset` deletes and defines it in one nft transaction, `flushTable` deletes it |
| `StageBegin`, `StageLoaded`, `StageFailed` | `StageHostApply` up to nft, after nft, nft's error return (`StageRun` is the release of `applyMu` in both) |
| `Confirm(persisted)` | `ConfirmHostApply`; `HostStore.Set` keeps the rules in memory when the file cannot be written |
| `RollbackRequest`, `TimerCallback`, `RollbackLoaded`, `RollbackFailed` | `RollbackHostApply` by its two callers; `pending` is cleared *before* nft runs |
| `VmSet`, `VmSaved`, `VmSaveFailed`, `Reapply` | the requests that end in `Apply()` |
| `ApplyLock`, `ApplySnapshot`, `ApplyRender`, `ApplyLoaded`, `ApplyFailed` | `Apply()` with `BuildRuleset`: it takes `rulesMu`, waits for `applyMu` with `rulesMu` held, renders, loads |
| `Crash`, `Restart(hostRead, vmRead, loaded)` | the daemon or the host goes down; `main` loads the stores and calls `Apply()` before it serves. A file that cannot be read is logged and leaves its store empty |

`acked`, `unread`, `dropped`, `overlapped`, `cause`, `stages`, `changes`, `crashes` are observations and bounds that no
code keeps. `unread` is what `firewall.json` held when this daemon could not read it; `dropped` is what of it the next
save then replaced. Both are excused by `AckedVmRulesLive`: the comment at `main.go:702-703` says of the rules that they
"survive service restarts", which holds only of a file that can be read.
`HostTrial` has a restart that finds no saved baseline, so a failed read of the host rules is a step of the abstraction too.
A request that waits for `applyMu` has no state, so requests on the host rules are not processes. Rules
are members of a set; validation is assumed to have passed (`HostRules` are the valid ones). The text of
the ruleset and the applied/pending counters of forwards are left out.

## Backup, Retention and the code

A job that gets the runner's mutex becomes a run. Its suffix is the job's number; a file is
`<<job, item>>`; its time is the order in which runs start, which the mutex makes the order of their
files' modification times as well (but for an image libvirt goes on writing after the daemon has died). `w` is the run that holds the mutex, with its phase: between two files,
writing an archive, waiting for libvirt, between the load and the save of `AppendEntry`. `prune[p]` is a
retention pass: listed, deciding, deleting run by run, dropping chain records (again a load and a save).
`adm` is a `DeleteBackupChain` request. `ckpts` is external: libvirt's checkpoints, as
`libvirtbackup/backup.go` uses them (a push needs its parent's checkpoint and makes a new one).
`purged`, `raced`, `want`, `blurred`, `blind`, `unlogged` are observations.

The error paths that decide a property are outcomes of their actions. `RecordJob` may fail to save: the caller starts
nothing, and the log in memory keeps a job that runs until the next restart (`unlogged`; `JobEnds` excuses it). `ReadParent` may fail to read the chain file: a full backup is made and appended to a chain that exists
(the machine is in `raced`). `BackupUnseen` is `waitBackupJob` taking a failed `domjobinfo`, or a job that is gone, for
the end of a good one, with the image there or not, and the failed `os.Stat` the runner ignores (`blind`;
`SuccessMeansComplete` excuses it; such a job can succeed with a file that was never written). `PruneDecide` may fail to read the chains,
which then protect nothing. At a restart the jobs of `unlogged` that no later save wrote are gone.

`rec` is a `Reconcile` request with `apply`: `ReconcileList`, `ReconcileRead`, one `ReconcileAdopt` per run with
orphans, `ReconcileClean`. The synthetic jobs are all successes, so only the set `adopted` of the files they name
is kept. A job keeps both the files it names and the ones it named when it ended, which is how the model
sees that Reconcile struck one. `blurred` are the runs that had not ended when the target was listed, or that
existed when it was listed while missing (`ListBackupsOnTarget` treats a directory that is not there, an
unmounted target, as one without backups, and Reconcile then turns every success into an error).

`shared` says which chain file retention opens. The runner and the API use `<data>/backup/chains-*.json`.
`ApplyRetention` passes `store.dataDir`, which already is `<data>/backup`, so in the daemon it reads
`<data>/backup/backup/chains-*.json`, a file nobody writes (`shared = FALSE`). `retention_test.go` builds
its chain store from `s.dataDir` (`shared = TRUE`). Passing runs allow both, because the rest of the
behaviour should not depend on which one a fix chooses.
With the right file, `chainRuns` (`retention.go:182`) still files a run of two machines under one of them, so the
other's base can be deleted; `Backup` models this, and `DecisionSparesChains` fails in that instance as well.

Incremental mode is chosen by the schedule a job was started for. As the daemon is wired no schedule ever
starts a job (see `backup_schedule` below), so incremental runs are reached only through the runner's
exported interface, `RunOnce(ctx, target, schedule)`, as the repository's tests do. `Backup` models that
interface.

Left out: the cap of 200 jobs in the log, a failed save of a job's last update, remote targets with their staging copy
and verification, restore. Containers and machines without disks, which an incremental run
skips, count as not being in its scope.

`Retention` gives weeks and months fixed lengths: only whether two runs share a period matters.

## Schedules and the code

Tables, file, cron entries, and one action per request. A handler's store call and its `Reload` are one
step. `Fire(s)` is the closure of `addSchedule`: it calls `RunOnce(ctx, id, id)` with the schedule's
identifier twice. Identifiers of targets (`t_...`, `default`) and of schedules (`s_...`) are disjoint sets.

## Sessions and the code

Each store operation is one step with one outcome of its file write, because the write is inside the mutex.
Operations differ in what a failed write leaves: `Keep` (Create, Update, Delete leave the change in memory) and
`TakeBack` (BumpSessionEpoch and ChangePassword restore the epoch). Handlers are split where they leave a
store: `LoginRead`/`LoginMint`, `RefreshRead`/`RefreshMint`, `PasswordChange`/`PasswordMint`,
`ApiBegin`/`ApiMint`. `Accepts(c)` is the middleware with `SessionEnforcer`. `Down` and `Restart` are the end
and the start of the daemon, in order or not.

`stamp` and `revs` count acknowledged revocations; `reset`, `late`, `forgotten`, `unguarded` mark the causes a
property excuses:

* `reset`: an epoch went back, because the account was deleted and created again (its epoch starts at 0, and a
  credential of its former life may fit), or because a change whose save had failed was lost by a restart.
* `late`: `ChangeMyPassword` and `CreateToken` read the epoch again after the check, so a revocation that
  overtakes them does not reach what they mint.
* `forgotten`: the blacklist entry never reached the file, or the file could not be read.
* `unguarded`: `Update` protects only the account named `admin`; another administrator can be demoted or
  deactivated without a look at who is left. (The doc comment of `Update` promises more.)

Left out: passwords, codes and scopes, the token that stands between the two steps of a login with a second factor, the must-change flag, cookies and CSRF, the paths a ticket is good for.

## Perimeter and the code

Time is in ticks: `banned`, `kernel` and `bucket` hold what is left. `FirewallApply` is everything the firewall
manager does to the table, seen from the jail: the set is emptied, and with no rule left the table is gone. `bare`
and `stray` mark the addresses for which list and kernel may differ, with the cause: an nft command that failed
or found no table, a replaced table, an `Unban` overtaken by a ban, an element that kept its own timeout, a
restart whose `Apply()` failed. Each was found by TLC and is needed.

`config` is what `jail.json` keeps: whitelist, enabled jails and the threshold of each. `UpdateConfig` may lower a
threshold below what a jail has counted; the next failure then bans. A `jail.json` that cannot be read at a start leaves
`DefaultConfig`, and the file as it is. What `TypeOK` says of the counters is that none reaches the highest
threshold a configuration may set, whatever thresholds came between.

What reading and checking showed: without any firewall rule there is no table, so no ban reaches the kernel;
every `Apply()` empties the set, and `RecordFailureWithJail` does not add an address that is banned
already; `RecordFailure` replaces a bucket that is still locked when its window is over; failures of `Login2FA`
never reach the jail. `GuessesBounded` is what remains of "5 attempts": the limit and one less than the
requests in flight, for one bucket.

Left out: trusted proxies and loopback, which skip the limiter; custom jails, to which nothing reports; the alert.

## DiskMoves, Machines and the code

A disk belongs to the machine `VmOf[d]` and has a place `Rank[d]` in its definition, which is the order both loops
of the move take. A file is known by pool and name and carries whose disk it is, which job made it, whether it is
complete and whether it holds the guest's last write. `job[j]` is the goroutine of a move: its place in
`MoveDomainStorage`, the disks to do, the name chosen for the copy, the disks done (`First` is the next of a list). `VMDiskPath` picks
a name and creates nothing; `CreateCopy` is `O_EXCL`; `DropCopy` is the error path, which removes the file of
that name whoever made it. A live machine has its files open (`hold`), and libvirt shows for it the XML of its start
(`live`, `Shown`), not its definition (`src`), which is all that `UpdateDiskSource` changes on a machine that is live and
not running. `Attached(p, unread)` is `findPathAttachments`: by that XML, and past the machines in `unread`, whose XML
libvirt does not give. Live is also `"suspended"`, a guest that has put itself to sleep: only running and paused machines
are refused by a move (`Refused`), and no call of the program wakes it. `Machines` adds the
scheduler, the requests and the sweep of `DeleteVM`: `SweepCheck` and `SweepDelete` are the two library calls
between which other things happen.

libvirt is assumed to refuse a change of a hard disk's source on a running machine, and to accept a
change of the definition of any other.

`cause` records what the properties excuse; dropping any one of them makes TLC find a violation:

* `overlap`: two moves of one machine at once.
* `clobbered`: a move removed, by name, a file that was not its own to remove: the error path or the rollback a file
  that another job made or that is another machine's, the clean-up a file of another machine that has taken the
  original's name. Every name was free, or the move's own, when it was chosen.
* `swept`: a sweep took a file of a machine while one of its moves was at work (the copy, an original, by name: a
  renamed machine's disks keep their old name), or a file that had taken the name since the sweep looked at it.
* `unrepointed`: the rollback could not point the machine back and removed the copy all the same. The header of
  `libvirt/storage_move.go` says the machine is left "never at nothing".
* `misread`: a sweep removed a disk of the machine that it did not see, its XML being unreadable or that of a start before
  the definition was repointed; or a move began from such an XML.
* `live` (for `DataKept` only): the machine was started between the check and the end of its move, or slept when it began.

Three of them contradict comments: `unrepointed` the one just quoted, `misread` the one on `DeleteVMDiskFiles`
(`storage.go:973-974`: a candidate is deleted "only when no other domain references its path"), `live` the header's
"Everything here is cold-move only" (`storage_move.go:36-39`).

A restart whose `Load` fails goes on with an empty table (`unloaded`): `ScheduleObeyed` then speaks of table and cron, not of
the file, and the schedules do not "survive service restarts" (`vmsched.go:2-3`). Left out: the failure of `Destroy` in `DeleteDomain`, which is ignored and
leaves a running machine without a definition, and the snapshot line, which `Enabled` counts as a schedule (it matters only
between an edit and its `Rebuild`).

The proof of `DiskThere` found that an earlier form of these causes was incomplete: a move can complete under a name
between the sweep's look and its deletion, and a rollback or a clean-up can meet a name that was freed and taken
again. TLC confirmed it with two moves and a deletion, a combination too large for the run `machines`; the proof
covers every combination.

`SetVMSchedule` does not ask whether the machine exists, so an edit that overtakes `DeleteVM` leaves a schedule for
a machine that is gone, which the comment in `DeleteVM` rules out; the entry fires and does nothing.

## History and the code

A bucket is its key, the number of its minute; the minute and the hour maps, and the machines, have the same
code and separate files, so one of them is modelled. `mem` and `watermark` are `minutes` and `lastFlushedMin`. The
`file` is its lines, and whether the last one lacks its newline: `appendLines` leaves it so and `writeLines` does not.
A line with two objects or a part of one is `Garbled`; `Load` skips it and `trimLines` drops it. `flush[f]` is the
`Flush` call of the loop or of `main`: `Collect` is the critical section, then come `AppendBatch`, `Mark`, `Trim`,
`Rewrite`, each with its failure. `Stop` is `cancelEvents`, after which both flush once more; `Down` is the end of the
process at any time; `Load` and `LoadFails(n)` the start (an error after `n` lines is only logged).

`taken`, `late`, `copies`, `again`, `marked` are observations. What the properties excuse, each found by TLC:

* `late`: a sample carries the time at which its sampling pass began, so a bucket may come to be after its minute, below
  a watermark that has passed; it is never flushed.
* `again`: a key that both flushes of a shutdown collected; one of a batch whose append failed, which may be on disk in
  part and is retried whole; one that a load which then failed had read, as the watermark stays at 0.

Left out: the averages, the files of other machines (a failure there only skips the trim), two rewrites going through
the one temporary file at the same moment.

## Runs

| run | result | shows |
|---|---|---|
| `safe_apply` | passes, 180k states | what is live is what the manager says, acknowledged per-VM rules stay live, a trial can be undone, every `Apply()` returns, refinement of `HostTrial` |
| `safe_apply_timer` | violation | a timer's late callback rolls back the *next* transaction |
| `backup_runs` | passes, 587k states | retention never goes for the run being written, a success is complete, Reconcile keeps the log true, jobs end |
| `backup_chain_records` | passes, 1.75M states | stale saves of the chain file break a chain only in the named cases; Reconcile beside increments |
| `sessions` | passes, 657k states | revoked and ended credentials stay dead, roles are current, an administrator remains, the blacklist gets written |
| `perimeter` | passes, 856k states | jail and kernel agree but for named causes, the whitelist is honoured, guesses are bounded |
| `machines` | passes, 2.16M states | disks are there with their data, schedules are obeyed, jobs file their outcome |
| `backup_chain_wiring` | violation | as wired, retention deletes the base of a live chain |
| `backup_newest` | violation | the first file of the next run makes keep-last 1 delete the only good run |
| `backup_schedule` | violation | an enabled schedule fires and never gets a job |
| `history` | passes, 1.54M states | buckets are marked only when written, written once but for named causes, served for the whole window, flushed in the end |
| `history_restart` | violation | two ordinary flushes spoil a line of the file, and its buckets are gone after a restart |

The properties of the passing runs:

* `KernelTracksBook`: with `applyMu` free the kernel carries the host rules the manager believes to be
  live, except after three causes: an `Apply()` that was overtaken between copy and load, a rollback that
  nft refused, a startup load that nft refused. The first one contradicts `nft.go:541-542`, "per-VM Apply() calls
  (from the VmDetail page) never disturb a pending host apply": an `Apply()` that copied the host rules
  (`nft.go:184`) before a stage or a rollback loads them after it.
* `AckedVmRulesLive`: no rendering that lacks an acknowledged per-VM change is ever loaded, although stage and
  rollback render without `rulesMu`; what a start could not read is excused.
* `TrialCanBeUndone`: a pending transaction has a running timer or a waiting callback, and would go back to
  the current baseline.
* `ApplyReturns`: the two mutexes are never waited for in a circle, although `Apply()` waits for one with the other in
  its hands.
* `ImplementsTrial`: `SafeApply` implements `HostTrial`, with its liveness: no trial lasts for ever.
* `RunningRunIntact`, `SuccessMeansComplete`, `JobEnds`: see their comments in `Backup`.
* `ChainGroundedUnlessRaced`: every chain starts with a full backup and each entry is an increment of the
  one before, unless its chain was changed between a backup's reading of its parent and its loading of
  the records (`DeleteBackupChain` during an incremental run), or the backup could not read the chain.

* `ReconcileTruthful`: no file is struck from a job's record, and a file that an adopted job names is there, for
  every run that had ended when the target was listed and that nobody deleted.
* `RoleCurrentOrDead`, `RevokedStaysDead`, `EndedStaysEnded`, `AdminRemains`, `DirtyFlushed`: see *Sessions*.
* `BannedIsDropped`, `DropIsListed`, `WhitelistHonoured`, `GuessesBounded`: see *Perimeter*.
* `DiskThere`, `DataKept`, `ScheduleObeyed`, `OutcomeFiled`: see *Machines*. `ScheduleObeyed` also says that
  `Rebuild` waits for what is firing: an entry that was taken out does not act after the request returned. `OutcomeFiled`
  is about what clients poll: a job that shows as running has a goroutine at work, unless that panicked, which files nothing.
* `MarkedIsWritten`, `WrittenOnce`, `WindowServed`, `EventuallyFlushed`: see *History*.

### Findings

Disagreements between the code and what its comments say, each with a run that shows it (`findings`
in `PROJECT.json` quotes the lines):

1. `nft.go:578`: a timer callback is not tied to its transaction.
2. `retention.go:175`: retention looks for chains in the wrong directory.
3. `runner.go:567`: the pass of a finished run counts the next, unfinished run.
4. `runner.go:251`: the schedule's identifier is passed as the target's.
5. `history.go:616`: a batch is appended without a newline after its last line.

Other comments promise more than the code keeps. The properties name these cases instead, each as a cause that TLC
showed to be needed: `nft.go:541-542` (`stale_apply`), `main.go:702-703` (`unread`, `dropped`), `storage_move.go:32-39`
(`unrepointed`, `live`), `storage.go:973-974` (`misread`), `user/store.go:240-241` (`unguarded`), `vmsched.go:2-3`
(`unloaded`). Two error paths that no comment mentions are named as well: a job whose record could not be saved
(`store.go:1595`, `unlogged`) and a backup whose state could not be asked (`libvirtbackup/backup.go:131`, `blind`).

### Bounds

* `SafeApply`: two host rulesets, two concurrent `Apply()` requests, and, as `Budgets` says, two stages with one change of
  the per-VM rules and one crash, or two changes and a crash. Two stages are what a late callback needs; two appliers are
  what an older rendering over a newer one needs; a second change is what writes a file again that could not be read.
* `Backup`: two jobs, one retention pass at a time, keep-last 1. `Mixes` says what goes together in one behaviour:
  in `backup_runs` one fault (a crash, a failed write, a libvirt call that failed or was not seen, a failed save or load,
  a target that is not there) with either passes and one deletion by the operator or one reconciliation, or two
  faults; in `backup_chain_records` passes with a
  deletion, a reconciliation or a fault. One machine in `backup_runs`, two in
  `backup_chain_records`, where lost updates need two and where only incremental runs matter. Two jobs are a
  chain of two entries, and a run beside the retention of an earlier one. A chain of three, and three faults, are beyond these runs.
* `Schedules`: two targets, one schedule, three changes of the tables.
* `Sessions`: the seed administrator and one more account, one handler in flight beside the single-step operations,
  up to three credentials and up to three changes, at most four together, one failed write, one restart. Two
  credentials are an original and what is minted from it, three a session and two API tokens (the use of one saves
  what the revocation of the other could not); three changes are a deletion, a re-creation and a revocation.
* `Perimeter`: one IPv4 client, two logins in flight, thresholds of 1 or 2, times of up to 2 ticks. Addresses do not
  influence each other except through the table, which is replaced whole. Nothing else is bounded.
* `Machines`: a machine with two disks (a rollback needs one done and one failing), a second one
  whose name is that of the first one's files, two pools. `Budgets` says what goes together: two moves; a move, a
  request (an edit or a deletion) and a start; a move and two starts; two requests and a start.
* `History`: four minutes, a window of two with one more on disk, three buckets in memory (the code: 24 hours, one
  hour, 1444 minutes, that is four more than the window), a sample up to two minutes late (one such bucket at a time),
  one failing operation, one restart. Two minutes are what it takes for the watermark to pass a late bucket. Four minutes fill
  the memory, age a bucket out of the file and leave time for two flushes on either side of a restart.

Deadlock is checked where something can always begin (`backup_chain_records`, `perimeter`, `history`). In `safe_apply` a
request can begin unless every applier waits, and a circle of locks is found as a violation of `ApplyReturns`. In
the other passing runs a behaviour ends when its bounds are used up.

### Fairness

* An nft process, a file write and a file save end, one way or the other; a timer fires (weak fairness).
* A goroutine that waits for a mutex gets it: Go's mutexes go into starvation mode after a millisecond and
  are handed to the longest waiter. Hence strong fairness of `ApplyLock`, `ApplySnapshot` and `StartRun`, and the weak
  fairness of a timer's callback, which is enough for its own transaction: while that is pending no other
  stage gets past its check.
* libvirt ends every backup it began (`waitBackupJob` has no deadline, so `JobEnds` rests on this).
* The blacklist's gc ticks every five minutes (`Gc` in `Sessions`), and writes do not fail for ever.
* The ticker fires and the loop's goroutine runs (`FlushStep(Loop)` in `History`); operations fail finitely often.
* The service manager restarts the daemon (`Restart` in `Backup`). Nothing is assumed about administrators: no
  fairness for stage, confirm, rollback requests or new jobs.

## Proofs

`SafeApply_proofs` proves, for every set of rules and requests and every bound:

* `TypeCorrect`: `Spec => []TypeOK`.
* `Inductive`: the invariant below.
* `KernelTracksBookThm`, `AckedVmRulesLiveThm`, `TrialCanBeUndoneThm`: the three invariants of the run.
* `RefinesTrial`: the safety part of the refinement, `Spec => Trial!Spec`.

Assumed: `EmptyRules` is a ruleset, the bounds are naturals, and `Nil` is none of the things it stands in
for (`RulesAssumption`, `BoundsAssumption`, `NilAssumption` in `SafeApply`; TLC evaluates them too).

None of the three properties is inductive. The strengthening has these parts:

* `LocksHeld`: `rulesMu` is held exactly by the `Apply()` that waits for `applyMu`, renders or loads, and nothing runs in a dead
  daemon. It makes "the one that is loading" unique.
* `TransitionHoldsBaseline`: whoever holds `applyMu` across nft excludes a pending transaction and goes back
  to the current baseline. `TrialCanBeUndone` after a stage follows from it.
* `SnapshotsFresh`: an `Apply()` that no stage and no rollback overtook carries the host rules of now, and
  none such is loading during a rollback's nft run. This carries `KernelTracksBook` through `ApplyLoaded`.
* `BookUntilRollback`: `KernelTracksBook`, extended to the time in which a stage is being loaded, since a
  failed stage changes nothing.
* `ChangesOrdered`: a per-VM change reaches memory, file, kernel and caller in this order, and a rendering that
  is about to be loaded holds what is acknowledged. A file that could not be read may be ahead of memory, by `unread`,
  until it is written again.
* `TransitionRendersAcked`: what a stage or a rollback rendered under `applyMu` covers everything
  that is, or will be before its nft run ends, acknowledged. This is why rendering without `rulesMu` is
  harmless: to be acknowledged in that window an `Apply()` must have passed `BuildRuleset` before.
* `StagedSinceStartup`: a transaction that is pending or being rolled back was staged after the last startup
  load, so its rollback cannot bring a failed startup back.

`Perimeter_proofs` proves, for any addresses, jails, whitelist entries, thresholds, window and finite number of logins
in flight (`SetsAssumption`, `BoundsAssumption` in `Perimeter`):

* `TypeCorrect`, `BannedIsDroppedThm`, `DropIsListedThm`, `WhitelistHonouredThm`, `GuessesBoundedThm`: the five
  invariants of the run `perimeter`.
* `Inductive`: their conjunction with the two parts below. The jail and the limiter share no variable, so the
  invariant is one conjunction per side, and each action is shown to preserve the side it writes.

`KernelIsV4` (the table `ip webkvm` holds IPv4 elements only) is what `DropIsListed` needs when the ban of an
IPv6 address is lifted: the kernel is not asked, so nothing must be in the set. `LockOutlastsWindow` (a bucket at its limit is
locked for at least as long as it lasts) is why a request that passes `Allow` finds its bucket below the limit or gets
a new one; `GuessesBounded` then follows by counting the requests in flight, which a failed check moves from one
summand to the other.

`Sessions_proofs` proves, for any accounts, handlers in flight and numbers of changes, credentials, failed writes and
restarts (`SeedAssumption`, `NilAssumption`, `BoundsAssumption` in `Sessions`): `SessionsTyped`,
`RoleIsCurrentOrDead`, `RevocationHolds`, `EndIsFinal`, `AdministratorRemains`, from `SessionsInvariant`. Its parts:

* `EpochTells`: for an account whose epoch never went back, a credential, *or a handler that is about to mint
  one*, that has the account's epoch also has its role and knows every revocation. The properties speak of credentials
  only; the one that is minted after a revocation comes from what its handler read before it.
* `DiskCurrent`: the file of the accounts lags only behind a save that failed, so a restart moves an epoch back only
  where `reset` says so. `KnownOnly`, `IdsUnique`, `AccountsCounted` and `IdsCounted` keep a new account and a new
  identifier apart from the old ones.
* `JobFromCredential`, `BlacklistSaved`, `EndedGone`: what a handler will end is a session, and the store that is asked
  for each kind knows what was ended, on disk too unless it is dirty.
* `AdminStored`: an administrator is left in memory *and* in the file, which a restart brings back.

`History_proofs` proves, for every window, bound of the memory above the window, lag and number of failures and crashes
(`FlushersAssumption`, `SizesAssumption` in `History`): `HistoryTyped`, `MarkedMeansWritten`, `AppendedOnce`,
`QueriesServed`, from `HistoryInvariant`. Its parts:

* `BatchCovers`, `BatchFits`: a batch was collected long before its mark; it skips no bucket that the mark will pass,
  although samples come in between, because only `late` ones are below what was collected.
* `SharedIsAgain`, `BatchIsNew`, `AppendedIsMarked`: a batch that waits to be appended is not in the file yet, whatever
  the other flusher does, unless `again` says so.
* `Past`, `LinesCounted`, `DownIsEmpty`: nothing is ahead of the clock, what parses was appended, and a daemon that is
  down carries nothing over.

`Backup_proofs` proves, for any machines, number of jobs, passes and faults, and for every policy (`BackupConstants` in
`Backup`): `BackupTyped`, `RunNeverTornApart`, `SuccessIsComplete`, `ReconcileIsTruthful`, `ChainsGrounded`, from
`BackupInvariant`. Its parts:

* `RunsOrdered` with a lemma on `Retention` (every enabled rule keeps the newest run of its group): the run that is being
  written is the last, so a pass that sees it keeps it, and one that listed before it began cannot name it.
* `JobsFit`, `RunFits`, `Complete`: how far a run is and what of its scope is on the target at each of its points.
* `NamedIsThere`, `AdoptedIsThere`, `ReadFits`, `RecordsKept`: what Reconcile listed and what it read of the log later
  still agree for the runs that had ended, so what it adopts is there and what it strikes is not.
* `CopiesGrounded`, `ParentIsTip`: every copy of the chain file that a request carries is grounded, and the records a
  backup appends to end in the parent it was made against, unless its machine raced or could not be read.

`Machines_proofs` proves, for any machines, disks, pools, names, moves, requests and starts (`DisksAssumption`: the disks
are finitely many, each with a machine, a place and a file of its own; `NilAssumption`, `RequestsAssumption`,
`BudgetsAssumption`): `MachinesTyped`, `DisksThere`, `DataIsKept`, `SchedulesObeyed`, `OutcomesFiled`, from `MachinesInvariant`. The
proof first reduces every step to one of seventeen *kinds* (`Started`, `Created`, `Pointed`, `Reverted`, `Deleted`, ...),
which say what it does to machines, files and jobs, and then shows each part of the invariant kept by each kind. Its parts:

* `SourceThere`, `TodoFits`, `DoneFits`, `ListsFit`: the sources and the originals of the disks a move has done are
  files of that disk, in different pools; what is still to do is where the job saw it. A rollback needs the originals,
  and the clean-up must not meet a source.
* `OneMove`, `OriginalsApart`: a machine has one move that may repoint it, and those that still clean up have
  other originals.
* `CopyFits`, `MadeByMover`: the name chosen for a copy is none the machine needs, and the copy is the job's own when it
  repoints. That a chosen name is free (`FreeName`) is a lemma about `VMDiskPath`: one more than the greatest number.
* `VictimsFit`: what a sweep has looked at, while it is that file, is nothing its machine needs, and was not made by a job at work;
  this is what makes the deletion some steps later harmless, or marked.
* `OffWhileMoving`, `OpenIsSource`, `DataThere`, `OriginalsFull`, for `DataKept`: nobody writes to a disk that is being
  moved, and a guest writes to the file its definition names. A machine that is live during its move, or whose XML is not
  its definition when one begins, is one with a cause.
* `TablesAgree`, for `ScheduleObeyed`: table, file and entries differ only while some request has yet to save or to rebuild,
  and the file when the last start could not read it.

All 28 safety invariants and the safety part of the refinement that the passing runs check are thus proved for every
value of the constants. Only model-checked: liveness (`ApplyReturns`, the liveness of `HostTrial`, `JobEnds`,
`DirtyFlushed`, `EventuallyFlushed`), which is out of the prover's reach, and `Schedules` with the
other violated properties, of which there is nothing to prove.

## Plan

In this order:

1. *Action properties.* What a step may never do, where an invariant cannot say it (a watermark that goes back without
   a restart, a baseline that moves without a confirmation), stated and proved from the invariants above.
2. *Schedules.* `Reload` in several steps, as two requests can run it at once.
3. *Volumes.* Moving a single volume and linked clones, added to `DiskMoves`.
4. *Audit log.* The rotation of `audit/audit.go` with failing renames and reopenings.
