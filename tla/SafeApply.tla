----------------------------- MODULE SafeApply -----------------------------
(* The firewall manager of backend/internal/firewall/nft.go and the callers *)
(* that drive it concurrently.                                               *)
(*                                                                           *)
(* The manager keeps two kinds of rules.  The host rules go through the      *)
(* Safe-Apply protocol: StageHostApply loads a new ruleset into the kernel   *)
(* and starts a rollback timer, ConfirmHostApply makes it the persistent     *)
(* baseline, RollbackHostApply (called by an administrator or by the timer)  *)
(* loads the previous one again.  These three hold applyMu, across the nft   *)
(* run too.  The per-VM rules are stored first and then loaded by Apply(),   *)
(* which takes rulesMu for its whole run and, holding it, waits for applyMu, *)
(* which it keeps only for the moment in which it copies the host rules to   *)
(* render.  Both paths replace the whole nftables table in one atomic nft    *)
(* transaction.                                                              *)
(*                                                                           *)
(* A request that waits for applyMu has no state of its own, so the requests *)
(* on the host rules are not processes: crit is the one that is inside.      *)
(* The per-VM rules (and the NAT bridges, stored and re-applied the same     *)
(* way) are abstracted to the set of the changes the store's content has in  *)
(* it, each request's change having a number of its own.                     *)
EXTENDS Integers, FiniteSets

CONSTANTS
    HostRules,   \* the host rulesets that pass ValidateHostFirewall
    EmptyRules,  \* the ruleset of a host with no firewall-host.json
    Appliers,    \* the request goroutines that end in Manager.Apply()
    Nil,         \* a nil *pendingApply, a free mutex, no snapshot
    MaxStages,   \* bound: safe-applies staged over a behaviour
    MaxChanges,  \* bound: changes of the per-VM rules over a behaviour
    MaxCrashes,  \* bound: crashes of the daemon over a behaviour
    Budgets      \* bound: which numbers of the three go together in a behaviour

Timers == 1 .. MaxStages
Changes == 1 .. MaxChanges

\* What pendingApply holds; its timer names the transaction.
PendingApply == [prev : HostRules, next : HostRules, timer : Timers]

\* A safe-apply transition that holds applyMu while its nft process runs.
Transition == [op : {"stage", "rollback"}, prev : HostRules,
               next : HostRules, vm : SUBSET Changes]

ASSUME RulesAssumption == EmptyRules \in HostRules
ASSUME BoundsAssumption == MaxStages \in Nat /\ MaxChanges \in Nat /\ MaxCrashes \in Nat
ASSUME NilAssumption == /\ Nil \notin PendingApply
                        /\ Nil \notin Transition
                        /\ Nil \notin Appliers
                        /\ Nil \notin HostRules

VARIABLES
    up,        \* is the daemon running
    hostMem,   \* HostStore.fw
    hostDisk,  \* firewall-host.json
    vmMem,     \* Store.byVM: the changes in it
    vmDisk,    \* firewall.json: the changes in it
    pending,   \* Manager.pending
    armed,     \* rollback timers that have not fired
    fired,     \* rollback timers whose callback waits for applyMu
    crit,      \* who holds applyMu across an nft run
    rulesMu,   \* who holds rulesMu
    pc,        \* of each applier
    req,       \* the change an applier's request stored (0: none)
    snap,      \* the host rules BuildRuleset copied under applyMu
    rend,      \* the per-VM rules the applier rendered
    kernel     \* the nftables table webkvm: the rules that are live

\* Observations no code keeps, for the properties.
VARIABLES
    stages,      \* safe-applies staged so far
    changes,     \* changes of the per-VM rules so far
    crashes,     \* crashes so far
    acked,       \* the per-VM changes whose request returned success
    unread,      \* what firewall.json held when this daemon could not read it
    dropped,     \* what was unread when firewall.json was written again
    overlapped,  \* appliers whose snapshot a stage or a rollback overtook
    cause        \* why the kernel may differ from the manager's book

hostVars == <<hostMem, hostDisk, pending, armed, fired, crit, stages>>
vmVars == <<vmMem, vmDisk, changes, unread, dropped>>
applyVars == <<rulesMu, pc, req, snap, rend>>
seen == <<acked, overlapped, cause>>
vars == <<up, hostVars, vmVars, applyVars, kernel, crashes, seen>>

Init ==
    /\ up = TRUE
    /\ hostMem = EmptyRules /\ hostDisk = EmptyRules
    /\ vmMem = {} /\ vmDisk = {}
    /\ pending = Nil /\ armed = {} /\ fired = {}
    /\ crit = Nil /\ rulesMu = Nil
    /\ pc = [a \in Appliers |-> "idle"]
    /\ req = [a \in Appliers |-> 0]
    /\ snap = [a \in Appliers |-> Nil]
    /\ rend = [a \in Appliers |-> {}]
    /\ kernel = [host |-> EmptyRules, vm |-> {}]
    /\ stages = 0 /\ changes = 0 /\ crashes = 0
    /\ acked = {} /\ unread = {} /\ dropped = {} /\ overlapped = {} /\ cause = "none"

\* One of the budgets has room for s more stages, c more changes and k more
\* crashes; a stage that is being loaded counts.
Within(s, c, k) ==
    LET staging == IF crit # Nil /\ crit.op = "stage" THEN 1 ELSE 0
    IN \E b \in Budgets : /\ stages + staging + s <= b.stages
                          /\ changes + c <= b.changes /\ crashes + k <= b.crashes

\* The host rules the manager believes to be live (BuildRuleset's choice).
Effective == IF pending = Nil THEN hostMem ELSE pending.next

\* Appliers between the snapshot of the host rules and their nft run.
Loading == {a \in Appliers : pc[a] \in {"render", "nft"}}

-----------------------------------------------------------------------------
(* Safe-Apply: the transitions that hold applyMu.                            *)

\* Mutant: a second stage is not refused while one is pending.
StageBegin_PendingNotChecked(next) ==
    /\ up /\ crit = Nil
    /\ stages < MaxStages /\ Within(1, 0, 0)
    /\ crit' = [op |-> "stage", prev |-> hostMem, next |-> next, vm |-> vmMem]
    /\ UNCHANGED <<up, hostMem, hostDisk, pending, armed, fired, stages,
                   vmVars, applyVars, kernel, crashes, seen>>

\* StageHostApply up to the nft run: refuse when one is pending, keep the
\* baseline for the rollback, render next with the per-VM rules of now.
StageBegin(next) ==
    /\ up /\ crit = Nil /\ pending = Nil
    /\ stages < MaxStages /\ Within(1, 0, 0)
    /\ crit' = [op |-> "stage", prev |-> hostMem, next |-> next, vm |-> vmMem]
    /\ UNCHANGED <<up, hostMem, hostDisk, pending, armed, fired, stages,
                   vmVars, applyVars, kernel, crashes, seen>>

\* Mutant: the stage loads its ruleset under rulesMu, taken after applyMu.
StageRun_TakesRulesMu ==
    /\ crit # Nil /\ crit.op = "stage" /\ rulesMu = Nil
    /\ crit' = Nil

\* The nft run of a stage ends, whichever way, and applyMu is released.
StageRun ==
    /\ crit # Nil /\ crit.op = "stage"
    /\ crit' = Nil

\* Mutant: the rollback timer is not started.
StageLoaded_NoTimer ==
    /\ StageRun
    /\ kernel' = [host |-> crit.next, vm |-> crit.vm]
    /\ stages' = stages + 1
    /\ pending' = [prev |-> crit.prev, next |-> crit.next, timer |-> stages + 1]
    /\ overlapped' = overlapped \cup Loading
    /\ cause' = "none"
    /\ UNCHANGED <<up, hostMem, hostDisk, armed, fired, vmVars, applyVars,
                   crashes, acked>>

\* nft took the ruleset: it is live, the transaction is pending and its
\* rollback timer runs.
StageLoaded ==
    /\ StageRun
    /\ kernel' = [host |-> crit.next, vm |-> crit.vm]
    /\ stages' = stages + 1
    /\ pending' = [prev |-> crit.prev, next |-> crit.next, timer |-> stages + 1]
    /\ armed' = armed \cup {stages + 1}
    /\ overlapped' = overlapped \cup Loading
    /\ cause' = "none"
    /\ UNCHANGED <<up, hostMem, hostDisk, fired, vmVars, applyVars, crashes, acked>>

\* nft refused it (or could not run): nothing changed, the request fails.
StageFailed ==
    /\ StageRun
    /\ UNCHANGED <<up, hostMem, hostDisk, pending, armed, fired, stages,
                   vmVars, applyVars, kernel, crashes, seen>>

\* Mutant: the confirmed rules are written to the file but not to the store.
Confirm_StoreNotSet(persisted) ==
    /\ up /\ crit = Nil /\ pending # Nil
    /\ armed' = armed \ {pending.timer}
    /\ hostDisk' = IF persisted THEN pending.next ELSE hostDisk
    /\ pending' = Nil
    /\ UNCHANGED <<up, hostMem, fired, crit, stages, vmVars, applyVars, kernel,
                   crashes, seen>>

\* ConfirmHostApply: the timer is stopped (in vain when it has fired), the
\* pending transaction dropped and its rules made the baseline, in memory even
\* when the file cannot be written.
Confirm(persisted) ==
    /\ up /\ crit = Nil /\ pending # Nil
    /\ armed' = armed \ {pending.timer}
    /\ hostMem' = pending.next
    /\ hostDisk' = IF persisted THEN pending.next ELSE hostDisk
    /\ pending' = Nil
    /\ UNCHANGED <<up, fired, crit, stages, vmVars, applyVars, kernel, crashes, seen>>

\* RollbackHostApply up to the nft run, whoever called it: the transaction is
\* dropped BEFORE the previous rules are loaded again.
RollbackBegin ==
    /\ up /\ crit = Nil /\ pending # Nil
    /\ armed' = armed \ {pending.timer}
    /\ crit' = [op |-> "rollback", prev |-> pending.prev,
                next |-> pending.prev, vm |-> vmMem]
    /\ pending' = Nil
    /\ overlapped' = overlapped \cup Loading

\* The administrator's rollback request.
RollbackRequest ==
    /\ RollbackBegin
    /\ UNCHANGED <<up, hostMem, hostDisk, fired, stages, vmVars, applyVars,
                   kernel, crashes, acked, cause>>

\* The callback of timer t gets applyMu.  It rolls back whatever is pending
\* then, or nothing.
TimerCallback(t) ==
    /\ up /\ crit = Nil /\ t \in fired
    /\ fired' = fired \ {t}
    /\ \/ RollbackBegin
       \/ pending = Nil /\ UNCHANGED <<pending, armed, crit, overlapped>>
    /\ UNCHANGED <<up, hostMem, hostDisk, stages, vmVars, applyVars, kernel,
                   crashes, acked, cause>>

RollbackLoaded ==
    /\ crit # Nil /\ crit.op = "rollback"
    /\ kernel' = [host |-> crit.prev, vm |-> crit.vm]
    /\ crit' = Nil
    /\ cause' = "none"
    /\ UNCHANGED <<up, hostMem, hostDisk, pending, armed, fired, stages,
                   vmVars, applyVars, crashes, acked, overlapped>>

\* The previous rules could not be loaded.  Nothing is pending any more, so
\* nothing tries again.
RollbackFailed ==
    /\ crit # Nil /\ crit.op = "rollback"
    /\ crit' = Nil
    /\ cause' = "rollback_failed"
    /\ UNCHANGED <<up, hostMem, hostDisk, pending, armed, fired, stages,
                   vmVars, applyVars, kernel, crashes, acked, overlapped>>

\* The window of timer t ends: its callback's goroutine starts.
TimerFire(t) ==
    /\ up /\ t \in armed
    /\ armed' = armed \ {t}
    /\ fired' = fired \cup {t}
    /\ UNCHANGED <<up, hostMem, hostDisk, pending, crit, stages, vmVars,
                   applyVars, kernel, crashes, seen>>

-----------------------------------------------------------------------------
(* Requests that change the per-VM rules and end in Apply().                 *)

\* Store.Set changes the map under the store's mutex ...
VmSet(a) ==
    /\ up /\ pc[a] = "idle"
    /\ changes < MaxChanges /\ Within(0, 1, 0)
    /\ changes' = changes + 1
    /\ vmMem' = vmMem \cup {changes + 1}
    /\ req' = [req EXCEPT ![a] = changes + 1]
    /\ pc' = [pc EXCEPT ![a] = "save"]
    /\ UNCHANGED <<up, hostVars, vmDisk, unread, dropped, rulesMu, snap, rend,
                   kernel, crashes, seen>>

\* ... and then saves whatever the map holds by then.
VmSaved(a) ==
    /\ pc[a] = "save"
    /\ vmDisk' = vmMem
    /\ dropped' = dropped \cup unread
    /\ pc' = [pc EXCEPT ![a] = "apply"]
    /\ UNCHANGED <<up, hostVars, vmMem, changes, unread, rulesMu, req, snap, rend,
                   kernel, crashes, seen>>

\* The file could not be written: the request fails without Apply(), and the
\* map keeps the change.
VmSaveFailed(a) ==
    /\ pc[a] = "save"
    /\ pc' = [pc EXCEPT ![a] = "idle"]
    /\ req' = [req EXCEPT ![a] = 0]
    /\ UNCHANGED <<up, hostVars, vmVars, rulesMu, snap, rend, kernel, crashes, seen>>

\* A VM that starts, or a network that changes, has the ruleset applied again
\* without a change of the VM rules.
Reapply(a) ==
    /\ up /\ pc[a] = "idle"
    /\ pc' = [pc EXCEPT ![a] = "apply"]
    /\ UNCHANGED <<up, hostVars, vmVars, rulesMu, req, snap, rend, kernel, crashes, seen>>

\* Mutant: Apply does not wait for rulesMu.
ApplyLock_NoRulesMu(a) ==
    /\ pc[a] = "apply"
    /\ rulesMu' = a
    /\ pc' = [pc EXCEPT ![a] = "locked"]
    /\ UNCHANGED <<up, hostVars, vmVars, req, snap, rend, kernel, crashes, seen>>

\* Apply takes rulesMu and keeps it until it returns ...
ApplyLock(a) ==
    /\ pc[a] = "apply" /\ rulesMu = Nil
    /\ rulesMu' = a
    /\ pc' = [pc EXCEPT ![a] = "locked"]
    /\ UNCHANGED <<up, hostVars, vmVars, req, snap, rend, kernel, crashes, seen>>

\* ... BuildRuleset waits for applyMu with rulesMu held, copies the host rules
\* and lets applyMu go ...
ApplySnapshot(a) ==
    /\ pc[a] = "locked" /\ crit = Nil
    /\ snap' = [snap EXCEPT ![a] = Effective]
    /\ pc' = [pc EXCEPT ![a] = "render"]
    /\ UNCHANGED <<up, hostVars, vmVars, rulesMu, req, rend, kernel, crashes, seen>>

\* ... then reads the per-VM rules and renders.
ApplyRender(a) ==
    /\ pc[a] = "render"
    /\ rend' = [rend EXCEPT ![a] = vmMem]
    /\ pc' = [pc EXCEPT ![a] = "nft"]
    /\ UNCHANGED <<up, hostVars, vmVars, rulesMu, req, snap, kernel, crashes, seen>>

\* The end of Apply: rulesMu is released and the request answered.
ApplyReturn(a) ==
    /\ pc[a] = "nft"
    /\ rulesMu' = Nil
    /\ pc' = [pc EXCEPT ![a] = "idle"]
    /\ req' = [req EXCEPT ![a] = 0]
    /\ snap' = [snap EXCEPT ![a] = Nil]
    /\ rend' = [rend EXCEPT ![a] = {}]
    /\ overlapped' = overlapped \ {a}
    /\ UNCHANGED <<up, hostVars, vmVars, crashes>>

ApplyLoaded(a) ==
    /\ ApplyReturn(a)
    /\ kernel' = [host |-> snap[a], vm |-> rend[a]]
    /\ acked' = acked \cup ({req[a]} \ {0})
    /\ cause' = IF a \in overlapped THEN "stale_apply" ELSE "none"

ApplyFailed(a) ==
    /\ ApplyReturn(a)
    /\ UNCHANGED <<kernel, acked, cause>>

-----------------------------------------------------------------------------
(* The daemon's own life.                                                    *)

\* The daemon dies (the kernel keeps its table) or the host does (the table is
\* gone).  Only the two files survive in the daemon.
Crash(rebooted) ==
    /\ up /\ crashes < MaxCrashes /\ Within(0, 0, 1)
    /\ crashes' = crashes + 1
    /\ up' = FALSE
    /\ pending' = Nil /\ armed' = {} /\ fired' = {} /\ crit' = Nil
    /\ rulesMu' = Nil /\ overlapped' = {}
    /\ pc' = [a \in Appliers |-> "idle"]
    /\ req' = [a \in Appliers |-> 0]
    /\ snap' = [a \in Appliers |-> Nil]
    /\ rend' = [a \in Appliers |-> {}]
    /\ kernel' = IF rebooted THEN [host |-> EmptyRules, vm |-> {}] ELSE kernel
    /\ UNCHANGED <<hostMem, hostDisk, stages, vmVars, acked, cause>>

\* Mutant: a host store that cannot be read is left unset.
Restart_StoreUnset(hostRead, vmRead, loaded) ==
    /\ ~up
    /\ up' = TRUE
    /\ hostMem' = IF hostRead THEN hostDisk ELSE Nil
    /\ vmMem' = IF vmRead THEN vmDisk ELSE {}
    /\ unread' = IF vmRead THEN {} ELSE vmDisk
    /\ kernel' = IF loaded THEN [host |-> hostMem', vm |-> vmMem'] ELSE kernel
    /\ cause' = IF loaded THEN "none" ELSE "startup_failed"
    /\ UNCHANGED <<hostDisk, pending, armed, fired, crit, stages, vmDisk, changes,
                   dropped, applyVars, crashes, acked, overlapped>>

\* main: load both stores, then Apply() before any request is served.  Each
\* failure is logged and the daemon serves on: a file that cannot be read or
\* parsed leaves its store empty, and that is what Apply() loads.
Restart(hostRead, vmRead, loaded) ==
    /\ ~up
    /\ up' = TRUE
    /\ hostMem' = IF hostRead THEN hostDisk ELSE EmptyRules
    /\ vmMem' = IF vmRead THEN vmDisk ELSE {}
    /\ unread' = IF vmRead THEN {} ELSE vmDisk
    /\ kernel' = IF loaded THEN [host |-> hostMem', vm |-> vmMem'] ELSE kernel
    /\ cause' = IF loaded THEN "none" ELSE "startup_failed"
    /\ UNCHANGED <<hostDisk, pending, armed, fired, crit, stages, vmDisk, changes,
                   dropped, applyVars, crashes, acked, overlapped>>

-----------------------------------------------------------------------------
HostNext ==
    \/ \E r \in HostRules : StageBegin(r)
    \/ StageLoaded \/ StageFailed
    \/ \E b \in BOOLEAN : Confirm(b)
    \/ RollbackRequest \/ RollbackLoaded \/ RollbackFailed
    \/ \E t \in Timers : TimerFire(t) \/ TimerCallback(t)

VmNext(a) ==
    \/ VmSet(a) \/ VmSaved(a) \/ VmSaveFailed(a) \/ Reapply(a)
    \/ ApplyLock(a) \/ ApplySnapshot(a) \/ ApplyRender(a)
    \/ ApplyLoaded(a) \/ ApplyFailed(a)

LifeNext ==
    \/ \E b \in BOOLEAN : Crash(b)
    \/ \E b, c, d \in BOOLEAN : Restart(b, c, d)

Next == HostNext \/ (\E a \in Appliers : VmNext(a)) \/ LifeNext

\* Fairness: time passes and a started callback runs; nft and the disk answer;
\* Go's mutexes hand themselves to every waiter eventually (their starvation
\* mode), which is strong fairness of the steps that take one.
Fairness ==
    /\ WF_vars(StageLoaded \/ StageFailed)
    /\ WF_vars(RollbackLoaded \/ RollbackFailed)
    /\ \A t \in Timers : WF_vars(TimerFire(t)) /\ WF_vars(TimerCallback(t))
    /\ \A a \in Appliers :
        /\ WF_vars(VmSaved(a) \/ VmSaveFailed(a))
        /\ SF_vars(ApplyLock(a)) /\ SF_vars(ApplySnapshot(a))
        /\ WF_vars(ApplyRender(a))
        /\ WF_vars(ApplyLoaded(a) \/ ApplyFailed(a))

Spec == Init /\ [][Next]_vars

FairSpec == Spec /\ Fairness

-----------------------------------------------------------------------------
TypeOK ==
    /\ up \in BOOLEAN
    /\ hostMem \in HostRules /\ hostDisk \in HostRules
    /\ vmMem \subseteq Changes /\ vmDisk \subseteq Changes
    /\ pending \in PendingApply \cup {Nil}
    /\ armed \subseteq Timers /\ fired \subseteq Timers
    /\ crit \in Transition \cup {Nil}
    /\ rulesMu \in Appliers \cup {Nil}
    /\ pc \in [Appliers -> {"idle", "save", "apply", "locked", "render", "nft"}]
    /\ req \in [Appliers -> Changes \cup {0}]
    /\ rend \in [Appliers -> SUBSET Changes]
    /\ snap \in [Appliers -> HostRules \cup {Nil}]
    /\ kernel \in [host : HostRules, vm : SUBSET Changes]
    /\ stages \in 0 .. MaxStages /\ changes \in 0 .. MaxChanges
    /\ crashes \in 0 .. MaxCrashes
    /\ acked \subseteq Changes /\ unread \subseteq Changes /\ dropped \subseteq Changes
    /\ overlapped \subseteq Appliers
    /\ cause \in {"none", "stale_apply", "rollback_failed", "startup_failed"}

\* The inductive invariant behind the safety properties, by its parts.
\* rulesMu is held exactly from Apply's first line to its return, there are host
\* rules in hand once they were copied, and a daemon that is down holds and runs
\* nothing.
LocksHeld ==
    /\ \A a \in Appliers : pc[a] \in {"locked", "render", "nft"} <=> rulesMu = a
    /\ \A a \in Loading : snap[a] # Nil
    /\ ~up => /\ pending = Nil /\ crit = Nil
              /\ \A a \in Appliers : pc[a] = "idle"

\* A transition's rollback target is the baseline; it excludes a pending
\* transaction, and a stage still has a timer to start.
TransitionHoldsBaseline ==
    crit # Nil => /\ pending = Nil /\ crit.prev = hostMem
                  /\ crit.op = "stage" => stages < MaxStages

\* An applier no stage and no rollback overtook carries the host rules of now.
SnapshotsFresh ==
    \A a \in Loading \ overlapped :
        snap[a] = Effective /\ (crit = Nil \/ crit.op = "stage")

\* KernelTracksBook, also while a stage is being loaded.
BookUntilRollback ==
    up /\ cause = "none" /\ (crit = Nil \/ crit.op = "stage")
        => kernel.host = Effective

\* The acknowledged changes a failed read of firewall.json did not take away.
Kept == acked \ (unread \cup dropped)

\* Changes reach memory, then the file, then the kernel, then the caller.  A
\* file that could not be read may be ahead of memory until it is written again.
ChangesOrdered ==
    /\ acked \subseteq vmDisk \cup dropped
    /\ vmDisk \subseteq vmMem \cup unread
    /\ vmMem \cup vmDisk \subseteq 1 .. changes
    /\ \A a \in Appliers :
        /\ pc[a] = "idle" => req[a] = 0
        /\ pc[a] = "save" => req[a] \in vmMem
        /\ pc[a] \in {"apply", "locked", "render", "nft"}
            => req[a] = 0 \/ req[a] \in vmMem \cap vmDisk
        /\ pc[a] = "nft" => Kept \cup ({req[a]} \ {0}) \subseteq rend[a]

\* Whoever holds applyMu rendered every change that can be acknowledged
\* before its nft run ends.
TransitionRendersAcked ==
    crit # Nil => /\ Kept \subseteq crit.vm
                  /\ \A a \in Loading : req[a] = 0 \/ req[a] \in crit.vm

\* A failed startup load is forgotten once a transaction was staged.
StagedSinceStartup ==
    pending # Nil \/ (crit # Nil /\ crit.op = "rollback")
        => cause # "startup_failed"

\* What the manager's book says against what is live: with applyMu
\* free, the kernel carries the pending rules, or the baseline when nothing is
\* pending, unless the last load was by an Apply() whose copy of the host rules
\* a stage or a rollback overtook, or nft failed a rollback or the startup
\* load.  No other order of stage, confirm, rollback, timers, Apply() and
\* crashes separates the two (nft.go: StageHostApply, RollbackHostApply, Apply).
KernelTracksBook ==
    up /\ crit = Nil /\ cause = "none" => kernel.host = Effective

\* A per-VM change whose request was answered with success stays live, whatever
\* interleaves with it: neither a stage nor a rollback nor another Apply() that
\* rendered earlier loads a store without it, and a restart loads it again.  The
\* only way to lose it is a firewall.json that cannot be read at startup: for
\* that daemon's life, and for good once another request has it written again
\* (nft.go: Apply under rulesMu, the stage and the rollback render under applyMu
\* without it; main.go: the failed Load is logged).
AckedVmRulesLive ==
    up /\ cause # "startup_failed" => Kept \subseteq kernel.vm

\* A staged transaction can always be undone: its own timer is still running
\* or its callback is waiting, and what the rollback would restore is the
\* current baseline (nft.go: pendingApply.prev is read once, when staging).
TrialCanBeUndone ==
    pending # Nil => /\ pending.timer \in armed \cup fired
                     /\ pending.prev = hostMem

\* Every request that goes through Apply() returns, although it waits for
\* applyMu with rulesMu in its hands: nobody waits for rulesMu under applyMu
\* (nft.go: Apply, BuildRuleset, StageHostApply, RollbackHostApply).
ApplyReturns == \A a \in Appliers : pc[a] # "idle" ~> pc[a] = "idle"

\* nft.go says of the rollback timer "fire once if Confirm never arrives": a
\* callback that rolls a transaction back is the one of that transaction, whose
\* window has ended.
TimerRollsBackItsOwn ==
    [][pending # Nil /\ pending' = Nil /\ fired' # fired /\ up'
        => pending.timer \in fired]_vars

\* Safe-Apply as the administrator sees it: the manager's store, file and
\* pending transaction behave as a baseline, its saved copy and a trial.
Trial == INSTANCE HostTrial WITH
    Rules <- HostRules, Empty <- EmptyRules, None <- Nil,
    baseline <- hostMem, saved <- hostDisk,
    trial <- IF pending = Nil THEN Nil ELSE pending.next

\* The manager implements the abstract trial: nothing that stage, confirm,
\* rollback, a late timer callback, Apply() or a crash does moves the baseline
\* other than by accepting the ruleset on trial, a restart takes up the saved
\* one (or none, when the file cannot be read), and every trial ends.
ImplementsTrial == Trial!FairSpec

=============================================================================
