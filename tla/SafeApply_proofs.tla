-------------------------- MODULE SafeApply_proofs --------------------------
(* Proofs about SafeApply, for any set of rulesets, any number of concurrent *)
(* requests and any bounds.  IInv is inductive; its parts are explained in   *)
(* SafeApply.  One lemma per action shows that the action preserves it.      *)
EXTENDS SafeApply, TLAPS

\* Who holds which lock, and what undoes what.
Protocol ==
    LocksHeld /\ TransitionHoldsBaseline /\ TrialCanBeUndone

\* The host rules in the kernel and in the appliers' hands.
HostSide == SnapshotsFresh /\ BookUntilRollback

\* The per-VM rules on their way to the kernel.
VmSide ==
    /\ ChangesOrdered /\ TransitionRendersAcked
    /\ StagedSinceStartup /\ AckedVmRulesLive

IInv == TypeOK /\ Protocol /\ HostSide /\ VmSide

USE RulesAssumption, BoundsAssumption, NilAssumption
USE DEF PendingApply, Transition, Timers, Changes

\* A fresh manager, with nothing pending and no request in flight, satisfies
\* the inductive invariant.
LEMMA InitInv == Init => IInv
BY DEF Init, IInv, TypeOK, Protocol, LocksHeld, TransitionHoldsBaseline,
       TrialCanBeUndone, HostSide, SnapshotsFresh, BookUntilRollback, VmSide,
       ChangesOrdered, Kept, TransitionRendersAcked, StagedSinceStartup,
       AckedVmRulesLive, Loading, Effective

\* The stage's rollback target and its per-VM rules are those of now.
LEMMA StageBeginInv ==
    ASSUME IInv, NEW r \in HostRules, StageBegin(r)
    PROVE  IInv'
<1>1. TypeOK'
  BY DEF IInv, TypeOK, StageBegin, hostVars, vmVars,
         applyVars, seen
<1>2. Protocol'
  BY DEF IInv, TypeOK, Protocol, LocksHeld, TransitionHoldsBaseline,
         TrialCanBeUndone, StageBegin, Loading, hostVars, vmVars, applyVars, seen
<1>3. HostSide'
  BY DEF IInv, TypeOK, Protocol, LocksHeld, TransitionHoldsBaseline,
         TrialCanBeUndone, HostSide, SnapshotsFresh, BookUntilRollback,
         StageBegin, Loading, Effective, hostVars, vmVars, applyVars, seen
<1>4. VmSide'
  BY DEF IInv, TypeOK, Protocol, LocksHeld, VmSide, ChangesOrdered, Kept,
         TransitionRendersAcked, StagedSinceStartup, AckedVmRulesLive,
         StageBegin, Loading, hostVars, vmVars, applyVars, seen
<1>5. QED
  BY <1>1, <1>2, <1>3, <1>4 DEF IInv

\* Every applier that carries the old host rules is marked as overtaken.
LEMMA StageLoadedInv ==
    ASSUME IInv, StageLoaded
    PROVE  IInv'
<1>1. TypeOK'
  BY DEF IInv, TypeOK, StageLoaded, StageRun, Protocol, LocksHeld, TransitionHoldsBaseline, Loading, hostVars, vmVars,
         applyVars, seen
<1>2. Protocol'
  BY DEF IInv, TypeOK, Protocol, LocksHeld, TransitionHoldsBaseline,
         TrialCanBeUndone, StageLoaded, StageRun, Loading, hostVars, vmVars, applyVars, seen
<1>3. HostSide'
  BY DEF IInv, TypeOK, Protocol, LocksHeld, TransitionHoldsBaseline,
         TrialCanBeUndone, HostSide, SnapshotsFresh, BookUntilRollback,
         StageLoaded, StageRun, Loading, Effective, hostVars, vmVars, applyVars, seen
<1>4. VmSide'
  BY DEF IInv, TypeOK, Protocol, LocksHeld, VmSide, ChangesOrdered, Kept,
         TransitionRendersAcked, StagedSinceStartup, AckedVmRulesLive,
         StageLoaded, StageRun, Loading, hostVars, vmVars, applyVars, seen
<1>5. QED
  BY <1>1, <1>2, <1>3, <1>4 DEF IInv

\* Nothing but applyMu changes.
LEMMA StageFailedInv ==
    ASSUME IInv, StageFailed
    PROVE  IInv'
<1>1. TypeOK'
  BY DEF IInv, TypeOK, StageFailed, StageRun, hostVars, vmVars,
         applyVars, seen
<1>2. Protocol'
  BY DEF IInv, TypeOK, Protocol, LocksHeld, TransitionHoldsBaseline,
         TrialCanBeUndone, StageFailed, StageRun, Loading, hostVars, vmVars, applyVars, seen
<1>3. HostSide'
  BY DEF IInv, TypeOK, Protocol, LocksHeld, TransitionHoldsBaseline,
         TrialCanBeUndone, HostSide, SnapshotsFresh, BookUntilRollback,
         StageFailed, StageRun, Loading, Effective, hostVars, vmVars, applyVars, seen
<1>4. VmSide'
  BY DEF IInv, TypeOK, Protocol, LocksHeld, VmSide, ChangesOrdered, Kept,
         TransitionRendersAcked, StagedSinceStartup, AckedVmRulesLive,
         StageFailed, StageRun, Loading, hostVars, vmVars, applyVars, seen
<1>5. QED
  BY <1>1, <1>2, <1>3, <1>4 DEF IInv

\* The rules the manager takes for live stay the same: pending.next.
LEMMA ConfirmInv ==
    ASSUME IInv, NEW b \in BOOLEAN, Confirm(b)
    PROVE  IInv'
<1>1. TypeOK'
  BY DEF IInv, TypeOK, Confirm, hostVars, vmVars,
         applyVars, seen
<1>2. Protocol'
  BY DEF IInv, TypeOK, Protocol, LocksHeld, TransitionHoldsBaseline,
         TrialCanBeUndone, Confirm, Loading, hostVars, vmVars, applyVars, seen
<1>3. HostSide'
  BY DEF IInv, TypeOK, Protocol, LocksHeld, TransitionHoldsBaseline,
         TrialCanBeUndone, HostSide, SnapshotsFresh, BookUntilRollback,
         Confirm, Loading, Effective, hostVars, vmVars, applyVars, seen
<1>4. VmSide'
  BY DEF IInv, TypeOK, Protocol, LocksHeld, VmSide, ChangesOrdered, Kept,
         TransitionRendersAcked, StagedSinceStartup, AckedVmRulesLive,
         Confirm, Loading, hostVars, vmVars, applyVars, seen
<1>5. QED
  BY <1>1, <1>2, <1>3, <1>4 DEF IInv

\* The transaction goes, the transition keeps its baseline.
LEMMA RollbackRequestInv ==
    ASSUME IInv, RollbackRequest
    PROVE  IInv'
<1>1. TypeOK'
  BY DEF IInv, TypeOK, RollbackRequest, RollbackBegin, Loading, hostVars, vmVars,
         applyVars, seen
<1>2. Protocol'
  BY DEF IInv, TypeOK, Protocol, LocksHeld, TransitionHoldsBaseline,
         TrialCanBeUndone, RollbackRequest, RollbackBegin, Loading, hostVars, vmVars, applyVars, seen
<1>3. HostSide'
  BY DEF IInv, TypeOK, Protocol, LocksHeld, TransitionHoldsBaseline,
         TrialCanBeUndone, HostSide, SnapshotsFresh, BookUntilRollback,
         RollbackRequest, RollbackBegin, Loading, Effective, hostVars, vmVars, applyVars, seen
<1>4. VmSide'
  BY DEF IInv, TypeOK, Protocol, LocksHeld, VmSide, ChangesOrdered, Kept,
         TransitionRendersAcked, StagedSinceStartup, AckedVmRulesLive,
         RollbackRequest, RollbackBegin, Loading, hostVars, vmVars, applyVars, seen
<1>5. QED
  BY <1>1, <1>2, <1>3, <1>4 DEF IInv

\* The baseline is live again.
LEMMA RollbackLoadedInv ==
    ASSUME IInv, RollbackLoaded
    PROVE  IInv'
<1>1. TypeOK'
  BY DEF IInv, TypeOK, RollbackLoaded, hostVars, vmVars,
         applyVars, seen
<1>2. Protocol'
  BY DEF IInv, TypeOK, Protocol, LocksHeld, TransitionHoldsBaseline,
         TrialCanBeUndone, RollbackLoaded, Loading, hostVars, vmVars, applyVars, seen
<1>3. HostSide'
  BY DEF IInv, TypeOK, Protocol, LocksHeld, TransitionHoldsBaseline,
         TrialCanBeUndone, HostSide, SnapshotsFresh, BookUntilRollback,
         RollbackLoaded, Loading, Effective, hostVars, vmVars, applyVars, seen
<1>4. VmSide'
  BY DEF IInv, TypeOK, Protocol, LocksHeld, VmSide, ChangesOrdered, Kept,
         TransitionRendersAcked, StagedSinceStartup, AckedVmRulesLive,
         RollbackLoaded, Loading, hostVars, vmVars, applyVars, seen
<1>5. QED
  BY <1>1, <1>2, <1>3, <1>4 DEF IInv

\* The cause is recorded; per-VM rules are untouched.
LEMMA RollbackFailedInv ==
    ASSUME IInv, RollbackFailed
    PROVE  IInv'
<1>1. TypeOK'
  BY DEF IInv, TypeOK, RollbackFailed, hostVars, vmVars,
         applyVars, seen
<1>2. Protocol'
  BY DEF IInv, TypeOK, Protocol, LocksHeld, TransitionHoldsBaseline,
         TrialCanBeUndone, RollbackFailed, Loading, hostVars, vmVars, applyVars, seen
<1>3. HostSide'
  BY DEF IInv, TypeOK, Protocol, LocksHeld, TransitionHoldsBaseline,
         TrialCanBeUndone, HostSide, SnapshotsFresh, BookUntilRollback,
         RollbackFailed, Loading, Effective, hostVars, vmVars, applyVars, seen
<1>4. VmSide'
  BY DEF IInv, TypeOK, Protocol, LocksHeld, VmSide, ChangesOrdered, Kept,
         TransitionRendersAcked, StagedSinceStartup, AckedVmRulesLive,
         RollbackFailed, Loading, hostVars, vmVars, applyVars, seen
<1>5. QED
  BY <1>1, <1>2, <1>3, <1>4 DEF IInv

\* The timer moves from armed to fired.
LEMMA TimerFireInv ==
    ASSUME IInv, NEW t \in Timers, TimerFire(t)
    PROVE  IInv'
<1>1. TypeOK'
  BY DEF IInv, TypeOK, TimerFire, hostVars, vmVars,
         applyVars, seen
<1>2. Protocol'
  BY DEF IInv, TypeOK, Protocol, LocksHeld, TransitionHoldsBaseline,
         TrialCanBeUndone, TimerFire, Loading, hostVars, vmVars, applyVars, seen
<1>3. HostSide'
  BY DEF IInv, TypeOK, Protocol, LocksHeld, TransitionHoldsBaseline,
         TrialCanBeUndone, HostSide, SnapshotsFresh, BookUntilRollback,
         TimerFire, Loading, Effective, hostVars, vmVars, applyVars, seen
<1>4. VmSide'
  BY DEF IInv, TypeOK, Protocol, LocksHeld, VmSide, ChangesOrdered, Kept,
         TransitionRendersAcked, StagedSinceStartup, AckedVmRulesLive,
         TimerFire, Loading, hostVars, vmVars, applyVars, seen
<1>5. QED
  BY <1>1, <1>2, <1>3, <1>4 DEF IInv

\* A rollback of whatever is pending, or nothing.
LEMMA TimerCallbackInv ==
    ASSUME IInv, NEW t \in Timers, TimerCallback(t)
    PROVE  IInv'
<1>1. TypeOK'
  BY DEF IInv, TypeOK, TimerCallback, RollbackBegin, Loading, hostVars, vmVars,
         applyVars, seen
<1>2. Protocol'
  BY DEF IInv, TypeOK, Protocol, LocksHeld, TransitionHoldsBaseline,
         TrialCanBeUndone, TimerCallback, RollbackBegin, Loading, hostVars, vmVars, applyVars, seen
<1>3. HostSide'
  BY DEF IInv, TypeOK, Protocol, LocksHeld, TransitionHoldsBaseline,
         TrialCanBeUndone, HostSide, SnapshotsFresh, BookUntilRollback,
         TimerCallback, RollbackBegin, Loading, Effective, hostVars, vmVars, applyVars, seen
<1>4. VmSide'
  BY DEF IInv, TypeOK, Protocol, LocksHeld, VmSide, ChangesOrdered, Kept,
         TransitionRendersAcked, StagedSinceStartup, AckedVmRulesLive,
         TimerCallback, RollbackBegin, Loading, hostVars, vmVars, applyVars, seen
<1>5. QED
  BY <1>1, <1>2, <1>3, <1>4 DEF IInv

\* Memory runs ahead of the file.
LEMMA VmSetInv ==
    ASSUME IInv, NEW a \in Appliers, VmSet(a)
    PROVE  IInv'
<1>1. TypeOK'
  BY DEF IInv, TypeOK, VmSet, hostVars, vmVars,
         applyVars, seen
<1>2. Protocol'
  BY DEF IInv, TypeOK, Protocol, LocksHeld, TransitionHoldsBaseline,
         TrialCanBeUndone, VmSet, Loading, hostVars, vmVars, applyVars, seen
<1>3. HostSide'
  BY DEF IInv, TypeOK, Protocol, LocksHeld, TransitionHoldsBaseline,
         TrialCanBeUndone, HostSide, SnapshotsFresh, BookUntilRollback,
         VmSet, Loading, Effective, hostVars, vmVars, applyVars, seen
<1>4. VmSide'
  BY DEF IInv, TypeOK, Protocol, LocksHeld, VmSide, ChangesOrdered, Kept,
         TransitionRendersAcked, StagedSinceStartup, AckedVmRulesLive,
         VmSet, Loading, hostVars, vmVars, applyVars, seen
<1>5. QED
  BY <1>1, <1>2, <1>3, <1>4 DEF IInv

\* The file catches up with memory.
LEMMA VmSavedInv ==
    ASSUME IInv, NEW a \in Appliers, VmSaved(a)
    PROVE  IInv'
<1>1. TypeOK'
  BY DEF IInv, TypeOK, VmSaved, hostVars, vmVars,
         applyVars, seen
<1>2. Protocol'
  BY DEF IInv, TypeOK, Protocol, LocksHeld, TransitionHoldsBaseline,
         TrialCanBeUndone, VmSaved, Loading, hostVars, vmVars, applyVars, seen
<1>3. HostSide'
  BY DEF IInv, TypeOK, Protocol, LocksHeld, TransitionHoldsBaseline,
         TrialCanBeUndone, HostSide, SnapshotsFresh, BookUntilRollback,
         VmSaved, Loading, Effective, hostVars, vmVars, applyVars, seen
<1>4. VmSide'
  BY DEF IInv, TypeOK, Protocol, LocksHeld, VmSide, ChangesOrdered, Kept,
         TransitionRendersAcked, StagedSinceStartup, AckedVmRulesLive,
         VmSaved, Loading, hostVars, vmVars, applyVars, seen
<1>5. QED
  BY <1>1, <1>2, <1>3, <1>4 DEF IInv

\* The request ends, memory keeps the change.
LEMMA VmSaveFailedInv ==
    ASSUME IInv, NEW a \in Appliers, VmSaveFailed(a)
    PROVE  IInv'
<1>1. TypeOK'
  BY DEF IInv, TypeOK, VmSaveFailed, hostVars, vmVars,
         applyVars, seen
<1>2. Protocol'
  BY DEF IInv, TypeOK, Protocol, LocksHeld, TransitionHoldsBaseline,
         TrialCanBeUndone, VmSaveFailed, Loading, hostVars, vmVars, applyVars, seen
<1>3. HostSide'
  BY DEF IInv, TypeOK, Protocol, LocksHeld, TransitionHoldsBaseline,
         TrialCanBeUndone, HostSide, SnapshotsFresh, BookUntilRollback,
         VmSaveFailed, Loading, Effective, hostVars, vmVars, applyVars, seen
<1>4. VmSide'
  BY DEF IInv, TypeOK, Protocol, LocksHeld, VmSide, ChangesOrdered, Kept,
         TransitionRendersAcked, StagedSinceStartup, AckedVmRulesLive,
         VmSaveFailed, Loading, hostVars, vmVars, applyVars, seen
<1>5. QED
  BY <1>1, <1>2, <1>3, <1>4 DEF IInv

\* A request that stored nothing.
LEMMA ReapplyInv ==
    ASSUME IInv, NEW a \in Appliers, Reapply(a)
    PROVE  IInv'
<1>1. TypeOK'
  BY DEF IInv, TypeOK, Reapply, hostVars, vmVars,
         applyVars, seen
<1>2. Protocol'
  BY DEF IInv, TypeOK, Protocol, LocksHeld, TransitionHoldsBaseline,
         TrialCanBeUndone, Reapply, Loading, hostVars, vmVars, applyVars, seen
<1>3. HostSide'
  BY DEF IInv, TypeOK, Protocol, LocksHeld, TransitionHoldsBaseline,
         TrialCanBeUndone, HostSide, SnapshotsFresh, BookUntilRollback,
         Reapply, Loading, Effective, hostVars, vmVars, applyVars, seen
<1>4. VmSide'
  BY DEF IInv, TypeOK, Protocol, LocksHeld, VmSide, ChangesOrdered, Kept,
         TransitionRendersAcked, StagedSinceStartup, AckedVmRulesLive,
         Reapply, Loading, hostVars, vmVars, applyVars, seen
<1>5. QED
  BY <1>1, <1>2, <1>3, <1>4 DEF IInv

\* rulesMu goes to one applier, whoever holds applyMu.
LEMMA ApplyLockInv ==
    ASSUME IInv, NEW a \in Appliers, ApplyLock(a)
    PROVE  IInv'
<1>1. TypeOK'
  BY DEF IInv, TypeOK, ApplyLock, Effective, hostVars, vmVars, applyVars, seen
<1>2. Protocol'
  BY DEF IInv, TypeOK, Protocol, LocksHeld, TransitionHoldsBaseline,
         TrialCanBeUndone, ApplyLock, Effective, Loading, hostVars, vmVars,
         applyVars, seen
<1>3. HostSide'
  BY DEF IInv, TypeOK, Protocol, LocksHeld, TransitionHoldsBaseline,
         TrialCanBeUndone, HostSide, SnapshotsFresh, BookUntilRollback,
         ApplyLock, Loading, Effective, hostVars, vmVars, applyVars, seen
<1>4. VmSide'
  BY DEF IInv, TypeOK, Protocol, LocksHeld, VmSide, ChangesOrdered, Kept,
         TransitionRendersAcked, StagedSinceStartup, AckedVmRulesLive,
         ApplyLock, Loading, hostVars, vmVars, applyVars, seen
<1>5. QED
  BY <1>1, <1>2, <1>3, <1>4 DEF IInv

\* The snapshot is the effective host ruleset of now.
LEMMA ApplySnapshotInv ==
    ASSUME IInv, NEW a \in Appliers, ApplySnapshot(a)
    PROVE  IInv'
<1>1. TypeOK'
  BY DEF IInv, TypeOK, ApplySnapshot, Effective, hostVars, vmVars, applyVars, seen
<1>2. Protocol'
  BY DEF IInv, TypeOK, Protocol, LocksHeld, TransitionHoldsBaseline,
         TrialCanBeUndone, ApplySnapshot, Effective, Loading, hostVars, vmVars,
         applyVars, seen
<1>3. HostSide'
  BY DEF IInv, TypeOK, Protocol, LocksHeld, TransitionHoldsBaseline,
         TrialCanBeUndone, HostSide, SnapshotsFresh, BookUntilRollback,
         ApplySnapshot, Loading, Effective, hostVars, vmVars, applyVars, seen
<1>4. VmSide'
  BY DEF IInv, TypeOK, Protocol, LocksHeld, VmSide, ChangesOrdered, Kept,
         TransitionRendersAcked, StagedSinceStartup, AckedVmRulesLive,
         ApplySnapshot, Loading, hostVars, vmVars, applyVars, seen
<1>5. QED
  BY <1>1, <1>2, <1>3, <1>4 DEF IInv

\* The per-VM rules rendered include every acknowledged change.
LEMMA ApplyRenderInv ==
    ASSUME IInv, NEW a \in Appliers, ApplyRender(a)
    PROVE  IInv'
<1>1. TypeOK'
  BY DEF IInv, TypeOK, ApplyRender, hostVars, vmVars,
         applyVars, seen
<1>2. Protocol'
  BY DEF IInv, TypeOK, Protocol, LocksHeld, TransitionHoldsBaseline,
         TrialCanBeUndone, ApplyRender, Loading, hostVars, vmVars, applyVars, seen
<1>3. HostSide'
  BY DEF IInv, TypeOK, Protocol, LocksHeld, TransitionHoldsBaseline,
         TrialCanBeUndone, HostSide, SnapshotsFresh, BookUntilRollback,
         ApplyRender, Loading, Effective, hostVars, vmVars, applyVars, seen
<1>4. VmSide'
  <2>1. Loading' = Loading /\ Kept' = Kept
    BY DEF IInv, TypeOK, ApplyRender, Loading, Kept, vmVars, seen
  <2>2. Kept \cup ({req[a]} \ {0}) \subseteq vmMem
    BY DEF IInv, VmSide, ChangesOrdered, Kept, ApplyRender
  <2>3. ChangesOrdered'
    BY <2>1, <2>2 DEF IInv, TypeOK, VmSide, ChangesOrdered, ApplyRender, vmVars, seen
  <2>4. QED
    BY <2>1, <2>3 DEF IInv, VmSide, TransitionRendersAcked, StagedSinceStartup,
         AckedVmRulesLive, ApplyRender, hostVars, seen
<1>5. QED
  BY <1>1, <1>2, <1>3, <1>4 DEF IInv

\* rulesMu kept every other acknowledgement out since the rendering.
LEMMA ApplyLoadedInv ==
    ASSUME IInv, NEW a \in Appliers, ApplyLoaded(a)
    PROVE  IInv'
<1>1. TypeOK'
  <2>1. snap[a] \in HostRules
    BY DEF IInv, TypeOK, Protocol, LocksHeld, Loading, ApplyLoaded, ApplyReturn
  <2>2. kernel' \in [host : HostRules, vm : SUBSET Changes] /\ acked' \subseteq Changes
    BY <2>1 DEF IInv, TypeOK, ApplyLoaded, ApplyReturn
  <2>3. /\ rulesMu' \in Appliers \cup {Nil}
        /\ pc' \in [Appliers -> {"idle", "save", "apply", "locked", "render", "nft"}]
        /\ req' \in [Appliers -> Changes \cup {0}]
        /\ rend' \in [Appliers -> SUBSET Changes]
        /\ snap' \in [Appliers -> HostRules \cup {Nil}]
    BY DEF IInv, TypeOK, ApplyLoaded, ApplyReturn
  <2>4. cause' \in {"none", "stale_apply"} /\ overlapped' \subseteq Appliers
    BY DEF IInv, TypeOK, ApplyLoaded, ApplyReturn
  <2>5. QED
    BY <2>2, <2>3, <2>4 DEF IInv, TypeOK, ApplyLoaded, ApplyReturn, hostVars, vmVars
<1>2. Protocol'
  BY DEF IInv, TypeOK, Protocol, LocksHeld, TransitionHoldsBaseline,
         TrialCanBeUndone, ApplyLoaded, ApplyReturn, Loading, hostVars, vmVars, applyVars, seen
<1>3. HostSide'
  BY DEF IInv, TypeOK, Protocol, LocksHeld, TransitionHoldsBaseline,
         TrialCanBeUndone, HostSide, SnapshotsFresh, BookUntilRollback,
         ApplyLoaded, ApplyReturn, Loading, Effective, hostVars, vmVars, applyVars, seen
<1>4. VmSide'
  <2>1. /\ Loading' \subseteq Loading \ {a} /\ a \in Loading
        /\ \A b \in Appliers : pc'[b] # "nft"
    BY DEF IInv, TypeOK, Protocol, LocksHeld, ApplyLoaded, ApplyReturn, Loading
  <2>2. Kept' \subseteq Kept \cup ({req[a]} \ {0})
    BY DEF IInv, TypeOK, Kept, ApplyLoaded, ApplyReturn, vmVars
  <2>3. Kept \cup ({req[a]} \ {0}) \subseteq rend[a]
    BY DEF IInv, VmSide, ChangesOrdered, ApplyLoaded, ApplyReturn
  <2>4. ChangesOrdered'
    <3>1. acked' \subseteq vmDisk' \cup dropped'
      BY DEF IInv, VmSide, ChangesOrdered, ApplyLoaded, ApplyReturn, vmVars
    <3>2. /\ vmDisk' \subseteq vmMem' \cup unread'
          /\ vmMem' \cup vmDisk' \subseteq 1 .. changes'
      BY DEF IInv, VmSide, ChangesOrdered, ApplyLoaded, ApplyReturn, vmVars
    <3>3. \A b \in Appliers :
            /\ pc'[b] = "idle" => req'[b] = 0
            /\ pc'[b] = "save" => req'[b] \in vmMem'
            /\ pc'[b] \in {"apply", "locked", "render", "nft"}
                => req'[b] = 0 \/ req'[b] \in vmMem' \cap vmDisk'
      BY DEF IInv, TypeOK, VmSide, ChangesOrdered, ApplyLoaded, ApplyReturn, vmVars
    <3>4. QED
      BY <2>1, <3>1, <3>2, <3>3 DEF ChangesOrdered
  <2>5. TransitionRendersAcked'
    BY <2>1, <2>2 DEF IInv, TypeOK, VmSide, TransitionRendersAcked, Loading,
         ApplyLoaded, ApplyReturn, hostVars
  <2>6. StagedSinceStartup' /\ AckedVmRulesLive'
    BY <2>2, <2>3 DEF IInv, VmSide, StagedSinceStartup, AckedVmRulesLive,
         ApplyLoaded, ApplyReturn, hostVars
  <2>7. QED
    BY <2>4, <2>5, <2>6 DEF VmSide
<1>5. QED
  BY <1>1, <1>2, <1>3, <1>4 DEF IInv

\* The kernel keeps its table.
LEMMA ApplyFailedInv ==
    ASSUME IInv, NEW a \in Appliers, ApplyFailed(a)
    PROVE  IInv'
<1>1. TypeOK'
  BY DEF IInv, TypeOK, ApplyFailed, ApplyReturn, hostVars, vmVars,
         applyVars, seen
<1>2. Protocol'
  BY DEF IInv, TypeOK, Protocol, LocksHeld, TransitionHoldsBaseline,
         TrialCanBeUndone, ApplyFailed, ApplyReturn, Loading, hostVars, vmVars, applyVars, seen
<1>3. HostSide'
  BY DEF IInv, TypeOK, Protocol, LocksHeld, TransitionHoldsBaseline,
         TrialCanBeUndone, HostSide, SnapshotsFresh, BookUntilRollback,
         ApplyFailed, ApplyReturn, Loading, Effective, hostVars, vmVars, applyVars, seen
<1>4. VmSide'
  BY DEF IInv, TypeOK, Protocol, LocksHeld, VmSide, ChangesOrdered, Kept,
         TransitionRendersAcked, StagedSinceStartup, AckedVmRulesLive,
         ApplyFailed, ApplyReturn, Loading, hostVars, vmVars, applyVars, seen
<1>5. QED
  BY <1>1, <1>2, <1>3, <1>4 DEF IInv

\* Only the files, and perhaps the kernel's table, survive.
LEMMA CrashInv ==
    ASSUME IInv, NEW b \in BOOLEAN, Crash(b)
    PROVE  IInv'
<1>1. TypeOK'
  <2>1. kernel' \in [host : HostRules, vm : SUBSET Changes]
    BY DEF IInv, TypeOK, Crash
  <2>2. /\ pc' \in [Appliers -> {"idle", "save", "apply", "locked", "render", "nft"}]
        /\ req' \in [Appliers -> Changes \cup {0}]
        /\ rend' \in [Appliers -> SUBSET Changes]
        /\ snap' \in [Appliers -> HostRules \cup {Nil}]
    BY DEF Crash
  <2>3. crashes' \in 0 .. MaxCrashes
    BY DEF IInv, TypeOK, Crash
  <2>4. /\ up' \in BOOLEAN /\ armed' \subseteq Timers /\ fired' \subseteq Timers
        /\ pending' \in PendingApply \cup {Nil} /\ crit' \in Transition \cup {Nil}
        /\ rulesMu' \in Appliers \cup {Nil} /\ overlapped' \subseteq Appliers
    BY DEF Crash
  <2>5. QED
    BY <2>1, <2>2, <2>3, <2>4, Zenon DEF IInv, TypeOK, Crash, vmVars
<1>2. Protocol'
  BY DEF IInv, TypeOK, Protocol, LocksHeld, TransitionHoldsBaseline,
         TrialCanBeUndone, Crash, Loading, hostVars, vmVars, applyVars, seen
<1>3. HostSide'
  BY DEF IInv, TypeOK, Protocol, LocksHeld, TransitionHoldsBaseline,
         TrialCanBeUndone, HostSide, SnapshotsFresh, BookUntilRollback,
         Crash, Loading, Effective, hostVars, vmVars, applyVars, seen
<1>4. VmSide'
  BY DEF IInv, TypeOK, Protocol, LocksHeld, VmSide, ChangesOrdered, Kept,
         TransitionRendersAcked, StagedSinceStartup, AckedVmRulesLive,
         Crash, Loading, hostVars, vmVars, applyVars, seen
<1>5. QED
  BY <1>1, <1>2, <1>3, <1>4 DEF IInv

\* The book is what the files say, or empty where they cannot be read.
LEMMA RestartInv ==
    ASSUME IInv, NEW b \in BOOLEAN, NEW c \in BOOLEAN, NEW d \in BOOLEAN,
           Restart(b, c, d)
    PROVE  IInv'
<1>1. TypeOK'
  BY DEF IInv, TypeOK, Restart, hostVars, vmVars,
         applyVars, seen
<1>2. Protocol'
  BY DEF IInv, TypeOK, Protocol, LocksHeld, TransitionHoldsBaseline,
         TrialCanBeUndone, Restart, Loading, hostVars, vmVars, applyVars, seen
<1>3. HostSide'
  BY DEF IInv, TypeOK, Protocol, LocksHeld, TransitionHoldsBaseline,
         TrialCanBeUndone, HostSide, SnapshotsFresh, BookUntilRollback,
         Restart, Loading, Effective, hostVars, vmVars, applyVars, seen
<1>4. VmSide'
  <2>1. \A e \in Appliers : pc[e] = "idle" /\ pc' = pc /\ req' = req
    BY DEF IInv, Protocol, LocksHeld, Restart, applyVars
  <2>2. ChangesOrdered'
    <3>1. acked' \subseteq vmDisk' \cup dropped'
      BY DEF IInv, VmSide, ChangesOrdered, Restart
    <3>2. /\ vmDisk' \subseteq vmMem' \cup unread'
          /\ vmDisk \subseteq 1 .. changes
      BY DEF IInv, VmSide, ChangesOrdered, Restart
    <3>3. vmMem' \cup vmDisk' \subseteq 1 .. changes'
      BY <3>2 DEF Restart
    <3>4. QED
      BY <2>1, <3>1, <3>2, <3>3 DEF IInv, VmSide, ChangesOrdered
  <2>3. Kept' \subseteq vmMem'
    BY DEF IInv, VmSide, ChangesOrdered, Kept, Restart
  <2>4. crit' = Nil /\ pending' = Nil
    BY DEF IInv, Protocol, LocksHeld, Restart
  <2>5. AckedVmRulesLive'
    BY <2>3 DEF AckedVmRulesLive, Restart
  <2>6. QED
    BY <2>2, <2>4, <2>5 DEF VmSide, TransitionRendersAcked, StagedSinceStartup
<1>5. QED
  BY <1>1, <1>2, <1>3, <1>4 DEF IInv

-----------------------------------------------------------------------------
\* Every step of the daemon, and stuttering, preserves the inductive invariant.
LEMMA StepInv == IInv /\ [Next]_vars => IInv'
<1> SUFFICES ASSUME IInv, [Next]_vars PROVE IInv'
  OBVIOUS
<1>1. CASE HostNext
  BY <1>1, StageBeginInv, StageLoadedInv, StageFailedInv, ConfirmInv,
     RollbackRequestInv, RollbackLoadedInv, RollbackFailedInv, TimerFireInv,
     TimerCallbackInv DEF HostNext
<1>2. CASE \E a \in Appliers : VmNext(a)
  BY <1>2, VmSetInv, VmSavedInv, VmSaveFailedInv, ReapplyInv,
     ApplyLockInv, ApplySnapshotInv, ApplyRenderInv, ApplyLoadedInv,
     ApplyFailedInv DEF VmNext
<1>3. CASE LifeNext
  BY <1>3, CrashInv, RestartInv DEF LifeNext
<1>4. CASE UNCHANGED vars
  BY <1>4 DEF IInv, TypeOK, Protocol, LocksHeld, TransitionHoldsBaseline,
     TrialCanBeUndone, HostSide, SnapshotsFresh, BookUntilRollback, VmSide,
     ChangesOrdered, Kept, TransitionRendersAcked, StagedSinceStartup,
     AckedVmRulesLive, Loading, Effective, vars, hostVars, vmVars, applyVars,
     seen
<1>5. QED
  BY <1>1, <1>2, <1>3, <1>4 DEF Next

\* The inductive invariant holds in every reachable state.
THEOREM Inductive == Spec => []IInv
<1>1. QED
  BY InitInv, StepInv, PTL DEF Spec

\* Every variable of the manager keeps its type.
THEOREM TypeCorrect == Spec => []TypeOK
<1>1. IInv => TypeOK
  BY DEF IInv
<1>2. QED
  BY <1>1, Inductive, PTL

\* With applyMu free, what is live is what the manager takes for live, unless
\* an overtaken Apply() or a failed nft run is to blame.
THEOREM KernelTracksBookThm == Spec => []KernelTracksBook
<1>1. IInv => KernelTracksBook
  BY DEF IInv, HostSide, BookUntilRollback, KernelTracksBook
<1>2. QED
  BY <1>1, Inductive, PTL

\* No load takes an acknowledged per-VM change out of the kernel, unless a
\* failed read of firewall.json had taken it out of the store.
THEOREM AckedVmRulesLiveThm == Spec => []AckedVmRulesLive
<1>1. IInv => AckedVmRulesLive
  BY DEF IInv, VmSide
<1>2. QED
  BY <1>1, Inductive, PTL

\* A staged transaction keeps a live timer and the baseline to return to.
THEOREM TrialCanBeUndoneThm == Spec => []TrialCanBeUndone
<1>1. IInv => TrialCanBeUndone
  BY DEF IInv, Protocol
<1>2. QED
  BY <1>1, Inductive, PTL

-----------------------------------------------------------------------------
\* Each step of the manager is a step of the abstract trial or leaves it alone:
\* loading a stage proposes, confirming accepts, beginning a rollback and a
\* crash revert, a restart reloads.
LEMMA StepTrial == IInv /\ [Next]_vars => [Trial!Next]_(Trial!vars)
<1> SUFFICES ASSUME IInv, [Next]_vars
             PROVE  Trial!Next \/ UNCHANGED Trial!vars
  BY DEF Trial!vars
<1> USE DEF Trial!vars
<1>1. CASE StageLoaded
  <2>1. /\ crit.next \in HostRules /\ pending = Nil
        /\ pending' # Nil /\ pending'.next = crit.next
    BY <1>1 DEF IInv, TypeOK, Protocol, TransitionHoldsBaseline, StageLoaded, StageRun
  <2>2. Trial!Propose(crit.next)
    BY <1>1, <2>1 DEF Trial!Propose, StageLoaded
  <2>3. QED
    BY <2>1, <2>2 DEF Trial!Next
<1>2. ASSUME NEW b \in BOOLEAN, Confirm(b) PROVE Trial!Accept
  <2>1. pending # Nil /\ pending.next # Nil /\ pending' = Nil
    BY <1>2 DEF IInv, TypeOK, Confirm
  <2>2. QED
    BY <1>2, <2>1 DEF Trial!Accept, Confirm
<1>3. CASE RollbackBegin /\ UNCHANGED <<hostMem, hostDisk>>
  <2>1. pending # Nil /\ pending.next # Nil /\ pending' = Nil
    BY <1>3 DEF IInv, TypeOK, RollbackBegin
  <2>2. Trial!Revert
    BY <1>3, <2>1 DEF Trial!Revert
  <2>3. QED
    BY <2>2 DEF Trial!Next
<1>4. ASSUME NEW t \in Timers, TimerCallback(t)
      PROVE  \/ RollbackBegin /\ UNCHANGED <<hostMem, hostDisk>>
             \/ UNCHANGED <<hostMem, hostDisk, pending>>
  BY <1>4 DEF TimerCallback
<1>5. ASSUME NEW b \in BOOLEAN, Crash(b) PROVE Trial!Next \/ UNCHANGED Trial!vars
  <2>1. CASE pending = Nil
    BY <1>5, <2>1 DEF Crash
  <2>2. CASE pending # Nil
    <3>1. pending.next # Nil /\ pending' = Nil
      BY <1>5, <2>2 DEF IInv, TypeOK, Crash
    <3>2. Trial!Revert
      BY <1>5, <2>2, <3>1 DEF Trial!Revert, Crash
    <3>3. QED
      BY <3>2 DEF Trial!Next
  <2>3. QED
    BY <2>1, <2>2
<1>6. ASSUME NEW b \in BOOLEAN, NEW c \in BOOLEAN, NEW d \in BOOLEAN,
             Restart(b, c, d)
      PROVE  Trial!Reload
  BY <1>6 DEF IInv, Protocol, LocksHeld, Restart, Trial!Reload
<1>7. CASE \/ \E r \in HostRules : StageBegin(r)
           \/ StageFailed \/ RollbackLoaded \/ RollbackFailed
           \/ \E t \in Timers : TimerFire(t)
  BY <1>7 DEF StageBegin, StageFailed, StageRun, RollbackLoaded, RollbackFailed, TimerFire
<1>8. CASE \E a \in Appliers : VmNext(a)
  BY <1>8 DEF VmNext, VmSet, VmSaved, VmSaveFailed, Reapply, ApplyLock,
     ApplySnapshot, ApplyRender, ApplyLoaded, ApplyFailed, ApplyReturn, hostVars
<1>9. CASE UNCHANGED vars
  BY <1>9 DEF vars, hostVars
<1>10. CASE HostNext
  <2>1. CASE RollbackRequest
    BY <2>1, <1>3 DEF RollbackRequest
  <2>2. CASE \E t \in Timers : TimerCallback(t)
    BY <2>2, <1>3, <1>4
  <2>3. QED
    BY <1>10, <1>1, <1>2, <1>7, <2>1, <2>2 DEF HostNext, Trial!Next
<1>11. CASE LifeNext
  BY <1>11, <1>5, <1>6 DEF LifeNext, Trial!Next
<1>12. QED
  BY <1>8, <1>9, <1>10, <1>11 DEF Next

\* The manager implements the safety part of the abstract trial.
THEOREM RefinesTrial == Spec => Trial!Spec
<1>1. Init => Trial!Init
  BY DEF Init, Trial!Init
<1>2. QED
  BY <1>1, Inductive, StepTrial, PTL DEF Spec, Trial!Spec

=============================================================================
