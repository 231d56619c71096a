----------------------------- MODULE HostTrial -----------------------------
(* What Safe-Apply promises the administrator, without nft, locks or timers: *)
(* a ruleset is on trial, one at a time; it becomes the baseline only by     *)
(* being accepted, and no trial lasts for ever.  The baseline survives a     *)
(* restart as far as it was saved and can be read.                           *)
CONSTANTS Rules, Empty, None

VARIABLES baseline, saved, trial

vars == <<baseline, saved, trial>>

Init == baseline = Empty /\ saved = Empty /\ trial = None

Propose(r) ==
    /\ trial = None
    /\ trial' = r
    /\ UNCHANGED <<baseline, saved>>

\* The trial becomes the baseline, on disk as well unless the disk refuses.
Accept ==
    /\ trial # None
    /\ baseline' = trial
    /\ saved' \in {saved, trial}
    /\ trial' = None

Revert ==
    /\ trial # None
    /\ trial' = None
    /\ UNCHANGED <<baseline, saved>>

\* A restart: no trial survives it, and the baseline is what was saved, or
\* empty when that cannot be read.
Reload ==
    /\ trial = None
    /\ baseline' \in {saved, Empty}
    /\ UNCHANGED <<saved, trial>>

Next == (\E r \in Rules : Propose(r)) \/ Accept \/ Revert \/ Reload

Spec == Init /\ [][Next]_vars

FairSpec == Spec /\ WF_vars(Accept \/ Revert)
=============================================================================
