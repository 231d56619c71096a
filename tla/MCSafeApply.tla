---------------------------- MODULE MCSafeApply ----------------------------
(* Small instances of SafeApply for TLC.                                     *)
EXTENDS SafeApply

Budget(s, c, k) == [stages |-> s, changes |-> c, crashes |-> k]
MCBudgets == {Budget(2, 1, 1), Budget(0, 2, 1)}
MCNoCrash == {Budget(2, 1, 0)}
=============================================================================
