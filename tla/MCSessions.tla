----------------------------- MODULE MCSessions -----------------------------
(* The instance of Sessions that TLC checks: the seed administrator and one  *)
(* more account.                                                             *)
EXTENDS Sessions
=============================================================================
