---------------------------- MODULE MCPerimeter ----------------------------
(* The instance of Perimeter that TLC checks: one IPv4 client, with two      *)
(* interchangeable logins in flight, and one whitelist entry that covers it. *)
EXTENDS Perimeter, TLC

CONSTANTS a, lan

MCCovers == [n \in {lan} |-> {a}]
MCSymmetry == Permutations(Workers)
=============================================================================
