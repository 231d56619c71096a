----------------------------- MODULE MCMachines -----------------------------
(* Machine m1, called shop, was once called web, as its two disks still are; *)
(* the machine that is called web today is m2, in another pool.              *)
EXTENDS Machines, TLC

CONSTANTS m1, m2, d1, d2, d3, poolA, poolC, web, shop, j1, j2, r1, r2

FileAt(pool, nums) == [pool |-> pool, name |-> [base |-> web, nums |-> nums]]

MCVmOf == (d1 :> m1) @@ (d2 :> m1) @@ (d3 :> m2)
MCRank == (d1 :> 1) @@ (d2 :> 2) @@ (d3 :> 1)
MCHome == (d1 :> FileAt(poolA, <<>>)) @@ (d2 :> FileAt(poolA, <<2>>)) @@ (d3 :> FileAt(poolC, <<>>))
MCNamed == (m1 :> [base |-> shop, nums |-> <<>>]) @@ (m2 :> [base |-> web, nums |-> <<>>])
Budget(J, R, n) == [jobs |-> J, requests |-> R, starts |-> n]
MCBudgets ==
    {Budget({j1, j2}, {}, 0), Budget({j1}, {r1}, 1), Budget({j1}, {}, 2), Budget({}, {r1, r2}, 1)}
=============================================================================
