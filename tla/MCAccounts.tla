----------------------------- MODULE MCAccounts -----------------------------
(***************************************************************************)
(* Instance of Accounts: u1 is created by a call, u2 is seeded.            *)
(***************************************************************************)
EXTENDS Accounts, TLC

CONSTANTS t1, t2, u1, u2, seed, p1, p2, p3, p4, l1, l2

\* u2, who is seeded, is enabled and disabled only.
Bounds == (u1 :> 4) @@ (u2 :> 0)

Symmetry == Permutations(Threads) \cup Permutations(Links)
            \cup Permutations(Passwords)
==============================================================================
