----------------------------- MODULE MCPortals ------------------------------
(***************************************************************************)
(* Instances of Portals: two threads are alike, and so are a and b, who    *)
(* stand for two emails and for two suppliers.                             *)
(***************************************************************************)
EXTENDS Portals, TLC

CONSTANTS t1, t2, a, b

Alike == Permutations({t1, t2}) \cup Permutations({a, b})
=============================================================================
