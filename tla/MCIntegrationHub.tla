-------------------------- MODULE MCIntegrationHub --------------------------
(***************************************************************************)
(* Instances of IntegrationHub: two threads, which are alike, push and     *)
(* re-push two events while imports and switches are under way.            *)
(***************************************************************************)
EXTENDS IntegrationHub, TLC

CONSTANTS t1, t2, k1, k2

Alike == Permutations({t1, t2})
=============================================================================
