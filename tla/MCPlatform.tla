----------------------------- MODULE MCPlatform -----------------------------
(***************************************************************************)
(* Instances of Platform and its pages: an admin of the seeded company and *)
(* a super admin call.                                                     *)
(***************************************************************************)
EXTENDS PlatformViews, TLC

CONSTANTS api, app

TheActors == {[company |-> Home, override |-> FALSE], [company |-> Home, override |-> TRUE]}

Alike == Permutations({api, app})
=============================================================================
