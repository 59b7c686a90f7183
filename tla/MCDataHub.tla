------------------------------ MODULE MCDataHub ------------------------------
(***************************************************************************)
(* Instance of DataHubViews: an admin and a super admin of company a, and  *)
(* two modules that require a field each.                                  *)
(***************************************************************************)
EXTENDS DataHubViews

CONSTANTS admin, super

TheActors == [t \in {admin, super} |-> [company |-> "a", override |-> t = super]]
TheRequired == [m \in {"Inventory", "Reports"} |-> IF m = "Inventory" THEN {"item"} ELSE {"metric"}]
==============================================================================
