------------------------ MODULE MCMaintenanceOrders ------------------------
(* Two threads work on one order, which uses up a spare.  No order is in    *)
(* the seed data here: the one that is there is a state this order passes   *)
(* through: emergency, assigned and started.                                *)
EXTENDS MaintenanceDesk, TLC

CONSTANTS t1, t2, wo, cutter, filter

OnCutter == [o \in WorkOrders |-> cutter]
CutterDown == [m \in Machines |-> IF m = cutter THEN "Under Maintenance" ELSE "Active"]
ThreeLeft == [p \in Spares |-> 3]
Alike == Permutations(Threads)
=============================================================================
