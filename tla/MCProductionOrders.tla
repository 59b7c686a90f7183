-------------------------- MODULE MCProductionOrders --------------------------
(***************************************************************************)
(* Instances of ProductionOrders: po1 is the seeded order, po2 is still to *)
(* be created.  A quantity of 1 is covered by the stock, 2 only together   *)
(* with what is incoming, 3 by neither.                                    *)
(***************************************************************************)
EXTENDS ProductionDesk, TLC

CONSTANTS t1, t2, po1, po2, steel

OnePer == [m \in Materials |-> IF m = steel THEN 2 ELSE 1]
Stock == [m \in Materials |-> 3]
Ordered == [m \in Materials |-> 1]
SeedOne == [o \in Orders |-> IF o = po1 THEN 1 ELSE 0]
Alike == Permutations(Threads)
==============================================================================
