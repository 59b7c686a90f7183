--------------------------- MODULE MCSalesOrders ---------------------------
(***************************************************************************)
(* Instance of SalesDesk over the seeded stock: 325 pumps can be promised; *)
(* a valve has no stock record.  The order is still to be created, with up *)
(* to two lines.                                                           *)
(***************************************************************************)
EXTENDS SalesDesk, TLC

CONSTANTS t1, t2, so2, l2, l3, pump, valve

OneOrder == l2 :> so2 @@ l3 :> so2
OneOrderItem == l2 :> pump @@ l3 :> valve
OneOrderSeed == l2 :> 0 @@ l3 :> 0

Stock(p, r, a, q, d) ==
    [f \in StockFields |->
        CASE f = "physical" -> p [] f = "reserved" -> r [] f = "allocated" -> a
          [] f = "quarantine" -> q [] f = "dispatch_pending" -> d
          [] OTHER -> 0]

Alike == Permutations({t1, t2})

SeedStock ==
    [i \in Items |-> CASE i = pump -> Stock(700, 200, 50, 25, 100)
                       [] OTHER -> Stock(0, 0, 0, 0, 0)]
==============================================================================
