---------------------------- MODULE ProductionDesk ----------------------------
(***************************************************************************)
(* The production desk beside the orders (production.py): the masters that *)
(* orders are planned with - products, bills of material, routings, work   *)
(* centres, lines, machines, shifts, approval rules - and the books that   *)
(* are kept while they run: logs, consumption, downtime, work in progress, *)
(* losses.  Only products can be deleted, whatever orders name them.  A    *)
(* row that is added brings its task or its variance with it, and no       *)
(* handler of an order depends on any: of such a call the model keeps that *)
(* it was served.  Editing a bill of material that orders are planned with *)
(* is left out, as ProductionOrders plans with one that stays the same.    *)
(***************************************************************************)
EXTENDS ProductionOrders

CONSTANTS MaxDesk      \* bound: calls of the desk between two starts

ASSUME DeskAssumption == MaxDesk \in Nat

VARIABLES
    served       \* calls the desk has taken

DeskInit == Init /\ served = 0

(* A call is served by a thread that runs no handler of an order.          *)
Serve ==
    /\ served < MaxDesk
    /\ \E t \in Threads : pc[t] = "idle"
    /\ served' = served + 1
    /\ UNCHANGED vars

CreateProduct == Serve
UpdateProduct == Serve
DeleteProduct == Serve

CreateBom == Serve
ApproveBom == Serve
CreateRouting == Serve
UpdateRouting == Serve
CreateWorkCenter == Serve
CreateLine == Serve
CreateMachine == Serve
CreateShift == Serve
CreateApprovalRule == Serve

CreateLog == Serve
ConsumeMaterial == Serve
CreateDowntime == Serve
CreateWip == Serve
CreateLoss == Serve

Desk ==
    \/ CreateProduct \/ UpdateProduct \/ DeleteProduct \/ CreateBom \/ ApproveBom
    \/ CreateRouting \/ UpdateRouting \/ CreateWorkCenter \/ CreateLine \/ CreateMachine
    \/ CreateShift \/ CreateApprovalRule \/ CreateLog \/ ConsumeMaterial
    \/ CreateDowntime \/ CreateWip \/ CreateLoss

DeskNext ==
    \/ Work /\ UNCHANGED served
    \/ Desk
    \/ Restart /\ served' = 0

DeskSpec == DeskInit /\ [][DeskNext]_<<vars, served>>
===============================================================================
