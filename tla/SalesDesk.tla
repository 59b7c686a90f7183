------------------------------ MODULE SalesDesk ------------------------------
(***************************************************************************)
(* The rest of the sales desk beside the orders: the master records of     *)
(* customers and regions, shipments and returns, and the key figures that  *)
(* are added up from the order lines while orders are created and          *)
(* reserved.  Apart from the customers, which can be deleted, the lists    *)
(* are only added to and overwritten, and no call reads what they say.     *)
(***************************************************************************)
EXTENDS SalesOrders

CONSTANTS
    NoCall,
    MaxDesk          \* bound: calls of the desk that a run explores

ASSUME DeskAssumption == MaxDesk \in Nat /\ NoCall \notin [at : {"delete", "kpis"}, seen : Nat]

VARIABLES
    customer,        \* the seeded customer: on file, and how often answered "deleted"
    filed,           \* rows added to the other lists
    desk,            \* per thread: the call of the desk that it is in
    served           \* calls the desk has taken

deskVars == <<customer, filed, desk, served>>

DeskInit ==
    /\ Init
    /\ customer = [there |-> TRUE, deletions |-> 0]
    /\ filed = 0 /\ served = 0
    /\ desk = [t \in Threads |-> NoCall]

Take(t, next) ==
    /\ pc[t] = "idle" /\ desk[t] = NoCall /\ served < MaxDesk
    /\ served' = served + 1
    /\ desk' = [desk EXCEPT ![t] = next]

In(t, at) == desk[t] # NoCall /\ desk[t].at = at

Leave(t) == desk' = [desk EXCEPT ![t] = NoCall] /\ UNCHANGED served

-----------------------------------------------------------------------------
(* Lists whose rows are added and, where there is a PUT, overwritten.      *)
File(t) == Take(t, NoCall) /\ filed' = filed + 1 /\ UNCHANGED customer

Overwrite(t) == filed > 0 /\ Take(t, NoCall) /\ UNCHANGED <<customer, filed>>

CreateCustomer(t) == File(t)
CreateRegion(t) == File(t)
CreateTerritory(t) == File(t)
CreatePlantRepresentative(t) == File(t)
CreateShipment(t) == File(t)
UpdateShipment(t) == Overwrite(t)
CreateReturn(t) == File(t)
UpdateReturn(t) == Overwrite(t)
DraftAction(t) == File(t)

-----------------------------------------------------------------------------
(* Customers.  Orders that name a deleted customer are left as they are.   *)
UpdateCustomer(t) == customer.there /\ Take(t, NoCall) /\ UNCHANGED <<customer, filed>>

(* DELETE looks the row up, and then has the list remove it.               *)
FindCustomer(t) ==
    /\ customer.there
    /\ Take(t, [at |-> "delete", seen |-> 0])
    /\ UNCHANGED <<customer, filed>>

(* list.remove raises for a row that is gone, and the call answers 500.    *)
Removed ==
    IF customer.there
    THEN [there |-> FALSE, deletions |-> customer.deletions + 1]
    ELSE customer

RemoveCustomer(t) ==
    /\ In(t, "delete")
    /\ customer' = Removed
    /\ Leave(t)
    /\ UNCHANGED filed

-----------------------------------------------------------------------------
(* Key figures: what is reserved on all lines is added up first, then what *)
(* was ordered.  Lines are only added and their quantities never lowered,  *)
(* so a sum that is interrupted between two lines lies between the sums    *)
(* before and after, and each is one step here.                            *)
Total(quantity) == SumOver(quantity, Lines)

ReadKpis(t) ==
    /\ Take(t, [at |-> "kpis", seen |-> Total(reserved)])
    /\ UNCHANGED <<customer, filed>>

(* fill_rate, in whole percent.                                            *)
FillRate(sum) == (sum * 100) \div (IF Total(ordered) > 0 THEN Total(ordered) ELSE 1)

AnswerKpis(t) == In(t, "kpis") /\ Leave(t) /\ UNCHANGED <<customer, filed>>

-----------------------------------------------------------------------------
Desk(t) ==
    \/ CreateCustomer(t) \/ UpdateCustomer(t) \/ FindCustomer(t) \/ RemoveCustomer(t)
    \/ CreateRegion(t) \/ CreateTerritory(t) \/ CreatePlantRepresentative(t)
    \/ CreateShipment(t) \/ UpdateShipment(t) \/ CreateReturn(t) \/ UpdateReturn(t)
    \/ DraftAction(t) \/ ReadKpis(t) \/ AnswerKpis(t)

(* A thread that is in a call of the desk runs no order handler.           *)
DeskNext ==
    \/ /\ Next
       /\ \A t \in Threads : desk[t] # NoCall => pc'[t] = "idle"
       /\ UNCHANGED deskVars
    \/ \E t \in Threads : Desk(t) /\ UNCHANGED vars

DeskSpec == DeskInit /\ [][DeskNext]_<<vars, deskVars>>

-----------------------------------------------------------------------------
(* However many calls to delete a customer have found the row, one of them *)
(* is answered that it deleted it, and the row is gone by then.            *)
DeletedOnce == customer.deletions = (IF customer.there THEN 0 ELSE 1)

(* The fill rate that a call under way will answer is a percentage, though *)
(* orders are created and reserved between its two sums, unless two calls  *)
(* have written the lines of one order at one time.                        *)
FillRateIsAPercentage ==
    \A t \in Threads : In(t, "kpis") => FillRate(desk[t].seen) <= 100 \/ overlapped # {}
==============================================================================
