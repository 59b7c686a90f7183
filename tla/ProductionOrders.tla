--------------------------- MODULE ProductionOrders ---------------------------
(***************************************************************************)
(* Production orders: planning and reserving material, scheduling, costing *)
(* and completion (production.py, production_service.py,                   *)
(* production_repository.py).                                              *)
(*                                                                         *)
(* Reservations and costings are lists for all orders together.  Replacing *)
(* the rows of one order rebuilds the list: a handler filters the list it  *)
(* finds and, in a later step, stores what it kept with its own rows       *)
(* added.  Threads take no lock.  The list of requirements is rebuilt in   *)
(* the same way, but is never read back: what a call computes for it is in *)
(* the thread's locals here, and calls that only rebuild it are left out,  *)
(* like tasks, notifications, schedules and logs, which nothing reads.     *)
(*                                                                         *)
(* Every order names the BOM of the seed data: planning one that names an  *)
(* unknown BOM raises KeyError before it changes anything.  Stock and      *)
(* incoming stock are written by no handler.  Quantities are naturals.     *)
(***************************************************************************)
EXTENDS ThreadPool, Integers

CONSTANTS
    Orders,          \* ids of production orders
    Materials,       \* items of the BOM
    PerUnit,         \* per material: quantity one product takes, with scrap
    Inventory,       \* per material: stock
    Incoming,        \* per material: stock that is on order
    SeedTarget,      \* per order: quantity in the seed data, 0 if not there
    Quantities,      \* quantities a request may carry
    ClientStatuses   \* statuses a request body may carry

Shortages == {"Material Reserved", "Material Shortage"}
Completions == {"Quality Pending", "Completed"}
ServerStatuses == Shortages \cup Completions \cup {"Scheduled", "On Hold"}

ASSUME ProductionAssumption ==
    /\ Orders # {}
    /\ "total" \notin Materials
    /\ PerUnit \in [Materials -> Nat]
    /\ Inventory \in [Materials -> Nat]
    /\ Incoming \in [Materials -> Nat]
    /\ SeedTarget \in [Orders -> Nat]
    /\ Quantities \subseteq Nat
    /\ ClientStatuses \cap (Shortages \cup Completions \cup {"absent"}) = {}

Lists == {"reservations", "costing"}

VARIABLES
    status,    \* orders[o].status, "absent" before the order is created
    target,    \* orders[o].target_quantity
    rows,      \* per list: its rows
    pc,        \* per thread: the next step of the handler
    kind,      \* per thread: the handler it runs
    ord,       \* per thread: the order the call is about
    todo,      \* per thread: materials its loop has not reached
    at,        \* per thread: the list it rebuilds
    own,       \* per thread: the order's new rows
    kept,      \* per thread: the rows it found for other orders
    clashed,   \* history: lists two threads have rebuilt at one time
    edited     \* history: orders changed while they were being reserved

locals == <<pc, kind, ord, todo, at, own, kept>>
vars == <<status, target, rows, pc, kind, ord, todo, at, own, kept, clashed,
          edited>>

AnyOrder == CHOOSE o \in Orders : TRUE
SeedStatus == [o \in Orders |-> IF SeedTarget[o] > 0 THEN "Scheduled" ELSE "absent"]

Init ==
    /\ status = SeedStatus
    /\ target = SeedTarget
    /\ rows = [L \in Lists |-> {}]
    /\ pc = [t \in Threads |-> "idle"]
    /\ kind = [t \in Threads |-> "reserve"]
    /\ ord = [t \in Threads |-> AnyOrder]
    /\ todo = [t \in Threads |-> {}]
    /\ at = [t \in Threads |-> "reservations"]
    /\ own = [t \in Threads |-> {}]
    /\ kept = [t \in Threads |-> {}]
    /\ clashed = {}
    /\ edited = {}

Known(o) == status[o] # "absent"
Running(o, k) == \E t \in Threads : pc[t] # "idle" /\ kind[t] = k /\ ord[t] = o
RowsOf(o, L) == {r \in rows[L] : r.order = o}

-----------------------------------------------------------------------------
CreateOrder(o) ==
    /\ ~Known(o)
    /\ \E s \in ClientStatuses, q \in Quantities :
          /\ status' = [status EXCEPT ![o] = s]
          /\ target' = [target EXCEPT ![o] = q]
    /\ UNCHANGED <<rows, locals, clashed, edited>>

(* PUT /production/orders/{id} overwrites the row, status included.        *)
UpdateOrder(o) ==
    /\ Known(o)
    /\ \E s \in ClientStatuses, q \in Quantities :
          /\ status' = [status EXCEPT ![o] = s]
          /\ target' = [target EXCEPT ![o] = q]
    /\ edited' = IF Running(o, "reserve") THEN edited \cup {o} ELSE edited
    /\ UNCHANGED <<rows, locals, clashed>>

Enter(t, o, k, step) ==
    /\ pc[t] = "idle"
    /\ Known(o)
    /\ pc' = [pc EXCEPT ![t] = step]
    /\ kind' = [kind EXCEPT ![t] = k]
    /\ ord' = [ord EXCEPT ![t] = o]

Return(t) ==
    /\ pc' = [pc EXCEPT ![t] = "idle"]
    /\ kind' = [kind EXCEPT ![t] = "reserve"]
    /\ ord' = [ord EXCEPT ![t] = AnyOrder]
    /\ at' = [at EXCEPT ![t] = "reservations"]
    /\ own' = [own EXCEPT ![t] = {}]

(* material_requirements, called to reserve the material or to find the    *)
(* conflicts of a schedule.                                                *)
BeginDemand(t, o, k) ==
    /\ Enter(t, o, k, "demand")
    /\ todo' = [todo EXCEPT ![t] = Materials]
    /\ UNCHANGED <<status, target, rows, at, own, kept, clashed, edited>>

Demand(o, m) == target[o] * PerUnit[m]

(* The loop over the items of the BOM; it reads the target every time.     *)
DemandItem(t) ==
    /\ pc[t] = "demand"
    /\ \E m \in todo[t] :
          /\ own' = [own EXCEPT ![t] = @ \cup
                {[order |-> ord[t], item |-> m, quantity |-> Demand(ord[t], m)]}]
          /\ todo' = [todo EXCEPT ![t] = @ \ {m}]
    /\ UNCHANGED <<status, target, rows, pc, kind, ord, at, kept, clashed, edited>>

EndDemand(t) ==
    /\ pc[t] = "demand"
    /\ todo[t] = {}
    /\ pc' = [pc EXCEPT ![t] = IF kind[t] = "reserve" THEN "keep" ELSE "status"]
    /\ UNCHANGED <<status, target, rows, kind, ord, todo, at, own, kept, clashed,
                   edited>>

-----------------------------------------------------------------------------
(* Rebuilding a list: [row for row in list if row is not of the order] ... *)
KeepEverything(o, L) == rows[L]                 \* mutant: no filter
KeepNothing(o, L) == {}                         \* mutant: other orders' rows go
OfOthers(o, L) == {r \in rows[L] : r.order # o}

KeepRows(t) ==
    /\ pc[t] = "keep"
    /\ kept' = [kept EXCEPT ![t] = OfOthers(ord[t], at[t])]
    /\ clashed' = IF \E u \in Threads : pc[u] = "store" /\ at[u] = at[t]
                  THEN clashed \cup {at[t]} ELSE clashed
    /\ pc' = [pc EXCEPT ![t] = "store"]
    /\ UNCHANGED <<status, target, rows, kind, ord, todo, at, own, edited>>

(* ... + the new rows; reserving then goes on to the order's status.       *)
StoreRows(t) ==
    /\ pc[t] = "store"
    /\ rows' = [rows EXCEPT ![at[t]] = kept[t] \cup own[t]]
    /\ kept' = [kept EXCEPT ![t] = {}]
    /\ IF kind[t] = "reserve"
       THEN pc' = [pc EXCEPT ![t] = "status"] /\ UNCHANGED <<kind, ord, at, own>>
       ELSE Return(t)
    /\ UNCHANGED <<status, target, todo, clashed, edited>>

-----------------------------------------------------------------------------
(* A reservation is the lesser of what is required and the whole stock:    *)
(* what other orders have reserved of it is not looked at.                 *)
IsShort(rs) == \E r \in rs : r.quantity > Inventory[r.item]
CanProduce(rs) == \A r \in rs : r.quantity <= Inventory[r.item] + Incoming[r.item]

EndReserve(t) ==
    /\ pc[t] = "status" /\ kind[t] = "reserve"
    /\ status' = [status EXCEPT ![ord[t]] =
           IF IsShort(own[t]) THEN "Material Shortage" ELSE "Material Reserved"]
    /\ Return(t)
    /\ UNCHANGED <<target, rows, todo, kept, clashed, edited>>

(* The line, the work centre or a machine may be in conflict as well.      *)
EndSchedule(t) ==
    /\ pc[t] = "status" /\ kind[t] = "schedule"
    /\ \E free \in BOOLEAN :
          status' = [status EXCEPT ![ord[t]] =
              IF free /\ CanProduce(own[t]) THEN "Scheduled" ELSE "On Hold"]
    /\ Return(t)
    /\ UNCHANGED <<target, rows, todo, kept, clashed, edited>>

-----------------------------------------------------------------------------
(* calculate_cost replaces the costing row of the order.                   *)
BeginCost(t, o, k) ==
    /\ Enter(t, o, k, "keep")
    /\ at' = [at EXCEPT ![t] = "costing"]
    /\ own' = [own EXCEPT ![t] = {[order |-> o, item |-> "total", quantity |-> 0]}]
    /\ UNCHANGED <<target, rows, todo, kept, clashed, edited>>

CalculateCosting(t, o) ==
    /\ BeginCost(t, o, "cost")
    /\ UNCHANGED status

(* No status of the order is required.  The status comes first, the cost   *)
(* later, and the reservation rows stay, although the answer says          *)
(* unused_reservations_released.                                           *)
CompleteOrder(t, o) ==
    /\ BeginCost(t, o, "complete")
    /\ \E s \in Completions : status' = [status EXCEPT ![o] = s]

(* The server stops and starts on a fresh repository.                      *)
Restart ==
    /\ status' = SeedStatus
    /\ target' = SeedTarget
    /\ rows' = [L \in Lists |-> {}]
    /\ pc' = [t \in Threads |-> "idle"]
    /\ kind' = [t \in Threads |-> "reserve"]
    /\ ord' = [t \in Threads |-> AnyOrder]
    /\ todo' = [t \in Threads |-> {}]
    /\ at' = [t \in Threads |-> "reservations"]
    /\ own' = [t \in Threads |-> {}]
    /\ kept' = [t \in Threads |-> {}]
    /\ clashed' = {}
    /\ edited' = {}

ThreadStep(t) ==
    \/ DemandItem(t) \/ EndDemand(t)
    \/ KeepRows(t) \/ StoreRows(t)
    \/ EndReserve(t) \/ EndSchedule(t)

Work ==
    \/ \E t \in Threads, o \in Orders :
          \/ \E k \in {"reserve", "schedule"} : BeginDemand(t, o, k)
          \/ CalculateCosting(t, o) \/ CompleteOrder(t, o)
    \/ \E t \in Threads : ThreadStep(t)
    \/ \E o \in Orders : CreateOrder(o) \/ UpdateOrder(o)

Next == Work \/ Restart

Spec == Init /\ [][Next]_vars

-----------------------------------------------------------------------------
(* The planner can believe the status a reservation leaves, while the      *)
(* order is being reserved again, too: the rows are on file, one for each  *)
(* material and for the quantity the order now asks for, and the status    *)
(* says whether the stock covers them.                                     *)
ReservedIsOnFile ==
    \A o \in Orders \ edited :
        /\ "reservations" \notin clashed
        /\ status[o] \in Shortages
        => /\ RowsOf(o, "reservations") =
                 {[order |-> o, item |-> m, quantity |-> target[o] * PerUnit[m]]
                     : m \in Materials}
           /\ status[o] = "Material Shortage" <=> IsShort(RowsOf(o, "reservations"))

(* An order that is completed has its cost on file once the call that      *)
(* completed it has returned, unless two costings overlapped.              *)
CompletedIsCosted ==
    \A o \in Orders :
        /\ "costing" \notin clashed
        /\ status[o] \in Completions
        /\ ~Running(o, "complete")
        => RowsOf(o, "costing") # {}

==============================================================================
