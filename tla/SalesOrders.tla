----------------------------- MODULE SalesOrders -----------------------------
(***************************************************************************)
(* Sales orders from creation to dispatch: app/modules/sales.py (router),  *)
(* sales_service.py (rules) and sales_repository.py (shared lists).        *)
(*                                                                         *)
(* Every handler is a plain `def`, so the server runs it on a thread of    *)
(* its pool and several calls share the same lists and dictionaries with   *)
(* no lock.  A call that reads, then acts on what it read, is a sequence   *)
(* of steps of one thread; a call that makes one assignment is one step.   *)
(* A step ends where the code calls a repository or builtin function, the  *)
(* places at which the interpreter may switch threads.                     *)
(*                                                                         *)
(* Quantities are floats in the code and naturals here; an item without a *)
(* stock record counts as one whose fields are all zero.  Prices, dates,   *)
(* tasks, notifications, approved_by and the status of a line are written  *)
(* by the handlers and read by none, and are left out.                     *)
(***************************************************************************)
EXTENDS Integers, FiniteSetsExt

CONSTANTS
    Threads,         \* worker threads that can run a handler at one time
    Orders,          \* ids of sales orders
    Lines,           \* ids of order items
    Items,           \* finished goods
    LineOrder,       \* the order a line belongs to
    LineItem,        \* the finished good a line asks for
    FinishedGoods,   \* per item: the stock record, which no handler writes
    Contracted,      \* items with a protected contract reservation at start
    HeldOrders,      \* orders of customers whose credit hold is not "None"
    SeedOrdered,     \* per line: the quantity in the seed data, 0 if none
    Quantities,      \* ordered quantities a request may carry
    ClientStatuses,  \* statuses a request body may carry
    MaxAllocations   \* bound: rows of the allocation list a run explores

StockFields == {"physical", "reserved", "allocated", "quarantine",
                "rejected", "expired", "dispatch_pending"}

ReserveStatuses == {"Partially Reserved", "Production Required",
                    "Fully Reserved"}

ServerStatuses == ReserveStatuses \cup
    {"Submitted", "Pending Approval", "Inventory Check Pending",
     "Ready For Dispatch", "Closed"}

ASSUME SalesAssumption ==
    /\ Orders # {} /\ Lines # {}
    /\ IsFiniteSet(Threads) /\ IsFiniteSet(Lines)
    /\ LineOrder \in [Lines -> Orders]
    /\ LineItem \in [Lines -> Items]
    /\ FinishedGoods \in [Items -> [StockFields -> Nat]]
    /\ Contracted \subseteq Items
    /\ HeldOrders \subseteq Orders
    /\ SeedOrdered \in [Lines -> Nat]
    /\ Quantities \subseteq Nat \ {0}
    /\ MaxAllocations \in Nat
    /\ ClientStatuses \cap (ReserveStatuses \cup {"absent"}) = {}

VARIABLES
    status,       \* orders[o].status, "absent" before the order is created
    ordered,      \* order_items[l].ordered_quantity, 0 before it is added
    reserved,     \* order_items[l].reserved_quantity
    pending,      \* order_items[l].pending_quantity
    booked,       \* total quantity of the reservation rows made for line l
    pick,         \* quantity of line l on the latest pick list to take it
    allocations,  \* rows of the allocation list
    pc,           \* per thread: the next step of the handler it runs
    ord,          \* per thread: the order that handler was called for
    todo,         \* per thread: lines its loop has not reached
    line,         \* per thread: the line its loop is at
    qty,          \* per thread: reserve_qty
    rest,         \* per thread: the pending quantity it is about to store
    short,        \* per thread: production_required
    made,         \* per thread: the list `reservations` is not empty
    overlapped    \* history: orders two calls have worked on at one time

vars == <<status, ordered, reserved, pending, booked, pick, allocations, pc,
          ord, todo, line, qty, rest, short, made, overlapped>>

Smaller(a, b) == IF a < b THEN a ELSE b
NotBelowZero(a) == IF a > 0 THEN a ELSE 0

(* The sum of a quantity over a set.                                       *)
SumOver(quantity, set) == FoldSet(LAMBDA x, n : quantity[x] + n, 0, set)

LinesOf(o) == {l \in Lines : LineOrder[l] = o}
Present(l) == ordered[l] > 0

(* What can be promised of an item.  It reads the stock record only: the   *)
(* reservations made meanwhile are not subtracted.                         *)
AvailableQuantity(i) ==
    LET s == FinishedGoods[i] IN
    NotBelowZero(s["physical"] - s["reserved"] - s["allocated"]
                 - s["quarantine"] - s["rejected"] - s["expired"]
                 - s["dispatch_pending"])

ReservableOfOrdered(l) ==                        \* mutant: ignores pending
    Smaller(AvailableQuantity(LineItem[l]), ordered[l])

Reservable(l) == Smaller(AvailableQuantity(LineItem[l]), pending[l])

RowOfPending(t) == rest[t]                       \* mutant: the wrong quantity
RowQuantity(t) == qty[t]

LastLineShort(t) == pending[line[t]] > 0         \* mutant: the flag is reset
StillShort(t) == short[t] \/ pending[line[t]] > 0

PickQuantity(l) == reserved[l]

(* Reservation rows are never removed and always protected.                *)
ProtectedItem(i) ==
    \/ i \in Contracted
    \/ \E l \in Lines : LineItem[l] = i /\ booked[l] > 0

Steps == {"idle", "create", "line", "apply", "store", "record", "check",
          "dispatch", "pickonly"}

(* Steps of the two handlers that write the lines of their order.          *)
Writing(t) == pc[t] \in {"create", "line", "apply", "store", "record", "check"}

AnyOrder == CHOOSE o \in Orders : TRUE
AnyLine == CHOOSE l \in Lines : TRUE

Init ==
    /\ status = [o \in Orders |->
           IF \E l \in LinesOf(o) : SeedOrdered[l] > 0
           THEN "Submitted" ELSE "absent"]
    /\ ordered = SeedOrdered
    /\ reserved = [l \in Lines |-> 0]
    /\ pending = SeedOrdered
    /\ booked = [l \in Lines |-> 0]
    /\ pick = [l \in Lines |-> 0]
    /\ allocations = {}
    /\ pc = [t \in Threads |-> "idle"]
    /\ ord = [t \in Threads |-> AnyOrder]
    /\ todo = [t \in Threads |-> {}]
    /\ line = [t \in Threads |-> AnyLine]
    /\ qty = [t \in Threads |-> 0]
    /\ rest = [t \in Threads |-> 0]
    /\ short = [t \in Threads |-> FALSE]
    /\ made = [t \in Threads |-> FALSE]
    /\ overlapped = {}

(* The handler returns: its thread is free and its locals are gone.        *)
Return(t) ==
    /\ pc' = [pc EXCEPT ![t] = "idle"]
    /\ ord' = [ord EXCEPT ![t] = AnyOrder]
    /\ todo' = [todo EXCEPT ![t] = {}]
    /\ line' = [line EXCEPT ![t] = AnyLine]
    /\ qty' = [qty EXCEPT ![t] = 0]
    /\ rest' = [rest EXCEPT ![t] = 0]
    /\ short' = [short EXCEPT ![t] = FALSE]
    /\ made' = [made EXCEPT ![t] = FALSE]

-----------------------------------------------------------------------------
(* POST /sales-orders: the order row is appended first, then its lines one *)
(* by one; the order can be found in the list before its lines are there.  *)
BeginCreate(t, o) ==
    /\ pc[t] = "idle"
    /\ status[o] = "absent"
    /\ \E s \in ClientStatuses : status' = [status EXCEPT ![o] = s]
    /\ \E items \in SUBSET LinesOf(o) : todo' = [todo EXCEPT ![t] = items]
    /\ pc' = [pc EXCEPT ![t] = "create"]
    /\ ord' = [ord EXCEPT ![t] = o]
    /\ UNCHANGED <<ordered, reserved, pending, booked, pick, allocations,
                   line, qty, rest, short, made, overlapped>>

AddLine(t) ==
    /\ pc[t] = "create"
    /\ \E l \in todo[t], q \in Quantities :
          /\ ordered' = [ordered EXCEPT ![l] = q]
          /\ pending' = [pending EXCEPT ![l] = q]
          /\ todo' = [todo EXCEPT ![t] = @ \ {l}]
    /\ UNCHANGED <<status, reserved, booked, pick, allocations, pc, ord,
                   line, qty, rest, short, made, overlapped>>

EndCreate(t) ==
    /\ pc[t] = "create"
    /\ todo[t] = {}
    /\ Return(t)
    /\ UNCHANGED <<status, ordered, reserved, pending, booked, pick,
                   allocations, overlapped>>

-----------------------------------------------------------------------------
(* POST /sales-orders/{id}/reserve.  No status of the order is required.   *)
BeginReserve(t, o) ==
    /\ pc[t] = "idle"
    /\ status[o] # "absent"
    /\ pc' = [pc EXCEPT ![t] = "line"]
    /\ ord' = [ord EXCEPT ![t] = o]
    /\ todo' = [todo EXCEPT ![t] = {l \in LinesOf(o) : Present(l)}]
    /\ short' = [short EXCEPT ![t] = FALSE]
    /\ made' = [made EXCEPT ![t] = FALSE]
    /\ overlapped' = IF \E u \in Threads : Writing(u) /\ ord[u] = o
                     THEN overlapped \cup {o} ELSE overlapped
    /\ UNCHANGED <<status, ordered, reserved, pending, booked, pick,
                   allocations, line, qty, rest>>

(* The loop takes a line and works out how much of it can be reserved.     *)
TakeLine(t) ==
    /\ pc[t] = "line"
    /\ \E l \in todo[t] :
          LET q == Reservable(l) IN
          /\ line' = [line EXCEPT ![t] = l]
          /\ qty' = [qty EXCEPT ![t] = q]
          /\ todo' = [todo EXCEPT ![t] = @ \ {l}]
          /\ pc' = [pc EXCEPT ![t] = IF q > 0 THEN "apply" ELSE "check"]
    /\ UNCHANGED <<status, ordered, reserved, pending, booked, pick,
                   allocations, ord, rest, short, made, overlapped>>

(* item["reserved_quantity"] += reserve_qty, and the call max(...).        *)
AddReserved(t) ==
    /\ pc[t] = "apply"
    /\ reserved' = [reserved EXCEPT ![line[t]] = @ + qty[t]]
    /\ rest' = [rest EXCEPT ![t] =
           NotBelowZero(ordered[line[t]] - reserved'[line[t]])]
    /\ pc' = [pc EXCEPT ![t] = "store"]
    /\ UNCHANGED <<status, ordered, pending, booked, pick, allocations, ord,
                   todo, line, qty, short, made, overlapped>>

StorePending(t) ==
    /\ pc[t] = "store"
    /\ pending' = [pending EXCEPT ![line[t]] = rest[t]]
    /\ pc' = [pc EXCEPT ![t] = "record"]
    /\ UNCHANGED <<status, ordered, reserved, booked, pick, allocations, ord,
                   todo, line, qty, rest, short, made, overlapped>>

(* The reservation row is appended.                                        *)
RecordReservation(t) ==
    /\ pc[t] = "record"
    /\ booked' = [booked EXCEPT ![line[t]] = @ + RowQuantity(t)]
    /\ made' = [made EXCEPT ![t] = TRUE]
    /\ pc' = [pc EXCEPT ![t] = "check"]
    /\ UNCHANGED <<status, ordered, reserved, pending, pick, allocations,
                   ord, todo, line, qty, rest, short, overlapped>>

CheckShort(t) ==
    /\ pc[t] = "check"
    /\ short' = [short EXCEPT ![t] = StillShort(t)]
    /\ pc' = [pc EXCEPT ![t] = "line"]
    /\ line' = [line EXCEPT ![t] = AnyLine]
    /\ qty' = [qty EXCEPT ![t] = 0]
    /\ rest' = [rest EXCEPT ![t] = 0]
    /\ UNCHANGED <<status, ordered, reserved, pending, booked, pick,
                   allocations, ord, todo, made, overlapped>>

(* After the loop the order gets the status the loop's flags call for,     *)
(* whatever status it has by now.                                          *)
EndReserve(t) ==
    /\ pc[t] = "line"
    /\ todo[t] = {}
    /\ status' = [status EXCEPT ![ord[t]] =
           IF short[t] /\ made[t] THEN "Partially Reserved"
           ELSE IF short[t] THEN "Production Required"
           ELSE "Fully Reserved"]
    /\ Return(t)
    /\ UNCHANGED <<ordered, reserved, pending, booked, pick, allocations,
                   overlapped>>

-----------------------------------------------------------------------------
(* POST /sales-orders/{id}/dispatch and POST /dispatch-orders both build a *)
(* pick list from reserved_quantity, line by line; only the first looks    *)
(* the order up and sets its status, once the list is stored.              *)
BeginDispatch(t, o, step) ==
    /\ pc[t] = "idle"
    /\ step = "dispatch" => status[o] # "absent"
    /\ pc' = [pc EXCEPT ![t] = step]
    /\ ord' = [ord EXCEPT ![t] = o]
    /\ todo' = [todo EXCEPT ![t] = {l \in LinesOf(o) : Present(l)}]
    /\ UNCHANGED <<status, ordered, reserved, pending, booked, pick,
                   allocations, line, qty, rest, short, made, overlapped>>

PickLine(t) ==
    /\ pc[t] \in {"dispatch", "pickonly"}
    /\ \E l \in todo[t] :
          /\ pick' = [pick EXCEPT ![l] = PickQuantity(l)]
          /\ todo' = [todo EXCEPT ![t] = @ \ {l}]
    /\ UNCHANGED <<status, ordered, reserved, pending, booked, allocations,
                   pc, ord, line, qty, rest, short, made, overlapped>>

EndDispatch(t) ==
    /\ pc[t] \in {"dispatch", "pickonly"}
    /\ todo[t] = {}
    /\ status' = IF pc[t] = "dispatch"
                 THEN [status EXCEPT ![ord[t]] = "Ready For Dispatch"]
                 ELSE status
    /\ Return(t)
    /\ UNCHANGED <<ordered, reserved, pending, booked, pick, allocations,
                   overlapped>>

-----------------------------------------------------------------------------
(* Calls that make one assignment.                                         *)
SetStatus(o, s) ==
    /\ status[o] # "absent"
    /\ status' = [status EXCEPT ![o] = s]
    /\ UNCHANGED <<ordered, reserved, pending, booked, pick, allocations, pc,
                   ord, todo, line, qty, rest, short, made, overlapped>>

SubmitOrder(o) == SetStatus(o, "Pending Approval")

ApproveOrder(o) ==
    SetStatus(o, IF o \in HeldOrders THEN "Pending Approval"
                 ELSE "Inventory Check Pending")

CloseOrder(o) == SetStatus(o, "Closed")

(* PUT /sales-orders/{id} overwrites the row, status included, and drops   *)
(* the items of the body.                                                  *)
UpdateOrder(o) == \E s \in ClientStatuses : SetStatus(o, s)

(* POST /allocations.  The order is not looked up and no stock moves.      *)
CreateAllocation(o, i, override) ==
    /\ Cardinality(allocations) < MaxAllocations
    /\ allocations' = allocations \cup
           {[order |-> o, item |-> i,
             status |-> IF ~ProtectedItem(i) THEN "Allocated"
                        ELSE IF override THEN "Override Approval Required"
                        ELSE "Blocked By Protected Reservation"]}
    /\ UNCHANGED <<status, ordered, reserved, pending, booked, pick, pc, ord,
                   todo, line, qty, rest, short, made, overlapped>>

-----------------------------------------------------------------------------
ThreadStep(t) ==
    \/ AddLine(t) \/ EndCreate(t)
    \/ TakeLine(t) \/ AddReserved(t) \/ StorePending(t)
    \/ RecordReservation(t) \/ CheckShort(t) \/ EndReserve(t)
    \/ PickLine(t) \/ EndDispatch(t)

Next ==
    \/ \E t \in Threads, o \in Orders :
          \/ BeginCreate(t, o)
          \/ BeginReserve(t, o)
          \/ \E step \in {"dispatch", "pickonly"} : BeginDispatch(t, o, step)
    \/ \E t \in Threads : ThreadStep(t)
    \/ \E o \in Orders :
          \/ SubmitOrder(o) \/ ApproveOrder(o) \/ CloseOrder(o)
          \/ UpdateOrder(o)
          \/ \E i \in Items, override \in BOOLEAN :
                CreateAllocation(o, i, override)

Spec == Init /\ [][Next]_vars

-----------------------------------------------------------------------------
AllocationRows ==
    [order : Orders, item : Items, status : {"Allocated",
        "Override Approval Required", "Blocked By Protected Reservation"}]

TypeOK ==
    /\ status \in [Orders -> {"absent"} \cup ClientStatuses \cup ServerStatuses]
    /\ ordered \in [Lines -> Nat]
    /\ reserved \in [Lines -> Nat]
    /\ pending \in [Lines -> Nat]
    /\ booked \in [Lines -> Nat]
    /\ pick \in [Lines -> Nat]
    /\ allocations \subseteq AllocationRows
    /\ pc \in [Threads -> Steps]
    /\ ord \in [Threads -> Orders]
    /\ todo \in [Threads -> SUBSET Lines]
    /\ line \in [Threads -> Lines]
    /\ qty \in [Threads -> Nat]
    /\ rest \in [Threads -> Nat]
    /\ short \in [Threads -> BOOLEAN]
    /\ made \in [Threads -> BOOLEAN]
    /\ overlapped \subseteq Orders

(* No thread is writing the lines of the order.                            *)
AtRest(o) == \A t \in Threads : ord[t] = o => ~Writing(t)

(* An order on which no two calls that write lines ever overlapped is      *)
(* never reserved beyond what the customer ordered, however calls on other *)
(* orders and status calls interleave; and between such calls each line is *)
(* split exactly into what is reserved and what is still pending.          *)
NeverOversold ==
    \A l \in Lines :
        LineOrder[l] \notin overlapped =>
            /\ reserved[l] <= ordered[l]
            /\ AtRest(LineOrder[l]) => reserved[l] + pending[l] = ordered[l]

(* Some line of the order still asks for something.                        *)
Waiting(o) == \E l \in LinesOf(o) : pending[l] > 0

(* The three statuses of a reservation can be believed: a fully reserved   *)
(* order has nothing pending, the two others have, and a partial one also  *)
(* has something reserved, whatever status calls came in between.          *)
StatusTellsShortage ==
    \A o \in Orders :
        o \notin overlapped /\ AtRest(o) =>
            /\ status[o] = "Fully Reserved" => ~Waiting(o)
            /\ status[o] \in {"Partially Reserved", "Production Required"}
                  => Waiting(o)
            /\ status[o] = "Partially Reserved"
                  => \E l \in LinesOf(o) : booked[l] > 0

(* Threads that have raised reserved_quantity of a line and not yet stored *)
(* the reservation row for it.                                             *)
Unrecorded(l) == {t \in Threads : pc[t] \in {"store", "record"} /\ line[t] = l}

(* Even when calls overlap, every unit reserved on a line is on a          *)
(* reservation row, or on the row a thread is about to store.              *)
RowsBackReservations ==
    \A l \in Lines : reserved[l] = booked[l] + SumOver(qty, Unrecorded(l))
==============================================================================
