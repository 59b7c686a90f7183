-------------------------- MODULE MaintenanceOrders --------------------------
(***************************************************************************)
(* Maintenance work orders: the approval they need, the machine they take  *)
(* out of service, the spares they consume and what they cost              *)
(* (maintenance.py, maintenance_service.py, maintenance_repository.py).    *)
(*                                                                         *)
(* Completing an order is long: status, machine, one stock read, stock     *)
(* write and usage row per spare, then the cost.  Threads take no lock,    *)
(* and an error half-way leaves what was written.  Of a usage row the      *)
(* model keeps its quantity and its order; a cost stands for the usage     *)
(* rows it adds up.                                                        *)
(*                                                                         *)
(* Machine ids are not created twice.  The spares of a completion are free *)
(* dictionaries: an entry may lack the id of its spare or have a quantity  *)
(* or a cost that is no number; of the others the model has a request name *)
(* a spare once and in a natural quantity (the code takes a negative one,  *)
(* and adds it to the stock).  Plans, rules, downtime, history, tasks,     *)
(* notifications and spare reservations are left out: no handler of a work *)
(* order reads them, and reserving a spare does not change the stock.      *)
(***************************************************************************)
EXTENDS ThreadPool, Integers

CONSTANTS
    WorkOrders,       \* ids of work orders
    Machines,         \* machine ids
    Spares,           \* spare parts
    SeedOrders,       \* work orders of the seed data, all breakdowns under way
    SeedSubject,      \* per order: its machine in the seed data
    SeedMachine,      \* per machine: its status there
    SeedStock,        \* per spare: stock there
    WorkStatuses,     \* work order statuses a request body may carry
    MachineStatuses,  \* machine statuses a request body may carry
    Portions,         \* bound: quantities of a spare one completion uses, 0 for none
    MaxRows           \* bound: an order with this many usage rows is not completed

WorkCompletions == {"Completed", "Pending Review"}
WorkServerStatuses == WorkCompletions \cup
    {"Open", "Waiting For Approval", "Assigned", "In Progress", "Closed"}
ServiceStates == {"Under Maintenance", "Active", "Pending Validation"}

ASSUME MaintenanceAssumption ==
    /\ WorkOrders # {} /\ Spares # {}
    /\ SeedOrders \subseteq WorkOrders
    /\ SeedSubject \in [WorkOrders -> Machines]
    /\ SeedMachine \in [Machines -> {"absent"} \cup ServiceStates]
    /\ \A o \in SeedOrders : SeedMachine[SeedSubject[o]] = "Under Maintenance"
    /\ SeedStock \in [Spares -> Nat]
    /\ WorkStatuses \cap ((WorkServerStatuses \ {"Open"}) \cup {"absent"}) = {}
    /\ "absent" \notin MachineStatuses
    /\ Portions \subseteq Nat /\ 0 \in Portions
    /\ MaxRows \in Nat

VARIABLES
    machine,     \* machines[m].status, "absent" if there is no such row
    workStatus,  \* work_orders[o].status, "absent" before it is created
    review,      \* work_orders[o].approval_status is "Post Review Required"
    subject,     \* work_orders[o].machine_id
    assigned,    \* work_orders[o].assigned_to is not None
    stock,       \* spare_stock
    used,        \* per spare: quantity of all its usage rows
    lines,       \* per order: number of its usage rows
    unpriced,    \* orders with a usage row whose cost is no number
    costs,       \* per order: how many usage rows each of its cost rows adds up
    workPc,      \* per thread: the next step of the handler
    workOf,      \* per thread: the order the call is about
    after,       \* per thread: the status the machine is about to get
    need,        \* per thread: quantity of each spare still to consume
    part,        \* per thread: the spare it consumes
    current,     \* per thread: the stock it has read, or the rows it has added up
    contested,   \* history: spares two threads have consumed at one time
    uncosted     \* history: orders that a completion left without a cost, and none
                 \* could add up the usage rows since

orderVars == <<workStatus, review, subject, assigned>>
spareVars == <<stock, used, lines, unpriced, costs>>
workLocals == <<workPc, workOf, after, need, part, current>>
workVars == <<machine, orderVars, spareVars, workLocals, contested, uncosted>>

AnyWork == CHOOSE o \in WorkOrders : TRUE
AnySpare == CHOOSE p \in Spares : TRUE
Nothing == [p \in Spares |-> 0]
Created(o) == workStatus[o] # "absent"
Busy(o) == \E t \in Threads : workPc[t] # "idle" /\ workOf[t] = o

SeedWorkStatus ==
    [o \in WorkOrders |-> IF o \in SeedOrders THEN "In Progress" ELSE "absent"]
IsSeed == [o \in WorkOrders |-> o \in SeedOrders]

WorkOrdersInit ==
    /\ machine = SeedMachine
    /\ workStatus = SeedWorkStatus
    /\ review = IsSeed
    /\ subject = SeedSubject
    /\ assigned = IsSeed
    /\ stock = SeedStock
    /\ used = Nothing
    /\ lines = [o \in WorkOrders |-> 0]
    /\ unpriced = {}
    /\ costs = [o \in WorkOrders |-> {}]
    /\ workPc = [t \in Threads |-> "idle"]
    /\ workOf = [t \in Threads |-> AnyWork]
    /\ after = [t \in Threads |-> "Active"]
    /\ need = [t \in Threads |-> Nothing]
    /\ part = [t \in Threads |-> AnySpare]
    /\ current = [t \in Threads |-> 0]
    /\ contested = {}
    /\ uncosted = {}

-----------------------------------------------------------------------------
(* The machine registry, as far as orders see it: the row of a machine can *)
(* be edited or deleted while orders on it are under way.  What else these *)
(* calls write is in MaintenanceDesk.                                      *)
SetMachine(m, s) ==
    /\ machine' = [machine EXCEPT ![m] = s]
    /\ UNCHANGED <<orderVars, spareVars, workLocals, contested, uncosted>>

AddMachine(m) ==
    machine[m] = "absent" /\ \E s \in MachineStatuses : SetMachine(m, s)
UpdateMachine(m) ==
    machine[m] # "absent" /\ \E s \in MachineStatuses : SetMachine(m, s)
DeleteMachine(m) ==
    machine[m] # "absent" /\ SetMachine(m, "absent")

-----------------------------------------------------------------------------
SetOrder(o, s, a, m, has) ==
    /\ workStatus' = [workStatus EXCEPT ![o] = s]
    /\ review' = [review EXCEPT ![o] = a]
    /\ subject' = [subject EXCEPT ![o] = m]
    /\ assigned' = [assigned EXCEPT ![o] = has]
    /\ UNCHANGED <<machine, spareVars, workLocals, contested, uncosted>>

(* approval_model looks the machine up: KeyError for one that is unknown.  *)
CreateWorkOrder(o, m, has) ==
    /\ ~Created(o)
    /\ machine[m] # "absent"
    /\ \/ SetOrder(o, "Open", TRUE, m, has)
       \/ SetOrder(o, "Waiting For Approval", FALSE, m, has)
       \/ \E s \in WorkStatuses : SetOrder(o, s, FALSE, m, has)

(* PUT /maintenance/work-orders/{id} overwrites the row, with a status, an *)
(* approval and a machine nothing looks at.                                *)
UpdateWorkOrder(o, m, has) ==
    /\ Created(o)
    /\ \E s \in WorkStatuses, a \in BOOLEAN : SetOrder(o, s, a, m, has)

AssignWorkOrder(o, has) ==
    /\ Created(o)
    /\ SetOrder(o, "Assigned", review[o], subject[o], has)

CloseWorkOrder(o) ==
    /\ workStatus[o] \in WorkCompletions
    /\ SetOrder(o, "Closed", review[o], subject[o], assigned[o])

-----------------------------------------------------------------------------
EnterWork(t, o, s, service) ==
    /\ workPc[t] = "idle"
    /\ Created(o)
    /\ workStatus' = [workStatus EXCEPT ![o] = s]
    /\ workPc' = [workPc EXCEPT ![t] = "machine"]
    /\ workOf' = [workOf EXCEPT ![t] = o]
    /\ after' = [after EXCEPT ![t] = service]
    /\ UNCHANGED <<machine, review, subject, assigned, spareVars, part,
                   current, contested, uncosted>>

ReturnWork(t) ==
    /\ workPc' = [workPc EXCEPT ![t] = "idle"]
    /\ workOf' = [workOf EXCEPT ![t] = AnyWork]
    /\ after' = [after EXCEPT ![t] = "Active"]
    /\ need' = [need EXCEPT ![t] = Nothing]
    /\ part' = [part EXCEPT ![t] = AnySpare]
    /\ current' = [current EXCEPT ![t] = 0]

(* Neither call asks what status the order has.                            *)
StartWorkOrder(t, o) ==
    /\ EnterWork(t, o, "In Progress", "Under Maintenance")
    /\ UNCHANGED need

CompletedStatus(o) ==
    IF review[o] THEN "Pending Review" ELSE "Completed"

CompleteWorkOrder(t, o) ==
    /\ lines[o] < MaxRows
    /\ \E v \in {"Active", "Pending Validation"} : EnterWork(t, o, CompletedStatus(o), v)
    /\ \E q \in [Spares -> Portions] : need' = [need EXCEPT ![t] = q]

(* KeyError: the machine is gone, the call ends, the status stays.         *)
MachineGone(t) ==
    /\ workPc[t] = "machine"
    /\ machine[subject[workOf[t]]] = "absent"
    /\ ReturnWork(t)
    /\ UNCHANGED <<machine, orderVars, spareVars, contested, uncosted>>

WriteMachine(t) ==
    /\ workPc[t] = "machine"
    /\ machine[subject[workOf[t]]] # "absent"
    /\ machine' = [machine EXCEPT ![subject[workOf[t]]] = after[t]]
    /\ IF after[t] = "Under Maintenance"
       THEN ReturnWork(t)
       ELSE /\ workPc' = [workPc EXCEPT ![t] = "spares"]
            /\ after' = [after EXCEPT ![t] = "Active"]
            /\ UNCHANGED <<workOf, need, part, current>>
    /\ UNCHANGED <<orderVars, spareVars, contested, uncosted>>

-----------------------------------------------------------------------------
(* consume_spare for each spare of the request: read the stock ...         *)
ReadStock(t, p) ==
    /\ workPc[t] = "spares"
    /\ need[t][p] > 0
    /\ current' = [current EXCEPT ![t] = stock[p]]
    /\ part' = [part EXCEPT ![t] = p]
    /\ contested' = contested \cup
           {x \in {p} : \E u \in Threads \ {t} : workPc[u] = "stock" /\ part[u] = x}
    /\ workPc' = [workPc EXCEPT ![t] = "stock"]
    /\ UNCHANGED <<machine, orderVars, spareVars, workOf, after, need, uncosted>>

AllOrNothing(a, q) == IF a >= q THEN a - q ELSE a  \* mutant: short stock stays
Left(a, q) == IF a >= q THEN a - q ELSE 0

(* ... write what is left of it ...                                        *)
WriteStock(t) ==
    /\ workPc[t] = "stock"
    /\ stock' = [stock EXCEPT ![part[t]] = Left(current[t], need[t][part[t]])]
    /\ workPc' = [workPc EXCEPT ![t] = "usage"]
    /\ UNCHANGED <<machine, orderVars, used, lines, unpriced, costs, workOf, after, need,
                   part, current, contested, uncosted>>

(* ... and add the usage row, with whatever the request has for its cost.  *)
AddUsage(t) ==
    /\ workPc[t] = "usage"
    /\ unpriced' \in {unpriced, unpriced \cup {workOf[t]}}
    /\ used' = [used EXCEPT ![part[t]] = @ + need[t][part[t]]]
    /\ lines' = [lines EXCEPT ![workOf[t]] = @ + 1]
    /\ need' = [need EXCEPT ![t][part[t]] = 0]
    /\ part' = [part EXCEPT ![t] = AnySpare]
    /\ current' = [current EXCEPT ![t] = 0]
    /\ workPc' = [workPc EXCEPT ![t] = "spares"]
    /\ UNCHANGED <<machine, orderVars, stock, costs, workOf, after, contested, uncosted>>

(* The call fails, and the order keeps what was written of it.             *)
GiveUp(t) ==
    /\ uncosted' = uncosted \cup {workOf[t]}
    /\ ReturnWork(t)
    /\ UNCHANGED <<machine, orderVars, spareVars, contested>>

(* An entry without the id of a spare, or with a quantity that is none:    *)
(* KeyError or TypeError, after the spares before it were consumed.        *)
MalformedSpare(t) ==
    /\ workPc[t] = "spares"
    /\ GiveUp(t)

(* calculate_cost adds up the usage rows of the order ...                  *)
FirstRow(o) == IF lines[o] = 0 THEN 0 ELSE 1      \* mutant: next(...) for sum(...)
SpareCost(o) == lines[o]

SumSpares(t) ==
    /\ workPc[t] = "spares"
    /\ need[t] = Nothing
    /\ workOf[t] \notin unpriced
    /\ uncosted' = uncosted \ {workOf[t]}
    /\ current' = [current EXCEPT ![t] = SpareCost(workOf[t])]
    /\ workPc' = [workPc EXCEPT ![t] = "cost"]
    /\ UNCHANGED <<machine, orderVars, spareVars, workOf, after, need, part, contested>>

(* ... which fails on a cost that is no number, whoever sent it ...        *)
CannotSum(t) ==
    /\ workPc[t] = "spares"
    /\ need[t] = Nothing
    /\ workOf[t] \in unpriced
    /\ GiveUp(t)

(* ... and asks assigned_to whether it is a vendor, which None cannot      *)
(* answer: AttributeError, and no cost row.                                *)
NoAssignee(t) ==
    /\ workPc[t] = "cost"
    /\ ~assigned[workOf[t]]
    /\ GiveUp(t)

AddCost(t) ==
    /\ workPc[t] = "cost"
    /\ assigned[workOf[t]]
    /\ costs' = [costs EXCEPT ![workOf[t]] = @ \cup {current[t]}]
    /\ ReturnWork(t)
    /\ UNCHANGED <<machine, orderVars, stock, used, lines, unpriced, contested, uncosted>>

-----------------------------------------------------------------------------
(* The server stops and starts on a fresh repository.                      *)
WorkOrdersRestart ==
    /\ machine' = SeedMachine
    /\ workStatus' = SeedWorkStatus
    /\ review' = IsSeed
    /\ subject' = SeedSubject
    /\ assigned' = IsSeed
    /\ stock' = SeedStock
    /\ used' = Nothing
    /\ lines' = [o \in WorkOrders |-> 0]
    /\ unpriced' = {}
    /\ costs' = [o \in WorkOrders |-> {}]
    /\ workPc' = [t \in Threads |-> "idle"]
    /\ workOf' = [t \in Threads |-> AnyWork]
    /\ after' = [t \in Threads |-> "Active"]
    /\ need' = [t \in Threads |-> Nothing]
    /\ part' = [t \in Threads |-> AnySpare]
    /\ current' = [t \in Threads |-> 0]
    /\ contested' = {}
    /\ uncosted' = {}

MachineCall(m) == AddMachine(m) \/ UpdateMachine(m) \/ DeleteMachine(m)
OrderCall(o) ==
    \/ CloseWorkOrder(o)
    \/ \E has \in BOOLEAN :
          \/ AssignWorkOrder(o, has)
          \/ \E m \in Machines : CreateWorkOrder(o, m, has) \/ UpdateWorkOrder(o, m, has)
Consume(t) == (\E p \in Spares : ReadStock(t, p)) \/ WriteStock(t) \/ AddUsage(t)
WorkStep(t) ==
    \/ MachineGone(t) \/ WriteMachine(t)
    \/ Consume(t)
    \/ MalformedSpare(t) \/ CannotSum(t) \/ NoAssignee(t)
    \/ SumSpares(t) \/ AddCost(t)

WorkCall ==
    \/ \E o \in WorkOrders : OrderCall(o)
    \/ \E t \in Threads, o \in WorkOrders : StartWorkOrder(t, o) \/ CompleteWorkOrder(t, o)
    \/ \E t \in Threads : WorkStep(t)

WorkOrdersNext == WorkCall \/ (\E m \in Machines : MachineCall(m)) \/ WorkOrdersRestart

WorkOrdersSpec == WorkOrdersInit /\ [][WorkOrdersNext]_workVars

-----------------------------------------------------------------------------
TypeOK ==
    /\ machine \in [Machines -> {"absent"} \cup MachineStatuses \cup ServiceStates]
    /\ workStatus \in [WorkOrders -> {"absent"} \cup WorkStatuses \cup WorkServerStatuses]
    /\ review \in [WorkOrders -> BOOLEAN]
    /\ subject \in [WorkOrders -> Machines]
    /\ assigned \in [WorkOrders -> BOOLEAN]
    /\ stock \in [Spares -> Nat]
    /\ used \in [Spares -> Nat]
    /\ lines \in [WorkOrders -> Nat]
    /\ unpriced \subseteq WorkOrders
    /\ costs \in [WorkOrders -> SUBSET Nat]
    /\ workPc \in [Threads -> {"idle", "machine", "spares", "stock", "usage", "cost"}]
    /\ workOf \in [Threads -> WorkOrders]
    /\ after \in [Threads -> ServiceStates]
    /\ need \in [Threads -> [Spares -> Portions]]
    /\ part \in [Threads -> Spares]
    /\ current \in [Threads -> Nat]
    /\ contested \subseteq Spares
    /\ uncosted \subseteq WorkOrders

(* The stock of a spare is what the usage rows leave of the seed stock,    *)
(* whatever orders, retries and failures did in between, as long as no     *)
(* request consumes a negative quantity.  If two threads consumed the      *)
(* spare at one time, what one of them took may be lost and the stock be   *)
(* too high: it is never lower than the rows account for.                  *)
SparesAccountedFor ==
    \A p \in Spares :
        (\A t \in Threads : ~(workPc[t] = "usage" /\ part[t] = p)) =>
            /\ stock[p] \in Left(SeedStock[p], used[p]) .. SeedStock[p]
            /\ p \notin contested => stock[p] = Left(SeedStock[p], used[p])

(* An order at rest has a cost row that covers every spare it has used,    *)
(* even if completions of it overlapped, and also those of a completion    *)
(* that failed before its cost, once a later one has added the rows up.    *)
CostCoversSpares ==
    \A o \in WorkOrders \ uncosted :
        ~Busy(o) /\ lines[o] > 0 => lines[o] \in costs[o]
==============================================================================
