--------------------------- MODULE MaintenanceDesk ---------------------------
(***************************************************************************)
(* The maintenance desk beside the work orders: the registry of machines   *)
(* with their capabilities, the rules that depend on these, and the lists  *)
(* of plans, spare parts, downtime, documents and vendors.  Those lists    *)
(* are only added to, and the plans overwritten; no handler reads what     *)
(* they say, and of such a call the model keeps that it was served.        *)
(*                                                                         *)
(* A machine and its capabilities are two rows in two lists.  Creating and *)
(* updating a machine write one and then the other; deleting it leaves the *)
(* capabilities behind, and whoever looks them up takes the first row with *)
(* the machine's id.  Of the capabilities the model keeps runtime tracking.*)
(***************************************************************************)
EXTENDS MaintenanceOrders, Sequences

CONSTANTS
    NoCall,
    MaxVisits          \* bound: calls of the desk between two starts

DeskCalls == [at : {"add", "set"}, machine : Machines, tracked : BOOLEAN]

ASSUME RegistryAssumption == MaxVisits \in Nat /\ NoCall \notin DeskCalls

VARIABLES
    capability,      \* per machine: runtime tracking in each of its capability rows
    wanted,          \* history: what the last call that wrote the machine's row asked
    unsettled,       \* history: machines registered again, or whose calls overlapped,
                     \* and not updated since by a call on its own
    desk,            \* per thread: the call of the desk that it is in
    visits           \* calls the desk has taken

deskVars == <<capability, wanted, unsettled, desk, visits>>

SeedCapability == [m \in Machines |-> IF SeedMachine[m] = "absent" THEN <<>> ELSE <<TRUE>>]

MaintenanceInit ==
    /\ WorkOrdersInit
    /\ capability = SeedCapability
    /\ wanted = [m \in Machines |-> TRUE]
    /\ unsettled = {}
    /\ visits = 0
    /\ desk = [t \in Threads |-> NoCall]

Take(t, next) ==
    /\ workPc[t] = "idle" /\ desk[t] = NoCall /\ visits < MaxVisits
    /\ visits' = visits + 1
    /\ desk' = [desk EXCEPT ![t] = next]

In(t, at) == desk[t] # NoCall /\ desk[t].at = at

Leave(t) == desk' = [desk EXCEPT ![t] = NoCall] /\ UNCHANGED visits

Writing(t, m) == desk[t] # NoCall /\ desk[t].machine = m

-----------------------------------------------------------------------------
(* The row of the machine is written first.                                *)
BeginWrite(t, m, at, again) ==
    \E tracked \in BOOLEAN :
        /\ Take(t, [at |-> at, machine |-> m, tracked |-> tracked])
        /\ wanted' = [wanted EXCEPT ![m] = tracked]
        /\ unsettled' = IF again \/ \E u \in Threads : Writing(u, m)
                        THEN unsettled \cup {m} ELSE unsettled \ {m}
        /\ UNCHANGED capability

RegisterMachine(t, m) ==
    AddMachine(m) /\ BeginWrite(t, m, "add", capability[m] # <<>>)

ReviseMachine(t, m) ==
    UpdateMachine(m) /\ BeginWrite(t, m, "set", FALSE)

(* create_machine adds a capability row, whether or not one is there.      *)
AddCapability(t) ==
    /\ In(t, "add")
    /\ capability' = [capability EXCEPT ![desk[t].machine] = Append(@, desk[t].tracked)]
    /\ Leave(t)
    /\ UNCHANGED <<wanted, unsettled>>

OnlyWhatIsOn(rows, tracked) ==          \* mutant: what is off is not written
    IF rows = <<>> \/ ~tracked THEN rows ELSE [rows EXCEPT ![1] = tracked]

(* update_machine overwrites the first one, if there is one.               *)
FirstRowSet(rows, tracked) ==
    IF rows = <<>> THEN rows ELSE [rows EXCEPT ![1] = tracked]

SetCapability(t) ==
    /\ In(t, "set")
    /\ capability' =
           [capability EXCEPT ![desk[t].machine] = FirstRowSet(@, desk[t].tracked)]
    /\ Leave(t)
    /\ UNCHANGED <<wanted, unsettled>>

Rest == UNCHANGED <<capability, wanted, unsettled>>

RemoveMachine(t, m) ==
    DeleteMachine(m) /\ Take(t, NoCall) /\ Rest

-----------------------------------------------------------------------------
(* Calls that add a row to one of the other lists, or overwrite one.       *)
File(t) == Take(t, NoCall) /\ Rest

(* A rule that counts running hours needs a machine whose hours are        *)
(* counted, or one that has no capabilities on file.                       *)
MayCountHours(m) == capability[m] = <<>> \/ Head(capability[m])

CreateRule(t, m) == (\E runtime \in BOOLEAN : runtime => MayCountHours(m)) /\ File(t)

(* A reservation is compared with the stock, which it leaves as it is.     *)
ReserveSpare(t) == File(t)
CreateDowntimeEvent(t) == File(t)
CreatePlan(t) == File(t)
UpdatePlan(t) == File(t)
CreateSparePart(t) == File(t)
CreateShutdownWindow(t) == File(t)
CreateAttachment(t) == File(t)
CreateMachineDocument(t) == File(t)
CreateRuntimeLog(t) == File(t)
CreateVendor(t) == File(t)
DraftAction(t) == File(t)

-----------------------------------------------------------------------------
Registry(t) ==
    \E m \in Machines : RegisterMachine(t, m) \/ ReviseMachine(t, m) \/ RemoveMachine(t, m)

MaintenanceCall(t) ==
    \/ AddCapability(t) \/ SetCapability(t)
    \/ (\E m \in Machines : CreateRule(t, m)) \/ ReserveSpare(t) \/ CreateDowntimeEvent(t)
    \/ CreatePlan(t) \/ UpdatePlan(t) \/ CreateSparePart(t) \/ CreateShutdownWindow(t)
    \/ CreateAttachment(t) \/ CreateMachineDocument(t) \/ CreateRuntimeLog(t)
    \/ CreateVendor(t) \/ DraftAction(t)

DeskRestart ==
    /\ WorkOrdersRestart
    /\ capability' = SeedCapability
    /\ wanted' = [m \in Machines |-> TRUE]
    /\ unsettled' = {}
    /\ visits' = 0
    /\ desk' = [t \in Threads |-> NoCall]

(* A thread that is in a call of the desk runs no handler of an order.     *)
MaintenanceNext ==
    \/ /\ WorkCall
       /\ \A t \in Threads : desk[t] # NoCall => workPc'[t] = "idle"
       /\ UNCHANGED deskVars
    \/ \E t \in Threads : Registry(t) \/ (MaintenanceCall(t) /\ UNCHANGED workVars)
    \/ DeskRestart

MaintenanceSpec == MaintenanceInit /\ [][MaintenanceNext]_<<workVars, deskVars>>

-----------------------------------------------------------------------------
(* The capabilities that rules go by are those the last call on the        *)
(* machine asked for, once that call has ended, though the machine may be  *)
(* deleted and registered again: an update on its own puts them right.     *)
SettingsTakeHold ==
    \A m \in Machines \ unsettled :
        machine[m] = "absent" \/ (\E t \in Threads : Writing(t, m))
            \/ (capability[m] # <<>> /\ Head(capability[m]) = wanted[m])
==============================================================================
