---------------------------- MODULE MobileDevices ----------------------------
(***************************************************************************)
(* Mobile devices and their sessions: login, refresh, logout, registering  *)
(* and disabling a device (mobile.py, mobile_service.py,                   *)
(* mobile_repository.py).                                                  *)
(*                                                                         *)
(* login looks the device up, and appends the session in a later step;     *)
(* disable sets the device's status, and logs its sessions out one by one  *)
(* in later steps.  Handlers run on threads with no lock between them.     *)
(* The user and password of a login are right: a wrong one changes nothing.*)
(* refresh stores nothing: it answers with a token whenever the session is *)
(* active, whatever the status of the device, so it is left out.           *)
(***************************************************************************)
EXTENDS ThreadPool, Naturals, FiniteSets

CONSTANTS
    Devices,    \* device_ids
    Seeded,     \* devices the repository starts with, active
    Sessions    \* ids of the sessions a run may create

ASSUME DevicesAssumption ==
    /\ Devices # {} /\ Seeded \subseteq Devices

VARIABLES
    device,     \* status of the first row of d, "absent" if there is none
    copies,     \* further rows of d that are active
    owner,      \* per session: its device
    session,    \* per session: its status, "absent" before it is created
    devicePc,         \* per thread: the next step of the handler
    at,         \* per thread: the device the call is about
    passed,     \* per thread: sessions the loop of logout has passed
    raced       \* history: devices last disabled while a login that had
                \* seen them active was under way

deviceVars == <<device, copies, owner, session, devicePc, at, passed, raced>>

AnyDevice == CHOOSE d \in Devices : TRUE

AtStart == [d \in Devices |-> IF d \in Seeded THEN "Active" ELSE "absent"]

DevicesInit ==
    /\ device = AtStart
    /\ copies = [d \in Devices |-> 0]
    /\ owner = [s \in Sessions |-> AnyDevice]
    /\ session = [s \in Sessions |-> "absent"]
    /\ devicePc = [t \in Threads |-> "idle"]
    /\ at = [t \in Threads |-> AnyDevice]
    /\ passed = [t \in Threads |-> {}]
    /\ raced = {}

Signing(d) == \E t \in Threads : devicePc[t] = "login" /\ at[t] = d
Disabling(d) == \E t \in Threads : devicePc[t] = "logout" /\ at[t] = d

ActiveSessions(d) == {s \in Sessions : session[s] = "Active" /\ owner[s] = d}
SessionsOf(d) == {s \in Sessions : session[s] # "absent" /\ owner[s] = d}

Enter(t, d, step) ==
    /\ devicePc[t] = "idle"
    /\ devicePc' = [devicePc EXCEPT ![t] = step]
    /\ at' = [at EXCEPT ![t] = d]

Return(t) ==
    /\ devicePc' = [devicePc EXCEPT ![t] = "idle"]
    /\ at' = [at EXCEPT ![t] = AnyDevice]
    /\ passed' = [passed EXCEPT ![t] = {}]

-----------------------------------------------------------------------------
AnyKnown(d) == device[d] # "absent"     \* mutant: status not looked at
MayLogin(d) == device[d] = "Active" \/ copies[d] > 0

(* Each login under way will need a session id: that bounds the logins.    *)
RoomForLogin ==
    Cardinality({t \in Threads : devicePc[t] = "login"})
        < Cardinality({s \in Sessions : session[s] = "absent"})

BeginLogin(t, d) ==
    /\ MayLogin(d)
    /\ RoomForLogin
    /\ Enter(t, d, "login")
    /\ UNCHANGED <<device, copies, owner, session, passed, raced>>

EndLogin(t) ==
    /\ devicePc[t] = "login"
    /\ \E s \in Sessions :
          /\ session[s] = "absent"
          /\ session' = [session EXCEPT ![s] = "Active"]
          /\ owner' = [owner EXCEPT ![s] = at[t]]
    /\ Return(t)
    /\ UNCHANGED <<device, copies, raced>>

-----------------------------------------------------------------------------
(* register_device: a row that is found is updated and becomes active; if  *)
(* none is found one is appended, in a later step.                         *)
UpdateDevice(d) ==
    /\ device[d] # "absent"
    /\ device' = [device EXCEPT ![d] = "Active"]
    /\ UNCHANGED <<copies, owner, session, devicePc, at, passed, raced>>

BeginRegister(t, d) ==
    /\ device[d] = "absent"
    /\ Enter(t, d, "register")
    /\ UNCHANGED <<device, copies, owner, session, passed, raced>>

EndRegister(t) ==
    /\ devicePc[t] = "register"
    /\ IF device[at[t]] = "absent"
       THEN device' = [device EXCEPT ![at[t]] = "Active"] /\ UNCHANGED copies
       ELSE copies' = [copies EXCEPT ![at[t]] = @ + 1] /\ UNCHANGED device
    /\ Return(t)
    /\ UNCHANGED <<owner, session, raced>>

BeginLogout(t, d) ==
    /\ Enter(t, d, "logout")
    /\ UNCHANGED <<device, copies, owner, session, passed, raced>>

(* disable_device finds the first row by its device_id, and any row by the *)
(* id it got when it was appended.                                         *)
BeginDisable(t, d) ==
    /\ \/ /\ device[d] # "absent"
          /\ device' = [device EXCEPT ![d] = "Disabled"]
          /\ UNCHANGED copies
       \/ /\ copies[d] > 0
          /\ copies' = [copies EXCEPT ![d] = @ - 1]
          /\ UNCHANGED device
    /\ Enter(t, d, "logout")
    /\ raced' = IF Signing(d) THEN raced \cup {d} ELSE raced \ {d}
    /\ UNCHANGED <<owner, session, passed>>

OnlyFirst(t) ==                         \* mutant: stops at the first session
    IF passed[t] = {} THEN SessionsOf(at[t]) ELSE {}
Unpassed(t) == SessionsOf(at[t]) \ passed[t]

(* The loop of logout; a session that is appended while it runs is reached *)
(* too.                                                                    *)
LogoutSession(t) ==
    /\ devicePc[t] = "logout"
    /\ \E s \in Unpassed(t) :
          /\ session' = [session EXCEPT ![s] = "Logged Out"]
          /\ passed' = [passed EXCEPT ![t] = @ \cup {s}]
    /\ UNCHANGED <<device, copies, owner, devicePc, at, raced>>

EndLogout(t) ==
    /\ devicePc[t] = "logout"
    /\ Unpassed(t) = {}
    /\ Return(t)
    /\ UNCHANGED <<device, copies, owner, session, raced>>

-----------------------------------------------------------------------------
(* The server stops and starts on a fresh repository.                      *)
DevicesRestart ==
    /\ device' = AtStart
    /\ copies' = [d \in Devices |-> 0]
    /\ owner' = [s \in Sessions |-> AnyDevice]
    /\ session' = [s \in Sessions |-> "absent"]
    /\ devicePc' = [t \in Threads |-> "idle"]
    /\ at' = [t \in Threads |-> AnyDevice]
    /\ passed' = [t \in Threads |-> {}]
    /\ raced' = {}

DeviceStep(t) ==
    EndLogin(t) \/ EndRegister(t) \/ LogoutSession(t) \/ EndLogout(t)

DevicesNext ==
    \/ \E t \in Threads, d \in Devices :
          \/ BeginLogin(t, d) \/ BeginRegister(t, d)
          \/ BeginLogout(t, d) \/ BeginDisable(t, d)
    \/ \E t \in Threads : DeviceStep(t)
    \/ \E d \in Devices : UpdateDevice(d)
    \/ DevicesRestart

DevicesSpec == DevicesInit /\ [][DevicesNext]_deviceVars

(* A thread that has started a handler runs it to its end.                 *)
FairDevicesSpec == DevicesSpec /\ \A t \in Threads : WF_deviceVars(DeviceStep(t))

-----------------------------------------------------------------------------
DevicesTypeOK ==
    /\ device \in [Devices -> {"absent", "Active", "Disabled"}]
    /\ copies \in [Devices -> Nat]
    /\ owner \in [Sessions -> Devices]
    /\ session \in [Sessions -> {"absent", "Active", "Logged Out"}]
    /\ devicePc \in [Threads -> {"idle", "login", "register", "logout"}]
    /\ at \in [Threads -> Devices]
    /\ passed \in [Threads -> SUBSET Sessions]
    /\ raced \subseteq Devices

(* The device was disabled with no login on its way, and has one row.      *)
CleanlyDisabled(d) == device[d] = "Disabled" /\ copies[d] = 0 /\ d \notin raced

(* Once the call that disabled a device has returned, no session of it can *)
(* be refreshed, however logins, logouts, registrations and other disables *)
(* of that device and of others interleave, unless a login that had seen   *)
(* the device active was still under way when it was disabled, or two      *)
(* registrations had overlapped and left it a second row.                  *)
DisabledIsSignedOut ==
    \A d \in Devices :
        CleanlyDisabled(d) /\ ~Disabling(d) => ActiveSessions(d) = {}

(* A disabled device does lose its sessions, if it stays disabled: the     *)
(* loop that logs them out gets to the end.                                *)
DisableTakesEffect ==
    \A d \in Devices :
        CleanlyDisabled(d) ~> ActiveSessions(d) = {} \/ ~CleanlyDisabled(d)

==============================================================================
