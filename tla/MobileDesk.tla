----------------------------- MODULE MobileDesk -----------------------------
(***************************************************************************)
(* What else a mobile device does (mobile.py, mobile_service.py): tasks,   *)
(* decisions on an approval, scans, uploads, submitting drafts, starting   *)
(* and completing the orders assigned to its user.  It runs on the threads *)
(* that serve the keyed writes of MobileWrites, and is lost with them when *)
(* the server restarts.  Daily logs, consumed material, spares, inspection *)
(* results, picks and packing are answered and kept nowhere.               *)
(***************************************************************************)
EXTENDS MobileWrites

CONSTANTS
    NoCall,
    MaxDesk          \* bound: calls other than keyed writes

Decisions == {"Approved", "Rejected"}

DeskCalls == [at : {"comment", "entry"}, decision : Decisions, commented : BOOLEAN]

ASSUME DeskAssumption == MaxDesk \in Nat /\ NoCall \notin DeskCalls

VARIABLES
    approval,        \* the seeded approval: its status, which decision its comment is
                     \* of, and whether its last decisions overlapped
    filed,           \* rows added to the other lists
    desk,            \* per thread: the call of the desk that it is in
    served           \* calls the desk has taken

deskVars == <<approval, filed, desk, served>>

Pending == [status |-> "Pending", comment |-> "none", mixed |-> FALSE]

DeskInit ==
    /\ Init
    /\ approval = Pending
    /\ filed = 0 /\ served = 0
    /\ desk = [t \in Threads |-> NoCall]

Take(t, next) ==
    /\ pc[t] = "idle" /\ desk[t] = NoCall /\ served < MaxDesk
    /\ served' = served + 1
    /\ desk' = [desk EXCEPT ![t] = next]

In(t, at) == desk[t] # NoCall /\ desk[t].at = at

-----------------------------------------------------------------------------
(* A decision: the status, the comment and the audit entry, with no look   *)
(* at the status the approval has.                                         *)
Decide(t) ==
    \E decision \in Decisions, commented \in BOOLEAN :
        /\ Take(t, [at |-> "comment", decision |-> decision, commented |-> commented])
        /\ approval' = [approval EXCEPT !.status = decision,
                                        !.mixed = \E u \in Threads : In(u, "comment")]
        /\ UNCHANGED filed

KeptComment(c) ==                       \* mutant: no comment leaves the old one
    IF c.commented THEN c.decision ELSE approval.comment

(* payload.get("comment") is None when there is none.                      *)
CommentOf(c) == IF c.commented THEN c.decision ELSE "none"

WriteComment(t) ==
    /\ In(t, "comment")
    /\ approval' = [approval EXCEPT !.comment = CommentOf(desk[t])]
    /\ desk' = [desk EXCEPT ![t].at = "entry"]
    /\ UNCHANGED <<filed, served>>

AddEntry(t) ==
    /\ In(t, "entry")
    /\ filed' = filed + 1
    /\ desk' = [desk EXCEPT ![t] = NoCall]
    /\ UNCHANGED <<approval, served>>

-----------------------------------------------------------------------------
(* Calls that add a row, among them the audit entry of a task that is      *)
(* started, commented, blocked or completed from any status.               *)
File(t) == Take(t, NoCall) /\ filed' = filed + 1 /\ UNCHANGED approval

TaskAction(t) == File(t)
ResolveScan(t) == File(t)
WorkOrderPhotos(t) == File(t)
Upload(t) == File(t)
DraftAction(t) == File(t)

(* Calls that set the status of a row that is on file, whatever it was.    *)
Overwrite(t) == Take(t, NoCall) /\ UNCHANGED <<approval, filed>>

SubmitReceipt(t) == Overwrite(t)
SubmitTransfer(t) == (\E r \in DraftLists \X Keys : Stored(r)) /\ Overwrite(t)
CompleteCount(t) == Overwrite(t)
StartProduction(t) == Overwrite(t)
CompleteProduction(t) == Overwrite(t)
StartWorkOrder(t) == Overwrite(t)
CompleteWorkOrder(t) == Overwrite(t)
CompleteQualityInspection(t) == Overwrite(t)

-----------------------------------------------------------------------------
Desk(t) ==
    \/ Decide(t) \/ WriteComment(t) \/ AddEntry(t)
    \/ TaskAction(t) \/ ResolveScan(t) \/ WorkOrderPhotos(t) \/ Upload(t) \/ DraftAction(t)
    \/ SubmitReceipt(t) \/ SubmitTransfer(t) \/ CompleteCount(t)
    \/ StartProduction(t) \/ CompleteProduction(t)
    \/ StartWorkOrder(t) \/ CompleteWorkOrder(t) \/ CompleteQualityInspection(t)

DeskRestart ==
    /\ Restart
    /\ approval' = Pending
    /\ filed' = 0
    /\ desk' = [t \in Threads |-> NoCall]
    /\ UNCHANGED served

(* A thread that is in a call of the desk begins no keyed write.           *)
DeskNext ==
    \/ /\ Serve
       /\ \A t \in Threads : desk[t] # NoCall => pc'[t] = "idle"
       /\ UNCHANGED deskVars
    \/ \E t \in Threads : Desk(t) /\ UNCHANGED vars
    \/ DeskRestart

DeskSpec == DeskInit /\ [][DeskNext]_<<vars, deskVars>>

-----------------------------------------------------------------------------
(* The comment on an approval is that of the decision it shows, or there   *)
(* is none, but for a decision under way and decisions that overlapped.    *)
CommentIsOfDecision ==
    \/ approval.comment \in {"none", approval.status}
    \/ approval.mixed \/ \E t \in Threads : In(t, "comment")
=============================================================================
