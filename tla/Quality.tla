------------------------------- MODULE Quality -------------------------------
(***************************************************************************)
(* Quality management: app/modules/quality.py, quality_service.py and the  *)
(* lists of quality_repository.py, which are held in memory and served by  *)
(* a thread pool.  A call gives way to another between any two of its      *)
(* accesses to a lot, a list or a row; nothing of it is undone when it     *)
(* fails or when the server starts again with the seeded lists.            *)
(***************************************************************************)
EXTENDS ThreadPool, Integers, FiniteSets

CONSTANTS
    None,              \* no call, no lot
    MaxLots,           \* bound: lots that are ever on file, the seeded one included
    MaxCalls,          \* bound: calls in a behaviour
    MaxRestarts        \* bound: restarts of the server

VARIABLES
    lots,              \* inspection_lots by id, 1 the seeded one
    held,              \* the rows of quarantine and of rework, by id
    approvals,         \* what approval rows name
    tasks, notes,      \* what tasks and notifications name
    filed,             \* rows of the lists that are only added to
    call,              \* per thread: the call it is in
    calls, restarts

qualityVars == <<lots, held, approvals, tasks, notes, filed, call, calls, restarts>>

Statuses == {"Created", "Pending Inspection", "In Inspection", "Failed", "Passed",
             "Approved", "Rejected", "Quarantine", "Rework Required"}
Lots == 1..MaxLots
Held == [list : {"quarantine", "rework"}, lot : Lots \cup {None},
         status : {"Active", "Open", "Released"}]
QualityLists == {"plans", "checklists", "sampling_rules", "inspection_results", "defects",
          "rejections", "scrap", "capa", "recommendations"}

SeededLots == [n \in {1} |-> [status |-> "Pending Inspection", supplier |-> TRUE]]
SeededLists == [k \in QualityLists |->
                  IF k \in {"plans", "checklists", "sampling_rules", "defects", "capa"} THEN 1 ELSE 0]

\* at: the step that is next.  A call knows its lot or its quarantine row, and
\* which of the submitted rows failed.
Subjects == Lots \cup {None} \cup ({"Inspection Lot", "Quarantine"} \X Nat)
Calls == [at : {"mark", "hold", "Quarantine", "Rework", "approval"},
          of : Subjects, critical : {TRUE, FALSE, None}]

ASSUME QualityAssumption ==
    /\ MaxLots \in Nat \ {0} /\ MaxCalls \in Nat /\ MaxRestarts \in Nat
    /\ None \notin Calls

QualityInit ==
    /\ lots = SeededLots
    /\ held = << >> /\ approvals = {} /\ tasks = {} /\ notes = {}
    /\ filed = SeededLists
    /\ call = [t \in Threads |-> None]
    /\ calls = 0 /\ restarts = 0

-----------------------------------------------------------------------------
(* Calls. *)

Step(at, of, critical) == [at |-> at, of |-> of, critical |-> critical]

Begin(t, next) ==
    /\ call[t] = None /\ calls < MaxCalls
    /\ calls' = calls + 1
    /\ call' = [call EXCEPT ![t] = next]
    /\ UNCHANGED restarts

At(t, at) == call[t] # None /\ call[t].at = at

Go(t, next) == call' = [call EXCEPT ![t] = next] /\ UNCHANGED <<calls, restarts>>

SetStatus(n, status) == lots' = [lots EXCEPT ![n].status = status]

Notify(what) == notes' = notes \cup {what}

\* A row of a list that nobody looks up again; at most one more than the calls.
FileRow(list) == filed' = [filed EXCEPT ![list] = @ + 1]

-----------------------------------------------------------------------------
(* Inspections. *)

\* The status is the default of the request; the task is added later, and no
\* step lies between that another call could tell.
CreateInspectionLot(t) ==
    \E supplier \in BOOLEAN :
        LET n == Cardinality(DOMAIN lots) + 1 IN
        /\ n <= MaxLots
        /\ Begin(t, None)
        /\ lots' = [i \in DOMAIN lots \cup {n} |->
                      IF i = n THEN [status |-> "Created", supplier |-> supplier] ELSE lots[i]]
        /\ tasks' = tasks \cup {<<"Perform inspection", n>>}
        /\ UNCHANGED <<held, approvals, notes, filed>>

StartInspection(t) ==
    \E n \in DOMAIN lots :
        /\ Begin(t, None)
        /\ SetStatus(n, "In Inspection")
        /\ tasks' = tasks \cup {<<"Perform inspection", n>>}
        /\ UNCHANGED <<held, approvals, notes, filed>>

\* The results are on file before anything else happens, whatever the lot's
\* status; critical is None when no row failed.
SubmitInspection(t) ==
    \E n \in DOMAIN lots, critical \in {None, TRUE, FALSE} :
        /\ Begin(t, Step("mark", n, critical))
        /\ FileRow("inspection_results")
        /\ UNCHANGED <<lots, held, approvals, tasks, notes>>

MarkResult(t) ==
    /\ At(t, "mark")
    /\ LET c == call[t] IN
       IF c.critical = None
       THEN SetStatus(c.of, "Passed") /\ Notify(<<"Quality release approved", c.of>>) /\ Go(t, None)
       ELSE SetStatus(c.of, "Failed") /\ UNCHANGED notes /\ Go(t, [c EXCEPT !.at = "hold"])
    /\ UNCHANGED <<held, approvals, tasks, filed>>

\* failure_decision
Decision(c) == IF c.critical \/ lots[c.of].supplier THEN "Quarantine" ELSE "Rework"

AddHeld(list, lot, status) ==
    LET id == Cardinality(DOMAIN held) + 1 IN
    held' = [i \in DOMAIN held \cup {id} |->
               IF i = id THEN [list |-> list, lot |-> lot, status |-> status] ELSE held[i]]

\* apply_failure_decision: the row first, and then the status.
MarkFirst(t) ==   \* mutant: the status first, and then the row
    /\ At(t, "hold")
    /\ LET c == call[t] IN
       /\ SetStatus(c.of, IF Decision(c) = "Quarantine" THEN "Quarantine" ELSE "Rework Required")
       /\ Go(t, Step(Decision(c), c.of, c.critical))
    /\ UNCHANGED <<held, approvals, tasks, notes, filed>>
HoldOnce(t) ==   \* mutant: a lot that a row holds already is left alone
    /\ At(t, "hold")
    /\ LET c == call[t] IN
       IF \E id \in DOMAIN held : held[id].lot = c.of
       THEN Go(t, None) /\ UNCHANGED held
       ELSE /\ IF Decision(c) = "Quarantine" THEN AddHeld("quarantine", c.of, "Active")
                                             ELSE AddHeld("rework", c.of, "Open")
            /\ Go(t, Step(Decision(c), c.of, c.critical))
    /\ UNCHANGED <<lots, approvals, tasks, notes, filed>>
Hold(t) ==
    /\ At(t, "hold")
    /\ LET c == call[t] IN
       /\ IF Decision(c) = "Quarantine" THEN AddHeld("quarantine", c.of, "Active")
                                        ELSE AddHeld("rework", c.of, "Open")
       /\ Go(t, Step(Decision(c), c.of, c.critical))
    /\ UNCHANGED <<lots, approvals, tasks, notes, filed>>

MarkHeld(t) ==
    \E decision \in {"Quarantine", "Rework"} :
        /\ At(t, decision)
        /\ SetStatus(call[t].of, IF decision = "Quarantine" THEN "Quarantine" ELSE "Rework Required")
        /\ Notify(<<"Inspection failed", call[t].of>>)
        /\ Go(t, None)
        /\ UNCHANGED <<held, approvals, tasks, filed>>

\* From any status; the approval row comes after the status.
ApproveLot(t) ==
    \E n \in DOMAIN lots :
        /\ Begin(t, Step("approval", <<"Inspection Lot", n>>, None))
        /\ SetStatus(n, "Approved")
        /\ UNCHANGED <<held, approvals, tasks, notes, filed>>

AddApproval(t) ==
    /\ At(t, "approval")
    /\ approvals' = approvals \cup {call[t].of}
    /\ Go(t, None)
    /\ UNCHANGED <<lots, held, tasks, notes, filed>>

RejectLot(t) ==
    \E n \in DOMAIN lots :
        /\ Begin(t, None)
        /\ SetStatus(n, "Rejected")
        /\ UNCHANGED <<held, approvals, tasks, notes, filed>>

\* The lot the row was made for is left as it is.
ReleaseQuarantine(t) ==
    \E id \in DOMAIN held :
        /\ held[id].list = "quarantine"
        /\ Begin(t, Step("approval", <<"Quarantine", id>>, None))
        /\ held' = [held EXCEPT ![id].status = "Released"]
        /\ UNCHANGED <<lots, approvals, tasks, notes, filed>>

-----------------------------------------------------------------------------
(* The other lists. *)

\* Rows an inspector makes by hand name whatever the request says.
CreateQuarantine(t) ==
    /\ Begin(t, None) /\ AddHeld("quarantine", None, "Active")
    /\ UNCHANGED <<lots, approvals, tasks, notes, filed>>

CreateRework(t) ==
    /\ Begin(t, None) /\ AddHeld("rework", None, "Open")
    /\ UNCHANGED <<lots, approvals, tasks, notes, filed>>

CreateRow(t, list) ==
    /\ Begin(t, None) /\ FileRow(list)
    /\ UNCHANGED <<lots, held, approvals, tasks, notes>>

CreateQualityPlan(t) == CreateRow(t, "plans")
CreateChecklist(t) == CreateRow(t, "checklists")
CreateSamplingRule(t) == CreateRow(t, "sampling_rules")
CreateRejection(t) == CreateRow(t, "rejections")
CreateScrap(t) == CreateRow(t, "scrap")
DraftRecommendation(t) == CreateRow(t, "recommendations")

\* A plan or a corrective action is overwritten in its place, whatever its status.
Overwrite(t) ==
    /\ Begin(t, None)
    /\ UNCHANGED <<lots, held, approvals, tasks, notes, filed>>

UpdateQualityPlan(t) == Overwrite(t)
UpdateCapa(t) == Overwrite(t)

CreateDefect(t) ==
    \E critical \in BOOLEAN :
        /\ Begin(t, None) /\ FileRow("defects")
        /\ tasks' = IF critical THEN tasks \cup {<<"Investigate defect", None>>} ELSE tasks
        /\ notes' = IF critical THEN notes \cup {<<"Critical defect found", None>>} ELSE notes
        /\ UNCHANGED <<lots, held, approvals>>

CreateCapa(t) ==
    /\ Begin(t, None) /\ FileRow("capa")
    /\ tasks' = tasks \cup {<<"Complete CAPA", None>>}
    /\ Notify(<<"CAPA assigned", None>>)
    /\ UNCHANGED <<lots, held, approvals>>

-----------------------------------------------------------------------------
(* The server starts again: the repository is made anew. *)
QualityRestart ==
    /\ restarts < MaxRestarts
    /\ restarts' = restarts + 1
    /\ lots' = SeededLots /\ held' = << >> /\ approvals' = {} /\ tasks' = {} /\ notes' = {}
    /\ filed' = SeededLists
    /\ call' = [t \in Threads |-> None]
    /\ UNCHANGED calls

QualityNext ==
    \/ \E t \in Threads :
        \/ CreateInspectionLot(t) \/ StartInspection(t) \/ SubmitInspection(t)
        \/ MarkResult(t) \/ Hold(t) \/ MarkHeld(t)
        \/ ApproveLot(t) \/ AddApproval(t) \/ RejectLot(t) \/ ReleaseQuarantine(t)
        \/ CreateQuarantine(t) \/ CreateRework(t) \/ CreateQualityPlan(t) \/ CreateChecklist(t)
        \/ CreateSamplingRule(t) \/ CreateRejection(t) \/ CreateScrap(t) \/ DraftRecommendation(t)
        \/ UpdateQualityPlan(t) \/ UpdateCapa(t)
        \/ CreateDefect(t) \/ CreateCapa(t)
    \/ QualityRestart

QualitySpec == QualityInit /\ [][QualityNext]_qualityVars

\* A thread that runs a call goes on with it.
Continue(t) == MarkResult(t) \/ Hold(t) \/ MarkHeld(t) \/ AddApproval(t)

FairQualitySpec == QualitySpec /\ \A t \in Threads : WF_qualityVars(Continue(t))

-----------------------------------------------------------------------------
(* Properties. *)

\* A lot shown in quarantine or in rework has a row that holds it; a lot shown
\* failed has the call that will decide on it; and a row that was released, as a
\* lot that is shown approved, is named by an approval or by the call that is
\* about to add it: however inspections of one lot, approvals and releases overlap.
Approved(source) == source \in approvals \/ \E t \in Threads : At(t, "approval") /\ call[t].of = source

Deciding(n) == \E t \in Threads : \E at \in {"hold", "Quarantine", "Rework"} :
                  At(t, at) /\ call[t].of = n

HeldIsOnFile ==
    /\ \A n \in DOMAIN lots :
         /\ lots[n].status = "Quarantine" =>
              \E id \in DOMAIN held : held[id].list = "quarantine" /\ held[id].lot = n
         /\ lots[n].status = "Rework Required" =>
              \E id \in DOMAIN held : held[id].list = "rework" /\ held[id].lot = n
         /\ lots[n].status = "Failed" => Deciding(n)
         /\ lots[n].status = "Approved" => Approved(<<"Inspection Lot", n>>)
    /\ \A id \in DOMAIN held : held[id].status = "Released" => Approved(<<"Quarantine", id>>)

\* Failed results are on file before anything is decided, and nothing undoes them:
\* unless the server stops first, their lot gets a row that holds it and no longer
\* shows as failed, whatever other calls do to it meanwhile.
Failing(n) == \E t \in Threads : At(t, "mark") /\ call[t].of = n /\ call[t].critical # None

FailuresAreDecided ==
    \A n \in Lots, r \in 0..MaxRestarts :
        Failing(n) /\ restarts = r ~>
            \/ restarts # r
            \/ /\ \E id \in DOMAIN held : held[id].lot = n
               /\ lots[n].status # "Failed"
==============================================================================
