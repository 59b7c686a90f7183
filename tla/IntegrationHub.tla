--------------------------- MODULE IntegrationHub ---------------------------
(***************************************************************************)
(* The integration hub (app/modules/integrations.py and its service): the  *)
(* inbound events, beside file imports that are approved and committed,    *)
(* sync jobs, the switch of the seeded configuration and the lists that    *)
(* are only added to.  One pool of threads runs all of it.                 *)
(***************************************************************************)
EXTENDS InboundEvents, Sequences

CONSTANTS
    NoCall,
    MaxRecords,        \* bound: records of an imported file
    MaxCalls           \* bound: calls to the hub, beside pushed events

\* What a call under way is at, and the job or the setting it works on.
CallKinds == [at : {"rows", "commit", "count", "status"}, of : Nat \cup BOOLEAN]

ASSUME HubAssumption ==
    /\ MaxRecords \in Nat /\ MaxCalls \in Nat /\ NoCall \notin CallKinds
    /\ IsFiniteSet(Threads)

VARIABLES
    jobs,              \* file_import_jobs
    config,            \* the seeded configuration; mixed: an edit, or two switches that
                       \* overlapped, came after its last switch
    filed,             \* rows of the other lists
    call,              \* per thread: the call it is in, other than a push
    calls

hubVars == <<jobs, config, filed, call, calls>>

Seeded == [enabled |-> TRUE, status |-> "Active", mixed |-> FALSE]

HubInit ==
    /\ Init
    /\ jobs = << >> /\ config = Seeded /\ filed = 0
    /\ call = [t \in Threads |-> NoCall] /\ calls = 0

Begin(t, next) ==
    /\ pc[t] = "idle" /\ call[t] = NoCall /\ calls < MaxCalls
    /\ calls' = calls + 1
    /\ call' = [call EXCEPT ![t] = next]

Go(t, next) == call' = [call EXCEPT ![t] = next] /\ UNCHANGED calls

In(t, at) == call[t] # NoCall /\ call[t].at = at

-----------------------------------------------------------------------------
(* File imports. *)

Jobs == DOMAIN jobs

Busy(at, id) == \E t \in Threads : In(t, at) /\ call[t].of = id

\* size: records of the file; rows: those that are added; early: approved while they
\* were; races: commits that began while another was under way; counted: the last
\* number a commit reported.
Job(size, errors) ==
    [size |-> size, rows |-> 0, errors |-> errors,
     status |-> IF errors THEN "Validation Failed" ELSE "Validated",
     early |-> FALSE, approvals |-> 0, commits |-> 0, races |-> 0, counted |-> size]

\* The job is on file, and listed in a report, before its rows are.
ImportFile(t) ==
    \E size \in 0..MaxRecords, errors \in BOOLEAN :
        /\ errors => size > 0
        /\ Begin(t, [at |-> "rows", of |-> Len(jobs) + 1])
        /\ jobs' = Append(jobs, Job(size, errors))
        /\ UNCHANGED <<config, filed>>

LastDropped(job) == job.rows + 1 >= job.size   \* mutant: the last record is not added
AllFiled(job) == job.rows = job.size

AddRecord(t) ==
    /\ In(t, "rows")
    /\ LET id == call[t].of IN
       IF AllFiled(jobs[id])
       THEN Go(t, NoCall) /\ UNCHANGED jobs
       ELSE jobs' = [jobs EXCEPT ![id].rows = @ + 1] /\ UNCHANGED <<call, calls>>
    /\ UNCHANGED <<config, filed>>

Answered(job, adding) ==
    IF job.errors THEN [job EXCEPT !.status = "Approval Blocked"]
    ELSE [job EXCEPT !.status = "Approved", !.approvals = @ + 1, !.early = @ \/ adding]

\* From any status, that of a committed import too.
ImportApprove(t) ==
    \E id \in Jobs :
        /\ Begin(t, NoCall)
        /\ jobs' = [jobs EXCEPT ![id] = Answered(@, Busy("rows", id))]
        /\ UNCHANGED <<config, filed>>

Unblocked(job) == job.status # "Approval Blocked"   \* mutant: only a blocked job is refused
Approved(job) == job.status = "Approved"

ImportCommit(t) ==
    \E id \in Jobs :
        /\ Approved(jobs[id])
        /\ Begin(t, [at |-> "commit", of |-> id])
        /\ jobs' = [jobs EXCEPT ![id].races =
                      IF Busy("commit", id) THEN @ + 1 ELSE @]
        /\ UNCHANGED <<config, filed>>

MarkCommitted(t) ==
    /\ In(t, "commit")
    /\ jobs' = [jobs EXCEPT ![call[t].of].status = "Committed", ![call[t].of].commits = @ + 1]
    /\ Go(t, [call[t] EXCEPT !.at = "count"])
    /\ UNCHANGED <<config, filed>>

\* committed_records
CountCommitted(t) ==
    /\ In(t, "count")
    /\ jobs' = [jobs EXCEPT ![call[t].of].counted = jobs[call[t].of].rows]
    /\ Go(t, NoCall)
    /\ UNCHANGED <<config, filed>>

-----------------------------------------------------------------------------
(* The configuration. *)

\* Two assignments that another switch can come between.
SetConfigStatus(t) ==
    \E enabled \in BOOLEAN :
        LET others == {u \in Threads : In(u, "status")} IN
        /\ Begin(t, [at |-> "status", of |-> enabled])
        /\ config' = [config EXCEPT !.enabled = enabled,
                                    !.mixed = others # {}]
        /\ UNCHANGED <<jobs, filed>>

Swapped(enabled) == IF enabled THEN "Disabled" ELSE "Active"   \* mutant: the other way round
StatusOf(enabled) == IF enabled THEN "Active" ELSE "Disabled"

SetStatus(t) ==
    /\ In(t, "status")
    /\ config' = [config EXCEPT !.status = StatusOf(call[t].of)]
    /\ Go(t, NoCall)
    /\ UNCHANGED <<jobs, filed>>

\* An edit replaces both, by whatever the request says.
UpdateConfig(t) ==
    \E enabled \in BOOLEAN, status \in {"Active", "Disabled", "Draft"} :
        /\ Begin(t, NoCall)
        /\ config' = [enabled |-> enabled, status |-> status, mixed |-> TRUE]
        /\ UNCHANGED <<jobs, filed>>

-----------------------------------------------------------------------------
(* Rows that no later call looks at here.  A sync job adds its item too; *)
(* rotating a credential and resolving an error change a row in its place.*)

File(t, rows) == Begin(t, NoCall) /\ filed' = filed + rows /\ UNCHANGED <<jobs, config>>

CreateProvider(t) == File(t, 1)
CreateConfig(t) == File(t, 1)
CreateCredential(t) == File(t, 1)
RotateCredential(t) == File(t, 0)
CreateWebhook(t) == File(t, 1)
CreateMapping(t) == File(t, 1)
CreateSyncJob(t) == File(t, 2)
RetrySyncJob(t) == File(t, 1)
ExportFile(t) == File(t, 1)
ResolveError(t) == File(t, 0)
DraftAction(t) == File(t, 1)

-----------------------------------------------------------------------------
HubRestart ==
    /\ Restart
    /\ jobs' = << >> /\ config' = Seeded /\ filed' = 0
    /\ call' = [t \in Threads |-> NoCall]
    /\ UNCHANGED calls

HubNext ==
    \/ \E t \in Threads :
         /\ call[t] = NoCall
         /\ (\E k \in Keys : Push(t, k)) \/ StoreKey(t) \/ StoreEvent(t)
         /\ UNCHANGED hubVars
    \/ \E t \in Threads :
         /\ \/ ImportFile(t) \/ AddRecord(t) \/ ImportApprove(t)
            \/ ImportCommit(t) \/ MarkCommitted(t) \/ CountCommitted(t)
            \/ SetConfigStatus(t) \/ SetStatus(t) \/ UpdateConfig(t)
            \/ CreateProvider(t) \/ CreateConfig(t) \/ CreateCredential(t) \/ CreateWebhook(t)
            \/ CreateMapping(t) \/ CreateSyncJob(t) \/ RetrySyncJob(t) \/ ExportFile(t)
            \/ RotateCredential(t) \/ ResolveError(t) \/ DraftAction(t)
         /\ UNCHANGED vars
    \/ HubRestart

HubSpec == HubInit /\ [][HubNext]_<<vars, hubVars>>

-----------------------------------------------------------------------------
(* Properties. *)

\* An import is committed once for every approval, and once more for every commit
\* that was let through while another was under way; but however they overlap, an
\* approval is good for one commit of each thread at most, and one that was never
\* approved or has errors is never committed.
CommittedAsApproved ==
    \A id \in Jobs :
        /\ jobs[id].commits <= jobs[id].approvals + jobs[id].races
        /\ jobs[id].commits <= jobs[id].approvals * Cardinality(Threads)
        /\ jobs[id].errors => jobs[id].commits = 0

\* A commit reports every record of the file, unless the import was approved while
\* its rows were still being added.
CommitsAreWhole == \A id \in Jobs : jobs[id].counted = jobs[id].size \/ jobs[id].early

\* The configuration is shown active when it is enabled and only then, but for a
\* switch that is under way, switches that overlapped, and an edit.
SwitchAgrees ==
    \/ config.enabled <=> config.status = "Active"
    \/ config.mixed \/ \E t \in Threads : In(t, "status")
=============================================================================
