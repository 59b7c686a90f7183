------------------------------ MODULE Platform ------------------------------
(***************************************************************************)
(* The platform's own tables: companies, plants, flags and what else       *)
(* app/core_router.py creates, the module records of runtime_router.py,    *)
(* and the inventory ledger app/modules/inventory.py keeps in app_metadata.*)
(* Two services of docker-compose.yml serve the same database, and each    *)
(* seeds it when it starts (app/platform_seed.py).  A call reads and       *)
(* decides, and later commits; one that numbers its row counts, looks the  *)
(* number up, and then commits; one that audits commits twice.             *)
(***************************************************************************)
EXTENDS Session, Naturals, FiniteSets, Sequences

CONSTANTS
    Services,          \* processes that serve the database
    Actors,            \* who calls: an admin of a company, a super admin
    Home, NewCompanies,    \* the seeded company, and codes of others
    ModuleKeys,        \* modules a company has a flag for
    Items, Statuses,   \* contents: of ledger rows and of records
    MaxCalls, MaxStarts    \* bounds: calls, and starts of services, in a behaviour

Companies == {Home} \cup NewCompanies

VARIABLES
    rows,      \* per table: what is on file, by id
    trail,     \* audit_logs, in the order of their commits
    up,        \* services that have started
    call,      \* per service: the call that has read and not yet committed
    uuid,      \* ids given so far
    calls, starts,
    answered,  \* history: calls that were answered with a ledger row, and its id
    cut        \* history: rows whose audit entry a crash has lost

vars == <<rows, trail, up, call, uuid, calls, starts, answered, cut>>

Kinds == {"inventory_reservation", "inventory_movement", "stock_count", "inventory_mobile_scan"}

Owned == [company : Companies]
Flag == [enabled : BOOLEAN]
Approval == [status : {"APPROVED", "REJECTED"}, decided_by : Actors]
ModuleRecord == [company : Companies, module : ModuleKeys, status : Statuses]
\* before: the calls that had been answered when the row's number was counted
Ledger == [status : {"ACTIVE", "RECORDED", "APPROVAL_REQUIRED", "AUTO_ACCEPTED",
                     "QUEUED_OFFLINE", "SYNCED", "seeded"},
           call : 0..MaxCalls, before : SUBSET (1..MaxCalls)]

RowOf == [company |-> Owned, flag |-> Flag, plant |-> Owned, department |-> Owned,
          user |-> Owned, role |-> Owned, permission |-> Owned, task |-> Owned,
          document |-> Owned, requisition |-> Owned, approval |-> Approval,
          record |-> ModuleRecord, ledger |-> Ledger]

Tables == DOMAIN RowOf

\* Entries of the audit log, and what a call has in hand when one is left to it.
Events == [action : {"CREATE_COMPANY", "CREATE_PLANT", "CREATE", "UPDATE", "DELETE"},
           company : Companies,
           id : ({"company", "plant"} \X Companies) \cup ({"record"} \X Nat),
           old : ModuleRecord \cup {None}, new : ModuleRecord \cup {None}]
LeftOver == [by : Actors, entry : {None}, changes : {{}}, event : Events, later : {None}]

ASSUME PlatformAssumption ==
    /\ Actors \subseteq [company : Companies, override : BOOLEAN]
    /\ Home \notin NewCompanies
    /\ ModuleKeys # {} /\ Statuses # {}
    /\ None \notin Companies \cup Items \cup Statuses
    /\ None \notin Events \cup LeftOver /\ \A tb \in Tables : None \notin RowOf[tb]
    /\ MaxCalls \in Nat /\ MaxStarts \in Nat

\* The database is made, and nobody serves it yet.
Init ==
    /\ rows = [tb \in Tables |-> << >>]
    /\ trail = << >> /\ up = {} /\ uuid = 0
    /\ call = [s \in Services |-> None]
    /\ calls = 0 /\ starts = 0 /\ answered = {} /\ cut = {}

-----------------------------------------------------------------------------
(* A call, its commits, and the service it runs in. *)

\* What a call has in hand: who called (None: the handler does not ask), the
\* ledger row it is numbering, its changes, the audit entry of the same commit,
\* and the one it will commit after that.
Work == [by |-> None, entry |-> None, changes |-> {}, event |-> None, later |-> None]

By(actor) == [Work EXCEPT !.by = actor]

Begin(s, work) ==
    /\ s \in up /\ call[s] = None /\ calls < MaxCalls
    /\ call' = [call EXCEPT ![s] = work]
    /\ calls' = calls + 1
    /\ UNCHANGED <<rows, trail, up, starts, answered, cut>>

\* The id of a uuid4.
Fresh == uuid + 1

Create(s, work, table, row) ==
    /\ Begin(s, [work EXCEPT !.changes = {Change(table, Fresh, None, row)}])
    /\ uuid' = Fresh

Change1(s, change, work) ==
    Begin(s, [work EXCEPT !.changes = {change}]) /\ UNCHANGED uuid

Event(action, company, id, old, new) ==
    [action |-> action, company |-> company, id |-> id, old |-> old, new |-> new]

\* The ledger rows a commit answers for.
Answers(work) ==
    {[call |-> c.new.call, id |-> c.id] :
        c \in {d \in work.changes : d.table = "ledger" /\ d.new.call # 0}}

AfterCommit(work) ==
    IF work.later = None THEN None ELSE [By(work.by) EXCEPT !.event = work.later]

\* A service has started when its seeding is committed; one whose seeding is
\* refused stops at the import, and one whose call is refused answers 500.
Commit(s) ==
    LET work == call[s] IN
    /\ work # None /\ work.entry = None
    /\ IF Refused(rows, work.changes)
       THEN /\ call' = [call EXCEPT ![s] = None]
            /\ UNCHANGED <<rows, trail, up, answered>>
       ELSE /\ rows' = Flushed(rows, work.changes)
            /\ trail' = IF work.event = None THEN trail ELSE Append(trail, work.event)
            /\ up' = up \cup {s}
            /\ answered' = answered \cup Answers(work)
            /\ call' = [call EXCEPT ![s] = AfterCommit(work)]
    /\ UNCHANGED <<uuid, calls, starts, cut>>

\* The service stops with the call it has in hand.
Crash(s) ==
    /\ s \in up \/ call[s] # None
    /\ up' = up \ {s}
    /\ call' = [call EXCEPT ![s] = None]
    /\ cut' = IF call[s] = None \/ call[s].changes # {} \/ call[s].event = None THEN cut
              ELSE cut \cup {call[s].event.id}
    /\ UNCHANGED <<rows, trail, uuid, calls, starts, answered>>

-----------------------------------------------------------------------------
(* core_router.py *)

\* require_any("admin"), and the company of the request is the actor's unless
\* the actor overrides.
Allowed(actor, company) == actor.override \/ company = actor.company

FlagsOf(company) ==
    {Change("flag", <<company, m>>, None, [enabled |-> TRUE]) : m \in ModuleKeys}

\* 409 when the code is taken.  A flag that was set before its company makes the
\* commit fail, and every other attempt.
AuditFirst(s) ==   \* mutant: the entry is committed with the check, the company after it
    \E actor \in Actors, c \in Companies :
        /\ actor.override /\ Read(rows, "company", c) = None
        /\ s \in up /\ call[s] = None /\ calls < MaxCalls
        /\ trail' = Append(trail, Event("CREATE_COMPANY", c, <<"company", c>>, None, None))
        /\ call' = [call EXCEPT ![s] = [By(actor) EXCEPT !.changes =
                      {Change("company", c, None, [company |-> c])} \cup FlagsOf(c)]]
        /\ calls' = calls + 1
        /\ UNCHANGED <<rows, up, uuid, starts, answered, cut>>
CreateCompany(s) ==
    \E actor \in Actors, c \in Companies :
        /\ actor.override /\ Read(rows, "company", c) = None
        /\ Begin(s, [By(actor) EXCEPT
                       !.changes = {Change("company", c, None, [company |-> c])} \cup FlagsOf(c),
                       !.later = Event("CREATE_COMPANY", c, <<"company", c>>, None, None)])
        /\ UNCHANGED uuid

\* The id is the code, whichever company has the plant.
CreatePlant(s) ==
    \E actor \in Actors, c \in DOMAIN rows.company, code \in Companies :
        /\ Allowed(actor, c)
        /\ Change1(s, Change("plant", code, None, [company |-> c]),
                   [By(actor) EXCEPT !.later = Event("CREATE_PLANT", c, <<"plant", code>>, None, None)])

\* No audit; the id is the code.
CreateDepartment(s) ==
    \E actor \in Actors, c, code \in Companies :
        /\ Allowed(actor, c)
        /\ Change1(s, Change("department", code, None, [company |-> c]), By(actor))

CreateUser(s) ==
    \E actor \in Actors, c \in Companies :
        Allowed(actor, c) /\ Create(s, By(actor), "user", [company |-> c])

CreateRole(s) ==
    \E actor \in Actors, c \in Companies :
        Allowed(actor, c) /\ Create(s, By(actor), "role", [company |-> c])

\* The key is unique.
CreatePermission(s) ==
    \E key \in Companies : Change1(s, Change("permission", key, None, [company |-> Home]), Work)

\* The company need not be on file.
AnyFlag(s, actor, c, enabled) ==   \* mutant: whose company it is
    \E m \in ModuleKeys :
        Change1(s, Change("flag", <<c, m>>, Read(rows, "flag", <<c, m>>), [enabled |-> enabled]),
                By(actor))
SetFlag(s, actor, c, enabled) ==
    \E m \in ModuleKeys :
        /\ Allowed(actor, c)
        /\ Change1(s, Change("flag", <<c, m>>, Read(rows, "flag", <<c, m>>),
                             [enabled |-> enabled]), By(actor))

SetFeatureFlag(s) ==
    \E actor \in Actors, c \in Companies, enabled \in BOOLEAN : SetFlag(s, actor, c, enabled)

\* The company of these two is the seeded one unless the request names another.
EnableModule(s) == \E actor \in Actors, c \in Companies : SetFlag(s, actor, c, TRUE)

DisableModule(s) == \E actor \in Actors, c \in Companies : SetFlag(s, actor, c, FALSE)

\* Tasks and documents are of any company; what tells them apart is their id.
CreateTask(s) == Create(s, Work, "task", [company |-> Home])

UploadDocument(s) == Create(s, Work, "document", [company |-> Home])

\* main.py: a metadata row that has its time as its key, always of the seeded company.
CreateRequisition(s) == Create(s, Work, "requisition", [company |-> Home])

\* Whatever the approval's status: an unknown id is an approval of its own.
DecideApproval(s) ==
    \E actor \in Actors, status \in {"APPROVED", "REJECTED"} :
        Change1(s, Change("approval", 1, Read(rows, "approval", 1),
                          [status |-> status, decided_by |-> actor]), Work)

ModuleEnabled(company, m) ==
    LET flag == Read(rows, "flag", <<company, m>>) IN flag # None => flag.enabled

\* create_module_router: whoever calls, without audit.
CreateModuleRecord(s) ==
    \E c \in Companies, m \in ModuleKeys, status \in Statuses :
        /\ ModuleEnabled(c, m)
        /\ Create(s, Work, "record", [company |-> c, module |-> m, status |-> status])

-----------------------------------------------------------------------------
(* Module records, runtime_router.py. *)

TargetCompany(actor, asked) == IF asked = None THEN actor.company ELSE asked

\* No flag is looked at.
CreateRecord(s) ==
    \E actor \in Actors, asked \in Companies \cup {None}, m \in ModuleKeys, status \in Statuses :
        LET c == TargetCompany(actor, asked)
            row == [company |-> c, module |-> m, status |-> status]
        IN /\ Allowed(actor, c)
           /\ Begin(s, [By(actor) EXCEPT
                          !.changes = {Change("record", Fresh, None, row)},
                          !.event = Event("CREATE", actor.company, <<"record", Fresh>>, None, row)])
           /\ uuid' = Fresh

Updated(row, asked, status) ==
    [row EXCEPT !.company = IF asked = None THEN @ ELSE asked,
                !.status = IF status = None THEN @ ELSE status]

\* The columns of the request, the company among them, and nobody asks whether
\* the actor may put the record there.
SerializedLate(s) ==   \* mutant: old_value is taken after the change
    \E actor \in Actors, i \in DOMAIN rows.record,
       asked \in Companies \cup {None}, status \in Statuses \cup {None} :
        LET old == rows.record[i]  new == Updated(old, asked, status) IN
        /\ Allowed(actor, old.company)
        /\ Change1(s, Change("record", i, old, new),
                   [By(actor) EXCEPT !.event = Event("UPDATE", actor.company, <<"record", i>>, new, new)])
UpdateRecord(s) ==
    \E actor \in Actors, i \in DOMAIN rows.record,
       asked \in Companies \cup {None}, status \in Statuses \cup {None} :
        LET old == rows.record[i]  new == Updated(old, asked, status) IN
        /\ Allowed(actor, old.company)
        /\ Change1(s, Change("record", i, old, new),
                   [By(actor) EXCEPT !.event = Event("UPDATE", actor.company, <<"record", i>>, old, new)])

DeleteRecord(s) ==
    \E actor \in Actors, i \in DOMAIN rows.record :
        LET old == rows.record[i] IN
        /\ Allowed(actor, old.company)
        /\ Change1(s, Change("record", i, old, None),
                   [By(actor) EXCEPT !.event = Event("DELETE", actor.company, <<"record", i>>, old, None)])

-----------------------------------------------------------------------------
(* The inventory ledger: inventory.py. *)

\* A reservation has its item in its id.
Keyed(kind, item, number) ==
    <<kind, IF kind = "inventory_reservation" THEN item ELSE None, number>>

\* The seeded row counts.
OpenOnly(kind) ==   \* mutant: the rows that are done are not counted
    Cardinality({i \in DOMAIN rows.ledger :
                   i[1] = kind /\ rows.ledger[i].status \notin {"AUTO_ACCEPTED", "SYNCED"}})
Listed(kind) == Cardinality({i \in DOMAIN rows.ledger : i[1] = kind})

\* The first of three steps: the number is the rows on file and one.
Numbered(s, kind, item, status) ==
    /\ Begin(s, [Work EXCEPT !.entry =
          [id |-> Keyed(kind, item, Listed(kind) + 1),
           row |-> [status |-> status, call |-> calls + 1,
                    before |-> {a.call : a \in answered}]]])
    /\ UNCHANGED uuid

CreateReservation(s) ==
    \E item \in Items : Numbered(s, "inventory_reservation", item, "ACTIVE")

CreateInventoryMovement(s) ==
    \E item \in Items : Numbered(s, "inventory_movement", item, "RECORDED")

CreateStockCount(s) ==
    \E item \in Items, variance, tolerance \in 0..1 :
        Numbered(s, "stock_count", item,
                 IF variance > tolerance THEN "APPROVAL_REQUIRED" ELSE "AUTO_ACCEPTED")

MobileScan(s) ==
    \E item \in Items, offline \in BOOLEAN :
        Numbered(s, "inventory_mobile_scan", item,
                 IF offline THEN "QUEUED_OFFLINE" ELSE "SYNCED")

\* upsert_metadata: the row that has the number is written over.
Found(id, row) == Change("ledger", id, Read(rows, "ledger", id), row)

LookUp(s) ==
    /\ call[s] # None /\ call[s].entry # None
    /\ call' = [call EXCEPT ![s] =
                  [Work EXCEPT !.changes = {Found(call[s].entry.id, call[s].entry.row)}]]
    /\ UNCHANGED <<rows, trail, up, uuid, calls, starts, answered, cut>>

-----------------------------------------------------------------------------
(* platform_seed.py *)

Missing(table, id, row) ==
    IF Read(rows, table, id) = None THEN {Change(table, id, None, row)} ELSE {}

SeedOrganisation ==
    UNION {Missing(tb, Home, [company |-> Home]) : tb \in {"company", "plant", "department"}}

SeedLedger ==
    LET row == [status |-> "seeded", call |-> 0, before |-> {}] IN
    {Found(Keyed(kind, None, 0), row) : kind \in Kinds \ {"inventory_mobile_scan"}}

SeedUsers == Missing("user", 0, [company |-> Home])

SeedRoles == Missing("role", 0, [company |-> Home]) \cup Missing("permission", Home, [company |-> Home])

SeedFlags == UNION {Missing("flag", <<Home, m>>, [enabled |-> TRUE]) : m \in ModuleKeys}

SeedRecords ==
    LET m == CHOOSE k \in ModuleKeys : TRUE
        status == CHOOSE v \in Statuses : TRUE
    IN Missing("record", 0, [company |-> Home, module |-> m, status |-> status])

\* One commit at the end.
Start(s) ==
    /\ s \notin up /\ call[s] = None /\ starts < MaxStarts
    /\ starts' = starts + 1
    /\ call' = [call EXCEPT ![s] = [Work EXCEPT !.changes =
                  SeedOrganisation \cup SeedLedger \cup SeedUsers \cup SeedRoles
                    \cup SeedFlags \cup SeedRecords]]
    /\ UNCHANGED <<rows, trail, up, uuid, calls, answered, cut>>

Next ==
    \E s \in Services :
        \/ Start(s) \/ Commit(s) \/ Crash(s)
        \/ CreateCompany(s) \/ CreatePlant(s) \/ CreateDepartment(s) \/ CreateUser(s)
        \/ CreateRole(s) \/ CreatePermission(s) \/ SetFeatureFlag(s) \/ EnableModule(s)
        \/ DisableModule(s) \/ CreateTask(s) \/ CreateRequisition(s) \/ UploadDocument(s)
        \/ DecideApproval(s) \/ CreateModuleRecord(s)
        \/ CreateRecord(s) \/ UpdateRecord(s) \/ DeleteRecord(s)
        \/ CreateReservation(s) \/ CreateInventoryMovement(s) \/ CreateStockCount(s)
        \/ MobileScan(s) \/ LookUp(s)

Spec == Init /\ [][Next]_vars

-----------------------------------------------------------------------------
(* Properties. *)

\* A company is on file with a flag for every module or not at all, whoever
\* creates it twice, sets its flags first or seeds meanwhile; and a company or a
\* plant that was created is audited once, while one whose commit was refused is
\* not, unless the service stopped between the two commits.
Audits(id) == {n \in DOMAIN trail : trail[n].id = id}

CompaniesAreComplete ==
    /\ \A c \in DOMAIN rows.company, m \in ModuleKeys : <<c, m>> \in DOMAIN rows.flag
    /\ \A tb \in {"company", "plant"}, c \in Companies :
         LET id == <<tb, c>>
             inHand == {s \in Services : call[s] # None /\ call[s].changes = {}
                                         /\ call[s].event # None /\ call[s].event.id = id}
         IN Cardinality(Audits(id)) + Cardinality(inHand) + Cardinality(cut \cap {id})
              = IF c \in DOMAIN rows[tb] /\ c # Home THEN 1 ELSE 0

\* Every column of a record holds what the last audited change of it says, though
\* updates that overlap write over each other column by column and each tells
\* the whole row as it read it.
RecordsAreAudited ==
    \A i \in DOMAIN rows.record :
        LET mine == Audits(<<"record", i>>) IN
        i # 0 \/ (\A n \in mine : trail[n].action # "DELETE") =>
          \A k \in {"company", "status"} :
            LET changed == {n \in mine : \/ trail[n].action = "CREATE"
                                         \/ /\ trail[n].action = "UPDATE"
                                            /\ trail[n].old[k] # trail[n].new[k]}
                last == CHOOSE n \in changed : \A o \in changed : o <= n
            IN changed # {} => rows.record[i][k] = trail[last].new[k]

\* A ledger row that was answered stays on file under its number: only a call that
\* had counted before the answer, and so was given the same number, can have
\* written over it.
KeptUnlessOverlapped ==
    \A a \in answered :
        /\ a.id \in DOMAIN rows.ledger
        /\ rows.ledger[a.id].call = a.call \/ a.call \notin rows.ledger[a.id].before
=============================================================================
