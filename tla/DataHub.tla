------------------------------- MODULE DataHub -------------------------------
(***************************************************************************)
(* The Data Hub of app/modules/frontend_admin.py: saved connections with   *)
(* their selection, mapping, recipes and refresh runs, connected systems,  *)
(* the data catalog, mapping rules, pending ERP updates, and the rows the  *)
(* hub keeps in app_metadata.  The handlers run in a thread pool, each in  *)
(* a session of its own, so a call is two steps: it reads and decides,     *)
(* and later it commits.  A commit writes the columns whose value differs  *)
(* from the one that was read, all of it or nothing.                       *)
(***************************************************************************)
EXTENDS Session, Naturals, FiniteSets

CONSTANTS
    Threads, Actor,    \* the threads, and the admin or super admin each serves
    Companies, Home,   \* the companies, and the one the seeded rows are of
    Fields, Required,  \* mapped fields, and those a destination module requires
    Mappings,          \* the sets of fields a request may map
    Areas,             \* areas of AI readiness
    Values, Seed,      \* contents of what has no column here: of requests, of seeds
    MaxItems,          \* bound: items of one request for readiness
    MaxCalls, MaxRestarts  \* bounds: calls, and starts of the server, in a behaviour

Modules == DOMAIN Required
Default == CHOOSE m \in Modules : TRUE   \* destination_module unless the request has one
Tables == {"saved", "system", "catalog", "mapping", "pending", "metadata"}
Modes == {"Manual refresh", "Scheduled refresh"}

VARIABLES
    rows,      \* per table: what is on file, by id
    trail,     \* datahub_audit_events about connections
    logs,      \* recipes, relationships, refresh runs, errors: only ever added
    uuid,      \* ids given so far
    call,      \* per thread: the call that has read and not yet committed
    calls, restarts,
    raced      \* history: connections whose mapping was written over unread changes

vars == <<rows, trail, logs, uuid, call, calls, restarts, raced>>

Saved == [company : Companies, destination_module : Modules,
          field_mappings : SUBSET Fields,
          validation_results : {"none", "Passed", "Failed"},
          selected : {"none", "assets"}, status : {"Saved", "Loaded"},
          refresh_mode : Modes]
Plain == [company : Companies, value : Values \cup {Seed}]
Pending == [company : Companies, approval_status : {"Pending", "Approved", "Rejected"},
            erp_status : {"Draft", "Export Ready", "Rejected"}]

Keys == ({"system", "uuid"} \X Nat) \cup ({"area"} \X Areas) \cup {<<"dashboard", 0>>}

Meta == [category : {"details", "readiness", "footprint", "upload"},
         company : Companies, key : Keys,
         value : Values \cup {Seed}]

RowOf == [saved |-> Saved, system |-> Plain, catalog |-> Plain,
          mapping |-> Plain, pending |-> Pending, metadata |-> Meta]

\* Entries of the trail about connections; None: the request names none.
Events == [action : {"create_connection", "delete_connection", "test_connection",
                     "select_assets", "transform_preview", "validate_mapping",
                     "create_relationship", "refresh"},
           id : Nat \cup {None}, company : Companies]

ASSUME DataHubAssumption ==
    /\ Actor \in [Threads -> [company : Companies, override : BOOLEAN]]
    /\ Home \in Companies /\ None \notin Companies \cup Values \cup {Seed}
    /\ Required \in [Modules -> SUBSET Fields] /\ Modules # {}
    /\ Mappings \subseteq SUBSET Fields
    /\ MaxItems \in Nat /\ MaxCalls \in Nat /\ MaxRestarts \in Nat
    /\ IsFiniteSet(Threads)
    /\ None \notin Events /\ \A tb \in Tables : None \notin RowOf[tb]

NewConnection(company, module) ==
    [company |-> company, destination_module |-> module, field_mappings |-> {},
     validation_results |-> "none", selected |-> "none", status |-> "Saved",
     refresh_mode |-> "Manual refresh"]

SeedRows == [system |-> [company |-> Home, value |-> Seed],
             catalog |-> [company |-> Home, value |-> Seed],
             mapping |-> [company |-> Home, value |-> Seed],
             pending |-> [company |-> Home, approval_status |-> "Pending",
                          erp_status |-> "Draft"],
             metadata |-> [category |-> "details", company |-> Home,
                           key |-> <<"system", 0>>, value |-> Seed]]

SeedId(table) == IF table = "metadata" THEN <<"details", 0>> ELSE 0

\* A seeded company in which one connection was saved; ids on file are 0.
Init ==
    /\ rows = [tb \in Tables |->
                 [i \in {SeedId(tb)} |-> IF tb = "saved" THEN NewConnection(Home, Default)
                                         ELSE SeedRows[tb]]]
    /\ trail = {[action |-> "create_connection", id |-> 0, company |-> Home]}
    /\ logs = {} /\ uuid = 0
    /\ call = [t \in Threads |-> None]
    /\ calls = 0 /\ restarts = 0 /\ raced = {}

-----------------------------------------------------------------------------
(* A call and its commit. *)

\* What a call has in hand: its changes, what else it adds, and the details it
\* will store in a second commit.
Work == [changes |-> {}, event |-> None, logs |-> {}, details |-> None]

Begin(t, work) ==
    /\ call[t] = None /\ calls < MaxCalls
    /\ call' = [call EXCEPT ![t] = work]
    /\ calls' = calls + 1
    /\ UNCHANGED <<rows, trail, logs, restarts, raced>>

\* The id of a uuid4.
Fresh == uuid + 1

Insert(t, table, new, work) ==
    /\ Begin(t, [work EXCEPT !.changes = {Change(table, Fresh, None, new)}])
    /\ uuid' = Fresh

Update(t, table, id, new, work) ==
    /\ Begin(t, [work EXCEPT !.changes = @ \cup {Change(table, id, rows[table][id], new)}])
    /\ UNCHANGED uuid

Delete(t, table, id, work) == Update(t, table, id, None, work)

Add(t, work) == Begin(t, work) /\ UNCHANGED uuid

\* has_override_scope, or the row is of the user's company
InScope(t, row) == Actor[t].override \/ row.company = Actor[t].company

\* The ids of a table the user may work on; any other answers 404 or 403.
AnyId(t, table) == DOMAIN rows[table]   \* mutant: no scope check
Reachable(t, table) == {i \in DOMAIN rows[table] : InScope(t, rows[table][i])}

\* resolve_datahub_company_id
Resolved(t, asked) ==
    IF Actor[t].override /\ asked # None THEN asked ELSE Actor[t].company

\* upsert_metadata: the update of a row it finds, whichever, or an insert.
AlwaysInsert(category, company, key, id, value) ==   \* mutant: it never finds one
    {Change("metadata", id, None,
            [category |-> category, company |-> company, key |-> key, value |-> value])}
Upserts(category, company, key, id, value) ==
    LET row == [category |-> category, company |-> company, key |-> key, value |-> value]
        hits == {i \in DOMAIN rows.metadata :
                   /\ rows.metadata[i].category = category
                   /\ rows.metadata[i].company = company /\ rows.metadata[i].key = key}
    IN IF hits = {} THEN {Change("metadata", id, None, row)}
       ELSE {Change("metadata", i, rows.metadata[i], row) : i \in hits}

MappingOf(row) == <<row.destination_module, row.field_mappings, row.validation_results>>

\* The connections whose mapping is written over one the call has not read.
OverUnread(changes) ==
    {c.id : c \in {d \in changes : /\ d.table = "saved" /\ None \notin {d.was, d.new}
                                   /\ MappingOf(d.new) # MappingOf(d.was)
                                   /\ MappingOf(rows.saved[d.id]) # MappingOf(d.was)}}

\* create_connected_system goes on after its first commit, whose refresh is part
\* of that step: no row has the new key, so its details are inserted.
AfterCommit(work) ==
    IF work.details = None THEN None
    ELSE [Work EXCEPT !.changes =
            UNION {Upserts("details", c.new.company, <<"system", c.id>>,
                           <<"details", c.id>>, work.details) : c \in work.changes}]

Commit(t) ==
    LET work == call[t] IN
    /\ work # None
    /\ IF Refused(rows, work.changes)
       THEN /\ call' = [call EXCEPT ![t] = None]
            /\ UNCHANGED <<rows, trail, logs, raced>>
       ELSE /\ rows' = Flushed(rows, work.changes)
            /\ trail' = trail \cup ({work.event} \ {None})
            /\ logs' = logs \cup work.logs
            /\ raced' = raced \cup OverUnread(work.changes)
            /\ call' = [call EXCEPT ![t] = AfterCommit(work)]
    /\ UNCHANGED <<uuid, calls, restarts>>

-----------------------------------------------------------------------------
(* Get Data: saved connections and what is done with them. *)

Event(action, id, company) == [action |-> action, id |-> id, company |-> company]
Log(kind, of, company) == [kind |-> kind, of |-> of, company |-> company]

\* Required connection details are there; without them 422 and nothing is kept.
CreateConnection(t) ==
    \E asked \in Companies \cup {None}, module \in Modules :
        LET company == Resolved(t, asked) IN
        Insert(t, "saved", NewConnection(company, module),
               [Work EXCEPT !.event = Event("create_connection", Fresh, company)])

SilentDelete(t) ==   \* mutant: no audit entry
    \E i \in Reachable(t, "saved") : Delete(t, "saved", i, Work)
DeleteConnection(t) ==
    \E i \in Reachable(t, "saved") :
        Delete(t, "saved", i, [Work EXCEPT !.event = Event("delete_connection", i, rows.saved[i].company)])

\* No connection is read or written: the test is of what the request holds.
TestConnection(t) ==
    \E asked \in Companies \cup {None}, failed \in BOOLEAN :
        Add(t, [Work EXCEPT
                  !.event = Event("test_connection", None, Resolved(t, asked)),
                  !.logs = IF failed
                           THEN {Log("error", None, Resolved(t, asked))} ELSE {}])

SaveSelection(t) ==
    \E i \in Reachable(t, "saved"), assets \in {"none", "assets"} :
        Update(t, "saved", i, [rows.saved[i] EXCEPT !.selected = assets],
               [Work EXCEPT !.event = Event("select_assets", i, rows.saved[i].company)])

\* The recipe is of the company that was asked for, not of the connection's.
TransformPreview(t) ==
    \E i \in Reachable(t, "saved"), asked \in Companies \cup {None} :
        Add(t, [Work EXCEPT !.event = Event("transform_preview", i, Resolved(t, asked)),
                            !.logs = {Log("recipe", i, Resolved(t, asked))}])

Validation(module, mappings) ==
    IF Required[module] \subseteq mappings THEN "Passed" ELSE "Failed"

KeepModule(row, module, mappings) ==   \* mutant: the module is not stored
    [row EXCEPT !.field_mappings = mappings,
                !.validation_results = Validation(module, mappings)]
Mapped(row, module, mappings) ==
    [row EXCEPT !.destination_module = module, !.field_mappings = mappings,
                !.validation_results = Validation(module, mappings)]

\* A connection that is unknown or another company's is passed over in silence.
ValidateMapping(t) ==
    \E i \in 0..uuid, module \in Modules, mappings \in Mappings,
       asked \in Companies \cup {None} :
        LET work == [Work EXCEPT !.event = Event("validate_mapping", i, Resolved(t, asked))] IN
        IF i \in Reachable(t, "saved")
        THEN Update(t, "saved", i, Mapped(rows.saved[i], module, mappings), work)
        ELSE Add(t, work)

CreateRelationship(t) ==
    \E asked \in Companies \cup {None} :
        Add(t, [Work EXCEPT !.event = Event("create_relationship", None, Resolved(t, asked)),
                            !.logs = {Log("relationship", None, Resolved(t, asked))}])

\* last_test_status is "Not Tested" from the start and nothing ever changes it,
\* so a refresh always succeeds.
RunRefresh(t) ==
    \E i \in Reachable(t, "saved"), asked \in Companies \cup {None}, mode \in Modes :
        Update(t, "saved", i, [rows.saved[i] EXCEPT !.refresh_mode = mode,
                                                    !.status = "Loaded"],
               [Work EXCEPT !.event = Event("refresh", i, Resolved(t, asked)),
                            !.logs = {Log("refresh", i, Resolved(t, asked))}])

-----------------------------------------------------------------------------
(* Connected systems, catalog, mapping rules and pending updates. *)

CreateSystem(t) ==
    \E asked \in Companies \cup {None}, v \in Values, details \in Values \cup {None} :
        Insert(t, "system", [company |-> Resolved(t, asked), value |-> v],
               [Work EXCEPT !.details = details])

\* Only a user of override scope moves a row to the company of the request.
Moved(t, row, asked) ==
    IF Actor[t].override /\ asked # None THEN asked ELSE row.company

\* The details row has one id for good, and is looked up in the company the
\* system is in now.
UpdateSystem(t) ==
    \E i \in Reachable(t, "system"), asked \in Companies \cup {None}, v \in Values :
        LET new == [company |-> Moved(t, rows.system[i], asked), value |-> v] IN
        \/ Update(t, "system", i, new, Work)
        \/ \E details \in Values :
              \E c \in Upserts("details", new.company, <<"system", i>>, <<"details", i>>, details) :
                 Update(t, "system", i, new, [Work EXCEPT !.changes = {c}])

\* The details stay.
DeleteSystem(t) == \E i \in Reachable(t, "system") : Delete(t, "system", i, Work)

CreateCatalogEntry(t) ==
    \E asked \in Companies \cup {None}, v \in Values :
        Insert(t, "catalog", [company |-> Resolved(t, asked), value |-> v], Work)

UpdateCatalogEntry(t) ==
    \E i \in Reachable(t, "catalog"), asked \in Companies \cup {None}, v \in Values :
        Update(t, "catalog", i,
               [company |-> Moved(t, rows.catalog[i], asked), value |-> v], Work)

DeleteCatalogEntry(t) == \E i \in Reachable(t, "catalog") : Delete(t, "catalog", i, Work)

CreateMapping(t) ==
    \E asked \in Companies \cup {None}, v \in Values :
        Insert(t, "mapping", [company |-> Resolved(t, asked), value |-> v], Work)

UpdateMapping(t) ==
    \E i \in Reachable(t, "mapping"), asked \in Companies \cup {None}, v \in Values :
        Update(t, "mapping", i,
               [company |-> Moved(t, rows.mapping[i], asked), value |-> v], Work)

DeleteMapping(t) == \E i \in Reachable(t, "mapping") : Delete(t, "mapping", i, Work)

Decided(row, decision) ==
    [row EXCEPT !.approval_status = decision,
                !.erp_status = IF decision = "Approved" THEN "Export Ready" ELSE "Rejected"]

DecidePending(t) ==
    \E i \in Reachable(t, "pending"), decision \in {"Approved", "Rejected"} :
        Update(t, "pending", i, Decided(rows.pending[i], decision), Work)

-----------------------------------------------------------------------------
(* What the hub keeps in app_metadata. *)

\* One upsert per item of the request, each before any is flushed: the items of an
\* area all update the one row they find, or insert a row each.
UpdateReadiness(t) ==
    \E n \in 0..MaxItems, v \in Values : \E items \in [1..n -> Areas] :
        LET Item(k) == Upserts("readiness", Actor[t].company, <<"area", items[k]>>,
                               <<"uuid", uuid + k>>, v)
        IN
        \E done \in [1..n -> UNION {Item(k) : k \in 1..n}] :
            /\ \A k \in 1..n : done[k] \in Item(k)
            /\ \A j, k \in 1..n :
                 items[j] = items[k] /\ done[j].was # None => done[k] = done[j]
            /\ Begin(t, [Work EXCEPT !.changes = {done[k] : k \in 1..n}])
            /\ uuid' = uuid + n

\* One row id per company: a second insert is refused.
UpdateFootprint(t) ==
    \E v \in Values :
        \E c \in Upserts("footprint", Actor[t].company, <<"dashboard", 0>>,
                         <<"footprint", Actor[t].company>>, v) :
            Add(t, [Work EXCEPT !.changes = {c}])

\* The key is as fresh as the id.
CreateUpload(t) ==
    \E asked \in Companies \cup {None}, v \in Values :
        LET added == Upserts("upload", Resolved(t, asked), <<"uuid", Fresh>>, <<"uuid", Fresh>>, v)
        IN Begin(t, [Work EXCEPT !.changes = added]) /\ uuid' = Fresh

CreateCloudSource(t) ==
    \E asked \in Companies \cup {None}, v \in Values :
        LET added == Upserts("upload", Resolved(t, asked), <<"uuid", Fresh>>, <<"uuid", Fresh>>, v)
        IN Begin(t, [Work EXCEPT !.changes = added]) /\ uuid' = Fresh

-----------------------------------------------------------------------------
(* The server. *)

\* The server stops with the calls it has in hand and starts again: platform_seed
\* inserts the seeded rows that are missing and writes its details over the row's.
Restart ==
    /\ restarts < MaxRestarts
    /\ restarts' = restarts + 1
    /\ call' = [t \in Threads |-> None]
    /\ rows' = [tb \in Tables |->
                  IF tb = "saved" THEN rows[tb]
                  ELSE [i \in DOMAIN rows[tb] \cup {SeedId(tb)} |->
                          IF i = SeedId(tb) /\ (tb = "metadata" \/ i \notin DOMAIN rows[tb])
                          THEN SeedRows[tb] ELSE rows[tb][i]]]
    /\ UNCHANGED <<trail, logs, uuid, calls, raced>>

Next ==
    \/ \E t \in Threads :
        \/ CreateConnection(t) \/ DeleteConnection(t) \/ TestConnection(t)
        \/ SaveSelection(t) \/ TransformPreview(t) \/ ValidateMapping(t)
        \/ CreateRelationship(t) \/ RunRefresh(t)
        \/ CreateSystem(t) \/ UpdateSystem(t) \/ DeleteSystem(t)
        \/ CreateCatalogEntry(t) \/ UpdateCatalogEntry(t) \/ DeleteCatalogEntry(t)
        \/ CreateMapping(t) \/ UpdateMapping(t) \/ DeleteMapping(t)
        \/ DecidePending(t) \/ UpdateReadiness(t) \/ UpdateFootprint(t)
        \/ CreateUpload(t) \/ CreateCloudSource(t) \/ Commit(t)
    \/ Restart

Spec == Init /\ [][Next]_vars

-----------------------------------------------------------------------------
(* Properties. *)

\* The validation a connection shows is that of the module and the mapping it
\* shows, unless somebody's validation was committed between the reading and the
\* committing of somebody else's: only then can a commit of single columns leave
\* "Passed" beside a mapping that misses a required field.
MappingIsValidated ==
    \A i \in DOMAIN rows.saved \ raced :
        LET r == rows.saved[i] IN
        r.validation_results # "none" =>
            r.validation_results = Validation(r.destination_module, r.field_mappings)

\* The audit trail tells which connections are on file: those it has created and
\* not deleted.  No call that read a connection before it was deleted puts it back.
TrailTellsConnections ==
    \A i \in 0..uuid :
        i \in DOMAIN rows.saved <=>
            /\ \E e \in trail : e.action = "create_connection" /\ e.id = i
            /\ ~\E e \in trail : e.action = "delete_connection" /\ e.id = i

\* No unique constraint holds the readiness overrides of an area together, yet
\* they do not pile up from call to call: there are never more than the requests
\* of the calls that can overlap, one of each thread, hold items.  A call that
\* finds one adds none.  A footprint and the details of a system have one row.
OverridesDoNotPileUp ==
    LET meta == rows.metadata IN
    /\ \A c \in Companies, a \in Areas :
         Cardinality({i \in DOMAIN meta : /\ meta[i].category = "readiness"
                                          /\ meta[i].company = c /\ meta[i].key = <<"area", a>>})
           <= MaxItems * Cardinality(Threads)
    /\ \A i, j \in DOMAIN meta :
         /\ meta[i].category = meta[j].category /\ meta[i].key = meta[j].key
         /\ \/ meta[i].category = "details"
            \/ meta[i].category = "footprint" /\ meta[i].company = meta[j].company
         => i = j

\* A call of a user without override scope leaves every row of another company
\* alone, except one that an override moved there after the call had read it, and
\* adds nothing to another company.
Touched(table, now) == {i \in DOMAIN table : i \notin DOMAIN now \/ now[i] # table[i]}

AdminsStayHome ==
    [][\A t \in Threads :
         call[t] # None /\ call'[t] # call[t] /\ restarts' = restarts /\ ~Actor[t].override =>
           /\ \A tb \in Tables : \A i \in Touched(rows[tb], rows'[tb]) :
                rows[tb][i].company = Actor[t].company \/
                  /\ tb \in {"system", "catalog", "mapping"}
                  /\ \E c \in call[t].changes : /\ c.table = tb /\ c.id = i
                                                /\ c.was.company = Actor[t].company
           /\ \A tb \in Tables : \A i \in DOMAIN rows'[tb] \ DOMAIN rows[tb] :
                rows'[tb][i].company = Actor[t].company
           /\ \A l \in logs' \ logs : l.company = Actor[t].company]_vars
=============================================================================
