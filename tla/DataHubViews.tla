---------------------------- MODULE DataHubViews ----------------------------
(***************************************************************************)
(* The pages of the Data Hub and of the admin dashboard: what each GET of  *)
(* app/modules/frontend_admin.py makes of the rows that are on file for    *)
(* the user who asks.  Names of companies, which every user may see, are   *)
(* left out, and so are the counts of users and plants: their tables are   *)
(* those of Accounts and Platform.                                         *)
(***************************************************************************)
EXTENDS DataHub

\* scoped_company_id: None, no filter, for a user of override scope
Sees(a, row) == a.override \/ row.company = a.company

Listed(a, table) ==
    LET seen == {i \in DOMAIN rows[table] : Sees(a, rows[table][i])}
    IN [i \in seen |-> rows[table][i]]

Logged(a, kind) == {l \in logs : l.kind = kind /\ Sees(a, l)}

MetadataOf(category, company) ==
    {i \in DOMAIN rows.metadata : /\ rows.metadata[i].category = category
                                  /\ rows.metadata[i].company = company}

-----------------------------------------------------------------------------
(* Get Data. *)

SavedConnections(a) == Listed(a, "saved")
RefreshHistory(a) == Logged(a, "refresh")
ErrorLog(a) == Logged(a, "error")
AuditTrail(a) == {e \in trail : Sees(a, e)}

\* A connection without selected assets still gives a table.
ModelView(a) ==
    [tables |-> {<<i, rows.saved[i].selected>> : i \in DOMAIN Listed(a, "saved")},
     relationships |-> Logged(a, "relationship")]

-----------------------------------------------------------------------------
(* Systems, catalog, mapping rules, pending updates, uploads. *)

\* connection_details_map: by the ids of the systems, of whatever company.
AllDetails(ids) == {r \in {rows.metadata[i] : i \in DOMAIN rows.metadata} :
                      r.category = "details"}   \* mutant: no look at the ids
DetailsOf(ids) == {r \in {rows.metadata[i] : i \in DOMAIN rows.metadata} :
                     r.category = "details" /\ r.key \in {<<"system", i>> : i \in ids}}

ConnectedSystems(a) ==
    LET systems == Listed(a, "system")
    IN [systems |-> systems, details |-> DetailsOf(DOMAIN systems)]

Catalog(a) == Listed(a, "catalog")
DataQuality(a) == {<<i, rows.catalog[i].value>> : i \in DOMAIN Listed(a, "catalog")}
Lineage(a) == {rows.catalog[i].value : i \in DOMAIN Listed(a, "catalog")}
MappingRules(a) == Listed(a, "mapping")
PendingUpdates(a) == Listed(a, "pending")

Uploads(a) ==
    {rows.metadata[i] : i \in UNION {MetadataOf("upload", c) :
                                       c \in {d \in Companies : a.override \/ d = a.company}}}

-----------------------------------------------------------------------------
(* Readiness and the dashboard. *)

\* An override takes the place of the score computed for its area: what is shown
\* is made of these two, the overrides always of the user's own company.
Readiness(a) ==
    [computed |-> DataQuality(a),
     overrides |-> {<<rows.metadata[i].key, rows.metadata[i].value>> :
                      i \in MetadataOf("readiness", a.company)}]

OpenApprovals(a) ==
    Cardinality({i \in DOMAIN Listed(a, "pending") : rows.pending[i].approval_status = "Pending"})

Computed(a) == [integrations |-> Cardinality(DOMAIN Listed(a, "system")),
                open_approvals |-> OpenApprovals(a)]

\* The override has a value for each of the figures.
Footprint(a) ==
    LET overrides == {rows.metadata[i].value : i \in MetadataOf("footprint", a.company)}
    IN [override |-> overrides, computed |-> IF overrides = {} THEN {Computed(a)} ELSE {}]

Dashboard(a) ==
    [data_quality |-> DataQuality(a), ai_readiness |-> Readiness(a),
     footprint |-> Footprint(a), pending_actions |-> Cardinality(DOMAIN Listed(a, "pending"))]

Pages(a) ==
    <<SavedConnections(a), RefreshHistory(a), ErrorLog(a), AuditTrail(a), ModelView(a),
      ConnectedSystems(a), Catalog(a), Lineage(a), MappingRules(a), PendingUpdates(a),
      Uploads(a), Dashboard(a)>>

-----------------------------------------------------------------------------
\* An override has moved the row of the call, or the system whose details it is
\* about to add, since the call read or made it.
MovedSince(work) ==
    \E c \in work.changes :
        \/ /\ c.was # None /\ c.id \in DOMAIN rows[c.table]
           /\ rows[c.table][c.id].company # c.was.company
        \/ /\ c.table = "metadata" /\ c.new.category = "details"
           /\ \E i \in DOMAIN rows.system :
                 c.new.key = <<"system", i>> /\ rows.system[i].company # c.new.company

(* Whatever an admin without override scope does, and however late, no     *)
(* admin of another company sees any page change: not by a row, a figure,  *)
(* an entry of the trail or the details of a system.  The exception is a   *)
(* call that an override has overtaken by moving its row there.            *)
ViewsDoNotInterfere ==
    [][\A t \in Threads :
         /\ call[t] # None /\ call'[t] # call[t] /\ restarts' = restarts
         /\ ~Actor[t].override /\ ~MovedSince(call[t])
         => \A c \in Companies \ {Actor[t].company} :
               LET a == [company |-> c, override |-> FALSE]
               IN Pages(a)' = Pages(a)]_vars
=============================================================================
