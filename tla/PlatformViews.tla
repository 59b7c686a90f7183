--------------------------- MODULE PlatformViews ----------------------------
(***************************************************************************)
(* The pages of the platform that are of one company unless the user has   *)
(* override scope: the lists of app/core_router.py, those of               *)
(* runtime_router.py, and the modules that login answers with.  Filters,   *)
(* searches and page limits only narrow what is shown, and the quantities  *)
(* of records are not told apart.  The lists of users, roles, permissions, *)
(* tasks, approvals and documents show every company's rows to everybody   *)
(* who may ask, and so does core_router's own list of the audit log.       *)
(***************************************************************************)
EXTENDS Platform

Sees(a, company) == a.override \/ company = a.company

Shown(a, table) ==
    {<<i, rows[table][i]>> : i \in {j \in DOMAIN rows[table] : Sees(a, rows[table][j].company)}}

ListCompanies(a) == Shown(a, "company")
ListPlants(a) == Shown(a, "plant")
ListDepartments(a) == Shown(a, "department")

ListFeatureFlags(a) ==
    {<<i, rows.flag[i]>> : i \in {j \in DOMAIN rows.flag : Sees(a, j[1])}}

\* serialize_record tells every column of a record.
ListRecords(a) == Shown(a, "record")

\* An entry is shown with its time.
AuditLogs(a) ==
    {<<n, trail[n]>> : n \in {m \in DOMAIN trail : Sees(a, trail[m].company)}}

\* Counts of what the user may see, per module and per company.
AnalyticsSummary(a) ==
    LET records == Shown(a, "record") IN
    [users |-> Cardinality(Shown(a, "user")),
     by_module |-> [m \in ModuleKeys |-> Cardinality({r \in records : r[2].module = m})],
     by_company |-> [c \in Companies |-> Cardinality({r \in records : r[2].company = c})]]

\* A company with no module enabled is answered with all those of the tenant.
EnabledModules(a) ==
    LET on == {m \in ModuleKeys : LET flag == Read(rows, "flag", <<a.company, m>>)
                                  IN flag # None /\ flag.enabled}
    IN IF on = {} THEN ModuleKeys ELSE on

Pages(a) ==
    <<ListCompanies(a), ListPlants(a), ListDepartments(a), ListFeatureFlags(a),
      ListRecords(a), AuditLogs(a), AnalyticsSummary(a), EnabledModules(a)>>

-----------------------------------------------------------------------------
\* The call puts a record into the company, or works on one that has been moved
\* there, since the call looked, by somebody else.
Reaches(work, company) ==
    \E c \in work.changes :
        /\ c.table = "record"
        /\ \/ c.new # None /\ c.new.company = company
           \/ c.id \in DOMAIN rows.record /\ rows.record[c.id].company = company

(* What an admin does to the tables of one company, and however late it is *)
(* committed, shows on no page of another company: not in a list, a count, *)
(* the audit log or the modules of a login.  update_record alone reaches   *)
(* further: it may give a record away, and changes it after it was moved.  *)
ScopedPagesDoNotInterfere ==
    [][\A s \in Services :
         /\ call[s] # None /\ call'[s] # call[s]
         /\ call[s].by # None /\ ~call[s].by.override
         => \A c \in Companies \ {call[s].by.company} :
               LET a == [company |-> c, override |-> FALSE]
               IN Reaches(call[s], c) \/ Pages(a)' = Pages(a)]_vars
=============================================================================
