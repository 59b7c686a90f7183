--------------------------- MODULE CustomerPortal ---------------------------
(***************************************************************************)
(* The customer portal: app/modules/customer_portal.py, its service and    *)
(* the lists of its repository.  Whoever calls acts as the first user on   *)
(* file, and a customer's orders are read from the sales lists, where the  *)
(* sales desk may change them at any time.                                 *)
(***************************************************************************)
EXTENDS PortalCalls, FiniteSets

CONSTANT Emails

VARIABLE customer      \* the portal's lists, and the customer so-001 is for

\* Rows that an audit entry or a notification follows.
Kinds == {"login", "invite", "profile", "support", "return"}
Steps == StepsOf(Kinds \cup {"page"}, Nat \cup {None})

User(email, status) == [email |-> email, status |-> status, late |-> 0]

\* The seeded user is the only one at first; late counts the sessions a user was
\* given while disabled.
Lists(email) ==
    [users |-> <<User(email, "Active")>>,
     rows |-> [k \in Kinds |-> 0], trail |-> [k \in Kinds |-> 0], filed |-> 0,
     owner |-> "own", used |-> {}]

Init == \E email \in Emails : customer = Lists(email)

-----------------------------------------------------------------------------
Row(kind) == customer' = [customer EXCEPT !.rows[kind] = @ + 1]

Recorded(t, kind) == Begin(t, Step("entry", kind, None)) /\ Row(kind)

\* The last thing such a call does: repo.audit, or notify.
AddEntry(t) ==
    \E kind \in Kinds :
        /\ At(t, "entry") /\ call[t].kind = kind
        /\ customer' = [customer EXCEPT !.trail[kind] = @ + 1]
        /\ Go(t, None)

-----------------------------------------------------------------------------
(* Users. *)

AnyStatus(r, email) == customer.users[r].email = email   \* mutant: the status is not looked at

Matches(r, email) == customer.users[r].email = email /\ customer.users[r].status = "Active"

\* An email may be on file twice: the first active row counts.
LogIn(t) ==
    \E email \in Emails, r \in DOMAIN customer.users :
        /\ Matches(r, email) /\ \A q \in 1..(r - 1) : ~Matches(q, email)
        /\ Begin(t, Step("session", "login", r))
        /\ UNCHANGED customer

\* The user may have been disabled since the look-up.
AddSession(t) ==
    /\ At(t, "session")
    /\ LET r == call[t].of IN
       customer' = [customer EXCEPT
                      !.rows["login"] = @ + 1,
                      !.users[r].late = IF customer.users[r].status = "Disabled" THEN @ + 1 ELSE @]
    /\ Go(t, Step("entry", "login", call[t].of))

InviteUser(t) ==
    \E email \in Emails :
        /\ Len(customer.users) < MaxUsers
        /\ Begin(t, Step("entry", "invite", None))
        /\ customer' = [customer EXCEPT !.users = Append(@, User(email, "Invited")),
                                        !.rows["invite"] = @ + 1]

SetStatus(r, status) ==
    customer' = [customer EXCEPT !.users[r].status = status,
                                 !.users[r].late = IF status = "Disabled" THEN @ ELSE 0]

\* The status is a field of the request and "Active" unless it says otherwise: a
\* request that only renames a user accepts an invitation or lifts a disabling.
UpdateUser(t) ==
    \E r \in DOMAIN customer.users, status \in {"Active", "Disabled"} :
        Begin(t, None) /\ SetStatus(r, status)

DisableUser(t) ==
    \E r \in DOMAIN customer.users : Begin(t, None) /\ SetStatus(r, "Disabled")

-----------------------------------------------------------------------------
(* What a customer asks for. *)

ProfileUpdateRequest(t) == Recorded(t, "profile")

EntryOnly(t) ==   \* mutant: the row is not kept
    Begin(t, Step("entry", "support", None)) /\ UNCHANGED customer

CreateSupport(t) == Recorded(t, "support")

\* An order is found only while it is the customer's own.
Find(t, next) ==
    /\ customer.owner = "own"
    /\ Begin(t, Step(next, next, None))
    /\ UNCHANGED customer

\* What was found is read again to be answered or filed.
Used(t) == [own |-> customer.owner = "own", moved |-> call[t].moved]

\* Pages with the customer's orders, beside rows of the portal's own lists, whose
\* customers never change.
Orders(t) == Find(t, "page")
OrderDetail(t) == Find(t, "page")
Dashboard(t) == Find(t, "page")
Reports(t) == Find(t, "page")
OrderRisk(t) == Find(t, "page")

ShowOrder(t) ==
    /\ At(t, "page")
    /\ customer' = [customer EXCEPT !.used = @ \cup {Used(t)}]
    /\ Go(t, None)

CreateReturn(t) == Find(t, "return")

AddReturn(t) ==
    /\ At(t, "return")
    /\ customer' = [customer EXCEPT !.rows["return"] = @ + 1, !.used = @ \cup {Used(t)}]
    /\ Go(t, Step("entry", "return", None))

\* Rows nothing follows.  A comment, an attachment or a feedback may name any
\* request, order or shipment: none is looked up.
FileRow(t) == Begin(t, None) /\ customer' = [customer EXCEPT !.filed = @ + 1]

AddSupportComment(t) == FileRow(t)
AddSupportAttachment(t) == FileRow(t)
Feedback(t) == FileRow(t)
DraftAction(t) == FileRow(t)

\* The row is the entry in the audit log, of one of the two seeded documents.
DownloadDocument(t) == FileRow(t)

\* The sales desk rewrites the order, its customer included.
UpdateSalesOrder(t) ==
    \E owner \in {"own", "other"} \ {customer.owner} :
        /\ Disturb(t, None, {"page", "return"})
        /\ customer' = [customer EXCEPT !.owner = owner]

-----------------------------------------------------------------------------
Calls(t) ==
    \/ AddEntry(t) \/ LogIn(t) \/ AddSession(t) \/ InviteUser(t) \/ UpdateUser(t) \/ DisableUser(t)
    \/ ProfileUpdateRequest(t) \/ CreateSupport(t) \/ CreateReturn(t) \/ AddReturn(t)
    \/ Orders(t) \/ OrderDetail(t) \/ Dashboard(t) \/ Reports(t) \/ OrderRisk(t) \/ ShowOrder(t)
    \/ AddSupportComment(t) \/ AddSupportAttachment(t) \/ Feedback(t) \/ DownloadDocument(t)
    \/ DraftAction(t) \/ UpdateSalesOrder(t)

-----------------------------------------------------------------------------
\* Parts of what Portals states.
EntriesFollowRows ==
    \A kind \in Kinds :
        customer.rows[kind] = customer.trail[kind] + Cardinality(Underway("entry", kind))

OwnWhenAsked == \A row \in customer.used : row.own \/ row.moved

LateSessions == {customer.users[r].late : r \in DOMAIN customer.users}
=============================================================================
