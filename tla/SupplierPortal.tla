--------------------------- MODULE SupplierPortal ---------------------------
(***************************************************************************)
(* The supplier portal: app/modules/supplier_portal.py, its service and    *)
(* the lists of its repository.  Whoever calls acts as the first user on   *)
(* file.  Every user who is invited is given the one id "spu-new".         *)
(***************************************************************************)
EXTENDS PortalCalls, FiniteSets

CONSTANT Suppliers

VARIABLE supplier      \* the portal's lists

Kinds == {"login", "profile", "ack", "document", "update", "disable"}
Ids == {"spu-apex-admin", "spu-new"}
Orders == {"po-apex-001", "po-other-001"}
Steps == StepsOf(Kinds \cup {"page"}, Nat \cup {None} \cup Orders \cup SUBSET Orders)

User(id, of, status) == [id |-> id, supplier |-> of, status |-> status, late |-> 0]

\* Two suppliers have an order each; the orders never change hands, nor status.
Lists(owner) ==
    [users |-> <<User("spu-apex-admin", owner["po-apex-001"], "Active")>>, owner |-> owner,
     rows |-> [k \in Kinds |-> 0], trail |-> [k \in Kinds |-> 0], filed |-> 0, used |-> {}]

Init ==
    \E owner \in [Orders -> Suppliers] :
        owner["po-apex-001"] # owner["po-other-001"] /\ supplier = Lists(owner)

-----------------------------------------------------------------------------
Row(kind) == supplier' = [supplier EXCEPT !.rows[kind] = @ + 1]

Recorded(t, kind) == Begin(t, Step("entry", kind, None)) /\ Row(kind)

AddEntry(t) ==
    \E kind \in Kinds :
        /\ At(t, "entry") /\ call[t].kind = kind
        /\ supplier' = [supplier EXCEPT !.trail[kind] = @ + 1]
        /\ Go(t, None)

-----------------------------------------------------------------------------
(* Users. *)

\* The first active user with the email and the password that are given.
LogIn(t) ==
    \E r \in DOMAIN supplier.users :
        /\ supplier.users[r].status = "Active"
        /\ Begin(t, Step("session", "login", r))
        /\ UNCHANGED supplier

AddSession(t) ==
    /\ At(t, "session")
    /\ LET r == call[t].of IN
       supplier' = [supplier EXCEPT
                      !.rows["login"] = @ + 1,
                      !.users[r].late = IF supplier.users[r].status = "Disabled" THEN @ + 1 ELSE @]
    /\ Go(t, Step("entry", "login", call[t].of))

InviteUser(t) ==
    \E of \in Suppliers :
        /\ Len(supplier.users) < MaxUsers
        /\ Begin(t, None)
        /\ supplier' = [supplier EXCEPT !.users = Append(@, User("spu-new", of, "Invited"))]

\* An id stands for the first user who has it.
Named(id) ==
    {r \in DOMAIN supplier.users :
        supplier.users[r].id = id /\ \A q \in 1..(r - 1) : supplier.users[q].id # id}

\* The request is that of an invitation: it moves a user to any supplier, and
\* never touches the status.
UpdateUser(t) ==
    \E id \in Ids : \E r \in Named(id), of \in Suppliers :
        LET next == Step("entry", "update", None) IN
        /\ IF r = 1 /\ of # supplier.users[r].supplier THEN Disturb(t, next, {"ack", "page"})
                                                       ELSE Begin(t, next)
        /\ supplier' = [supplier EXCEPT !.users[r].supplier = of, !.rows["update"] = @ + 1]

DisableUser(t) ==
    \E id \in Ids : \E r \in Named(id) :
        /\ Begin(t, Step("entry", "disable", None))
        /\ supplier' = [supplier EXCEPT !.users[r].status = "Disabled", !.rows["disable"] = @ + 1]

-----------------------------------------------------------------------------
(* What a supplier sends in. *)

AnyOrder(order) == order \in Orders   \* mutant: whoever the order was placed with

Mine(order) == supplier.owner[order] = supplier.users[1].supplier

AcknowledgePo(t) ==
    \E order \in Orders :
        /\ Mine(order)
        /\ Begin(t, Step("ack", "ack", order))
        /\ UNCHANGED supplier

\* The supplier of the row is read again; the order stays "Issued".
AddAcknowledgement(t) ==
    /\ At(t, "ack")
    /\ LET own == supplier.owner[call[t].of] = supplier.users[1].supplier IN
       supplier' = [supplier EXCEPT !.rows["ack"] = @ + 1,
                                    !.used = @ \cup {[own |-> own, moved |-> call[t].moved]}]
    /\ Go(t, Step("entry", "ack", None))

\* A list tests each order against the supplier the user is of at that moment.
ListFirst(t) ==
    /\ Begin(t, Step("page", "page", {order \in {"po-apex-001"} : Mine(order)}))
    /\ UNCHANGED supplier

ListRest(t) ==
    /\ At(t, "page")
    /\ LET shown == call[t].of \cup {order \in {"po-other-001"} : Mine(order)}
           own == Cardinality({supplier.owner[order] : order \in shown}) <= 1
       IN supplier' = [supplier EXCEPT !.used = @ \cup {[own |-> own, moved |-> call[t].moved]}]
    /\ Go(t, None)

\* What these pages show of overdue orders and expiring certificates is that of
\* "supplier-apex", whoever asks, and is left out.
PurchaseOrders(t) == ListFirst(t)
Dashboard(t) == ListFirst(t)
Reports(t) == ListFirst(t)

ProfileUpdateRequest(t) == Recorded(t, "profile")
UploadDocument(t) == Recorded(t, "document")

\* Rows nothing follows; the orders they name are not looked up.
FileRow(t) == Begin(t, None) /\ supplier' = [supplier EXCEPT !.filed = @ + 1]

UploadCertificate(t) == FileRow(t)
CreateDeliveryConfirmation(t) == FileRow(t)
CreateAsn(t) == FileRow(t)
CreateMessage(t) == FileRow(t)
RespondCapa(t) == FileRow(t)
DraftAction(t) == FileRow(t)

-----------------------------------------------------------------------------
Calls(t) ==
    \/ AddEntry(t) \/ LogIn(t) \/ AddSession(t) \/ InviteUser(t) \/ UpdateUser(t) \/ DisableUser(t)
    \/ AcknowledgePo(t) \/ AddAcknowledgement(t) \/ ProfileUpdateRequest(t) \/ UploadDocument(t)
    \/ UploadCertificate(t) \/ CreateDeliveryConfirmation(t) \/ CreateAsn(t) \/ CreateMessage(t)
    \/ RespondCapa(t) \/ DraftAction(t)
    \/ PurchaseOrders(t) \/ Dashboard(t) \/ Reports(t) \/ ListRest(t)

-----------------------------------------------------------------------------
\* Parts of what Portals states.
EntriesFollowRows ==
    \A kind \in Kinds :
        supplier.rows[kind] = supplier.trail[kind] + Cardinality(Underway("entry", kind))

OwnWhenAsked == \A row \in supplier.used : row.own \/ row.moved

LateSessions == {supplier.users[r].late : r \in DOMAIN supplier.users}
=============================================================================
