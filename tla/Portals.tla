------------------------------ MODULE Portals -------------------------------
(***************************************************************************)
(* The two portals in their one server process: they share its threads and *)
(* nothing else, and both lose their lists when it starts again.           *)
(***************************************************************************)
EXTENDS ThreadPool, Integers, FiniteSets

CONSTANTS None, MaxCalls, MaxUsers, Emails, Suppliers

VARIABLES
    customer, customerCall,
    supplier, supplierCall,
    calls

portalVars == <<customer, customerCall, supplier, supplierCall, calls>>

Customer == INSTANCE CustomerPortal WITH call <- customerCall
Supplier == INSTANCE SupplierPortal WITH call <- supplierCall

\* Calls and restarts are told apart from no call; the pool has some threads.
ASSUME PortalAssumption ==
    /\ MaxCalls \in Nat /\ MaxUsers \in Nat \ {0}
    /\ IsFiniteSet(Threads) /\ Threads # {}
    /\ None \notin Customer!Steps \cup Supplier!Steps

Idle == [t \in Threads |-> None]

PortalsInit ==
    /\ Customer!Init /\ Supplier!Init
    /\ customerCall = Idle /\ supplierCall = Idle
    /\ calls = 0

ToCustomerPortal(t) ==
    supplierCall[t] = None /\ Customer!Calls(t) /\ UNCHANGED <<supplier, supplierCall>>

ToSupplierPortal(t) ==
    customerCall[t] = None /\ Supplier!Calls(t) /\ UNCHANGED <<customer, customerCall>>

\* Orders are with the sales desk's and the buyers' lists, which are seeded again too.
PortalsRestart ==
    /\ calls < MaxCalls
    /\ calls' = calls + 1
    /\ \E email \in Emails : customer' = Customer!Lists(email)
    /\ supplier' = Supplier!Lists(supplier.owner)
    /\ customerCall' = Idle /\ supplierCall' = Idle

PortalsNext ==
    \/ \E t \in Threads : ToCustomerPortal(t) \/ ToSupplierPortal(t)
    \/ PortalsRestart

PortalsSpec == PortalsInit /\ [][PortalsNext]_portalVars

-----------------------------------------------------------------------------
(* Properties. *)

\* Every session, request, return, acknowledgement, document, update and disabling
\* has its entry in the audit log or its notification, one each, unless the call
\* that made the row is still on its way to the entry.
TrailIsComplete == Customer!EntriesFollowRows /\ Supplier!EntriesFollowRows

\* A page shows, and a return is of, orders of the customer's own; an acknowledgement
\* is of the supplier's own order and a list of one supplier's; unless the order
\* changed hands, or the caller's user was moved to another supplier, while the call
\* ran: what is checked first is read again for the row or the answer.
OwnOrders == Customer!OwnWhenAsked /\ Supplier!OwnWhenAsked

\* A user who is disabled gets no session any more, but from logins that found the
\* user active before: one for every other thread at most.
DisablingTakesHold ==
    \A late \in Customer!LateSessions \cup Supplier!LateSessions :
        late < Cardinality(Threads)
=============================================================================
