---------------------------- MODULE PortalCalls -----------------------------
(***************************************************************************)
(* The calls of the customer and the supplier portal.  Their handlers are  *)
(* plain functions, so a pool of threads runs them; one gives way to       *)
(* another between any two of its accesses to a list or a row.             *)
(***************************************************************************)
EXTENDS ThreadPool, Integers, Sequences

CONSTANTS
    None,              \* no call
    MaxCalls,          \* bound: calls and restarts in a behaviour
    MaxUsers           \* bound: users of one portal

VARIABLES
    call,              \* per thread: the call it is in
    calls

callVars == <<call, calls>>

\* of: the user or the order a call works on; moved: whether what it checked has
\* changed since.
StepsOf(kinds, subjects) ==
    [at : {"entry", "session", "page", "return", "ack"}, kind : kinds, of : subjects,
     moved : BOOLEAN]
Step(at, kind, of) == [at |-> at, kind |-> kind, of |-> of, moved |-> FALSE]

Begin(t, next) ==
    /\ call[t] = None /\ calls < MaxCalls
    /\ calls' = calls + 1
    /\ call' = [call EXCEPT ![t] = next]

At(t, at) == call[t] # None /\ call[t].at = at

Go(t, next) == call' = [call EXCEPT ![t] = next] /\ UNCHANGED calls

\* A call that others, who are at one of some steps, are disturbed by.
Disturb(t, next, steps) ==
    /\ call[t] = None /\ calls < MaxCalls
    /\ calls' = calls + 1
    /\ call' = [u \in Threads |-> IF u = t THEN next
                                  ELSE IF \E at \in steps : At(u, at) THEN [call[u] EXCEPT !.moved = TRUE]
                                  ELSE call[u]]

\* The calls between a row of a kind and its entry in the trail.
Underway(at, kind) == {t \in Threads : At(t, at) /\ call[t].kind = kind}
=============================================================================
