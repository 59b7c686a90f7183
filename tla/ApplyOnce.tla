------------------------------ MODULE ApplyOnce ------------------------------
(***************************************************************************)
(* What an idempotency key promises its callers: however often a call with *)
(* a key is repeated, what it does is done once.  The platform checks the  *)
(* key and stores it in two steps, with no lock, so the promise is made of *)
(* the keys on which no two calls have collided between the two; and it is *)
(* kept in memory, so a restart of the server forgets it.                  *)
(***************************************************************************)
EXTENDS Naturals

CONSTANT Keys

VARIABLES
    effects,   \* per key: how many times what it asks for was done
    collided   \* keys on which two calls passed the check together

vars == <<effects, collided>>

Init ==
    /\ effects = [k \in Keys |-> 0]
    /\ collided = {}

Collide(k) ==
    /\ collided' = collided \cup {k}
    /\ UNCHANGED effects

Apply(k) ==
    /\ effects[k] = 0 \/ k \in collided
    /\ effects' = [effects EXCEPT ![k] = @ + 1]
    /\ UNCHANGED collided

Forget ==
    /\ effects' = [k \in Keys |-> 0]
    /\ collided' = {}

Next == Forget \/ \E k \in Keys : Collide(k) \/ Apply(k)

Spec == Init /\ [][Next]_vars
==============================================================================
