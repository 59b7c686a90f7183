---------------------------- MODULE InboundEvents ----------------------------
(***************************************************************************)
(* POST /integrations/inbound/{provider_code}: events that outside systems *)
(* push, and push again when they get no answer (integrations_service.py,  *)
(* integrations_repository.py).                                            *)
(*                                                                         *)
(* The handler looks the key up, stores it and stores the event, in three  *)
(* steps that other threads of the pool can come between.  Both lists live *)
(* in the memory of the server and start empty when it is restarted.  The  *)
(* key alone is looked up: the provider is part of the row, not of the     *)
(* check, and is left out, as is all else an event carries.                *)
(***************************************************************************)
EXTENDS Naturals, FiniteSets

CONSTANTS
    Threads,   \* worker threads that can run the handler at one time
    Keys       \* idempotency keys of the events that are pushed

ASSUME KeysAssumption == Keys # {}

VARIABLES
    keyRows,   \* per key: rows of idempotency_keys that hold it
    events,    \* per key: rows of the event log that hold it
    pc,        \* per thread: the next step of the handler
    key,       \* per thread: the key of the call it runs
    ignored,   \* history: keys a call was answered "Ignored" for
    collided   \* history: keys two calls were about to store together

vars == <<keyRows, events, pc, key, ignored, collided>>

AnyKey == CHOOSE k \in Keys : TRUE
Empty == [k \in Keys |-> 0]

Init ==
    /\ keyRows = Empty
    /\ events = Empty
    /\ pc = [t \in Threads |-> "idle"]
    /\ key = [t \in Threads |-> AnyKey]
    /\ ignored = {}
    /\ collided = {}

At(t, step, k) == pc[t] = step /\ key[t] = k

AlwaysNew(k) == TRUE                    \* mutant: the key is not looked up
Unknown(k) == keyRows[k] = 0

(* existing = next(...): a known key is answered at once, a new one is on  *)
(* its way into the list.                                                  *)
Push(t, k) ==
    /\ pc[t] = "idle"
    /\ \/ /\ ~Unknown(k)
          /\ ignored' = ignored \cup {k}
          /\ UNCHANGED <<pc, key, collided>>
       \/ /\ Unknown(k)
          /\ pc' = [pc EXCEPT ![t] = "key"]
          /\ key' = [key EXCEPT ![t] = k]
          /\ collided' = IF \E u \in Threads : At(u, "key", k)
                         THEN collided \cup {k} ELSE collided
          /\ UNCHANGED ignored
    /\ UNCHANGED <<keyRows, events>>

StoreKey(t) ==
    /\ pc[t] = "key"
    /\ keyRows' = [keyRows EXCEPT ![key[t]] = @ + 1]
    /\ pc' = [pc EXCEPT ![t] = "event"]
    /\ UNCHANGED <<events, key, ignored, collided>>

StoreEvent(t) ==
    /\ pc[t] = "event"
    /\ events' = [events EXCEPT ![key[t]] = @ + 1]
    /\ pc' = [pc EXCEPT ![t] = "idle"]
    /\ key' = [key EXCEPT ![t] = AnyKey]
    /\ UNCHANGED <<keyRows, ignored, collided>>

KeepKeys == keyRows                     \* mutant: the keys outlive the events
KeysAtStart == Empty

(* The server stops, with whatever its threads were doing, and starts on   *)
(* fresh repositories; the answers it gave before are no longer about them.*)
Restart ==
    /\ keyRows' = KeysAtStart
    /\ events' = Empty
    /\ pc' = [t \in Threads |-> "idle"]
    /\ key' = [t \in Threads |-> AnyKey]
    /\ ignored' = {}
    /\ collided' = {}

Next ==
    \/ \E t \in Threads :
          \/ \E k \in Keys : Push(t, k)
          \/ StoreKey(t) \/ StoreEvent(t)
    \/ Restart

Spec == Init /\ [][Next]_vars

-----------------------------------------------------------------------------
TypeOK ==
    /\ keyRows \in [Keys -> Nat]
    /\ events \in [Keys -> Nat]
    /\ pc \in [Threads -> {"idle", "key", "event"}]
    /\ key \in [Threads -> Keys]
    /\ ignored \subseteq Keys
    /\ collided \subseteq Keys

Log == INSTANCE ApplyOnce WITH effects <- events

(* Pushing an event again and again leaves one row of it in the log,       *)
(* unless two pushes of it overlapped or the server was restarted.         *)
ImplementsApplyOnce == Log!Spec

(* A sender that is told "Ignored" can stop pushing: the event it means is *)
(* in the log, or a thread that has stored its key is about to log it, and *)
(* that holds across restarts and collisions.                              *)
IgnoredIsLogged ==
    \A k \in ignored :
        events[k] > 0 \/ \E t \in Threads : At(t, "event", k)
==============================================================================
