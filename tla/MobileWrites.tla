----------------------------- MODULE MobileWrites -----------------------------
(***************************************************************************)
(* What a mobile device writes with an idempotency key (mobile.py,         *)
(* mobile_service.py, mobile_repository.py): batches of offline actions    *)
(* (sync_push), drafts of receipts, transfers and movements                *)
(* (create_idempotent) and items of a stock count (submit_count_item).     *)
(*                                                                         *)
(* Handlers run on threads and share the lists without a lock: the look-up *)
(* of a key, the append and the append of the answer are separate steps.   *)
(* The lists are in memory, so a restart of the server empties them.  The  *)
(* device and the user of a call are stored with it and never looked up,   *)
(* and are left out, as are the rows of audits, batches and conflicts,     *)
(* which no handler that writes reads back.                                *)
(***************************************************************************)
EXTENDS ThreadPool, Naturals, Sequences

CONSTANTS
    Keys,         \* idempotency keys
    NoKey,        \* stands for the key of an action that has none
    DraftLists,   \* receipts, transfers, movements: the lists of drafts
    Batches,      \* action sequences a device may push
    MaxCounts     \* bound: items submitted to a count

Names == Keys \cup {NoKey}

(* An action of a batch is a dictionary the schema says nothing of: its    *)
(* key, whether its type is one of the high-risk ones, whether its payload *)
(* says the record it is about is closed, and which of the entries that    *)
(* are read for it it lacks: the local id it is answered under, or its     *)
(* content, the type and, of an action not blocked, the payload.           *)
Action == [key : Names, blocked : BOOLEAN, closed : BOOLEAN,
           lacks : SUBSET {"content", "local_action_id"}]

ASSUME MobileAssumption ==
    /\ Keys # {} /\ NoKey \notin Keys
    /\ "offline_actions" \notin DraftLists
    /\ Batches \subseteq Seq(Action)
    /\ MaxCounts \in Nat

Lists == DraftLists \cup {"offline_actions"}
Rows == (DraftLists \X Keys) \cup ({"offline_actions"} \X Names)

VARIABLES
    rows,       \* per list and key: rows that hold the key
    ahead,      \* keys of the offline actions before the first that has none
    answers,    \* per key: statuses sync_results rows hold for it
    counted,    \* items submitted to the count
    pc,         \* per thread: the next step of the handler
    batch,      \* per thread: actions its loop has not answered
    target,     \* per thread: list and key it is about to append
    verdict,    \* per thread: status of the action it is at
    collided    \* history: rows two threads were about to append together

vars == <<rows, ahead, answers, counted, pc, batch, target, verdict,
          collided>>

NoTarget == CHOOSE r \in Rows : TRUE
Statuses == {"duplicate", "rejected", "requires_review", "accepted"}

Init ==
    /\ rows = [r \in Rows |-> 0]
    /\ ahead = {}
    /\ answers = [k \in Names |-> {}]
    /\ counted = 0
    /\ pc = [t \in Threads |-> "idle"]
    /\ batch = [t \in Threads |-> <<>>]
    /\ target = [t \in Threads |-> NoTarget]
    /\ verdict = [t \in Threads |-> "accepted"]
    /\ collided = {}

Stored(r) == rows[r] > 0

Keyless == <<"offline_actions", NoKey>>

(* A second thread has passed the look-up before the first one appended.   *)
Collisions(r) ==
    IF \E u \in Threads : pc[u] \in {"accept", "draft"} /\ target[u] = r
    THEN collided \cup {r} ELSE collided

-----------------------------------------------------------------------------
(* POST /mobile/sync/push: a loop over the actions of the batch.           *)
BeginPush(t, b) ==
    /\ pc[t] = "idle"
    /\ batch' = [batch EXCEPT ![t] = b]
    /\ pc' = [pc EXCEPT ![t] = "action"]
    /\ UNCHANGED <<rows, ahead, answers, counted, target, verdict, collided>>

(* The chain of ifs that settles an action, in the order of the code.      *)
NoLookUp(a) ==                          \* mutant: the key is not looked up
    IF a.blocked THEN "rejected"
    ELSE IF a.closed THEN "requires_review"
    ELSE "accepted"

(* The scan stops at the first row with the key of the action, and raises  *)
(* at a row that has none.                                                 *)
Found(a) == a.key \in ahead

Verdict(a) ==
    IF Found(a) THEN "duplicate"
    ELSE IF a.blocked THEN "rejected"
    ELSE IF a.closed THEN "requires_review"
    ELSE "accepted"

(* It reads the key of the action at the first row it meets, so an action  *)
(* without one gets past an empty list; of a key it finds no more is read. *)
Fails(a) ==
    /\ ~Found(a)
    /\ \/ Stored(Keyless)
       \/ a.key = NoKey /\ ahead # {}
       \/ "content" \in a.lacks

Settle(t) ==
    /\ pc[t] = "action"
    /\ batch[t] # <<>>
    /\ LET a == Head(batch[t])
           r == <<"offline_actions", a.key>> IN
       /\ ~Fails(a)
       /\ verdict' = [verdict EXCEPT ![t] = Verdict(a)]
       /\ target' = [target EXCEPT ![t] = r]
       /\ IF Verdict(a) = "accepted"
          THEN pc' = [pc EXCEPT ![t] = "accept"] /\ collided' = Collisions(r)
          ELSE pc' = [pc EXCEPT ![t] = "answer"] /\ UNCHANGED collided
    /\ UNCHANGED <<rows, ahead, answers, counted, batch>>

(* Rows after the first without a key are never reached by a scan.         *)
AheadWith(r) ==
    IF r = Keyless \/ Stored(Keyless) THEN ahead ELSE ahead \cup {r[2]}

Accept(t) ==
    /\ pc[t] = "accept"
    /\ rows' = [rows EXCEPT ![target[t]] = @ + 1]
    /\ ahead' = AheadWith(target[t])
    /\ pc' = [pc EXCEPT ![t] = "answer"]
    /\ UNCHANGED <<answers, counted, batch, target, verdict, collided>>

Answer(t) ==
    /\ pc[t] = "answer"
    /\ "local_action_id" \notin Head(batch[t]).lacks
    /\ answers' = [answers EXCEPT ![Head(batch[t]).key] = @ \cup {verdict[t]}]
    /\ batch' = [batch EXCEPT ![t] = Tail(@)]
    /\ pc' = [pc EXCEPT ![t] = "action"]
    /\ target' = [target EXCEPT ![t] = NoTarget]
    /\ verdict' = [verdict EXCEPT ![t] = "accepted"]
    /\ UNCHANGED <<rows, ahead, counted, collided>>

(* All actions are answered, or the call fails at one: before anything is  *)
(* stored of it, or after it was accepted and with no answer for it.       *)
EndPush(t) ==
    /\ \/ pc[t] = "action" /\ batch[t] = <<>>
       \/ pc[t] = "action" /\ batch[t] # <<>> /\ Fails(Head(batch[t]))
       \/ pc[t] = "answer" /\ "local_action_id" \in Head(batch[t]).lacks
    /\ pc' = [pc EXCEPT ![t] = "idle"]
    /\ batch' = [batch EXCEPT ![t] = <<>>]
    /\ target' = [target EXCEPT ![t] = NoTarget]
    /\ verdict' = [verdict EXCEPT ![t] = "accepted"]
    /\ UNCHANGED <<rows, ahead, answers, counted, collided>>

-----------------------------------------------------------------------------
(* create_idempotent: receipts, transfers and movements.  A transfer of    *)
(* rejected or quarantined stock is answered before it gets here.          *)
BeginDraft(t, r) ==
    /\ pc[t] = "idle"
    /\ r \in DraftLists \X Keys
    /\ ~Stored(r)
    /\ pc' = [pc EXCEPT ![t] = "draft"]
    /\ target' = [target EXCEPT ![t] = r]
    /\ collided' = Collisions(r)
    /\ UNCHANGED <<rows, ahead, answers, counted, batch, verdict>>

StoreDraft(t) ==
    /\ pc[t] = "draft"
    /\ rows' = [rows EXCEPT ![target[t]] = @ + 1]
    /\ pc' = [pc EXCEPT ![t] = "idle"]
    /\ target' = [target EXCEPT ![t] = NoTarget]
    /\ UNCHANGED <<ahead, answers, counted, batch, verdict, collided>>

-----------------------------------------------------------------------------
(* submit_count_item is given a key and does not look it up: the item is   *)
(* appended to its count, one step, after the conflict row of a variance.  *)
SubmitCount ==
    /\ counted < MaxCounts
    /\ counted' = counted + 1
    /\ UNCHANGED <<rows, ahead, answers, pc, batch, target, verdict, collided>>

-----------------------------------------------------------------------------
KeepAnswers == answers                  \* mutant: results outlive the actions
AnswersAtStart == [k \in Names |-> {}]

(* The server stops and starts on a fresh repository.                      *)
Restart ==
    /\ rows' = [r \in Rows |-> 0]
    /\ ahead' = {}
    /\ answers' = AnswersAtStart
    /\ counted' = 0
    /\ pc' = [t \in Threads |-> "idle"]
    /\ batch' = [t \in Threads |-> <<>>]
    /\ target' = [t \in Threads |-> NoTarget]
    /\ verdict' = [t \in Threads |-> "accepted"]
    /\ collided' = {}

Serve ==
    \/ \E t \in Threads :
          \/ \E b \in Batches : BeginPush(t, b)
          \/ Settle(t) \/ Accept(t) \/ Answer(t) \/ EndPush(t)
          \/ \E r \in Rows : BeginDraft(t, r)
          \/ StoreDraft(t)
    \/ SubmitCount

Next == Serve \/ Restart

Spec == Init /\ [][Next]_vars

-----------------------------------------------------------------------------
TypeOK ==
    /\ rows \in [Rows -> Nat]
    /\ ahead \subseteq Keys
    /\ answers \in [Names -> SUBSET Statuses]
    /\ counted \in Nat
    /\ pc \in [Threads -> {"idle", "action", "accept", "answer", "draft"}]
    /\ batch \in [Threads -> Seq(Action)]
    /\ target \in [Threads -> Rows]
    /\ verdict \in [Threads -> Statuses]
    /\ collided \subseteq Rows

Writes == INSTANCE ApplyOnce WITH Keys <- Rows, effects <- rows

(* A device that repeats a batch or a draft, after a lost answer, a batch  *)
(* that failed in the middle or a second copy of the key in one batch,     *)
(* leaves one row of it, unless two calls with the key overlapped.  So do  *)
(* actions without a key: one of them gets in, when the list is empty.     *)
ImplementsApplyOnce == Writes!Spec

(* What a device is told holds until the server restarts: an action that   *)
(* was answered "accepted", or "duplicate" by whichever thread, is in the  *)
(* list of offline actions, so the device may drop it.  Not the other way  *)
(* round: an action may be in the list and its call have failed.           *)
AnswersAreTrue ==
    \A k \in Names :
        answers[k] \cap {"accepted", "duplicate"} # {}
            => Stored(<<"offline_actions", k>>)
==============================================================================
