----------------------------- MODULE MobileProofs -----------------------------
(***************************************************************************)
(* For any number of threads, keys and lists, and any batches: the offline *)
(* actions and the drafts of a device implement ApplyOnce, and what a      *)
(* device was answered about an action is true.                            *)
(*                                                                         *)
(* OneWriter says what a row without collision looks like while threads    *)
(* are about to append it: at most one is, and the row is not there yet.   *)
(* Settled ties the locals of a thread in sync_push to the action it is at *)
(* and its verdict to the list.                                            *)
(*                                                                         *)
(* The last part is about the registered devices: the sessions a thread in *)
(* disable_device has not passed are the only active ones that a device it *)
(* has disabled may still have.                                            *)
(***************************************************************************)
EXTENDS MobileDesk, MobileDevices, TLAPS

Appending(t, r) == pc[t] \in {"accept", "draft"} /\ target[t] = r

OneWriter(r) ==
    /\ \A t, u \in Threads : Appending(t, r) /\ Appending(u, r) => t = u
    /\ \A t \in Threads : Appending(t, r) => rows[r] = 0

CleanRows == \A r \in Rows \ collided : OneWriter(r)

AtHead(t) == <<"offline_actions", Head(batch[t]).key>>

\* A thread at an action has one, and appends the row of its key.
InBatch ==
    \A t \in Threads :
        /\ pc[t] \in {"accept", "answer"} => batch[t] # <<>>
        /\ pc[t] = "accept" => target[t] = AtHead(t)
        /\ pc[t] = "draft" => target[t] \in DraftLists \X Keys

\* A verdict that is about to be answered, and one that was, is true.
Settled ==
    \A t \in Threads :
        pc[t] = "answer" /\ verdict[t] \in {"accepted", "duplicate"}
            => Stored(AtHead(t))

\* What a scan finds is stored, and it finds all there is if it can get
\* through the list.
ScanTrue ==
    /\ \A k \in ahead : Stored(<<"offline_actions", k>>)
    /\ ~Stored(Keyless) =>
          \A k \in Keys : Stored(<<"offline_actions", k>>) => k \in ahead

Typed == TypeOK /\ InBatch
ScanInv == Typed /\ ScanTrue
OnceInv == ScanInv /\ CleanRows
AnswerInv == ScanInv /\ Settled /\ AnswersAreTrue

(* The row an idle thread names is one.                                    *)
LEMMA Chosen == NoTarget \in Rows
<1>1. PICK k \in Keys : TRUE
  BY MobileAssumption
<1>2. <<"offline_actions", k>> \in Rows
  BY DEF Rows, Names
<1> QED
  BY <1>2 DEF NoTarget

(* The head of a batch is an action, and its key names a row.              *)
LEMMA HeadIsAction ==
    ASSUME NEW b \in Seq(Action), b # <<>>
    PROVE  /\ Head(b).key \in Names
           /\ <<"offline_actions", Head(b).key>> \in Rows
           /\ Tail(b) \in Seq(Action)
<1>1. Head(b) \in Action /\ Tail(b) \in Seq(Action)
  OBVIOUS
<1> QED
  BY <1>1 DEF Action, Rows, Lists

(* Every name of an offline action has its row, and the row without a key  *)
(* is none of those with one.                                              *)
LEMMA OfflineRows ==
    /\ \A k \in Names : <<"offline_actions", k>> \in Rows
    /\ Keyless \in Rows
    /\ \A k \in Keys : <<"offline_actions", k>> # Keyless /\ k \in Names
    /\ \A r \in DraftLists \X Keys : r \in Rows /\ r[1] # "offline_actions"
    /\ \A r \in Rows : r[1] = "offline_actions" => r[2] \in Names /\ r = <<r[1], r[2]>>
BY MobileAssumption DEF Rows, Names, Keyless

(* A server that has just started holds no row, and its threads are idle.  *)
LEMMA InitHolds == Init => ScanInv /\ CleanRows /\ Settled /\ AnswersAreTrue
BY Chosen, OfflineRows DEF ScanInv, ScanTrue, Stored, Init, Typed, TypeOK, InBatch, CleanRows, OneWriter, Appending,
              Settled, AnswersAreTrue, Statuses

(* So does one that has restarted.                                         *)
LEMMA RestartHolds ==
    Restart => ScanInv' /\ CleanRows' /\ Settled' /\ AnswersAreTrue'
BY Chosen, OfflineRows DEF ScanInv, ScanTrue, Stored, Restart, Typed, TypeOK, InBatch, CleanRows, OneWriter, Appending,
              Settled, AnswersAreTrue, Statuses, AnswersAtStart

(* Every step keeps rows and locals well typed, and a thread at an action  *)
(* has one.                                                                *)
LEMMA TypeStep == Typed /\ [Next]_vars => Typed'
<1> SUFFICES ASSUME Typed, [Next]_vars PROVE Typed'
  OBVIOUS
<1> USE DEF Typed, TypeOK, InBatch, AtHead
<1>1. ASSUME NEW t \in Threads, NEW b \in Batches, BeginPush(t, b) PROVE Typed'
  BY <1>1, MobileAssumption DEF BeginPush
<1>2. ASSUME NEW t \in Threads, Settle(t) PROVE Typed'
  <2> DEFINE a == Head(batch[t])
             r == <<"offline_actions", a.key>>
  <2>1. batch[t] \in Seq(Action) /\ batch[t] # <<>> /\ r \in Rows
    BY <1>2, HeadIsAction DEF Settle
  <2>2. Verdict(a) \in Statuses
    BY DEF Verdict, Statuses
  <2>3. /\ rows' = rows /\ ahead' = ahead /\ answers' = answers /\ counted' = counted
        /\ batch' = batch
        /\ verdict' = [verdict EXCEPT ![t] = Verdict(a)]
        /\ target' = [target EXCEPT ![t] = r]
        /\ collided' \in {collided, collided \cup {r}}
        /\ pc' \in {[pc EXCEPT ![t] = "accept"], [pc EXCEPT ![t] = "answer"]}
    BY <1>2 DEF Settle, Collisions
  <2>4. TypeOK'
    BY <2>1, <2>2, <2>3
  <2>5. InBatch'
    BY <2>1, <2>3
  <2> QED
    BY <2>4, <2>5
<1>3. ASSUME NEW t \in Threads, Accept(t) PROVE Typed'
  <2>1. /\ batch[t] \in Seq(Action) /\ batch[t] # <<>>
        /\ target[t] = <<"offline_actions", Head(batch[t]).key>>
    BY <1>3 DEF Accept
  <2>2. PICK k \in Names : target[t] = <<"offline_actions", k>>
    BY <2>1, HeadIsAction
  <2>3. ahead' \subseteq Keys
    BY <1>3, <2>2 DEF Accept, AheadWith, Names, Keyless
  <2> QED
    BY <1>3, <2>3 DEF Accept
<1>4. ASSUME NEW t \in Threads, Answer(t) PROVE Typed'
  <2>1. batch[t] \in Seq(Action) /\ batch[t] # <<>>
    BY <1>4 DEF Answer
  <2>2. Head(batch[t]).key \in Names /\ Tail(batch[t]) \in Seq(Action)
    BY <2>1, HeadIsAction
  <2>3. TypeOK'
    BY <1>4, <2>2, Chosen DEF Answer, Statuses
  <2>4. InBatch'
    BY <1>4 DEF Answer
  <2> QED
    BY <2>3, <2>4
<1>5. ASSUME NEW t \in Threads, EndPush(t) PROVE Typed'
  BY <1>5, Chosen DEF EndPush, Statuses
<1>6. ASSUME NEW t \in Threads, NEW r \in Rows, BeginDraft(t, r) PROVE Typed'
  BY <1>6 DEF BeginDraft, Collisions
<1>7. ASSUME NEW t \in Threads, StoreDraft(t) PROVE Typed'
  BY <1>7, Chosen DEF StoreDraft
<1>8. ASSUME SubmitCount PROVE Typed'
  BY <1>8 DEF SubmitCount
<1>9. CASE Restart
  BY <1>9, RestartHolds DEF ScanInv
<1>10. CASE UNCHANGED vars
  BY <1>10 DEF vars
<1> QED
  BY <1>1, <1>2, <1>3, <1>4, <1>5, <1>6, <1>7, <1>8, <1>9, <1>10 DEF Next, Serve

(* The list of offline actions is as it was, and what a scan finds.        *)
LEMMA ListUntouched ==
    ASSUME ScanTrue, ahead \subseteq Keys, ahead' = ahead,
           \A k \in Names : rows'[<<"offline_actions", k>>] = rows[<<"offline_actions", k>>]
    PROVE  ScanTrue'
<1>1. \A k \in Names : Stored(<<"offline_actions", k>>)' <=> Stored(<<"offline_actions", k>>)
  BY DEF Stored
<1>2. Stored(Keyless)' <=> Stored(Keyless)
  BY DEF Stored, Keyless, Names
<1> QED
  BY <1>1, <1>2 DEF ScanTrue, Names

(* An action that is appended before any without a key is found by the     *)
(* scans to come; after one it is not, and they do not get that far.       *)
LEMMA AppendFound ==
    ASSUME ScanInv, NEW t \in Threads, Accept(t) PROVE ScanTrue'
<1> DEFINE s == target[t]
           k == s[2]
<1>1. s = <<"offline_actions", k>> /\ k \in Names /\ s \in Rows
  <2>1. target[t] = AtHead(t) /\ batch[t] # <<>> /\ batch[t] \in Seq(Action)
    BY DEF Accept, ScanInv, Typed, TypeOK, InBatch
  <2> QED
    BY <2>1, HeadIsAction DEF AtHead
<1>2. /\ rows \in [Rows -> Nat] /\ ahead \subseteq Keys
      /\ rows' = [rows EXCEPT ![s] = @ + 1] /\ ahead' = AheadWith(s)
  BY DEF Accept, ScanInv, Typed, TypeOK
<1>3. ScanTrue
  BY DEF ScanInv
<1> HIDE DEF s, k
<1>4. /\ rows'[s] > 0
      /\ \A r \in Rows : rows[r] > 0 => rows'[r] > 0
      /\ \A r \in Rows : r # s => rows'[r] = rows[r]
  BY <1>1, <1>2
<1>5. \A j \in ahead' : Stored(<<"offline_actions", j>>)'
  <2>1. \A j \in ahead : rows'[<<"offline_actions", j>>] > 0
    BY <1>2, <1>3, <1>4, OfflineRows DEF ScanTrue, Stored
  <2>2. ahead' \subseteq ahead \cup {k}
    BY <1>2 DEF AheadWith, k
  <2> QED
    BY <1>1, <1>4, <2>1, <2>2 DEF Stored
<1>6. ASSUME ~Stored(Keyless)', NEW j \in Keys, Stored(<<"offline_actions", j>>)'
      PROVE  j \in ahead'
  <2>1. s # Keyless /\ ~Stored(Keyless)
    BY <1>4, <1>6, OfflineRows DEF Stored, Keyless
  <2>2. ahead' = ahead \cup {k}
    BY <1>2, <2>1 DEF AheadWith, k
  <2>3. CASE <<"offline_actions", j>> = s
    BY <1>1, <2>2, <2>3
  <2>4. CASE <<"offline_actions", j>> # s
    <3>1. Stored(<<"offline_actions", j>>)
      BY <1>4, <1>6, <2>4, OfflineRows DEF Stored
    <3> QED
      BY <1>3, <2>1, <2>2, <3>1 DEF ScanTrue
  <2> QED
    BY <2>3, <2>4
<1> QED
  BY <1>5, <1>6 DEF ScanTrue

(* Only a push appends to the list of offline actions.                     *)
LEMMA ScanStep == ScanInv /\ [Next]_vars => ScanInv'
<1> SUFFICES ASSUME ScanInv, [Next]_vars PROVE ScanInv'
  OBVIOUS
<1>0. Typed' /\ Typed /\ ScanTrue
  BY TypeStep DEF ScanInv
<1>1. ASSUME NEW t \in Threads, Accept(t) PROVE ScanTrue'
  BY <1>1, AppendFound
<1>2. ASSUME NEW t \in Threads, StoreDraft(t) PROVE ScanTrue'
  <2>1. /\ target[t] \in DraftLists \X Keys /\ ahead' = ahead
        /\ rows' = [rows EXCEPT ![target[t]] = @ + 1]
    BY <1>0, <1>2 DEF StoreDraft, Typed, InBatch
  <2>2. \A k \in Names : <<"offline_actions", k>> # target[t]
    BY <2>1, OfflineRows
  <2> QED
    BY <1>0, <2>1, <2>2, ListUntouched, OfflineRows DEF Typed, TypeOK
<1>3. ASSUME NEW t \in Threads, NEW b \in Batches, BeginPush(t, b) PROVE ScanTrue'
  BY <1>0, <1>3, ListUntouched DEF Typed, TypeOK, BeginPush
<1>4. ASSUME NEW t \in Threads, Settle(t) \/ Answer(t) \/ EndPush(t) PROVE ScanTrue'
  BY <1>0, <1>4, ListUntouched DEF Typed, TypeOK, Settle, Answer, EndPush
<1>5. ASSUME NEW t \in Threads, NEW r \in Rows, BeginDraft(t, r) PROVE ScanTrue'
  BY <1>0, <1>5, ListUntouched DEF Typed, TypeOK, BeginDraft
<1>6. ASSUME SubmitCount PROVE ScanTrue'
  BY <1>0, <1>6, ListUntouched DEF Typed, TypeOK, SubmitCount
<1>7. ASSUME Restart PROVE ScanTrue'
  BY <1>7, RestartHolds DEF ScanInv
<1>8. ASSUME UNCHANGED vars PROVE ScanTrue'
  BY <1>0, <1>8, ListUntouched DEF Typed, TypeOK, vars
<1>9. ScanTrue'
  BY <1>1, <1>2, <1>3, <1>4, <1>5, <1>6, <1>7, <1>8 DEF Next, Serve
<1> QED
  BY <1>0, <1>9 DEF ScanInv

(* An action that is let in is not in the list yet.                        *)
LEMMA AcceptedIsNew ==
    ASSUME ScanInv, NEW a, a.key \in Names, ~Fails(a), ~Found(a)
    PROVE  ~Stored(<<"offline_actions", a.key>>)
<1>1. ~Stored(Keyless) /\ (a.key = NoKey => ahead = {})
  BY DEF Fails
<1>2. CASE a.key = NoKey
  BY <1>1, <1>2 DEF Keyless
<1>3. CASE a.key # NoKey
  BY <1>1, <1>3 DEF Found, ScanInv, ScanTrue, Names
<1> QED
  BY <1>2, <1>3

-----------------------------------------------------------------------------
(* A thread that finds no row and is to append it: if another thread is    *)
(* too, the row collides.                                                  *)
LEMMA FoundNoneClean ==
    ASSUME Typed, CleanRows, NEW t \in Threads, NEW s \in Rows,
           NEW step \in {"accept", "draft"},
           ~Stored(s),
           rows' = rows,
           pc' = [pc EXCEPT ![t] = step],
           target' = [target EXCEPT ![t] = s],
           collided' = Collisions(s)
    PROVE  CleanRows'
<1> SUFFICES ASSUME NEW r \in Rows \ collided' PROVE OneWriter(r)'
  BY DEF CleanRows
<1> USE DEF Typed, TypeOK
<1>1. r \notin collided /\ OneWriter(r)
  BY DEF Collisions, CleanRows
<1>2. \A u \in Threads : u # t => (Appending(u, r)' <=> Appending(u, r))
  BY DEF Appending
<1>3. Appending(t, r)' => r = s /\ rows[r] = 0
  BY DEF Appending, Stored
<1>4. r = s => \A u \in Threads : ~Appending(u, r)
  BY DEF Collisions, Appending
<1> QED
  BY <1>1, <1>2, <1>3, <1>4 DEF OneWriter

(* A thread that appends its row, and is then at another step: it was the  *)
(* only one about to append it.                                            *)
LEMMA AppendClean ==
    ASSUME Typed, CleanRows, NEW t \in Threads,
           pc[t] \in {"accept", "draft"},
           rows' = [rows EXCEPT ![target[t]] = @ + 1],
           \A u \in Threads : u # t => pc'[u] = pc[u] /\ target'[u] = target[u],
           pc'[t] \in {"idle", "answer"},
           collided' = collided
    PROVE  CleanRows'
<1> SUFFICES ASSUME NEW r \in Rows \ collided' PROVE OneWriter(r)'
  BY DEF CleanRows
<1> USE DEF Typed, TypeOK
<1>1. OneWriter(r)
  BY DEF CleanRows
<1>2. /\ \A u \in Threads : u # t => (Appending(u, r)' <=> Appending(u, r))
      /\ ~Appending(t, r)'
  BY DEF Appending
<1>3. CASE target[t] = r
  BY <1>1, <1>2, <1>3 DEF OneWriter, Appending
<1>4. CASE target[t] # r
  <2>1. rows'[r] = rows[r]
    BY <1>4
  <2> QED
    BY <1>1, <1>2, <2>1 DEF OneWriter
<1> QED
  BY <1>3, <1>4

(* A step after which no more threads are about to append than before, and *)
(* that appends nothing.                                                   *)
LEMMA OtherClean ==
    ASSUME CleanRows, rows' = rows, collided' = collided,
           \A u \in Threads : pc'[u] \in {"accept", "draft"}
                => pc[u] \in {"accept", "draft"} /\ target'[u] = target[u]
    PROVE  CleanRows'
BY DEF CleanRows, OneWriter, Appending

(* OnceInv is inductive.                                                   *)
LEMMA OnceStep == OnceInv /\ [Next]_vars => OnceInv'
<1> SUFFICES ASSUME OnceInv, [Next]_vars PROVE OnceInv'
  OBVIOUS
<1>0. ScanInv' /\ ScanInv /\ Typed /\ CleanRows
  BY ScanStep DEF OnceInv, ScanInv
<1> USE DEF Typed, TypeOK
<1>1. ASSUME NEW t \in Threads, NEW b \in Batches, BeginPush(t, b) PROVE CleanRows'
  BY <1>0, <1>1, OtherClean DEF BeginPush
<1>2. ASSUME NEW t \in Threads, Settle(t) PROVE CleanRows'
  <2> DEFINE a == Head(batch[t])
             r == <<"offline_actions", a.key>>
  <2>1. CASE Verdict(a) = "accepted"
    <3>1. r \in Rows
      BY <1>0, <1>2, HeadIsAction DEF Settle
    <3>2. ~Stored(r)
      <4>1. a.key \in Names /\ ~Fails(a)
        BY <1>0, <1>2, HeadIsAction DEF Settle
      <4>2. ~Found(a)
        BY <2>1 DEF Verdict
      <4> QED
        BY <1>0, <4>1, <4>2, AcceptedIsNew
    <3>3. /\ rows' = rows
          /\ pc' = [pc EXCEPT ![t] = "accept"]
          /\ target' = [target EXCEPT ![t] = r]
          /\ collided' = Collisions(r)
      BY <1>2, <2>1 DEF Settle
    <3> QED
      BY <1>0, <3>1, <3>2, <3>3, FoundNoneClean
  <2>2. CASE Verdict(a) # "accepted"
    BY <1>0, <1>2, <2>2, OtherClean DEF Settle
  <2> QED
    BY <2>1, <2>2
<1>3. ASSUME NEW t \in Threads, Accept(t) PROVE CleanRows'
  BY <1>0, <1>3, AppendClean DEF Accept
<1>4. ASSUME NEW t \in Threads, Answer(t) PROVE CleanRows'
  BY <1>0, <1>4, OtherClean DEF Answer
<1>5. ASSUME NEW t \in Threads, EndPush(t) PROVE CleanRows'
  BY <1>0, <1>5, OtherClean DEF EndPush
<1>6. ASSUME NEW t \in Threads, NEW r \in Rows, BeginDraft(t, r) PROVE CleanRows'
  BY <1>0, <1>6, FoundNoneClean DEF BeginDraft
<1>7. ASSUME NEW t \in Threads, StoreDraft(t) PROVE CleanRows'
  BY <1>0, <1>7, AppendClean DEF StoreDraft
<1>8. ASSUME SubmitCount PROVE CleanRows'
  BY <1>0, <1>8, OtherClean DEF SubmitCount
<1>9. ASSUME Restart PROVE CleanRows'
  BY <1>9, RestartHolds
<1>10. ASSUME UNCHANGED vars PROVE CleanRows'
  BY <1>0, <1>10, OtherClean DEF vars
<1>11. CleanRows'
  BY <1>1, <1>2, <1>3, <1>4, <1>5, <1>6, <1>7, <1>8, <1>9, <1>10 DEF Next, Serve
<1> QED
  BY <1>0, <1>11 DEF OnceInv

(* A thread that appends the row it has chosen takes a step of ApplyOnce.  *)
LEMMA AppendRefines ==
    ASSUME OnceInv, NEW t \in Threads,
           pc[t] \in {"accept", "draft"},
           rows' = [rows EXCEPT ![target[t]] = @ + 1],
           collided' = collided
    PROVE  target[t] \in Rows /\ Writes!Apply(target[t])
<1>1. target[t] \in Rows
  BY DEF OnceInv, ScanInv, Typed, TypeOK
<1>2. rows[target[t]] = 0 \/ target[t] \in collided
  BY <1>1 DEF OnceInv, CleanRows, OneWriter, Appending
<1> QED
  BY <1>1, <1>2 DEF Writes!Apply

(* Every step is a step of ApplyOnce or none.                              *)
LEMMA StepRefines == OnceInv /\ [Next]_vars => [Writes!Next]_(Writes!vars)
<1> SUFFICES ASSUME OnceInv, [Next]_vars PROVE [Writes!Next]_(Writes!vars)
  OBVIOUS
<1> USE DEF Writes!Next, Writes!vars
<1>1. ASSUME NEW t \in Threads, NEW b \in Batches, BeginPush(t, b)
      PROVE  UNCHANGED <<rows, collided>>
  BY <1>1 DEF BeginPush
<1>2. ASSUME NEW t \in Threads, Settle(t)
      PROVE  UNCHANGED <<rows, collided>> \/ \E r \in Rows : Writes!Collide(r)
  <2> DEFINE r == <<"offline_actions", Head(batch[t]).key>>
  <2>1. r \in Rows
    BY <1>2, HeadIsAction DEF Settle, OnceInv, ScanInv, Typed, TypeOK
  <2>2. rows' = rows /\ collided' \in {collided, collided \cup {r}}
    BY <1>2 DEF Settle, Collisions
  <2> QED
    BY <2>1, <2>2 DEF Writes!Collide
<1>3. ASSUME NEW t \in Threads, Accept(t) PROVE \E r \in Rows : Writes!Apply(r)
  BY <1>3, AppendRefines DEF Accept
<1>4. ASSUME NEW t \in Threads, Answer(t) PROVE UNCHANGED <<rows, collided>>
  BY <1>4 DEF Answer
<1>5. ASSUME NEW t \in Threads, EndPush(t) PROVE UNCHANGED <<rows, collided>>
  BY <1>5 DEF EndPush
<1>6. ASSUME NEW t \in Threads, NEW r \in Rows, BeginDraft(t, r)
      PROVE  UNCHANGED <<rows, collided>> \/ Writes!Collide(r)
  BY <1>6 DEF BeginDraft, Collisions, Writes!Collide
<1>7. ASSUME NEW t \in Threads, StoreDraft(t) PROVE \E r \in Rows : Writes!Apply(r)
  BY <1>7, AppendRefines DEF StoreDraft
<1>8. ASSUME SubmitCount PROVE UNCHANGED <<rows, collided>>
  BY <1>8 DEF SubmitCount
<1>9. CASE Restart
  BY <1>9 DEF Restart, Writes!Forget
<1>10. CASE UNCHANGED vars
  BY <1>10 DEF vars
<1> QED
  BY <1>1, <1>2, <1>3, <1>4, <1>5, <1>6, <1>7, <1>8, <1>9, <1>10 DEF Next, Serve

(* A repeated batch or draft leaves one row of it: sync_push and           *)
(* create_idempotent, which look the key up and append in two steps,       *)
(* implement ApplyOnce.                                                    *)
THEOREM WritesApplyOnce == Spec => ImplementsApplyOnce
<1>1. Init => OnceInv /\ Writes!Init
  BY InitHolds DEF OnceInv, Init, Writes!Init
<1> QED
  BY <1>1, OnceStep, StepRefines, PTL DEF Spec, ImplementsApplyOnce, Writes!Spec

-----------------------------------------------------------------------------
(* A step that takes no row away, answers nothing and leaves the thread at *)
(* no answer it had not: what was answered stays true.                     *)
LEMMA RowsStay ==
    ASSUME Settled, AnswersAreTrue, answers' = answers,
           \A r \in Rows : Stored(r) => Stored(r)',
           \A u \in Threads : pc'[u] = "answer"
                => /\ pc[u] = "answer" /\ verdict'[u] = verdict[u]
                   /\ AtHead(u)' = AtHead(u) /\ AtHead(u) \in Rows
    PROVE  Settled' /\ AnswersAreTrue'
<1>1. Settled'
  <2> SUFFICES ASSUME NEW u \in Threads, pc'[u] = "answer",
                      verdict'[u] \in {"accepted", "duplicate"}
               PROVE  Stored(AtHead(u))'
    BY DEF Settled
  <2>1. Stored(AtHead(u)) /\ AtHead(u) \in Rows /\ AtHead(u)' = AtHead(u)
    BY DEF Settled
  <2> QED
    BY <2>1 DEF Stored
<1>2. AnswersAreTrue'
  <2>1. \A k \in Names : <<"offline_actions", k>> \in Rows
    BY OfflineRows
  <2> QED
    BY <2>1 DEF AnswersAreTrue
<1> QED
  BY <1>1, <1>2

(* AnswerInv is inductive: an action is "accepted" once its thread has     *)
(* appended it, and a "duplicate" of one that is in the list.              *)
LEMMA AnswerStep == AnswerInv /\ [Next]_vars => AnswerInv'
<1> SUFFICES ASSUME AnswerInv, [Next]_vars PROVE AnswerInv'
  OBVIOUS
<1> DEFINE Goal == Settled' /\ AnswersAreTrue'
<1>0. ScanInv' /\ Typed /\ ScanTrue /\ Settled /\ AnswersAreTrue
  BY ScanStep DEF AnswerInv, ScanInv
<1>a. \A u \in Threads : pc[u] \in {"accept", "answer"}
         => AtHead(u) \in Rows /\ Head(batch[u]).key \in Names
  BY <1>0, HeadIsAction DEF Typed, TypeOK, InBatch, AtHead
<1>b. \A r \in Rows : rows[r] \in Nat
  BY <1>0 DEF Typed, TypeOK
<1>1. ASSUME NEW t \in Threads, NEW b \in Batches, BeginPush(t, b) PROVE Goal
  BY <1>0, <1>1, <1>a, RowsStay DEF BeginPush, Typed, TypeOK, AtHead, Stored
<1>2. ASSUME NEW t \in Threads, Settle(t) PROVE Goal
  <2>1. Settled'
    <3> SUFFICES ASSUME NEW u \in Threads, pc'[u] = "answer",
                        verdict'[u] \in {"accepted", "duplicate"}
                 PROVE  Stored(AtHead(u))'
      BY DEF Settled
    <3>1. rows' = rows /\ batch' = batch
      BY <1>2 DEF Settle
    <3>2. CASE u = t
      <4>1. verdict'[t] = Verdict(Head(batch[t])) /\ verdict'[t] # "accepted"
        BY <1>0, <1>2, <3>2 DEF Settle, Typed, TypeOK
      <4>2. Found(Head(batch[t]))
        BY <3>2, <4>1 DEF Verdict
      <4>3. Stored(AtHead(t))
        BY <1>0, <4>2 DEF Found, ScanTrue, AtHead
      <4> QED
        BY <3>1, <3>2, <4>3 DEF Stored, AtHead
    <3>3. CASE u # t
      <4>1. pc[u] = "answer" /\ verdict[u] = verdict'[u]
        BY <1>0, <1>2, <3>3 DEF Settle, Typed, TypeOK
      <4> QED
        BY <1>0, <3>1, <4>1 DEF Settled, Stored, AtHead
    <3> QED
      BY <3>2, <3>3
  <2>2. AnswersAreTrue'
    BY <1>0, <1>2 DEF Settle, AnswersAreTrue, Stored
  <2> QED
    BY <2>1, <2>2
<1>3. ASSUME NEW t \in Threads, Accept(t) PROVE Goal
  <2>1. /\ target[t] = AtHead(t) /\ AtHead(t) \in Rows
        /\ rows' = [rows EXCEPT ![target[t]] = @ + 1]
        /\ batch' = batch /\ verdict' = verdict /\ answers' = answers
    BY <1>0, <1>3, <1>a DEF Accept, Typed, InBatch
  <2>2. /\ Stored(AtHead(t))'
        /\ \A r \in Rows : Stored(r) => Stored(r)'
    <3> DEFINE s == AtHead(t)
    <3>1. AtHead(t)' = s
      BY <2>1 DEF AtHead
    <3>2. rows \in [Rows -> Nat] /\ s \in Rows /\ rows' = [rows EXCEPT ![s] = @ + 1]
      BY <1>0, <2>1 DEF Typed, TypeOK
    <3> HIDE DEF s
    <3>3. rows'[s] > 0 /\ \A r \in Rows : rows[r] > 0 => rows'[r] > 0
      BY <3>2
    <3> QED
      BY <3>1, <3>3 DEF Stored
  <2>3. Settled'
    <3> SUFFICES ASSUME NEW u \in Threads, pc'[u] = "answer",
                        verdict'[u] \in {"accepted", "duplicate"}
                 PROVE  Stored(AtHead(u))'
      BY DEF Settled
    <3>1. CASE u # t
      <4>1. pc[u] = "answer"
        BY <1>0, <1>3, <3>1 DEF Accept, Typed, TypeOK
      <4>2. Stored(AtHead(u)) /\ AtHead(u) \in Rows
        BY <1>0, <1>a, <2>1, <4>1 DEF Settled
      <4> QED
        BY <2>1, <2>2, <4>2 DEF AtHead, Stored
    <3> QED
      BY <2>2, <3>1
  <2>4. AnswersAreTrue'
    <3>1. \A k \in Names : <<"offline_actions", k>> \in Rows
      BY OfflineRows
    <3> QED
      BY <1>0, <2>1, <2>2, <3>1 DEF AnswersAreTrue
  <2> QED
    BY <2>3, <2>4
<1>4. ASSUME NEW t \in Threads, Answer(t) PROVE Goal
  <2>1. Settled'
    <3> SUFFICES ASSUME NEW u \in Threads, pc'[u] = "answer",
                        verdict'[u] \in {"accepted", "duplicate"}
                 PROVE  Stored(AtHead(u))'
      BY DEF Settled
    <3>1. u # t /\ pc[u] = "answer"
      BY <1>0, <1>4 DEF Answer, Typed, TypeOK
    <3>2. verdict'[u] = verdict[u] /\ batch'[u] = batch[u] /\ rows' = rows
      BY <1>0, <1>4, <3>1 DEF Answer, Typed, TypeOK
    <3> QED
      BY <1>0, <3>1, <3>2 DEF Settled, Stored, AtHead
  <2>2. AnswersAreTrue'
    <3> SUFFICES ASSUME NEW k \in Names,
                        answers'[k] \cap {"accepted", "duplicate"} # {}
                 PROVE  Stored(<<"offline_actions", k>>)'
      BY DEF AnswersAreTrue
    <3>1. answers[k] \cap {"accepted", "duplicate"} # {}
             \/ (k = Head(batch[t]).key /\ verdict[t] \in {"accepted", "duplicate"})
      BY <1>0, <1>4 DEF Answer, Typed, TypeOK
    <3>2. Stored(<<"offline_actions", k>>)
      BY <1>0, <1>4, <3>1 DEF Answer, Settled, AnswersAreTrue, AtHead
    <3> QED
      BY <1>4, <3>2 DEF Answer, Stored
  <2> QED
    BY <2>1, <2>2
<1>5. ASSUME NEW t \in Threads, EndPush(t) PROVE Goal
  BY <1>0, <1>5, <1>a, RowsStay DEF EndPush, Typed, TypeOK, AtHead, Stored
<1>6. ASSUME NEW t \in Threads, NEW r \in Rows, BeginDraft(t, r) PROVE Goal
  BY <1>0, <1>6, <1>a, RowsStay DEF BeginDraft, Typed, TypeOK, AtHead, Stored
<1>7. ASSUME NEW t \in Threads, StoreDraft(t) PROVE Goal
  <2>1. \A r \in Rows : Stored(r) => Stored(r)'
    BY <1>0, <1>7, <1>b DEF StoreDraft, Typed, TypeOK, Stored
  <2> QED
    BY <1>0, <1>7, <1>a, <2>1, RowsStay DEF StoreDraft, Typed, TypeOK, AtHead
<1>8. ASSUME SubmitCount PROVE Goal
  BY <1>0, <1>8, <1>a, RowsStay DEF SubmitCount, AtHead, Stored
<1>9. ASSUME Restart PROVE Goal
  BY <1>9, RestartHolds
<1>10. ASSUME UNCHANGED vars PROVE Goal
  BY <1>0, <1>10, <1>a, RowsStay DEF vars, AtHead, Stored
<1>11. Goal
  BY <1>1, <1>2, <1>3, <1>4, <1>5, <1>6, <1>7, <1>8, <1>9, <1>10 DEF Next, Serve
<1> QED
  BY <1>0, <1>11 DEF AnswerInv

(* A device may drop an action it was answered "accepted" or "duplicate"   *)
(* for: until the server restarts, the list of offline actions holds it,   *)
(* however the pushes and drafts of all devices overlap.                   *)
THEOREM DevicesMayTrustAnswers == Spec => []AnswersAreTrue
<1>1. Init => AnswerInv
  BY InitHolds DEF AnswerInv
<1>2. AnswerInv => AnswersAreTrue
  BY DEF AnswerInv
<1> QED
  BY <1>1, <1>2, AnswerStep, PTL DEF Spec

(* Rows, answers and locals are well typed in every state.                 *)
THEOREM WritesTypeCorrect == Spec => []TypeOK
<1>1. Init => Typed
  BY InitHolds DEF ScanInv
<1>2. Typed => TypeOK
  BY DEF Typed
<1> QED
  BY <1>1, <1>2, TypeStep, PTL DEF Spec

-----------------------------------------------------------------------------
(* The desk takes the threads of the writes for its own calls and leaves   *)
(* their state alone, so what is proved of the writes holds beside it.     *)
THEOREM DeskKeepsWrites == DeskSpec => Spec
<1>1. DeskInit => Init
  BY DEF DeskInit
<1>2. [DeskNext]_<<vars, deskVars>> => [Next]_vars
  BY DEF DeskNext, DeskRestart, Next, vars, deskVars
<1> QED
  BY <1>1, <1>2, PTL DEF DeskSpec, Spec

(* Unless its last decisions overlapped, the approval shows the decision   *)
(* of the one call that has not written its comment yet.                   *)
OneDecider ==
    ~approval.mixed =>
        /\ \A t, u \in Threads : In(t, "comment") /\ In(u, "comment") => t = u
        /\ \A t \in Threads : In(t, "comment") => desk[t].decision = approval.status

DeskTyped ==
    /\ approval \in [status : Decisions \cup {"Pending"},
                     comment : Decisions \cup {"none"}, mixed : BOOLEAN]
    /\ desk \in [Threads -> DeskCalls \cup {NoCall}]

DeskInv == DeskTyped /\ OneDecider /\ CommentIsOfDecision

(* A step that leaves the approval alone, and moves no thread into or out  *)
(* of writing a comment, leaves the invariant.                             *)
LEMMA ApprovalUntouched ==
    ASSUME DeskInv, approval' = approval,
           desk' \in [Threads -> DeskCalls \cup {NoCall}],
           \A t \in Threads : In(t, "comment")' <=> In(t, "comment"),
           \A t \in Threads : In(t, "comment") => desk'[t] = desk[t]
    PROVE  DeskInv'
BY DEF DeskInv, DeskTyped, OneDecider, CommentIsOfDecision, In

\* Every step of the desk preserves the invariant.
LEMMA CommentStep == DeskInv /\ [DeskNext]_<<vars, deskVars>> => DeskInv'
<1> SUFFICES ASSUME DeskInv, [DeskNext]_<<vars, deskVars>> PROVE DeskInv'
  OBVIOUS
<1>0. NoCall \notin DeskCalls
  BY DeskAssumption
<1>1. ASSUME NEW t \in Threads, Decide(t) PROVE DeskInv'
  <2>1. PICK decision \in Decisions, commented \in BOOLEAN :
           /\ desk[t] = NoCall
           /\ desk' = [desk EXCEPT ![t] = [at |-> "comment", decision |-> decision,
                                           commented |-> commented]]
           /\ approval' = [approval EXCEPT
                 !.status = decision, !.mixed = \E u \in Threads : In(u, "comment")]
    BY <1>1 DEF Decide, Take
  <2>2. DeskTyped'
    BY <2>1 DEF DeskInv, DeskTyped, DeskCalls
  <2>3. /\ \A u \in Threads \ {t} : In(u, "comment")' <=> In(u, "comment")
        /\ In(t, "comment")' /\ desk'[t].decision = approval'.status
        /\ approval'.mixed <=> \E u \in Threads : In(u, "comment")
    BY <1>0, <2>1 DEF DeskInv, DeskTyped, DeskCalls, In
  <2>4. OneDecider'
    BY <2>3 DEF OneDecider
  <2>5. CommentIsOfDecision'
    BY <2>3 DEF CommentIsOfDecision
  <2> QED
    BY <2>2, <2>4, <2>5 DEF DeskInv
<1>2. ASSUME NEW t \in Threads, WriteComment(t) PROVE DeskInv'
  <2>1. /\ In(t, "comment") /\ desk[t] \in DeskCalls
        /\ approval' = [approval EXCEPT !.comment = CommentOf(desk[t])]
        /\ desk' = [desk EXCEPT ![t].at = "entry"]
    BY <1>2 DEF WriteComment, In, DeskInv, DeskTyped
  <2>2. CommentOf(desk[t]) \in {"none", desk[t].decision}
    BY DEF CommentOf
  <2>3. DeskTyped'
    BY <2>1, <2>2 DEF DeskInv, DeskTyped, DeskCalls
  <2>4. \A u \in Threads : In(u, "comment")' => In(u, "comment") /\ desk'[u] = desk[u]
    BY <1>0, <2>1 DEF DeskInv, DeskTyped, DeskCalls, In
  <2>5. OneDecider'
    BY <2>1, <2>4 DEF DeskInv, DeskTyped, OneDecider
  <2>6. CommentIsOfDecision'
    BY <2>1, <2>2 DEF DeskInv, DeskTyped, OneDecider, CommentIsOfDecision
  <2> QED
    BY <2>3, <2>5, <2>6 DEF DeskInv
<1>3. ASSUME NEW t \in Threads, AddEntry(t) PROVE DeskInv'
  BY <1>0, <1>3, ApprovalUntouched DEF AddEntry, In, DeskInv, DeskTyped
<1>4. ASSUME NEW t \in Threads, Take(t, NoCall), approval' = approval PROVE DeskInv'
  BY <1>4, ApprovalUntouched DEF Take, In, DeskInv, DeskTyped
<1>5. ASSUME NEW t \in Threads, Desk(t), ~Decide(t), ~WriteComment(t), ~AddEntry(t)
      PROVE  Take(t, NoCall) /\ approval' = approval
  BY <1>5 DEF Desk, TaskAction, ResolveScan, WorkOrderPhotos, Upload, DraftAction,
     SubmitReceipt, SubmitTransfer, CompleteCount, StartProduction, CompleteProduction,
     StartWorkOrder, CompleteWorkOrder, CompleteQualityInspection, File, Overwrite
<1>6. CASE DeskRestart
  BY <1>0, <1>6 DEF DeskRestart, Pending, DeskInv, DeskTyped, OneDecider,
     CommentIsOfDecision, In
<1>7. CASE UNCHANGED deskVars
  BY <1>7, ApprovalUntouched DEF deskVars, In, DeskInv, DeskTyped
<1> QED
  BY <1>1, <1>2, <1>3, <1>4, <1>5, <1>6, <1>7 DEF DeskNext, deskVars

(* Whatever else overlaps, a decision that overlapped with no other leaves *)
(* its own comment, or none, on the approval.                              *)
THEOREM CommentsFollowDecisions == DeskSpec => []CommentIsOfDecision
<1>1. DeskInit => DeskInv
  BY DEF DeskInit, Pending, DeskInv, DeskTyped, OneDecider, CommentIsOfDecision, In
<1>2. DeskInv => CommentIsOfDecision
  BY DEF DeskInv
<1> QED
  BY <1>1, <1>2, CommentStep, PTL DEF DeskSpec
-----------------------------------------------------------------------------
(***************************************************************************)
(* Devices and their sessions, which share the process with the writes and *)
(* none of their lists.                                                    *)
(*                                                                         *)
(* DisabledIsSignedOut says nothing while a loop that logs sessions out is *)
(* running, so it is not inductive.  BeingSignedOut says what holds then:  *)
(* one of the loops has passed no session that is still active.            *)
(***************************************************************************)
LoggingOut(t, d) == devicePc[t] = "logout" /\ at[t] = d

\* The loop of t is still to reach every active session of d.
Reaches(t, d) == LoggingOut(t, d) /\ passed[t] \cap ActiveSessions(d) = {}

BeingSignedOut ==
    \A d \in Devices :
        CleanlyDisabled(d)
            => /\ ~Signing(d)
               /\ ActiveSessions(d) # {} => \E t \in Threads : Reaches(t, d)

\* A loop starts at the first session.
NothingPassed == \A t \in Threads : devicePc[t] # "logout" => passed[t] = {}

DevicesTyped == DevicesTypeOK /\ NothingPassed
SignedOutInv == DevicesTyped /\ BeingSignedOut

(* The device an idle thread names is one.                                 *)
LEMMA ChosenDevice ==
    AnyDevice \in Devices
BY DevicesAssumption DEF AnyDevice

(* On a server that has just started no device is disabled.                *)
LEMMA DevicesAtStart ==
    DevicesInit => SignedOutInv
BY ChosenDevice, DevicesAssumption
   DEF DevicesInit, SignedOutInv, DevicesTyped, DevicesTypeOK, NothingPassed, BeingSignedOut, CleanlyDisabled, AtStart

(* Neither is one after a restart.                                         *)
LEMMA DevicesAfterRestart ==
    DevicesRestart => SignedOutInv'
BY ChosenDevice, DevicesAssumption
   DEF DevicesRestart, SignedOutInv, DevicesTyped, DevicesTypeOK, NothingPassed, BeingSignedOut, CleanlyDisabled, AtStart

(* Rows of a device are counted up, and down from one or more.             *)
LEMMA CountStep ==
    ASSUME NEW c \in [Devices -> Nat], NEW d \in Devices
    PROVE  /\ [c EXCEPT ![d] = @ + 1] \in [Devices -> Nat]
           /\ c[d] > 0 => [c EXCEPT ![d] = @ - 1] \in [Devices -> Nat]
<1> DEFINE n == c[d]
<1>1. n \in Nat
  OBVIOUS
<1> HIDE DEF n
<1>2. n + 1 \in Nat /\ (n > 0 => n - 1 \in Nat)
  BY <1>1
<1> QED
  BY <1>2 DEF n

(* A thread that enters a handler: the others stay where they are.         *)
LEMMA Entering ==
    ASSUME DevicesTyped, NEW t \in Threads, NEW d \in Devices,
           NEW step \in {"login", "register", "logout"},
           devicePc[t] = "idle", devicePc' = [devicePc EXCEPT ![t] = step],
           at' = [at EXCEPT ![t] = d], passed' = passed
    PROVE  /\ devicePc' \in [Threads -> {"idle", "login", "register", "logout"}]
           /\ at' \in [Threads -> Devices]
           /\ NothingPassed'
           /\ devicePc'[t] = step /\ at'[t] = d /\ passed'[t] = {}
           /\ \A u \in Threads : u # t => devicePc'[u] = devicePc[u] /\ at'[u] = at[u]
BY DEF DevicesTyped, DevicesTypeOK, NothingPassed

(* A thread that returns: the others stay where they are.                  *)
LEMMA Returning ==
    ASSUME DevicesTyped, NEW t \in Threads, Return(t)
    PROVE  /\ devicePc' \in [Threads -> {"idle", "login", "register", "logout"}]
           /\ at' \in [Threads -> Devices]
           /\ passed' \in [Threads -> SUBSET Sessions]
           /\ NothingPassed'
           /\ devicePc'[t] = "idle"
           /\ \A u \in Threads : u # t =>
                 devicePc'[u] = devicePc[u] /\ at'[u] = at[u] /\ passed'[u] = passed[u]
BY ChosenDevice DEF Return, DevicesTyped, DevicesTypeOK, NothingPassed

(* Every step keeps rows and locals well typed, and an idle thread has     *)
(* passed no session.                                                      *)
LEMMA DevicesTypeStep ==
    DevicesTyped /\ [DevicesNext]_deviceVars => DevicesTyped'
<1> SUFFICES ASSUME DevicesTyped, [DevicesNext]_deviceVars PROVE DevicesTyped'
  OBVIOUS
<1> USE DEF DevicesTyped, DevicesTypeOK
<1>1. ASSUME NEW t \in Threads, NEW d \in Devices, BeginLogin(t, d) PROVE DevicesTyped'
  BY <1>1, Entering DEF BeginLogin, Enter
<1>2. ASSUME NEW t \in Threads, NEW d \in Devices, BeginRegister(t, d) PROVE DevicesTyped'
  BY <1>2, Entering DEF BeginRegister, Enter
<1>3. ASSUME NEW t \in Threads, NEW d \in Devices, BeginLogout(t, d) PROVE DevicesTyped'
  BY <1>3, Entering DEF BeginLogout, Enter
<1>4. ASSUME NEW t \in Threads, NEW d \in Devices, BeginDisable(t, d) PROVE DevicesTyped'
  <2>0. copies \in [Devices -> Nat]
    OBVIOUS
  <2>1. copies' \in [Devices -> Nat]
    <3>1. copies' = copies \/ (copies[d] > 0 /\ copies' = [copies EXCEPT ![d] = @ - 1])
      BY <1>4 DEF BeginDisable
    <3> HIDE DEF DevicesTyped, DevicesTypeOK
    <3> QED
      BY <2>0, <3>1, CountStep
  <2>2. device' \in [Devices -> {"absent", "Active", "Disabled"}] /\ raced' \subseteq Devices
    BY <1>4 DEF BeginDisable
  <2>3. owner' = owner /\ session' = session /\ passed' = passed
    BY <1>4 DEF BeginDisable
  <2> QED
    BY <1>4, <2>1, <2>2, <2>3, Entering DEF BeginDisable, Enter
<1>5. ASSUME NEW t \in Threads, EndLogin(t) PROVE DevicesTyped'
  <2>1. PICK s \in Sessions :
           /\ session' = [session EXCEPT ![s] = "Active"]
           /\ owner' = [owner EXCEPT ![s] = at[t]]
    BY <1>5 DEF EndLogin
  <2>2. /\ session' \in [Sessions -> {"absent", "Active", "Logged Out"}]
        /\ owner' \in [Sessions -> Devices]
    BY <2>1
  <2> QED
    BY <1>5, <2>2, Returning DEF EndLogin
<1>6. ASSUME NEW t \in Threads, EndRegister(t) PROVE DevicesTyped'
  <2>1. /\ device' \in [Devices -> {"absent", "Active", "Disabled"}]
        /\ copies' \in [Devices -> Nat]
    <3>1. at[t] \in Devices /\ copies \in [Devices -> Nat]
      OBVIOUS
    <3>2. \/ device' = [device EXCEPT ![at[t]] = "Active"] /\ copies' = copies
          \/ copies' = [copies EXCEPT ![at[t]] = @ + 1] /\ device' = device
      BY <1>6 DEF EndRegister
    <3>3. copies' \in [Devices -> Nat]
      <4> HIDE DEF DevicesTyped, DevicesTypeOK
      <4> QED
        BY <3>1, <3>2, CountStep
    <3>4. device' \in [Devices -> {"absent", "Active", "Disabled"}]
      BY <3>1, <3>2
    <3> QED
      BY <3>3, <3>4
  <2> QED
    BY <1>6, <2>1, Returning DEF EndRegister
<1>7. ASSUME NEW t \in Threads, LogoutSession(t) PROVE DevicesTyped'
  <2>1. PICK s \in Sessions :
           /\ session' = [session EXCEPT ![s] = "Logged Out"]
           /\ passed' = [passed EXCEPT ![t] = @ \cup {s}]
    BY <1>7 DEF LogoutSession, Unpassed, SessionsOf
  <2>2. devicePc[t] = "logout" /\ UNCHANGED <<device, copies, owner, devicePc, at, raced>>
    BY <1>7 DEF LogoutSession
  <2>3. DevicesTypeOK'
    BY <2>1, <2>2
  <2>4. NothingPassed'
    BY <2>1, <2>2 DEF NothingPassed
  <2> QED
    BY <2>3, <2>4
<1>8. ASSUME NEW t \in Threads, EndLogout(t) PROVE DevicesTyped'
  BY <1>8, Returning DEF EndLogout
<1>9. ASSUME NEW d \in Devices, UpdateDevice(d) PROVE DevicesTyped'
  BY <1>9 DEF UpdateDevice, NothingPassed
<1>10. ASSUME DevicesRestart PROVE DevicesTyped'
  BY <1>10, DevicesAfterRestart DEF SignedOutInv
<1>11. ASSUME UNCHANGED deviceVars PROVE DevicesTyped'
  BY <1>11 DEF deviceVars, NothingPassed
<1> QED
  BY <1>1, <1>2, <1>3, <1>4, <1>5, <1>6, <1>7, <1>8, <1>9, <1>10, <1>11
     DEF DevicesNext, DeviceStep

(* SignedOutInv is inductive: no login begins on a disabled device, each   *)
(* disable starts a loop, and a loop ends when nothing is left to pass.    *)
LEMMA SignedOutStep ==
    SignedOutInv /\ [DevicesNext]_deviceVars => SignedOutInv'
<1> SUFFICES ASSUME SignedOutInv, [DevicesNext]_deviceVars PROVE SignedOutInv'
  OBVIOUS
<1>0. DevicesTyped' /\ DevicesTyped /\ BeingSignedOut
  BY DevicesTypeStep DEF SignedOutInv
<1>r. ASSUME DevicesRestart PROVE SignedOutInv'
  BY <1>r, DevicesAfterRestart
<1>s. CASE ~DevicesRestart
  <2> SUFFICES ASSUME NEW d \in Devices, CleanlyDisabled(d)'
               PROVE  /\ ~Signing(d)'
                      /\ ActiveSessions(d)' # {} => \E t \in Threads : Reaches(t, d)'
    BY <1>0 DEF SignedOutInv, BeingSignedOut
  <2> DEFINE Goal == /\ ~Signing(d)'
                     /\ ActiveSessions(d)' # {} => \E t \in Threads : Reaches(t, d)'
  <2>t. /\ device \in [Devices -> {"absent", "Active", "Disabled"}]
        /\ copies \in [Devices -> Nat]
        /\ session \in [Sessions -> {"absent", "Active", "Logged Out"}]
        /\ owner \in [Sessions -> Devices]
        /\ passed \in [Threads -> SUBSET Sessions]
        /\ at \in [Threads -> Devices]
    BY <1>0 DEF DevicesTyped, DevicesTypeOK
  <2>a. CleanlyDisabled(d) =>
           /\ ~Signing(d)
           /\ ActiveSessions(d) # {} => \E t \in Threads : Reaches(t, d)
    BY <1>0 DEF BeingSignedOut
  <2>e. ASSUME NEW t \in Threads,
               devicePc[t] # "logout", devicePc'[t] = "login" => at'[t] # d,
               \A u \in Threads : u # t =>
                  devicePc'[u] = devicePc[u] /\ at'[u] = at[u] /\ passed'[u] = passed[u],
               CleanlyDisabled(d), ActiveSessions(d)' = ActiveSessions(d)
        PROVE  Goal
    BY <2>a, <2>e DEF Signing, Reaches, LoggingOut
  <2>1. ASSUME NEW t \in Threads, NEW e \in Devices, BeginLogin(t, e) PROVE Goal
    <3>1. CleanlyDisabled(d) /\ e # d
      <4>1. CleanlyDisabled(d)
        BY <2>1 DEF BeginLogin, CleanlyDisabled
      <4>2. ~MayLogin(d)
        BY <4>1 DEF CleanlyDisabled, MayLogin
      <4> QED
        BY <2>1, <4>1, <4>2 DEF BeginLogin
    <3>2. /\ devicePc'[t] = "login" /\ at'[t] = e /\ devicePc[t] = "idle" /\ passed' = passed
          /\ \A u \in Threads : u # t => devicePc'[u] = devicePc[u] /\ at'[u] = at[u]
      BY <1>0, <2>1, Entering DEF BeginLogin, Enter
    <3>3. ActiveSessions(d)' = ActiveSessions(d)
      BY <2>1 DEF BeginLogin, ActiveSessions
    <3> QED
      BY <2>e, <3>1, <3>2, <3>3
  <2>2. ASSUME NEW t \in Threads, NEW e \in Devices, BeginRegister(t, e) PROVE Goal
    BY <1>0, <2>2, <2>e, Entering
       DEF BeginRegister, Enter, CleanlyDisabled,
           ActiveSessions
  <2>3. ASSUME NEW t \in Threads, NEW e \in Devices, BeginLogout(t, e) PROVE Goal
    BY <1>0, <2>3, <2>e, Entering
       DEF BeginLogout, Enter, CleanlyDisabled,
           ActiveSessions
  <2>4. ASSUME NEW t \in Threads, NEW e \in Devices, BeginDisable(t, e) PROVE Goal
    <3>1. CASE e = d
      <4>1. ~Signing(d)
        BY <2>4, <3>1 DEF BeginDisable, CleanlyDisabled
      <4>2. ~Signing(d)'
        BY <1>0, <2>4, <4>1, Entering
           DEF BeginDisable, Enter, Signing
      <4>3. Reaches(t, d)'
        BY <1>0, <2>4, <3>1, Entering
           DEF BeginDisable, Enter, Reaches, LoggingOut
      <4> QED
        BY <4>2, <4>3
    <3>2. CASE e # d
      <4>1. CleanlyDisabled(d)
        BY <2>t, <2>4, <3>2 DEF BeginDisable, CleanlyDisabled
      <4> QED
        BY <1>0, <2>4, <2>e, <3>2, <4>1, Entering
           DEF BeginDisable, Enter, ActiveSessions
    <3> QED
      BY <3>1, <3>2
  <2>5. ASSUME NEW t \in Threads, EndLogin(t) PROVE Goal
    <3>1. CleanlyDisabled(d)
      BY <2>5 DEF EndLogin, CleanlyDisabled
    <3>2. devicePc[t] = "login" /\ at[t] # d
      BY <2>5, <2>a, <3>1 DEF EndLogin, Signing
    <3>3. ActiveSessions(d)' = ActiveSessions(d)
      BY <2>t, <2>5, <3>2 DEF EndLogin, ActiveSessions
    <3> QED
      BY <1>0, <2>5, <2>e, <3>1, <3>2, <3>3, Returning DEF EndLogin
  <2>6. ASSUME NEW t \in Threads, EndRegister(t) PROVE Goal
    <3>1. CleanlyDisabled(d)
      <4>1. device'[d] = "Disabled" /\ copies'[d] = 0 /\ d \notin raced
        BY <2>6 DEF EndRegister, CleanlyDisabled
      <4>2. CASE device' = [device EXCEPT ![at[t]] = "Active"] /\ copies' = copies
        BY <2>t, <4>1, <4>2 DEF CleanlyDisabled
      <4>3. CASE copies' = [copies EXCEPT ![at[t]] = @ + 1] /\ device' = device
        <5>1. copies[d] \in Nat /\ copies'[d] \in {copies[d], copies[d] + 1}
          BY <2>t, <4>3
        <5>2. copies[d] = 0
          BY <4>1, <5>1
        <5> QED
          BY <4>1, <4>3, <5>2 DEF CleanlyDisabled
      <4> QED
        BY <2>6, <4>2, <4>3 DEF EndRegister
    <3> QED
      BY <1>0, <2>6, <2>e, <3>1, Returning
         DEF EndRegister, ActiveSessions
  <2>7. ASSUME NEW t \in Threads, LogoutSession(t) PROVE Goal
    <3>1. PICK s \in Unpassed(t) :
             /\ session' = [session EXCEPT ![s] = "Logged Out"]
             /\ passed' = [passed EXCEPT ![t] = @ \cup {s}]
      BY <2>7 DEF LogoutSession
    <3>2. s \in Sessions /\ owner' = owner /\ devicePc' = devicePc /\ at' = at
      BY <2>7 DEF LogoutSession, Unpassed, SessionsOf
    <3>3. ActiveSessions(d)' = ActiveSessions(d) \ {s}
      BY <2>t, <3>1, <3>2 DEF ActiveSessions
    <3>4. \A u \in Threads : passed'[u] \subseteq passed[u] \cup {s}
      BY <2>t, <3>1
    <3>5. CleanlyDisabled(d)
      BY <2>7 DEF LogoutSession, CleanlyDisabled
    <3> QED
      BY <2>a, <3>2, <3>3, <3>4, <3>5 DEF Signing, Reaches, LoggingOut
  <2>8. ASSUME NEW t \in Threads, EndLogout(t) PROVE Goal
    <3>1. CleanlyDisabled(d) /\ ActiveSessions(d)' = ActiveSessions(d)
      BY <2>8 DEF EndLogout, CleanlyDisabled, ActiveSessions
    <3>2. /\ devicePc'[t] = "idle"
          /\ \A u \in Threads : u # t =>
                devicePc'[u] = devicePc[u] /\ at'[u] = at[u] /\ passed'[u] = passed[u]
      BY <1>0, <2>8, Returning DEF EndLogout
    <3>3. Reaches(t, d) => ActiveSessions(d) = {}
      BY <2>8
         DEF EndLogout, Unpassed, SessionsOf,
             ActiveSessions, Reaches, LoggingOut
    <3> QED
      BY <2>a, <3>1, <3>2, <3>3 DEF Signing, Reaches, LoggingOut
  <2>9. ASSUME NEW e \in Devices, UpdateDevice(e) PROVE Goal
    <3>1. CleanlyDisabled(d)
      BY <2>t, <2>9 DEF UpdateDevice, CleanlyDisabled
    <3> QED
      BY <2>9, <2>a, <3>1
         DEF UpdateDevice, Signing, Reaches, LoggingOut,
             ActiveSessions
  <2>10. ASSUME UNCHANGED deviceVars PROVE Goal
    BY <2>10, <2>a
       DEF deviceVars, CleanlyDisabled, Signing, Reaches,
           LoggingOut, ActiveSessions
  <2> QED
    BY <1>s, <2>1, <2>2, <2>3, <2>4, <2>5, <2>6, <2>7, <2>8, <2>9, <2>10
       DEF DevicesNext, DeviceStep
<1> QED
  BY <1>r, <1>s

(* disable_device keeps its promise where it can: when it has returned, no *)
(* session of the device is active, if no login was on its way and two     *)
(* registrations had not left the device a second row.                     *)
THEOREM DisablingSignsOut ==
    DevicesSpec => []DisabledIsSignedOut
<1>1. SignedOutInv => DisabledIsSignedOut
  BY DEF SignedOutInv, BeingSignedOut, DisabledIsSignedOut,
         Disabling, Reaches, LoggingOut
<1> QED
  BY <1>1, DevicesAtStart, SignedOutStep, PTL DEF DevicesSpec

(* Devices, sessions and locals are well typed in every state.             *)
THEOREM DevicesTypeCorrect ==
    DevicesSpec => []DevicesTypeOK
<1>1. DevicesInit => DevicesTyped
  BY DevicesAtStart DEF SignedOutInv
<1>2. DevicesTyped => DevicesTypeOK
  BY DEF DevicesTyped
<1> QED
  BY <1>1, <1>2, DevicesTypeStep, PTL DEF DevicesSpec
=============================================================================
