---------------------------- MODULE AccessProofs ----------------------------
(***************************************************************************)
(* Proofs about who gets in and what they see, for any number of users,    *)
(* threads, passwords, links and orders.                                   *)
(*                                                                         *)
(* Accounts: what a session loaded is still in the row when it commits a   *)
(* password (Fresh), since two calls that work on the password of a user   *)
(* at once put the user among raced (Alone).                               *)
(*                                                                         *)
(* Portals: each portal has its own invariant (CustomerInv, SupplierInv),  *)
(* and a step of either says what it does to rows and entries (TrailStep), *)
(* to the sessions of users (LateStep) and to what others have checked     *)
(* (Others); the two lemmas TrailKept and LateKept hold for both.          *)
(***************************************************************************)
EXTENDS Accounts, Portals, FiniteSetTheorems, SequenceTheorems, TLAPS


Running(t) == call[t] # NoCall

SamePassword(a, b) ==
    /\ a.hash = b.hash
    /\ a.past = b.past
    /\ a.token = b.token
    /\ a.force = b.force

\* What a handler makes of the row it loaded.
Shape(c) ==
    /\ c.link \in {NoLink, c.old.token}
    /\ IF SetsPassword(c)
       THEN /\ c.new.token = NoLink
            /\ c.new.past = FirstThree(<<c.old.hash>> \o c.old.past)
            /\ c.new.hash \notin Recent(c.old)
       ELSE /\ c.new.past = c.old.past
            /\ c.new.force = c.old.force
            /\ c.link = NoLink

Shapes == \A t \in Threads : Running(t) => call[t].user \in users /\ Shape(call[t])

\* Of the calls on the password of a user who is not raced, there is one.
Alone ==
    \A t, o \in Threads :
        /\ Running(t) /\ OnPassword(call[t])
        /\ Running(o) /\ OnPassword(call[o])
        /\ call[t].user = call[o].user
        /\ call[t].user \notin raced
        => t = o

\* The row still says what that call loaded.
Fresh ==
    \A t \in Threads :
        /\ Running(t) /\ OnPassword(call[t])
        /\ call[t].user \notin raced
        => SamePassword(call[t].old, row[call[t].user])

\* A link is in the row of one user, or on its way to it.
Has(u, l) ==
    \/ row[u].token = l
    \/ \E t \in Threads :
          Running(t) /\ call[t].user = u /\ call[t].new.token = l

Owned ==
    /\ \A l \in Links, u \in Users : Has(u, l) => l \in issued
    /\ \A l \in Links : \A u, v \in Users : Has(u, l) /\ Has(v, l) => u = v
    /\ spent \subseteq issued

\* No spent link is in a row, or on its way to one.
NoneSpent ==
    /\ \A u \in Users \ raced : row[u].token \notin spent
    /\ \A t \in Threads :
          /\ Running(t) /\ OnPassword(call[t])
          /\ call[t].user \notin raced
          => call[t].new.token \notin spent

AInv ==
    TypeOK /\ Shapes /\ Alone /\ Fresh /\ Owned /\ NoneSpent /\ TemporaryIsForced

-----------------------------------------------------------------------------

\* A history that was cut is a history of three hashes at most.
LEMMA FirstThreeType ==
    ASSUME NEW h \in Hashes, NEW s \in Seq(Hashes)
    PROVE  FirstThree(<<h>> \o s) \in {q \in Seq(Hashes) : Len(q) <= 3}
<1> DEFINE q == <<h>> \o s
<1>1. q \in Seq(Hashes) /\ Len(q) \in Nat
  OBVIOUS
<1>2. CASE Len(q) < 3
  BY <1>1, <1>2 DEF FirstThree
<1>3. CASE ~(Len(q) < 3)
  BY <1>1, <1>3 DEF FirstThree
<1> QED
  BY <1>2, <1>3

\* The password in force is one of those that may not be chosen.
LEMMA CurrentIsRecent ==
    ASSUME NEW r \in Rows
    PROVE  r.hash \in Recent(r)
<1> DEFINE q == <<r.hash>> \o r.past
<1>1. q \in Seq(Hashes) /\ Len(q) \in Nat /\ Len(q) >= 1 /\ q[1] = r.hash
  BY DEF Rows
<1>2. 1 \in DOMAIN FirstThree(q) /\ FirstThree(q)[1] = q[1]
  BY <1>1 DEF FirstThree
<1> QED
  BY <1>1, <1>2 DEF Recent

\* A row with a new password is a row.
LEMMA WithPasswordType ==
    ASSUME NEW r \in Rows, NEW p \in Passwords, NEW force \in BOOLEAN
    PROVE  WithPassword(r, p, force) \in Rows
<1>1. FirstThree(<<r.hash>> \o r.past) \in {q \in Seq(Hashes) : Len(q) <= 3}
  BY FirstThreeType DEF Rows
<1> QED
  BY <1>1 DEF WithPassword, Rows, Hashes

\* So is the row of a new user.
LEMMA NewRowType ==
    ASSUME NEW h \in Hashes, NEW active \in BOOLEAN
    PROVE  NewRow(h, active) \in Rows
BY DEF NewRow, Rows

\* So is what a commit leaves, whatever was read and whatever is written.
LEMMA CommitType ==
    ASSUME NEW r \in Rows, NEW o \in Rows, NEW n \in Rows
    PROVE  Commit(r, o, n) \in Rows
BY DEF Commit, Rows

-----------------------------------------------------------------------------

\* The seeded accounts are in order, and no call is in hand.
LEMMA InitHolds == Init => AInv
<1> SUFFICES ASSUME Init PROVE AInv
  OBVIOUS
<1> USE DEF Init
<1>1. SeedHash \in Hashes
  BY DEF Hashes
<1>2. NewRow(SeedHash, TRUE) \in Rows
  BY <1>1, NewRowType
<1>3. <<SeedHash>> \in Seq(Hashes)
  BY <1>1
<1>4. TypeOK
  BY <1>2, <1>3, AccountsAssumption DEF TypeOK
<1>5. \A t \in Threads : ~Running(t)
  BY DEF Running
<1>6. \A u \in Users : row[u].token = NoLink
  BY DEF NewRow
<1>7. Shapes /\ Alone /\ Fresh
  BY <1>5 DEF Shapes, Alone, Fresh
<1>8. \A u \in Users, l \in Links : ~Has(u, l)
  BY <1>5, <1>6, AccountsAssumption DEF Has
<1>9. Owned /\ NoneSpent /\ TemporaryIsForced
  BY <1>5, <1>8 DEF Owned, NoneSpent, TemporaryIsForced
<1> QED
  BY <1>4, <1>7, <1>9 DEF AInv

\* A call that begins keeps the invariant, if its copy n of the row has the
\* shape of its handler and no link but the loaded one or a new one.
LEMMA LoadKeeps ==
    ASSUME AInv, NEW t \in Threads, NEW u \in Users,
           NEW n \in Rows, NEW l \in Links \cup {NoLink},
           Load(t, u, n, l),
           Shape([user |-> u, old |-> row[u], new |-> n, link |-> l]),
           issued \subseteq issued', issued' \subseteq Links,
           n.token \in {row[u].token, NoLink} \cup (issued' \ issued)
    PROVE  AInv'
<1> DEFINE c == [user |-> u, old |-> row[u], new |-> n, link |-> l]
<1> USE DEF Load, Running
<1>0. /\ c \in Calls
      /\ call' = [call EXCEPT ![t] = c]
      /\ call \in [Threads -> Calls \cup {NoCall}]
      /\ call[t] = NoCall
      /\ row[u] \in Rows
      /\ u \in users
      /\ UNCHANGED <<users, row, log, spent, temporary>>
  BY DEF AInv, TypeOK, Calls
<1>1. c # NoCall /\ call'[t] = c
  BY <1>0, AccountsAssumption
<1>2. \A o \in Threads \ {t} : call'[o] = call[o]
  BY <1>0
<1>3. raced \subseteq raced' /\ raced' \subseteq raced \cup {u}
  OBVIOUS
<1>4. TypeOK'
  BY <1>0, <1>3 DEF AInv, TypeOK
<1>5. Shapes'
  <2> SUFFICES ASSUME NEW o \in Threads, call'[o] # NoCall
               PROVE  call'[o].user \in users /\ Shape(call'[o])
    BY <1>0 DEF Shapes
  <2> QED
    BY <1>0, <1>1, <1>2 DEF AInv, Shapes
<1>6. \A o \in Threads \ {t} :
         /\ OnPassword(c) /\ call[o] # NoCall /\ OnPassword(call[o])
         /\ call[o].user = u
         => u \in raced'
  BY DEF OnPassword, SetsPassword
<1>7. Alone'
  <2> SUFFICES ASSUME NEW a \in Threads, NEW b \in Threads,
                      call'[a] # NoCall, OnPassword(call'[a]),
                      call'[b] # NoCall, OnPassword(call'[b]),
                      call'[a].user = call'[b].user,
                      call'[a].user \notin raced'
               PROVE  a = b
    BY DEF Alone, OnPassword, SetsPassword
  <2>1. CASE a = t /\ b # t
    BY <2>1, <1>1, <1>2, <1>6
  <2>2. CASE a # t /\ b = t
    BY <2>2, <1>1, <1>2, <1>6
  <2>3. CASE a # t /\ b # t
    BY <2>3, <1>2, <1>3 DEF AInv, Alone
  <2> QED
    BY <2>1, <2>2, <2>3
<1>8. Fresh'
  <2> SUFFICES ASSUME NEW o \in Threads, call'[o] # NoCall,
                      OnPassword(call'[o]), call'[o].user \notin raced'
               PROVE  SamePassword(call'[o].old, row[call'[o].user])
    BY <1>0 DEF Fresh, OnPassword, SetsPassword, SamePassword
  <2>1. CASE o = t
    BY <2>1, <1>1 DEF SamePassword
  <2>2. CASE o # t
    BY <2>2, <1>2, <1>3 DEF AInv, Fresh
  <2> QED
    BY <2>1, <2>2
<1>9. \A v \in Users, k \in Links :
         Has(v, k)' => Has(v, k) \/ (v = u /\ k \in issued' \ issued)
  <2> SUFFICES ASSUME NEW v \in Users, NEW k \in Links, Has(v, k)', ~Has(v, k)
               PROVE  v = u /\ k \in issued' \ issued
    OBVIOUS
  <2>1. PICK o \in Threads : call'[o] # NoCall /\ call'[o].user = v
                             /\ call'[o].new.token = k
    BY <1>0 DEF Has
  <2>2. o = t
    BY <2>1, <1>2 DEF Has
  <2>3. v = u /\ n.token = k
    BY <2>1, <2>2, <1>1
  <2>4. row[u].token # k /\ k # NoLink
    BY <2>3, AccountsAssumption DEF Has
  <2> QED
    BY <2>3, <2>4
<1>10. Owned'
  <2>1. \A k \in Links, v \in Users : Has(v, k)' => k \in issued'
    BY <1>9 DEF AInv, Owned
  <2>2. \A k \in Links : \A v, w \in Users : Has(v, k)' /\ Has(w, k)' => v = w
    <3> SUFFICES ASSUME NEW k \in Links, NEW v \in Users, NEW w \in Users,
                        Has(v, k)', Has(w, k)'
                 PROVE  v = w
      OBVIOUS
    <3>1. CASE k \in issued
      BY <3>1, <1>9 DEF AInv, Owned
    <3>2. CASE k \notin issued
      BY <3>2, <1>9 DEF AInv, Owned
    <3> QED
      BY <3>1, <3>2
  <2>3. spent' \subseteq issued'
    BY <1>0 DEF AInv, Owned
  <2> QED
    BY <2>1, <2>2, <2>3 DEF Owned
<1>11. NoneSpent'
  <2>1. \A v \in Users \ raced' : row'[v].token \notin spent'
    BY <1>0, <1>3 DEF AInv, NoneSpent
  <2>2. ASSUME NEW o \in Threads, call'[o] # NoCall, OnPassword(call'[o]),
               call'[o].user \notin raced'
        PROVE  call'[o].new.token \notin spent
    <3>1. CASE o = t
      <4>1. NoLink \notin spent /\ spent \subseteq issued
        BY AccountsAssumption DEF AInv, Owned, TypeOK
      <4>2. u \notin raced /\ row[u].token \notin spent
        BY <2>2, <3>1, <1>1, <1>3 DEF AInv, NoneSpent
      <4> QED
        BY <3>1, <1>1, <4>1, <4>2
    <3>2. CASE o # t
      BY <2>2, <3>2, <1>2, <1>3 DEF AInv, NoneSpent
    <3> QED
      BY <3>1, <3>2
  <2> QED
    BY <2>1, <2>2, <1>0 DEF NoneSpent, OnPassword, SetsPassword
<1>12. TemporaryIsForced'
  BY <1>0, <1>3 DEF AInv, TemporaryIsForced
<1> QED
  BY <1>4, <1>5, <1>7, <1>8, <1>10, <1>11, <1>12 DEF AInv

\* The copy a handler makes when it sets a password has the right shape.
LEMMA PasswordShape ==
    ASSUME NEW r \in Rows, NEW u, NEW p \in Passwords \ Recent(r),
           NEW force \in BOOLEAN, NEW active \in BOOLEAN,
           NEW l \in {NoLink, r.token}
    PROVE  LET n == [WithPassword(r, p, force) EXCEPT !.active = active]
           IN  /\ n \in Rows
               /\ n.token = NoLink
               /\ Shape([user |-> u, old |-> r, new |-> n, link |-> l])
<1> DEFINE n == [WithPassword(r, p, force) EXCEPT !.active = active]
<1> DEFINE c == [user |-> u, old |-> r, new |-> n, link |-> l]
<1>1. WithPassword(r, p, force) \in Rows
  BY WithPasswordType
<1>2. n \in Rows
  BY <1>1 DEF Rows
<1>3. /\ n.hash = p
      /\ n.token = NoLink
      /\ n.past = FirstThree(<<r.hash>> \o r.past)
  BY DEF WithPassword, Rows
<1>4. p # r.hash
  BY CurrentIsRecent
<1>5. SetsPassword(c)
  BY <1>3, <1>4 DEF SetsPassword
<1>6. Shape(c)
  BY <1>3, <1>5 DEF Shape
<1> QED
  BY <1>2, <1>3, <1>6

\* ... also when it leaves the user enabled or disabled.
LEMMA PlainPasswordShape ==
    ASSUME NEW r \in Rows, NEW u, NEW p \in Passwords \ Recent(r),
           NEW force \in BOOLEAN, NEW l \in {NoLink, r.token}
    PROVE  /\ WithPassword(r, p, force) \in Rows
           /\ WithPassword(r, p, force).token = NoLink
           /\ Shape([user |-> u, old |-> r, new |-> WithPassword(r, p, force),
                     link |-> l])
<1> DEFINE n == WithPassword(r, p, force)
<1>1. n \in Rows /\ r.active \in BOOLEAN /\ n.active = r.active
  BY WithPasswordType DEF WithPassword, Rows
<1> HIDE DEF n
<1>2. [n EXCEPT !.active = r.active] = n
  BY <1>1 DEF Rows
<1> USE DEF n
<1>3. /\ [n EXCEPT !.active = r.active].token = NoLink
      /\ Shape([user |-> u, old |-> r, new |-> [n EXCEPT !.active = r.active],
                link |-> l])
  BY <1>1, PasswordShape
<1> QED
  BY <1>1, <1>2, <1>3

\* Every handler that works on one user's row preserves the invariant.
LEMMA UserStepKeeps ==
    ASSUME AInv, NEW t \in Threads, NEW u \in Users, UserStep(t, u)
    PROVE  AInv'
<1>0. row[u] \in Rows /\ issued \subseteq Links
  BY DEF AInv, TypeOK
<1>1. ASSUME NEW p \in Passwords, ChangePassword(t, u, p)
      PROVE  AInv'
  <2> DEFINE n == WithPassword(row[u], p, FALSE)
  <2>1. /\ p \in Passwords \ Recent(row[u])
        /\ Load(t, u, n, NoLink) /\ issued' = issued
    BY <1>1 DEF ChangePassword
  <2>2. /\ n \in Rows /\ n.token = NoLink
        /\ Shape([user |-> u, old |-> row[u], new |-> n, link |-> NoLink])
    BY <1>0, <2>1, PlainPasswordShape
  <2>3. issued \subseteq issued' /\ issued' \subseteq Links
        /\ n.token \in {row[u].token, NoLink} \cup (issued' \ issued)
    BY <1>0, <2>1, <2>2
  <2> HIDE DEF n
  <2> QED
    BY <2>1, <2>2, <2>3, LoadKeeps
<1>2. ASSUME NEW p \in Passwords, NEW l \in Links, ResetPassword(t, u, l, p)
      PROVE  AInv'
  <2> DEFINE n == WithPassword(row[u], p, FALSE)
  <2>1. /\ row[u].token = l /\ p \in Passwords \ Recent(row[u])
        /\ Load(t, u, n, l) /\ issued' = issued
    BY <1>2 DEF ResetPassword
  <2>2. /\ n \in Rows /\ n.token = NoLink
        /\ Shape([user |-> u, old |-> row[u], new |-> n, link |-> l])
    BY <1>0, <2>1, PlainPasswordShape
  <2>3. issued \subseteq issued' /\ issued' \subseteq Links
        /\ n.token \in {row[u].token, NoLink} \cup (issued' \ issued)
    BY <1>0, <2>1, <2>2
  <2> HIDE DEF n
  <2> QED
    BY <2>1, <2>2, <2>3, LoadKeeps
<1>3. ASSUME NEW p \in Passwords, NEW force \in BOOLEAN,
             AdminResetPassword(t, u, p, force)
      PROVE  AInv'
  <2> DEFINE n == WithPassword(row[u], p, force)
  <2>1. /\ p \in Passwords \ Recent(row[u])
        /\ Load(t, u, n, NoLink) /\ issued' = issued
    BY <1>3 DEF AdminResetPassword
  <2>2. /\ n \in Rows /\ n.token = NoLink
        /\ Shape([user |-> u, old |-> row[u], new |-> n, link |-> NoLink])
    BY <1>0, <2>1, PlainPasswordShape
  <2>3. issued \subseteq issued' /\ issued' \subseteq Links
        /\ n.token \in {row[u].token, NoLink} \cup (issued' \ issued)
    BY <1>0, <2>1, <2>2
  <2> HIDE DEF n
  <2> QED
    BY <2>1, <2>2, <2>3, LoadKeeps
<1>4. ASSUME NEW active \in BOOLEAN, UpdateUser(t, u, active)
      PROVE  AInv'
  <2> DEFINE n == [row[u] EXCEPT !.active = active]
  <2>1. CASE Load(t, u, n, NoLink)
    <3>1. n \in Rows /\ n.hash = row[u].hash /\ n.past = row[u].past
          /\ n.force = row[u].force /\ n.token = row[u].token
      BY <1>0 DEF Rows
    <3>2. Shape([user |-> u, old |-> row[u], new |-> n, link |-> NoLink])
      BY <3>1 DEF Shape, SetsPassword
    <3> QED
      BY <1>0, <1>4, <2>1, <3>1, <3>2, LoadKeeps DEF UpdateUser
  <2>2. ASSUME NEW p \in Passwords \ Recent(row[u]),
               Load(t, u, [WithPassword(row[u], p, TRUE) EXCEPT !.active = active],
                    NoLink)
        PROVE  AInv'
    BY <1>0, <1>4, <2>2, LoadKeeps, PasswordShape DEF UpdateUser
  <2> QED
    BY <1>4, <2>1, <2>2 DEF UpdateUser
<1>5. ASSUME NEW l \in Links, ForgotPassword(t, u, l)
      PROVE  AInv'
  <2> DEFINE n == [row[u] EXCEPT !.token = l]
  <2>1. n \in Rows /\ n.hash = row[u].hash /\ n.past = row[u].past
        /\ n.force = row[u].force /\ n.token = l
    BY <1>0 DEF Rows
  <2>2. Shape([user |-> u, old |-> row[u], new |-> n, link |-> NoLink])
    BY <2>1 DEF Shape, SetsPassword
  <2>3. issued' = issued \cup {l} /\ l \notin issued /\ Load(t, u, n, NoLink)
    BY <1>5 DEF ForgotPassword
  <2>4. issued \subseteq issued' /\ issued' \subseteq Links
        /\ n.token \in issued' \ issued
    BY <1>0, <2>1, <2>3
  <2> HIDE DEF n
  <2> QED
    BY <2>1, <2>2, <2>3, <2>4, LoadKeeps
<1> QED
  BY <1>1, <1>2, <1>3, <1>4, <1>5 DEF UserStep

\* What a commit writes, column by column.
LEMMA EndCallWrites ==
    ASSUME AInv, NEW t \in Threads, EndCall(t)
    PROVE  LET c == call[t]
           IN  /\ c \in Calls /\ Running(t) /\ Shape(c)
               /\ c.user \in Users /\ c.user \in users /\ row[c.user] \in Rows
               /\ row'[c.user] = Commit(row[c.user], c.old, c.new)
               /\ row'[c.user] \in Rows
               /\ \A u \in Users \ {c.user} : row'[u] = row[u]
               /\ call'[t] = NoCall
               /\ \A o \in Threads \ {t} : call'[o] = call[o]
               /\ UNCHANGED <<users, issued, raced>>
<1> DEFINE c == call[t]
<1>1. c \in Calls /\ c # NoCall /\ c.user \in Users /\ c.old \in Rows /\ c.new \in Rows
  BY DEF EndCall, AInv, TypeOK, Calls
<1>2. row \in [Users -> Rows] /\ call \in [Threads -> Calls \cup {NoCall}]
  BY DEF AInv, TypeOK
<1>3. Shape(c) /\ c.user \in users
  BY <1>1 DEF AInv, Shapes, Running
<1>4. Commit(row[c.user], c.old, c.new) \in Rows
  BY <1>1, <1>2, CommitType
<1> QED
  BY <1>1, <1>2, <1>3, <1>4 DEF EndCall, Running

\* A password is committed over the columns that were loaded.
LEMMA PasswordWrites ==
    ASSUME AInv, NEW t \in Threads, EndCall(t),
           OnPassword(call[t]), call[t].user \notin raced
    PROVE  SamePassword(row'[call[t].user], call[t].new)
<1> DEFINE c == call[t]
<1>1. /\ Running(t) /\ row'[c.user] = Commit(row[c.user], c.old, c.new)
  BY EndCallWrites
<1>2. SamePassword(c.old, row[c.user])
  BY <1>1 DEF AInv, Fresh
<1> QED
  BY <1>1, <1>2 DEF SamePassword, Commit

\* Another call leaves the columns of the password alone.
LEMMA OthersWrite ==
    ASSUME AInv, NEW t \in Threads, EndCall(t), ~OnPassword(call[t])
    PROVE  SamePassword(row'[call[t].user], row[call[t].user])
<1> DEFINE c == call[t]
<1>1. /\ Shape(c) /\ row'[c.user] = Commit(row[c.user], c.old, c.new)
  BY EndCallWrites
<1>2. ~SetsPassword(c) /\ c.new.token = c.old.token
  BY DEF OnPassword
<1>3. c.new.hash = c.old.hash /\ c.new.past = c.old.past /\ c.new.force = c.old.force
  BY <1>1, <1>2 DEF Shape, SetsPassword
<1> QED
  BY <1>1, <1>2, <1>3 DEF SamePassword, Commit

\* So does the end of a call, whose row is written now.
LEMMA EndCallKeeps ==
    ASSUME AInv, NEW t \in Threads, EndCall(t)
    PROVE  AInv'
<1> DEFINE c == call[t]
<1> DEFINE u == c.user
<1>0. /\ c \in Calls /\ Running(t) /\ Shape(c)
      /\ u \in Users /\ u \in users /\ row[u] \in Rows
      /\ row'[u] = Commit(row[u], c.old, c.new)
      /\ row'[u] \in Rows
      /\ \A v \in Users \ {u} : row'[v] = row[v]
      /\ call'[t] = NoCall
      /\ \A o \in Threads \ {t} : call'[o] = call[o]
      /\ UNCHANGED <<users, issued, raced>>
  BY EndCallWrites
<1>1. c.new \in Rows /\ c.new.hash \in Hashes /\ c.old \in Rows
  BY <1>0 DEF Calls, Rows
<1>2. TypeOK'
  <2>1. row' \in [Users -> Rows] /\ call' \in [Threads -> Calls \cup {NoCall}]
    BY <1>0, <1>1, CommitType DEF AInv, TypeOK, EndCall
  <2>2. CASE SetsPassword(c)
    <3>1. Remember(c)
      BY <2>2 DEF EndCall
    <3>2. log[u] \in Seq(Hashes)
      BY <1>0 DEF AInv, TypeOK
    <3>3. <<c.new.hash>> \o log[u] \in Seq(Hashes)
      BY <1>1, <3>2
    <3>4. log' = [log EXCEPT ![u] = <<c.new.hash>> \o log[u]]
      BY <3>1 DEF Remember
    <3>5. log' \in [Users -> Seq(Hashes)]
      BY <3>3, <3>4 DEF AInv, TypeOK
    <3>6. spent' \subseteq Links /\ temporary' \subseteq Users
      BY <3>1, <1>0 DEF Remember, AInv, TypeOK
    <3> QED
      BY <2>1, <3>5, <3>6, <1>0 DEF AInv, TypeOK
  <2>3. CASE ~SetsPassword(c)
    BY <2>1, <2>3, <1>0 DEF AInv, TypeOK, EndCall
  <2> QED
    BY <2>2, <2>3
<1>3. Shapes'
  BY <1>0 DEF AInv, Shapes, Running
<1>4. Alone'
  BY <1>0 DEF AInv, Alone, Running, OnPassword, SetsPassword
<1>5. ASSUME NEW o \in Threads, o # t, Running(o), OnPassword(call[o]),
             call[o].user = u, u \notin raced
      PROVE  ~OnPassword(c)
  BY <1>0, <1>5 DEF AInv, Alone
<1>6. Fresh'
  <2> SUFFICES ASSUME NEW o \in Threads, call'[o] # NoCall,
                      OnPassword(call'[o]), call'[o].user \notin raced
               PROVE  SamePassword(call'[o].old, row'[call'[o].user])
    BY <1>0 DEF Fresh, Running, OnPassword, SetsPassword, SamePassword
  <2>1. o # t /\ call'[o] = call[o] /\ call[o].user \in Users
    BY <1>0 DEF AInv, TypeOK, Calls
  <2>2. SamePassword(call[o].old, row[call[o].user])
    BY <2>1 DEF AInv, Fresh, Running
  <2>3. CASE call[o].user # u
    BY <2>1, <2>2, <2>3, <1>0
  <2>4. CASE call[o].user = u
    BY <2>1, <2>2, <2>4, <1>5, OthersWrite DEF SamePassword, Running
  <2> QED
    BY <2>3, <2>4
<1>7. row'[u].token \in {c.new.token, row[u].token}
  BY <1>0 DEF Commit
<1>8. \A v \in Users, l \in Links : Has(v, l)' => Has(v, l)
  <2> SUFFICES ASSUME NEW v \in Users, NEW l \in Links, Has(v, l)'
               PROVE  Has(v, l)
    OBVIOUS
  <2>1. CASE row'[v].token = l
    <3>1. CASE v = u
      BY <2>1, <3>1, <1>7, <1>0 DEF Has
    <3>2. CASE v # u
      BY <2>1, <3>2, <1>0 DEF Has
    <3> QED
      BY <3>1, <3>2
  <2>2. CASE \E o \in Threads : /\ call'[o] # NoCall /\ call'[o].user = v
                                /\ call'[o].new.token = l
    BY <2>2, <1>0 DEF Has, Running
  <2> QED
    BY <2>1, <2>2 DEF Has, Running
<1>9. spent' \subseteq spent \cup {l \in Links : row[u].token = l}
  BY DEF EndCall, Remember
<1>10. Owned'
  <2>1. spent' \subseteq issued
    BY <1>0, <1>9 DEF AInv, Owned, Has
  <2> QED
    BY <2>1, <1>0, <1>8 DEF AInv, Owned
<1>11. ~SetsPassword(c) => spent' = spent /\ temporary' = temporary
  BY DEF EndCall
<1>12. NoneSpent'
  <2>1. ASSUME NEW v \in Users \ raced, v # u
        PROVE  row'[v].token \notin spent'
    BY <2>1, <1>0, <1>9 DEF AInv, NoneSpent, Owned, Has
  <2>2. ASSUME u \notin raced
        PROVE  row'[u].token \notin spent'
    <3>1. CASE SetsPassword(c)
      <4>1. row'[u].token = NoLink
        BY <2>2, <3>1, <1>0, PasswordWrites DEF SamePassword, OnPassword, Shape
      <4>2. spent' \subseteq Links
        BY <1>2 DEF TypeOK
      <4> QED
        BY <4>1, <4>2, AccountsAssumption
    <3>2. CASE ~SetsPassword(c)
      <4>2. row[u].token \notin spent
        BY <2>2, <1>0 DEF AInv, NoneSpent
      <4>3. OnPassword(c) => c.new.token \notin spent
        BY <2>2, <1>0 DEF AInv, NoneSpent
      <4>4. ~OnPassword(c) => row'[u].token = row[u].token
        BY OthersWrite DEF SamePassword
      <4> QED
        BY <3>2, <4>2, <4>3, <4>4, <1>7, <1>11
    <3> QED
      BY <3>1, <3>2
  <2>3. ASSUME NEW o \in Threads, call'[o] # NoCall, OnPassword(call'[o]),
               call'[o].user \notin raced
        PROVE  call'[o].new.token \notin spent'
    <3>1. o # t /\ call'[o] = call[o] /\ call[o].user \in Users
          /\ call[o].new \in Rows
      BY <2>3, <1>0 DEF AInv, TypeOK, Calls
    <3>2. call[o].new.token \notin spent
      BY <2>3, <3>1 DEF AInv, NoneSpent, Running
    <3>3. CASE call[o].user = u
      BY <2>3, <3>1, <3>2, <3>3, <1>5, <1>11 DEF OnPassword, Running
    <3>4. CASE call[o].user # u
      <4> DEFINE l == call[o].new.token
      <4>1. l \in spent' => l \in Links /\ row[u].token = l
        BY <3>2, <1>9
      <4>2. Has(call[o].user, l)
        BY <2>3, <3>1 DEF Has, Running
      <4>3. row[u].token = l => Has(u, l)
        BY DEF Has
      <4> HIDE DEF l
      <4>4. l \notin spent'
        BY <4>1, <4>2, <4>3, <3>1, <3>4, <1>0 DEF AInv, Owned
      <4> QED
        BY <4>4, <3>1 DEF l
    <3> QED
      BY <3>3, <3>4
  <2> QED
    BY <2>1, <2>2, <2>3, <1>0
       DEF NoneSpent, Running, OnPassword, SetsPassword
<1>13. TemporaryIsForced'
  <2> SUFFICES ASSUME NEW v \in temporary' \ raced
               PROVE  row'[v].force
    BY <1>0 DEF TemporaryIsForced
  <2>1. v \in Users
    BY <1>2 DEF TypeOK
  <2>2. CASE v # u
    BY <2>1, <2>2, <1>0 DEF AInv, TemporaryIsForced, EndCall, Remember
  <2>3. CASE v = u /\ SetsPassword(c)
    <3>1. temporary' = IF c.new.force THEN temporary \cup {u} ELSE temporary \ {u}
      BY <2>3 DEF EndCall, Remember
    <3>2. c.new.force \in BOOLEAN /\ row'[u].force = c.new.force
      BY <2>3, <1>1, <1>0, PasswordWrites DEF SamePassword, OnPassword, Rows
    <3> QED
      BY <2>3, <3>1, <3>2
  <2>4. CASE v = u /\ ~SetsPassword(c)
    <3>1. c.new.force = c.old.force
      BY <2>4, <1>0 DEF Shape
    <3>2. row'[u].force = row[u].force
      BY <3>1, <1>0 DEF Commit
    <3> QED
      BY <2>4, <3>2, <1>11 DEF AInv, TemporaryIsForced
  <2> QED
    BY <2>2, <2>3, <2>4
<1> QED
  BY <1>2, <1>3, <1>4, <1>6, <1>10, <1>12, <1>13 DEF AInv

\* So does create_user.
LEMMA CreateKeeps ==
    ASSUME AInv, NEW u \in Users, NEW p \in Passwords, NEW active \in BOOLEAN,
           CreateUser(u, p, active)
    PROVE  AInv'
<1> DEFINE n == WithPassword(NewRow(Pending, active), p, TRUE)
<1>1. Pending \in Hashes /\ p \in Hashes
  BY DEF Hashes
<1>2. n \in Rows
  BY <1>1, NewRowType, WithPasswordType
<1>3. n.token = NoLink /\ n.force = TRUE
  BY <1>1, NewRowType DEF WithPassword, Rows
<1> HIDE DEF n
<1>4. /\ u \notin users /\ users' = users \cup {u}
      /\ row' = [row EXCEPT ![u] = n]
      /\ log' = [log EXCEPT ![u] = <<p>>]
      /\ temporary' = temporary \cup {u}
      /\ UNCHANGED <<issued, call, spent, raced>>
  BY DEF CreateUser, n
<1>5. row \in [Users -> Rows] /\ log \in [Users -> Seq(Hashes)]
  BY DEF AInv, TypeOK
<1>6. row'[u] = n /\ \A v \in Users \ {u} : row'[v] = row[v]
  BY <1>4, <1>5
<1>7. <<p>> \in Seq(Hashes)
  BY <1>1
<1>8. TypeOK'
  BY <1>2, <1>4, <1>5, <1>7 DEF AInv, TypeOK
<1>9. Shapes' /\ Alone'
  BY <1>4 DEF AInv, Shapes, Alone, Running, OnPassword, SetsPassword
<1>10. \A t \in Threads : Running(t) => call[t].user # u /\ call[t].user \in Users
  BY <1>4 DEF AInv, Shapes, TypeOK
<1>11. Fresh'
  BY <1>4, <1>6, <1>10
     DEF AInv, Fresh, Running, OnPassword, SetsPassword, SamePassword
<1>12. \A v \in Users, l \in Links : Has(v, l)' => Has(v, l)
  BY <1>3, <1>4, <1>6, AccountsAssumption DEF Has, Running
<1>13. Owned'
  BY <1>4, <1>12 DEF AInv, Owned
<1>14. NoneSpent'
  BY <1>3, <1>4, <1>6, AccountsAssumption
     DEF AInv, NoneSpent, TypeOK, Running, OnPassword, SetsPassword
<1>15. TemporaryIsForced'
  BY <1>3, <1>4, <1>6 DEF AInv, TemporaryIsForced, TypeOK
<1> QED
  BY <1>8, <1>9, <1>11, <1>13, <1>14, <1>15 DEF AInv

\* So does a call that is rolled back.
LEMMA RollbackKeeps ==
    ASSUME AInv, NEW t \in Threads, Rollback(t)
    PROVE  AInv'
<1>1. /\ call \in [Threads -> Calls \cup {NoCall}]
      /\ call' = [call EXCEPT ![t] = NoCall]
      /\ UNCHANGED <<users, row, issued, log, spent, temporary, raced>>
  BY DEF Rollback, history, AInv, TypeOK
<1>2. call'[t] = NoCall /\ \A o \in Threads \ {t} : call'[o] = call[o]
  BY <1>1
<1>3. TypeOK'
  BY <1>1 DEF AInv, TypeOK
<1>4. Shapes' /\ Alone' /\ Fresh'
  BY <1>1, <1>2
     DEF AInv, Shapes, Alone, Fresh, Running, OnPassword, SetsPassword, SamePassword
<1>5. \A v \in Users, l \in Links : Has(v, l)' => Has(v, l)
  BY <1>1, <1>2 DEF Has, Running
<1>6. Owned' /\ NoneSpent' /\ TemporaryIsForced'
  BY <1>1, <1>2, <1>5
     DEF AInv, Owned, NoneSpent, TemporaryIsForced, Running, OnPassword, SetsPassword
<1> QED
  BY <1>3, <1>4, <1>6 DEF AInv

\* So does a restart of the server.
LEMMA RestartKeeps == AInv /\ Restart => AInv'
<1> SUFFICES ASSUME AInv, Restart PROVE AInv'
  OBVIOUS
<1>1. /\ row \in [Users -> Rows]
      /\ row' = [u \in Users |-> AsSeeded(u)]
      /\ UNCHANGED <<users, issued, log, spent, temporary, raced>>
  BY DEF Restart, history, AInv, TypeOK
<1>2. \A u \in Users : AsSeeded(u) \in Rows /\ SamePassword(AsSeeded(u), row[u])
  BY <1>1 DEF AsSeeded, Rows, SamePassword
<1>3. \A t \in Threads : ~(call'[t] # NoCall)
  BY DEF Restart
<1>4. TypeOK'
  BY <1>1, <1>2 DEF AInv, TypeOK, Restart
<1>5. Shapes' /\ Alone' /\ Fresh'
  BY <1>3 DEF Shapes, Alone, Fresh, Running
<1>6. \A u \in Users : row'[u].token = row[u].token /\ row'[u].force = row[u].force
  BY <1>1, <1>2 DEF SamePassword
<1>7. \A u \in Users, l \in Links : Has(u, l)' => Has(u, l)
  BY <1>3, <1>6 DEF Has, Running
<1>8. Owned'
  BY <1>1, <1>7 DEF AInv, Owned
<1>9. NoneSpent' /\ TemporaryIsForced'
  BY <1>1, <1>3, <1>6 DEF AInv, NoneSpent, TemporaryIsForced, TypeOK, Running
<1> QED
  BY <1>4, <1>5, <1>8, <1>9 DEF AInv

\* So does every step.
LEMMA StepKeeps == AInv /\ [Next]_vars => AInv'
<1> SUFFICES ASSUME AInv, [Next]_vars PROVE AInv'
  OBVIOUS
<1>1. CASE Next
  BY <1>1, UserStepKeeps, EndCallKeeps, RollbackKeeps, CreateKeeps, RestartKeeps
     DEF Next
<1>2. CASE UNCHANGED vars
  <2> USE <1>2 DEF vars, history
  <2>1. TypeOK' /\ Shapes' /\ Alone' /\ Fresh'
    BY DEF AInv, TypeOK, Shapes, Alone, Fresh, Running, OnPassword,
           SetsPassword, SamePassword
  <2>2. \A u \in Users, l \in Links : Has(u, l)' <=> Has(u, l)
    BY DEF Has, Running
  <2>3. Owned' /\ NoneSpent' /\ TemporaryIsForced'
    BY <2>2 DEF AInv, Owned, NoneSpent, TemporaryIsForced, Running, OnPassword,
                SetsPassword
  <2> QED
    BY <2>1, <2>3 DEF AInv
<1> QED
  BY <1>1, <1>2

\* Rows, calls and history are of their types, and no row remembers more
\* than three passwords.
THEOREM AccountsTypeCorrect == Spec => []TypeOK
<1>1. AInv => TypeOK
  BY DEF AInv
<1> QED
  BY InitHolds, StepKeeps, <1>1, PTL DEF Spec

\* A link that was live when a password was set lets nobody set another one.
THEOREM LinksAreSpent == Spec => []LinksEnd
<1>1. AInv => LinksEnd
  <2> SUFFICES ASSUME AInv PROVE LinksEnd
    OBVIOUS
  <2>1. NoLink \notin spent
    BY AccountsAssumption DEF AInv, TypeOK
  <2>2. ASSUME NEW t \in Threads, call[t] # NoCall, call[t].user \notin raced
        PROVE  call[t].link \notin spent
    <3>1. Shape(call[t]) /\ call[t].user \in Users
      BY <2>2 DEF AInv, Shapes, TypeOK, Running
    <3>2. CASE SetsPassword(call[t])
      <4>1. call[t].old.token = row[call[t].user].token
        BY <2>2, <3>2 DEF AInv, Fresh, SamePassword, OnPassword, Running
      <4> QED
        BY <2>1, <2>2, <3>1, <4>1 DEF Shape, AInv, NoneSpent
    <3>3. CASE ~SetsPassword(call[t])
      BY <2>1, <3>1, <3>3 DEF Shape
    <3> QED
      BY <3>2, <3>3
  <2> QED
    BY <2>2 DEF LinksEnd, AInv, NoneSpent, TypeOK
<1> QED
  BY InitHolds, StepKeeps, <1>1, PTL DEF Spec

\* What an administrator wants changed stays marked until it is.
THEOREM TemporaryPasswordsAreForced == Spec => []TemporaryIsForced
<1>1. AInv => TemporaryIsForced
  BY DEF AInv
<1> QED
  BY InitHolds, StepKeeps, <1>1, PTL DEF Spec

-----------------------------------------------------------------------------

\* Only a call that itself activates the user can make a row active.
LEMMA CommitActive ==
    ASSUME NEW r \in Rows, NEW o \in Rows, NEW n \in Rows,
           ~r.active, Commit(r, o, n).active
    PROVE  n.active /\ ~o.active
<1>1. CASE n.active # o.active
  <2>1. Commit(r, o, n).active = n.active
    BY <1>1 DEF Commit
  <2>2. n.active
    BY <2>1
  <2>3. n.active \in BOOLEAN /\ o.active \in BOOLEAN
    BY DEF Rows
  <2> QED
    BY <1>1, <2>2, <2>3
<1>2. CASE n.active = o.active
  <2>1. Commit(r, o, n).active = r.active
    BY <1>2 DEF Commit
  <2> QED
    BY <2>1
<1> QED
  BY <1>1, <1>2

\* Enabling a user is what the call that commits, or the seed data, asks.
LEMMA EnablingStep ==
    ASSUME AInv, Next, NEW u \in users, ~row[u].active, row'[u].active
    PROVE  \/ u \in Seeded
           \/ \E t \in Threads : /\ call[t] # NoCall
                                 /\ call[t].user = u
                                 /\ call[t].new.active
                                 /\ ~call[t].old.active
<1>1. u \in Users /\ row \in [Users -> Rows]
  BY DEF AInv, TypeOK
<1>2. ASSUME NEW t \in Threads, NEW v \in Users, UserStep(t, v)
      PROVE  row' = row
  BY <1>2 DEF UserStep, ChangePassword, ResetPassword, AdminResetPassword,
              UpdateUser, ForgotPassword, Load
<1>3. ASSUME NEW t \in Threads, EndCall(t)
      PROVE  /\ call[t] # NoCall /\ call[t].user = u
             /\ call[t].new.active /\ ~call[t].old.active
  <2> DEFINE c == call[t]
  <2>1. /\ c \in Calls /\ Running(t)
        /\ row'[c.user] = Commit(row[c.user], c.old, c.new)
        /\ \A v \in Users \ {c.user} : row'[v] = row[v]
    BY <1>3, EndCallWrites
  <2>2. c.user = u
    BY <1>1, <2>1
  <2>0. row'[u] = Commit(row[u], c.old, c.new)
    BY <2>1, <2>2
  <2>3. row[u] \in Rows /\ c.old \in Rows /\ c.new \in Rows
    BY <1>1, <2>1 DEF Calls
  <2> QED
    BY <2>0, <2>1, <2>2, <2>3, CommitActive DEF Running
<1>4. ASSUME NEW t \in Threads, Rollback(t)
      PROVE  row' = row
  BY <1>4 DEF Rollback
<1>5. ASSUME NEW v \in Users, NEW p \in Passwords, NEW active \in BOOLEAN,
             CreateUser(v, p, active)
      PROVE  row'[u] = row[u]
  BY <1>1, <1>5 DEF CreateUser
<1>6. CASE Restart
  BY <1>1, <1>6 DEF Restart, AsSeeded
<1> QED
  BY <1>2, <1>3, <1>4, <1>5, <1>6 DEF Next

\* A commit that meets a disabled user in the row leaves him disabled.
THEOREM EnabledOnlyByAdmins == Spec => OnlyAdminsEnable
<1>1. AInv /\ [Next]_vars => [EnablingIsAsked]_vars
  BY EnablingStep DEF EnablingIsAsked
<1> QED
  BY <1>1, InitHolds, StepKeeps, PTL DEF Spec, OnlyAdminsEnable

-----------------------------------------------------------------------------

\* The row remembers the three newest passwords of the log.
LogTold(u) ==
    /\ log[u] # <<>>
    /\ log[u][1] = row[u].hash
    /\ \A i \in {1, 2} :
          i + 1 \in DOMAIN log[u] =>
             i \in DOMAIN row[u].past /\ row[u].past[i] = log[u][i + 1]

RInv == (\A u \in users \ raced : LogTold(u)) /\ NoRecentReuse

\* The history begins with the newest hash, and then what it began with before.
LEMMA FirstThreeValues ==
    ASSUME NEW h \in Hashes, NEW s \in Seq(Hashes)
    PROVE  LET q == FirstThree(<<h>> \o s)
           IN  /\ 1 \in DOMAIN q /\ q[1] = h
               /\ \A i \in {1, 2} :
                     i \in DOMAIN s => i + 1 \in DOMAIN q /\ q[i + 1] = s[i]
<1> DEFINE a == <<h>> \o s
<1>1. /\ a \in Seq(Hashes) /\ Len(a) \in Nat /\ Len(a) = Len(s) + 1
      /\ a[1] = h /\ \A i \in 1 .. Len(s) : a[i + 1] = s[i]
  OBVIOUS
<1> HIDE DEF a
<1>2. \A i \in 1 .. 3 : i <= Len(a) =>
         i \in DOMAIN FirstThree(a) /\ FirstThree(a)[i] = a[i]
  BY <1>1 DEF FirstThree
<1>3. Len(s) \in Nat /\ DOMAIN s = 1 .. Len(s)
  OBVIOUS
<1>4. FirstThree(a)[1] = h /\ 1 \in DOMAIN FirstThree(a)
  BY <1>1, <1>2, <1>3
<1>5. ASSUME NEW i \in {1, 2}, i \in DOMAIN s
      PROVE  i + 1 \in DOMAIN FirstThree(a) /\ FirstThree(a)[i + 1] = s[i]
  BY <1>1, <1>2, <1>3, <1>5
<1> QED
  BY <1>4, <1>5 DEF a

\* One more password in front of the log.
LEMMA PushLog ==
    ASSUME NEW p \in Hashes, NEW s \in Seq(Hashes)
    PROVE  LET q == <<p>> \o s
           IN  /\ q # <<>> /\ q[1] = p
               /\ DOMAIN q = 1 .. Len(s) + 1 /\ DOMAIN s = 1 .. Len(s)
               /\ Len(s) \in Nat
               /\ \A i \in 1 .. Len(s) : q[i + 1] = s[i]
OBVIOUS

\* Nothing is to be remembered at the start.
LEMMA InitRemembers == Init => RInv
<1> SUFFICES ASSUME Init PROVE RInv
  OBVIOUS
<1>1. SeedHash \in Hashes
  BY DEF Hashes
<1>2. \A u \in Users : log[u] = <<SeedHash>> /\ row[u].hash = SeedHash
  BY DEF Init, NewRow
<1>3. users \subseteq Users
  BY AccountsAssumption DEF Init
<1>4. \A u \in users : DOMAIN log[u] = {1}
  BY <1>2, <1>3
<1>5. \A u \in users : LogTold(u)
  BY <1>2, <1>3, <1>4 DEF LogTold
<1>6. NoRecentReuse
  BY <1>4 DEF NoRecentReuse
<1> QED
  BY <1>5, <1>6 DEF RInv

\* The three newest passwords of the log are refused.
LEMMA ToldIsRecent ==
    ASSUME NEW u, LogTold(u), row[u] \in Rows, log[u] \in Seq(Hashes)
    PROVE  \A i \in 1 .. 3 : i \in DOMAIN log[u] => log[u][i] \in Recent(row[u])
<1> DEFINE r == row[u]
<1> DEFINE q == FirstThree(<<r.hash>> \o r.past)
<1>1. r.hash \in Hashes /\ r.past \in Seq(Hashes)
  BY DEF Rows
<1>2. /\ 1 \in DOMAIN q /\ q[1] = r.hash
      /\ \A i \in {1, 2} :
            i \in DOMAIN r.past => i + 1 \in DOMAIN q /\ q[i + 1] = r.past[i]
  BY <1>1, FirstThreeValues
<1>3. \A i \in DOMAIN q : q[i] \in Recent(r)
  BY DEF Recent
<1> HIDE DEF q
<1>4. log[u][1] \in Recent(r)
  BY <1>2, <1>3 DEF LogTold
<1>5. ASSUME NEW i \in {1, 2}, i + 1 \in DOMAIN log[u]
      PROVE  log[u][i + 1] \in Recent(r)
  BY <1>2, <1>3, <1>5 DEF LogTold
<1>6. (2 \in DOMAIN log[u] => log[u][2] \in Recent(r))
      /\ (3 \in DOMAIN log[u] => log[u][3] \in Recent(r))
  BY <1>5
<1> QED
  BY <1>4, <1>6

\* A commit that sets a password which the row as loaded does not refuse.
LEMMA SetRemembers ==
    ASSUME AInv, RInv, NEW t \in Threads, EndCall(t), SetsPassword(call[t]),
           NEW u \in Users \ raced, call[t].user = u
    PROVE  /\ LogTold(u)'
           /\ \A i, j \in DOMAIN log'[u] :
                 i < j /\ j <= i + 3 => log'[u][i] # log'[u][j]
<1> DEFINE c == call[t]
<1> DEFINE p == c.new.hash
<1> DEFINE s == log[u]
<1>1. /\ c \in Calls /\ Running(t) /\ Shape(c) /\ u \in Users /\ u \in users
      /\ row[u] \in Rows /\ row'[u] \in Rows
  BY EndCallWrites
<1>2. OnPassword(c)
  BY DEF OnPassword
<1>3. SamePassword(row'[u], c.new) /\ SamePassword(c.old, row[u])
  BY <1>1, <1>2, PasswordWrites DEF AInv, Fresh
<1>4. p \in Hashes /\ s \in Seq(Hashes)
  BY <1>1 DEF Calls, Rows, AInv, TypeOK
<1>5. log'[u] = <<p>> \o s
  BY <1>1 DEF EndCall, Remember, AInv, TypeOK
<1> DEFINE q == <<p>> \o s
<1>6. /\ q # <<>> /\ q[1] = p
      /\ DOMAIN q = 1 .. Len(s) + 1 /\ DOMAIN s = 1 .. Len(s)
      /\ Len(s) \in Nat
      /\ \A i \in 1 .. Len(s) : q[i + 1] = s[i]
  BY <1>4, PushLog
<1>7. LogTold(u)
  BY <1>1 DEF RInv
<1>8. /\ row[u].hash \in Hashes /\ row[u].past \in Seq(Hashes)
      /\ row'[u].hash = p
      /\ row'[u].past = FirstThree(<<row[u].hash>> \o row[u].past)
  BY <1>1, <1>3 DEF SamePassword, Shape, Rows
<1> DEFINE w == FirstThree(<<row[u].hash>> \o row[u].past)
<1>9. /\ 1 \in DOMAIN w /\ w[1] = row[u].hash
      /\ \A i \in {1, 2} : i \in DOMAIN row[u].past =>
            i + 1 \in DOMAIN w /\ w[i + 1] = row[u].past[i]
  BY <1>8, FirstThreeValues
<1>10. row'[u].past = w /\ log'[u] = q
  BY <1>5, <1>8
<1>11. \A i \in 1 .. 3 : i \in DOMAIN s => s[i] # p
  <2>1. Recent(c.old) = Recent(row[u])
    BY <1>3 DEF SamePassword, Recent
  <2>2. p \notin Recent(row[u])
    BY <1>1, <2>1 DEF Shape
  <2> QED
    BY <1>1, <1>4, <1>7, <2>2, ToldIsRecent
<1> HIDE DEF q, w, s
<1>12. LogTold(u)'
  <2>1. log'[u] # <<>> /\ log'[u][1] = row'[u].hash
    BY <1>6, <1>8, <1>10
  <2>2. ASSUME NEW i \in {1, 2}, i + 1 \in DOMAIN q
        PROVE  i \in DOMAIN w /\ w[i] = q[i + 1]
    <3>1. i \in 1 .. Len(s) /\ q[i + 1] = s[i]
      BY <1>6, <2>2
    <3>2. CASE i = 1
      BY <3>1, <3>2, <1>7, <1>9 DEF LogTold, s
    <3>3. CASE i = 2
      <4>1. 1 + 1 \in DOMAIN log[u] /\ 1 \in {1, 2}
        BY <3>1, <3>3, <1>6 DEF s
      <4>2. 1 \in DOMAIN row[u].past /\ row[u].past[1] = log[u][2]
        BY <4>1, <1>7 DEF LogTold
      <4> QED
        BY <3>1, <3>3, <4>2, <1>9 DEF s
    <3> QED
      BY <3>2, <3>3
  <2> QED
    BY <1>10, <2>1, <2>2 DEF LogTold
<1>13. \A i, j \in DOMAIN s : i < j /\ j <= i + 3 => s[i] # s[j]
  BY <1>1 DEF RInv, NoRecentReuse, s
<1>14. ASSUME NEW i \in DOMAIN q, NEW j \in DOMAIN q, i < j, j <= i + 3
       PROVE  q[i] # q[j]
  <2>1. j - 1 \in DOMAIN s /\ q[j] = s[j - 1]
    BY <1>6, <1>14
  <2>2. CASE i = 1
    BY <2>1, <2>2, <1>6, <1>11, <1>14
  <2>3. CASE i # 1
    <3>1. i - 1 \in DOMAIN s /\ q[i] = s[i - 1]
      BY <1>6, <1>14, <2>3
    <3> QED
      BY <3>1, <2>1, <1>6, <1>13, <1>14
  <2> QED
    BY <2>2, <2>3
<1> QED
  BY <1>10, <1>12, <1>14

\* What was remembered stays so in every step, by the kind of call.
LEMMA StepRemembers == AInv /\ RInv /\ [Next]_vars => RInv'
<1> SUFFICES ASSUME AInv, RInv, [Next]_vars PROVE RInv'
  OBVIOUS
<1> DEFINE Quiet(u) == log'[u] = log[u] /\ row'[u].hash = row[u].hash
                       /\ row'[u].past = row[u].past
<1>1. ASSUME users' = users, raced \subseteq raced',
             \A u \in users \ raced : Quiet(u)
      PROVE  RInv'
  BY <1>1 DEF RInv, NoRecentReuse, LogTold
<1>2. row \in [Users -> Rows] /\ users \subseteq Users /\ log \in [Users -> Seq(Hashes)]
  BY DEF AInv, TypeOK
<1>3. ASSUME NEW t \in Threads, NEW u \in Users, UserStep(t, u)
      PROVE  RInv'
  <2>1. users' = users /\ row' = row /\ log' = log /\ raced \subseteq raced'
    BY <1>3 DEF UserStep, ChangePassword, ResetPassword, AdminResetPassword,
                UpdateUser, ForgotPassword, Load
  <2> QED
    BY <2>1, <1>1
<1>4. ASSUME NEW t \in Threads, EndCall(t)
      PROVE  RInv'
  <2> DEFINE c == call[t]
  <2>1. /\ c \in Calls /\ Shape(c) /\ c.user \in Users
        /\ row'[c.user] = Commit(row[c.user], c.old, c.new)
        /\ \A u \in Users \ {c.user} : row'[u] = row[u]
        /\ users' = users /\ raced' = raced
    BY <1>4, EndCallWrites
  <2>2. \A u \in Users \ {c.user} : log'[u] = log[u]
    BY <1>2, <1>4 DEF EndCall, Remember
  <2>3. CASE c.user \in raced
    BY <2>1, <2>2, <2>3, <1>1, <1>2
  <2>4. CASE ~SetsPassword(c)
    <3>1. c.new.hash = c.old.hash /\ c.new.past = c.old.past
      BY <2>1, <2>4 DEF Shape, SetsPassword
    <3>2. row'[c.user].hash = row[c.user].hash /\ row'[c.user].past = row[c.user].past
      BY <2>1, <3>1 DEF Commit
    <3>3. log' = log
      BY <1>4, <2>4 DEF EndCall
    <3> QED
      BY <2>1, <3>2, <3>3, <1>1, <1>2
  <2>5. CASE SetsPassword(c) /\ c.user \notin raced
    <3>1. PICK u \in Users \ raced : u = c.user
      BY <2>1, <2>5
    <3>2. /\ LogTold(u)'
          /\ \A i, j \in DOMAIN log'[u] :
                i < j /\ j <= i + 3 => log'[u][i] # log'[u][j]
      BY <1>4, <2>5, <3>1, SetRemembers
    <3>3. \A v \in users \ raced : v # u => LogTold(v)'
      BY <2>1, <2>2, <3>1, <1>2 DEF RInv, LogTold
    <3>4. \A v \in users \ raced : LogTold(v)'
      BY <3>2, <3>3
    <3>5. \A v \in users \ raced : \A i, j \in DOMAIN log'[v] :
             i < j /\ j <= i + 3 => log'[v][i] # log'[v][j]
      BY <3>1, <3>2, <2>2, <1>2 DEF RInv, NoRecentReuse
    <3> QED
      BY <2>1, <3>4, <3>5 DEF RInv, NoRecentReuse
  <2> QED
    BY <2>3, <2>4, <2>5
<1>5. ASSUME NEW t \in Threads, Rollback(t)
      PROVE  RInv'
  BY <1>5, <1>1 DEF Rollback, history
<1>6. ASSUME NEW u \in Users, NEW p \in Passwords, NEW active \in BOOLEAN,
             CreateUser(u, p, active)
      PROVE  RInv'
  <2> DEFINE n == WithPassword(NewRow(Pending, active), p, TRUE)
  <2>1. n.hash = p
    <3>1. NewRow(Pending, active) \in Rows
      BY NewRowType DEF Hashes
    <3> QED
      BY <3>1 DEF WithPassword, Rows
  <2> HIDE DEF n
  <2>2. /\ u \notin users /\ users' = users \cup {u} /\ raced' = raced
        /\ row'[u] = n /\ log'[u] = <<p>>
        /\ \A v \in users : row'[v] = row[v] /\ log'[v] = log[v]
    BY <1>2, <1>6 DEF CreateUser, history, n
  <2>3. DOMAIN log'[u] = {1} /\ log'[u][1] = p /\ log'[u] # <<>>
    BY <2>2
  <2>4. LogTold(u)'
    BY <2>1, <2>2, <2>3 DEF LogTold
  <2>5. \A v \in users \ raced : LogTold(v)'
    BY <2>2 DEF RInv, LogTold
  <2>6. NoRecentReuse'
    BY <2>2, <2>3 DEF RInv, NoRecentReuse
  <2> QED
    BY <2>2, <2>4, <2>5, <2>6 DEF RInv
<1>7. CASE Restart
  <2>1. \A u \in Users : row'[u].hash = row[u].hash /\ row'[u].past = row[u].past
    BY <1>2, <1>7 DEF Restart, AsSeeded, Rows
  <2> QED
    BY <2>1, <1>1, <1>2, <1>7 DEF Restart, history
<1>8. CASE UNCHANGED vars
  BY <1>8, <1>1 DEF vars, history
<1> QED
  BY <1>3, <1>4, <1>5, <1>6, <1>7, <1>8 DEF Next

\* Whatever calls set them, a password is none of the three before it.
THEOREM PasswordsAreNotReused == Spec => []NoRecentReuse
<1>1. RInv => NoRecentReuse
  BY DEF RInv
<1> QED
  BY <1>1, InitHolds, StepKeeps, InitRemembers, StepRemembers, PTL DEF Spec

-----------------------------------------------------------------------------
(* The portals.                                                            *)

(* The library's operators under the names they have in the portals.       *)
LEMMA Counted ==
    \A S : Customer!Cardinality(S) = Cardinality(S) /\ Supplier!Cardinality(S) = Cardinality(S)
  BY DEF Customer!Cardinality, Supplier!Cardinality, Cardinality

\* The calls of c that are about to write an entry of a kind, and those that are
\* about to add a session of user r.
Entering(c, kind) == {t \in Threads : c[t] # None /\ c[t].at = "entry" /\ c[t].kind = kind}
SigningIn(c, r) == {t \in Threads : c[t] # None /\ c[t].at = "session" /\ c[t].of = r}

\* Every row of a kind has its entry, or a call that will write it.
Told(list, c, kind) == list.rows[kind] = list.trail[kind] + Cardinality(Entering(c, kind))

\* Users who are disabled and the logins on their way leave a thread to spare.
Spares(user, c, r) ==
    IF user.status = "Disabled"
    THEN user.late + Cardinality(SigningIn(c, r)) < Cardinality(Threads)
    ELSE user.late = 0

(* A set of threads is finite.                                             *)
LEMMA SomeThreads ==
    ASSUME NEW S, S \subseteq Threads
    PROVE  IsFiniteSet(S) /\ Cardinality(S) \in Nat
  BY PortalAssumption, FS_Subset, FS_CardinalityType

(* One thread more, one thread less.                                       *)
LEMMA OneMore ==
    ASSUME NEW S, NEW U, U \subseteq Threads, NEW t \in Threads, t \notin S, U = S \cup {t}
    PROVE  Cardinality(U) = Cardinality(S) + 1 /\ Cardinality(S) \in Nat
<1>1. S \subseteq Threads
  OBVIOUS
<1>2. IsFiniteSet(S) /\ Cardinality(S) \in Nat
  BY <1>1, SomeThreads
<1> QED
  BY <1>2, FS_AddElement

\* From c to d nobody but t has moved, though what others checked may have changed.
Others(c, d, t) ==
    \A u \in Threads \ {t} :
        /\ d[u] = None <=> c[u] = None
        /\ c[u] # None => d[u].at = c[u].at /\ d[u].kind = c[u].kind /\ d[u].of = c[u].of

(* Who writes an entry, and who adds a session, is up to the one that      *)
(* moves.                                                                  *)
LEMMA EnteringKept ==
    ASSUME NEW c, NEW d, NEW t \in Threads, Others(c, d, t), NEW kind,
           t \in Entering(c, kind) <=> t \in Entering(d, kind)
    PROVE  Entering(d, kind) = Entering(c, kind)
  BY DEF Entering, Others

(* So is who adds a session.                                               *)
LEMMA SigningKept ==
    ASSUME NEW c, NEW d, NEW t \in Threads, Others(c, d, t), NEW r,
           t \in SigningIn(c, r) <=> t \in SigningIn(d, r)
    PROVE  SigningIn(d, r) = SigningIn(c, r)
  BY DEF SigningIn, Others

(* A thread more that writes an entry.                                     *)
LEMMA EnteringGrows ==
    ASSUME NEW c, NEW d, NEW t \in Threads, Others(c, d, t), NEW kind,
           t \notin Entering(c, kind), t \in Entering(d, kind)
    PROVE  /\ Cardinality(Entering(d, kind)) = Cardinality(Entering(c, kind)) + 1
           /\ Cardinality(Entering(c, kind)) \in Nat
<1>1. Entering(d, kind) = Entering(c, kind) \cup {t} /\ Entering(d, kind) \subseteq Threads
  BY DEF Entering, Others
<1> QED
  BY <1>1, OneMore

(* A thread less that does.                                                *)
LEMMA EnteringShrinks ==
    ASSUME NEW c, NEW d, NEW t \in Threads, Others(c, d, t), NEW kind,
           t \in Entering(c, kind), t \notin Entering(d, kind)
    PROVE  /\ Cardinality(Entering(c, kind)) = Cardinality(Entering(d, kind)) + 1
           /\ Cardinality(Entering(d, kind)) \in Nat
<1>1. Entering(c, kind) = Entering(d, kind) \cup {t} /\ Entering(c, kind) \subseteq Threads
  BY DEF Entering, Others
<1> QED
  BY <1>1, OneMore

(* A thread less that adds a session.                                      *)
LEMMA SigningShrinks ==
    ASSUME NEW c, NEW d, NEW t \in Threads, Others(c, d, t), NEW r,
           t \in SigningIn(c, r), t \notin SigningIn(d, r)
    PROVE  /\ Cardinality(SigningIn(c, r)) = Cardinality(SigningIn(d, r)) + 1
           /\ Cardinality(SigningIn(d, r)) \in Nat
<1>1. SigningIn(c, r) = SigningIn(d, r) \cup {t} /\ SigningIn(c, r) \subseteq Threads
  BY DEF SigningIn, Others
<1> QED
  BY <1>1, OneMore

(* While a thread is in no call, not all of them are signing a user in.    *)
LEMMA OneToSpare ==
    ASSUME NEW c, NEW t \in Threads, c[t] = None, NEW r
    PROVE  Cardinality(SigningIn(c, r)) < Cardinality(Threads)
<1>1. SigningIn(c, r) \cup {t} \subseteq Threads /\ t \notin SigningIn(c, r)
  BY DEF SigningIn
<1>2. /\ Cardinality(SigningIn(c, r) \cup {t}) = Cardinality(SigningIn(c, r)) + 1
      /\ Cardinality(SigningIn(c, r)) \in Nat
  BY <1>1, OneMore
<1>3. /\ Cardinality(SigningIn(c, r) \cup {t}) <= Cardinality(Threads)
      /\ Cardinality(Threads) \in Nat
  BY <1>1, PortalAssumption, FS_Subset, FS_CardinalityType
<1> QED
  BY <1>2, <1>3

(* A call's next step, and the others stay where they are.                 *)
LEMMA Moves ==
    ASSUME NEW c, NEW steps, c \in [Threads -> steps \cup {None}], NEW t \in Threads,
           NEW d, NEW next \in steps \cup {None}, d = [c EXCEPT ![t] = next]
    PROVE  d \in [Threads -> steps \cup {None}] /\ Others(c, d, t) /\ d[t] = next
  BY DEF Others

-----------------------------------------------------------------------------
(* What one step of a call does to the rows and entries of a list, to the  *)
(* sessions its users have, and to what it has shown.                      *)
TrailStep(list, next, c, d, t, kinds) ==
    \/ /\ next.trail = list.trail
       /\ \E kind \in kinds :
             /\ next.rows = [list.rows EXCEPT ![kind] = @ + 1]
             /\ \A k \in kinds : t \notin Entering(c, k)
             /\ \A k \in kinds : t \in Entering(d, k) <=> k = kind
    \/ /\ next.rows = list.rows
       /\ \E kind \in kinds :
             /\ next.trail = [list.trail EXCEPT ![kind] = @ + 1]
             /\ \A k \in kinds : t \in Entering(c, k) <=> k = kind
             /\ \A k \in kinds : t \notin Entering(d, k)
    \/ /\ next.rows = list.rows /\ next.trail = list.trail
       /\ \A k \in kinds : t \notin Entering(c, k) /\ t \notin Entering(d, k)

(* Such a step leaves every row with its entry or its call.                *)
LEMMA TrailKept ==
    ASSUME NEW c, NEW d, NEW t \in Threads, Others(c, d, t), NEW kinds, NEW list, NEW next,
           list.rows \in [kinds -> Nat], list.trail \in [kinds -> Nat],
           \A k \in kinds : Told(list, c, k),
           TrailStep(list, next, c, d, t, kinds)
    PROVE  \A k \in kinds : Told(next, d, k)
<1> SUFFICES ASSUME NEW k \in kinds PROVE Told(next, d, k)
  OBVIOUS
<1>0. list.rows[k] \in Nat /\ list.trail[k] \in Nat /\ Told(list, c, k)
  OBVIOUS
<1>t. Cardinality(Entering(c, k)) \in Nat
  BY SomeThreads DEF Entering
<1>1. CASE /\ next.trail = list.trail
           /\ \E kind \in kinds :
                 /\ next.rows = [list.rows EXCEPT ![kind] = @ + 1]
                 /\ \A x \in kinds : t \notin Entering(c, x)
                 /\ \A x \in kinds : t \in Entering(d, x) <=> x = kind
  <2> PICK kind \in kinds :
         /\ next.rows = [list.rows EXCEPT ![kind] = @ + 1]
         /\ \A x \in kinds : t \notin Entering(c, x)
         /\ \A x \in kinds : t \in Entering(d, x) <=> x = kind
    BY <1>1
  <2>1. CASE k = kind
    <3>1. t \notin Entering(c, k) /\ t \in Entering(d, k)
      BY <2>1
    <3>2. Cardinality(Entering(d, k)) = Cardinality(Entering(c, k)) + 1
      BY <3>1, EnteringGrows
    <3> QED
      BY <1>0, <1>1, <1>t, <2>1, <3>2 DEF Told
  <2>2. CASE k # kind
    <3>1. t \in Entering(c, k) <=> t \in Entering(d, k)
      BY <2>2
    <3>2. Entering(d, k) = Entering(c, k)
      BY <3>1, EnteringKept
    <3> QED
      BY <1>0, <1>1, <2>2, <3>2 DEF Told
  <2> QED
    BY <2>1, <2>2
<1>2. CASE /\ next.rows = list.rows
           /\ \E kind \in kinds :
                 /\ next.trail = [list.trail EXCEPT ![kind] = @ + 1]
                 /\ \A x \in kinds : t \in Entering(c, x) <=> x = kind
                 /\ \A x \in kinds : t \notin Entering(d, x)
  <2> PICK kind \in kinds :
         /\ next.trail = [list.trail EXCEPT ![kind] = @ + 1]
         /\ \A x \in kinds : t \in Entering(c, x) <=> x = kind
         /\ \A x \in kinds : t \notin Entering(d, x)
    BY <1>2
  <2>1. CASE k = kind
    <3>1. t \in Entering(c, k) /\ t \notin Entering(d, k)
      BY <2>1
    <3>2. /\ Cardinality(Entering(c, k)) = Cardinality(Entering(d, k)) + 1
          /\ Cardinality(Entering(d, k)) \in Nat
      BY <3>1, EnteringShrinks
    <3> QED
      BY <1>0, <1>2, <2>1, <3>2 DEF Told
  <2>2. CASE k # kind
    <3>1. t \in Entering(c, k) <=> t \in Entering(d, k)
      BY <2>2
    <3>2. Entering(d, k) = Entering(c, k)
      BY <3>1, EnteringKept
    <3> QED
      BY <1>0, <1>2, <2>2, <3>2 DEF Told
  <2> QED
    BY <2>1, <2>2
<1>3. CASE /\ next.rows = list.rows /\ next.trail = list.trail
           /\ \A x \in kinds : t \notin Entering(c, x) /\ t \notin Entering(d, x)
  <2>1. Entering(d, k) = Entering(c, k)
    BY <1>3, EnteringKept
  <2> QED
    BY <1>0, <1>3, <2>1 DEF Told
<1> QED
  BY <1>1, <1>2, <1>3 DEF TrailStep

\* What a step does to user r: nothing to the user, and a login may only be on its
\* way to one who is active; a session more; another status; or an invitation.
LateStep(people, next, c, d, t, r) ==
    \/ /\ r \in DOMAIN people
       /\ next[r].status = people[r].status /\ next[r].late = people[r].late
       /\ t \in SigningIn(d, r) => t \in SigningIn(c, r) \/ people[r].status # "Disabled"
    \/ /\ r \in DOMAIN people
       /\ next[r].status = people[r].status
       /\ next[r].late = (IF people[r].status = "Disabled" THEN people[r].late + 1
                                                          ELSE people[r].late)
       /\ t \in SigningIn(c, r) /\ t \notin SigningIn(d, r)
    \/ /\ r \in DOMAIN people
       /\ c[t] = None /\ t \notin SigningIn(d, r)
       /\ next[r].late = (IF next[r].status = "Disabled" THEN people[r].late ELSE 0)
    \/ next[r].status # "Disabled" /\ next[r].late = 0

(* Such a step leaves a thread to spare.                                   *)
LEMMA LateKept ==
    ASSUME NEW c, NEW d, NEW t \in Threads, Others(c, d, t), NEW people, NEW next, NEW r,
           r \in DOMAIN people => people[r].late \in Nat /\ Spares(people[r], c, r),
           LateStep(people, next, c, d, t, r)
    PROVE  Spares(next[r], d, r)
<1>0. /\ Cardinality(Threads) \in Nat
      /\ Cardinality(SigningIn(c, r)) \in Nat /\ Cardinality(SigningIn(d, r)) \in Nat
  BY SomeThreads DEF SigningIn
<1>1. CASE /\ r \in DOMAIN people
           /\ next[r].status = people[r].status /\ next[r].late = people[r].late
           /\ t \in SigningIn(d, r) => t \in SigningIn(c, r) \/ people[r].status # "Disabled"
  <2>1. CASE people[r].status # "Disabled"
    BY <1>1, <2>1 DEF Spares
  <2>2. CASE people[r].status = "Disabled"
    <3>1. CASE t \in SigningIn(c, r) <=> t \in SigningIn(d, r)
      <4>1. SigningIn(d, r) = SigningIn(c, r)
        BY <3>1, SigningKept
      <4> QED
        BY <1>1, <2>2, <4>1 DEF Spares
    <3>2. CASE t \in SigningIn(c, r) /\ t \notin SigningIn(d, r)
      <4>1. Cardinality(SigningIn(c, r)) = Cardinality(SigningIn(d, r)) + 1
        BY <3>2, SigningShrinks
      <4> QED
        BY <1>0, <1>1, <2>2, <4>1 DEF Spares
    <3> QED
      BY <1>1, <2>2, <3>1, <3>2
  <2> QED
    BY <2>1, <2>2
<1>2. CASE /\ r \in DOMAIN people
           /\ next[r].status = people[r].status
           /\ next[r].late = (IF people[r].status = "Disabled" THEN people[r].late + 1
                                                              ELSE people[r].late)
           /\ t \in SigningIn(c, r) /\ t \notin SigningIn(d, r)
  <2>1. Cardinality(SigningIn(c, r)) = Cardinality(SigningIn(d, r)) + 1
    BY <1>2, SigningShrinks
  <2> QED
    BY <1>0, <1>2, <2>1 DEF Spares
<1>3. CASE /\ r \in DOMAIN people
           /\ c[t] = None /\ t \notin SigningIn(d, r)
           /\ next[r].late = (IF next[r].status = "Disabled" THEN people[r].late ELSE 0)
  <2>1. SigningIn(d, r) = SigningIn(c, r)
    BY <1>3, SigningKept DEF SigningIn
  <2>2. Cardinality(SigningIn(c, r)) < Cardinality(Threads)
    BY <1>3, OneToSpare
  <2> QED
    BY <1>0, <1>3, <2>1, <2>2 DEF Spares
<1>4. CASE next[r].status # "Disabled" /\ next[r].late = 0
  BY <1>4 DEF Spares
<1> QED
  BY <1>1, <1>2, <1>3, <1>4 DEF LateStep

(* A thread to spare is more than a user's late sessions.                  *)
LEMMA LateIsFew ==
    ASSUME NEW c, NEW r, NEW user, user.late \in Nat, Spares(user, c, r)
    PROVE  user.late < Cardinality(Threads)
<1>1. Cardinality(Threads) \in Nat /\ Cardinality(SigningIn(c, r)) \in Nat
  BY SomeThreads DEF SigningIn
<1>2. Cardinality(Threads) # 0
  BY PortalAssumption, FS_EmptySet
<1> QED
  BY <1>1, <1>2 DEF Spares

(* One user of a list is another.                                          *)
LEMMA UserSet ==
    ASSUME NEW U, NEW people \in Seq(U), NEW r \in DOMAIN people, NEW user \in U,
           NEW next, next = [people EXCEPT ![r] = user]
    PROVE  /\ next \in Seq(U) /\ DOMAIN next = DOMAIN people /\ next[r] = user
           /\ \A q \in DOMAIN people : q # r => next[q] = people[q]
  BY ExceptSeq

(* One user more on a list.                                                *)
LEMMA UserAdded ==
    ASSUME NEW U, NEW people \in Seq(U), NEW user \in U, NEW next, next = Append(people, user)
    PROVE  /\ next \in Seq(U)
           /\ \E n \in Nat : /\ n \notin DOMAIN people
                             /\ DOMAIN next = DOMAIN people \cup {n} /\ next[n] = user
           /\ \A q \in DOMAIN people : next[q] = people[q]
<1>1. /\ next \in Seq(U) /\ Len(next) = Len(people) + 1
      /\ \A q \in 1 .. Len(people) : next[q] = people[q]
      /\ next[Len(people) + 1] = user
  BY AppendProperties
<1>2. DOMAIN people = 1 .. Len(people) /\ Len(people) \in Nat /\ DOMAIN next = 1 .. Len(next)
  BY <1>1, LenProperties
<1>3. Len(people) + 1 \notin DOMAIN people /\ DOMAIN next = DOMAIN people \cup {Len(people) + 1}
  BY <1>1, <1>2
<1> QED
  BY <1>1, <1>2, <1>3

(* A list of users numbers them.                                           *)
LEMMA UsersNumbered ==
    ASSUME NEW U, NEW people \in Seq(U), NEW r \in DOMAIN people
    PROVE  r \in Nat /\ people[r] \in U
<1>1. DOMAIN people = 1 .. Len(people) /\ Len(people) \in Nat /\ people \in [1 .. Len(people) -> U]
  BY LenProperties
<1> QED
  BY <1>1

-----------------------------------------------------------------------------
(* The customer portal.                                                    *)
CustomerUsers ==
    [email : Emails, status : {"Active", "Invited", "Disabled"}, late : Nat]
Shown == SUBSET [own : BOOLEAN, moved : BOOLEAN]

CustomerTypes ==
    [users : Seq(CustomerUsers), rows : [Customer!Kinds -> Nat],
     trail : [Customer!Kinds -> Nat], filed : Nat, owner : {"own", "other"}, used : Shown]

CustomerTyped ==
    customer \in CustomerTypes /\ customerCall \in [Threads -> Customer!Steps \cup {None}]

\* A login knows a user on file; what was found is the customer's own, or moved.
CustomerKnows(t) ==
    customerCall[t] # None =>
        /\ customerCall[t].at = "session" => customerCall[t].of \in DOMAIN customer.users
        /\ customerCall[t].at \in {"page", "return"} =>
              customer.owner = "own" \/ customerCall[t].moved

CustomerInv ==
    /\ CustomerTyped
    /\ \A kind \in Customer!Kinds : Told(customer, customerCall, kind)
    /\ \A r \in DOMAIN customer.users : Spares(customer.users[r], customerCall, r)
    /\ \A t \in Threads : CustomerKnows(t)
    /\ Customer!OwnWhenAsked

(* What a step of the customer portal is, and what all steps have in       *)
(* common.                                                                 *)
LEMMA CustomerMoves ==
    ASSUME CustomerTyped, NEW t \in Threads, NEW next \in Customer!Steps \cup {None},
           Customer!Begin(t, next) \/ Customer!Go(t, next)
    PROVE  /\ customerCall' \in [Threads -> Customer!Steps \cup {None}]
           /\ Others(customerCall, customerCall', t) /\ customerCall'[t] = next
           /\ \A u \in Threads \ {t} : customerCall'[u] = customerCall[u]
<1>1. customerCall' = [customerCall EXCEPT ![t] = next]
  BY DEF Customer!Begin, Customer!Go
<1>2. customerCall \in [Threads -> Customer!Steps \cup {None}]
  BY DEF CustomerTyped
<1>3. /\ customerCall' \in [Threads -> Customer!Steps \cup {None}]
      /\ Others(customerCall, customerCall', t) /\ customerCall'[t] = next
  BY <1>1, <1>2, Moves
<1> QED
  BY <1>1, <1>2, <1>3

(* A step of a call is told apart from no call.                            *)
LEMMA CustomerSteps ==
    ASSUME NEW at \in {"entry", "session", "page", "return"},
           NEW kind \in Customer!Kinds \cup {"page"}, NEW of \in Nat \cup {None}
    PROVE  /\ Customer!Step(at, kind, of) \in Customer!Steps
           /\ Customer!Step(at, kind, of) # None
           /\ Customer!Step(at, kind, of).at = at /\ Customer!Step(at, kind, of).kind = kind
           /\ Customer!Step(at, kind, of).of = of
<1>1. Customer!Step(at, kind, of) \in Customer!Steps
  BY DEF Customer!Step, Customer!Steps, Customer!StepsOf
<1> QED
  BY <1>1, PortalAssumption DEF Customer!Step

\* What every step of a call does.
CustomerGoes(t) ==
    /\ CustomerTyped'
    /\ Others(customerCall, customerCall', t)
    /\ TrailStep(customer, customer', customerCall, customerCall', t, Customer!Kinds)
    /\ \A r \in DOMAIN customer'.users :
          LateStep(customer.users, customer'.users, customerCall, customerCall', t, r)
    /\ \A u \in Threads : CustomerKnows(u)'
    /\ Customer!OwnWhenAsked'

(* A step that leaves users and orders alone.                              *)
LEMMA CustomerStays ==
    ASSUME CustomerInv, NEW t \in Threads, NEW next \in Customer!Steps \cup {None},
           Customer!Begin(t, next) \/ Customer!Go(t, next),
           next # None => next.at # "session",
           next # None /\ next.at \in {"page", "return"} => customer.owner = "own",
           customer' \in CustomerTypes,
           customer'.users = customer.users, customer'.owner = customer.owner,
           TrailStep(customer, customer', customerCall, customerCall', t, Customer!Kinds),
           Customer!OwnWhenAsked'
    PROVE  CustomerGoes(t)
<1>1. /\ customerCall' \in [Threads -> Customer!Steps \cup {None}]
      /\ Others(customerCall, customerCall', t) /\ customerCall'[t] = next
      /\ \A u \in Threads \ {t} : customerCall'[u] = customerCall[u]
  BY CustomerMoves DEF CustomerInv
<1>2. CustomerTyped'
  BY <1>1 DEF CustomerTyped, CustomerTypes
<1>3. ASSUME NEW r \in DOMAIN customer'.users
      PROVE  LateStep(customer.users, customer'.users, customerCall, customerCall', t, r)
  BY <1>1 DEF LateStep, SigningIn
<1>4. ASSUME NEW u \in Threads PROVE CustomerKnows(u)'
  <2>1. CustomerKnows(u)
    BY DEF CustomerInv
  <2> QED
    BY <1>1, <2>1 DEF CustomerKnows
<1> QED
  BY <1>1, <1>2, <1>3, <1>4 DEF CustomerGoes

(* A step that neither follows nor is followed by an entry.                *)
LEMMA CustomerQuiet ==
    ASSUME CustomerTyped, NEW t \in Threads, NEW next \in Customer!Steps \cup {None},
           Customer!Begin(t, next) \/ Customer!Go(t, next),
           customerCall[t] = None \/ customerCall[t].at # "entry",
           next # None => next.at # "entry",
           customer'.rows = customer.rows, customer'.trail = customer.trail
    PROVE  TrailStep(customer, customer', customerCall, customerCall', t, Customer!Kinds)
<1>1. customerCall'[t] = next
  BY CustomerMoves
<1> QED
  BY <1>1 DEF TrailStep, Entering

(* A step that adds a row is followed by its entry.                        *)
LEMMA CustomerFiles ==
    ASSUME CustomerTyped, NEW t \in Threads, NEW kind \in Customer!Kinds,
           NEW of \in Nat \cup {None}, NEW next, next = Customer!Step("entry", kind, of),
           Customer!Begin(t, next) \/ Customer!Go(t, next),
           customerCall[t] = None \/ customerCall[t].at # "entry",
           customer'.rows = [customer.rows EXCEPT ![kind] = @ + 1],
           customer'.trail = customer.trail
    PROVE  /\ next \in Customer!Steps /\ next # None /\ next.at = "entry"
           /\ TrailStep(customer, customer', customerCall, customerCall', t, Customer!Kinds)
<1>0. kind \in Customer!Kinds \cup {"page"}
  OBVIOUS
<1>1. next \in Customer!Steps /\ next # None /\ next.at = "entry" /\ next.kind = kind
  BY <1>0, CustomerSteps
<1>2. customerCall'[t] = next
  BY <1>1, CustomerMoves
<1> QED
  BY <1>1, <1>2 DEF TrailStep, Entering

(* The entry a row waits for.                                              *)
LEMMA CustomerAddEntry ==
    ASSUME CustomerInv, NEW t \in Threads, Customer!AddEntry(t)
    PROVE  CustomerGoes(t)
<1>1. PICK kind \in Customer!Kinds :
         /\ Customer!At(t, "entry") /\ customerCall[t].kind = kind
         /\ customer' = [customer EXCEPT !.trail[kind] = @ + 1]
         /\ Customer!Go(t, None)
  BY DEF Customer!AddEntry
<1>2. customer \in CustomerTypes
  BY DEF CustomerInv, CustomerTyped, CustomerTypes
<1> DEFINE more == [customer.trail EXCEPT ![kind] = @ + 1]
<1>a. more \in [Customer!Kinds -> Nat]
  BY <1>2 DEF CustomerTypes
<1>b. customer' = [customer EXCEPT !.trail = more]
  BY <1>1, <1>2 DEF CustomerTypes
<1> HIDE DEF more
<1>c. /\ customer' \in CustomerTypes /\ customer'.rows = customer.rows
      /\ customer'.users = customer.users /\ customer'.owner = customer.owner
      /\ customer'.used = customer.used
      /\ customer'.trail = more
  BY <1>a, <1>b, <1>2 DEF CustomerTypes
<1>3. /\ customer' \in CustomerTypes /\ customer'.rows = customer.rows
      /\ customer'.users = customer.users /\ customer'.owner = customer.owner
      /\ customer'.used = customer.used
      /\ customer'.trail = [customer.trail EXCEPT ![kind] = @ + 1]
  BY <1>c DEF more
<1>4. customerCall'[t] = None
  BY <1>1, CustomerMoves DEF CustomerInv
<1>5. TrailStep(customer, customer', customerCall, customerCall', t, Customer!Kinds)
  BY <1>1, <1>3, <1>4 DEF TrailStep, Entering, Customer!At
<1>6. Customer!OwnWhenAsked'
  BY <1>3 DEF CustomerInv, Customer!OwnWhenAsked
<1> QED
  BY <1>1, <1>3, <1>5, <1>6, CustomerStays

(* A row that is filed at once.                                            *)
LEMMA CustomerRecorded ==
    ASSUME CustomerInv, NEW t \in Threads, NEW kind \in Customer!Kinds,
           Customer!Recorded(t, kind)
    PROVE  CustomerGoes(t)
<1> DEFINE next == Customer!Step("entry", kind, None)
<1>1. /\ Customer!Begin(t, next)
      /\ customer' = [customer EXCEPT !.rows[kind] = @ + 1]
  BY DEF Customer!Recorded, Customer!Row
<1>2. customer \in CustomerTypes
  BY DEF CustomerInv, CustomerTyped, CustomerTypes
<1> DEFINE more == [customer.rows EXCEPT ![kind] = @ + 1]
<1>a. more \in [Customer!Kinds -> Nat]
  BY <1>2 DEF CustomerTypes
<1>b. customer' = [customer EXCEPT !.rows = more]
  BY <1>1, <1>2 DEF CustomerTypes
<1> HIDE DEF more
<1>c. /\ customer' \in CustomerTypes /\ customer'.trail = customer.trail
      /\ customer'.users = customer.users /\ customer'.owner = customer.owner
      /\ customer'.used = customer.used
      /\ customer'.rows = more
  BY <1>a, <1>b, <1>2 DEF CustomerTypes
<1>3. /\ customer' \in CustomerTypes /\ customer'.trail = customer.trail
      /\ customer'.users = customer.users /\ customer'.owner = customer.owner
      /\ customer'.used = customer.used
      /\ customer'.rows = [customer.rows EXCEPT ![kind] = @ + 1]
  BY <1>c DEF more
<1>4. customerCall[t] = None
  BY <1>1 DEF Customer!Begin
<1>5. /\ next \in Customer!Steps /\ next # None /\ next.at = "entry"
      /\ TrailStep(customer, customer', customerCall, customerCall', t, Customer!Kinds)
  BY <1>1, <1>3, <1>4, CustomerFiles DEF CustomerInv
<1>6. Customer!OwnWhenAsked'
  BY <1>3 DEF CustomerInv, Customer!OwnWhenAsked
<1> HIDE DEF next
<1> QED
  BY <1>1, <1>3, <1>5, <1>6, CustomerStays

(* An order is the customer's own when it is found.                        *)
LEMMA CustomerFind ==
    ASSUME CustomerInv, NEW t \in Threads, NEW at \in {"page", "return"},
           Customer!Find(t, at)
    PROVE  CustomerGoes(t)
<1> DEFINE next == Customer!Step(at, at, None)
<1>1. Customer!Begin(t, next) /\ UNCHANGED customer /\ customer.owner = "own"
  BY DEF Customer!Find
<1>2. customer' \in CustomerTypes
  BY <1>1 DEF CustomerInv, CustomerTyped, CustomerTypes
<1>0. /\ at \in Customer!Kinds \cup {"page"} /\ at \in {"entry", "session", "page", "return"}
  BY DEF Customer!Kinds
<1> PICK of \in Nat \cup {None} : of = None
  OBVIOUS
<1>b. /\ Customer!Step(at, at, of) \in Customer!Steps /\ Customer!Step(at, at, of) # None
      /\ Customer!Step(at, at, of).at = at
  BY <1>0, CustomerSteps
<1>3. next \in Customer!Steps /\ next # None /\ next.at = at
  BY <1>b
<1>4. customerCall[t] = None
  BY <1>1 DEF Customer!Begin
<1> HIDE DEF next
<1>5. TrailStep(customer, customer', customerCall, customerCall', t, Customer!Kinds)
  BY <1>1, <1>3, <1>4, CustomerQuiet DEF CustomerInv
<1>6. Customer!OwnWhenAsked'
  BY <1>1 DEF CustomerInv, Customer!OwnWhenAsked
<1> QED
  BY <1>1, <1>2, <1>3, <1>5, <1>6, CustomerStays

(* What was found is shown: it is still the customer's own, or has moved.  *)
LEMMA CustomerUses ==
    ASSUME CustomerInv, NEW t \in Threads, customerCall[t] # None,
           customerCall[t].at \in {"page", "return"},
           customer'.used = customer.used \cup {Customer!Used(t)}
    PROVE  Customer!OwnWhenAsked' /\ (customer'.used \in Shown)
<1>1. customerCall[t].moved \in BOOLEAN
  BY DEF CustomerInv, CustomerTyped, Customer!Steps, Customer!StepsOf
<1>2. /\ Customer!Used(t) \in [own : BOOLEAN, moved : BOOLEAN]
      /\ Customer!Used(t).own <=> customer.owner = "own"
      /\ Customer!Used(t).moved <=> customerCall[t].moved
  BY <1>1 DEF Customer!Used
<1>3. CustomerKnows(t) /\ Customer!OwnWhenAsked /\ customer.used \in Shown
  BY DEF CustomerInv, CustomerTyped, CustomerTypes
<1>4. Customer!Used(t).own \/ Customer!Used(t).moved
  BY <1>2, <1>3 DEF CustomerKnows
<1> QED
  BY <1>2, <1>3, <1>4 DEF Shown, Customer!OwnWhenAsked

(* A page shows what was found.                                            *)
LEMMA CustomerShowOrder ==
    ASSUME CustomerInv, NEW t \in Threads, Customer!ShowOrder(t)
    PROVE  CustomerGoes(t)
<1> DEFINE more == customer.used \cup {Customer!Used(t)}
<1>1. /\ customerCall[t] # None /\ customerCall[t].at = "page"
      /\ customer' = [customer EXCEPT !.used = more]
      /\ Customer!Go(t, None)
  BY DEF Customer!ShowOrder, Customer!At
<1>2. customer \in CustomerTypes
  BY DEF CustomerInv, CustomerTyped, CustomerTypes
<1> HIDE DEF more
<1>a. customer'.used = more
  BY <1>1, <1>2 DEF CustomerTypes
<1>3. Customer!OwnWhenAsked' /\ (customer'.used \in Shown)
  BY <1>1, <1>a, CustomerUses DEF more
<1>4. /\ customer' \in CustomerTypes /\ customer'.rows = customer.rows
      /\ customer'.users = customer.users /\ customer'.owner = customer.owner
      /\ customer'.trail = customer.trail
  BY <1>1, <1>2, <1>3, <1>a DEF CustomerTypes
<1>5. TrailStep(customer, customer', customerCall, customerCall', t, Customer!Kinds)
  BY <1>1, <1>4, CustomerQuiet DEF CustomerInv
<1> QED
  BY <1>1, <1>3, <1>4, <1>5, CustomerStays

(* A return is of what was found.                                          *)
LEMMA CustomerAddReturn ==
    ASSUME CustomerInv, NEW t \in Threads, Customer!AddReturn(t)
    PROVE  CustomerGoes(t)
<1> DEFINE more == customer.used \cup {Customer!Used(t)}
           rows == [customer.rows EXCEPT !["return"] = @ + 1]
           next == Customer!Step("entry", "return", None)
<1>1. /\ customerCall[t] # None /\ customerCall[t].at = "return"
      /\ customer' = [customer EXCEPT !.rows["return"] = @ + 1, !.used = more]
      /\ Customer!Go(t, next)
  BY DEF Customer!AddReturn, Customer!At
<1>2. customer \in CustomerTypes /\ "return" \in Customer!Kinds
  BY DEF CustomerInv, CustomerTyped, CustomerTypes, Customer!Kinds
<1>a. rows \in [Customer!Kinds -> Nat]
  BY <1>2 DEF CustomerTypes
<1> HIDE DEF more
<1>b. customer' = [customer EXCEPT !.rows = rows, !.used = more]
  BY <1>1, <1>2 DEF CustomerTypes
<1> HIDE DEF rows, next
<1>c. customer'.used = more /\ customer'.rows = rows
  BY <1>b, <1>2 DEF CustomerTypes
<1>3. Customer!OwnWhenAsked' /\ (customer'.used \in Shown)
  BY <1>1, <1>c, CustomerUses DEF more
<1>4. /\ customer' \in CustomerTypes
      /\ customer'.users = customer.users /\ customer'.owner = customer.owner
      /\ customer'.trail = customer.trail
  BY <1>a, <1>b, <1>c, <1>2, <1>3 DEF CustomerTypes
<1>5. /\ next \in Customer!Steps /\ next # None /\ next.at = "entry"
      /\ TrailStep(customer, customer', customerCall, customerCall', t, Customer!Kinds)
  <2>1. next = Customer!Step("entry", "return", None) /\ None \in Nat \cup {None}
    BY DEF next
  <2>2. customer'.rows = [customer.rows EXCEPT !["return"] = @ + 1]
    BY <1>c DEF rows
  <2> QED
    BY <1>1, <1>2, <1>4, <2>1, <2>2, CustomerFiles DEF CustomerInv
<1> QED
  BY <1>1, <1>3, <1>4, <1>5, CustomerStays

(* A row nothing follows.                                                  *)
LEMMA CustomerFileRow ==
    ASSUME CustomerInv, NEW t \in Threads, Customer!FileRow(t)
    PROVE  CustomerGoes(t)
<1>1. /\ Customer!Begin(t, None)
      /\ customer' = [customer EXCEPT !.filed = @ + 1]
  BY DEF Customer!FileRow
<1>2. customer \in CustomerTypes
  BY DEF CustomerInv, CustomerTyped, CustomerTypes
<1> DEFINE more == customer.filed + 1
<1>a. more \in Nat
  BY <1>2 DEF CustomerTypes
<1>b. customer' = [customer EXCEPT !.filed = more]
  BY <1>1, <1>2 DEF CustomerTypes
<1> HIDE DEF more
<1>3. /\ customer' \in CustomerTypes /\ customer'.rows = customer.rows
      /\ customer'.users = customer.users /\ customer'.owner = customer.owner
      /\ customer'.trail = customer.trail /\ customer'.used = customer.used
  BY <1>a, <1>b, <1>2 DEF CustomerTypes
<1>4. customerCall[t] = None
  BY <1>1 DEF Customer!Begin
<1>5. TrailStep(customer, customer', customerCall, customerCall', t, Customer!Kinds)
  BY <1>1, <1>3, <1>4, CustomerQuiet DEF CustomerInv
<1>6. Customer!OwnWhenAsked'
  BY <1>3 DEF CustomerInv, Customer!OwnWhenAsked
<1> QED
  BY <1>1, <1>3, <1>5, <1>6, CustomerStays

(* An active user is found.                                                *)
LEMMA CustomerLogIn ==
    ASSUME CustomerInv, NEW t \in Threads, Customer!LogIn(t)
    PROVE  CustomerGoes(t)
<1>1. PICK r \in DOMAIN customer.users :
         /\ customer.users[r].status = "Active"
         /\ Customer!Begin(t, Customer!Step("session", "login", r))
         /\ UNCHANGED customer
  BY DEF Customer!LogIn, Customer!Matches
<1> DEFINE next == Customer!Step("session", "login", r)
<1>2. customer \in CustomerTypes /\ r \in Nat
  BY UsersNumbered DEF CustomerInv, CustomerTyped, CustomerTypes
<1>a. r \in Nat \cup {None} /\ "login" \in Customer!Kinds
  BY <1>2 DEF Customer!Kinds
<1>b. next \in Customer!Steps
  BY <1>a DEF Customer!Step, Customer!Steps, Customer!StepsOf
<1>3. next # None /\ next \in Customer!Steps /\ next.at = "session" /\ next.of = r
  BY <1>b, PortalAssumption DEF Customer!Step
<1> HIDE DEF next
<1>4. /\ customerCall' \in [Threads -> Customer!Steps \cup {None}]
      /\ Others(customerCall, customerCall', t) /\ customerCall'[t] = next
      /\ \A u \in Threads \ {t} : customerCall'[u] = customerCall[u]
  BY <1>1, <1>3, CustomerMoves DEF CustomerInv, next
<1>5. CustomerTyped'
  BY <1>1, <1>2, <1>4 DEF CustomerTyped, CustomerTypes
<1>6. TrailStep(customer, customer', customerCall, customerCall', t, Customer!Kinds)
  <2>1. customerCall[t] = None
    BY <1>1 DEF Customer!Begin
  <2> QED
    BY <1>1, <1>3, <1>4, <2>1 DEF TrailStep, Entering
<1>7. ASSUME NEW q \in DOMAIN customer'.users
      PROVE  LateStep(customer.users, customer'.users, customerCall, customerCall', t, q)
  BY <1>1, <1>3, <1>4 DEF LateStep, SigningIn
<1>8. ASSUME NEW u \in Threads PROVE CustomerKnows(u)'
  <2>1. CustomerKnows(u)
    BY DEF CustomerInv
  <2> QED
    BY <1>1, <1>3, <1>4, <2>1 DEF CustomerKnows
<1>9. Customer!OwnWhenAsked'
  BY <1>1 DEF CustomerInv, Customer!OwnWhenAsked
<1> QED
  BY <1>4, <1>5, <1>6, <1>7, <1>8, <1>9 DEF CustomerGoes

(* A step on users, which leaves the order and what was shown alone.       *)
LEMMA CustomerUsersGo ==
    ASSUME CustomerInv, NEW t \in Threads, NEW next \in Customer!Steps \cup {None},
           Customer!Begin(t, next) \/ Customer!Go(t, next),
           next # None => next.at = "entry",
           customer' \in CustomerTypes,
           DOMAIN customer.users \subseteq DOMAIN customer'.users,
           customer'.used = customer.used, customer'.owner = customer.owner,
           TrailStep(customer, customer', customerCall, customerCall', t, Customer!Kinds),
           \A r \in DOMAIN customer'.users :
              LateStep(customer.users, customer'.users, customerCall, customerCall', t, r)
    PROVE  CustomerGoes(t)
<1>1. /\ customerCall' \in [Threads -> Customer!Steps \cup {None}]
      /\ Others(customerCall, customerCall', t) /\ customerCall'[t] = next
      /\ \A u \in Threads \ {t} : customerCall'[u] = customerCall[u]
  BY CustomerMoves DEF CustomerInv
<1>2. CustomerTyped'
  BY <1>1 DEF CustomerTyped, CustomerTypes
<1>3. ASSUME NEW u \in Threads PROVE CustomerKnows(u)'
  <2>1. CustomerKnows(u)
    BY DEF CustomerInv
  <2> QED
    BY <1>1, <2>1 DEF CustomerKnows
<1>4. Customer!OwnWhenAsked'
  BY DEF CustomerInv, Customer!OwnWhenAsked
<1> QED
  BY <1>1, <1>2, <1>3, <1>4 DEF CustomerGoes

(* A user is given a status.                                               *)
LEMMA CustomerSetStatus ==
    ASSUME CustomerInv, NEW t \in Threads, NEW r \in DOMAIN customer.users,
           NEW status \in {"Active", "Disabled"},
           Customer!Begin(t, None), Customer!SetStatus(r, status)
    PROVE  CustomerGoes(t)
<1> DEFINE late == IF status = "Disabled" THEN customer.users[r].late ELSE 0
           user == [customer.users[r] EXCEPT !.status = status, !.late = late]
           people == [customer.users EXCEPT ![r] = user]
<1>2. /\ customer \in CustomerTypes /\ customer.users \in Seq(CustomerUsers)
      /\ customer.users[r] \in CustomerUsers
  BY UsersNumbered DEF CustomerInv, CustomerTyped, CustomerTypes
<1>3. user \in CustomerUsers /\ user.status = status /\ user.late = late
  BY <1>2 DEF CustomerUsers
<1>4. customer' = [customer EXCEPT !.users = people]
  BY <1>2 DEF Customer!SetStatus, CustomerTypes
<1> HIDE DEF user
<1>5. /\ people \in Seq(CustomerUsers) /\ DOMAIN people = DOMAIN customer.users
      /\ people[r] = user
      /\ \A q \in DOMAIN customer.users : q # r => people[q] = customer.users[q]
  BY <1>2, <1>3, UserSet
<1> HIDE DEF people
<1>6. /\ customer' \in CustomerTypes /\ customer'.users = people
      /\ customer'.rows = customer.rows /\ customer'.trail = customer.trail
      /\ customer'.used = customer.used /\ customer'.owner = customer.owner
  BY <1>2, <1>4, <1>5 DEF CustomerTypes
<1>7. customerCall[t] = None /\ customerCall'[t] = None
  BY CustomerMoves DEF Customer!Begin, CustomerInv
<1>8. TrailStep(customer, customer', customerCall, customerCall', t, Customer!Kinds)
  BY <1>6, <1>7 DEF TrailStep, Entering
<1>9. ASSUME NEW q \in DOMAIN customer'.users
      PROVE  LateStep(customer.users, customer'.users, customerCall, customerCall', t, q)
  <2>1. CASE q = r
    BY <1>3, <1>5, <1>6, <1>7, <2>1 DEF LateStep, SigningIn
  <2>2. CASE q # r
    BY <1>5, <1>6, <1>7, <2>2 DEF LateStep, SigningIn
  <2> QED
    BY <2>1, <2>2
<1> QED
  BY <1>5, <1>6, <1>8, <1>9, CustomerUsersGo

(* A session, for a user who was found active.                             *)
LEMMA CustomerAddSession ==
    ASSUME CustomerInv, NEW t \in Threads, Customer!AddSession(t)
    PROVE  CustomerGoes(t)
<1> DEFINE r == customerCall[t].of
           late == IF customer.users[r].status = "Disabled" THEN customer.users[r].late + 1
                                                            ELSE customer.users[r].late
           user == [customer.users[r] EXCEPT !.late = late]
           people == [customer.users EXCEPT ![r] = user]
           rows == [customer.rows EXCEPT !["login"] = @ + 1]
           next == Customer!Step("entry", "login", r)
<1>1. /\ customerCall[t] # None /\ customerCall[t].at = "session"
      /\ Customer!Go(t, next)
  BY DEF Customer!AddSession, Customer!At
<1>r. r \in DOMAIN customer.users
  BY <1>1 DEF CustomerInv, CustomerKnows
<1>2. /\ customer \in CustomerTypes /\ customer.users \in Seq(CustomerUsers)
      /\ r \in Nat /\ customer.users[r] \in CustomerUsers
  BY <1>r, UsersNumbered DEF CustomerInv, CustomerTyped, CustomerTypes
<1>3. user \in CustomerUsers /\ user.late = late /\ user.status = customer.users[r].status
  BY <1>2 DEF CustomerUsers
<1>k. "login" \in Customer!Kinds
  BY DEF Customer!Kinds
<1>a. rows \in [Customer!Kinds -> Nat]
  BY <1>2, <1>k DEF CustomerTypes
<1>4. customer' = [customer EXCEPT !.rows = rows, !.users = people]
  BY <1>2 DEF Customer!AddSession, CustomerTypes
<1> HIDE DEF user
<1>5. /\ people \in Seq(CustomerUsers) /\ DOMAIN people = DOMAIN customer.users
      /\ people[r] = user
      /\ \A q \in DOMAIN customer.users : q # r => people[q] = customer.users[q]
  BY <1>r, <1>2, <1>3, UserSet
<1>n. next = Customer!Step("entry", "login", r) /\ r \in Nat \cup {None}
      /\ rows = [customer.rows EXCEPT !["login"] = @ + 1]
  BY <1>2
<1> HIDE DEF people, rows, next
<1>6. /\ customer' \in CustomerTypes /\ customer'.users = people
      /\ customer'.rows = rows /\ customer'.trail = customer.trail
      /\ customer'.used = customer.used /\ customer'.owner = customer.owner
  BY <1>2, <1>4, <1>5, <1>a DEF CustomerTypes
<1>7. /\ next \in Customer!Steps /\ next # None /\ next.at = "entry"
      /\ TrailStep(customer, customer', customerCall, customerCall', t, Customer!Kinds)
  BY <1>1, <1>k, <1>n, <1>6, CustomerFiles DEF CustomerInv
<1>8. customerCall'[t] = next
  BY <1>1, <1>7, CustomerMoves DEF CustomerInv
<1>9. ASSUME NEW q \in DOMAIN customer'.users
      PROVE  LateStep(customer.users, customer'.users, customerCall, customerCall', t, q)
  <2>1. CASE q = r
    BY <1>1, <1>r, <1>3, <1>5, <1>6, <1>7, <1>8, <2>1 DEF LateStep, SigningIn
  <2>2. CASE q # r
    BY <1>5, <1>6, <1>7, <1>8, <2>2 DEF LateStep, SigningIn
  <2> QED
    BY <2>1, <2>2
<1> QED
  BY <1>1, <1>5, <1>6, <1>7, <1>9, CustomerUsersGo

(* A user who is invited.                                                  *)
LEMMA CustomerInviteUser ==
    ASSUME CustomerInv, NEW t \in Threads, Customer!InviteUser(t)
    PROVE  CustomerGoes(t)
<1> PICK email \in Emails :
       /\ Customer!Begin(t, Customer!Step("entry", "invite", None))
       /\ customer' = [customer EXCEPT
                         !.users = Append(@, Customer!User(email, "Invited")),
                         !.rows["invite"] = @ + 1]
  BY DEF Customer!InviteUser
<1> DEFINE user == Customer!User(email, "Invited")
           people == Append(customer.users, user)
           rows == [customer.rows EXCEPT !["invite"] = @ + 1]
           next == Customer!Step("entry", "invite", None)
<1>2. customer \in CustomerTypes /\ customer.users \in Seq(CustomerUsers)
  BY DEF CustomerInv, CustomerTyped, CustomerTypes
<1>3. user \in CustomerUsers /\ user.status = "Invited" /\ user.late = 0
  BY DEF CustomerUsers, Customer!User
<1>k. "invite" \in Customer!Kinds
  BY DEF Customer!Kinds
<1>a. rows \in [Customer!Kinds -> Nat]
  BY <1>2, <1>k DEF CustomerTypes
<1>4. customer' = [customer EXCEPT !.users = people, !.rows = rows]
  BY <1>2 DEF CustomerTypes
<1>u. people = Append(customer.users, user)
  OBVIOUS
<1> HIDE DEF user, people
<1>5. /\ people \in Seq(CustomerUsers)
      /\ \E n \in Nat : /\ n \notin DOMAIN customer.users
                        /\ DOMAIN people = DOMAIN customer.users \cup {n} /\ people[n] = user
      /\ \A q \in DOMAIN customer.users : people[q] = customer.users[q]
  BY <1>u, <1>2, <1>3, UserAdded
<1>n. /\ Customer!Begin(t, next) /\ next = Customer!Step("entry", "invite", None)
      /\ None \in Nat \cup {None} /\ rows = [customer.rows EXCEPT !["invite"] = @ + 1]
  OBVIOUS
<1> HIDE DEF rows, next
<1>6. /\ customer' \in CustomerTypes /\ customer'.users = people
      /\ customer'.rows = rows /\ customer'.trail = customer.trail
      /\ customer'.used = customer.used /\ customer'.owner = customer.owner
  BY <1>2, <1>4, <1>5, <1>a DEF CustomerTypes
<1>c. customerCall[t] = None
  BY <1>n DEF Customer!Begin
<1>7. /\ next \in Customer!Steps /\ next # None /\ next.at = "entry"
      /\ TrailStep(customer, customer', customerCall, customerCall', t, Customer!Kinds)
  BY <1>c, <1>k, <1>n, <1>6, CustomerFiles DEF CustomerInv
<1>8. customerCall'[t] = next
  BY <1>n, <1>7, CustomerMoves DEF CustomerInv
<1>9. ASSUME NEW q \in DOMAIN customer'.users
      PROVE  LateStep(customer.users, customer'.users, customerCall, customerCall', t, q)
  <2>1. CASE q \in DOMAIN customer.users
    BY <1>5, <1>6, <1>7, <1>8, <2>1 DEF LateStep, SigningIn
  <2>2. CASE q \notin DOMAIN customer.users
    BY <1>3, <1>5, <1>6, <2>2 DEF LateStep
  <2> QED
    BY <2>1, <2>2
<1>d. DOMAIN customer.users \subseteq DOMAIN customer'.users
  BY <1>5, <1>6
<1> QED
  BY <1>d, <1>n, <1>6, <1>7, <1>9, CustomerUsersGo

(* The order goes to another customer, or comes back: those who had found  *)
(* it are told apart from then on.                                         *)
LEMMA CustomerOrderMoves ==
    ASSUME CustomerInv, NEW t \in Threads, Customer!UpdateSalesOrder(t)
    PROVE  CustomerGoes(t)
<1> PICK owner \in {"own", "other"} :
       /\ Customer!Disturb(t, None, {"page", "return"})
       /\ customer' = [customer EXCEPT !.owner = owner]
  BY DEF Customer!UpdateSalesOrder
<1>1. customer \in CustomerTypes /\ customerCall \in [Threads -> Customer!Steps \cup {None}]
  BY DEF CustomerInv, CustomerTyped, CustomerTypes
<1>2. /\ customer' \in CustomerTypes /\ customer'.users = customer.users
      /\ customer'.rows = customer.rows /\ customer'.trail = customer.trail
      /\ customer'.used = customer.used
  BY <1>1 DEF CustomerTypes
<1>3. /\ customerCall[t] = None /\ customerCall'[t] = None
      /\ customerCall' = [u \in Threads |->
             IF u = t THEN None
             ELSE IF \E at \in {"page", "return"} : Customer!At(u, at)
                  THEN [customerCall[u] EXCEPT !.moved = TRUE]
                  ELSE customerCall[u]]
  BY DEF Customer!Disturb
<1>4. ASSUME NEW u \in Threads, u # t
      PROVE  /\ customerCall'[u] \in Customer!Steps \cup {None}
             /\ customerCall'[u] = None <=> customerCall[u] = None
             /\ customerCall[u] # None =>
                   /\ customerCall'[u].at = customerCall[u].at
                   /\ customerCall'[u].kind = customerCall[u].kind
                   /\ customerCall'[u].of = customerCall[u].of
                   /\ customerCall[u].at \in {"page", "return"} => customerCall'[u].moved
  <2>1. CASE customerCall[u] = None
    BY <1>3, <1>4, <2>1 DEF Customer!At
  <2>2. CASE customerCall[u] # None /\ customerCall[u].at \notin {"page", "return"}
    <3>1. customerCall'[u] = customerCall[u]
      BY <1>3, <1>4, <2>2 DEF Customer!At
    <3> QED
      BY <1>1, <2>2, <3>1
  <2>3. CASE customerCall[u] # None /\ customerCall[u].at \in {"page", "return"}
    <3>1. customerCall'[u] = [customerCall[u] EXCEPT !.moved = TRUE]
      BY <1>3, <1>4, <2>3 DEF Customer!At
    <3>2. customerCall[u] \in Customer!Steps
      BY <1>1, <2>3
    <3>3. /\ customerCall'[u] \in Customer!Steps
          /\ customerCall'[u].at = customerCall[u].at
          /\ customerCall'[u].kind = customerCall[u].kind
          /\ customerCall'[u].of = customerCall[u].of
          /\ customerCall'[u].moved
      BY <3>1, <3>2 DEF Customer!Steps, Customer!StepsOf
    <3> QED
      BY <2>3, <3>3, PortalAssumption
  <2> QED
    BY <2>1, <2>2, <2>3
<1>5. CustomerTyped'
  <2>1. customerCall' \in [Threads -> Customer!Steps \cup {None}]
    BY <1>3, <1>4
  <2> QED
    BY <1>2, <2>1 DEF CustomerTyped, CustomerTypes
<1>6. Others(customerCall, customerCall', t)
  BY <1>4 DEF Others
<1>7. TrailStep(customer, customer', customerCall, customerCall', t, Customer!Kinds)
  BY <1>2, <1>3 DEF TrailStep, Entering
<1>8. ASSUME NEW q \in DOMAIN customer'.users
      PROVE  LateStep(customer.users, customer'.users, customerCall, customerCall', t, q)
  BY <1>2, <1>3 DEF LateStep, SigningIn
<1>9. ASSUME NEW u \in Threads PROVE CustomerKnows(u)'
  <2>1. CustomerKnows(u)
    BY DEF CustomerInv
  <2>2. CASE u = t
    BY <1>3, <2>2 DEF CustomerKnows
  <2>3. CASE u # t
    BY <1>2, <1>4, <2>1, <2>3 DEF CustomerKnows
  <2> QED
    BY <2>2, <2>3
<1>10. Customer!OwnWhenAsked'
  BY <1>2 DEF CustomerInv, Customer!OwnWhenAsked
<1> QED
  BY <1>5, <1>6, <1>7, <1>8, <1>9, <1>10 DEF CustomerGoes

(* Every call of the customer portal.                                      *)
LEMMA CustomerCalls ==
    ASSUME CustomerInv, NEW t \in Threads, Customer!Calls(t)
    PROVE  CustomerGoes(t)
<1>1. CASE Customer!AddEntry(t)
  BY <1>1, CustomerAddEntry
<1>2. CASE Customer!LogIn(t)
  BY <1>2, CustomerLogIn
<1>3. CASE Customer!AddSession(t)
  BY <1>3, CustomerAddSession
<1>4. CASE Customer!InviteUser(t)
  BY <1>4, CustomerInviteUser
<1>5. CASE Customer!UpdateUser(t) \/ Customer!DisableUser(t)
  <2>1. PICK r \in DOMAIN customer.users, status \in {"Active", "Disabled"} :
           Customer!Begin(t, None) /\ Customer!SetStatus(r, status)
    BY <1>5 DEF Customer!UpdateUser, Customer!DisableUser
  <2> QED
    BY <2>1, CustomerSetStatus
<1>6. CASE Customer!ProfileUpdateRequest(t) \/ Customer!CreateSupport(t)
  <2>1. PICK kind \in Customer!Kinds : Customer!Recorded(t, kind)
    BY <1>6 DEF Customer!ProfileUpdateRequest, Customer!CreateSupport, Customer!Kinds
  <2> QED
    BY <2>1, CustomerRecorded
<1>7. CASE \/ Customer!CreateReturn(t) \/ Customer!Orders(t) \/ Customer!OrderDetail(t)
           \/ Customer!Dashboard(t) \/ Customer!Reports(t) \/ Customer!OrderRisk(t)
  <2>1. PICK at \in {"page", "return"} : Customer!Find(t, at)
    BY <1>7 DEF Customer!CreateReturn, Customer!Orders, Customer!OrderDetail,
                Customer!Dashboard, Customer!Reports, Customer!OrderRisk
  <2> QED
    BY <2>1, CustomerFind
<1>8. CASE Customer!AddReturn(t)
  BY <1>8, CustomerAddReturn
<1>9. CASE Customer!ShowOrder(t)
  BY <1>9, CustomerShowOrder
<1>10. CASE \/ Customer!AddSupportComment(t) \/ Customer!AddSupportAttachment(t)
            \/ Customer!Feedback(t) \/ Customer!DownloadDocument(t) \/ Customer!DraftAction(t)
  <2>1. Customer!FileRow(t)
    BY <1>10 DEF Customer!AddSupportComment, Customer!AddSupportAttachment,
                 Customer!Feedback, Customer!DownloadDocument, Customer!DraftAction
  <2> QED
    BY <2>1, CustomerFileRow
<1>11. CASE Customer!UpdateSalesOrder(t)
  BY <1>11, CustomerOrderMoves
<1> QED
  BY <1>1, <1>2, <1>3, <1>4, <1>5, <1>6, <1>7, <1>8, <1>9, <1>10, <1>11 DEF Customer!Calls

(* What every step does keeps the invariant.                               *)
LEMMA CustomerKept ==
    ASSUME CustomerInv, NEW t \in Threads, CustomerGoes(t)
    PROVE  CustomerInv'
<1> PICK c : c = customerCall
  OBVIOUS
<1> PICK d : d = customerCall'
  OBVIOUS
<1> PICK list : list = customer
  OBVIOUS
<1> PICK next : next = customer'
  OBVIOUS
<1>0. /\ Others(c, d, t) /\ TrailStep(list, next, c, d, t, Customer!Kinds)
      /\ \A r \in DOMAIN next.users : LateStep(list.users, next.users, c, d, t, r)
  BY DEF CustomerGoes
<1>1. /\ \A kind \in Customer!Kinds : Told(list, c, kind)
      /\ \A r \in DOMAIN list.users : Spares(list.users[r], c, r)
      /\ list.rows \in [Customer!Kinds -> Nat] /\ list.trail \in [Customer!Kinds -> Nat]
      /\ list.users \in Seq(CustomerUsers)
  BY DEF CustomerInv, CustomerTyped, CustomerTypes
<1>2. \A kind \in Customer!Kinds : Told(next, d, kind)
  BY <1>0, <1>1, TrailKept
<1>3. ASSUME NEW r \in DOMAIN next.users PROVE Spares(next.users[r], d, r)
  <2> PICK people : people = list.users
    OBVIOUS
  <2>1. people \in Seq(CustomerUsers)
    BY <1>1
  <2>2. r \in DOMAIN people => people[r] \in CustomerUsers
    BY <2>1, UsersNumbered
  <2>3. r \in DOMAIN people => people[r].late \in Nat
    BY <2>2 DEF CustomerUsers
  <2>4. r \in DOMAIN people => Spares(people[r], c, r)
    BY <1>1
  <2>5. LateStep(people, next.users, c, d, t, r)
    BY <1>0
  <2> QED
    BY <1>0, <2>3, <2>4, <2>5, LateKept
<1> QED
  BY <1>2, <1>3 DEF CustomerInv, CustomerGoes

(* The lists at a start.                                                   *)
LEMMA CustomerStarts ==
    ASSUME NEW email \in Emails, NEW list, NEW c, list = Customer!Lists(email), c = Idle
    PROVE  /\ list \in CustomerTypes /\ list.used = {}
           /\ c \in [Threads -> Customer!Steps \cup {None}] /\ \A t \in Threads : c[t] = None
           /\ \A kind \in Customer!Kinds : Told(list, c, kind)
           /\ \A r \in DOMAIN list.users : Spares(list.users[r], c, r)
<1>1. /\ list = [users |-> <<[email |-> email, status |-> "Active", late |-> 0]>>,
                 rows |-> [k \in Customer!Kinds |-> 0],
                 trail |-> [k \in Customer!Kinds |-> 0], filed |-> 0, owner |-> "own",
                 used |-> {}]
      /\ c = [t \in Threads |-> None]
  BY DEF Customer!Lists, Customer!User, Idle
<1>2. list.users \in Seq(CustomerUsers)
  BY <1>1 DEF CustomerUsers
<1>3. list \in CustomerTypes
  BY <1>1, <1>2 DEF CustomerTypes, Shown
<1>4. ASSUME NEW kind \in Customer!Kinds PROVE Told(list, c, kind)
  <2>1. Entering(c, kind) = {}
    BY <1>1 DEF Entering
  <2>2. Cardinality(Entering(c, kind)) = 0
    BY <2>1, FS_EmptySet
  <2> QED
    BY <1>1, <2>2 DEF Told
<1>5. ASSUME NEW r \in DOMAIN list.users PROVE Spares(list.users[r], c, r)
  <2>1. r = 1
    BY <1>1
  <2> QED
    BY <1>1, <2>1 DEF Spares
<1>6. list.used = {} /\ c \in [Threads -> Customer!Steps \cup {None}]
  BY <1>1
<1>7. \A t \in Threads : c[t] = None
  BY <1>1
<1> QED
  BY <1>3, <1>4, <1>5, <1>6, <1>7

-----------------------------------------------------------------------------
(* The supplier portal.                                                    *)
SupplierUsers ==
    [id : Supplier!Ids, supplier : Suppliers, status : {"Active", "Invited", "Disabled"},
     late : Nat]

SupplierTypes ==
    [users : Seq(SupplierUsers), owner : [Supplier!Orders -> Suppliers],
     rows : [Supplier!Kinds -> Nat], trail : [Supplier!Kinds -> Nat], filed : Nat, used : Shown]

SupplierTyped ==
    supplier \in SupplierTypes /\ supplierCall \in [Threads -> Supplier!Steps \cup {None}]

\* A login knows a user on file; what is acknowledged or listed is the caller's own, or
\* something has moved since.
SupplierKnows(t) ==
    supplierCall[t] # None =>
        /\ supplierCall[t].at = "session" => supplierCall[t].of \in DOMAIN supplier.users
        /\ supplierCall[t].at = "ack" =>
              /\ supplierCall[t].of \in Supplier!Orders
              /\ Supplier!Mine(supplierCall[t].of) \/ supplierCall[t].moved
        /\ supplierCall[t].at = "page" =>
              /\ supplierCall[t].of \subseteq {"po-apex-001"}
              /\ (\A order \in supplierCall[t].of : Supplier!Mine(order)) \/ supplierCall[t].moved

SupplierInv ==
    /\ SupplierTyped
    /\ 1 \in DOMAIN supplier.users
    /\ \A kind \in Supplier!Kinds : Told(supplier, supplierCall, kind)
    /\ \A r \in DOMAIN supplier.users : Spares(supplier.users[r], supplierCall, r)
    /\ \A t \in Threads : SupplierKnows(t)
    /\ Supplier!OwnWhenAsked

\* What every step of a call does.
SupplierGoes(t) ==
    /\ SupplierTyped'
    /\ 1 \in DOMAIN supplier'.users
    /\ Others(supplierCall, supplierCall', t)
    /\ TrailStep(supplier, supplier', supplierCall, supplierCall', t, Supplier!Kinds)
    /\ \A r \in DOMAIN supplier'.users :
          LateStep(supplier.users, supplier'.users, supplierCall, supplierCall', t, r)
    /\ \A u \in Threads : SupplierKnows(u)'
    /\ Supplier!OwnWhenAsked'

(* The step of a call leaves the other calls alone.                        *)
LEMMA SupplierMoves ==
    ASSUME SupplierTyped, NEW t \in Threads, NEW next \in Supplier!Steps \cup {None},
           Supplier!Begin(t, next) \/ Supplier!Go(t, next)
    PROVE  /\ supplierCall' \in [Threads -> Supplier!Steps \cup {None}]
           /\ Others(supplierCall, supplierCall', t) /\ supplierCall'[t] = next
           /\ \A u \in Threads \ {t} : supplierCall'[u] = supplierCall[u]
<1>1. supplierCall' = [supplierCall EXCEPT ![t] = next]
  BY DEF Supplier!Begin, Supplier!Go
<1>2. supplierCall \in [Threads -> Supplier!Steps \cup {None}]
  BY DEF SupplierTyped
<1>3. /\ supplierCall' \in [Threads -> Supplier!Steps \cup {None}]
      /\ Others(supplierCall, supplierCall', t) /\ supplierCall'[t] = next
  BY <1>1, <1>2, Moves
<1> QED
  BY <1>1, <1>2, <1>3

(* A step of a call is told apart from no call.                            *)
LEMMA SupplierSteps ==
    ASSUME NEW at \in {"entry", "session", "page", "ack"},
           NEW kind \in Supplier!Kinds \cup {"page"}, NEW of \in Nat \cup {None}
    PROVE  /\ Supplier!Step(at, kind, of) \in Supplier!Steps
           /\ Supplier!Step(at, kind, of) # None
           /\ Supplier!Step(at, kind, of).at = at /\ Supplier!Step(at, kind, of).kind = kind
           /\ Supplier!Step(at, kind, of).of = of
<1>1. Supplier!Step(at, kind, of) \in Supplier!Steps
  BY DEF Supplier!Step, Supplier!Steps, Supplier!StepsOf
<1> QED
  BY <1>1, PortalAssumption DEF Supplier!Step

(* A step that leaves users and orders alone.                              *)
LEMMA SupplierStays ==
    ASSUME SupplierInv, NEW t \in Threads, NEW next \in Supplier!Steps \cup {None},
           Supplier!Begin(t, next) \/ Supplier!Go(t, next),
           next # None => next.at # "session",
           next # None /\ next.at = "ack" =>
              next.of \in Supplier!Orders /\ Supplier!Mine(next.of),
           next # None /\ next.at = "page" =>
              /\ next.of \subseteq {"po-apex-001"}
              /\ \A order \in next.of : Supplier!Mine(order),
           supplier' \in SupplierTypes,
           supplier'.users = supplier.users, supplier'.owner = supplier.owner,
           TrailStep(supplier, supplier', supplierCall, supplierCall', t, Supplier!Kinds),
           Supplier!OwnWhenAsked'
    PROVE  SupplierGoes(t)
<1>1. /\ supplierCall' \in [Threads -> Supplier!Steps \cup {None}]
      /\ Others(supplierCall, supplierCall', t) /\ supplierCall'[t] = next
      /\ \A u \in Threads \ {t} : supplierCall'[u] = supplierCall[u]
  BY SupplierMoves DEF SupplierInv
<1>2. SupplierTyped'
  BY <1>1 DEF SupplierTyped, SupplierTypes
<1>3. ASSUME NEW r \in DOMAIN supplier'.users
      PROVE  LateStep(supplier.users, supplier'.users, supplierCall, supplierCall', t, r)
  BY <1>1 DEF LateStep, SigningIn
<1>4. ASSUME NEW u \in Threads PROVE SupplierKnows(u)'
  <2>1. SupplierKnows(u)
    BY DEF SupplierInv
  <2>2. \A order : Supplier!Mine(order)' <=> Supplier!Mine(order)
    BY DEF Supplier!Mine
  <2>3. CASE u = t
    BY <1>1, <2>2, <2>3 DEF SupplierKnows
  <2>4. CASE u # t
    BY <1>1, <2>1, <2>2, <2>4 DEF SupplierKnows
  <2> QED
    BY <2>3, <2>4
<1>5. 1 \in DOMAIN supplier'.users
  BY DEF SupplierInv
<1> QED
  BY <1>1, <1>2, <1>3, <1>4, <1>5 DEF SupplierGoes

(* A step that neither follows nor is followed by an entry.                *)
LEMMA SupplierQuiet ==
    ASSUME SupplierTyped, NEW t \in Threads, NEW next \in Supplier!Steps \cup {None},
           Supplier!Begin(t, next) \/ Supplier!Go(t, next),
           supplierCall[t] = None \/ supplierCall[t].at # "entry",
           next # None => next.at # "entry",
           supplier'.rows = supplier.rows, supplier'.trail = supplier.trail
    PROVE  TrailStep(supplier, supplier', supplierCall, supplierCall', t, Supplier!Kinds)
<1>1. supplierCall'[t] = next
  BY SupplierMoves
<1> QED
  BY <1>1 DEF TrailStep, Entering

(* A step that adds a row is followed by its entry.                        *)
LEMMA SupplierFiles ==
    ASSUME SupplierTyped, NEW t \in Threads, NEW kind \in Supplier!Kinds,
           NEW of \in Nat \cup {None}, NEW next, next = Supplier!Step("entry", kind, of),
           Supplier!Begin(t, next) \/ Supplier!Go(t, next),
           supplierCall[t] = None \/ supplierCall[t].at # "entry",
           supplier'.rows = [supplier.rows EXCEPT ![kind] = @ + 1],
           supplier'.trail = supplier.trail
    PROVE  /\ next \in Supplier!Steps /\ next # None /\ next.at = "entry"
           /\ TrailStep(supplier, supplier', supplierCall, supplierCall', t, Supplier!Kinds)
<1>0. kind \in Supplier!Kinds \cup {"page"}
  OBVIOUS
<1>1. next \in Supplier!Steps /\ next # None /\ next.at = "entry" /\ next.kind = kind
  BY <1>0, SupplierSteps
<1>2. supplierCall'[t] = next
  BY <1>1, SupplierMoves
<1> QED
  BY <1>1, <1>2 DEF TrailStep, Entering

(* The entry a row waits for.                                              *)
LEMMA SupplierAddEntry ==
    ASSUME SupplierInv, NEW t \in Threads, Supplier!AddEntry(t)
    PROVE  SupplierGoes(t)
<1>1. PICK kind \in Supplier!Kinds :
         /\ Supplier!At(t, "entry") /\ supplierCall[t].kind = kind
         /\ supplier' = [supplier EXCEPT !.trail[kind] = @ + 1]
         /\ Supplier!Go(t, None)
  BY DEF Supplier!AddEntry
<1>2. supplier \in SupplierTypes
  BY DEF SupplierInv, SupplierTyped, SupplierTypes
<1> DEFINE more == [supplier.trail EXCEPT ![kind] = @ + 1]
<1>a. more \in [Supplier!Kinds -> Nat]
  BY <1>2 DEF SupplierTypes
<1>b. supplier' = [supplier EXCEPT !.trail = more]
  BY <1>1, <1>2 DEF SupplierTypes
<1> HIDE DEF more
<1>c. /\ supplier' \in SupplierTypes /\ supplier'.rows = supplier.rows
      /\ supplier'.users = supplier.users /\ supplier'.owner = supplier.owner
      /\ supplier'.used = supplier.used
      /\ supplier'.trail = more
  BY <1>a, <1>b, <1>2 DEF SupplierTypes
<1>3. /\ supplier' \in SupplierTypes /\ supplier'.rows = supplier.rows
      /\ supplier'.users = supplier.users /\ supplier'.owner = supplier.owner
      /\ supplier'.used = supplier.used
      /\ supplier'.trail = [supplier.trail EXCEPT ![kind] = @ + 1]
  BY <1>c DEF more
<1>4. supplierCall'[t] = None
  BY <1>1, SupplierMoves DEF SupplierInv
<1>5. TrailStep(supplier, supplier', supplierCall, supplierCall', t, Supplier!Kinds)
  BY <1>1, <1>3, <1>4 DEF TrailStep, Entering, Supplier!At
<1>6. Supplier!OwnWhenAsked'
  BY <1>3 DEF SupplierInv, Supplier!OwnWhenAsked
<1> QED
  BY <1>1, <1>3, <1>5, <1>6, SupplierStays

(* A row that is filed at once.                                            *)
LEMMA SupplierRecorded ==
    ASSUME SupplierInv, NEW t \in Threads, NEW kind \in Supplier!Kinds,
           Supplier!Recorded(t, kind)
    PROVE  SupplierGoes(t)
<1> DEFINE next == Supplier!Step("entry", kind, None)
<1>1. /\ Supplier!Begin(t, next)
      /\ supplier' = [supplier EXCEPT !.rows[kind] = @ + 1]
  BY DEF Supplier!Recorded, Supplier!Row
<1>2. supplier \in SupplierTypes
  BY DEF SupplierInv, SupplierTyped, SupplierTypes
<1> DEFINE more == [supplier.rows EXCEPT ![kind] = @ + 1]
<1>a. more \in [Supplier!Kinds -> Nat]
  BY <1>2 DEF SupplierTypes
<1>b. supplier' = [supplier EXCEPT !.rows = more]
  BY <1>1, <1>2 DEF SupplierTypes
<1> HIDE DEF more
<1>c. /\ supplier' \in SupplierTypes /\ supplier'.trail = supplier.trail
      /\ supplier'.users = supplier.users /\ supplier'.owner = supplier.owner
      /\ supplier'.used = supplier.used
      /\ supplier'.rows = more
  BY <1>a, <1>b, <1>2 DEF SupplierTypes
<1>3. /\ supplier' \in SupplierTypes /\ supplier'.trail = supplier.trail
      /\ supplier'.users = supplier.users /\ supplier'.owner = supplier.owner
      /\ supplier'.used = supplier.used
      /\ supplier'.rows = [supplier.rows EXCEPT ![kind] = @ + 1]
  BY <1>c DEF more
<1>4. supplierCall[t] = None
  BY <1>1 DEF Supplier!Begin
<1>5. /\ next \in Supplier!Steps /\ next # None /\ next.at = "entry"
      /\ TrailStep(supplier, supplier', supplierCall, supplierCall', t, Supplier!Kinds)
  BY <1>1, <1>3, <1>4, SupplierFiles DEF SupplierInv
<1>6. Supplier!OwnWhenAsked'
  BY <1>3 DEF SupplierInv, Supplier!OwnWhenAsked
<1> HIDE DEF next
<1> QED
  BY <1>1, <1>3, <1>5, <1>6, SupplierStays

(* A row nothing follows.                                                  *)
LEMMA SupplierFileRow ==
    ASSUME SupplierInv, NEW t \in Threads, Supplier!FileRow(t)
    PROVE  SupplierGoes(t)
<1>1. /\ Supplier!Begin(t, None)
      /\ supplier' = [supplier EXCEPT !.filed = @ + 1]
  BY DEF Supplier!FileRow
<1>2. supplier \in SupplierTypes
  BY DEF SupplierInv, SupplierTyped, SupplierTypes
<1> DEFINE more == supplier.filed + 1
<1>a. more \in Nat
  BY <1>2 DEF SupplierTypes
<1>b. supplier' = [supplier EXCEPT !.filed = more]
  BY <1>1, <1>2 DEF SupplierTypes
<1> HIDE DEF more
<1>3. /\ supplier' \in SupplierTypes /\ supplier'.rows = supplier.rows
      /\ supplier'.users = supplier.users /\ supplier'.owner = supplier.owner
      /\ supplier'.trail = supplier.trail /\ supplier'.used = supplier.used
  BY <1>a, <1>b, <1>2 DEF SupplierTypes
<1>4. supplierCall[t] = None
  BY <1>1 DEF Supplier!Begin
<1>5. TrailStep(supplier, supplier', supplierCall, supplierCall', t, Supplier!Kinds)
  BY <1>1, <1>3, <1>4, SupplierQuiet DEF SupplierInv
<1>6. Supplier!OwnWhenAsked'
  BY <1>3 DEF SupplierInv, Supplier!OwnWhenAsked
<1> QED
  BY <1>1, <1>3, <1>5, <1>6, SupplierStays

(* An active user is found.                                                *)
LEMMA SupplierLogIn ==
    ASSUME SupplierInv, NEW t \in Threads, Supplier!LogIn(t)
    PROVE  SupplierGoes(t)
<1>1. PICK r \in DOMAIN supplier.users :
         /\ supplier.users[r].status = "Active"
         /\ Supplier!Begin(t, Supplier!Step("session", "login", r))
         /\ UNCHANGED supplier
  BY DEF Supplier!LogIn
<1> DEFINE next == Supplier!Step("session", "login", r)
<1>2. supplier \in SupplierTypes /\ r \in Nat
  BY UsersNumbered DEF SupplierInv, SupplierTyped, SupplierTypes
<1>a. r \in Nat \cup {None} /\ "login" \in Supplier!Kinds
  BY <1>2 DEF Supplier!Kinds
<1>b. next \in Supplier!Steps
  BY <1>a DEF Supplier!Step, Supplier!Steps, Supplier!StepsOf
<1>3. next # None /\ next \in Supplier!Steps /\ next.at = "session" /\ next.of = r
  BY <1>b, PortalAssumption DEF Supplier!Step
<1> HIDE DEF next
<1>4. /\ supplierCall' \in [Threads -> Supplier!Steps \cup {None}]
      /\ Others(supplierCall, supplierCall', t) /\ supplierCall'[t] = next
      /\ \A u \in Threads \ {t} : supplierCall'[u] = supplierCall[u]
  BY <1>1, <1>3, SupplierMoves DEF SupplierInv, next
<1>5. SupplierTyped'
  BY <1>1, <1>2, <1>4 DEF SupplierTyped, SupplierTypes
<1>6. TrailStep(supplier, supplier', supplierCall, supplierCall', t, Supplier!Kinds)
  <2>1. supplierCall[t] = None
    BY <1>1 DEF Supplier!Begin
  <2> QED
    BY <1>1, <1>3, <1>4, <2>1 DEF TrailStep, Entering
<1>7. ASSUME NEW q \in DOMAIN supplier'.users
      PROVE  LateStep(supplier.users, supplier'.users, supplierCall, supplierCall', t, q)
  BY <1>1, <1>3, <1>4 DEF LateStep, SigningIn
<1>8. ASSUME NEW u \in Threads PROVE SupplierKnows(u)'
  <2>1. SupplierKnows(u)
    BY DEF SupplierInv
  <2>2. \A order : Supplier!Mine(order)' <=> Supplier!Mine(order)
    BY <1>1 DEF Supplier!Mine
  <2>3. CASE u = t
    BY <1>1, <1>3, <1>4, <2>3 DEF SupplierKnows
  <2>4. CASE u # t
    BY <1>1, <1>4, <2>1, <2>2, <2>4 DEF SupplierKnows
  <2> QED
    BY <2>3, <2>4
<1>9. Supplier!OwnWhenAsked'
  BY <1>1 DEF SupplierInv, Supplier!OwnWhenAsked
<1>10. 1 \in DOMAIN supplier'.users
  BY <1>1 DEF SupplierInv
<1> QED
  BY <1>4, <1>5, <1>6, <1>7, <1>8, <1>9, <1>10 DEF SupplierGoes

(* A step on users, which leaves the order and what was shown alone.       *)
LEMMA SupplierUsersGo ==
    ASSUME SupplierInv, NEW t \in Threads, NEW next \in Supplier!Steps \cup {None},
           Supplier!Begin(t, next) \/ Supplier!Go(t, next),
           next # None => next.at = "entry",
           supplier' \in SupplierTypes,
           DOMAIN supplier.users \subseteq DOMAIN supplier'.users,
           supplier'.users[1].supplier = supplier.users[1].supplier,
           supplier'.used = supplier.used, supplier'.owner = supplier.owner,
           TrailStep(supplier, supplier', supplierCall, supplierCall', t, Supplier!Kinds),
           \A r \in DOMAIN supplier'.users :
              LateStep(supplier.users, supplier'.users, supplierCall, supplierCall', t, r)
    PROVE  SupplierGoes(t)
<1>1. /\ supplierCall' \in [Threads -> Supplier!Steps \cup {None}]
      /\ Others(supplierCall, supplierCall', t) /\ supplierCall'[t] = next
      /\ \A u \in Threads \ {t} : supplierCall'[u] = supplierCall[u]
  BY SupplierMoves DEF SupplierInv
<1>2. SupplierTyped'
  BY <1>1 DEF SupplierTyped, SupplierTypes
<1>3. ASSUME NEW u \in Threads PROVE SupplierKnows(u)'
  <2>1. SupplierKnows(u)
    BY DEF SupplierInv
  <2>2. \A order : Supplier!Mine(order)' <=> Supplier!Mine(order)
    BY DEF Supplier!Mine
  <2>3. CASE u = t
    BY <1>1, <2>3 DEF SupplierKnows
  <2>4. CASE u # t
    BY <1>1, <2>1, <2>2, <2>4 DEF SupplierKnows
  <2> QED
    BY <2>3, <2>4
<1>4. Supplier!OwnWhenAsked'
  BY DEF SupplierInv, Supplier!OwnWhenAsked
<1>5. 1 \in DOMAIN supplier'.users
  BY DEF SupplierInv
<1> QED
  BY <1>1, <1>2, <1>3, <1>4, <1>5 DEF SupplierGoes

(* A session, for a user who was found active.                             *)
LEMMA SupplierAddSession ==
    ASSUME SupplierInv, NEW t \in Threads, Supplier!AddSession(t)
    PROVE  SupplierGoes(t)
<1> DEFINE r == supplierCall[t].of
           late == IF supplier.users[r].status = "Disabled" THEN supplier.users[r].late + 1
                                                            ELSE supplier.users[r].late
           user == [supplier.users[r] EXCEPT !.late = late]
           people == [supplier.users EXCEPT ![r] = user]
           rows == [supplier.rows EXCEPT !["login"] = @ + 1]
           next == Supplier!Step("entry", "login", r)
<1>1. /\ supplierCall[t] # None /\ supplierCall[t].at = "session"
      /\ Supplier!Go(t, next)
  BY DEF Supplier!AddSession, Supplier!At
<1>r. r \in DOMAIN supplier.users
  BY <1>1 DEF SupplierInv, SupplierKnows
<1>2. /\ supplier \in SupplierTypes /\ supplier.users \in Seq(SupplierUsers)
      /\ r \in Nat /\ supplier.users[r] \in SupplierUsers
  BY <1>r, UsersNumbered DEF SupplierInv, SupplierTyped, SupplierTypes
<1>l. late \in Nat
  BY <1>2 DEF SupplierUsers
<1>v. user = [supplier.users[r] EXCEPT !.late = late]
  OBVIOUS
<1> HIDE DEF late, user
<1>3. user \in SupplierUsers /\ user.late = late /\ user.status = supplier.users[r].status
  BY <1>2, <1>l, <1>v DEF SupplierUsers
<1>s. user.supplier = supplier.users[r].supplier
  BY <1>2, <1>v DEF SupplierUsers
<1>k. "login" \in Supplier!Kinds
  BY DEF Supplier!Kinds
<1>a. rows \in [Supplier!Kinds -> Nat]
  BY <1>2, <1>k DEF SupplierTypes
<1>4. supplier' = [supplier EXCEPT !.rows = rows, !.users = people]
  BY <1>2, <1>v DEF Supplier!AddSession, SupplierTypes, late
<1>5. /\ people \in Seq(SupplierUsers) /\ DOMAIN people = DOMAIN supplier.users
      /\ people[r] = user
      /\ \A q \in DOMAIN supplier.users : q # r => people[q] = supplier.users[q]
  BY <1>r, <1>2, <1>3, UserSet
<1>n. next = Supplier!Step("entry", "login", r) /\ r \in Nat \cup {None}
      /\ rows = [supplier.rows EXCEPT !["login"] = @ + 1]
  BY <1>2
<1> HIDE DEF people, rows, next
<1>6. /\ supplier' \in SupplierTypes /\ supplier'.users = people
      /\ supplier'.rows = rows /\ supplier'.trail = supplier.trail
      /\ supplier'.used = supplier.used /\ supplier'.owner = supplier.owner
  BY <1>2, <1>4, <1>5, <1>a DEF SupplierTypes
<1>7. /\ next \in Supplier!Steps /\ next # None /\ next.at = "entry"
      /\ TrailStep(supplier, supplier', supplierCall, supplierCall', t, Supplier!Kinds)
  <2>1. PICK kind : kind = "login"
    OBVIOUS
  <2>2. /\ SupplierTyped /\ kind \in Supplier!Kinds /\ next = Supplier!Step("entry", kind, r)
        /\ Supplier!Begin(t, next) \/ Supplier!Go(t, next)
        /\ supplierCall[t] = None \/ supplierCall[t].at # "entry"
    BY <1>1, <1>k, <1>n, <2>1 DEF SupplierInv
  <2>3. supplier'.rows = [supplier.rows EXCEPT ![kind] = @ + 1]
    BY <1>n, <1>6, <2>1
  <2> QED
    BY <1>n, <1>6, <2>2, <2>3, SupplierFiles
<1>8. supplierCall'[t] = next
  BY <1>1, <1>7, SupplierMoves DEF SupplierInv
<1>9. ASSUME NEW q \in DOMAIN supplier'.users
      PROVE  LateStep(supplier.users, supplier'.users, supplierCall, supplierCall', t, q)
  <2>1. CASE q = r
    BY <1>1, <1>r, <1>3, <1>5, <1>6, <1>7, <1>8, <2>1 DEF LateStep, SigningIn, late
  <2>2. CASE q # r
    BY <1>5, <1>6, <1>7, <1>8, <2>2 DEF LateStep, SigningIn
  <2> QED
    BY <2>1, <2>2
<1>10. supplier'.users[1].supplier = supplier.users[1].supplier
  BY <1>s, <1>5, <1>6 DEF SupplierInv
<1> QED
  BY <1>1, <1>5, <1>6, <1>7, <1>9, <1>10, SupplierUsersGo

(* A user who is invited.                                                  *)
LEMMA SupplierInviteUser ==
    ASSUME SupplierInv, NEW t \in Threads, Supplier!InviteUser(t)
    PROVE  SupplierGoes(t)
<1>1. PICK of \in Suppliers :
         /\ Supplier!Begin(t, None)
         /\ supplier' = [supplier EXCEPT
                           !.users = Append(@, Supplier!User("spu-new", of, "Invited"))]
  BY DEF Supplier!InviteUser
<1> DEFINE user == Supplier!User("spu-new", of, "Invited")
           people == Append(supplier.users, user)
<1>2. supplier \in SupplierTypes /\ supplier.users \in Seq(SupplierUsers)
  BY DEF SupplierInv, SupplierTyped, SupplierTypes
<1>3. user \in SupplierUsers /\ user.status = "Invited" /\ user.late = 0
  BY DEF SupplierUsers, Supplier!User, Supplier!Ids
<1>4. supplier' = [supplier EXCEPT !.users = people]
  BY <1>1, <1>2 DEF SupplierTypes
<1>u. people = Append(supplier.users, user)
  OBVIOUS
<1> HIDE DEF user, people
<1>5. /\ people \in Seq(SupplierUsers)
      /\ \E n \in Nat : /\ n \notin DOMAIN supplier.users
                        /\ DOMAIN people = DOMAIN supplier.users \cup {n} /\ people[n] = user
      /\ \A q \in DOMAIN supplier.users : people[q] = supplier.users[q]
  BY <1>u, <1>2, <1>3, UserAdded
<1>6. /\ supplier' \in SupplierTypes /\ supplier'.users = people
      /\ supplier'.rows = supplier.rows /\ supplier'.trail = supplier.trail
      /\ supplier'.used = supplier.used /\ supplier'.owner = supplier.owner
  BY <1>2, <1>4, <1>5 DEF SupplierTypes
<1>7. supplierCall[t] = None /\ supplierCall'[t] = None
  BY <1>1, SupplierMoves DEF Supplier!Begin, SupplierInv
<1>8. TrailStep(supplier, supplier', supplierCall, supplierCall', t, Supplier!Kinds)
  BY <1>6, <1>7 DEF TrailStep, Entering
<1>9. ASSUME NEW q \in DOMAIN supplier'.users
      PROVE  LateStep(supplier.users, supplier'.users, supplierCall, supplierCall', t, q)
  <2>1. CASE q \in DOMAIN supplier.users
    BY <1>5, <1>6, <1>7, <2>1 DEF LateStep, SigningIn
  <2>2. CASE q \notin DOMAIN supplier.users
    BY <1>3, <1>5, <1>6, <2>2 DEF LateStep
  <2> QED
    BY <2>1, <2>2
<1>d. /\ DOMAIN supplier.users \subseteq DOMAIN supplier'.users
      /\ supplier'.users[1].supplier = supplier.users[1].supplier
  BY <1>5, <1>6 DEF SupplierInv
<1> QED
  BY <1>d, <1>1, <1>6, <1>8, <1>9, SupplierUsersGo

(* A user who is disabled.                                                 *)
LEMMA SupplierDisableUser ==
    ASSUME SupplierInv, NEW t \in Threads, Supplier!DisableUser(t)
    PROVE  SupplierGoes(t)
<1> DEFINE next == Supplier!Step("entry", "disable", None)
           rows == [supplier.rows EXCEPT !["disable"] = @ + 1]
<1>1. PICK r \in DOMAIN supplier.users :
         /\ Supplier!Begin(t, next)
         /\ supplier' = [supplier EXCEPT !.users[r].status = "Disabled",
                                         !.rows["disable"] = @ + 1]
  BY DEF Supplier!DisableUser, Supplier!Named
<1> DEFINE user == [supplier.users[r] EXCEPT !.status = "Disabled"]
           people == [supplier.users EXCEPT ![r] = user]
<1>2. /\ supplier \in SupplierTypes /\ supplier.users \in Seq(SupplierUsers)
      /\ supplier.users[r] \in SupplierUsers
  BY UsersNumbered DEF SupplierInv, SupplierTyped, SupplierTypes
<1>3. /\ user \in SupplierUsers /\ user.status = "Disabled"
      /\ user.late = supplier.users[r].late
  BY <1>2 DEF SupplierUsers
<1>s. user.supplier = supplier.users[r].supplier
  BY <1>2 DEF SupplierUsers
<1>k. "disable" \in Supplier!Kinds
  BY DEF Supplier!Kinds
<1>a. rows \in [Supplier!Kinds -> Nat]
  BY <1>2, <1>k DEF SupplierTypes
<1>4. supplier' = [supplier EXCEPT !.users = people, !.rows = rows]
  BY <1>1, <1>2 DEF SupplierTypes
<1> HIDE DEF user
<1>5. /\ people \in Seq(SupplierUsers) /\ DOMAIN people = DOMAIN supplier.users
      /\ people[r] = user
      /\ \A q \in DOMAIN supplier.users : q # r => people[q] = supplier.users[q]
  BY <1>2, <1>3, UserSet
<1>n. /\ Supplier!Begin(t, next) /\ next = Supplier!Step("entry", "disable", None)
      /\ None \in Nat \cup {None} /\ rows = [supplier.rows EXCEPT !["disable"] = @ + 1]
  BY <1>1
<1> HIDE DEF people, rows, next
<1>6. /\ supplier' \in SupplierTypes /\ supplier'.users = people
      /\ supplier'.rows = rows /\ supplier'.trail = supplier.trail
      /\ supplier'.used = supplier.used /\ supplier'.owner = supplier.owner
  BY <1>2, <1>4, <1>5, <1>a DEF SupplierTypes
<1>c. supplierCall[t] = None
  BY <1>n DEF Supplier!Begin
<1>7. /\ next \in Supplier!Steps /\ next # None /\ next.at = "entry"
      /\ TrailStep(supplier, supplier', supplierCall, supplierCall', t, Supplier!Kinds)
  BY <1>c, <1>k, <1>n, <1>6, SupplierFiles DEF SupplierInv
<1>8. supplierCall'[t] = next
  BY <1>n, <1>7, SupplierMoves DEF SupplierInv
<1>9. ASSUME NEW q \in DOMAIN supplier'.users
      PROVE  LateStep(supplier.users, supplier'.users, supplierCall, supplierCall', t, q)
  <2>1. CASE q = r
    BY <1>3, <1>5, <1>6, <1>7, <1>8, <1>c, <2>1 DEF LateStep, SigningIn
  <2>2. CASE q # r
    BY <1>5, <1>6, <1>7, <1>8, <2>2 DEF LateStep, SigningIn
  <2> QED
    BY <2>1, <2>2
<1>10. supplier'.users[1].supplier = supplier.users[1].supplier
  BY <1>s, <1>5, <1>6 DEF SupplierInv
<1> QED
  BY <1>n, <1>5, <1>6, <1>7, <1>9, <1>10, SupplierUsersGo

(* A user who is moved to a supplier: those who had looked at the first    *)
(* user's orders are told apart from then on.                              *)
LEMMA SupplierUpdateUser ==
    ASSUME SupplierInv, NEW t \in Threads, Supplier!UpdateUser(t)
    PROVE  SupplierGoes(t)
<1> DEFINE next == Supplier!Step("entry", "update", None)
           rows == [supplier.rows EXCEPT !["update"] = @ + 1]
<1>1. PICK r \in DOMAIN supplier.users, of \in Suppliers :
         /\ IF r = 1 /\ of # supplier.users[r].supplier
            THEN Supplier!Disturb(t, next, {"ack", "page"})
            ELSE Supplier!Begin(t, next)
         /\ supplier' = [supplier EXCEPT !.users[r].supplier = of, !.rows["update"] = @ + 1]
  BY DEF Supplier!UpdateUser, Supplier!Named
<1> DEFINE user == [supplier.users[r] EXCEPT !.supplier = of]
           people == [supplier.users EXCEPT ![r] = user]
<1>2. /\ supplier \in SupplierTypes /\ supplier.users \in Seq(SupplierUsers)
      /\ supplier.users[r] \in SupplierUsers
      /\ supplierCall \in [Threads -> Supplier!Steps \cup {None}]
  BY UsersNumbered DEF SupplierInv, SupplierTyped, SupplierTypes
<1>3. /\ user \in SupplierUsers /\ user.status = supplier.users[r].status
      /\ user.late = supplier.users[r].late
  BY <1>2 DEF SupplierUsers
<1>s. user.supplier = of
  BY <1>2 DEF SupplierUsers
<1>k. "update" \in Supplier!Kinds
  BY DEF Supplier!Kinds
<1>a. rows \in [Supplier!Kinds -> Nat]
  BY <1>2, <1>k DEF SupplierTypes
<1>4. supplier' = [supplier EXCEPT !.users = people, !.rows = rows]
  BY <1>1, <1>2 DEF SupplierTypes
<1> HIDE DEF user
<1>5. /\ people \in Seq(SupplierUsers) /\ DOMAIN people = DOMAIN supplier.users
      /\ people[r] = user
      /\ \A q \in DOMAIN supplier.users : q # r => people[q] = supplier.users[q]
  BY <1>2, <1>3, UserSet
<1>n. /\ next = Supplier!Step("entry", "update", None)
      /\ None \in Nat \cup {None} /\ rows = [supplier.rows EXCEPT !["update"] = @ + 1]
  OBVIOUS
<1>o. /\ next \in Supplier!Steps /\ next # None /\ next.at = "entry" /\ next.kind = "update"
  <2> PICK none \in Nat \cup {None}, kind \in Supplier!Kinds \cup {"page"},
           at \in {"entry", "session", "page", "ack"} :
         none = None /\ kind = "update" /\ at = "entry"
    BY <1>k
  <2> QED
    BY SupplierSteps
<1>c. supplierCall[t] = None
  BY <1>1 DEF Supplier!Begin, Supplier!Disturb
<1> HIDE DEF people, rows, next
<1>6. /\ supplier' \in SupplierTypes /\ supplier'.users = people
      /\ supplier'.rows = rows /\ supplier'.trail = supplier.trail
      /\ supplier'.used = supplier.used /\ supplier'.owner = supplier.owner
  BY <1>2, <1>4, <1>5, <1>a DEF SupplierTypes
<1>7. ASSUME supplierCall'[t] = next, NEW q \in DOMAIN supplier'.users
      PROVE  LateStep(supplier.users, supplier'.users, supplierCall, supplierCall', t, q)
  <2>1. CASE q = r
    BY <1>3, <1>5, <1>6, <1>7, <1>o, <2>1 DEF LateStep, SigningIn
  <2>2. CASE q # r
    BY <1>5, <1>6, <1>7, <1>o, <2>2 DEF LateStep, SigningIn
  <2> QED
    BY <2>1, <2>2
<1>8. CASE Supplier!Begin(t, next) /\ (r # 1 \/ of = supplier.users[r].supplier)
  <2>1. TrailStep(supplier, supplier', supplierCall, supplierCall', t, Supplier!Kinds)
    BY <1>c, <1>k, <1>n, <1>6, <1>8, SupplierFiles DEF SupplierInv
  <2>2. supplierCall'[t] = next
    BY <1>o, <1>8, SupplierMoves DEF SupplierInv
  <2>3. supplier'.users[1].supplier = supplier.users[1].supplier
    BY <1>s, <1>5, <1>6, <1>8 DEF SupplierInv
  <2>4. \A q \in DOMAIN supplier'.users :
           LateStep(supplier.users, supplier'.users, supplierCall, supplierCall', t, q)
    BY <1>7, <2>2
  <2> QED
    BY <1>5, <1>6, <1>8, <1>o, <2>1, <2>3, <2>4, SupplierUsersGo
<1>9. CASE Supplier!Disturb(t, next, {"ack", "page"})
  <2>1. /\ supplierCall'[t] = next
        /\ supplierCall' = [u \in Threads |->
               IF u = t THEN next
               ELSE IF \E at \in {"ack", "page"} : Supplier!At(u, at)
                    THEN [supplierCall[u] EXCEPT !.moved = TRUE]
                    ELSE supplierCall[u]]
    BY <1>9 DEF Supplier!Disturb
  <2>2. ASSUME NEW u \in Threads, u # t
        PROVE  /\ supplierCall'[u] \in Supplier!Steps \cup {None}
               /\ supplierCall'[u] = None <=> supplierCall[u] = None
               /\ supplierCall[u] # None =>
                     /\ supplierCall'[u].at = supplierCall[u].at
                     /\ supplierCall'[u].kind = supplierCall[u].kind
                     /\ supplierCall'[u].of = supplierCall[u].of
                     /\ supplierCall[u].at \in {"ack", "page"} => supplierCall'[u].moved
    <3>1. CASE supplierCall[u] = None
      BY <2>1, <2>2, <3>1 DEF Supplier!At
    <3>2. CASE supplierCall[u] # None /\ supplierCall[u].at \notin {"ack", "page"}
      <4>1. supplierCall'[u] = supplierCall[u]
        BY <2>1, <2>2, <3>2 DEF Supplier!At
      <4> QED
        BY <1>2, <3>2, <4>1
    <3>3. CASE supplierCall[u] # None /\ supplierCall[u].at \in {"ack", "page"}
      <4>1. supplierCall'[u] = [supplierCall[u] EXCEPT !.moved = TRUE]
        BY <2>1, <2>2, <3>3 DEF Supplier!At
      <4>2. supplierCall[u] \in Supplier!Steps
        BY <1>2, <3>3
      <4>3. /\ supplierCall'[u] \in Supplier!Steps
            /\ supplierCall'[u].at = supplierCall[u].at
            /\ supplierCall'[u].kind = supplierCall[u].kind
            /\ supplierCall'[u].of = supplierCall[u].of
            /\ supplierCall'[u].moved
        BY <4>1, <4>2 DEF Supplier!Steps, Supplier!StepsOf
      <4> QED
        BY <3>3, <4>3, PortalAssumption
    <3> QED
      BY <3>1, <3>2, <3>3
  <2>3. SupplierTyped'
    <3>1. supplierCall' \in [Threads -> Supplier!Steps \cup {None}]
      BY <1>o, <2>1, <2>2
    <3> QED
      BY <1>6, <3>1 DEF SupplierTyped, SupplierTypes
  <2>4. Others(supplierCall, supplierCall', t)
    BY <2>2 DEF Others
  <2>5. TrailStep(supplier, supplier', supplierCall, supplierCall', t, Supplier!Kinds)
    BY <1>c, <1>k, <1>n, <1>o, <1>6, <2>1 DEF TrailStep, Entering
  <2>6. \A q \in DOMAIN supplier'.users :
           LateStep(supplier.users, supplier'.users, supplierCall, supplierCall', t, q)
    BY <1>7, <2>1
  <2>7. ASSUME NEW u \in Threads PROVE SupplierKnows(u)'
    <3>1. SupplierKnows(u)
      BY DEF SupplierInv
    <3>2. CASE u = t
      BY <1>o, <2>1, <3>2 DEF SupplierKnows
    <3>3. CASE u # t
      BY <1>5, <1>6, <2>2, <3>1, <3>3 DEF SupplierKnows
    <3> QED
      BY <3>2, <3>3
  <2>8. Supplier!OwnWhenAsked'
    BY <1>6 DEF SupplierInv, Supplier!OwnWhenAsked
  <2>9. 1 \in DOMAIN supplier'.users
    BY <1>5, <1>6 DEF SupplierInv
  <2> QED
    BY <2>3, <2>4, <2>5, <2>6, <2>7, <2>8, <2>9 DEF SupplierGoes
<1> QED
  BY <1>1, <1>8, <1>9

(* An order is the supplier's own when it is acknowledged.                 *)
LEMMA SupplierAcknowledgePo ==
    ASSUME SupplierInv, NEW t \in Threads, Supplier!AcknowledgePo(t)
    PROVE  SupplierGoes(t)
<1>1. PICK order \in Supplier!Orders :
         /\ Supplier!Mine(order)
         /\ Supplier!Begin(t, Supplier!Step("ack", "ack", order))
         /\ UNCHANGED supplier
  BY DEF Supplier!AcknowledgePo
<1> DEFINE next == Supplier!Step("ack", "ack", order)
<1>2. next \in Supplier!Steps
  BY DEF Supplier!Step, Supplier!Steps, Supplier!StepsOf, Supplier!Kinds
<1>3. next \in Supplier!Steps /\ next # None /\ next.at = "ack" /\ next.of = order
  BY <1>2, PortalAssumption DEF Supplier!Step
<1>4. supplierCall[t] = None /\ Supplier!Begin(t, next)
  BY <1>1 DEF Supplier!Begin
<1> HIDE DEF next
<1>5. supplier' \in SupplierTypes
  BY <1>1 DEF SupplierInv, SupplierTyped
<1>6. TrailStep(supplier, supplier', supplierCall, supplierCall', t, Supplier!Kinds)
  BY <1>1, <1>3, <1>4, SupplierQuiet DEF SupplierInv
<1>7. Supplier!OwnWhenAsked'
  BY <1>1 DEF SupplierInv, Supplier!OwnWhenAsked
<1> QED
  BY <1>1, <1>3, <1>4, <1>5, <1>6, <1>7, SupplierStays

(* So are the orders a list begins with.                                   *)
LEMMA SupplierListFirst ==
    ASSUME SupplierInv, NEW t \in Threads, Supplier!ListFirst(t)
    PROVE  SupplierGoes(t)
<1> DEFINE shown == {order \in {"po-apex-001"} : Supplier!Mine(order)}
           next == Supplier!Step("page", "page", shown)
<1>1. Supplier!Begin(t, next) /\ UNCHANGED supplier
  BY DEF Supplier!ListFirst
<1>0. /\ shown \in SUBSET Supplier!Orders /\ shown \subseteq {"po-apex-001"}
      /\ \A order \in shown : Supplier!Mine(order)
  BY DEF Supplier!Orders
<1> HIDE DEF shown
<1>2. next \in Supplier!Steps
  BY <1>0 DEF Supplier!Step, Supplier!Steps, Supplier!StepsOf, Supplier!Kinds
<1>3. next \in Supplier!Steps /\ next # None /\ next.at = "page" /\ next.of = shown
  BY <1>2, PortalAssumption DEF Supplier!Step
<1>4. supplierCall[t] = None
  BY <1>1 DEF Supplier!Begin
<1> HIDE DEF next
<1>5. supplier' \in SupplierTypes
  BY <1>1 DEF SupplierInv, SupplierTyped
<1>6. TrailStep(supplier, supplier', supplierCall, supplierCall', t, Supplier!Kinds)
  BY <1>1, <1>3, <1>4, SupplierQuiet DEF SupplierInv
<1>7. Supplier!OwnWhenAsked'
  BY <1>1 DEF SupplierInv, Supplier!OwnWhenAsked
<1> QED
  BY <1>0, <1>1, <1>3, <1>5, <1>6, <1>7, SupplierStays

(* What was looked at is used: it is still the caller's own, or has moved. *)
LEMMA SupplierUses ==
    ASSUME SupplierInv, NEW t \in Threads, supplierCall[t] # None,
           NEW own \in BOOLEAN, own \/ supplierCall[t].moved,
           supplier'.used = supplier.used \cup {[own |-> own, moved |-> supplierCall[t].moved]}
    PROVE  Supplier!OwnWhenAsked' /\ (supplier'.used \in Shown)
<1>1. supplierCall[t].moved \in BOOLEAN
  BY DEF SupplierInv, SupplierTyped, Supplier!Steps, Supplier!StepsOf
<1>2. Supplier!OwnWhenAsked /\ supplier.used \in Shown
  BY DEF SupplierInv, SupplierTyped, SupplierTypes
<1> QED
  BY <1>1, <1>2 DEF Shown, Supplier!OwnWhenAsked

(* The acknowledgement of an order.                                        *)
LEMMA SupplierAddAcknowledgement ==
    ASSUME SupplierInv, NEW t \in Threads, Supplier!AddAcknowledgement(t)
    PROVE  SupplierGoes(t)
<1> DEFINE own == supplier.owner[supplierCall[t].of] = supplier.users[1].supplier
           more == supplier.used \cup {[own |-> own, moved |-> supplierCall[t].moved]}
           rows == [supplier.rows EXCEPT !["ack"] = @ + 1]
           next == Supplier!Step("entry", "ack", None)
<1>1. /\ supplierCall[t] # None /\ supplierCall[t].at = "ack"
      /\ supplier' = [supplier EXCEPT !.rows["ack"] = @ + 1, !.used = more]
      /\ Supplier!Go(t, next)
  BY DEF Supplier!AddAcknowledgement, Supplier!At
<1>2. supplier \in SupplierTypes /\ "ack" \in Supplier!Kinds
  BY DEF SupplierInv, SupplierTyped, Supplier!Kinds
<1>o. own \in BOOLEAN /\ (own \/ supplierCall[t].moved)
  BY <1>1 DEF SupplierInv, SupplierKnows, Supplier!Mine
<1> HIDE DEF own
<1>a. rows \in [Supplier!Kinds -> Nat]
  BY <1>2 DEF SupplierTypes
<1>m. more = supplier.used \cup {[own |-> own, moved |-> supplierCall[t].moved]}
  OBVIOUS
<1> HIDE DEF more
<1>b. supplier' = [supplier EXCEPT !.rows = rows, !.used = more]
  BY <1>1, <1>2 DEF SupplierTypes
<1>n. /\ next = Supplier!Step("entry", "ack", None) /\ None \in Nat \cup {None}
      /\ rows = [supplier.rows EXCEPT !["ack"] = @ + 1]
  OBVIOUS
<1> HIDE DEF rows, next
<1>c. supplier'.used = more /\ supplier'.rows = rows
  BY <1>b, <1>2 DEF SupplierTypes
<1>3. Supplier!OwnWhenAsked' /\ (supplier'.used \in Shown)
  BY <1>1, <1>c, <1>m, <1>o, SupplierUses
<1>4. /\ supplier' \in SupplierTypes
      /\ supplier'.users = supplier.users /\ supplier'.owner = supplier.owner
      /\ supplier'.trail = supplier.trail
  BY <1>a, <1>b, <1>c, <1>2, <1>3 DEF SupplierTypes
<1>5. /\ next \in Supplier!Steps /\ next # None /\ next.at = "entry"
      /\ TrailStep(supplier, supplier', supplierCall, supplierCall', t, Supplier!Kinds)
  BY <1>1, <1>2, <1>4, <1>c, <1>n, SupplierFiles DEF SupplierInv
<1> QED
  BY <1>1, <1>3, <1>4, <1>5, SupplierStays

(* A set of one supplier at most.                                          *)
LEMMA OneAtMost ==
    ASSUME NEW x, NEW S, S \subseteq {x}
    PROVE  Supplier!Cardinality(S) <= 1
<1>1. IsFiniteSet({x}) /\ Cardinality({x}) = 1
  BY FS_Singleton
<1>2. Cardinality(S) <= Cardinality({x})
  BY <1>1, FS_Subset
<1> QED
  BY <1>1, <1>2, Counted

(* The rest of a list.                                                     *)
LEMMA SupplierListRest ==
    ASSUME SupplierInv, NEW t \in Threads, Supplier!ListRest(t)
    PROVE  SupplierGoes(t)
<1> DEFINE shown == supplierCall[t].of \cup {order \in {"po-other-001"} : Supplier!Mine(order)}
           owners == {supplier.owner[order] : order \in shown}
           own == Supplier!Cardinality(owners) <= 1
           more == supplier.used \cup {[own |-> own, moved |-> supplierCall[t].moved]}
<1>1. /\ supplierCall[t] # None /\ supplierCall[t].at = "page"
      /\ supplier' = [supplier EXCEPT !.used = more]
      /\ Supplier!Go(t, None)
  BY DEF Supplier!ListRest, Supplier!At
<1>2. supplier \in SupplierTypes
  BY DEF SupplierInv, SupplierTyped
<1>o. own \in BOOLEAN /\ (own \/ supplierCall[t].moved)
  <2>1. CASE supplierCall[t].moved
    BY <2>1
  <2>2. CASE ~supplierCall[t].moved
    <3>1. \A order \in supplierCall[t].of : Supplier!Mine(order)
      BY <1>1, <2>2 DEF SupplierInv, SupplierKnows
    <3>2. owners \subseteq {supplier.users[1].supplier}
      BY <3>1 DEF Supplier!Mine
    <3> HIDE DEF owners
    <3>3. Supplier!Cardinality(owners) <= 1
      BY <3>2, OneAtMost
    <3> QED
      BY <3>3
  <2> QED
    BY <2>1, <2>2
<1> HIDE DEF own
<1>m. more = supplier.used \cup {[own |-> own, moved |-> supplierCall[t].moved]}
  OBVIOUS
<1> HIDE DEF more
<1>c. supplier'.used = more
  BY <1>1, <1>2 DEF SupplierTypes
<1>3. Supplier!OwnWhenAsked' /\ (supplier'.used \in Shown)
  BY <1>1, <1>c, <1>m, <1>o, SupplierUses
<1>4. /\ supplier' \in SupplierTypes /\ supplier'.rows = supplier.rows
      /\ supplier'.users = supplier.users /\ supplier'.owner = supplier.owner
      /\ supplier'.trail = supplier.trail
  BY <1>1, <1>2, <1>3, <1>c DEF SupplierTypes
<1>5. TrailStep(supplier, supplier', supplierCall, supplierCall', t, Supplier!Kinds)
  BY <1>1, <1>4, SupplierQuiet DEF SupplierInv
<1> QED
  BY <1>1, <1>3, <1>4, <1>5, SupplierStays

(* Every call of the supplier portal.                                      *)
LEMMA SupplierCalls ==
    ASSUME SupplierInv, NEW t \in Threads, Supplier!Calls(t)
    PROVE  SupplierGoes(t)
<1>1. CASE Supplier!AddEntry(t)
  BY <1>1, SupplierAddEntry
<1>2. CASE Supplier!LogIn(t)
  BY <1>2, SupplierLogIn
<1>3. CASE Supplier!AddSession(t)
  BY <1>3, SupplierAddSession
<1>4. CASE Supplier!InviteUser(t)
  BY <1>4, SupplierInviteUser
<1>5. CASE Supplier!UpdateUser(t)
  BY <1>5, SupplierUpdateUser
<1>6. CASE Supplier!DisableUser(t)
  BY <1>6, SupplierDisableUser
<1>7. CASE Supplier!AcknowledgePo(t)
  BY <1>7, SupplierAcknowledgePo
<1>8. CASE Supplier!AddAcknowledgement(t)
  BY <1>8, SupplierAddAcknowledgement
<1>9. CASE Supplier!ProfileUpdateRequest(t) \/ Supplier!UploadDocument(t)
  <2>1. PICK kind \in Supplier!Kinds : Supplier!Recorded(t, kind)
    BY <1>9 DEF Supplier!ProfileUpdateRequest, Supplier!UploadDocument, Supplier!Kinds
  <2> QED
    BY <2>1, SupplierRecorded
<1>10. CASE \/ Supplier!UploadCertificate(t) \/ Supplier!CreateDeliveryConfirmation(t)
            \/ Supplier!CreateAsn(t) \/ Supplier!CreateMessage(t)
            \/ Supplier!RespondCapa(t) \/ Supplier!DraftAction(t)
  <2>1. Supplier!FileRow(t)
    BY <1>10 DEF Supplier!UploadCertificate, Supplier!CreateDeliveryConfirmation,
                 Supplier!CreateAsn, Supplier!CreateMessage, Supplier!RespondCapa,
                 Supplier!DraftAction
  <2> QED
    BY <2>1, SupplierFileRow
<1>11. CASE Supplier!PurchaseOrders(t) \/ Supplier!Dashboard(t) \/ Supplier!Reports(t)
  <2>1. Supplier!ListFirst(t)
    BY <1>11 DEF Supplier!PurchaseOrders, Supplier!Dashboard, Supplier!Reports
  <2> QED
    BY <2>1, SupplierListFirst
<1>12. CASE Supplier!ListRest(t)
  BY <1>12, SupplierListRest
<1> QED
  BY <1>1, <1>2, <1>3, <1>4, <1>5, <1>6, <1>7, <1>8, <1>9, <1>10, <1>11, <1>12
     DEF Supplier!Calls

(* What every step does keeps the invariant.                               *)
LEMMA SupplierKept ==
    ASSUME SupplierInv, NEW t \in Threads, SupplierGoes(t)
    PROVE  SupplierInv'
<1> PICK c : c = supplierCall
  OBVIOUS
<1> PICK d : d = supplierCall'
  OBVIOUS
<1> PICK list : list = supplier
  OBVIOUS
<1> PICK next : next = supplier'
  OBVIOUS
<1>0. /\ Others(c, d, t) /\ TrailStep(list, next, c, d, t, Supplier!Kinds)
      /\ \A r \in DOMAIN next.users : LateStep(list.users, next.users, c, d, t, r)
  BY DEF SupplierGoes
<1>1. /\ \A kind \in Supplier!Kinds : Told(list, c, kind)
      /\ \A r \in DOMAIN list.users : Spares(list.users[r], c, r)
      /\ list.rows \in [Supplier!Kinds -> Nat] /\ list.trail \in [Supplier!Kinds -> Nat]
      /\ list.users \in Seq(SupplierUsers)
  BY DEF SupplierInv, SupplierTyped, SupplierTypes
<1>2. \A kind \in Supplier!Kinds : Told(next, d, kind)
  BY <1>0, <1>1, TrailKept
<1>3. ASSUME NEW r \in DOMAIN next.users PROVE Spares(next.users[r], d, r)
  <2> PICK people : people = list.users
    OBVIOUS
  <2>1. people \in Seq(SupplierUsers)
    BY <1>1
  <2>2. r \in DOMAIN people => people[r] \in SupplierUsers
    BY <2>1, UsersNumbered
  <2>3. r \in DOMAIN people => people[r].late \in Nat
    BY <2>2 DEF SupplierUsers
  <2>4. r \in DOMAIN people => Spares(people[r], c, r)
    BY <1>1
  <2>5. LateStep(people, next.users, c, d, t, r)
    BY <1>0
  <2> QED
    BY <1>0, <2>3, <2>4, <2>5, LateKept
<1> QED
  BY <1>2, <1>3 DEF SupplierInv, SupplierGoes

(* The lists at a start.                                                   *)
LEMMA SupplierStarts ==
    ASSUME NEW owner \in [Supplier!Orders -> Suppliers], NEW list, NEW c,
           list = Supplier!Lists(owner), c = Idle
    PROVE  /\ list \in SupplierTypes /\ list.used = {} /\ 1 \in DOMAIN list.users
           /\ c \in [Threads -> Supplier!Steps \cup {None}] /\ \A t \in Threads : c[t] = None
           /\ \A kind \in Supplier!Kinds : Told(list, c, kind)
           /\ \A r \in DOMAIN list.users : Spares(list.users[r], c, r)
<1>1. /\ list = [users |-> <<[id |-> "spu-apex-admin", supplier |-> owner["po-apex-001"],
                              status |-> "Active", late |-> 0]>>,
                 owner |-> owner,
                 rows |-> [k \in Supplier!Kinds |-> 0],
                 trail |-> [k \in Supplier!Kinds |-> 0], filed |-> 0, used |-> {}]
      /\ c = [t \in Threads |-> None]
  BY DEF Supplier!Lists, Supplier!User, Idle
<1>2. list.users \in Seq(SupplierUsers) /\ 1 \in DOMAIN list.users
  BY <1>1 DEF SupplierUsers, Supplier!Ids, Supplier!Orders
<1>3. list \in SupplierTypes
  BY <1>1, <1>2 DEF SupplierTypes, Shown
<1>4. ASSUME NEW kind \in Supplier!Kinds PROVE Told(list, c, kind)
  <2>1. Entering(c, kind) = {}
    BY <1>1 DEF Entering
  <2>2. Cardinality(Entering(c, kind)) = 0
    BY <2>1, FS_EmptySet
  <2> QED
    BY <1>1, <2>2 DEF Told
<1>5. ASSUME NEW r \in DOMAIN list.users PROVE Spares(list.users[r], c, r)
  <2>1. r = 1
    BY <1>1
  <2> QED
    BY <1>1, <2>1 DEF Spares
<1> QED
  BY <1>1, <1>2, <1>3, <1>4, <1>5

-----------------------------------------------------------------------------
(* Both portals.                                                           *)
PortalInv == CustomerInv /\ SupplierInv

(* Lists that are seeded and calls that are not there are as they should   *)
(* be.                                                                     *)
LEMMA CustomerAnew ==
    ASSUME NEW email \in Emails, customer' = Customer!Lists(email), customerCall' = Idle
    PROVE  CustomerInv'
<1> PICK list : list = customer'
  OBVIOUS
<1> PICK c : c = customerCall'
  OBVIOUS
<1>1. /\ list \in CustomerTypes /\ list.used = {}
      /\ c \in [Threads -> Customer!Steps \cup {None}] /\ \A t \in Threads : c[t] = None
      /\ \A kind \in Customer!Kinds : Told(list, c, kind)
      /\ \A r \in DOMAIN list.users : Spares(list.users[r], c, r)
  BY CustomerStarts
<1> QED
  BY <1>1 DEF CustomerInv, CustomerTyped, CustomerTypes, CustomerKnows, Customer!OwnWhenAsked

(* So are the supplier portal's.                                           *)
LEMMA SupplierAnew ==
    ASSUME NEW owner \in [Supplier!Orders -> Suppliers], supplier' = Supplier!Lists(owner),
           supplierCall' = Idle
    PROVE  SupplierInv'
<1> PICK list : list = supplier'
  OBVIOUS
<1> PICK c : c = supplierCall'
  OBVIOUS
<1>1. /\ list \in SupplierTypes /\ list.used = {} /\ 1 \in DOMAIN list.users
      /\ c \in [Threads -> Supplier!Steps \cup {None}] /\ \A t \in Threads : c[t] = None
      /\ \A kind \in Supplier!Kinds : Told(list, c, kind)
      /\ \A r \in DOMAIN list.users : Spares(list.users[r], c, r)
  BY SupplierStarts
<1> QED
  BY <1>1 DEF SupplierInv, SupplierTyped, SupplierTypes, SupplierKnows, Supplier!OwnWhenAsked

(* The portals start so.                                                   *)
LEMMA PortalsStart == PortalsInit => PortalInv
<1> SUFFICES ASSUME PortalsInit PROVE PortalInv
  OBVIOUS
<1>1. CustomerInv
  <2>1. PICK email \in Emails : customer = Customer!Lists(email)
    BY DEF PortalsInit, Customer!Init
  <2>2. customerCall = Idle
    BY DEF PortalsInit
  <2>3. /\ customer \in CustomerTypes /\ customer.used = {}
        /\ customerCall \in [Threads -> Customer!Steps \cup {None}]
        /\ \A t \in Threads : customerCall[t] = None
        /\ \A kind \in Customer!Kinds : Told(customer, customerCall, kind)
        /\ \A r \in DOMAIN customer.users : Spares(customer.users[r], customerCall, r)
    BY <2>1, <2>2, CustomerStarts
  <2> QED
    BY <2>3 DEF CustomerInv, CustomerTyped, CustomerKnows, Customer!OwnWhenAsked
<1>2. SupplierInv
  <2>1. PICK owner \in [Supplier!Orders -> Suppliers] : supplier = Supplier!Lists(owner)
    BY DEF PortalsInit, Supplier!Init
  <2>2. supplierCall = Idle
    BY DEF PortalsInit
  <2>3. /\ supplier \in SupplierTypes /\ supplier.used = {} /\ 1 \in DOMAIN supplier.users
        /\ supplierCall \in [Threads -> Supplier!Steps \cup {None}]
        /\ \A t \in Threads : supplierCall[t] = None
        /\ \A kind \in Supplier!Kinds : Told(supplier, supplierCall, kind)
        /\ \A r \in DOMAIN supplier.users : Spares(supplier.users[r], supplierCall, r)
    BY <2>1, <2>2, SupplierStarts
  <2> QED
    BY <2>3 DEF SupplierInv, SupplierTyped, SupplierKnows, Supplier!OwnWhenAsked
<1> QED
  BY <1>1, <1>2 DEF PortalInv

(* A portal nobody calls stays as it is.                                   *)
LEMMA CustomerIdles ==
    ASSUME CustomerInv, UNCHANGED <<customer, customerCall>>
    PROVE  CustomerInv'
  BY DEF CustomerInv, CustomerTyped, CustomerTypes, CustomerKnows, Customer!OwnWhenAsked

(* And so does the other portal.                                           *)
LEMMA SupplierIdles ==
    ASSUME SupplierInv, UNCHANGED <<supplier, supplierCall>>
    PROVE  SupplierInv'
  BY DEF SupplierInv, SupplierTyped, SupplierTypes, SupplierKnows, Supplier!Mine,
         Supplier!OwnWhenAsked

(* Every step of either portal, and a start anew, keep both invariants.    *)
LEMMA PortalsKept == PortalInv /\ [PortalsNext]_portalVars => PortalInv'
<1> SUFFICES ASSUME PortalInv, [PortalsNext]_portalVars PROVE PortalInv'
  OBVIOUS
<1>0. CustomerInv /\ SupplierInv
  BY DEF PortalInv
<1>1. ASSUME NEW t \in Threads, ToCustomerPortal(t) PROVE PortalInv'
  <2>1. Customer!Calls(t) /\ UNCHANGED <<supplier, supplierCall>>
    BY <1>1 DEF ToCustomerPortal
  <2>2. CustomerInv'
    BY <1>0, <2>1, CustomerCalls, CustomerKept
  <2> QED
    BY <1>0, <2>1, <2>2, SupplierIdles DEF PortalInv
<1>2. ASSUME NEW t \in Threads, ToSupplierPortal(t) PROVE PortalInv'
  <2>1. Supplier!Calls(t) /\ UNCHANGED <<customer, customerCall>>
    BY <1>2 DEF ToSupplierPortal
  <2>2. SupplierInv'
    BY <1>0, <2>1, SupplierCalls, SupplierKept
  <2> QED
    BY <1>0, <2>1, <2>2, CustomerIdles DEF PortalInv
<1>3. CASE PortalsRestart
  <2>1. CustomerInv'
    BY <1>3, CustomerAnew DEF PortalsRestart
  <2>2. supplier.owner \in [Supplier!Orders -> Suppliers]
    BY <1>0 DEF SupplierInv, SupplierTyped, SupplierTypes
  <2>3. SupplierInv'
    BY <1>3, <2>2, SupplierAnew DEF PortalsRestart
  <2> QED
    BY <2>1, <2>3 DEF PortalInv
<1>4. CASE UNCHANGED portalVars
  BY <1>0, <1>4, CustomerIdles, SupplierIdles DEF PortalInv, portalVars
<1> QED
  BY <1>1, <1>2, <1>3, <1>4 DEF PortalsNext

(* The invariant of the two portals holds whatever is called.              *)
THEOREM PortalsHold == PortalsSpec => []PortalInv
  BY PortalsStart, PortalsKept, PTL DEF PortalsSpec

(* Every session, invitation, request, return, acknowledgement, document,  *)
(* update and disabling has its entry in the audit log or its notification *)
(* (customer_portal_service.py, supplier_portal_service.py), or the call   *)
(* that made the row is about to write it.                                 *)
THEOREM EntriesFollow == PortalsSpec => []TrailIsComplete
<1>1. PortalInv => TrailIsComplete
  <2> SUFFICES ASSUME PortalInv PROVE TrailIsComplete
    OBVIOUS
  <2>1. ASSUME NEW kind \in Customer!Kinds
        PROVE  customer.rows[kind]
                 = customer.trail[kind]
                     + Customer!Cardinality(Customer!Underway("entry", kind))
    <3>1. Customer!Underway("entry", kind) = Entering(customerCall, kind)
      BY DEF Customer!Underway, Customer!At, Entering
    <3>2. Told(customer, customerCall, kind)
      BY DEF PortalInv, CustomerInv
    <3> QED
      BY <3>1, <3>2, Counted DEF Told
  <2>2. ASSUME NEW kind \in Supplier!Kinds
        PROVE  supplier.rows[kind]
                 = supplier.trail[kind]
                     + Supplier!Cardinality(Supplier!Underway("entry", kind))
    <3>1. Supplier!Underway("entry", kind) = Entering(supplierCall, kind)
      BY DEF Supplier!Underway, Supplier!At, Entering
    <3>2. Told(supplier, supplierCall, kind)
      BY DEF PortalInv, SupplierInv
    <3> QED
      BY <3>1, <3>2, Counted DEF Told
  <2> QED
    BY <2>1, <2>2 DEF TrailIsComplete, Customer!EntriesFollowRows, Supplier!EntriesFollowRows
<1> QED
  BY <1>1, PortalsHold, PTL

(* What a portal shows, files or acknowledges is the caller's own, unless  *)
(* the order or the caller's user was moved while the call ran: what is    *)
(* checked first is read again for the row or the answer.                  *)
THEOREM OnlyOwnOrders == PortalsSpec => []OwnOrders
<1>1. PortalInv => OwnOrders
  BY DEF PortalInv, CustomerInv, SupplierInv, OwnOrders
<1> QED
  BY <1>1, PortalsHold, PTL

(* A user who is disabled gets a session only from logins that found the   *)
(* user active before: one for every other thread of the pool at most.     *)
THEOREM DisabledStayOut == PortalsSpec => []DisablingTakesHold
<1>1. PortalInv => DisablingTakesHold
  <2> SUFFICES ASSUME PortalInv PROVE DisablingTakesHold
    OBVIOUS
  <2>1. ASSUME NEW r \in DOMAIN customer.users
        PROVE  customer.users[r].late < Cardinality(Threads)
    <3> PICK people : people = customer.users
      BY DEF PortalInv
    <3>1. people[r] \in CustomerUsers /\ Spares(people[r], customerCall, r)
      BY <2>1, UsersNumbered DEF PortalInv, CustomerInv, CustomerTyped, CustomerTypes
    <3>2. people[r].late \in Nat
      BY <3>1 DEF CustomerUsers
    <3> QED
      BY <3>1, <3>2, LateIsFew
  <2>2. ASSUME NEW r \in DOMAIN supplier.users
        PROVE  supplier.users[r].late < Cardinality(Threads)
    <3> PICK people : people = supplier.users
      BY DEF PortalInv
    <3>1. people[r] \in SupplierUsers /\ Spares(people[r], supplierCall, r)
      BY <2>2, UsersNumbered DEF PortalInv, SupplierInv, SupplierTyped, SupplierTypes
    <3>2. people[r].late \in Nat
      BY <3>1 DEF SupplierUsers
    <3> QED
      BY <3>1, <3>2, LateIsFew
  <2> QED
    BY <2>1, <2>2 DEF DisablingTakesHold, Customer!LateSessions, Supplier!LateSessions
<1> QED
  BY <1>1, PortalsHold, PTL
=============================================================================
