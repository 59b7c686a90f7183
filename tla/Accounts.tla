------------------------------ MODULE Accounts ------------------------------
(***************************************************************************)
(* The accounts of the platform: passwords, links to reset them, and users *)
(* an administrator enables and disables (runtime_router.py).  The rows are *)
(* in a database.  A handler loads a row, works on its copy, and commits   *)
(* the columns its copy changed; between the load and the commit it hashes *)
(* passwords, which takes long, and no row is locked.  Rows are found by   *)
(* email or by id, which are not told apart here.                          *)
(***************************************************************************)
EXTENDS ThreadPool, Naturals, Sequences

CONSTANTS
    Users,      \* the ids of users there can be
    Seeded,     \* users whose row every start of the server writes
    SeedHash,   \* the password of a seeded user, which need not satisfy ...
    Passwords,  \* ... the criteria of strength, as these do
    Links,      \* tokens of reset links
    NoLink,     \* a row without one
    Pending,    \* the hash of a user that is being created
    NoCall,     \* a thread that runs none
    MaxPasswords \* bound, per user: calls on the password start below it

Hashes == Passwords \cup {SeedHash, Pending}

Rows == [hash : Hashes,
         past : {s \in Seq(Hashes) : Len(s) <= 3},
         token : Links \cup {NoLink},
         force : BOOLEAN,
         active : BOOLEAN]

\* What a running call knows: its user, the row as its session loaded it
\* and as it will leave it, and the link it was made with.
Calls == [user : Users,
          old : Rows,
          new : Rows,
          link : Links \cup {NoLink}]

ASSUME AccountsAssumption ==
    /\ Seeded \subseteq Users
    /\ NoLink \notin Links
    /\ Pending \notin Passwords \cup {SeedHash}
    /\ NoCall \notin Calls
    /\ MaxPasswords \in [Users -> Nat]

VARIABLES
    users,    \* ids that have a row
    row,      \* the row of each of them
    issued,   \* links that were made
    call,     \* per thread: the call it runs
    \* history
    log,      \* per user: the passwords that were set, the newest first
    spent,    \* links that were live when a password of their user was set
    temporary,\* users whose password an administrator wants changed
    raced     \* users on whom two calls worked on the password at once

history == <<log, spent, temporary, raced>>
vars == <<users, row, issued, call, history>>

NewRow(hash, active) ==
    [hash |-> hash, past |-> <<>>, token |-> NoLink, force |-> FALSE,
     active |-> active]

FirstThree(s) == SubSeq(s, 1, IF Len(s) < 3 THEN Len(s) ELSE 3)

\* mutant: one password too few is looked at
RecentTwo(r) == {(<<r.hash>> \o r.past)[i] : i \in 1..(IF r.past = <<>> THEN 1 ELSE 2)}

\* set_user_password: the passwords that may not be chosen again, ...
Recent(r) ==
    LET last == FirstThree(<<r.hash>> \o r.past)
    IN  {last[i] : i \in DOMAIN last}

\* mutants: the link stays; the mark is left as it was
LinkKept(r, p, force) ==
    [r EXCEPT !.hash = p, !.past = FirstThree(<<r.hash>> \o r.past),
              !.force = force]
NeverForced(r, p, force) ==
    [r EXCEPT !.hash = p, !.past = FirstThree(<<r.hash>> \o r.past),
              !.token = NoLink]

\* ... and the row with the new one.
WithPassword(r, p, force) ==
    [r EXCEPT !.hash = p,
              !.past = FirstThree(<<r.hash>> \o r.past),
              !.token = NoLink,
              !.force = force]

CommitAll(r, o, n) == n   \* mutant: every column is written

\* The UPDATE of row r: the columns in which n differs from o, as loaded.
Commit(r, o, n) ==
    [hash   |-> IF n.hash # o.hash THEN n.hash ELSE r.hash,
     past   |-> IF n.past # o.past THEN n.past ELSE r.past,
     token  |-> IF n.token # o.token THEN n.token ELSE r.token,
     force  |-> IF n.force # o.force THEN n.force ELSE r.force,
     active |-> IF n.active # o.active THEN n.active ELSE r.active]

-----------------------------------------------------------------------------

Init ==
    /\ users = Seeded
    /\ row = [u \in Users |-> NewRow(SeedHash, TRUE)]
    /\ issued = {}
    /\ call = [t \in Threads |-> NoCall]
    /\ log = [u \in Users |-> <<SeedHash>>]
    /\ spent = {}
    /\ temporary = {}
    /\ raced = {}

SetsPassword(c) == c.new.hash # c.old.hash

\* Whether a call writes columns that go with the password.
OnPassword(c) == SetsPassword(c) \/ c.new.token # c.old.token

\* Thread t has loaded the row of u, and its handler left n of it.
Load(t, u, n, l) ==
    LET c == [user |-> u, old |-> row[u], new |-> n, link |-> l]
    IN  /\ call[t] = NoCall
        /\ u \in users
        /\ OnPassword(c) => Len(log[u]) < MaxPasswords[u]
        /\ call' = [call EXCEPT ![t] = c]
        /\ raced' = raced \cup
              {v \in {u} : /\ OnPassword(c)
                           /\ \E o \in Threads : /\ call[o] # NoCall
                                                 /\ call[o].user = u
                                                 /\ OnPassword(call[o])}
        /\ UNCHANGED <<users, row, log, spent, temporary>>

\* change_password: current_user lets no disabled user in.
ChangePassword(t, u, p) ==
    /\ row[u].active
    /\ p \notin Recent(row[u])
    /\ Load(t, u, WithPassword(row[u], p, FALSE), NoLink)
    /\ UNCHANGED issued

\* reset_password: the row is the one that has the link.  A link is refused
\* when its thirty minutes have passed; here it may be followed later, too.
ResetPassword(t, u, l, p) ==
    /\ row[u].token = l
    /\ p \notin Recent(row[u])
    /\ Load(t, u, WithPassword(row[u], p, FALSE), l)
    /\ UNCHANGED issued

\* admin_reset_user_password: force says whether it must be changed.
AdminResetPassword(t, u, p, force) ==
    /\ p \notin Recent(row[u])
    /\ Load(t, u, WithPassword(row[u], p, force), NoLink)
    /\ UNCHANGED issued

\* update_user: with a password or without, enabling, disabling or neither.
UpdateUser(t, u, active) ==
    /\ \/ Load(t, u, [row[u] EXCEPT !.active = active], NoLink)
       \/ \E p \in Passwords \ Recent(row[u]) :
             Load(t, u,
                  [WithPassword(row[u], p, TRUE) EXCEPT !.active = active],
                  NoLink)
    /\ UNCHANGED issued

\* forgot_password: each link is a new one.
ForgotPassword(t, u, l) ==
    /\ l \notin issued
    /\ Load(t, u, [row[u] EXCEPT !.token = l], NoLink)
    /\ issued' = issued \cup {l}

\* create_user: the row is inserted with its first password.
CreateUser(u, p, active) ==
    /\ u \notin users
    /\ users' = users \cup {u}
    /\ row' = [row EXCEPT
                  ![u] = WithPassword(NewRow(Pending, active), p, TRUE)]
    /\ log' = [log EXCEPT ![u] = <<p>>]
    /\ temporary' = temporary \cup {u}
    /\ UNCHANGED <<issued, call, spent, raced>>

\* What the history says once the password that call c sets is stored.
Remember(c) ==
    /\ log' = [log EXCEPT ![c.user] = <<c.new.hash>> \o @]
    /\ spent' = spent \cup {l \in Links : row[c.user].token = l}
    /\ temporary' = IF c.new.force THEN temporary \cup {c.user}
                                   ELSE temporary \ {c.user}

\* The commit at the end of each call.
EndCall(t) ==
    LET c == call[t]
    IN  /\ c # NoCall
        /\ row' = [row EXCEPT ![c.user] = Commit(@, c.old, c.new)]
        /\ IF SetsPassword(c) THEN Remember(c)
                              ELSE UNCHANGED <<log, spent, temporary>>
        /\ call' = [call EXCEPT ![t] = NoCall]
        /\ UNCHANGED <<users, issued, raced>>

\* The session is closed without a commit: the database refused it.
Rollback(t) ==
    /\ call[t] # NoCall
    /\ call' = [call EXCEPT ![t] = NoCall]
    /\ UNCHANGED <<users, row, issued, history>>

\* seed_platform, at every start: seeded users are enabled again.
AsSeeded(u) == IF u \in Seeded THEN [row[u] EXCEPT !.active = TRUE] ELSE row[u]

Restart ==
    /\ call' = [t \in Threads |-> NoCall]
    /\ row' = [u \in Users |-> AsSeeded(u)]
    /\ UNCHANGED <<users, issued, history>>

UserStep(t, u) ==
    \/ \E p \in Passwords : ChangePassword(t, u, p)
    \/ \E p \in Passwords, l \in Links : ResetPassword(t, u, l, p)
    \/ \E p \in Passwords, force \in BOOLEAN : AdminResetPassword(t, u, p, force)
    \/ \E active \in BOOLEAN : UpdateUser(t, u, active)
    \/ \E l \in Links : ForgotPassword(t, u, l)

Next ==
    \/ \E t \in Threads, u \in Users : UserStep(t, u)
    \/ \E t \in Threads : EndCall(t) \/ Rollback(t)
    \/ \E u \in Users, p \in Passwords, active \in BOOLEAN :
          CreateUser(u, p, active)
    \/ Restart

Spec == Init /\ [][Next]_vars

-----------------------------------------------------------------------------

\* Types; a row remembers no more than three passwords.
TypeOK ==
    /\ users \subseteq Users
    /\ row \in [Users -> Rows]
    /\ issued \subseteq Links
    /\ call \in [Threads -> Calls \cup {NoCall}]
    /\ log \in [Users -> Seq(Hashes)]
    /\ spent \subseteq Links
    /\ temporary \subseteq Users
    /\ raced \subseteq Users

\* A password is none of the three before it ("New password cannot match the
\* last 3 passwords"), whichever calls set them, through restarts and calls
\* that failed, unless two of them were at work at once.
NoRecentReuse ==
    \A u \in users \ raced : \A i, j \in DOMAIN log[u] :
        i < j /\ j <= i + 3 => log[u][i] # log[u][j]

\* Setting a password, in any of the ways there are, ends the links that
\* were sent before: none is stored in a row any more, and no call that has
\* still to commit was let in by one.
LinksEnd ==
    \A u \in users \ raced :
        /\ row[u].token \notin spent
        /\ \A t \in Threads :
              call[t] # NoCall /\ call[t].user = u => call[t].link \notin spent

\* A password that an administrator has given out is marked to be changed,
\* until another one is set.
TemporaryIsForced == \A u \in temporary \ raced : row[u].force

EnablingIsAsked ==
    \A u \in users : ~row[u].active /\ row'[u].active =>
        \/ u \in Seeded
        \/ \E t \in Threads : /\ call[t] # NoCall
                              /\ call[t].user = u
                              /\ call[t].new.active
                              /\ ~call[t].old.active

\* Only an administrator's update that meant to enable a user does, whatever
\* calls that loaded the row before the user was disabled store later.  The
\* start of the server does it for seeded users.
OnlyAdminsEnable == [][EnablingIsAsked]_vars
=============================================================================
