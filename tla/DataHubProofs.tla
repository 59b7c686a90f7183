---------------------------- MODULE DataHubProofs ----------------------------
(***************************************************************************)
(* What DataHub and its pages promise holds for any number of threads,     *)
(* companies and calls.                                                    *)
(*                                                                         *)
(* A call reads, waits and then commits what it has in hand, and rows may  *)
(* have moved meanwhile.  So HubInv, the inductive invariant, says of      *)
(* every change in hand what ties it to the rows on file: Fits and Keeps,  *)
(* that it is of its table and leaves the row's company alone; Stands,     *)
(* that the row it was read from is still of that company; Maps, that a    *)
(* mapping comes with its validation; Tells, that a connection comes and   *)
(* goes with its entry in the audit.  Apart says that two calls never hold *)
(* the same new connection.  MappingIsValidated and TrailTellsConnections  *)
(* are parts of HubInv, AdminsStayHome and ViewsDoNotInterfere follow from *)
(* it step by step, and OverridesDoNotPileUp needs a count of its own,     *)
(* FewOverrides, of the overrides on file and of those still to come.      *)
(***************************************************************************)
EXTENDS DataHubViews, FiniteSetTheorems, TLAPS

\* The tables whose rows an override may move to another company.
Free == {"system", "catalog", "mapping"}

RowsTyped ==
    /\ uuid \in Nat /\ DOMAIN rows = Tables /\ DOMAIN call = Threads
    /\ \A tb \in Tables : \A i \in DOMAIN rows[tb] : rows[tb][i] \in RowOf[tb]
    /\ \A tb \in {"saved", "system"} : DOMAIN rows[tb] \subseteq 0..uuid

Created(i) == \E e \in trail : e.action = "create_connection" /\ e.id = i
Deleted(i) == \E e \in trail : e.action = "delete_connection" /\ e.id = i

TrailTyped ==
    /\ trail \subseteq Events
    /\ \A i : Created(i) \/ Deleted(i) => i \in 0..uuid

\* What two contents of a row have in common for good, unless the row is free.
SameHome(tb, r, q) ==
    /\ r.company = q.company
    /\ tb = "metadata" => r.category = q.category /\ r.key = q.key

-----------------------------------------------------------------------------
(* What a call may have in hand. *)

Fits(c) ==
    /\ c.table \in Tables
    /\ c.was \in RowOf[c.table] \cup {None} /\ c.new \in RowOf[c.table] \cup {None}
    /\ c.was = None => c.new # None /\ c.table # "pending"
    /\ c.new = None => c.table \notin {"pending", "metadata"}

Keeps(c) ==
    c.was # None /\ c.new # None /\ c.table \notin Free => SameHome(c.table, c.was, c.new)

\* The row a change was made from has not moved since, if it is still there.
Stands(c) ==
    c.was # None /\ c.table \notin Free =>
        /\ c.table = "metadata" => c.id \in DOMAIN rows.metadata
        /\ c.id \in DOMAIN rows[c.table] => SameHome(c.table, rows[c.table][c.id], c.was)

IsOf(t, c) ==
    Actor[t].override \/ /\ c.was # None => c.was.company = Actor[t].company
                         /\ c.new # None => c.new.company = Actor[t].company

\* The id of a row of details or of a footprint tells what the row is of.
Tagged(i, r) ==
    /\ r.category = "details" => i = <<"details", r.key[2]>>
    /\ r.category = "footprint" => i = <<"footprint", r.company>>

ChangeFits(t, c) ==
    /\ Fits(c) /\ Keeps(c) /\ Stands(c) /\ IsOf(t, c)
    /\ c.table = "metadata" /\ c.was = None => Tagged(c.id, c.new)

\* A mapping is written with its validation, or not at all.
Maps(c) ==
    c.table = "saved" /\ c.new # None =>
        IF c.was = None THEN c.new.validation_results = "none"
        ELSE \/ MappingOf(c.new) = MappingOf(c.was)
             \/ c.new.validation_results = Validation(c.new.destination_module, c.new.field_mappings)

\* A connection is created and deleted with its entry, and under an id no other
\* connection has or had.
Tells(w, c) ==
    c.table = "saved" =>
        /\ w.changes = {c}
        /\ c.was = None => /\ ~Created(c.id) /\ ~Deleted(c.id)
                           /\ w.event # None /\ w.event.action = "create_connection"
                           /\ w.event.id = c.id
        /\ c.was # None => Created(c.id)
        /\ c.new = None => /\ w.event # None /\ w.event.action = "delete_connection"
                           /\ w.event.id = c.id

EventFits(t, w) ==
    w.event # None =>
        /\ w.event \in Events
        /\ Actor[t].override \/ w.event.company = Actor[t].company
        /\ w.event.action = "create_connection" =>
              \E c \in w.changes : c.table = "saved" /\ c.was = None /\ c.id = w.event.id
        /\ w.event.action = "delete_connection" =>
              \E c \in w.changes : c.table = "saved" /\ c.new = None /\ c.id = w.event.id

WorkFits(t, w, n) ==
    /\ \A c \in w.changes :
         /\ ChangeFits(t, c) /\ Maps(c) /\ Tells(w, c)
         /\ c.table \in {"saved", "system"} => c.id \in 0..n
    /\ EventFits(t, w)
    /\ \A l \in w.logs : Actor[t].override \/ l.company = Actor[t].company
    /\ w.details # None =>
         w.details \in Values /\ \A c \in w.changes : c.table = "system" /\ c.was = None

CallsFit == \A t \in Threads : call[t] # None => WorkFits(t, call[t], uuid)

\* Connections about to be created have different ids.
Apart ==
    \A t, u \in Threads : call[t] # None /\ call[u] # None =>
        \A c \in call[t].changes, d \in call[u].changes :
            c.table = "saved" /\ d.table = "saved" /\ c.was = None /\ d.was = None /\ c.id = d.id
              => t = u

MetaTagged == \A i \in DOMAIN rows.metadata : Tagged(i, rows.metadata[i])

HubInv ==
    /\ RowsTyped /\ TrailTyped /\ CallsFit /\ Apart /\ MetaTagged
    /\ TrailTellsConnections /\ MappingIsValidated

-----------------------------------------------------------------------------
(* What a commit does to a row. *)

\* What the rows of each table are, and that none of them is taken for no row.
LEMMA TableTypes ==
    /\ DOMAIN RowOf = Tables
    /\ RowOf.saved = Saved /\ RowOf.pending = Pending /\ RowOf.metadata = Meta
    /\ \A tb \in Free : tb \in Tables /\ RowOf[tb] = Plain
    /\ \A tb \in Tables : None \notin RowOf[tb]
    /\ \A tb \in Tables \ Free : tb \in {"saved", "pending", "metadata"}
BY DataHubAssumption DEF RowOf, Free, Tables

\* Session: a row that is on file after a commit is as it was, or one the commit
\* has added, or one of which it has written the columns that changed.
LEMMA FlushedRow ==
    ASSUME NEW old, NEW changes, NEW tb \in DOMAIN old, ~Refused(old, changes),
           NEW i \in DOMAIN Flushed(old, changes)[tb]
    PROVE  \/ i \in DOMAIN old[tb] /\ Flushed(old, changes)[tb][i] = old[tb][i]
           \/ \E c \in changes : /\ c.table = tb /\ c.id = i /\ c.was = None /\ c.new # None
                                 /\ i \notin DOMAIN old[tb]
                                 /\ Flushed(old, changes)[tb][i] = c.new
           \/ \E c \in changes : /\ c.table = tb /\ c.id = i /\ c.was # None
                                 /\ c.new \notin {None, c.was} /\ i \in DOMAIN old[tb]
                                 /\ Flushed(old, changes)[tb][i] = Merged(old[tb][i], c.was, c.new)
<1> DEFINE mine == {c \in changes : c.table = tb}
           put == {c \in mine : c.new \notin {None, c.was}}
           Put == CHOOSE c \in put : c.id = i
<1>1. CASE mine = {}
  BY <1>1 DEF Flushed
<1>2. CASE mine # {}
  <2>1. Flushed(old, changes)[tb] = Flush(old[tb], mine)
    BY <1>2 DEF Flushed
  <2>2. i \in DOMAIN old[tb] \cup {c.id : c \in put}
    BY <2>1 DEF Flush
  <2>3. Flush(old[tb], mine)[i] =
          IF i \notin {c.id : c \in put} THEN old[tb][i]
          ELSE IF Put.was = None THEN Put.new
          ELSE Merged(old[tb][i], Put.was, Put.new)
    BY <2>1 DEF Flush
  <2>4. CASE i \notin {c.id : c \in put}
    BY <2>1, <2>2, <2>3, <2>4
  <2>5. CASE i \in {c.id : c \in put}
    <3>1. Put \in put /\ Put.id = i
      BY <2>5
    <3> HIDE DEF Put
    <3>2. Put \in changes /\ Put.table = tb /\ Put.new \notin {None, Put.was}
      BY <3>1
    <3>3. (Put.was = None => i \notin DOMAIN old[tb]) /\ (Put.was # None => i \in DOMAIN old[tb])
      BY <3>1, <3>2 DEF Refused
    <3> QED
      BY <2>1, <2>3, <2>5, <3>1, <3>2, <3>3
  <2> QED
    BY <2>4, <2>5
<1> QED
  BY <1>1, <1>2

\* Session: a commit takes off the rows it deletes, and puts there what it adds.
LEMMA FlushedDomain ==
    ASSUME NEW old, NEW changes, NEW tb \in DOMAIN old
    PROVE  /\ DOMAIN Flushed(old, changes) = DOMAIN old
           /\ \A i \in DOMAIN old[tb] \ DOMAIN Flushed(old, changes)[tb] :
                \E c \in changes : c.table = tb /\ c.id = i /\ c.new = None
           /\ \A c \in changes : c.table = tb /\ c.new = None
                => c.id \notin DOMAIN Flushed(old, changes)[tb]
           /\ \A c \in changes :
                c.table = tb /\ c.was = None /\ c.new # None
                /\ (\A d \in changes : d.table = tb /\ d.id = c.id => d.new # None)
                => c.id \in DOMAIN Flushed(old, changes)[tb]
<1> DEFINE mine == {c \in changes : c.table = tb}
           put == {c \in mine : c.new \notin {None, c.was}}
           gone == {c.id : c \in {d \in mine : d.new = None}}
<1>1. DOMAIN Flushed(old, changes) = DOMAIN old
  BY DEF Flushed
<1>2. CASE mine = {}
  BY <1>1, <1>2 DEF Flushed
<1>3. CASE mine # {}
  <2>1. Flushed(old, changes)[tb] = Flush(old[tb], mine)
    BY <1>3 DEF Flushed
  <2>2. DOMAIN Flush(old[tb], mine) = (DOMAIN old[tb] \cup {c.id : c \in put}) \ gone
    BY DEF Flush
  <2>3. DOMAIN Flushed(old, changes)[tb] = (DOMAIN old[tb] \cup {c.id : c \in put}) \ gone
    BY <2>1, <2>2
  <2>4. \A i \in gone : \E c \in changes : c.table = tb /\ c.id = i /\ c.new = None
    OBVIOUS
  <2>5. \A c \in changes : c.table = tb /\ c.new = None => c.id \in gone
    OBVIOUS
  <2>6. \A c \in changes : c.table = tb /\ c.was = None /\ c.new # None => c \in put
    OBVIOUS
  <2> HIDE DEF gone, put
  <2>7. \A c \in put : c.id \in DOMAIN old[tb] \cup {d.id : d \in put}
    OBVIOUS
  <2> QED
    BY <1>1, <2>3, <2>4, <2>5, <2>6, <2>7
<1> QED
  BY <1>2, <1>3

\* Merging rows of one table gives a row of the table, which stays where it was
\* unless the change moves it.
LEMMA MergedFits ==
    ASSUME NEW tb \in Tables, NEW now \in RowOf[tb], NEW was \in RowOf[tb], NEW new \in RowOf[tb]
    PROVE  /\ Merged(now, was, new) \in RowOf[tb]
           /\ Merged(now, was, new).company =
                IF new.company # was.company THEN new.company ELSE now.company
           /\ SameHome(tb, was, new) => SameHome(tb, Merged(now, was, new), now)
<1>1. CASE tb = "saved"
  <2>1. now \in Saved /\ was \in Saved /\ new \in Saved
    BY <1>1, TableTypes
  <2>2. DOMAIN new = {"company", "destination_module", "field_mappings",
                      "validation_results", "selected", "status", "refresh_mode"}
    BY <2>1 DEF Saved
  <2> QED
    BY <1>1, <2>1, <2>2, TableTypes DEF Merged, Saved, SameHome
<1>2. CASE tb \in Free
  <2>1. now \in Plain /\ was \in Plain /\ new \in Plain
    BY <1>2, TableTypes
  <2>2. DOMAIN new = {"company", "value"}
    BY <2>1 DEF Plain
  <2> QED
    BY <1>2, <2>1, <2>2, TableTypes DEF Merged, Plain, SameHome, Free
<1>3. CASE tb = "pending"
  <2>1. now \in Pending /\ was \in Pending /\ new \in Pending
    BY <1>3, TableTypes
  <2>2. DOMAIN new = {"company", "approval_status", "erp_status"}
    BY <2>1 DEF Pending
  <2> QED
    BY <1>3, <2>1, <2>2, TableTypes DEF Merged, Pending, SameHome
<1>4. CASE tb = "metadata"
  <2>1. now \in Meta /\ was \in Meta /\ new \in Meta
    BY <1>4, TableTypes
  <2>2. DOMAIN new = {"category", "company", "key", "value"}
    BY <2>1 DEF Meta
  <2> QED
    BY <1>4, <2>1, <2>2, TableTypes DEF Merged, Meta, SameHome
<1> QED
  BY <1>1, <1>2, <1>3, <1>4, TableTypes

-----------------------------------------------------------------------------
(* A call begins. *)

\* A call that has in hand what fits changes nothing yet; the id it may have been
\* given is one nobody had.
LEMMA BeginKeeps ==
    ASSUME HubInv, NEW t \in Threads, NEW w, Begin(t, w), WorkFits(t, w, uuid'),
           uuid' \in Nat, uuid' >= uuid,
           \A c \in w.changes : c.table = "saved" /\ c.was = None => c.id \notin 0..uuid
    PROVE  HubInv'
<1>1. /\ call' = [call EXCEPT ![t] = w] /\ DOMAIN call = Threads
      /\ UNCHANGED <<rows, trail, logs, restarts, raced>>
  BY DEF Begin, HubInv, RowsTyped
<1>2. call'[t] = w /\ \A u \in Threads \ {t} : call'[u] = call[u]
  BY <1>1
<1>3. uuid \in Nat /\ 0..uuid \subseteq 0..uuid'
  BY DEF HubInv, RowsTyped
<1>4. RowsTyped' /\ TrailTyped'
  BY <1>1, <1>3 DEF HubInv, RowsTyped, TrailTyped, Created, Deleted
<1>5. CallsFit'
  <2> SUFFICES ASSUME NEW u \in Threads, call'[u] # None
               PROVE  WorkFits(u, call[u], uuid)'
    BY DEF CallsFit
  <2>1. WorkFits(u, call'[u], uuid')
    <3>1. CASE u = t
      BY <1>2, <3>1
    <3>2. CASE u # t
      <4>1. call'[u] = call[u] /\ WorkFits(u, call[u], uuid)
        BY <1>2, <3>2 DEF HubInv, CallsFit
      <4> QED
        BY <1>3, <4>1 DEF WorkFits
    <3> QED
      BY <3>1, <3>2
  <2>2. \A c \in call'[u].changes : ChangeFits(u, c) => ChangeFits(u, c)'
    BY <1>1 DEF ChangeFits, Fits, Keeps, Stands, IsOf, SameHome, Tagged
  <2>3. \A c \in call'[u].changes : Tells(call'[u], c) => Tells(call[u], c)'
    BY <1>1 DEF Tells, Created, Deleted
  <2>4. \A c \in call'[u].changes : Maps(c) => Maps(c)'
    BY DEF Maps, MappingOf, Validation
  <2> QED
    BY <2>1, <2>2, <2>3, <2>4 DEF WorkFits, EventFits
<1>6. Apart'
  <2> SUFFICES ASSUME NEW u \in Threads, NEW v \in Threads, u # v,
                      call'[u] # None, call'[v] # None,
                      NEW c \in call'[u].changes, NEW d \in call'[v].changes,
                      c.table = "saved", d.table = "saved", c.was = None, d.was = None, c.id = d.id
               PROVE  FALSE
    BY DEF Apart
  <2>1. \A x \in Threads \ {t} : call'[x] # None =>
          \A e \in call'[x].changes : e.table = "saved" => e.id \in 0..uuid
    BY <1>2 DEF HubInv, CallsFit, WorkFits
  <2> QED
    BY <1>2, <2>1 DEF HubInv, Apart
<1>7. MetaTagged' /\ MappingIsValidated'
  BY <1>1 DEF HubInv, MetaTagged, Tagged, MappingIsValidated, Validation
<1>8. TrailTellsConnections'
  <2> SUFFICES ASSUME NEW i \in 0..uuid'
               PROVE  i \in DOMAIN rows.saved <=> Created(i) /\ ~Deleted(i)
    BY <1>1 DEF TrailTellsConnections, Created, Deleted
  <2>1. CASE i \in 0..uuid
    BY <2>1 DEF HubInv, TrailTellsConnections, Created, Deleted
  <2>2. CASE i \notin 0..uuid
    BY <2>2 DEF HubInv, RowsTyped, TrailTyped
  <2> QED
    BY <2>1, <2>2
<1> QED
  BY <1>4, <1>5, <1>6, <1>7, <1>8 DEF HubInv

\* What a call has in hand, spelled out.
InHand(changes, event, added, details) ==
    [changes |-> changes, event |-> event, logs |-> added, details |-> details]

\* The ways in which the actions write down what a call has in hand.
LEMMA Spelled ==
    ASSUME NEW e, NEW l, NEW d, NEW changes
    PROVE  /\ Work = InHand({}, None, {}, None)
           /\ [Work EXCEPT !.changes = changes] = InHand(changes, None, {}, None)
           /\ [Work EXCEPT !.event = e] = InHand({}, e, {}, None)
           /\ [Work EXCEPT !.event = e, !.logs = l] = InHand({}, e, l, None)
           /\ [Work EXCEPT !.details = d] = InHand({}, None, {}, d)
<1>1. [Work EXCEPT !.event = e] = InHand({}, e, {}, None)
  BY DEF Work, InHand
<1>2. [Work EXCEPT !.event = e, !.logs = l] = [[Work EXCEPT !.event = e] EXCEPT !.logs = l]
  OBVIOUS
<1>3. [InHand({}, e, {}, None) EXCEPT !.logs = l] = InHand({}, e, l, None)
  BY DEF InHand
<1>4. Work = InHand({}, None, {}, None) /\ [Work EXCEPT !.details = d] = InHand({}, None, {}, d)
  BY DEF Work, InHand
<1>5. [Work EXCEPT !.changes = changes] = InHand(changes, None, {}, None)
  BY DEF Work, InHand
<1> QED
  BY <1>1, <1>2, <1>3, <1>4, <1>5

\* Changing what is in hand leaves the rest of it alone.
LEMMA Filled ==
    ASSUME NEW s, NEW e, NEW l, NEW d, NEW c
    PROVE  /\ [InHand(s, e, l, d) EXCEPT !.changes = c] = InHand(c, e, l, d)
           /\ [InHand(s, e, l, d) EXCEPT !.changes = @ \cup c] = InHand(s \cup c, e, l, d)
BY DEF InHand

\* What is in hand, part by part.
LEMMA InHandParts ==
    ASSUME NEW s, NEW e, NEW l, NEW d
    PROVE  LET w == InHand(s, e, l, d)
           IN w.changes = s /\ w.event = e /\ w.logs = l /\ w.details = d
BY DEF InHand

\* A row the user may work on is one of the table, and of the user's company.
LEMMA ReachableRow ==
    ASSUME HubInv, NEW t \in Threads, NEW tb \in Tables, NEW i \in Reachable(t, tb)
    PROVE  /\ i \in DOMAIN rows[tb] /\ rows[tb][i] \in RowOf[tb] /\ rows[tb][i] # None
           /\ Actor[t].override \/ rows[tb][i].company = Actor[t].company
BY TableTypes DEF HubInv, RowsTyped, Reachable, InScope

\* The change of a row the call has read.
LEMMA UpdateFits ==
    ASSUME HubInv, NEW t \in Threads, NEW tb \in Tables, NEW i \in DOMAIN rows[tb],
           Actor[t].override \/ rows[tb][i].company = Actor[t].company,
           NEW new \in RowOf[tb] \cup {None},
           new = None => tb \notin {"pending", "metadata"},
           new # None => Actor[t].override \/ new.company = Actor[t].company,
           new # None /\ tb \notin Free => SameHome(tb, rows[tb][i], new)
    PROVE  ChangeFits(t, Change(tb, i, rows[tb][i], new))
<1> DEFINE c == Change(tb, i, rows[tb][i], new)
<1>1. c.table = tb /\ c.id = i /\ c.was = rows[tb][i] /\ c.new = new
  BY DEF Change
<1>2. rows[tb][i] \in RowOf[tb] /\ rows[tb][i] # None
  BY TableTypes DEF HubInv, RowsTyped
<1> HIDE DEF c
<1>3. Fits(c) /\ IsOf(t, c) /\ Keeps(c)
  BY <1>1, <1>2 DEF Fits, IsOf, Keeps
<1>4. Stands(c)
  BY <1>1 DEF Stands, SameHome
<1>5. ChangeFits(t, c)
  BY <1>1, <1>2, <1>3, <1>4 DEF ChangeFits
<1> QED
  BY <1>5 DEF c

\* A row a call is about to add.
LEMMA InsertFits ==
    ASSUME NEW t \in Threads, NEW tb \in Tables \ {"pending"}, NEW i,
           NEW new \in RowOf[tb], Actor[t].override \/ new.company = Actor[t].company,
           tb = "metadata" => Tagged(i, new)
    PROVE  ChangeFits(t, Change(tb, i, None, new))
<1> DEFINE c == Change(tb, i, None, new)
<1>1. c.table = tb /\ c.id = i /\ c.was = None /\ c.new = new /\ new # None
  BY TableTypes DEF Change
<1> HIDE DEF c
<1>2. ChangeFits(t, c)
  BY <1>1 DEF ChangeFits, Fits, IsOf, Keeps, Stands
<1> QED
  BY <1>2 DEF c

-----------------------------------------------------------------------------
(* Connected systems, catalog, mapping rules, pending updates.             *)

\* Work without an entry, a line for a log or details that follow.
LEMMA QuietWorkFits ==
    ASSUME NEW t \in Threads, NEW changes, NEW n \in Nat,
           \A c \in changes : /\ ChangeFits(t, c) /\ c.table # "saved"
                              /\ c.table = "system" => c.id \in 0..n
    PROVE  WorkFits(t, InHand(changes, None, {}, None), n)
<1> DEFINE w == InHand(changes, None, {}, None)
<1>1. w.changes = changes /\ w.event = None /\ w.logs = {} /\ w.details = None
  BY DEF InHand
<1> HIDE DEF w
<1>2. WorkFits(t, w, n)
  BY <1>1 DEF WorkFits, EventFits, Maps, Tells
<1> QED
  BY <1>2 DEF w

\* update_* and delete_* of rows an override may move.
LEMMA PlainUpdateHolds ==
    ASSUME HubInv, NEW t \in Threads, NEW tb \in Free, NEW i \in Reachable(t, tb),
           NEW new \in Plain \cup {None},
           new # None => Actor[t].override \/ new.company = Actor[t].company,
           Update(t, tb, i, new, Work)
    PROVE  HubInv'
<1> DEFINE c == Change(tb, i, rows[tb][i], new)
           w == InHand({c}, None, {}, None)
<1>1. Begin(t, [Work EXCEPT !.changes = @ \cup {c}]) /\ uuid' = uuid
  BY DEF Update
<1>2. [Work EXCEPT !.changes = @ \cup {c}] = w
  <2> HIDE DEF c
  <2>1. [InHand({}, None, {}, None) EXCEPT !.changes = @ \cup {c}] = w
    BY Filled
  <2> QED
    BY <2>1, Spelled
<1>3. tb \in Tables /\ new \in RowOf[tb] \cup {None} /\ tb \notin {"pending", "metadata", "saved"}
  BY TableTypes DEF Free
<1>4. ChangeFits(t, c)
  BY <1>3, ReachableRow, UpdateFits
<1>5. c.table = tb /\ c.id = i
  BY DEF Change
<1>6. uuid \in Nat /\ (tb = "system" => i \in 0..uuid)
  BY <1>3, ReachableRow DEF HubInv, RowsTyped
<1>7. WorkFits(t, w, uuid)
  BY <1>3, <1>4, <1>5, <1>6, QuietWorkFits
<1>8. \A d \in w.changes : d.table # "saved"
  BY <1>3, <1>5 DEF InHand
<1> HIDE DEF c, w
<1>9. Begin(t, w) /\ uuid' = uuid
  BY <1>1, <1>2
<1> QED
  BY <1>6, <1>7, <1>8, <1>9, BeginKeeps

\* create_* of such rows: the company is the user's, or one of an override.
LEMMA ResolvedFits ==
    ASSUME NEW t \in Threads, NEW asked \in Companies \cup {None}
    PROVE  /\ Resolved(t, asked) \in Companies
           /\ Actor[t].override \/ Resolved(t, asked) = Actor[t].company
BY DataHubAssumption DEF Resolved

\* The company a row is moved to is one the user may move it to: its own,
\* without an override.
LEMMA MovedFits ==
    ASSUME NEW t \in Threads, NEW row \in Plain, NEW asked \in Companies \cup {None},
           Actor[t].override \/ row.company = Actor[t].company
    PROVE  /\ Moved(t, row, asked) \in Companies
           /\ Actor[t].override \/ Moved(t, row, asked) = Actor[t].company
BY DataHubAssumption DEF Moved, Plain

\* create_connected_system, create_catalog_entry and create_manual_mapping: a
\* new row is the user's own, and the details of a system come with a system
\* that is new.
LEMMA PlainInsertHolds ==
    ASSUME HubInv, NEW t \in Threads, NEW tb \in Free, NEW new \in Plain,
           Actor[t].override \/ new.company = Actor[t].company,
           NEW details \in Values \cup {None}, details # None => tb = "system",
           Insert(t, tb, new, [Work EXCEPT !.details = details])
    PROVE  HubInv'
<1> DEFINE c == Change(tb, Fresh, None, new)
           w == InHand({c}, None, {}, details)
<1>1. /\ Begin(t, [[Work EXCEPT !.details = details] EXCEPT !.changes = {c}])
      /\ uuid' = uuid + 1 /\ Fresh = uuid + 1
  BY DEF Insert, Fresh
<1>2. [[Work EXCEPT !.details = details] EXCEPT !.changes = {c}] = w
  <2> HIDE DEF c
  <2>1. [InHand({}, None, {}, details) EXCEPT !.changes = {c}] = w
    BY DEF InHand
  <2> QED
    BY <2>1, Spelled
<1>3. tb \in Tables \ {"pending"} /\ new \in RowOf[tb] /\ tb \notin {"metadata", "saved"}
  BY TableTypes DEF Free
<1>4. ChangeFits(t, c)
  BY <1>3, InsertFits
<1>5. c.table = tb /\ c.id = Fresh /\ c.was = None
  BY DEF Change
<1>6. w.changes = {c} /\ w.event = None /\ w.logs = {} /\ w.details = details
  BY DEF InHand
<1>7. uuid \in Nat /\ uuid' \in Nat /\ uuid' >= uuid /\ Fresh \in 0..uuid'
  BY <1>1 DEF HubInv, RowsTyped
<1> HIDE DEF c, w
<1>8. WorkFits(t, w, uuid')
  BY <1>3, <1>4, <1>5, <1>6, <1>7 DEF WorkFits, EventFits, Maps, Tells
<1>9. Begin(t, w)
  BY <1>1, <1>2
<1> QED
  BY <1>3, <1>5, <1>6, <1>7, <1>8, <1>9, BeginKeeps

\* upsert_metadata: the rows it finds are of the company, the category and the key
\* it looks for, and so is the one it adds.
LEMMA UpsertFits ==
    ASSUME HubInv, NEW t \in Threads, NEW category \in {"details", "readiness", "footprint", "upload"},
           NEW company \in Companies, Actor[t].override \/ company = Actor[t].company,
           NEW key \in Keys, NEW id, NEW value \in Values,
           category = "details" => id = <<"details", key[2]>>,
           category = "footprint" => id = <<"footprint", company>>,
           NEW c \in Upserts(category, company, key, id, value)
    PROVE  ChangeFits(t, c) /\ c.table = "metadata"
<1> DEFINE row == [category |-> category, company |-> company, key |-> key, value |-> value]
           hits == {i \in DOMAIN rows.metadata :
                      /\ rows.metadata[i].category = category
                      /\ rows.metadata[i].company = company /\ rows.metadata[i].key = key}
<1>1. row \in RowOf["metadata"] /\ "metadata" \in Tables \ (Free \cup {"pending"})
  BY TableTypes DEF Meta, Tables, Free
<1>2. row.company = company /\ row.category = category /\ row.key = key
  OBVIOUS
<1>3. CASE hits = {}
  <2>1. c = Change("metadata", id, None, row)
    BY <1>3 DEF Upserts
  <2>2. Tagged(id, row)
    BY <1>2 DEF Tagged
  <2> QED
    BY <1>1, <1>2, <2>1, <2>2, InsertFits DEF Change
<1>4. CASE hits # {}
  <2>1. PICK i \in hits : c = Change("metadata", i, rows.metadata[i], row)
    BY <1>4 DEF Upserts
  <2>2. i \in DOMAIN rows["metadata"] /\ SameHome("metadata", rows["metadata"][i], row)
    BY <1>2 DEF SameHome
  <2>3. rows["metadata"][i].company = company
    OBVIOUS
  <2> HIDE DEF row, hits
  <2> QED
    BY <1>1, <1>2, <2>1, <2>2, <2>3, UpdateFits, TableTypes DEF Change
<1> QED
  BY <1>3, <1>4

\* Calls on systems, the catalog and mapping rules, but for a system's details.
LEMMA ListsHold ==
    ASSUME HubInv, NEW t \in Threads,
           \/ CreateSystem(t) \/ DeleteSystem(t)
           \/ CreateCatalogEntry(t) \/ UpdateCatalogEntry(t) \/ DeleteCatalogEntry(t)
           \/ CreateMapping(t) \/ UpdateMapping(t) \/ DeleteMapping(t)
    PROVE  HubInv'
<1>f. "system" \in Free /\ "catalog" \in Free /\ "mapping" \in Free
  BY DEF Free
<1>1. CASE CreateSystem(t)
  <2>1. PICK asked \in Companies \cup {None}, v \in Values, details \in Values \cup {None} :
          Insert(t, "system", [company |-> Resolved(t, asked), value |-> v],
                 [Work EXCEPT !.details = details])
    BY <1>1 DEF CreateSystem
  <2>2. [company |-> Resolved(t, asked), value |-> v] \in Plain
    BY ResolvedFits DEF Plain
  <2> QED
    BY <1>f, <2>1, <2>2, ResolvedFits, PlainInsertHolds
<1>2. CASE CreateCatalogEntry(t) \/ CreateMapping(t)
  <2>1. PICK tb \in Free, asked \in Companies \cup {None}, v \in Values :
          Insert(t, tb, [company |-> Resolved(t, asked), value |-> v], Work)
    BY <1>2, <1>f DEF CreateCatalogEntry, CreateMapping
  <2>2. [company |-> Resolved(t, asked), value |-> v] \in Plain
    BY ResolvedFits DEF Plain
  <2>3. Work = [Work EXCEPT !.details = None]
    BY Spelled
  <2>4. Insert(t, tb, [company |-> Resolved(t, asked), value |-> v], [Work EXCEPT !.details = None])
    BY <2>1, <2>3
  <2> QED
    BY <2>2, <2>4, ResolvedFits, PlainInsertHolds
<1>3. ASSUME NEW tb \in Free, NEW i \in Reachable(t, tb),
             NEW asked \in Companies \cup {None}, NEW v \in Values,
             Update(t, tb, i, [company |-> Moved(t, rows[tb][i], asked), value |-> v], Work)
      PROVE  HubInv'
  <2> DEFINE new == [company |-> Moved(t, rows[tb][i], asked), value |-> v]
  <2>1. rows[tb][i] \in Plain /\ (Actor[t].override \/ rows[tb][i].company = Actor[t].company)
    BY ReachableRow, TableTypes
  <2>2. new \in Plain /\ (Actor[t].override \/ new.company = Actor[t].company)
    BY <2>1, MovedFits DEF Plain
  <2>3. Update(t, tb, i, new, Work)
    BY <1>3
  <2> HIDE DEF new
  <2> QED
    BY <2>2, <2>3, PlainUpdateHolds
<1>5. CASE UpdateCatalogEntry(t)
  BY <1>3, <1>5, <1>f DEF UpdateCatalogEntry
<1>6. CASE UpdateMapping(t)
  BY <1>3, <1>6, <1>f DEF UpdateMapping
<1>4. ASSUME NEW tb \in Free, NEW i \in Reachable(t, tb), Update(t, tb, i, None, Work)
      PROVE  HubInv'
  BY <1>4, PlainUpdateHolds
<1>7. CASE DeleteSystem(t)
  BY <1>4, <1>7, <1>f DEF DeleteSystem, Delete
<1>8. CASE DeleteCatalogEntry(t) \/ DeleteMapping(t)
  BY <1>4, <1>8, <1>f DEF DeleteCatalogEntry, DeleteMapping, Delete
<1> QED
  BY <1>1, <1>2, <1>5, <1>6, <1>7, <1>8

\* update_connected_system, with details or without.
LEMMA UpdateSystemHolds ==
    ASSUME HubInv, NEW t \in Threads, UpdateSystem(t)
    PROVE  HubInv'
<1>f. "system" \in Free /\ "system" \in Tables
  BY DEF Free, Tables
<1>1. PICK i \in Reachable(t, "system"), asked \in Companies \cup {None}, v \in Values :
        LET new == [company |-> Moved(t, rows.system[i], asked), value |-> v] IN
        \/ Update(t, "system", i, new, Work)
        \/ \E details \in Values :
              \E c \in Upserts("details", new.company, <<"system", i>>, <<"details", i>>, details) :
                 Update(t, "system", i, new, [Work EXCEPT !.changes = {c}])
  BY DEF UpdateSystem
<1>2. /\ i \in DOMAIN rows.system /\ rows.system[i] \in Plain
      /\ Actor[t].override \/ rows.system[i].company = Actor[t].company
  BY <1>f, ReachableRow, TableTypes
<1> DEFINE company == Moved(t, rows.system[i], asked)
           new == [company |-> company, value |-> v]
<1>3. company \in Companies /\ (Actor[t].override \/ company = Actor[t].company)
  BY <1>2, MovedFits
<1>4. new \in Plain /\ new.company = company
  BY <1>3 DEF Plain
<1>5. uuid \in Nat /\ i \in 0..uuid /\ i \in Nat
  BY <1>2 DEF HubInv, RowsTyped
<1> HIDE DEF company
<1>6. CASE Update(t, "system", i, new, Work)
  <2> HIDE DEF new
  <2> QED
    BY <1>f, <1>3, <1>4, <1>6, PlainUpdateHolds
<1>7. ASSUME NEW details \in Values,
             NEW c \in Upserts("details", company, <<"system", i>>, <<"details", i>>, details),
             Update(t, "system", i, new, [Work EXCEPT !.changes = {c}])
      PROVE  HubInv'
  <2> DEFINE d == Change("system", i, rows.system[i], new)
             w == InHand({c, d}, None, {}, None)
  <2>1. <<"system", i>> \in Keys
    BY <1>5 DEF Keys
  <2>2. ChangeFits(t, c) /\ c.table = "metadata"
    BY <1>3, <2>1, UpsertFits
  <2>3. d.table = "system" /\ d.id = i
    BY DEF Change
  <2>4. ChangeFits(t, d)
    <3> HIDE DEF new
    <3> QED
      BY <1>f, <1>2, <1>3, <1>4, UpdateFits, TableTypes
  <2>5. Begin(t, [[Work EXCEPT !.changes = {c}] EXCEPT !.changes = @ \cup {d}]) /\ uuid' = uuid
    BY <1>7 DEF Update
  <2> HIDE DEF d
  <2>6. [[Work EXCEPT !.changes = {c}] EXCEPT !.changes = @ \cup {d}] = w
    <3>1. [InHand({c}, None, {}, None) EXCEPT !.changes = @ \cup {d}] = InHand({c} \cup {d}, None, {}, None)
      BY DEF InHand
    <3>2. {c} \cup {d} = {c, d}
      OBVIOUS
    <3> QED
      BY <3>1, <3>2, Spelled
  <2>7. WorkFits(t, w, uuid) /\ \A e \in w.changes : e.table # "saved"
    BY <1>5, <2>2, <2>3, <2>4, QuietWorkFits, InHandParts
  <2> HIDE DEF w
  <2>8. Begin(t, w) /\ uuid' = uuid
    BY <2>5, <2>6
  <2> QED
    BY <1>5, <2>7, <2>8, BeginKeeps
<1> QED
  <2>1. \/ Update(t, "system", i, new, Work)
        \/ \E details \in Values :
              \E c \in Upserts("details", company, <<"system", i>>, <<"details", i>>, details) :
                 Update(t, "system", i, new, [Work EXCEPT !.changes = {c}])
    BY <1>1, <1>4 DEF company
  <2> QED
    BY <1>6, <1>7, <2>1

\* What is only kept in app_metadata.
LEMMA MetadataBeginHolds ==
    ASSUME HubInv, NEW t \in Threads, NEW changes,
           \A c \in changes : ChangeFits(t, c) /\ c.table = "metadata",
           Begin(t, [Work EXCEPT !.changes = changes]), uuid' \in Nat, uuid' >= uuid
    PROVE  HubInv'
<1> DEFINE w == InHand(changes, None, {}, None)
<1>1. WorkFits(t, w, uuid') /\ \A c \in w.changes : c.table # "saved"
  BY QuietWorkFits, InHandParts
<1>2. Begin(t, w)
  BY Spelled
<1> HIDE DEF w
<1> QED
  BY <1>1, <1>2, BeginKeeps

\* A request for readiness, its number of items, their value and their areas.
Asks(t, n, v, items) ==
    \E done :
        /\ \A k \in 1..n : done[k] \in Upserts("readiness", Actor[t].company,
                                              <<"area", items[k]>>, <<"uuid", uuid + k>>, v)
        /\ Begin(t, [Work EXCEPT !.changes = {done[k] : k \in 1..n}])
        /\ uuid' = uuid + n

\* update_readiness does what such a request asks.
LEMMA UpdateReadinessAsks ==
    ASSUME NEW t, UpdateReadiness(t)
    PROVE  \E n \in 0..MaxItems, v \in Values : \E items \in [1..n -> Areas] : Asks(t, n, v, items)
BY DEF UpdateReadiness, Asks

\* The upserts of readiness, footprint and uploads touch no table but the
\* metadata, and no row of a kind other than their own.
LEMMA MetadataHolds ==
    ASSUME HubInv, NEW t \in Threads,
           UpdateReadiness(t) \/ UpdateFootprint(t) \/ CreateUpload(t) \/ CreateCloudSource(t)
    PROVE  HubInv'
<1>t. /\ uuid \in Nat /\ Actor[t].company \in Companies
      /\ \A n \in Nat : <<"uuid", n>> \in Keys
  BY DataHubAssumption DEF HubInv, RowsTyped, Keys
<1>1. CASE UpdateReadiness(t)
  <2>p. PICK n \in 0..MaxItems, v \in Values :
          \E items \in [1..n -> Areas] : Asks(t, n, v, items)
    BY <1>1, UpdateReadinessAsks
  <2>0. PICK items \in [1..n -> Areas] : Asks(t, n, v, items)
    BY <2>p
  <2>1. PICK done :
          /\ \A k \in 1..n : done[k] \in Upserts("readiness", Actor[t].company,
                                                <<"area", items[k]>>, <<"uuid", uuid + k>>, v)
          /\ Begin(t, [Work EXCEPT !.changes = {done[k] : k \in 1..n}])
          /\ uuid' = uuid + n
    BY <2>0 DEF Asks
  <2>2. n \in Nat
    BY DataHubAssumption
  <2>3. ASSUME NEW k \in 1..n
        PROVE  ChangeFits(t, done[k]) /\ done[k].table = "metadata"
    <3>1. items[k] \in Areas
      OBVIOUS
    <3>2. <<"area", items[k]>> \in Keys
      BY <3>1 DEF Keys
    <3>3. /\ done[k] \in Upserts("readiness", Actor[t].company, <<"area", items[k]>>,
                                 <<"uuid", uuid + k>>, v)
          /\ "readiness" \in {"readiness", "footprint", "upload"}
      BY <2>1
    <3> QED
      BY <1>t, <3>2, <3>3, UpsertFits
  <2>4. uuid' \in Nat /\ uuid' >= uuid
    BY <1>t, <2>1, <2>2
  <2> DEFINE changes == {done[k] : k \in 1..n}
  <2>5. \A c \in changes : ChangeFits(t, c) /\ c.table = "metadata"
    BY <2>3
  <2>6. Begin(t, [Work EXCEPT !.changes = changes])
    BY <2>1
  <2> HIDE DEF changes
  <2> QED
    BY <2>4, <2>5, <2>6, MetadataBeginHolds
<1>2. CASE UpdateFootprint(t)
  <2>1. PICK v \in Values :
          \E c \in Upserts("footprint", Actor[t].company, <<"dashboard", 0>>,
                          <<"footprint", Actor[t].company>>, v) :
             Begin(t, [Work EXCEPT !.changes = {c}]) /\ uuid' = uuid
    BY <1>2 DEF UpdateFootprint, Add
  <2>c. PICK c \in Upserts("footprint", Actor[t].company, <<"dashboard", 0>>,
                          <<"footprint", Actor[t].company>>, v) :
          Begin(t, [Work EXCEPT !.changes = {c}]) /\ uuid' = uuid
    BY <2>1
  <2>2. <<"dashboard", 0>> \in Keys
    BY DEF Keys
  <2>3. ChangeFits(t, c) /\ c.table = "metadata"
    BY <1>t, <2>2, UpsertFits
  <2> DEFINE changes == {c}
  <2>4. \A d \in changes : ChangeFits(t, d) /\ d.table = "metadata"
    BY <2>3
  <2>5. Begin(t, [Work EXCEPT !.changes = changes]) /\ uuid' \in Nat /\ uuid' >= uuid
    BY <1>t, <2>c
  <2> HIDE DEF changes
  <2> QED
    BY <2>4, <2>5, MetadataBeginHolds
<1>3. CASE CreateUpload(t) \/ CreateCloudSource(t)
  <2>1. PICK asked \in Companies \cup {None}, v \in Values :
          /\ Begin(t, [Work EXCEPT !.changes =
               Upserts("upload", Resolved(t, asked), <<"uuid", Fresh>>, <<"uuid", Fresh>>, v)])
          /\ uuid' = uuid + 1
    BY <1>3 DEF CreateUpload, CreateCloudSource, Fresh
  <2>2. <<"uuid", Fresh>> \in Keys
    BY <1>t DEF Fresh
  <2> DEFINE changes == Upserts("upload", Resolved(t, asked), <<"uuid", Fresh>>, <<"uuid", Fresh>>, v)
  <2>3. \A c \in changes : ChangeFits(t, c) /\ c.table = "metadata"
    BY <2>2, ResolvedFits, UpsertFits
  <2>4. Begin(t, [Work EXCEPT !.changes = changes])
    BY <2>1
  <2>5. uuid' \in Nat /\ uuid' >= uuid
    BY <1>t, <2>1
  <2> HIDE DEF changes
  <2> QED
    BY <2>3, <2>4, <2>5, MetadataBeginHolds
<1> QED
  BY <1>1, <1>2, <1>3

\* decide_pending: approve and reject keep the row where it is.
LEMMA DecidePendingHolds ==
    ASSUME HubInv, NEW t \in Threads, DecidePending(t)
    PROVE  HubInv'
<1>1. PICK i \in Reachable(t, "pending"), decision \in {"Approved", "Rejected"} :
        Update(t, "pending", i, Decided(rows.pending[i], decision), Work)
  BY DEF DecidePending
<1> DEFINE new == Decided(rows.pending[i], decision)
           c == Change("pending", i, rows.pending[i], new)
           w == InHand({c}, None, {}, None)
<1>2. /\ "pending" \in Tables /\ "pending" \notin Free
      /\ i \in DOMAIN rows.pending /\ rows.pending[i] \in Pending
      /\ Actor[t].override \/ rows.pending[i].company = Actor[t].company
  BY ReachableRow, TableTypes DEF Tables, Free
<1>3. new \in Pending /\ new.company = rows.pending[i].company
  BY <1>2 DEF Decided, Pending
<1>4. SameHome("pending", rows.pending[i], new)
  BY <1>3 DEF SameHome
<1> HIDE DEF new
<1>5. ChangeFits(t, c) /\ c.table = "pending"
  BY <1>2, <1>3, <1>4, UpdateFits, TableTypes DEF Change
<1>6. Begin(t, [Work EXCEPT !.changes = @ \cup {c}]) /\ uuid' = uuid /\ uuid \in Nat
  BY <1>1 DEF Update, new, HubInv, RowsTyped
<1> HIDE DEF c
<1>7. [Work EXCEPT !.changes = @ \cup {c}] = w
  <2>1. [InHand({}, None, {}, None) EXCEPT !.changes = @ \cup {c}] = w
    BY Filled
  <2> QED
    BY <2>1, Spelled
<1>8. WorkFits(t, w, uuid) /\ \A e \in w.changes : e.table # "saved"
  BY <1>5, <1>6, QuietWorkFits, InHandParts
<1> HIDE DEF w
<1>9. Begin(t, w)
  BY <1>6, <1>7
<1> QED
  BY <1>6, <1>8, <1>9, BeginKeeps

-----------------------------------------------------------------------------
(* Get Data.                                                               *)

Quiet == {"test_connection", "select_assets", "transform_preview", "validate_mapping",
          "create_relationship", "refresh"}

\* An event of the audit is read back as it was written.
LEMMA EventTypes ==
    ASSUME NEW action \in Quiet \cup {"create_connection", "delete_connection"},
           NEW id \in Nat \cup {None}, NEW company \in Companies
    PROVE  LET e == Event(action, id, company) IN
           /\ e \in Events /\ e # None
           /\ e.action = action /\ e.id = id /\ e.company = company
<1>1. Event(action, id, company) \in Events
  BY DEF Event, Events, Quiet
<1> QED
  BY <1>1, DataHubAssumption DEF Event

\* A call that updates a row has that one change in hand, and takes no id.
LEMMA UpdateBegins ==
    ASSUME NEW t, NEW tb, NEW i, NEW new, NEW e, NEW l, Update(t, tb, i, new, InHand({}, e, l, None))
    PROVE  /\ Begin(t, InHand({Change(tb, i, rows[tb][i], new)}, e, l, None))
           /\ uuid' = uuid
<1> DEFINE c == Change(tb, i, rows[tb][i], new)
<1>1. Begin(t, [InHand({}, e, l, None) EXCEPT !.changes = @ \cup {c}]) /\ uuid' = uuid
  BY DEF Update
<1> HIDE DEF c
<1>2. [InHand({}, e, l, None) EXCEPT !.changes = @ \cup {c}] = InHand({c}, e, l, None)
  BY DEF InHand
<1> QED
  BY <1>1, <1>2 DEF c

\* Calls that tell of a connection and change none.
LEMMA AddHolds ==
    ASSUME HubInv, NEW t \in Threads, NEW e \in Events, e.action \in Quiet,
           Actor[t].override \/ e.company = Actor[t].company,
           NEW l, \A x \in l : Actor[t].override \/ x.company = Actor[t].company,
           Add(t, InHand({}, e, l, None))
    PROVE  HubInv'
<1> DEFINE w == InHand({}, e, l, None)
<1>1. w.changes = {} /\ w.event = e /\ w.logs = l /\ w.details = None
  BY InHandParts
<1>2. Begin(t, w) /\ uuid' = uuid /\ uuid \in Nat
  BY DEF Add, HubInv, RowsTyped
<1> HIDE DEF w
<1>3. WorkFits(t, w, uuid)
  BY <1>1 DEF WorkFits, EventFits, Quiet
<1> QED
  BY <1>1, <1>2, <1>3, BeginKeeps

\* Any update of a connection which leaves its company and either its mapping
\* alone or writes the validation that belongs to the new one.
LEMMA SavedUpdateHolds ==
    ASSUME HubInv, NEW t \in Threads, NEW i \in Reachable(t, "saved"), NEW new \in Saved,
           new.company = rows.saved[i].company,
           \/ MappingOf(new) = MappingOf(rows.saved[i])
           \/ new.validation_results = Validation(new.destination_module, new.field_mappings),
           NEW e \in Events, e.action \in Quiet,
           Actor[t].override \/ e.company = Actor[t].company,
           NEW l, \A x \in l : Actor[t].override \/ x.company = Actor[t].company,
           Update(t, "saved", i, new, InHand({}, e, l, None))
    PROVE  HubInv'
<1> DEFINE c == Change("saved", i, rows.saved[i], new)
           w == InHand({c}, e, l, None)
<1>1. /\ "saved" \in Tables /\ i \in DOMAIN rows.saved /\ rows.saved[i] \in RowOf["saved"]
      /\ rows.saved[i] # None
      /\ Actor[t].override \/ rows.saved[i].company = Actor[t].company
  BY ReachableRow DEF Tables
<1>2. new \in RowOf["saved"] /\ new # None
  BY TableTypes DEF Tables
<1>3. uuid \in Nat /\ i \in 0..uuid /\ Created(i)
  BY <1>1 DEF HubInv, RowsTyped, TrailTellsConnections, Created
<1>4. ChangeFits(t, c)
  BY <1>1, <1>2, UpdateFits DEF SameHome
<1>5. c.table = "saved" /\ c.id = i /\ c.was = rows.saved[i] /\ c.new = new
  BY DEF Change
<1>6. Begin(t, w) /\ uuid' = uuid
  BY UpdateBegins
<1>7. w.changes = {c} /\ w.event = e /\ w.logs = l /\ w.details = None
  BY InHandParts
<1> HIDE DEF c, w
<1>8. Maps(c)
  BY <1>1, <1>5 DEF Maps
<1>9. Tells(w, c)
  BY <1>1, <1>2, <1>3, <1>5, <1>7 DEF Tells
<1>10. WorkFits(t, w, uuid)
  BY <1>3, <1>4, <1>5, <1>7, <1>8, <1>9 DEF WorkFits, EventFits, Quiet
<1>11. \A d \in w.changes : d.was # None
  BY <1>1, <1>5, <1>7
<1> QED
  BY <1>3, <1>6, <1>10, <1>11, BeginKeeps

\* create_connection and delete_connection write the row and its entry together.
LEMMA CreateConnectionHolds ==
    ASSUME HubInv, NEW t \in Threads, CreateConnection(t)
    PROVE  HubInv'
<1>1. PICK asked \in Companies \cup {None}, module \in Modules :
        LET company == Resolved(t, asked) IN
        Insert(t, "saved", NewConnection(company, module),
               [Work EXCEPT !.event = Event("create_connection", Fresh, company)])
  BY DEF CreateConnection
<1>2. PICK company \in Companies :
        company = Resolved(t, asked) /\ (Actor[t].override \/ company = Actor[t].company)
  BY ResolvedFits
<1> DEFINE new == NewConnection(company, module)
           e == Event("create_connection", Fresh, company)
           c == Change("saved", Fresh, None, new)
           w == InHand({c}, e, {}, None)
<1>3. uuid \in Nat /\ Fresh = uuid + 1 /\ uuid' = Fresh /\ Fresh \in Nat
  BY <1>1 DEF HubInv, RowsTyped, Fresh, Insert
<1>4. new \in Saved /\ new.company = company /\ new.validation_results = "none"
  <2>1. new \in Saved
    BY DEF NewConnection, Saved, Modes
  <2>2. new.company = company
    BY DEF NewConnection
  <2>3. new.validation_results = "none"
    BY DEF NewConnection
  <2> QED
    BY <2>1, <2>2, <2>3
<1>5. e \in Events /\ e # None /\ e.action = "create_connection" /\ e.id = Fresh /\ e.company = company
  BY <1>3, EventTypes
<1>6. Begin(t, w)
  <2>1. Begin(t, [[Work EXCEPT !.event = e] EXCEPT !.changes = {c}])
    BY <1>1, <1>2 DEF Insert
  <2> HIDE DEF c, e
  <2>2. [InHand({}, e, {}, None) EXCEPT !.changes = {c}] = w
    BY DEF InHand
  <2> QED
    BY <2>1, <2>2, Spelled
<1>7. c.table = "saved" /\ c.id = Fresh /\ c.was = None /\ c.new = new
  BY DEF Change
<1>8. w.changes = {c} /\ w.event = e /\ w.logs = {} /\ w.details = None
  BY InHandParts
<1>9. ChangeFits(t, c)
  <2>1. "saved" \in Tables \ {"pending"} /\ new \in RowOf["saved"]
    BY <1>4, TableTypes DEF Tables
  <2> HIDE DEF new
  <2> QED
    BY <1>2, <1>4, <2>1, InsertFits
<1>10. Fresh \notin 0..uuid /\ Fresh \in 0..Fresh
  BY <1>3
<1>11. ~Created(Fresh) /\ ~Deleted(Fresh)
  BY <1>10 DEF HubInv, TrailTyped
<1> HIDE DEF w, c, e, new
<1>12. Maps(c) /\ Tells(w, c)
  <2>1. new # None
    BY <1>7, <1>9 DEF ChangeFits, Fits
  <2> QED
    BY <1>4, <1>5, <1>7, <1>8, <1>11, <2>1 DEF Maps, Tells
<1>13. WorkFits(t, w, Fresh)
  BY <1>2, <1>5, <1>7, <1>8, <1>9, <1>10, <1>12 DEF WorkFits, EventFits
<1>14. \A d \in w.changes : d.id \notin 0..uuid
  BY <1>7, <1>8, <1>10
<1> QED
  BY <1>3, <1>6, <1>13, <1>14, BeginKeeps

\* delete_connection: the row is on file when the call begins, so its creation
\* has been audited.
LEMMA DeleteConnectionHolds ==
    ASSUME HubInv, NEW t \in Threads, DeleteConnection(t)
    PROVE  HubInv'
<1>1. PICK i \in Reachable(t, "saved") :
        Update(t, "saved", i, None,
               [Work EXCEPT !.event = Event("delete_connection", i, rows.saved[i].company)])
  BY DEF DeleteConnection, Delete
<1> DEFINE e == Event("delete_connection", i, rows.saved[i].company)
           c == Change("saved", i, rows.saved[i], None)
           w == InHand({c}, e, {}, None)
<1>2. /\ "saved" \in Tables /\ i \in DOMAIN rows.saved /\ rows.saved[i] \in RowOf["saved"]
      /\ rows.saved[i] # None
      /\ Actor[t].override \/ rows.saved[i].company = Actor[t].company
  BY ReachableRow DEF Tables
<1>3. uuid \in Nat /\ i \in 0..uuid /\ i \in Nat /\ Created(i)
  BY <1>2 DEF HubInv, RowsTyped, TrailTellsConnections, Created
<1>4. /\ e \in Events /\ e # None /\ e.action = "delete_connection" /\ e.id = i
      /\ e.company = rows.saved[i].company
  <2>1. rows.saved[i] \in Saved
    BY <1>2, TableTypes
  <2>2. PICK company \in Companies : company = rows.saved[i].company
    BY <2>1 DEF Saved
  <2> QED
    BY <1>3, <2>2, EventTypes DEF Event
<1>5. ChangeFits(t, c)
  BY <1>2, UpdateFits
<1>6. c.table = "saved" /\ c.id = i /\ c.was = rows.saved[i] /\ c.new = None
  BY DEF Change
<1>7. Begin(t, w) /\ uuid' = uuid
  <2>1. Update(t, "saved", i, None, InHand({}, e, {}, None))
    BY <1>1, Spelled
  <2> HIDE DEF e
  <2> QED
    BY <2>1, UpdateBegins
<1>8. w.changes = {c} /\ w.event = e /\ w.logs = {} /\ w.details = None
  BY InHandParts
<1> HIDE DEF c, w, e
<1>9. Maps(c) /\ Tells(w, c)
  BY <1>2, <1>3, <1>4, <1>6, <1>8 DEF Maps, Tells
<1>10. WorkFits(t, w, uuid)
  BY <1>2, <1>3, <1>4, <1>5, <1>6, <1>8, <1>9 DEF WorkFits, EventFits
<1>11. \A d \in w.changes : d.was # None
  BY <1>2, <1>6, <1>8
<1> QED
  BY <1>3, <1>7, <1>10, <1>11, BeginKeeps

\* The other calls on a connection tell of it, and may select assets, load it, or
\* write a mapping with its validation.
LEMMA ConnectionsHold ==
    ASSUME HubInv, NEW t \in Threads,
           \/ TestConnection(t) \/ SaveSelection(t) \/ TransformPreview(t)
           \/ ValidateMapping(t) \/ CreateRelationship(t) \/ RunRefresh(t)
    PROVE  HubInv'
<1>r. ASSUME NEW i \in Reachable(t, "saved")
      PROVE  /\ i \in Nat /\ rows.saved[i] \in Saved
             /\ Actor[t].override \/ rows.saved[i].company = Actor[t].company
  <2>1. "saved" \in Tables
    BY DEF Tables
  <2>2. i \in DOMAIN rows.saved /\ rows.saved[i] \in Saved
    BY <2>1, ReachableRow, TableTypes
  <2>3. i \in Nat
    BY <2>2 DEF HubInv, RowsTyped
  <2> QED
    BY <2>1, <2>2, <2>3, ReachableRow
<1>l. ASSUME NEW kind, NEW of, NEW asked \in Companies \cup {None}
      PROVE  \A x \in {Log(kind, of, Resolved(t, asked))} :
                Actor[t].override \/ x.company = Actor[t].company
  BY ResolvedFits DEF Log
<1>e. ASSUME NEW action \in Quiet, NEW id \in Nat \cup {None}, NEW asked \in Companies \cup {None}
      PROVE  LET e == Event(action, id, Resolved(t, asked)) IN
             /\ e \in Events /\ e.action \in Quiet
             /\ Actor[t].override \/ e.company = Actor[t].company
  <2>1. PICK company \in Companies : company = Resolved(t, asked)
    BY ResolvedFits
  <2> QED
    BY <2>1, ResolvedFits, EventTypes DEF Event
<1>1. CASE TestConnection(t)
  <2>1. PICK asked \in Companies \cup {None}, failed \in BOOLEAN :
          Add(t, [Work EXCEPT
                    !.event = Event("test_connection", None, Resolved(t, asked)),
                    !.logs = IF failed THEN {Log("error", None, Resolved(t, asked))} ELSE {}])
    BY <1>1 DEF TestConnection
  <2> DEFINE e == Event("test_connection", None, Resolved(t, asked))
             l == IF failed THEN {Log("error", None, Resolved(t, asked))} ELSE {}
  <2>2. \A x \in l : Actor[t].override \/ x.company = Actor[t].company
    BY <1>l
  <2>3. /\ e \in Events /\ e.action \in Quiet
        /\ Actor[t].override \/ e.company = Actor[t].company
    BY <1>e DEF Quiet
  <2>4. Add(t, InHand({}, e, l, None))
    BY <2>1, Spelled
  <2> HIDE DEF e, l
  <2> QED
    BY <2>2, <2>3, <2>4, AddHolds
<1>2. CASE TransformPreview(t)
  <2>1. PICK i \in Reachable(t, "saved"), asked \in Companies \cup {None} :
          Add(t, [Work EXCEPT !.event = Event("transform_preview", i, Resolved(t, asked)),
                              !.logs = {Log("recipe", i, Resolved(t, asked))}])
    BY <1>2 DEF TransformPreview
  <2> DEFINE e == Event("transform_preview", i, Resolved(t, asked))
             l == {Log("recipe", i, Resolved(t, asked))}
  <2>2. \A x \in l : Actor[t].override \/ x.company = Actor[t].company
    BY <1>l
  <2>3. /\ e \in Events /\ e.action \in Quiet
        /\ Actor[t].override \/ e.company = Actor[t].company
    BY <1>e, <1>r DEF Quiet
  <2>4. Add(t, InHand({}, e, l, None))
    BY <2>1, Spelled
  <2> HIDE DEF e, l
  <2> QED
    BY <2>2, <2>3, <2>4, AddHolds
<1>3. CASE CreateRelationship(t)
  <2>1. PICK asked \in Companies \cup {None} :
          Add(t, [Work EXCEPT !.event = Event("create_relationship", None, Resolved(t, asked)),
                              !.logs = {Log("relationship", None, Resolved(t, asked))}])
    BY <1>3 DEF CreateRelationship
  <2> DEFINE e == Event("create_relationship", None, Resolved(t, asked))
             l == {Log("relationship", None, Resolved(t, asked))}
  <2>2. \A x \in l : Actor[t].override \/ x.company = Actor[t].company
    BY <1>l
  <2>3. /\ e \in Events /\ e.action \in Quiet
        /\ Actor[t].override \/ e.company = Actor[t].company
    BY <1>e DEF Quiet
  <2>4. Add(t, InHand({}, e, l, None))
    BY <2>1, Spelled
  <2> HIDE DEF e, l
  <2> QED
    BY <2>2, <2>3, <2>4, AddHolds
<1>4. CASE SaveSelection(t)
  <2>1. PICK i \in Reachable(t, "saved"), assets \in {"none", "assets"} :
          Update(t, "saved", i, [rows.saved[i] EXCEPT !.selected = assets],
                 [Work EXCEPT !.event = Event("select_assets", i, rows.saved[i].company)])
    BY <1>4 DEF SaveSelection
  <2> DEFINE e == Event("select_assets", i, rows.saved[i].company)
             new == [rows.saved[i] EXCEPT !.selected = assets]
  <2>2. PICK company \in Companies : company = rows.saved[i].company
    BY <1>r DEF Saved
  <2>3. /\ e \in Events /\ e.action \in Quiet
        /\ Actor[t].override \/ e.company = Actor[t].company
    BY <1>r, <2>2, EventTypes DEF Quiet
  <2>4. new \in Saved /\ new.company = rows.saved[i].company /\ MappingOf(new) = MappingOf(rows.saved[i])
    BY <1>r DEF Saved, MappingOf
  <2>5. Update(t, "saved", i, new, InHand({}, e, {}, None))
    BY <2>1, Spelled
  <2> HIDE DEF e, new
  <2> QED
    BY <2>3, <2>4, <2>5, SavedUpdateHolds
<1>5. CASE ValidateMapping(t)
  <2>1. PICK i \in 0..uuid, module \in Modules, mappings \in Mappings,
             asked \in Companies \cup {None} :
          LET work == [Work EXCEPT !.event = Event("validate_mapping", i, Resolved(t, asked))] IN
          IF i \in Reachable(t, "saved")
          THEN Update(t, "saved", i, Mapped(rows.saved[i], module, mappings), work)
          ELSE Add(t, work)
    BY <1>5 DEF ValidateMapping
  <2> DEFINE e == Event("validate_mapping", i, Resolved(t, asked))
             new == Mapped(rows.saved[i], module, mappings)
  <2>2. /\ e \in Events /\ e.action \in Quiet
        /\ Actor[t].override \/ e.company = Actor[t].company
    BY <1>e DEF Quiet, HubInv, RowsTyped
  <2>3. CASE i \in Reachable(t, "saved")
    <3>1. /\ new \in Saved /\ new.company = rows.saved[i].company
          /\ new.validation_results = Validation(new.destination_module, new.field_mappings)
      <4>1. Validation(module, mappings) \in {"none", "Passed", "Failed"} /\ mappings \in SUBSET Fields
        BY DataHubAssumption DEF Validation
      <4> QED
        BY <1>r, <2>3, <4>1 DEF Saved, Mapped
    <3>2. Update(t, "saved", i, new, InHand({}, e, {}, None))
      BY <2>1, <2>3, Spelled
    <3> HIDE DEF e, new
    <3> QED
      BY <2>2, <2>3, <3>1, <3>2, SavedUpdateHolds
  <2>4. CASE i \notin Reachable(t, "saved")
    <3>1. Add(t, InHand({}, e, {}, None))
      BY <2>1, <2>4, Spelled
    <3> HIDE DEF e
    <3> QED
      BY <2>2, <3>1, AddHolds
  <2> QED
    BY <2>3, <2>4
<1>6. CASE RunRefresh(t)
  <2>1. PICK i \in Reachable(t, "saved"), asked \in Companies \cup {None}, mode \in Modes :
          Update(t, "saved", i, [rows.saved[i] EXCEPT !.refresh_mode = mode, !.status = "Loaded"],
                 [Work EXCEPT !.event = Event("refresh", i, Resolved(t, asked)),
                              !.logs = {Log("refresh", i, Resolved(t, asked))}])
    BY <1>6 DEF RunRefresh
  <2> DEFINE e == Event("refresh", i, Resolved(t, asked))
             l == {Log("refresh", i, Resolved(t, asked))}
             new == [rows.saved[i] EXCEPT !.refresh_mode = mode, !.status = "Loaded"]
  <2>2. \A x \in l : Actor[t].override \/ x.company = Actor[t].company
    BY <1>l
  <2>3. /\ e \in Events /\ e.action \in Quiet
        /\ Actor[t].override \/ e.company = Actor[t].company
    BY <1>e, <1>r DEF Quiet
  <2>4. new \in Saved /\ new.company = rows.saved[i].company /\ MappingOf(new) = MappingOf(rows.saved[i])
    BY <1>r DEF Saved, MappingOf
  <2>5. Update(t, "saved", i, new, InHand({}, e, l, None))
    BY <2>1, Spelled
  <2> HIDE DEF e, l, new
  <2> QED
    BY <2>2, <2>3, <2>4, <2>5, SavedUpdateHolds
<1> QED
  BY <1>1, <1>2, <1>3, <1>4, <1>5, <1>6

-----------------------------------------------------------------------------
(* A commit.                                                               *)

Committed(t) ==
    /\ call[t] # None /\ ~Refused(rows, call[t].changes)
    /\ rows' = Flushed(rows, call[t].changes)
    /\ trail' = trail \cup ({call[t].event} \ {None})
    /\ logs' = logs \cup call[t].logs
    /\ raced' = raced \cup OverUnread(call[t].changes)
    /\ call' = [call EXCEPT ![t] = AfterCommit(call[t])]
    /\ UNCHANGED <<uuid, calls, restarts>>

\* The invariant of the call a commit is of.
LEMMA CallHeld ==
    ASSUME HubInv, NEW t \in Threads, call[t] # None
    PROVE  WorkFits(t, call[t], uuid)
BY DEF HubInv, CallsFit

\* A row after a commit is of its table and, unless it is free, where it was.
LEMMA RowAfter ==
    ASSUME HubInv, NEW t \in Threads, Committed(t), NEW tb \in Tables, NEW i \in DOMAIN rows'[tb]
    PROVE  /\ rows'[tb][i] \in RowOf[tb]
           /\ i \in DOMAIN rows[tb] /\ tb \notin Free => SameHome(tb, rows'[tb][i], rows[tb][i])
           /\ i \notin DOMAIN rows[tb] =>
                \E c \in call[t].changes : /\ c.table = tb /\ c.id = i /\ c.was = None
                                           /\ rows'[tb][i] = c.new
<1>1. \A c \in call[t].changes : ChangeFits(t, c)
  BY CallHeld DEF Committed, WorkFits
<1>2. DOMAIN rows = Tables /\ \A j \in DOMAIN rows[tb] : rows[tb][j] \in RowOf[tb]
  BY DEF HubInv, RowsTyped
<1>3. CASE i \in DOMAIN rows[tb] /\ rows'[tb][i] = rows[tb][i]
  BY <1>2, <1>3 DEF SameHome
<1>4. ASSUME NEW c \in call[t].changes, c.table = tb, c.id = i, c.was = None, c.new # None,
             i \notin DOMAIN rows[tb], rows'[tb][i] = c.new
      PROVE  rows'[tb][i] \in RowOf[tb]
  BY <1>1, <1>4 DEF ChangeFits, Fits
<1>5. ASSUME NEW c \in call[t].changes, c.table = tb, c.id = i, c.was # None,
             c.new \notin {None, c.was}, i \in DOMAIN rows[tb],
             rows'[tb][i] = Merged(rows[tb][i], c.was, c.new)
      PROVE  /\ rows'[tb][i] \in RowOf[tb]
             /\ tb \notin Free => SameHome(tb, rows'[tb][i], rows[tb][i])
  <2>1. c.was \in RowOf[tb] /\ c.new \in RowOf[tb] /\ rows[tb][i] \in RowOf[tb]
    BY <1>1, <1>2, <1>5 DEF ChangeFits, Fits
  <2>2. tb \notin Free => SameHome(tb, c.was, c.new)
    BY <1>1, <1>5 DEF ChangeFits, Keeps
  <2> QED
    BY <1>5, <2>1, <2>2, MergedFits
<1>6. ~Refused(rows, call[t].changes) /\ rows' = Flushed(rows, call[t].changes)
  BY DEF Committed
<1> QED
  BY <1>2, <1>3, <1>4, <1>5, <1>6, FlushedRow

\* No row of app_metadata is deleted, and a table nobody changes stays.
LEMMA DomainAfter ==
    ASSUME HubInv, NEW t \in Threads, Committed(t)
    PROVE  /\ DOMAIN rows' = Tables
           /\ DOMAIN rows.metadata \subseteq DOMAIN rows'.metadata
           /\ \A tb \in Tables : (\A c \in call[t].changes : c.table # tb) => rows'[tb] = rows[tb]
<1>1. DOMAIN rows = Tables /\ rows' = Flushed(rows, call[t].changes) /\ "metadata" \in Tables
  BY DEF HubInv, RowsTyped, Committed, Tables
<1>2. \A c \in call[t].changes : c.new = None => c.table # "metadata"
  BY CallHeld DEF Committed, WorkFits, ChangeFits, Fits
<1>3. DOMAIN rows' = Tables
  BY <1>1, FlushedDomain
<1>4. DOMAIN rows["metadata"] \subseteq DOMAIN rows'["metadata"]
  BY <1>1, <1>2, FlushedDomain
<1>5. \A tb \in Tables : (\A c \in call[t].changes : c.table # tb) => rows'[tb] = rows[tb]
  BY <1>1 DEF Flushed
<1> QED
  BY <1>3, <1>4, <1>5

\* Which entries a commit adds: that of the connection it adds or deletes.
LEMMA TrailAfter ==
    ASSUME HubInv, NEW t \in Threads, Committed(t), NEW i
    PROVE  /\ Created(i)' <=>
                Created(i) \/ \E c \in call[t].changes : c.table = "saved" /\ c.was = None /\ c.id = i
           /\ Deleted(i)' <=>
                Deleted(i) \/ \E c \in call[t].changes : c.table = "saved" /\ c.new = None /\ c.id = i
<1>1. WorkFits(t, call[t], uuid)
  BY CallHeld DEF Committed
<1>2. \A c \in call[t].changes : c.table = "saved" => Tells(call[t], c)
  BY <1>1 DEF WorkFits
<1>3. trail' = IF call[t].event = None THEN trail ELSE trail \cup {call[t].event}
  BY DEF Committed
<1>4. EventFits(t, call[t])
  BY <1>1 DEF WorkFits
<1>5. Created(i)' <=> Created(i) \/ (/\ call[t].event # None /\ call[t].event.id = i
                                    /\ call[t].event.action = "create_connection")
  BY <1>3 DEF Created
<1>6. Deleted(i)' <=> Deleted(i) \/ (/\ call[t].event # None /\ call[t].event.id = i
                                    /\ call[t].event.action = "delete_connection")
  BY <1>3 DEF Deleted
<1> QED
  BY <1>2, <1>4, <1>5, <1>6 DEF EventFits, Tells

\* A commit leaves rows that are of their tables, and ids the trail has met.
LEMMA CommitTypes ==
    ASSUME HubInv, NEW t \in Threads, Committed(t)
    PROVE  RowsTyped' /\ TrailTyped' /\ MetaTagged'
<1>1. WorkFits(t, call[t], uuid) /\ uuid' = uuid /\ uuid \in Nat
  BY CallHeld DEF Committed, HubInv, RowsTyped
<1>2. DOMAIN rows' = Tables /\ DOMAIN call' = Threads
  BY DomainAfter DEF Committed, HubInv, RowsTyped
<1>3. \A tb \in {"saved", "system"} : DOMAIN rows'[tb] \subseteq 0..uuid
  <2> SUFFICES ASSUME NEW tb \in {"saved", "system"}, NEW i \in DOMAIN rows'[tb]
               PROVE  i \in 0..uuid
    OBVIOUS
  <2>1. CASE i \in DOMAIN rows[tb]
    BY <2>1 DEF HubInv, RowsTyped
  <2>2. CASE i \notin DOMAIN rows[tb]
    <3>1. tb \in Tables
      BY DEF Tables
    <3>2. PICK c \in call[t].changes : c.table = tb /\ c.id = i
      BY <2>2, <3>1, RowAfter
    <3> QED
      BY <1>1, <3>2 DEF WorkFits
  <2> QED
    BY <2>1, <2>2
<1>4. RowsTyped'
  <2>1. \A tb \in Tables : \A i \in DOMAIN rows'[tb] : rows'[tb][i] \in RowOf[tb]
    BY RowAfter
  <2> QED
    BY <1>1, <1>2, <1>3, <2>1 DEF RowsTyped
<1>5. TrailTyped'
  <2>1. trail' \subseteq Events
    BY <1>1 DEF Committed, HubInv, TrailTyped, WorkFits, EventFits
  <2>2. ASSUME NEW i, Created(i)' \/ Deleted(i)'
        PROVE  i \in 0..uuid
    <3>1. \/ Created(i) \/ Deleted(i)
          \/ \E c \in call[t].changes : c.table = "saved" /\ c.id = i
      BY <2>2, TrailAfter
    <3> QED
      BY <1>1, <3>1 DEF HubInv, TrailTyped, WorkFits
  <2>3. \A i : (Created(i) \/ Deleted(i))' => i \in 0..uuid'
    BY <1>1, <2>2
  <2> QED
    BY <2>1, <2>3 DEF TrailTyped
<1>6. MetaTagged'
  <2> SUFFICES ASSUME NEW i \in DOMAIN rows'.metadata
               PROVE  Tagged(i, rows'.metadata[i])
    BY DEF MetaTagged, Tagged
  <2>1. "metadata" \in Tables \ Free
    BY DEF Tables, Free
  <2>2. CASE i \in DOMAIN rows.metadata
    <3>1. SameHome("metadata", rows'.metadata[i], rows.metadata[i])
      BY <2>1, <2>2, RowAfter
    <3>2. Tagged(i, rows.metadata[i])
      BY <2>2 DEF HubInv, MetaTagged
    <3> QED
      BY <3>1, <3>2 DEF SameHome, Tagged
  <2>3. CASE i \notin DOMAIN rows.metadata
    <3>1. PICK c \in call[t].changes : /\ c.table = "metadata" /\ c.id = i /\ c.was = None
                                       /\ rows'.metadata[i] = c.new
      BY <2>1, <2>3, RowAfter
    <3> QED
      BY <1>1, <3>1 DEF WorkFits, ChangeFits
  <2> QED
    BY <2>2, <2>3
<1> QED
  BY <1>4, <1>5, <1>6

\* A commit of one thread does not move the rows another has in hand, and what
\* the trail tells of those is still so.
LEMMA OthersStand ==
    ASSUME HubInv, NEW t \in Threads, Committed(t), NEW u \in Threads, u # t,
           call[u] # None, NEW c \in call[u].changes
    PROVE  Stands(c)' /\ (Tells(call[u], c) => Tells(call[u], c)')
<1>1. WorkFits(t, call[t], uuid) /\ WorkFits(u, call[u], uuid)
  BY CallHeld DEF Committed
<1>2. ChangeFits(u, c) /\ Tells(call[u], c) /\ c.table \in Tables
  BY <1>1 DEF WorkFits, ChangeFits, Fits
<1>3. Stands(c)'
  <2> SUFFICES ASSUME c.was # None, c.table \notin Free
               PROVE  /\ c.table = "metadata" => c.id \in DOMAIN rows'.metadata
                      /\ c.id \in DOMAIN rows'[c.table] => SameHome(c.table, rows'[c.table][c.id], c.was)
    BY DEF Stands
  <2>1. c.table = "metadata" => c.id \in DOMAIN rows.metadata /\ c.id \in DOMAIN rows'.metadata
    BY <1>2, DomainAfter DEF ChangeFits, Stands
  <2>2. ASSUME c.id \in DOMAIN rows'[c.table]
        PROVE  SameHome(c.table, rows'[c.table][c.id], c.was)
    <3>1. c.id \in DOMAIN rows[c.table]
      <4> SUFFICES ASSUME c.id \notin DOMAIN rows[c.table] PROVE FALSE
        OBVIOUS
      <4>1. PICK d \in call[t].changes : d.table = c.table /\ d.id = c.id /\ d.was = None
        BY <1>2, <2>2, RowAfter
      <4>2. ChangeFits(t, d) /\ Tells(call[t], d)
        BY <1>1 DEF WorkFits
      <4>3. c.table = "saved"
        BY <1>2, <2>1, <4>1, <4>2, TableTypes DEF ChangeFits, Fits
      <4> QED
        BY <1>2, <4>1, <4>2, <4>3 DEF Tells
    <3>2. SameHome(c.table, rows'[c.table][c.id], rows[c.table][c.id])
      BY <1>2, <2>2, <3>1, RowAfter
    <3>3. SameHome(c.table, rows[c.table][c.id], c.was)
      BY <1>2, <3>1 DEF ChangeFits, Stands
    <3> QED
      BY <3>2, <3>3 DEF SameHome
  <2> QED
    BY <2>1, <2>2
<1>4. Tells(call[u], c)'
  <2> DEFINE w == call[u]
  <2>1. call'[u] = call[u]
    BY DEF Committed, HubInv, RowsTyped
  <2> SUFFICES ASSUME c.table = "saved"
               PROVE  /\ c.was = None => ~Created(c.id)' /\ ~Deleted(c.id)'
                      /\ c.was # None => Created(c.id)'
    BY <1>2, <2>1 DEF Tells
  <2>2. Created(c.id)' <=>
          Created(c.id) \/ \E d \in call[t].changes : d.table = "saved" /\ d.was = None /\ d.id = c.id
    BY TrailAfter
  <2>3. Deleted(c.id)' <=>
          Deleted(c.id) \/ \E d \in call[t].changes : d.table = "saved" /\ d.new = None /\ d.id = c.id
    BY TrailAfter
  <2>4. \A d \in call[t].changes : d.table = "saved" /\ d.id = c.id /\ c.was = None => d.was # None
    BY DEF HubInv, Apart, Committed
  <2>5. \A d \in call[t].changes : d.table = "saved" /\ d.new = None => d.was # None /\ Created(d.id)
    BY <1>1 DEF WorkFits, ChangeFits, Fits, Tells
  <2> QED
    BY <1>2, <2>2, <2>3, <2>4, <2>5 DEF Tells
<1> QED
  BY <1>3, <1>4

\* What a call goes on with after its first commit: the details of the system
\* it has just created.
LEMMA AfterCommitFits ==
    ASSUME HubInv, NEW t \in Threads, Committed(t), call'[t] # None
    PROVE  /\ WorkFits(t, call[t], uuid)'
           /\ \A c \in call'[t].changes : c.table = "metadata"
<1> DEFINE work == call[t]
           upserts == UNION {Upserts("details", c.new.company, <<"system", c.id>>,
                                     <<"details", c.id>>, work.details) : c \in work.changes}
           w == InHand(upserts, None, {}, None)
<1>1. WorkFits(t, work, uuid) /\ uuid \in Nat /\ uuid' = uuid
  BY CallHeld DEF Committed, HubInv, RowsTyped
<1>2. call'[t] = AfterCommit(work)
  BY DEF Committed, HubInv, RowsTyped
<1>3. work.details \in Values /\ \A c \in work.changes : c.table = "system" /\ c.was = None
  BY <1>1, <1>2 DEF AfterCommit, WorkFits
<1>4. call'[t] = w
  <2>1. call'[t] = [Work EXCEPT !.changes = upserts]
    BY <1>2, <1>3, DataHubAssumption DEF AfterCommit
  <2> HIDE DEF upserts
  <2> QED
    BY <2>1, Spelled
<1>5. \A d \in upserts : ChangeFits(t, d) /\ d.table = "metadata"
  <2> SUFFICES ASSUME NEW c \in work.changes,
                      NEW d \in Upserts("details", c.new.company, <<"system", c.id>>,
                                        <<"details", c.id>>, work.details)
               PROVE  ChangeFits(t, d) /\ d.table = "metadata"
    OBVIOUS
  <2>1. c.table = "system" /\ c.was = None /\ ChangeFits(t, c) /\ c.id \in 0..uuid
    BY <1>1, <1>3 DEF WorkFits
  <2>2. c.new \in Plain /\ c.new # None
    BY <2>1, TableTypes DEF ChangeFits, Fits, Free
  <2>3. c.new.company \in Companies /\ (Actor[t].override \/ c.new.company = Actor[t].company)
    BY <2>1, <2>2 DEF Plain, ChangeFits, IsOf
  <2>4. <<"system", c.id>> \in Keys /\ <<"details", c.id>> = <<"details", <<"system", c.id>>[2]>>
    BY <1>1, <2>1 DEF Keys
  <2> QED
    BY <1>3, <2>3, <2>4, UpsertFits
<1>6. rows'.metadata = rows.metadata
  <2>1. "metadata" \in Tables /\ \A c \in call[t].changes : c.table # "metadata"
    BY <1>3 DEF Tables
  <2>2. rows'["metadata"] = rows["metadata"]
    BY <2>1, DomainAfter
  <2> QED
    BY <2>2
<1>7. \A d \in upserts : ChangeFits(t, d)'
  <2> SUFFICES ASSUME NEW d \in upserts
               PROVE  ChangeFits(t, d)'
    OBVIOUS
  <2> HIDE DEF upserts
  <2>1. ChangeFits(t, d) /\ d.table = "metadata"
    BY <1>5
  <2> QED
    BY <1>6, <2>1 DEF ChangeFits, Fits, Keeps, Stands, IsOf, SameHome, Tagged
<1>8. call'[t].changes = upserts /\ call'[t].event = None /\ call'[t].logs = {} /\ call'[t].details = None
  <2> HIDE DEF upserts
  <2> QED
    BY <1>4, InHandParts
<1> HIDE DEF upserts
<1>9. WorkFits(t, call[t], uuid)'
  BY <1>5, <1>7, <1>8 DEF WorkFits, EventFits, Maps, Tells
<1> QED
  BY <1>5, <1>8, <1>9

\* A commit leaves every call of every thread in order, and none of them about
\* to create the same connection.
LEMMA CommitCalls ==
    ASSUME HubInv, NEW t \in Threads, Committed(t)
    PROVE  CallsFit' /\ Apart'
<1>1. \A u \in Threads \ {t} : call'[u] = call[u]
  BY DEF Committed, HubInv, RowsTyped
<1>2. uuid' = uuid
  BY DEF Committed
<1>3. CallsFit'
  <2> SUFFICES ASSUME NEW u \in Threads, call'[u] # None
               PROVE  WorkFits(u, call[u], uuid)'
    BY DEF CallsFit
  <2>1. CASE u = t
    BY <2>1, AfterCommitFits
  <2>2. CASE u # t
    <3>1. call'[u] = call[u] /\ call[u] # None /\ WorkFits(u, call[u], uuid)
      BY <1>1, <2>2, CallHeld
    <3>2. \A c \in call[u].changes : Stands(c)' /\ Tells(call[u], c)'
      BY <2>2, <3>1, OthersStand DEF WorkFits
    <3>3. \A c \in call[u].changes : ChangeFits(u, c)'
      BY <3>1, <3>2 DEF WorkFits, ChangeFits, Fits, Keeps, IsOf, SameHome, Tagged
    <3>4. \A c \in call[u].changes : Maps(c)'
      BY <3>1 DEF WorkFits, Maps, MappingOf, Validation
    <3> QED
      BY <1>2, <3>1, <3>2, <3>3, <3>4 DEF WorkFits, EventFits
  <2> QED
    BY <2>1, <2>2
<1>4. Apart'
  <2> SUFFICES ASSUME NEW u \in Threads, NEW v \in Threads, u # v,
                      call'[u] # None, call'[v] # None,
                      NEW c \in call'[u].changes, NEW d \in call'[v].changes,
                      c.table = "saved", d.table = "saved", c.was = None, d.was = None, c.id = d.id
               PROVE  FALSE
    BY DEF Apart
  <2>1. u # t /\ v # t
    BY AfterCommitFits
  <2> QED
    BY <1>1, <2>1 DEF HubInv, Apart
<1> QED
  BY <1>3, <1>4

\* A connection comes on file in the commit that audits its creation, and goes
\* in the one that audits its deletion.
LEMMA CommitTells ==
    ASSUME HubInv, NEW t \in Threads, Committed(t)
    PROVE  TrailTellsConnections'
<1> SUFFICES ASSUME NEW i \in 0..uuid
             PROVE  i \in DOMAIN rows'.saved <=> Created(i)' /\ ~Deleted(i)'
  BY DEF TrailTellsConnections, Created, Deleted, Committed
<1> DEFINE changes == call[t].changes
<1>1. WorkFits(t, call[t], uuid)
  BY CallHeld DEF Committed
<1>2. \A c \in changes : ChangeFits(t, c) /\ Tells(call[t], c)
  BY <1>1 DEF WorkFits
<1>3. i \in DOMAIN rows.saved <=> Created(i) /\ ~Deleted(i)
  BY DEF HubInv, TrailTellsConnections, Created, Deleted
<1>4. /\ Created(i)' <=> Created(i) \/ \E c \in changes : c.table = "saved" /\ c.was = None /\ c.id = i
      /\ Deleted(i)' <=> Deleted(i) \/ \E c \in changes : c.table = "saved" /\ c.new = None /\ c.id = i
  BY TrailAfter
<1>5. "saved" \in Tables /\ DOMAIN rows = Tables /\ rows' = Flushed(rows, changes)
  BY DEF Tables, HubInv, RowsTyped, Committed
<1>6. i \in DOMAIN rows'["saved"] => i \in DOMAIN rows["saved"]
        \/ \E c \in changes : c.table = "saved" /\ c.id = i /\ c.was = None
  BY <1>5, RowAfter
<1>7. /\ i \in DOMAIN rows["saved"] /\ i \notin DOMAIN rows'["saved"] =>
           \E c \in changes : c.table = "saved" /\ c.id = i /\ c.new = None
      /\ \A c \in changes : c.table = "saved" /\ c.new = None => c.id \notin DOMAIN rows'["saved"]
      /\ \A c \in changes :
           c.table = "saved" /\ c.was = None /\ c.new # None
           /\ (\A d \in changes : d.table = "saved" /\ d.id = c.id => d.new # None)
           => c.id \in DOMAIN rows'["saved"]
  <2> HIDE DEF changes
  <2> QED
    BY <1>5, FlushedDomain
<1>8. CASE \E c \in changes : c.table = "saved" /\ c.id = i
  <2>1. PICK c \in changes : c.table = "saved" /\ c.id = i
    BY <1>8
  <2>2. changes = {c}
    BY <1>2, <2>1 DEF Tells
  <2>3. CASE c.was = None
    <3>1. c.new # None /\ ~Deleted(i)
      BY <1>2, <2>1, <2>3 DEF Tells, ChangeFits, Fits
    <3>2. i \in DOMAIN rows'["saved"]
      BY <1>7, <2>1, <2>2, <2>3, <3>1
    <3> QED
      BY <1>4, <2>1, <2>2, <2>3, <3>1, <3>2
  <2>4. CASE c.new = None
    BY <1>4, <1>7, <2>1, <2>4
  <2>5. CASE c.was # None /\ c.new # None
    BY <1>3, <1>4, <1>6, <1>7, <2>1, <2>2, <2>5
  <2> QED
    BY <2>3, <2>4, <2>5
<1>9. CASE ~\E c \in changes : c.table = "saved" /\ c.id = i
  BY <1>3, <1>4, <1>6, <1>7, <1>9
<1> QED
  BY <1>8, <1>9

\* A mapping on file after a commit is one that was validated or one that is
\* not shown as validated.
LEMMA CommitMaps ==
    ASSUME HubInv, NEW t \in Threads, Committed(t)
    PROVE  MappingIsValidated'
<1> DEFINE changes == call[t].changes
           Agrees(r) == r.validation_results # "none" =>
                          r.validation_results = Validation(r.destination_module, r.field_mappings)
<1> SUFFICES ASSUME NEW i \in DOMAIN rows'.saved, i \notin raced'
             PROVE  Agrees(rows'.saved[i])
  BY DEF MappingIsValidated, Validation
<1>1. WorkFits(t, call[t], uuid)
  BY CallHeld DEF Committed
<1>2. \A c \in changes : ChangeFits(t, c) /\ Maps(c)
  BY <1>1 DEF WorkFits
<1>3. /\ "saved" \in Tables /\ DOMAIN rows = Tables /\ rows' = Flushed(rows, changes)
      /\ ~Refused(rows, changes) /\ i \notin raced /\ i \notin OverUnread(changes)
  BY DEF Tables, HubInv, RowsTyped, Committed
<1>4. i \in DOMAIN rows.saved => Agrees(rows.saved[i]) /\ rows.saved[i] \in Saved
  BY <1>3, TableTypes DEF HubInv, MappingIsValidated, RowsTyped
<1>5. ASSUME NEW c \in changes, c.table = "saved", c.id = i, c.was = None, c.new # None,
             rows'.saved[i] = c.new
      PROVE  Agrees(rows'.saved[i])
  BY <1>2, <1>5 DEF Maps
<1>6. ASSUME NEW c \in changes, c.table = "saved", c.id = i, c.was # None,
             c.new \notin {None, c.was}, i \in DOMAIN rows.saved,
             rows'.saved[i] = Merged(rows.saved[i], c.was, c.new)
      PROVE  Agrees(rows'.saved[i])
  <2> DEFINE now == rows.saved[i]
             merged == Merged(now, c.was, c.new)
  <2>1. c.was \in Saved /\ c.new \in Saved /\ now \in Saved
    BY <1>2, <1>4, <1>6, TableTypes DEF ChangeFits, Fits
  <2>2. DOMAIN c.new = {"company", "destination_module", "field_mappings",
                        "validation_results", "selected", "status", "refresh_mode"}
    BY <2>1 DEF Saved
  <2>3. /\ merged.destination_module = IF c.new.destination_module # c.was.destination_module
                                       THEN c.new.destination_module ELSE now.destination_module
        /\ merged.field_mappings = IF c.new.field_mappings # c.was.field_mappings
                                   THEN c.new.field_mappings ELSE now.field_mappings
        /\ merged.validation_results = IF c.new.validation_results # c.was.validation_results
                                       THEN c.new.validation_results ELSE now.validation_results
    BY <2>2 DEF Merged
  <2>4. \/ MappingOf(c.new) = MappingOf(c.was)
        \/ /\ MappingOf(now) = MappingOf(c.was)
           /\ c.new.validation_results = Validation(c.new.destination_module, c.new.field_mappings)
    <3>1. c \in {d \in changes : /\ d.table = "saved" /\ None \notin {d.was, d.new}
                                 /\ MappingOf(d.new) # MappingOf(d.was)
                                 /\ MappingOf(rows.saved[d.id]) # MappingOf(d.was)}
          => i \in OverUnread(changes)
      BY <1>6 DEF OverUnread
    <3> QED
      BY <1>2, <1>3, <1>6, <3>1 DEF Maps
  <2>5. CASE MappingOf(c.new) = MappingOf(c.was)
    <3>1. /\ merged.destination_module = now.destination_module
          /\ merged.field_mappings = now.field_mappings
          /\ merged.validation_results = now.validation_results
      BY <2>3, <2>5 DEF MappingOf
    <3> HIDE DEF merged
    <3> QED
      BY <1>4, <1>6, <3>1 DEF merged
  <2>6. CASE /\ MappingOf(now) = MappingOf(c.was)
             /\ c.new.validation_results = Validation(c.new.destination_module, c.new.field_mappings)
    <3>1. /\ merged.destination_module = c.new.destination_module
          /\ merged.field_mappings = c.new.field_mappings
          /\ merged.validation_results = c.new.validation_results
      BY <2>3, <2>6 DEF MappingOf
    <3> HIDE DEF merged
    <3> QED
      BY <1>6, <2>6, <3>1 DEF merged
  <2> QED
    BY <2>4, <2>5, <2>6
<1>7. i \in DOMAIN Flushed(rows, changes)["saved"]
  BY <1>3
<1> HIDE DEF Agrees, changes
<1> QED
  BY <1>3, <1>4, <1>5, <1>6, <1>7, FlushedRow

\* Nothing changes but that calls may be over: a commit that is refused.
LEMMA StillHolds ==
    ASSUME HubInv, UNCHANGED <<rows, trail, raced, uuid>>,
           DOMAIN call' = Threads, \A u \in Threads : call'[u] \in {None, call[u]}
    PROVE  HubInv'
<1>1. \A u \in Threads : call'[u] # None => call'[u] = call[u]
  OBVIOUS
<1>2. RowsTyped' /\ TrailTyped'
  BY <1>1 DEF HubInv, RowsTyped, TrailTyped, Created, Deleted
<1>3. CallsFit'
  <2> SUFFICES ASSUME NEW u \in Threads, call'[u] # None
               PROVE  WorkFits(u, call[u], uuid)'
    BY DEF CallsFit
  <2>1. call'[u] = call[u] /\ WorkFits(u, call[u], uuid)
    BY <1>1, CallHeld
  <2>2. \A c \in call[u].changes : ChangeFits(u, c)'
    BY <2>1 DEF WorkFits, ChangeFits, Fits, Keeps, Stands, IsOf, SameHome, Tagged
  <2>3. \A c \in call[u].changes : Tells(call[u], c)' /\ Maps(c)'
    BY <2>1 DEF WorkFits, Tells, Created, Deleted, Maps, MappingOf, Validation
  <2> QED
    BY <2>1, <2>2, <2>3 DEF WorkFits, EventFits
<1>4. Apart'
  BY <1>1 DEF HubInv, Apart
<1>5. MetaTagged' /\ MappingIsValidated'
  BY DEF HubInv, MetaTagged, Tagged, MappingIsValidated, Validation
<1>6. TrailTellsConnections'
  BY DEF HubInv, TrailTellsConnections
<1> QED
  BY <1>2, <1>3, <1>4, <1>5, <1>6 DEF HubInv

\* The commit of a call preserves the invariant.
LEMMA CommitHolds ==
    ASSUME HubInv, NEW t \in Threads, Commit(t)
    PROVE  HubInv'
<1>1. CASE Refused(rows, call[t].changes)
  <2>1. DOMAIN call' = Threads /\ \A u \in Threads : call'[u] \in {None, call[u]}
    BY <1>1 DEF Commit, HubInv, RowsTyped
  <2> QED
    BY <1>1, <2>1, StillHolds DEF Commit
<1>2. CASE ~Refused(rows, call[t].changes)
  <2>1. Committed(t)
    BY <1>2 DEF Commit, Committed
  <2> QED
    BY <2>1, CommitTypes, CommitCalls, CommitTells, CommitMaps DEF HubInv
<1> QED
  BY <1>1, <1>2

-----------------------------------------------------------------------------
(* The start, and the server that starts again.                            *)

\* The seeded rows are rows of their tables.
LEMMA SeedsFit ==
    /\ \A tb \in Tables \ {"saved"} : SeedRows[tb] \in RowOf[tb]
    /\ Tagged(SeedId("metadata"), SeedRows.metadata)
    /\ \A tb \in Tables \ {"metadata"} : SeedId(tb) = 0
<1>1. <<"system", 0>> \in Keys
  BY DEF Keys
<1>2. SeedRows.metadata \in Meta /\ Tagged(SeedId("metadata"), SeedRows.metadata)
  BY <1>1, DataHubAssumption DEF SeedRows, Meta, Tagged, SeedId
<1>3. \A tb \in Free : SeedRows[tb] \in Plain
  BY DataHubAssumption DEF SeedRows, Plain, Free
<1>4. SeedRows.pending \in Pending
  BY DataHubAssumption DEF SeedRows, Pending
<1> QED
  BY <1>2, <1>3, <1>4, TableTypes DEF Tables, SeedId, Free

\* The seeded hub is in order.
LEMMA InitHolds ==
    ASSUME Init
    PROVE  HubInv
<1> DEFINE first == NewConnection(Home, Default)
<1>1. \A tb \in Tables : rows[tb] = [i \in {SeedId(tb)} |-> IF tb = "saved" THEN first ELSE SeedRows[tb]]
  BY DEF Init
<1>2. first \in Saved /\ first.validation_results = "none"
  BY DataHubAssumption DEF NewConnection, Saved, Default, Modes, Modules
<1> HIDE DEF first
<1>3. /\ "saved" \in Tables /\ "metadata" \in Tables /\ uuid = 0
      /\ DOMAIN rows.saved = {0} /\ rows.saved[0] = first
  BY <1>1, SeedsFit DEF Init, Tables
<1>4. RowsTyped
  <2>1. \A tb \in Tables : \A i \in DOMAIN rows[tb] : rows[tb][i] \in RowOf[tb]
    <3>1. \A i \in DOMAIN rows["saved"] : rows["saved"][i] \in RowOf["saved"]
      BY <1>2, <1>3, TableTypes
    <3>2. \A tb \in Tables \ {"saved"} : \A i \in DOMAIN rows[tb] : rows[tb][i] \in RowOf[tb]
      <4> TAKE tb \in Tables \ {"saved"}
      <4>1. rows[tb] = [i \in {SeedId(tb)} |-> SeedRows[tb]]
        BY <1>1
      <4>2. SeedRows[tb] \in RowOf[tb]
        BY SeedsFit
      <4> QED
        BY <4>1, <4>2
    <3> QED
      BY <3>1, <3>2
  <2>2. \A tb \in {"saved", "system"} : DOMAIN rows[tb] \subseteq 0..uuid
    BY <1>1, <1>3, SeedsFit DEF Tables
  <2>3. uuid \in Nat /\ DOMAIN rows = Tables /\ DOMAIN call = Threads
    BY DEF Init
  <2> QED
    BY <2>1, <2>2, <2>3 DEF RowsTyped
<1>5. TrailTyped /\ \A i : (Created(i) <=> i = 0) /\ ~Deleted(i)
  BY <1>3, DataHubAssumption DEF Init, TrailTyped, Events, Created, Deleted
<1>6. CallsFit /\ Apart
  BY DEF Init, CallsFit, Apart
<1>7. MetaTagged
  BY <1>1, <1>3, SeedsFit DEF MetaTagged
<1>8. TrailTellsConnections
  BY <1>3, <1>5 DEF TrailTellsConnections, Created, Deleted
<1>9. MappingIsValidated
  BY <1>2, <1>3 DEF MappingIsValidated
<1> QED
  BY <1>4, <1>5, <1>6, <1>7, <1>8, <1>9 DEF HubInv

\* A restart drops what is in hand and puts the seeded rows back where they are
\* missing; connections stay as they are.
LEMMA RestartHolds ==
    ASSUME HubInv, Restart
    PROVE  HubInv'
<1>1. /\ call' = [t \in Threads |-> None] /\ UNCHANGED <<trail, uuid, raced>>
      /\ DOMAIN rows' = Tables /\ "saved" \in Tables /\ "metadata" \in Tables
      /\ rows'["saved"] = rows["saved"]
  BY DEF Restart, Tables
<1>2. \A tb \in Tables \ {"saved"} :
        /\ DOMAIN rows'[tb] = DOMAIN rows[tb] \cup {SeedId(tb)}
        /\ \A i \in DOMAIN rows'[tb] :
             rows'[tb][i] = IF i = SeedId(tb) /\ (tb = "metadata" \/ i \notin DOMAIN rows[tb])
                            THEN SeedRows[tb] ELSE rows[tb][i]
  BY DEF Restart
<1>3. RowsTyped'
  <2>1. \A tb \in Tables : \A i \in DOMAIN rows'[tb] : rows'[tb][i] \in RowOf[tb]
    BY <1>1, <1>2, SeedsFit DEF HubInv, RowsTyped
  <2>2. \A tb \in {"saved", "system"} : DOMAIN rows'[tb] \subseteq 0..uuid'
    BY <1>1, <1>2, SeedsFit DEF HubInv, RowsTyped, Tables
  <2> QED
    BY <1>1, <2>1, <2>2 DEF HubInv, RowsTyped
<1>4. TrailTyped'
  BY <1>1 DEF HubInv, TrailTyped, Created, Deleted
<1>5. CallsFit' /\ Apart'
  BY <1>1 DEF CallsFit, Apart
<1>6. MetaTagged'
  <2> SUFFICES ASSUME NEW i \in DOMAIN rows'["metadata"]
               PROVE  Tagged(i, rows'["metadata"][i])
    BY DEF MetaTagged, Tagged
  <2>1. CASE i = SeedId("metadata")
    BY <1>1, <1>2, <2>1, SeedsFit
  <2>2. CASE i # SeedId("metadata")
    BY <1>1, <1>2, <2>2 DEF HubInv, MetaTagged
  <2> QED
    BY <2>1, <2>2
<1>7. TrailTellsConnections' /\ MappingIsValidated'
  BY <1>1 DEF HubInv, TrailTellsConnections, MappingIsValidated, Validation
<1> QED
  BY <1>3, <1>4, <1>5, <1>6, <1>7 DEF HubInv

\* Every step preserves the invariant, by the kind of call it begins or ends.
LEMMA HubStep ==
    ASSUME HubInv, [Next]_vars
    PROVE  HubInv'
<1>1. ASSUME NEW t \in Threads,
             \/ CreateConnection(t) \/ DeleteConnection(t) \/ TestConnection(t)
             \/ SaveSelection(t) \/ TransformPreview(t) \/ ValidateMapping(t)
             \/ CreateRelationship(t) \/ RunRefresh(t)
             \/ CreateSystem(t) \/ UpdateSystem(t) \/ DeleteSystem(t)
             \/ CreateCatalogEntry(t) \/ UpdateCatalogEntry(t) \/ DeleteCatalogEntry(t)
             \/ CreateMapping(t) \/ UpdateMapping(t) \/ DeleteMapping(t)
             \/ DecidePending(t) \/ UpdateReadiness(t) \/ UpdateFootprint(t)
             \/ CreateUpload(t) \/ CreateCloudSource(t) \/ Commit(t)
      PROVE  HubInv'
  <2>1. CASE CreateConnection(t) \/ DeleteConnection(t)
    BY <2>1, CreateConnectionHolds, DeleteConnectionHolds
  <2>2. CASE \/ TestConnection(t) \/ SaveSelection(t) \/ TransformPreview(t)
             \/ ValidateMapping(t) \/ CreateRelationship(t) \/ RunRefresh(t)
    BY <2>2, ConnectionsHold
  <2>3. CASE \/ CreateSystem(t) \/ DeleteSystem(t)
             \/ CreateCatalogEntry(t) \/ UpdateCatalogEntry(t) \/ DeleteCatalogEntry(t)
             \/ CreateMapping(t) \/ UpdateMapping(t) \/ DeleteMapping(t)
    BY <2>3, ListsHold
  <2>4. CASE UpdateSystem(t)
    BY <2>4, UpdateSystemHolds
  <2>5. CASE DecidePending(t)
    BY <2>5, DecidePendingHolds
  <2>6. CASE UpdateReadiness(t) \/ UpdateFootprint(t) \/ CreateUpload(t) \/ CreateCloudSource(t)
    BY <2>6, MetadataHolds
  <2>7. CASE Commit(t)
    BY <2>7, CommitHolds
  <2> QED
    BY <1>1, <2>1, <2>2, <2>3, <2>4, <2>5, <2>6, <2>7
<1>2. CASE Restart
  BY <1>2, RestartHolds
<1>3. CASE UNCHANGED vars
  <2>1. UNCHANGED <<rows, trail, raced, uuid, call>>
    BY <1>3 DEF vars
  <2>2. DOMAIN call' = Threads /\ \A u \in Threads : call'[u] \in {None, call[u]}
    BY <2>1 DEF HubInv, RowsTyped
  <2> QED
    BY <2>1, <2>2, StillHolds
<1> QED
  BY <1>1, <1>2, <1>3 DEF Next

\* The invariant holds in every state of every behaviour.
LEMMA HubInvHolds == Spec => []HubInv
<1>1. Init => HubInv
  BY InitHolds
<1>2. HubInv /\ [Next]_vars => HubInv'
  BY HubStep
<1> QED
  BY <1>1, <1>2, PTL DEF Spec

-----------------------------------------------------------------------------
\* The validation a connection shows is that of its mapping, unless a mapping was
\* committed over one the call had not read.
THEOREM ShownMappingsAreValidated == Spec => []MappingIsValidated
<1>1. HubInv => MappingIsValidated
  BY DEF HubInv
<1> QED
  BY <1>1, HubInvHolds, PTL

\* The audit trail tells which connections are on file.
THEOREM TrailIsTrue == Spec => []TrailTellsConnections
<1>1. HubInv => TrailTellsConnections
  BY DEF HubInv
<1> QED
  BY <1>1, HubInvHolds, PTL

-----------------------------------------------------------------------------
(* What a commit may touch.                                                *)

\* Every step of a thread begins a call or commits it.
LEMMA OneStep ==
    ASSUME [Next]_vars
    PROVE  \/ \E t \in Threads : (\E w : Begin(t, w)) \/ Commit(t)
           \/ Restart
           \/ UNCHANGED vars
<1>1. ASSUME NEW t \in Threads, CreateConnection(t) \/ DeleteConnection(t) \/ SaveSelection(t) \/ RunRefresh(t)
      PROVE  \E w : Begin(t, w)
  BY <1>1 DEF CreateConnection, DeleteConnection, SaveSelection, RunRefresh, Insert, Delete, Update
<1>2. ASSUME NEW t \in Threads, TestConnection(t) \/ TransformPreview(t) \/ CreateRelationship(t)
      PROVE  \E w : Begin(t, w)
  BY <1>2 DEF TestConnection, TransformPreview, CreateRelationship, Add
<1>3. ASSUME NEW t \in Threads, ValidateMapping(t)
      PROVE  \E w : Begin(t, w)
  <2>1. PICK i \in 0..uuid, module \in Modules, mappings \in Mappings,
             asked \in Companies \cup {None} :
          LET work == [Work EXCEPT !.event = Event("validate_mapping", i, Resolved(t, asked))] IN
          IF i \in Reachable(t, "saved")
          THEN Update(t, "saved", i, Mapped(rows.saved[i], module, mappings), work)
          ELSE Add(t, work)
    BY <1>3 DEF ValidateMapping
  <2> QED
    BY <2>1 DEF Update, Add
<1>4. ASSUME NEW t \in Threads,
             \/ CreateSystem(t) \/ CreateCatalogEntry(t) \/ CreateMapping(t)
             \/ DeleteSystem(t) \/ DeleteCatalogEntry(t) \/ DeleteMapping(t)
             \/ UpdateCatalogEntry(t) \/ UpdateMapping(t) \/ DecidePending(t)
      PROVE  \E w : Begin(t, w)
  BY <1>4 DEF CreateSystem, CreateCatalogEntry, CreateMapping, DeleteSystem, DeleteCatalogEntry,
              DeleteMapping, UpdateCatalogEntry, UpdateMapping, DecidePending, Insert, Delete, Update
<1>5. ASSUME NEW t \in Threads, UpdateSystem(t)
      PROVE  \E w : Begin(t, w)
  BY <1>5 DEF UpdateSystem, Update
<1>6. ASSUME NEW t \in Threads,
             UpdateReadiness(t) \/ UpdateFootprint(t) \/ CreateUpload(t) \/ CreateCloudSource(t)
      PROVE  \E w : Begin(t, w)
  BY <1>6 DEF UpdateReadiness, UpdateFootprint, CreateUpload, CreateCloudSource, Add
<1> QED
  BY <1>1, <1>2, <1>3, <1>4, <1>5, <1>6 DEF Next

\* The number of restarts is a number.
LEMMA RestartsAreCounted == Spec => [](restarts \in Nat)
<1>1. Init => restarts \in Nat
  BY DEF Init
<1>2. restarts \in Nat /\ [Next]_vars => (restarts \in Nat)'
  BY OneStep DEF Begin, Commit, Restart, vars
<1> QED
  BY <1>1, <1>2, PTL DEF Spec

\* A call that is no longer in hand, and the server did not stop, was committed.
LEMMA OnlyCommits ==
    ASSUME HubInv, restarts \in Nat, [Next]_vars, NEW t \in Threads,
           call[t] # None, call'[t] # call[t], restarts' = restarts
    PROVE  Commit(t)
<1>1. DOMAIN call = Threads
  BY DEF HubInv, RowsTyped
<1>2. ASSUME NEW u \in Threads, NEW w, Begin(u, w)
      PROVE  FALSE
  BY <1>1, <1>2 DEF Begin
<1>3. ASSUME NEW u \in Threads, Commit(u), u # t
      PROVE  FALSE
  BY <1>1, <1>3 DEF Commit
<1>4. ~Restart
  BY DEF Restart
<1>5. ~UNCHANGED vars
  BY DEF vars
<1> QED
  BY <1>2, <1>3, <1>4, <1>5, OneStep

\* A row a commit touches is one the call has read, and changes or deletes.
LEMMA TouchedIsChanged ==
    ASSUME HubInv, NEW t \in Threads, Committed(t), NEW tb \in Tables,
           NEW i \in Touched(rows[tb], rows'[tb])
    PROVE  \E c \in call[t].changes :
              /\ ChangeFits(t, c) /\ c.table = tb /\ c.id = i /\ c.was # None
              /\ i \in DOMAIN rows'[tb] =>
                   c.new # None /\ rows'[tb][i] = Merged(rows[tb][i], c.was, c.new)
<1>1. /\ i \in DOMAIN rows[tb] /\ tb \in DOMAIN rows
      /\ ~Refused(rows, call[t].changes) /\ rows' = Flushed(rows, call[t].changes)
  BY DEF Touched, HubInv, RowsTyped, Committed
<1>2. \A c \in call[t].changes : ChangeFits(t, c)
  BY CallHeld DEF Committed, WorkFits
<1>3. CASE i \in DOMAIN rows'[tb]
  <2>1. rows'[tb][i] # rows[tb][i]
    BY <1>3 DEF Touched
  <2> QED
    BY <1>1, <1>2, <1>3, <2>1, FlushedRow
<1>4. CASE i \notin DOMAIN rows'[tb]
  <2>1. PICK c \in call[t].changes : c.table = tb /\ c.id = i /\ c.new = None
    BY <1>1, <1>4, FlushedDomain
  <2> QED
    BY <1>2, <1>4, <2>1 DEF ChangeFits, Fits
<1> QED
  BY <1>3, <1>4

\* An admin's commit adds to the admin's company alone.
LEMMA AddedAtHome ==
    ASSUME HubInv, NEW t \in Threads, Committed(t), ~Actor[t].override
    PROVE  /\ \A tb \in Tables : \A i \in DOMAIN rows'[tb] \ DOMAIN rows[tb] :
                \E c \in call[t].changes :
                   /\ ChangeFits(t, c) /\ c.table = tb /\ c.was = None /\ c.new = rows'[tb][i]
                   /\ rows'[tb][i].company = Actor[t].company
           /\ \A l \in logs' \ logs : l.company = Actor[t].company
           /\ \A e \in trail' \ trail : e.company = Actor[t].company
<1>1. WorkFits(t, call[t], uuid)
  BY CallHeld DEF Committed
<1>2. ASSUME NEW tb \in Tables, NEW i \in DOMAIN rows'[tb] \ DOMAIN rows[tb]
      PROVE  \E c \in call[t].changes :
                /\ ChangeFits(t, c) /\ c.table = tb /\ c.was = None /\ c.new = rows'[tb][i]
                /\ rows'[tb][i].company = Actor[t].company
  <2>1. PICK c \in call[t].changes : /\ c.table = tb /\ c.id = i /\ c.was = None
                                     /\ rows'[tb][i] = c.new
    BY RowAfter
  <2> QED
    BY <1>1, <2>1 DEF WorkFits, ChangeFits, Fits, IsOf
<1>3. \A l \in logs' \ logs : l.company = Actor[t].company
  BY <1>1 DEF Committed, WorkFits
<1>4. \A e \in trail' \ trail : e.company = Actor[t].company
  BY <1>1 DEF Committed, WorkFits, EventFits
<1> QED
  BY <1>2, <1>3, <1>4

\* A call of a user without override scope leaves the rows of other companies alone.
THEOREM AdminsKeepToTheirCompany == Spec => AdminsStayHome
<1> DEFINE Stays(t) ==
      call[t] # None /\ call'[t] # call[t] /\ restarts' = restarts /\ ~Actor[t].override =>
        /\ \A tb \in Tables : \A i \in Touched(rows[tb], rows'[tb]) :
             rows[tb][i].company = Actor[t].company \/
               /\ tb \in {"system", "catalog", "mapping"}
               /\ \E c \in call[t].changes : /\ c.table = tb /\ c.id = i
                                             /\ c.was.company = Actor[t].company
        /\ \A tb \in Tables : \A i \in DOMAIN rows'[tb] \ DOMAIN rows[tb] :
             rows'[tb][i].company = Actor[t].company
        /\ \A l \in logs' \ logs : l.company = Actor[t].company
<1>1. ASSUME HubInv, restarts \in Nat, [Next]_vars, NEW t \in Threads
      PROVE  Stays(t)
  <2> SUFFICES ASSUME call[t] # None, call'[t] # call[t], restarts' = restarts, ~Actor[t].override
               PROVE  /\ \A tb \in Tables : \A i \in Touched(rows[tb], rows'[tb]) :
                           rows[tb][i].company = Actor[t].company \/
                             /\ tb \in {"system", "catalog", "mapping"}
                             /\ \E c \in call[t].changes : /\ c.table = tb /\ c.id = i
                                                           /\ c.was.company = Actor[t].company
                      /\ \A tb \in Tables : \A i \in DOMAIN rows'[tb] \ DOMAIN rows[tb] :
                           rows'[tb][i].company = Actor[t].company
                      /\ \A l \in logs' \ logs : l.company = Actor[t].company
    OBVIOUS
  <2>1. Commit(t)
    BY <1>1, OnlyCommits
  <2>2. CASE Refused(rows, call[t].changes)
    BY <2>1, <2>2 DEF Commit, Touched
  <2>3. CASE ~Refused(rows, call[t].changes)
    <3>1. Committed(t)
      BY <2>1, <2>3 DEF Commit, Committed
    <3>2. ASSUME NEW tb \in Tables, NEW i \in Touched(rows[tb], rows'[tb])
          PROVE  \/ rows[tb][i].company = Actor[t].company
                 \/ /\ tb \in {"system", "catalog", "mapping"}
                    /\ \E c \in call[t].changes : /\ c.table = tb /\ c.id = i
                                                  /\ c.was.company = Actor[t].company
      <4>1. PICK c \in call[t].changes : /\ ChangeFits(t, c) /\ c.table = tb /\ c.id = i
                                         /\ c.was # None
        BY <1>1, <3>1, TouchedIsChanged
      <4>2. c.was.company = Actor[t].company
        BY <4>1 DEF ChangeFits, IsOf
      <4>3. i \in DOMAIN rows[tb]
        BY DEF Touched
      <4>4. tb \notin Free => rows[tb][i].company = c.was.company
        BY <4>1, <4>3 DEF ChangeFits, Stands, SameHome
      <4> QED
        BY <4>1, <4>2, <4>4 DEF Free
    <3>3. \A tb \in Tables : \A i \in DOMAIN rows'[tb] \ DOMAIN rows[tb] :
            rows'[tb][i].company = Actor[t].company
      BY <1>1, <3>1, AddedAtHome
    <3>4. \A l \in logs' \ logs : l.company = Actor[t].company
      BY <1>1, <3>1, AddedAtHome
    <3> QED
      BY <3>2, <3>3, <3>4
  <2> QED
    BY <2>2, <2>3
<1>2. HubInv /\ restarts \in Nat /\ [Next]_vars => \A t \in Threads : Stays(t)
  BY <1>1
<1>3. Spec => [][\A t \in Threads : Stays(t)]_vars
  <2> HIDE DEF Stays
  <2> QED
    BY <1>2, HubInvHolds, RestartsAreCounted, PTL DEF Spec
<1> QED
  BY <1>3 DEF AdminsStayHome

-----------------------------------------------------------------------------
(* What the pages of other companies show.                                 *)

\* Rows of a company are the same before and after a step, and so are its entries.
SameRows(company) ==
    /\ \A tb \in Tables : \A i :
         /\ i \in DOMAIN rows'[tb] /\ rows'[tb][i].company = company <=>
              i \in DOMAIN rows[tb] /\ rows[tb][i].company = company
         /\ i \in DOMAIN rows[tb] /\ rows[tb][i].company = company => rows'[tb][i] = rows[tb][i]
    /\ {l \in logs' : l.company = company} = {l \in logs : l.company = company}
    /\ {e \in trail' : e.company = company} = {e \in trail : e.company = company}

\* And so are the details of the systems it has, of whatever company they are.
SameDetails(company) ==
    \A i \in DOMAIN rows.system : rows.system[i].company = company =>
      \A j : /\ j \in DOMAIN rows.metadata /\ rows.metadata[j].category = "details"
                /\ rows.metadata[j].key = <<"system", i>>
                => j \in DOMAIN rows'.metadata /\ rows'.metadata[j] = rows.metadata[j]
             /\ j \in DOMAIN rows'.metadata /\ rows'.metadata[j].category = "details"
                /\ rows'.metadata[j].key = <<"system", i>>
                => j \in DOMAIN rows.metadata /\ rows'.metadata[j] = rows.metadata[j]

\* A row that has not moved since the call read it is the user's, and stays that.
LEMMA TouchedAtHome ==
    ASSUME HubInv, NEW t \in Threads, Committed(t), ~Actor[t].override, ~MovedSince(call[t]),
           NEW tb \in Tables, NEW i \in Touched(rows[tb], rows'[tb])
    PROVE  /\ rows[tb][i].company = Actor[t].company
           /\ i \in DOMAIN rows'[tb] => rows'[tb][i].company = Actor[t].company
<1>1. PICK c \in call[t].changes :
        /\ ChangeFits(t, c) /\ c.table = tb /\ c.id = i /\ c.was # None
        /\ i \in DOMAIN rows'[tb] =>
             c.new # None /\ rows'[tb][i] = Merged(rows[tb][i], c.was, c.new)
  BY TouchedIsChanged
<1>2. i \in DOMAIN rows[tb] /\ rows[tb][i] \in RowOf[tb]
  BY DEF Touched, HubInv, RowsTyped
<1>3. rows[tb][i].company = c.was.company /\ c.was.company = Actor[t].company
  BY <1>1, <1>2 DEF MovedSince, ChangeFits, IsOf
<1>4. ASSUME i \in DOMAIN rows'[tb]
      PROVE  rows'[tb][i].company = Actor[t].company
  <2>1. c.was \in RowOf[tb] /\ c.new \in RowOf[tb] /\ c.new.company = Actor[t].company
    BY <1>1, <1>4 DEF ChangeFits, Fits, IsOf
  <2> QED
    BY <1>1, <1>2, <1>3, <1>4, <2>1, MergedFits
<1> QED
  BY <1>3, <1>4

\* A commit without an override leaves the rows of every other company as they
\* are, unless a row it has in hand was moved since it was read.
LEMMA RowsOfOthersStay ==
    ASSUME HubInv, NEW t \in Threads, Committed(t), ~Actor[t].override, ~MovedSince(call[t]),
           NEW company, company # Actor[t].company
    PROVE  SameRows(company)
<1>1. ASSUME NEW tb \in Tables, NEW i
      PROVE  /\ i \in DOMAIN rows'[tb] /\ rows'[tb][i].company = company <=>
                  i \in DOMAIN rows[tb] /\ rows[tb][i].company = company
             /\ i \in DOMAIN rows[tb] /\ rows[tb][i].company = company => rows'[tb][i] = rows[tb][i]
  <2>1. CASE i \in Touched(rows[tb], rows'[tb])
    BY <2>1, TouchedAtHome
  <2>2. CASE i \notin Touched(rows[tb], rows'[tb]) /\ i \in DOMAIN rows[tb]
    BY <2>2 DEF Touched
  <2>3. CASE i \notin DOMAIN rows[tb]
    BY <2>3, AddedAtHome
  <2> QED
    BY <2>1, <2>2, <2>3
<1>2. logs \subseteq logs' /\ trail \subseteq trail'
  BY DEF Committed
<1>3. (\A l \in logs' \ logs : l.company # company) /\ \A e \in trail' \ trail : e.company # company
  BY AddedAtHome
<1>4. {l \in logs' : l.company = company} = {l \in logs : l.company = company}
  BY <1>2, <1>3
<1>5. {e \in trail' : e.company = company} = {e \in trail : e.company = company}
  BY <1>2, <1>3
<1> QED
  BY <1>1, <1>4, <1>5 DEF SameRows

\* The same of the details shown with the systems of another company.
LEMMA DetailsOfOthersStay ==
    ASSUME HubInv, NEW t \in Threads, Committed(t), ~Actor[t].override, ~MovedSince(call[t]),
           NEW company, company # Actor[t].company
    PROVE  SameDetails(company)
<1> SUFFICES ASSUME NEW i \in DOMAIN rows.system, rows.system[i].company = company, NEW j
             PROVE  /\ j \in DOMAIN rows.metadata /\ rows.metadata[j].category = "details"
                       /\ rows.metadata[j].key = <<"system", i>>
                       => j \in DOMAIN rows'.metadata /\ rows'.metadata[j] = rows.metadata[j]
                    /\ j \in DOMAIN rows'.metadata /\ rows'.metadata[j].category = "details"
                       /\ rows'.metadata[j].key = <<"system", i>>
                       => j \in DOMAIN rows.metadata /\ rows'.metadata[j] = rows.metadata[j]
  BY DEF SameDetails
<1>m. "metadata" \in Tables \ Free
  BY DEF Tables, Free
<1>1. ASSUME NEW c \in call[t].changes, ChangeFits(t, c), c.table = "metadata", c.new # None,
             c.new.category = "details", c.new.key = <<"system", i>>
      PROVE  FALSE
  <2>1. c.new.company = Actor[t].company
    BY <1>1 DEF ChangeFits, IsOf
  <2> QED
    BY <1>1, <2>1 DEF MovedSince
<1>2. ASSUME j \in Touched(rows["metadata"], rows'["metadata"])
      PROVE  /\ j \in DOMAIN rows.metadata /\ j \in DOMAIN rows'.metadata
             /\ ~(rows.metadata[j].category = "details" /\ rows.metadata[j].key = <<"system", i>>)
             /\ ~(rows'.metadata[j].category = "details" /\ rows'.metadata[j].key = <<"system", i>>)
  <2>1. j \in DOMAIN rows.metadata /\ j \in DOMAIN rows'.metadata
    BY <1>2, DomainAfter DEF Touched
  <2>2. PICK c \in call[t].changes :
          ChangeFits(t, c) /\ c.table = "metadata" /\ c.id = j /\ c.was # None /\ c.new # None
    BY <1>m, <1>2, <2>1, TouchedIsChanged
  <2>3. SameHome("metadata", rows["metadata"][j], c.was) /\ SameHome("metadata", c.was, c.new)
    BY <1>m, <2>1, <2>2 DEF ChangeFits, Stands, Keeps
  <2>4. SameHome("metadata", rows'["metadata"][j], rows["metadata"][j])
    BY <1>m, <2>1, RowAfter
  <2>5. /\ rows.metadata[j].category = c.new.category /\ rows.metadata[j].key = c.new.key
        /\ rows'.metadata[j].category = c.new.category /\ rows'.metadata[j].key = c.new.key
    BY <2>3, <2>4 DEF SameHome
  <2> QED
    BY <1>1, <2>1, <2>2, <2>5
<1>3. ASSUME j \in DOMAIN rows'.metadata, j \notin DOMAIN rows.metadata
      PROVE  ~(rows'.metadata[j].category = "details" /\ rows'.metadata[j].key = <<"system", i>>)
  <2>1. PICK c \in call[t].changes : /\ ChangeFits(t, c) /\ c.table = "metadata" /\ c.was = None
                                     /\ c.new = rows'["metadata"][j]
    BY <1>m, <1>3, AddedAtHome
  <2>2. c.new # None
    BY <2>1 DEF ChangeFits, Fits
  <2> QED
    BY <1>1, <2>1, <2>2
<1>4. CASE j \notin Touched(rows["metadata"], rows'["metadata"])
  BY <1>3, <1>4 DEF Touched
<1> QED
  BY <1>2, <1>4

\* A page of an admin shows rows of the company, and details of its systems.
LEMMA PagesShowTheCompany ==
    ASSUME NEW company \in Companies, SameRows(company), SameDetails(company),
           NEW a, a = [company |-> company, override |-> FALSE]
    PROVE  Pages(a)' = Pages(a)
<1>a. a.company = company /\ ~a.override
  OBVIOUS
<1>t. /\ "saved" \in Tables /\ "system" \in Tables /\ "catalog" \in Tables /\ "mapping" \in Tables
      /\ "pending" \in Tables /\ "metadata" \in Tables
  BY DEF Tables
<1>1. ASSUME NEW tb \in Tables
      PROVE  /\ Listed(a, tb)' = Listed(a, tb)
             /\ \A i \in DOMAIN Listed(a, tb) : rows'[tb][i] = rows[tb][i]
  <2> DEFINE seen == {i \in DOMAIN rows[tb] : rows[tb][i].company = company}
             next == {i \in DOMAIN rows'[tb] : rows'[tb][i].company = company}
  <2>1. Listed(a, tb) = [i \in seen |-> rows[tb][i]] /\ Listed(a, tb)' = [i \in next |-> rows'[tb][i]]
    BY <1>a DEF Listed, Sees
  <2>2. next = seen /\ \A i \in seen : rows'[tb][i] = rows[tb][i]
    BY DEF SameRows
  <2> HIDE DEF seen, next
  <2> QED
    BY <2>1, <2>2
<1>2. \A kind : Logged(a, kind)' = Logged(a, kind)
  BY <1>a DEF Logged, Sees, SameRows
<1>3. AuditTrail(a)' = AuditTrail(a)
  BY <1>a DEF AuditTrail, Sees, SameRows
<1>4. \A category :
        /\ MetadataOf(category, company)' = MetadataOf(category, company)
        /\ \A i \in MetadataOf(category, company) : rows'.metadata[i] = rows.metadata[i]
  BY <1>t DEF MetadataOf, SameRows
<1>5. ModelView(a)' = ModelView(a)
  <2>1. {<<i, rows'.saved[i].selected>> : i \in DOMAIN Listed(a, "saved")'} =
          {<<i, rows.saved[i].selected>> : i \in DOMAIN Listed(a, "saved")}
    BY <1>t, <1>1
  <2> QED
    BY <1>2, <2>1 DEF ModelView
<1>6. ConnectedSystems(a)' = ConnectedSystems(a)
  <2> DEFINE ids == DOMAIN Listed(a, "system")
             Of(meta) == {r \in {meta[i] : i \in DOMAIN meta} :
                            r.category = "details" /\ r.key \in {<<"system", i>> : i \in ids}}
  <2>1. DetailsOf(DOMAIN Listed(a, "system"))' = Of(rows'.metadata)
    BY <1>t, <1>1 DEF DetailsOf
  <2>2. \A i \in ids : i \in DOMAIN rows.system /\ rows.system[i].company = company
    BY <1>a DEF Listed, Sees
  <2> HIDE DEF ids
  <2>3. Of(rows'.metadata) = Of(rows.metadata)
    <3>1. ASSUME NEW r \in Of(rows'.metadata)
          PROVE  r \in Of(rows.metadata)
      <4>1. PICK j \in DOMAIN rows'.metadata : r = rows'.metadata[j]
        BY <3>1
      <4>2. PICK i \in ids : r.key = <<"system", i>>
        BY <3>1
      <4>3. j \in DOMAIN rows.metadata /\ rows'.metadata[j] = rows.metadata[j]
        BY <2>2, <3>1, <4>1, <4>2 DEF SameDetails
      <4> QED
        BY <3>1, <4>1, <4>3
    <3>2. ASSUME NEW r \in Of(rows.metadata)
          PROVE  r \in Of(rows'.metadata)
      <4>1. PICK j \in DOMAIN rows.metadata : r = rows.metadata[j]
        BY <3>2
      <4>2. PICK i \in ids : r.key = <<"system", i>>
        BY <3>2
      <4>3. j \in DOMAIN rows'.metadata /\ rows'.metadata[j] = rows.metadata[j]
        BY <2>2, <3>2, <4>1, <4>2 DEF SameDetails
      <4> QED
        BY <3>2, <4>1, <4>3
    <3> QED
      BY <3>1, <3>2
  <2>4. DetailsOf(DOMAIN Listed(a, "system")) = Of(rows.metadata)
    BY DEF DetailsOf, ids
  <2> QED
    BY <1>t, <1>1, <2>1, <2>3, <2>4 DEF ConnectedSystems
<1>7. DataQuality(a)' = DataQuality(a) /\ Lineage(a)' = Lineage(a)
  BY <1>t, <1>1 DEF DataQuality, Lineage
<1>8. Uploads(a)' = Uploads(a)
  <2>1. {d \in Companies : a.override \/ d = a.company} = {company}
    BY <1>a
  <2>2. /\ Uploads(a) = {rows.metadata[i] : i \in MetadataOf("upload", company)}
        /\ Uploads(a)' = {rows'.metadata[i] : i \in MetadataOf("upload", company)'}
    BY <2>1 DEF Uploads
  <2>3. {rows'.metadata[i] : i \in MetadataOf("upload", company)'} =
          {rows.metadata[i] : i \in MetadataOf("upload", company)}
    BY <1>4
  <2> QED
    BY <2>2, <2>3
<1>9. Readiness(a)' = Readiness(a)
  <2>1. {<<rows'.metadata[i].key, rows'.metadata[i].value>> : i \in MetadataOf("readiness", company)'} =
          {<<rows.metadata[i].key, rows.metadata[i].value>> : i \in MetadataOf("readiness", company)}
    BY <1>4
  <2> QED
    BY <1>a, <1>7, <2>1 DEF Readiness
<1>10. Computed(a)' = Computed(a)
  <2>1. {i \in DOMAIN Listed(a, "pending")' : rows'.pending[i].approval_status = "Pending"} =
          {i \in DOMAIN Listed(a, "pending") : rows.pending[i].approval_status = "Pending"}
    BY <1>t, <1>1
  <2> QED
    BY <1>t, <1>1, <2>1 DEF Computed, OpenApprovals
<1>11. Footprint(a)' = Footprint(a)
  <2>1. {rows'.metadata[i].value : i \in MetadataOf("footprint", company)'} =
          {rows.metadata[i].value : i \in MetadataOf("footprint", company)}
    BY <1>4
  <2> QED
    BY <1>a, <1>10, <2>1 DEF Footprint
<1>12. Dashboard(a)' = Dashboard(a)
  BY <1>t, <1>1, <1>7, <1>9, <1>11 DEF Dashboard
<1>13. /\ SavedConnections(a)' = SavedConnections(a) /\ Catalog(a)' = Catalog(a)
       /\ MappingRules(a)' = MappingRules(a) /\ PendingUpdates(a)' = PendingUpdates(a)
  BY <1>t, <1>1 DEF SavedConnections, Catalog, MappingRules, PendingUpdates
<1>14. RefreshHistory(a)' = RefreshHistory(a) /\ ErrorLog(a)' = ErrorLog(a)
  BY <1>2 DEF RefreshHistory, ErrorLog
<1> QED
  BY <1>3, <1>5, <1>6, <1>7, <1>8, <1>12, <1>13, <1>14 DEF Pages

\* Whatever an admin does, and however late, no page of another company changes.
THEOREM NoPageOfOthersChanges == Spec => ViewsDoNotInterfere
<1> DEFINE Untold(t) ==
      /\ call[t] # None /\ call'[t] # call[t] /\ restarts' = restarts
      /\ ~Actor[t].override /\ ~MovedSince(call[t])
      => \A c \in Companies \ {Actor[t].company} :
            LET a == [company |-> c, override |-> FALSE]
            IN Pages(a)' = Pages(a)
<1>1. ASSUME HubInv, restarts \in Nat, [Next]_vars, NEW t \in Threads
      PROVE  Untold(t)
  <2> SUFFICES ASSUME call[t] # None, call'[t] # call[t], restarts' = restarts,
                      ~Actor[t].override, ~MovedSince(call[t]),
                      NEW c \in Companies \ {Actor[t].company},
                      NEW a, a = [company |-> c, override |-> FALSE]
               PROVE  Pages(a)' = Pages(a)
    OBVIOUS
  <2>1. Commit(t)
    BY <1>1, OnlyCommits
  <2>2. CASE Refused(rows, call[t].changes)
    <3>1. UNCHANGED <<rows, trail, logs>>
      BY <2>1, <2>2 DEF Commit
    <3>2. SameRows(c) /\ SameDetails(c)
      BY <3>1 DEF SameRows, SameDetails
    <3> QED
      BY <3>2, PagesShowTheCompany
  <2>3. CASE ~Refused(rows, call[t].changes)
    <3>1. Committed(t)
      BY <2>1, <2>3 DEF Commit, Committed
    <3>2. SameRows(c) /\ SameDetails(c)
      BY <1>1, <3>1, RowsOfOthersStay, DetailsOfOthersStay
    <3> QED
      BY <3>2, PagesShowTheCompany
  <2> QED
    BY <2>2, <2>3
<1>2. HubInv /\ restarts \in Nat /\ [Next]_vars => \A t \in Threads : Untold(t)
  BY <1>1
<1>3. Spec => [][\A t \in Threads : Untold(t)]_vars
  <2> HIDE DEF Untold
  <2> QED
    BY <1>2, HubInvHolds, RestartsAreCounted, PTL DEF Spec
<1> QED
  BY <1>3 DEF ViewsDoNotInterfere

-----------------------------------------------------------------------------
(* Overrides of readiness.                                                 *)

\* The overrides of an area on file, those a call is about to add, and the threads
\* that are about to add some.
Overriding(company, area) ==
    {i \in DOMAIN rows.metadata : /\ rows.metadata[i].category = "readiness"
                                  /\ rows.metadata[i].company = company
                                  /\ rows.metadata[i].key = <<"area", area>>}

Adds(w, company, area) ==
    {c \in w.changes : /\ c.table = "metadata" /\ c.was = None
                       /\ c.new.category = "readiness" /\ c.new.company = company
                       /\ c.new.key = <<"area", area>>}

Adding(company, area) == {t \in Threads : call[t] # None /\ Adds(call[t], company, area) # {}}

\* What one request may hold.
Few(added) == IsFiniteSet(added) /\ Cardinality(added) <= MaxItems

\* The overrides on file, and those that the threads may still add, are few.
Counted(on, adding) ==
    /\ IsFiniteSet(on)
    /\ Cardinality(on) + MaxItems * Cardinality(adding) <= MaxItems * Cardinality(Threads)

\* A call adds as many as its request has items, and only when it has found none:
\* so the ones on file and the ones that may still come are never more than a
\* request of each thread may hold.
FewOverrides ==
    /\ \A company \in Companies, area \in Areas :
         Counted(Overriding(company, area), Adding(company, area))
    /\ \A t \in Threads : call[t] # None =>
         \A company \in Companies, area \in Areas : Few(Adds(call[t], company, area))

\* A call begins that adds no override where one is on file.
Begins(t) ==
    \E w : /\ Begin(t, w)
           /\ \A company \in Companies, area \in Areas :
                /\ Few(Adds(w, company, area))
                /\ Adds(w, company, area) = {} \/ Overriding(company, area) = {}

\* To add none is to add few.
LEMMA NoneAreFew == Few({})
BY DataHubAssumption, FS_EmptySet DEF Few

\* A call that has no metadata in hand adds no override.
LEMMA OtherTablesBegin ==
    ASSUME NEW t, NEW w, Begin(t, w), \A c \in w.changes : c.table # "metadata"
    PROVE  Begins(t)
<1>1. \A company, area : Adds(w, company, area) = {}
  BY DEF Adds
<1> QED
  BY <1>1, NoneAreFew DEF Begins

\* An update of a row of another table adds none.
LEMMA UpdateOnlyBegins ==
    ASSUME NEW t, NEW tb, tb # "metadata", NEW i, NEW new, NEW e, NEW l,
           Update(t, tb, i, new, InHand({}, e, l, None))
    PROVE  Begins(t)
<1> DEFINE c == Change(tb, i, rows[tb][i], new)
           w == InHand({c}, e, l, None)
<1>1. Begin(t, w)
  BY UpdateBegins
<1>2. \A d \in w.changes : d.table # "metadata"
  BY InHandParts DEF Change
<1> HIDE DEF w
<1> QED
  BY <1>1, <1>2, OtherTablesBegin

\* Nor does a new row of another table.
LEMMA InsertBegins ==
    ASSUME NEW t, NEW tb, tb # "metadata", NEW new, NEW e, NEW d,
           Insert(t, tb, new, InHand({}, e, {}, d))
    PROVE  Begins(t)
<1> DEFINE c == Change(tb, Fresh, None, new)
           w == InHand({c}, e, {}, d)
<1>1. Begin(t, [InHand({}, e, {}, d) EXCEPT !.changes = {c}])
  BY DEF Insert
<1>2. [InHand({}, e, {}, d) EXCEPT !.changes = {c}] = w
  <2> HIDE DEF c
  <2> QED
    BY DEF InHand
<1>3. \A x \in w.changes : x.table # "metadata"
  BY InHandParts DEF Change
<1> HIDE DEF w, c
<1> QED
  BY <1>1, <1>2, <1>3, OtherTablesBegin

\* Nor does a call that only writes to the audit or to the logs.
LEMMA AddBegins ==
    ASSUME NEW t, NEW e, NEW l, Add(t, InHand({}, e, l, None))
    PROVE  Begins(t)
<1> DEFINE w == InHand({}, e, l, None)
<1>1. Begin(t, w) /\ w.changes = {}
  BY InHandParts DEF Add
<1> HIDE DEF w
<1> QED
  BY <1>1, OtherTablesBegin

\* upsert_metadata keeps the category, the company and the key, and adds a row only
\* where it found none.
LEMMA UpsertAdds ==
    ASSUME NEW category, NEW company, NEW key, NEW id, NEW value,
           NEW c \in Upserts(category, company, key, id, value)
    PROVE  /\ c.table = "metadata" /\ c.new.category = category
           /\ c.new.company = company /\ c.new.key = key
           /\ c.was = None =>
                \/ \E i \in DOMAIN rows.metadata : rows.metadata[i] = None
                \/ \A i \in DOMAIN rows.metadata :
                     ~ (/\ rows.metadata[i].category = category
                        /\ rows.metadata[i].company = company /\ rows.metadata[i].key = key)
BY DEF Upserts, Change

\* Nor do metadata of another category.
LEMMA MetadataBegins ==
    ASSUME NEW t, NEW changes, Begin(t, [Work EXCEPT !.changes = changes]),
           \A c \in changes : c.table = "metadata" => c.new.category # "readiness"
    PROVE  Begins(t)
<1> DEFINE w == InHand(changes, None, {}, None)
<1>1. Begin(t, w)
  BY Spelled
<1>2. w.changes = changes
  BY InHandParts
<1> HIDE DEF w
<1>3. \A company, area : Adds(w, company, area) = {}
  BY <1>2 DEF Adds
<1> QED
  BY <1>1, <1>3, NoneAreFew DEF Begins

\* A request of n items adds n overrides at most.
LEMMA ItemsAreFew ==
    ASSUME NEW n \in 0..MaxItems, NEW done, NEW added \in SUBSET {done[k] : k \in 1..n}
    PROVE  Few(added)
<1> DEFINE changes == {done[k] : k \in 1..n}
           f == [k \in 1..n |-> done[k]]
<1>1. n \in Nat /\ MaxItems \in Nat /\ n <= MaxItems
  BY DataHubAssumption
<1>2. IsFiniteSet(1..n) /\ Cardinality(1..n) <= MaxItems /\ Cardinality(1..n) \in Nat
  <2>1. 1 \in Int /\ n \in Int
    BY <1>1
  <2>2. IsFiniteSet(1..n) /\ Cardinality(1..n) = IF 1 > n THEN 0 ELSE n - 1 + 1
    BY <2>1, FS_Interval
  <2> QED
    BY <1>1, <2>2
<1>3. f \in Surjection(1..n, changes)
  BY DEF Surjection
<1>4. added \in SUBSET changes
  OBVIOUS
<1> HIDE DEF changes, f
<1>5. IsFiniteSet(changes) /\ Cardinality(changes) <= Cardinality(1..n)
  BY <1>2, <1>3, FS_Surjection
<1>6. IsFiniteSet(added) /\ Cardinality(added) <= Cardinality(changes)
  BY <1>4, <1>5, FS_Subset
<1>7. Cardinality(added) \in Nat /\ Cardinality(changes) \in Nat
  BY <1>5, <1>6, FS_CardinalityType
<1> QED
  BY <1>1, <1>2, <1>5, <1>6, <1>7 DEF Few

\* update_readiness adds overrides for an area when it finds none, and as many as
\* the request has items.
LEMMA ReadinessBegins ==
    ASSUME HubInv, NEW t \in Threads, UpdateReadiness(t)
    PROVE  Begins(t)
<1>p. PICK n \in 0..MaxItems, v \in Values : \E items \in [1..n -> Areas] : Asks(t, n, v, items)
  BY UpdateReadinessAsks
<1>1. PICK items \in [1..n -> Areas] : Asks(t, n, v, items)
  BY <1>p
<1>2. PICK done :
        /\ \A k \in 1..n : done[k] \in Upserts("readiness", Actor[t].company,
                                              <<"area", items[k]>>, <<"uuid", uuid + k>>, v)
        /\ Begin(t, [Work EXCEPT !.changes = {done[k] : k \in 1..n}])
  BY <1>1 DEF Asks
<1> DEFINE changes == {done[k] : k \in 1..n}
           w == InHand(changes, None, {}, None)
<1>3. \A c \in changes : \A company, area :
        c.new.company = company /\ c.new.key = <<"area", area>> /\ c.was = None
        => Overriding(company, area) = {}
  <2>1. "metadata" \in Tables /\ \A i \in DOMAIN rows.metadata : rows.metadata[i] # None
    BY TableTypes DEF HubInv, RowsTyped, Tables
  <2>2. ASSUME NEW named, NEW id,
               NEW c \in Upserts("readiness", Actor[t].company, <<"area", named>>, id, v),
               NEW company, NEW area, c.new.company = company, c.new.key = <<"area", area>>,
               c.was = None
        PROVE  Overriding(company, area) = {}
    <3>1. /\ c.new.company = Actor[t].company /\ c.new.key = <<"area", named>>
          /\ \A i \in DOMAIN rows.metadata :
               ~ (/\ rows.metadata[i].category = "readiness"
                  /\ rows.metadata[i].company = Actor[t].company
                  /\ rows.metadata[i].key = <<"area", named>>)
      BY <2>1, <2>2, UpsertAdds
    <3> QED
      BY <2>2, <3>1 DEF Overriding
  <2> QED
    BY <1>2, <2>2
<1>4. Begin(t, w) /\ w.changes = changes
  <2>1. Begin(t, [Work EXCEPT !.changes = changes])
    BY <1>2
  <2> HIDE DEF changes
  <2>2. Begin(t, w)
    BY <2>1, Spelled
  <2>3. w.changes = changes
    BY InHandParts
  <2> QED
    BY <2>2, <2>3
<1>5. \A added \in SUBSET changes : Few(added)
  BY ItemsAreFew
<1> HIDE DEF w, changes
<1>6. ASSUME NEW company, NEW area
      PROVE  /\ Few(Adds(w, company, area))
             /\ Adds(w, company, area) = {} \/ Overriding(company, area) = {}
  BY <1>3, <1>4, <1>5 DEF Adds
<1> QED
  BY <1>4, <1>6 DEF Begins

\* Every step begins a call so, commits one, or is the server's.
LEMMA OneStepBegins ==
    ASSUME HubInv, [Next]_vars
    PROVE  \/ \E t \in Threads : Begins(t) \/ Commit(t)
           \/ Restart
           \/ UNCHANGED vars
<1>w. Work = InHand({}, None, {}, None)
  BY Spelled
<1>1. ASSUME NEW t \in Threads, CreateConnection(t) \/ DeleteConnection(t)
      PROVE  Begins(t)
  <2>1. ASSUME NEW company, NEW module, NEW e,
               Insert(t, "saved", NewConnection(company, module), [Work EXCEPT !.event = e])
        PROVE  Begins(t)
    <3>1. Insert(t, "saved", NewConnection(company, module), InHand({}, e, {}, None))
      BY <2>1, Spelled
    <3> QED
      BY <3>1, InsertBegins
  <2>2. ASSUME NEW i, NEW e, Update(t, "saved", i, None, [Work EXCEPT !.event = e])
        PROVE  Begins(t)
    <3>1. Update(t, "saved", i, None, InHand({}, e, {}, None))
      BY <2>2, Spelled
    <3> QED
      BY <3>1, UpdateOnlyBegins
  <2> QED
    BY <1>1, <2>1, <2>2 DEF CreateConnection, DeleteConnection, Delete
<1>2. ASSUME NEW t \in Threads, SaveSelection(t) \/ RunRefresh(t) \/ ValidateMapping(t)
      PROVE  Begins(t)
  <2>1. ASSUME NEW i, NEW new, NEW e, Update(t, "saved", i, new, [Work EXCEPT !.event = e])
        PROVE  Begins(t)
    <3>1. Update(t, "saved", i, new, InHand({}, e, {}, None))
      BY <2>1, Spelled
    <3> QED
      BY <3>1, UpdateOnlyBegins
  <2>2. ASSUME NEW i, NEW new, NEW e, NEW l,
               Update(t, "saved", i, new, [Work EXCEPT !.event = e, !.logs = l])
        PROVE  Begins(t)
    <3>1. Update(t, "saved", i, new, InHand({}, e, l, None))
      BY <2>2, Spelled
    <3> QED
      BY <3>1, UpdateOnlyBegins
  <2>3. ASSUME NEW e, Add(t, [Work EXCEPT !.event = e])
        PROVE  Begins(t)
    <3>1. Add(t, InHand({}, e, {}, None))
      BY <2>3, Spelled
    <3> QED
      BY <3>1, AddBegins
  <2>4. CASE SaveSelection(t)
    BY <2>1, <2>4 DEF SaveSelection
  <2>5. CASE RunRefresh(t)
    BY <2>2, <2>5 DEF RunRefresh
  <2>6. CASE ValidateMapping(t)
    <3>1. PICK i \in 0..uuid, module \in Modules, mappings \in Mappings,
               asked \in Companies \cup {None} :
            LET work == [Work EXCEPT !.event = Event("validate_mapping", i, Resolved(t, asked))] IN
            IF i \in Reachable(t, "saved")
            THEN Update(t, "saved", i, Mapped(rows.saved[i], module, mappings), work)
            ELSE Add(t, work)
      BY <2>6 DEF ValidateMapping
    <3> QED
      BY <2>1, <2>3, <3>1
  <2> QED
    BY <1>2, <2>4, <2>5, <2>6
<1>3. ASSUME NEW t \in Threads, TestConnection(t) \/ TransformPreview(t) \/ CreateRelationship(t)
      PROVE  Begins(t)
  <2>1. ASSUME NEW e, NEW l, Add(t, [Work EXCEPT !.event = e, !.logs = l])
        PROVE  Begins(t)
    <3>1. Add(t, InHand({}, e, l, None))
      BY <2>1, Spelled
    <3> QED
      BY <3>1, AddBegins
  <2> QED
    BY <1>3, <2>1 DEF TestConnection, TransformPreview, CreateRelationship
<1>4. ASSUME NEW t \in Threads, CreateSystem(t) \/ CreateCatalogEntry(t) \/ CreateMapping(t)
      PROVE  Begins(t)
  <2>1. ASSUME NEW tb, tb # "metadata", NEW new, NEW d, Insert(t, tb, new, InHand({}, None, {}, d))
        PROVE  Begins(t)
    BY <2>1, InsertBegins
  <2>2. CASE CreateSystem(t)
    <3>1. PICK asked \in Companies \cup {None}, v \in Values, details \in Values \cup {None} :
            Insert(t, "system", [company |-> Resolved(t, asked), value |-> v],
                   [Work EXCEPT !.details = details])
      BY <2>2 DEF CreateSystem
    <3>2. Insert(t, "system", [company |-> Resolved(t, asked), value |-> v], InHand({}, None, {}, details))
      BY <3>1, Spelled
    <3> QED
      BY <2>1, <3>2
  <2>3. CASE CreateCatalogEntry(t) \/ CreateMapping(t)
    BY <1>w, <2>1, <2>3 DEF CreateCatalogEntry, CreateMapping
  <2> QED
    BY <1>4, <2>2, <2>3
<1>5. ASSUME NEW t \in Threads,
             \/ UpdateCatalogEntry(t) \/ UpdateMapping(t) \/ DecidePending(t)
             \/ DeleteSystem(t) \/ DeleteCatalogEntry(t) \/ DeleteMapping(t)
      PROVE  Begins(t)
  <2>1. ASSUME NEW tb, tb # "metadata", NEW i, NEW new, Update(t, tb, i, new, Work)
        PROVE  Begins(t)
    BY <1>w, <2>1, UpdateOnlyBegins
  <2> QED
    BY <1>5, <2>1 DEF UpdateCatalogEntry, UpdateMapping, DecidePending, DeleteSystem,
                      DeleteCatalogEntry, DeleteMapping, Delete
<1>6. ASSUME NEW t \in Threads, UpdateSystem(t)
      PROVE  Begins(t)
  <2>1. ASSUME NEW i, NEW new, Update(t, "system", i, new, Work)
        PROVE  Begins(t)
    BY <1>w, <2>1, UpdateOnlyBegins
  <2>2. ASSUME NEW i, NEW new, NEW company, NEW key, NEW id, NEW v,
               NEW c \in Upserts("details", company, key, id, v),
               Update(t, "system", i, new, [Work EXCEPT !.changes = {c}])
        PROVE  Begins(t)
    <3> DEFINE d == Change("system", i, rows.system[i], new)
               changes == {c, d}
    <3>1. Begin(t, [[Work EXCEPT !.changes = {c}] EXCEPT !.changes = @ \cup {d}])
      BY <2>2 DEF Update
    <3>2. [[Work EXCEPT !.changes = {c}] EXCEPT !.changes = @ \cup {d}] = [Work EXCEPT !.changes = changes]
      <4> HIDE DEF d
      <4>1. [InHand({c}, None, {}, None) EXCEPT !.changes = @ \cup {d}] = InHand({c} \cup {d}, None, {}, None)
        BY DEF InHand
      <4>2. {c} \cup {d} = changes
        OBVIOUS
      <4> HIDE DEF changes
      <4> QED
        BY <4>1, <4>2, Spelled
    <3>3. \A x \in changes : x.table = "metadata" => x.new.category # "readiness"
      BY <2>2, UpsertAdds DEF Change
    <3> HIDE DEF d, changes
    <3> QED
      BY <3>1, <3>2, <3>3, MetadataBegins
  <2>3. PICK i \in Reachable(t, "system"), asked \in Companies \cup {None}, v \in Values :
          LET new == [company |-> Moved(t, rows.system[i], asked), value |-> v] IN
          \/ Update(t, "system", i, new, Work)
          \/ \E details \in Values :
                \E c \in Upserts("details", new.company, <<"system", i>>, <<"details", i>>, details) :
                   Update(t, "system", i, new, [Work EXCEPT !.changes = {c}])
    BY <1>6 DEF UpdateSystem
  <2> QED
    BY <2>1, <2>2, <2>3
<1>7. ASSUME NEW t \in Threads, UpdateFootprint(t) \/ CreateUpload(t) \/ CreateCloudSource(t)
      PROVE  Begins(t)
  <2>1. ASSUME NEW category \in {"footprint", "upload"}, NEW company, NEW key, NEW id, NEW v,
               Begin(t, [Work EXCEPT !.changes = Upserts(category, company, key, id, v)])
        PROVE  Begins(t)
    BY <2>1, UpsertAdds, MetadataBegins
  <2>2. ASSUME NEW company, NEW key, NEW id, NEW v,
               NEW c \in Upserts("footprint", company, key, id, v),
               Begin(t, [Work EXCEPT !.changes = {c}])
        PROVE  Begins(t)
    <3> DEFINE changes == {c}
    <3>1. (\A x \in changes : x.new.category # "readiness") /\ Begin(t, [Work EXCEPT !.changes = changes])
      BY <2>2, UpsertAdds
    <3> HIDE DEF changes
    <3> QED
      BY <3>1, MetadataBegins
  <2> QED
    BY <1>7, <2>1, <2>2 DEF UpdateFootprint, CreateUpload, CreateCloudSource, Add
<1> QED
  BY <1>1, <1>2, <1>3, <1>4, <1>5, <1>6, <1>7, ReadinessBegins DEF Next

\* A number of threads, as many times as a request may have items.
LEMMA TimesGrows ==
    ASSUME NEW k \in Nat, NEW n \in Nat
    PROVE  /\ k * n \in Nat /\ k * (n - 1) = k * n - k
           /\ \A m \in Nat : m <= n => k * m <= k * n
OBVIOUS

\* What a call adds depends on nothing but its changes.
LEMMA NextAdds ==
    ASSUME \A u \in Threads : call'[u] # None =>
             \A company \in Companies, area \in Areas : Few(Adds(call'[u], company, area)),
           \A company \in Companies, area \in Areas :
             Counted(Overriding(company, area)', Adding(company, area)')
    PROVE  FewOverrides'
BY DEF FewOverrides, Few, Adds, Counted

\* A call that begins counts only where there is no override.
LEMMA OverridesBegin ==
    ASSUME FewOverrides, DOMAIN call = Threads, NEW t \in Threads, Begins(t)
    PROVE  FewOverrides'
<1>1. PICK w : /\ Begin(t, w)
               /\ \A company \in Companies, area \in Areas :
                    /\ Few(Adds(w, company, area))
                    /\ Adds(w, company, area) = {} \/ Overriding(company, area) = {}
  BY DEF Begins
<1>2. /\ rows' = rows /\ call[t] = None /\ call'[t] = w
      /\ \A u \in Threads \ {t} : call'[u] = call[u]
  BY <1>1 DEF Begin
<1>3. ASSUME NEW company \in Companies, NEW area \in Areas
      PROVE  Counted(Overriding(company, area)', Adding(company, area)')
  <2> DEFINE on == Overriding(company, area)
             adding == Adding(company, area)
             addingNext == Adding(company, area)'
  <2>1. Overriding(company, area)' = on
    BY <1>2 DEF Overriding
  <2>2. Counted(on, adding)
    BY DEF FewOverrides
  <2>3. CASE Adds(w, company, area) = {}
    <3>1. \A u : u \in addingNext <=> u \in adding
      BY <1>2, <2>3 DEF Adding, Adds
    <3> HIDE DEF adding, addingNext
    <3>2. addingNext = adding
      BY <3>1
    <3> QED
      BY <2>1, <2>2, <3>2 DEF addingNext
  <2>4. CASE on = {}
    <3>1. addingNext \in SUBSET Threads /\ IsFiniteSet(Threads) /\ MaxItems \in Nat
      BY DataHubAssumption DEF Adding
    <3> HIDE DEF addingNext, on
    <3>2. /\ Cardinality(addingNext) <= Cardinality(Threads)
          /\ Cardinality(Threads) \in Nat /\ Cardinality(addingNext) \in Nat
      BY <3>1, FS_Subset, FS_CardinalityType
    <3>3. MaxItems * Cardinality(addingNext) <= MaxItems * Cardinality(Threads)
      BY <3>1, <3>2, TimesGrows
    <3>4. MaxItems * Cardinality(addingNext) \in Nat /\ MaxItems * Cardinality(Threads) \in Nat
      BY <3>1, <3>2, TimesGrows
    <3>5. IsFiniteSet(on) /\ Cardinality(on) = 0
      BY <2>4, FS_EmptySet
    <3>6. Counted(on, addingNext)
      BY <3>3, <3>4, <3>5 DEF Counted
    <3> QED
      BY <2>1, <3>6 DEF addingNext
  <2> QED
    BY <1>1, <2>3, <2>4
<1>4. ASSUME NEW u \in Threads, call'[u] # None, NEW company \in Companies, NEW area \in Areas
      PROVE  Few(Adds(call'[u], company, area))
  <2>1. CASE u = t
    BY <1>1, <1>2, <2>1
  <2>2. CASE u # t
    BY <1>2, <1>4, <2>2 DEF FewOverrides
  <2> QED
    BY <2>1, <2>2
<1> QED
  BY <1>3, <1>4, NextAdds DEF FewOverrides

\* What is on file does not grow, and fewer calls have something to add.
LEMMA FewerToCome ==
    ASSUME NEW on, NEW onNext \in SUBSET on, NEW adding, NEW addingNext \in SUBSET adding,
           IsFiniteSet(adding), Counted(on, adding)
    PROVE  Counted(onNext, addingNext)
<1>1. IsFiniteSet(on) /\ Cardinality(on) \in Nat /\ Cardinality(adding) \in Nat /\ MaxItems \in Nat
  BY FS_CardinalityType, DataHubAssumption DEF Counted
<1>2. IsFiniteSet(addingNext) /\ Cardinality(addingNext) <= Cardinality(adding)
  BY FS_Subset
<1>3. IsFiniteSet(onNext) /\ Cardinality(onNext) <= Cardinality(on)
  BY <1>1, FS_Subset
<1>4. Cardinality(addingNext) \in Nat /\ Cardinality(onNext) \in Nat
  BY <1>2, <1>3, FS_CardinalityType
<1>5. /\ MaxItems * Cardinality(addingNext) \in Nat /\ MaxItems * Cardinality(adding) \in Nat
      /\ MaxItems * Cardinality(addingNext) <= MaxItems * Cardinality(adding)
  BY <1>1, <1>2, <1>4, TimesGrows
<1>6. MaxItems * Cardinality(Threads) \in Nat
  BY <1>1, TimesGrows, DataHubAssumption, FS_CardinalityType
<1>7. Cardinality(on) + MaxItems * Cardinality(adding) <= MaxItems * Cardinality(Threads)
  BY DEF Counted
<1> QED
  BY <1>1, <1>3, <1>4, <1>5, <1>6, <1>7 DEF Counted

\* One call has added its few.
LEMMA AddedFew ==
    ASSUME NEW on, NEW added, Few(added), NEW onNext \in SUBSET (on \cup {c.id : c \in added}),
           NEW adding, NEW t \in adding, NEW addingNext \in SUBSET (adding \ {t}),
           IsFiniteSet(adding), Counted(on, adding)
    PROVE  Counted(onNext, addingNext)
<1> DEFINE ids == {c.id : c \in added}
           f == [c \in added |-> c.id]
<1>1. IsFiniteSet(on) /\ Cardinality(on) \in Nat /\ Cardinality(adding) \in Nat /\ MaxItems \in Nat
  BY FS_CardinalityType, DataHubAssumption DEF Counted
<1>2. f \in Surjection(added, ids)
  BY DEF Surjection
<1>3. onNext \in SUBSET (on \cup ids)
  OBVIOUS
<1> HIDE DEF ids, f
<1>4. IsFiniteSet(ids) /\ Cardinality(ids) <= MaxItems /\ Cardinality(ids) \in Nat
  <2>1. IsFiniteSet(added) /\ Cardinality(added) <= MaxItems /\ Cardinality(added) \in Nat
    BY FS_CardinalityType DEF Few
  <2>2. IsFiniteSet(ids) /\ Cardinality(ids) <= Cardinality(added)
    BY <1>2, <2>1, FS_Surjection
  <2>3. Cardinality(ids) \in Nat
    BY <2>2, FS_CardinalityType
  <2> QED
    BY <1>1, <2>1, <2>2, <2>3
<1>5. IsFiniteSet(on \cup ids) /\ Cardinality(on \cup ids) <= Cardinality(on) + Cardinality(ids)
  <2>1. /\ IsFiniteSet(on \cup ids) /\ IsFiniteSet(on \cap ids)
        /\ Cardinality(on \cup ids) = Cardinality(on) + Cardinality(ids) - Cardinality(on \cap ids)
    BY <1>1, <1>4, FS_Union, FS_Intersection
  <2>2. Cardinality(on \cap ids) \in Nat
    BY <2>1, FS_CardinalityType
  <2> QED
    BY <1>1, <1>4, <2>1, <2>2
<1>6. IsFiniteSet(onNext) /\ Cardinality(onNext) <= Cardinality(on \cup ids)
  BY <1>3, <1>5, FS_Subset
<1>7. IsFiniteSet(adding \ {t}) /\ Cardinality(adding \ {t}) = Cardinality(adding) - 1
  BY FS_RemoveElement
<1>8. IsFiniteSet(addingNext) /\ Cardinality(addingNext) <= Cardinality(adding \ {t})
  BY <1>7, FS_Subset
<1>9. /\ Cardinality(on \cup ids) \in Nat /\ Cardinality(onNext) \in Nat
      /\ Cardinality(addingNext) \in Nat /\ Cardinality(adding \ {t}) \in Nat
  BY <1>5, <1>6, <1>7, <1>8, FS_CardinalityType
<1>10. /\ MaxItems * Cardinality(addingNext) \in Nat /\ MaxItems * Cardinality(adding \ {t}) \in Nat
       /\ MaxItems * Cardinality(addingNext) <= MaxItems * Cardinality(adding \ {t})
  BY <1>1, <1>8, <1>9, TimesGrows
<1>11. MaxItems * Cardinality(adding \ {t}) = MaxItems * Cardinality(adding) - MaxItems
  BY <1>1, <1>7, TimesGrows
<1>12. MaxItems * Cardinality(Threads) \in Nat /\ MaxItems * Cardinality(adding) \in Nat
  BY <1>1, TimesGrows, DataHubAssumption, FS_CardinalityType
<1>13. Cardinality(on) + MaxItems * Cardinality(adding) <= MaxItems * Cardinality(Threads)
  BY DEF Counted
<1>14. Cardinality(onNext) <= Cardinality(on) + MaxItems
  BY <1>1, <1>4, <1>5, <1>6, <1>9
<1> QED
  BY <1>1, <1>6, <1>9, <1>10, <1>11, <1>12, <1>13, <1>14 DEF Counted

\* The threads that are about to add overrides are as many as the threads at
\* most.
LEMMA AddingIsFinite ==
    ASSUME NEW company, NEW area
    PROVE  IsFiniteSet(Adding(company, area)) /\ Cardinality(Threads) \in Nat
<1>1. Adding(company, area) \in SUBSET Threads /\ IsFiniteSet(Threads)
  BY DataHubAssumption DEF Adding
<1> QED
  BY <1>1, FS_Subset, FS_CardinalityType

\* A call that ends with no override added leaves no more of them than before.
LEMMA OverridesEnd ==
    ASSUME FewOverrides,
           \A company \in Companies, area \in Areas :
              Overriding(company, area)' \subseteq Overriding(company, area),
           \A u \in Threads : call'[u] \in {None, call[u]}
    PROVE  FewOverrides'
<1>1. ASSUME NEW company \in Companies, NEW area \in Areas
      PROVE  Counted(Overriding(company, area)', Adding(company, area)')
  <2>1. Adding(company, area)' \subseteq Adding(company, area)
    BY DEF Adding, Adds
  <2>2. IsFiniteSet(Adding(company, area))
    BY AddingIsFinite
  <2>3. Counted(Overriding(company, area), Adding(company, area))
    BY DEF FewOverrides
  <2> QED
    BY <2>1, <2>2, <2>3, FewerToCome
<1>2. ASSUME NEW u \in Threads, call'[u] # None, NEW company \in Companies, NEW area \in Areas
      PROVE  Few(Adds(call'[u], company, area))
  BY <1>2 DEF FewOverrides
<1> QED
  BY <1>1, <1>2, NextAdds

\* The details that follow the first commit of a system are no overrides.
LEMMA AfterCommitAdds ==
    ASSUME HubInv, NEW t \in Threads, Committed(t), call'[t] # None, NEW company, NEW area
    PROVE  Adds(call'[t], company, area) = {}
<1> DEFINE work == call[t]
           upserts == UNION {Upserts("details", c.new.company, <<"system", c.id>>,
                                     <<"details", c.id>>, work.details) : c \in work.changes}
<1>1. call'[t] = [Work EXCEPT !.changes = upserts]
  BY DEF Committed, HubInv, RowsTyped, AfterCommit
<1>2. ASSUME NEW d \in upserts
      PROVE  d.new.category = "details"
  <2>1. PICK c \in work.changes :
          d \in Upserts("details", c.new.company, <<"system", c.id>>, <<"details", c.id>>, work.details)
    OBVIOUS
  <2> QED
    BY <2>1, UpsertAdds
<1> HIDE DEF upserts
<1>3. call'[t].changes = upserts
  BY <1>1 DEF Work
<1> QED
  BY <1>2, <1>3 DEF Adds

\* A commit adds the overrides of one thread, which is then no longer about to
\* add any.
LEMMA OverridesCommit ==
    ASSUME HubInv, FewOverrides, NEW t \in Threads, Commit(t)
    PROVE  FewOverrides'
<1>d. DOMAIN call = Threads
  BY DEF HubInv, RowsTyped
<1>1. CASE Refused(rows, call[t].changes)
  <2>1. \A u \in Threads : call'[u] \in {None, call[u]}
    BY <1>d, <1>1 DEF Commit
  <2>2. \A company \in Companies, area \in Areas :
          Overriding(company, area)' \subseteq Overriding(company, area)
    BY <1>1 DEF Commit, Overriding
  <2> QED
    BY <2>1, <2>2, OverridesEnd
<1>2. CASE ~Refused(rows, call[t].changes)
  <2>1. Committed(t) /\ call[t] # None
    BY <1>2 DEF Commit, Committed
  <2>2. \A u \in Threads \ {t} : call'[u] = call[u]
    BY <1>d, <2>1 DEF Committed
  <2>m. "metadata" \in Tables \ Free
    BY DEF Tables, Free
  <2>3. ASSUME NEW company \in Companies, NEW area \in Areas
        PROVE  Counted(Overriding(company, area)', Adding(company, area)')
    <3>1. t \notin Adding(company, area)'
      BY <2>1, AfterCommitAdds DEF Adding, Adds
    <3>2. Adding(company, area)' \subseteq Adding(company, area) \ {t}
      BY <2>2, <3>1 DEF Adding, Adds
    <3>3. IsFiniteSet(Adding(company, area))
      BY AddingIsFinite
    <3>4. Counted(Overriding(company, area), Adding(company, area))
      BY DEF FewOverrides
    <3>5. Few(Adds(call[t], company, area))
      BY <2>1 DEF FewOverrides
    <3>6. ASSUME NEW i \in Overriding(company, area)'
          PROVE  \/ i \in Overriding(company, area)
                 \/ \E c \in Adds(call[t], company, area) : c.id = i
      <4>1. /\ i \in DOMAIN rows'["metadata"] /\ rows'["metadata"][i].category = "readiness"
            /\ rows'["metadata"][i].company = company
            /\ rows'["metadata"][i].key = <<"area", area>>
        BY <3>6 DEF Overriding
      <4>2. CASE i \in DOMAIN rows["metadata"]
        <5>1. SameHome("metadata", rows'["metadata"][i], rows["metadata"][i])
          BY <2>m, <2>1, <4>1, <4>2, RowAfter
        <5> QED
          BY <4>1, <4>2, <5>1 DEF SameHome, Overriding
      <4>3. CASE i \notin DOMAIN rows["metadata"]
        <5>1. PICK c \in call[t].changes : /\ c.table = "metadata" /\ c.id = i /\ c.was = None
                                           /\ rows'["metadata"][i] = c.new
          BY <2>m, <2>1, <4>1, <4>3, RowAfter
        <5>2. c \in Adds(call[t], company, area)
          BY <4>1, <5>1 DEF Adds
        <5> QED
          BY <5>1, <5>2
      <4> QED
        BY <4>2, <4>3
    <3> DEFINE on == Overriding(company, area)
               onNext == Overriding(company, area)'
               adding == Adding(company, area)
               addingNext == Adding(company, area)'
               added == Adds(call[t], company, area)
    <3>7. Counted(on, adding) /\ IsFiniteSet(adding) /\ Few(added)
      BY <3>3, <3>4, <3>5
    <3>8. CASE added = {}
      <4>1. onNext \in SUBSET on /\ addingNext \in SUBSET adding
        BY <3>2, <3>6, <3>8
      <4> HIDE DEF on, onNext, adding, addingNext, added
      <4>2. Counted(onNext, addingNext)
        BY <3>7, <4>1, FewerToCome
      <4> QED
        BY <4>2 DEF onNext, addingNext
    <3>9. CASE added # {}
      <4>1. t \in adding /\ addingNext \in SUBSET (adding \ {t})
        BY <2>1, <3>2, <3>9 DEF Adding
      <4>2. onNext \in SUBSET (on \cup {c.id : c \in added})
        BY <3>6
      <4> HIDE DEF on, onNext, adding, addingNext, added
      <4>3. Counted(onNext, addingNext)
        BY <3>7, <4>1, <4>2, AddedFew
      <4> QED
        BY <4>3 DEF onNext, addingNext
    <3> QED
      BY <3>8, <3>9
  <2>4. ASSUME NEW u \in Threads, call'[u] # None, NEW company \in Companies, NEW area \in Areas
        PROVE  Few(Adds(call'[u], company, area))
    <3>1. CASE u = t
      BY <2>1, <2>4, <3>1, AfterCommitAdds, NoneAreFew
    <3>2. CASE u # t
      BY <2>2, <2>4, <3>2 DEF FewOverrides
    <3> QED
      BY <3>1, <3>2
  <2> QED
    BY <2>3, <2>4, NextAdds
<1> QED
  BY <1>1, <1>2

\* The count holds in every state of every behaviour.
LEMMA FewOverridesHold == Spec => []FewOverrides
<1>1. ASSUME Init
      PROVE  FewOverrides
  <2>1. ASSUME NEW company \in Companies, NEW area \in Areas
        PROVE  Overriding(company, area) = {} /\ Adding(company, area) = {}
    <3>1. rows["metadata"] = [i \in {SeedId("metadata")} |-> SeedRows["metadata"]]
      BY <1>1 DEF Init, Tables
    <3>2. SeedRows.metadata.category = "details"
      BY DEF SeedRows
    <3> QED
      BY <1>1, <3>1, <3>2 DEF Overriding, Adding, Init
  <2>2. Cardinality(Threads) \in Nat /\ Cardinality({}) = 0 /\ IsFiniteSet({})
    BY AddingIsFinite, FS_EmptySet
  <2>3. \A t \in Threads : call[t] = None
    BY <1>1 DEF Init
  <2>4. Counted({}, {})
    <3>1. MaxItems * Cardinality(Threads) \in Nat /\ MaxItems * 0 = 0 /\ MaxItems \in Nat
      BY <2>2, DataHubAssumption, TimesGrows
    <3> QED
      BY <2>2, <3>1 DEF Counted
  <2> QED
    BY <2>1, <2>3, <2>4 DEF FewOverrides
<1>2. ASSUME HubInv, FewOverrides, [Next]_vars
      PROVE  FewOverrides'
  <2>1. DOMAIN call = Threads
    BY <1>2 DEF HubInv, RowsTyped
  <2>2. ASSUME NEW t \in Threads, Begins(t) \/ Commit(t)
        PROVE  FewOverrides'
    BY <1>2, <2>1, <2>2, OverridesBegin, OverridesCommit
  <2>3. CASE Restart
    <3>1. \A u \in Threads : call'[u] \in {None, call[u]}
      BY <2>3 DEF Restart
    <3>2. /\ "metadata" \in Tables
          /\ \A i \in DOMAIN rows'["metadata"] :
               rows'["metadata"][i] = IF i = SeedId("metadata") THEN SeedRows["metadata"]
                                      ELSE rows["metadata"][i]
          /\ DOMAIN rows'["metadata"] = DOMAIN rows["metadata"] \cup {SeedId("metadata")}
      BY <2>3 DEF Restart, Tables
    <3>3. SeedRows["metadata"].category = "details"
      BY DEF SeedRows
    <3>4. \A company \in Companies, area \in Areas :
            Overriding(company, area)' \subseteq Overriding(company, area)
      BY <3>2, <3>3 DEF Overriding
    <3> QED
      BY <1>2, <3>1, <3>4, OverridesEnd
  <2>4. CASE UNCHANGED vars
    <3>1. \A u \in Threads : call'[u] \in {None, call[u]}
      BY <2>4 DEF vars
    <3>2. \A company \in Companies, area \in Areas :
            Overriding(company, area)' \subseteq Overriding(company, area)
      BY <2>4 DEF vars, Overriding
    <3> QED
      BY <1>2, <3>1, <3>2, OverridesEnd
  <2> QED
    BY <1>2, <2>2, <2>3, <2>4, OneStepBegins
<1> QED
  BY <1>1, <1>2, HubInvHolds, PTL DEF Spec

\* Overrides of readiness are no more than the requests of one call of each thread
\* hold items, and details and footprints are unique.
THEOREM OverridesAreFew == Spec => []OverridesDoNotPileUp
<1>1. ASSUME HubInv, FewOverrides
      PROVE  OverridesDoNotPileUp
  <2>1. ASSUME NEW c \in Companies, NEW a \in Areas
        PROVE  Cardinality({i \in DOMAIN rows.metadata :
                              /\ rows.metadata[i].category = "readiness"
                              /\ rows.metadata[i].company = c
                              /\ rows.metadata[i].key = <<"area", a>>})
                 <= MaxItems * Cardinality(Threads)
    <3>1. Counted(Overriding(c, a), Adding(c, a)) /\ IsFiniteSet(Adding(c, a))
      BY <1>1, AddingIsFinite DEF FewOverrides
    <3>2. /\ Cardinality(Overriding(c, a)) \in Nat /\ Cardinality(Adding(c, a)) \in Nat
          /\ Cardinality(Threads) \in Nat /\ MaxItems \in Nat
      BY <3>1, AddingIsFinite, FS_CardinalityType, DataHubAssumption DEF Counted
    <3>3. Cardinality(Overriding(c, a)) <= MaxItems * Cardinality(Threads)
      <4>1. MaxItems * Cardinality(Adding(c, a)) \in Nat /\ MaxItems * Cardinality(Threads) \in Nat
        BY <3>2, TimesGrows
      <4> QED
        BY <3>1, <3>2, <4>1 DEF Counted
    <3> QED
      BY <3>3 DEF Overriding
  <2>2. \A i, j \in DOMAIN rows.metadata :
          /\ rows.metadata[i].category = rows.metadata[j].category
          /\ rows.metadata[i].key = rows.metadata[j].key
          /\ \/ rows.metadata[i].category = "details"
             \/ rows.metadata[i].category = "footprint"
                /\ rows.metadata[i].company = rows.metadata[j].company
          => i = j
    BY <1>1 DEF HubInv, MetaTagged, Tagged
  <2> QED
    BY <2>1, <2>2 DEF OverridesDoNotPileUp
<1>2. HubInv /\ FewOverrides => OverridesDoNotPileUp
  BY <1>1
<1> QED
  BY <1>2, HubInvHolds, FewOverridesHold, PTL
=============================================================================
