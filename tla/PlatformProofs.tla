--------------------------- MODULE PlatformProofs ---------------------------
(***************************************************************************)
(* The platform's tables, for any number of services, companies and calls. *)
(* Whatever a handler does before its commit is one step, Calls: it has    *)
(* something in hand that is Ready.  So every step is one of four, and the *)
(* invariants are about what calls have in hand as much as about what is   *)
(* on file:                                                                *)
(*   BaseInv     rows and changes are rows of their tables, what an admin  *)
(*               has in hand is of the admin's company, and a change of a  *)
(*               record comes with the entry that tells it;                *)
(*   LedgerInv   no number is above the list, and no call knows of an      *)
(*               answer with the number it was given itself;               *)
(*   CompanyInv  a company has its flags, and the entry of a company or a  *)
(*               plant is in the log, in hand or cut off;                  *)
(*   RecordInv   an id in hand is of nobody else, and the last entry that  *)
(*               changed a column tells what it holds.                     *)
(***************************************************************************)
EXTENDS PlatformViews, FiniteSetTheorems, TLAPS

Sites == {"company", "plant"}   \* the tables whose rows are audited on their own

RowsTyped ==
    /\ DOMAIN rows = Tables /\ DOMAIN call = Services
    /\ \A tb \in Tables : \A i \in DOMAIN rows[tb] : rows[tb][i] \in RowOf[tb]
    /\ uuid \in Nat /\ calls \in 0..MaxCalls
    /\ trail \in Seq(Events)
    /\ DOMAIN rows["record"] \subseteq 0..uuid /\ DOMAIN rows["company"] \subseteq Companies

HomeOnFile == \A tb \in Sites : Home \in DOMAIN rows[tb]

-----------------------------------------------------------------------------
(* What a call may have in hand; ids up to n are given. *)

Fits(c, n) ==
    /\ c.table \in Tables
    /\ c.was \in RowOf[c.table] \cup {None} /\ c.new \in RowOf[c.table] \cup {None}
    /\ c.was = None => c.new # None
    /\ c.new = None => c.table = "record"
    /\ c.table \in Sites => c.was = None /\ c.id \in Companies
    /\ c.table = "record" => c.id \in 0..n

\* The seeded company and plant are on file, or come there with the call.
HomeStands(w) ==
    \A tb \in Sites :
        \/ Home \in DOMAIN rows[tb]
        \/ \E c \in w.changes : c.table = tb /\ c.id = Home /\ c.was = None

\* What an admin writes is of the admin's company; of a record Reaches tells.
OwnOnly(w) ==
    w.by # None /\ ~w.by.override =>
        /\ \A c \in w.changes :
             /\ c.table # "company"
             /\ c.table \in {"plant", "department", "user"} =>
                  c.was = None /\ c.new.company = w.by.company
             /\ c.table = "flag" => c.id[1] = w.by.company
        /\ w.event # None => w.event.company = w.by.company
        /\ w.later # None => w.later.company = w.by.company

\* A company comes with its flags, and its entry in the audit log comes after it.
Founding(w) ==
    /\ \A c \in w.changes : c.table = "company" =>
         \A m \in ModuleKeys :
            \/ <<c.id, m>> \in DOMAIN rows["flag"]
            \/ \E d \in w.changes : d.table = "flag" /\ d.id = <<c.id, m>> /\ d.was = None
    /\ \A c \in w.changes : c.table \in Sites /\ c.id # Home =>
         w.later # None /\ w.later.id = <<c.table, c.id>>
    /\ w.later # None =>
         /\ w.event = None /\ w.later \in Events /\ w.by \in Actors /\ HomeOnFile
         /\ \E c \in w.changes :
              /\ c.table \in Sites /\ w.later.id = <<c.table, c.id>>
              /\ \A d \in w.changes : d.table \in Sites => d = c

\* The change of a record is committed with its entry.
Recording(w) ==
    /\ w.event # None =>
         /\ w.event \in Events
         /\ w.changes = {} => w.event.id \in Sites \X Companies
         /\ w.changes # {} => \E c \in w.changes : /\ w.changes = {c} /\ c.table = "record"
                                                   /\ w.event.id = <<"record", c.id>>
    /\ \A c \in w.changes : c.table = "record" =>
         /\ c.was # None => /\ w.event # None /\ w.event.old = c.was /\ w.event.new = c.new
                            /\ w.event.action = IF c.new = None THEN "DELETE" ELSE "UPDATE"
         /\ c.was = None /\ w.event # None => w.event.action = "CREATE" /\ w.event.new = c.new

WorkFits(w, n) ==
    /\ \A c \in w.changes : Fits(c, n)
    /\ w.entry # None => w.changes = {} /\ w.event = None /\ w.entry.row \in Ledger
    /\ HomeStands(w) /\ OwnOnly(w) /\ Founding(w) /\ Recording(w)

BaseInv ==
    /\ RowsTyped
    /\ \A s \in Services : call[s] # None => WorkFits(call[s], uuid)
    /\ up # {} => HomeOnFile

-----------------------------------------------------------------------------
(* Records and what the audit log tells of them. *)

Mine(i) == Audits(<<"record", i>>)
Deleted(i) == \E n \in Mine(i) : trail[n].action = "DELETE"
Changed(i, k) ==
    {n \in Mine(i) : \/ trail[n].action = "CREATE"
                     \/ trail[n].action = "UPDATE" /\ trail[n].old[k] # trail[n].new[k]}

\* A new record has an id nobody else has in hand, and no entry; a change is of a
\* record that is or was on file.
RecordsInHand ==
    \A s \in Services : call[s] # None => \A c \in call[s].changes : c.table = "record" =>
        /\ c.was = None /\ c.id # 0 =>
             /\ c.id \notin DOMAIN rows["record"] /\ Mine(c.id) = {}
             /\ \A u \in Services \ {s} : call[u] # None =>
                  \A d \in call[u].changes : d.table = "record" => d.id # c.id
        /\ c.was # None => c.id \in DOMAIN rows["record"] \/ Deleted(c.id)

LastTells(i, k) ==
    \/ Changed(i, k) = {}
    \/ \E n \in Changed(i, k) : /\ \A o \in Changed(i, k) : o <= n
                                /\ rows["record"][i][k] = trail[n].new[k]

RecordInv ==
    /\ RecordsInHand
    /\ \A i : Mine(i) # {} => i \in 0..uuid /\ (i \in DOMAIN rows["record"] \/ Deleted(i))
    /\ \A i \in DOMAIN rows["record"] : i # 0 \/ ~Deleted(i) =>
         \A k \in {"company", "status"} : LastTells(i, k)

-----------------------------------------------------------------------------
(* The ledger and its numbers. *)

LedgerIds == Kinds \X (Items \cup {None}) \X Nat
Told == {a.call : a \in answered}

\* The rows of the ledger a call is about to write, with their numbers.
Counting(w) ==
    (IF w.entry = None THEN {} ELSE {[id |-> w.entry.id, row |-> w.entry.row]})
      \cup {[id |-> c.id, row |-> c.new] : c \in {d \in w.changes : d.table = "ledger"}}

\* No call knows of an answer with the number it was given itself.
Numbers(w, n) ==
    /\ IsFiniteSet(Counting(w))
    /\ \A c \in w.changes : c.table = "ledger" /\ c.was # None => c.id \in DOMAIN rows["ledger"]
    /\ \A e \in Counting(w) :
         /\ e.id \in LedgerIds /\ e.row \in Ledger
         /\ e.id[3] <= Listed(e.id[1]) + 1
         /\ e.row.before \subseteq Told
         /\ \A a \in answered : a.id = e.id => a.call \notin e.row.before
         /\ e.row.call # 0 => e.row.call \in 1..n /\ e.row.call \notin Told

LedgerInv ==
    /\ DOMAIN rows["ledger"] \subseteq LedgerIds /\ IsFiniteSet(DOMAIN rows["ledger"])
    /\ \A i \in DOMAIN rows["ledger"] :
         i[3] <= Listed(i[1]) /\ rows["ledger"][i].before \subseteq Told
    /\ \A a \in answered : /\ a.call \in 1..calls /\ a.id \in DOMAIN rows["ledger"]
                           /\ a.call \notin rows["ledger"][a.id].before
    /\ \A s \in Services : call[s] # None => Numbers(call[s], calls)
    /\ \A s, u \in Services : s # u /\ call[s] # None /\ call[u] # None =>
         \A e \in Counting(call[s]), f \in Counting(call[u]) :
            e.row.call = f.row.call => e.row.call = 0

-----------------------------------------------------------------------------
(* Companies and plants, and their entries in the audit log. *)

EntryInHand(id) == {s \in Services : call[s] # None /\ call[s].changes = {}
                                     /\ call[s].event # None /\ call[s].event.id = id}

\* The entry of a row that was created is in the log, or in hand, or cut off.
OneEntry(id, created) ==
    IF ~created THEN Audits(id) = {} /\ EntryInHand(id) = {} /\ id \notin cut
    ELSE \/ (\E n : Audits(id) = {n}) /\ EntryInHand(id) = {} /\ id \notin cut
         \/ Audits(id) = {} /\ (\E s : EntryInHand(id) = {s}) /\ id \notin cut
         \/ Audits(id) = {} /\ EntryInHand(id) = {} /\ id \in cut

CompanyInv ==
    /\ \A c \in DOMAIN rows["company"], m \in ModuleKeys : <<c, m>> \in DOMAIN rows["flag"]
    /\ \A tb \in Sites, c \in Companies :
         OneEntry(<<tb, c>>, c \in DOMAIN rows[tb] /\ c # Home)

-----------------------------------------------------------------------------
(* What a commit does to a row. *)

\* What the rows of the tables are, and that none of them is taken for no row.
LEMMA TableTypes ==
    /\ DOMAIN RowOf = Tables
    /\ Tables = {"company", "flag", "plant", "department", "user", "role", "permission",
                 "task", "document", "requisition", "approval", "record", "ledger"}
    /\ \A tb \in Tables \ {"flag", "approval", "record", "ledger"} : RowOf[tb] = Owned
    /\ RowOf["flag"] = Flag /\ RowOf["approval"] = Approval
    /\ RowOf["record"] = ModuleRecord /\ RowOf["ledger"] = Ledger
    /\ \A tb \in Tables : None \notin RowOf[tb]
BY PlatformAssumption DEF RowOf, Tables

\* Session: a row that is on file after a commit is as it was, or one the commit
\* has added, or one of which it has written the columns that changed.
LEMMA FlushedRow ==
    ASSUME NEW old, NEW changes, NEW tb \in DOMAIN old, ~Refused(old, changes),
           NEW i \in DOMAIN Flushed(old, changes)[tb]
    PROVE  \/ /\ i \in DOMAIN old[tb] /\ Flushed(old, changes)[tb][i] = old[tb][i]
              /\ \A c \in changes : c.table = tb /\ c.id = i => c.new \in {None, c.was}
           \/ \E c \in changes : /\ c.table = tb /\ c.id = i /\ c.was = None /\ c.new # None
                                 /\ i \notin DOMAIN old[tb]
                                 /\ Flushed(old, changes)[tb][i] = c.new
           \/ \E c \in changes : /\ c.table = tb /\ c.id = i /\ c.was # None
                                 /\ c.new \notin {None, c.was} /\ i \in DOMAIN old[tb]
                                 /\ Flushed(old, changes)[tb][i] = Merged(old[tb][i], c.was, c.new)
<1> DEFINE mine == {c \in changes : c.table = tb}
           put == {c \in mine : c.new \notin {None, c.was}}
           Put == CHOOSE c \in put : c.id = i
<1>1. CASE mine = {}
  BY <1>1 DEF Flushed
<1>2. CASE mine # {}
  <2>1. Flushed(old, changes)[tb] = Flush(old[tb], mine)
    BY <1>2 DEF Flushed
  <2>2. i \in DOMAIN old[tb] \cup {c.id : c \in put}
    BY <2>1 DEF Flush
  <2>3. Flush(old[tb], mine)[i] =
          IF i \notin {c.id : c \in put} THEN old[tb][i]
          ELSE IF Put.was = None THEN Put.new
          ELSE Merged(old[tb][i], Put.was, Put.new)
    BY <2>1 DEF Flush
  <2>4. CASE i \notin {c.id : c \in put}
    BY <2>1, <2>2, <2>3, <2>4
  <2>5. CASE i \in {c.id : c \in put}
    <3>1. Put \in put /\ Put.id = i
      BY <2>5
    <3> HIDE DEF Put
    <3>2. Put \in changes /\ Put.table = tb /\ Put.new \notin {None, Put.was}
      BY <3>1
    <3>3. (Put.was = None => i \notin DOMAIN old[tb]) /\ (Put.was # None => i \in DOMAIN old[tb])
      BY <3>1, <3>2 DEF Refused
    <3> QED
      BY <2>1, <2>3, <2>5, <3>1, <3>2, <3>3
  <2> QED
    BY <2>4, <2>5
<1> QED
  BY <1>1, <1>2

\* Session: a commit takes off the rows it deletes, and puts there what it adds.
LEMMA FlushedDomain ==
    ASSUME NEW old, NEW changes, NEW tb \in DOMAIN old
    PROVE  /\ DOMAIN Flushed(old, changes) = DOMAIN old
           /\ \A i \in DOMAIN old[tb] \ DOMAIN Flushed(old, changes)[tb] :
                \E c \in changes : c.table = tb /\ c.id = i /\ c.new = None
           /\ \A c \in changes : c.table = tb /\ c.new = None
                => c.id \notin DOMAIN Flushed(old, changes)[tb]
           /\ \A c \in changes :
                c.table = tb /\ c.was = None /\ c.new # None
                /\ (\A d \in changes : d.table = tb /\ d.id = c.id => d.new # None)
                => c.id \in DOMAIN Flushed(old, changes)[tb]
<1> DEFINE mine == {c \in changes : c.table = tb}
           put == {c \in mine : c.new \notin {None, c.was}}
           gone == {c.id : c \in {d \in mine : d.new = None}}
<1>1. DOMAIN Flushed(old, changes) = DOMAIN old
  BY DEF Flushed
<1>2. CASE mine = {}
  BY <1>1, <1>2 DEF Flushed
<1>3. CASE mine # {}
  <2>1. Flushed(old, changes)[tb] = Flush(old[tb], mine)
    BY <1>3 DEF Flushed
  <2>2. DOMAIN Flush(old[tb], mine) = (DOMAIN old[tb] \cup {c.id : c \in put}) \ gone
    BY DEF Flush
  <2>3. DOMAIN Flushed(old, changes)[tb] = (DOMAIN old[tb] \cup {c.id : c \in put}) \ gone
    BY <2>1, <2>2
  <2>4. \A i \in gone : \E c \in changes : c.table = tb /\ c.id = i /\ c.new = None
    OBVIOUS
  <2>5. \A c \in changes : c.table = tb /\ c.new = None => c.id \in gone
    OBVIOUS
  <2>6. \A c \in changes : c.table = tb /\ c.was = None /\ c.new # None => c \in put
    OBVIOUS
  <2> HIDE DEF gone, put
  <2>7. \A c \in put : c.id \in DOMAIN old[tb] \cup {d.id : d \in put}
    OBVIOUS
  <2> QED
    BY <1>1, <2>3, <2>4, <2>5, <2>6, <2>7
<1> QED
  BY <1>2, <1>3

\* Merging rows of one table gives a row of the table, column by column.
LEMMA MergedTyped ==
    ASSUME NEW tb \in Tables, NEW now \in RowOf[tb], NEW was \in RowOf[tb], NEW new \in RowOf[tb]
    PROVE  Merged(now, was, new) \in RowOf[tb]
<1>1. CASE tb \in Tables \ {"flag", "approval", "record", "ledger"}
  <2>1. now \in Owned /\ was \in Owned /\ new \in Owned
    BY <1>1, TableTypes
  <2> QED
    BY <1>1, <2>1, TableTypes DEF Merged, Owned
<1>2. CASE tb = "flag"
  <2>1. now \in Flag /\ was \in Flag /\ new \in Flag
    BY <1>2, TableTypes
  <2> QED
    BY <1>2, <2>1, TableTypes DEF Merged, Flag
<1>3. CASE tb = "approval"
  <2>1. now \in Approval /\ was \in Approval /\ new \in Approval
    BY <1>3, TableTypes
  <2> QED
    BY <1>3, <2>1, TableTypes DEF Merged, Approval
<1>4. CASE tb = "record"
  <2>1. now \in ModuleRecord /\ was \in ModuleRecord /\ new \in ModuleRecord
    BY <1>4, TableTypes
  <2> QED
    BY <1>4, <2>1, TableTypes DEF Merged, ModuleRecord
<1>5. CASE tb = "ledger"
  <2>1. now \in Ledger /\ was \in Ledger /\ new \in Ledger
    BY <1>5, TableTypes
  <2>2. DOMAIN new = {"status", "call", "before"}
    BY <2>1 DEF Ledger
  <2> QED
    BY <1>5, <2>1, <2>2, TableTypes DEF Merged, Ledger
<1> QED
  BY <1>1, <1>2, <1>3, <1>4, <1>5

-----------------------------------------------------------------------------
(* The steps: a call begins, looks its number up, is committed, is cut off. *)

Committed(s) == Commit(s) /\ ~Refused(rows, call[s].changes)

\* What a commit that is not refused leaves.
LEMMA CommittedRows ==
    ASSUME BaseInv, NEW s \in Services, Committed(s)
    PROVE  /\ call[s] # None /\ WorkFits(call[s], uuid)
           /\ DOMAIN rows' = Tables
           /\ \A tb \in Tables : \A i \in DOMAIN rows'[tb] :
                /\ rows'[tb][i] \in RowOf[tb]
                /\ i \notin DOMAIN rows[tb] => \E c \in call[s].changes :
                     c.table = tb /\ c.id = i /\ c.was = None /\ rows'[tb][i] = c.new
           /\ \A tb \in Tables \ {"record"} : DOMAIN rows[tb] \subseteq DOMAIN rows'[tb]
           /\ \A c \in call[s].changes : c.was = None =>
                c.id \notin DOMAIN rows[c.table] /\ c.id \in DOMAIN rows'[c.table]
<1> DEFINE w == call[s]
<1>1. w # None /\ rows' = Flushed(rows, w.changes) /\ ~Refused(rows, w.changes)
  BY DEF Committed, Commit
<1>2. WorkFits(w, uuid) /\ DOMAIN rows = Tables
  BY <1>1 DEF BaseInv, RowsTyped
<1>3. \A c \in w.changes : Fits(c, uuid)
  BY <1>2 DEF WorkFits
<1> HIDE DEF w
<1>4. DOMAIN rows' = Tables
  BY <1>1, <1>2 DEF Flushed
<1>5. ASSUME NEW tb \in Tables, NEW i \in DOMAIN rows'[tb]
      PROVE  /\ rows'[tb][i] \in RowOf[tb]
             /\ i \notin DOMAIN rows[tb] => \E c \in w.changes :
                  c.table = tb /\ c.id = i /\ c.was = None /\ rows'[tb][i] = c.new
  <2>1. CASE i \in DOMAIN rows[tb] /\ rows'[tb][i] = rows[tb][i]
    BY <2>1 DEF BaseInv, RowsTyped
  <2>2. ASSUME NEW c \in w.changes, c.table = tb, c.id = i, c.was = None, c.new # None,
               rows'[tb][i] = c.new
        PROVE  rows'[tb][i] \in RowOf[tb]
    BY <1>3, <2>2 DEF Fits
  <2>3. ASSUME NEW c \in w.changes, c.table = tb, c.id = i, c.was # None,
               c.new \notin {None, c.was}, i \in DOMAIN rows[tb],
               rows'[tb][i] = Merged(rows[tb][i], c.was, c.new)
        PROVE  rows'[tb][i] \in RowOf[tb]
    <3>1. c.was \in RowOf[tb] /\ c.new \in RowOf[tb] /\ rows[tb][i] \in RowOf[tb]
      BY <1>3, <2>3 DEF Fits, BaseInv, RowsTyped
    <3> QED
      BY <2>3, <3>1, MergedTyped
  <2> DEFINE changes == w.changes
  <2>4. rows' = Flushed(rows, changes) /\ ~Refused(rows, changes) /\ tb \in DOMAIN rows
    BY <1>1, <1>2
  <2> HIDE DEF changes
  <2>5. \/ i \in DOMAIN rows[tb] /\ rows'[tb][i] = rows[tb][i]
        \/ \E c \in changes : /\ c.table = tb /\ c.id = i /\ c.was = None /\ c.new # None
                              /\ i \notin DOMAIN rows[tb] /\ rows'[tb][i] = c.new
        \/ \E c \in changes : /\ c.table = tb /\ c.id = i /\ c.was # None
                              /\ c.new \notin {None, c.was} /\ i \in DOMAIN rows[tb]
                              /\ rows'[tb][i] = Merged(rows[tb][i], c.was, c.new)
    BY <2>4, FlushedRow
  <2> QED
    BY <2>1, <2>2, <2>3, <2>5 DEF changes
<1>6. ASSUME NEW tb \in Tables \ {"record"}, NEW i \in DOMAIN rows[tb], i \notin DOMAIN rows'[tb]
      PROVE  FALSE
  <2> DEFINE changes == w.changes
  <2>1. rows' = Flushed(rows, changes) /\ tb \in DOMAIN rows
    BY <1>1, <1>2
  <2> HIDE DEF changes
  <2>2. \E c \in changes : c.table = tb /\ c.id = i /\ c.new = None
    BY <1>6, <2>1, FlushedDomain
  <2> QED
    BY <1>3, <2>2 DEF Fits, changes
<1>7. ASSUME NEW c \in w.changes, c.was = None
      PROVE  c.id \notin DOMAIN rows[c.table] /\ c.id \in DOMAIN rows'[c.table]
  <2>1. c.new # None /\ c.table \in Tables
    BY <1>3, <1>7 DEF Fits
  <2>2. c.id \notin DOMAIN rows[c.table]
    BY <1>1, <1>7, <2>1 DEF Refused
  <2>3. ASSUME NEW d \in w.changes, d.new = None
        PROVE  FALSE
    <3>1. d.table = "record" /\ d.was # None
      BY <1>3, <2>3 DEF Fits
    <3>2. w.event # None /\ w.changes # {}
      BY <1>2, <3>1 DEF WorkFits, Recording
    <3> QED
      BY <1>2, <1>7, <3>1, <3>2 DEF WorkFits, Recording
  <2> DEFINE changes == w.changes
             tb == c.table
  <2>4. rows' = Flushed(rows, changes) /\ tb \in DOMAIN rows /\ c \in changes /\ c.table = tb
        /\ \A d \in changes : d.new # None
    BY <1>1, <1>2, <2>1, <2>3
  <2> HIDE DEF changes, tb
  <2>5. c.id \in DOMAIN rows'[tb]
    BY <1>7, <2>1, <2>4, FlushedDomain
  <2> QED
    BY <2>2, <2>5 DEF tb
<1> QED
  BY <1>1, <1>2, <1>4, <1>5, <1>6, <1>7 DEF w

Takes(s, w) ==
    /\ call[s] = None /\ call' = [call EXCEPT ![s] = w]
    /\ UNCHANGED <<rows, trail, up, answered, cut>>
    /\ uuid' \in {uuid, uuid + 1} /\ calls' \in {calls, calls + 1} /\ calls' <= MaxCalls

\* Rows come on file and stay: what fits still fits.
LEMMA StillFits ==
    ASSUME NEW w, NEW n \in Nat, NEW m \in Nat, n <= m, WorkFits(w, n),
           \A tb \in {"company", "plant", "flag"} : DOMAIN rows[tb] \subseteq DOMAIN rows'[tb]
    PROVE  WorkFits(w, m)'
<1>1. \A c \in w.changes : Fits(c, m)
  BY DEF WorkFits, Fits
<1>2. HomeStands(w)'
  BY DEF WorkFits, HomeStands, Sites
<1>3. Founding(w)'
  BY DEF WorkFits, Founding, HomeOnFile, Sites
<1>4. /\ OwnOnly(w) /\ Recording(w)
      /\ w.entry # None => w.changes = {} /\ w.event = None /\ w.entry.row \in Ledger
  BY DEF WorkFits
<1>5. OwnOnly(w)'
  BY <1>4 DEF OwnOnly
<1>6. Recording(w)'
  BY <1>4 DEF Recording
<1> QED
  BY <1>1, <1>2, <1>3, <1>4, <1>5, <1>6 DEF WorkFits, Fits

\* What a call has in hand fits after a step, if it fits under another name.
LEMMA HandFits ==
    ASSUME NEW u, NEW v, v = call'[u], NEW n, n = uuid', WorkFits(v, n)'
    PROVE  WorkFits(call[u], uuid)'
<1>1. HomeStands(call[u])'
  BY DEF WorkFits, HomeStands
<1>2. OwnOnly(call[u])'
  BY DEF WorkFits, OwnOnly
<1>3. Founding(call[u])'
  BY DEF WorkFits, Founding, HomeOnFile
<1>4. Recording(call[u])'
  BY DEF WorkFits, Recording
<1> QED
  BY <1>1, <1>2, <1>3, <1>4 DEF WorkFits, Fits

\* So does what a call keeps in hand while the rows stay.
LEMMA HandStays ==
    ASSUME BaseInv, NEW u \in Services, call'[u] = call[u], call[u] # None,
           UNCHANGED <<rows, uuid>>
    PROVE  WorkFits(call[u], uuid)'
<1>1. PICK v, n : v = call[u] /\ n = uuid
  OBVIOUS
<1>2. WorkFits(v, n) /\ n \in Nat /\ v = call'[u] /\ n = uuid'
  BY <1>1 DEF BaseInv, RowsTyped
<1>3. WorkFits(v, n)'
  BY <1>2, StillFits
<1> QED
  BY <1>2, <1>3, HandFits

\* A call begins with what fits.
LEMMA BaseTakes ==
    ASSUME BaseInv, NEW s \in Services, NEW w, Takes(s, w), WorkFits(w, uuid')
    PROVE  BaseInv'
<1>1. RowsTyped'
  BY PlatformAssumption DEF BaseInv, RowsTyped, Takes
<1>2. uuid \in Nat /\ uuid' \in Nat /\ uuid <= uuid' /\ rows' = rows
  BY DEF BaseInv, RowsTyped, Takes
<1>3. ASSUME NEW u \in Services, call'[u] # None
      PROVE  WorkFits(call[u], uuid)'
  <2>1. PICK v : v = call'[u]
    OBVIOUS
  <2>2. PICK n, m : n = (IF u = s THEN uuid' ELSE uuid) /\ m = uuid'
    OBVIOUS
  <2>3. WorkFits(v, n)
    BY <1>3, <2>1, <2>2 DEF BaseInv, RowsTyped, Takes
  <2>4. n \in Nat /\ m \in Nat /\ n <= m
    BY <1>2, <2>2
  <2>5. WorkFits(v, m)'
    BY <1>2, <2>3, <2>4, StillFits
  <2> QED
    BY <2>1, <2>2, <2>5, HandFits
<1>4. up' # {} => HomeOnFile'
  BY DEF BaseInv, HomeOnFile, Takes
<1> QED
  BY <1>1, <1>3, <1>4 DEF BaseInv

\* What is left to do after a commit: the entry of a company or a plant.
LEMMA WhatIsLeft ==
    ASSUME NEW w, w.later # None
    PROVE  LET l == AfterCommit(w)
           IN /\ l.by = w.by /\ l.entry = None /\ l.changes = {}
              /\ l.event = w.later /\ l.later = None
              /\ (w.by \in Actors /\ w.later \in Events => l # None)
<1>1. PICK l : l = [by |-> w.by, entry |-> None, changes |-> {}, event |-> w.later,
                    later |-> None]
  OBVIOUS
<1>2. AfterCommit(w) = l
  <2>1. PICK b : b = [by |-> w.by, entry |-> None, changes |-> {}, event |-> None,
                      later |-> None]
    OBVIOUS
  <2>2. By(w.by) = b
    BY <2>1 DEF By, Work
  <2>3. [b EXCEPT !.event = w.later] = l
    BY <1>1, <2>1
  <2> QED
    BY <2>2, <2>3 DEF AfterCommit
<1>3. w.by \in Actors /\ w.later \in Events => l \in LeftOver
  BY <1>1 DEF LeftOver
<1>4. l \in LeftOver => l # None
  BY PlatformAssumption
<1>5. /\ l.by = w.by /\ l.entry = None /\ l.changes = {}
      /\ l.event = w.later /\ l.later = None
  BY <1>1
<1> QED
  BY <1>2, <1>3, <1>4, <1>5

\* After a commit the seeded company and plant are on file.
LEMMA HomeComes ==
    ASSUME BaseInv, NEW s \in Services, Committed(s)
    PROVE  HomeOnFile'
<1> SUFFICES ASSUME NEW tb \in Sites
             PROVE  Home \in DOMAIN rows'[tb]
  BY DEF HomeOnFile
<1>1. WorkFits(call[s], uuid) /\ tb \in Tables \ {"record"}
  BY CommittedRows, TableTypes DEF Sites
<1>2. CASE Home \in DOMAIN rows[tb]
  BY <1>1, <1>2, CommittedRows
<1>3. ASSUME NEW c \in call[s].changes, c.table = tb, c.id = Home, c.was = None
      PROVE  Home \in DOMAIN rows'[tb]
  BY <1>3, CommittedRows
<1> QED
  BY <1>1, <1>2, <1>3 DEF WorkFits, HomeStands

\* What a commit leaves is of its type, and what the others have in hand still
\* fits.
LEMMA BaseCommitted ==
    ASSUME BaseInv, NEW s \in Services, Committed(s)
    PROVE  BaseInv'
<1> DEFINE w == call[s]
<1>1. /\ w # None /\ WorkFits(w, uuid) /\ DOMAIN call = Services
      /\ call' = [call EXCEPT ![s] = AfterCommit(w)] /\ UNCHANGED <<uuid, calls>>
      /\ trail' = IF w.event = None THEN trail ELSE Append(trail, w.event)
  BY CommittedRows DEF Committed, Commit, BaseInv, RowsTyped
<1> HIDE DEF w
<1>2. \A tb \in {"company", "plant", "flag"} : DOMAIN rows[tb] \subseteq DOMAIN rows'[tb]
  BY CommittedRows, TableTypes
<1>3. HomeOnFile'
  BY HomeComes
<1>4. RowsTyped'
  <2>1. trail' \in Seq(Events)
    BY <1>1 DEF BaseInv, RowsTyped, WorkFits, Recording
  <2>2. \A i \in DOMAIN rows'["record"] : i \in 0..uuid
    <3> SUFFICES ASSUME NEW i \in DOMAIN rows'["record"], i \notin DOMAIN rows["record"]
                 PROVE  i \in 0..uuid
      BY DEF BaseInv, RowsTyped
    <3>1. \E c \in w.changes : c.table = "record" /\ c.id = i
      BY CommittedRows, TableTypes DEF w
    <3> QED
      BY <1>1, <3>1 DEF WorkFits, Fits
  <2>3. \A i \in DOMAIN rows'["company"] : i \in Companies
    <3> SUFFICES ASSUME NEW i \in DOMAIN rows'["company"], i \notin DOMAIN rows["company"]
                 PROVE  i \in Companies
      BY DEF BaseInv, RowsTyped
    <3>1. \E c \in w.changes : c.table = "company" /\ c.id = i
      BY CommittedRows, TableTypes DEF w
    <3> QED
      BY <1>1, <3>1 DEF WorkFits, Fits, Sites
  <2>4. DOMAIN call' = Services
    BY <1>1
  <2> QED
    BY <1>1, <2>1, <2>2, <2>3, <2>4, CommittedRows DEF BaseInv, RowsTyped
<1>5. ASSUME NEW u \in Services, call'[u] # None
      PROVE  WorkFits(call[u], uuid)'
  <2>1. CASE u # s
    <3>1. PICK v, n : v = call[u] /\ n = uuid
      OBVIOUS
    <3>2. call'[u] = v /\ uuid' = n /\ WorkFits(v, n) /\ n \in Nat
      BY <1>1, <1>5, <2>1, <3>1 DEF BaseInv, RowsTyped
    <3>3. WorkFits(v, n)'
      BY <1>2, <3>2, StillFits
    <3> QED
      BY <3>2, <3>3, HandFits
  <2>2. CASE u = s
    <3>1. PICK l : l = AfterCommit(w)
      OBVIOUS
    <3>2. call'[u] = l /\ l # None
      BY <1>1, <1>5, <2>2, <3>1
    <3>3. w.later # None
      BY <3>1, <3>2 DEF AfterCommit
    <3>4. /\ l.by = w.by /\ l.entry = None /\ l.changes = {} /\ l.event = w.later /\ l.later = None
      BY <3>1, <3>3, WhatIsLeft
    <3>5. w.later \in Events /\ w.later.id \in Sites \X Companies
      <4>1. PICK c \in w.changes : c.table \in Sites /\ w.later.id = <<c.table, c.id>>
        BY <1>1, <3>3 DEF WorkFits, Founding
      <4>2. c.id \in Companies
        BY <1>1, <4>1 DEF WorkFits, Fits
      <4> QED
        BY <1>1, <3>3, <4>1, <4>2 DEF WorkFits, Founding
    <3>6. w.by # None /\ ~w.by.override => w.later.company = w.by.company
      BY <1>1, <3>3 DEF WorkFits, OwnOnly
    <3>7. PICK n : n = uuid'
      OBVIOUS
    <3>8. WorkFits(l, n)'
      BY <1>3, <3>4, <3>5, <3>6
         DEF WorkFits, HomeStands, HomeOnFile, OwnOnly, Founding, Recording
    <3> QED
      BY <3>2, <3>7, <3>8 DEF WorkFits, Fits, HomeStands, OwnOnly, Founding, Recording, HomeOnFile
  <2> QED
    BY <2>1, <2>2
<1> QED
  BY <1>3, <1>4, <1>5 DEF BaseInv

\* A call that is refused or cut off is gone.
LEMMA BaseEnds ==
    ASSUME BaseInv, NEW s \in Services, call' = [call EXCEPT ![s] = None],
           UNCHANGED <<rows, trail, uuid, calls>>, up' \subseteq up
    PROVE  BaseInv'
<1>1. RowsTyped'
  BY DEF BaseInv, RowsTyped
<1>2. ASSUME NEW u \in Services, call'[u] # None
      PROVE  WorkFits(call[u], uuid)'
  <2>1. call'[u] = call[u]
    BY <1>2 DEF BaseInv, RowsTyped
  <2> QED
    BY <1>2, <2>1, HandStays
<1> QED
  BY <1>1, <1>2 DEF BaseInv, HomeOnFile

\* A number is looked up for a row that is a row of the ledger.
LEMMA BaseLookUp ==
    ASSUME BaseInv, NEW s \in Services, LookUp(s)
    PROVE  BaseInv'
<1> DEFINE w == call[s]
<1>1. PICK c : c = Found(w.entry.id, w.entry.row)
  OBVIOUS
<1>2. PICK l : l = [by |-> None, entry |-> None, changes |-> {c}, event |-> None, later |-> None]
  OBVIOUS
<1>3. /\ call' = [call EXCEPT ![s] = l] /\ UNCHANGED <<rows, trail, up, uuid, calls>>
      /\ w # None /\ w.entry # None
  <2>1. [Work EXCEPT !.changes = {c}] = l
    BY <1>2 DEF Work
  <2> QED
    BY <1>1, <2>1 DEF LookUp
<1>4. WorkFits(w, uuid) /\ w.entry.row \in Ledger /\ HomeOnFile /\ uuid \in Nat
  BY <1>3 DEF BaseInv, RowsTyped, WorkFits, HomeStands, HomeOnFile
<1>5. c.table = "ledger" /\ c.new = w.entry.row
      /\ c.was \in {None} \cup {rows["ledger"][i] : i \in DOMAIN rows["ledger"]}
  BY <1>1 DEF Found, Change, Read
<1>6. c.was \in Ledger \cup {None} /\ c.new \in Ledger /\ c.new # None
  BY <1>4, <1>5, TableTypes DEF BaseInv, RowsTyped
<1>7. Fits(c, uuid)
  BY <1>5, <1>6, TableTypes DEF Fits, Sites
<1> HIDE DEF w
<1>8. WorkFits(l, uuid)
  BY <1>2, <1>4, <1>5, <1>7
     DEF WorkFits, HomeStands, HomeOnFile, OwnOnly, Founding, Recording, Sites
<1>9. RowsTyped' /\ (up' # {} => HomeOnFile')
  BY <1>3 DEF BaseInv, RowsTyped, HomeOnFile
<1>10. ASSUME NEW u \in Services, call'[u] # None
      PROVE  WorkFits(call[u], uuid)'
  <2>1. PICK v, n : v = call'[u] /\ n = uuid
    OBVIOUS
  <2>2. WorkFits(v, n) /\ n \in Nat /\ n = uuid' /\ rows' = rows
    BY <1>3, <1>8, <1>10, <2>1 DEF BaseInv, RowsTyped
  <2>3. WorkFits(v, n)'
    BY <2>2, StillFits
  <2> QED
    BY <2>1, <2>2, <2>3, HandFits
<1> QED
  BY <1>9, <1>10 DEF BaseInv

-----------------------------------------------------------------------------
(* What the calls begin with. *)

\* A record is new and has the id that was given to it, or is one on file; no
\* call begins with an entry alone.
NewRecords(w) ==
    /\ w.event # None => w.changes # {}
    /\ \A c \in w.changes : c.table = "record" =>
         IF c.was = None THEN c.id = 0 \/ (c.id = uuid + 1 /\ uuid' = uuid + 1)
                         ELSE c.id \in DOMAIN rows["record"]

Ready(w) ==
    /\ WorkFits(w, uuid') /\ NewRecords(w) /\ Numbers(w, calls')
    /\ \A e \in Counting(w) : e.row.call # 0 => e.row.call = calls + 1 /\ calls' = calls + 1

Calls(s) == \E w : Takes(s, w) /\ Ready(w)

InHand(by, changes, event, later) ==
    [by |-> by, entry |-> None, changes |-> changes, event |-> event, later |-> later]

\* The ways in which the handlers write down what they have in hand.
LEMMA Spelled ==
    ASSUME NEW by
    PROVE  /\ Work = InHand(None, {}, None, None)
           /\ By(by) = InHand(by, {}, None, None)
BY DEF Work, By, InHand

\* A call begins in a service that is up, so the seeds are on file.
LEMMA Begun ==
    ASSUME BaseInv, NEW s \in Services, NEW w, Begin(s, w), uuid' \in {uuid, uuid + 1}
    PROVE  Takes(s, w) /\ HomeOnFile /\ calls' = calls + 1
BY PlatformAssumption DEF Begin, Takes, BaseInv, RowsTyped

\* Nothing is counted in a call that has nothing of the ledger in hand.
LEMMA NotCounting ==
    ASSUME NEW w, w.entry = None, \A c \in w.changes : c.table # "ledger"
    PROVE  /\ Numbers(w, calls')
           /\ \A e \in Counting(w) : e.row.call # 0 => e.row.call = calls + 1 /\ calls' = calls + 1
<1>1. Counting(w) = {}
  BY DEF Counting
<1> QED
  BY <1>1, FS_EmptySet DEF Numbers

\* One change of a row that is neither of the ledger nor a record, a company or a
\* plant, without an entry in the audit log.
LEMMA PlainReady ==
    ASSUME BaseInv, HomeOnFile, NEW by, NEW c, Fits(c, uuid'),
           c.table \notin {"company", "plant", "record", "ledger"},
           by # None /\ ~by.override =>
             /\ c.table \in {"department", "user"} => c.was = None /\ c.new.company = by.company
             /\ c.table = "flag" => c.id[1] = by.company
    PROVE  Ready(InHand(by, {c}, None, None))
<1>1. PICK w : w = InHand(by, {c}, None, None)
  OBVIOUS
<1>2. w.by = by /\ w.entry = None /\ w.changes = {c} /\ w.event = None /\ w.later = None
  BY <1>1 DEF InHand
<1>3. WorkFits(w, uuid')
  BY <1>2 DEF WorkFits, HomeStands, HomeOnFile, OwnOnly, Founding, Recording, Sites
<1>4. NewRecords(w)
  BY <1>2 DEF NewRecords
<1>5. /\ Numbers(w, calls')
      /\ \A e \in Counting(w) : e.row.call # 0 => e.row.call = calls + 1 /\ calls' = calls + 1
  BY <1>2, NotCounting
<1> QED
  BY <1>1, <1>3, <1>4, <1>5 DEF Ready

\* The same of the row a handler creates under an id of its own.
LEMMA CreateCalls ==
    ASSUME BaseInv, NEW s \in Services, NEW by, NEW company \in Companies,
           NEW tb \in {"user", "role", "task", "document", "requisition"},
           by # None /\ ~by.override => company = by.company,
           Create(s, InHand(by, {}, None, None), tb, [company |-> company])
    PROVE  Calls(s)
<1>1. PICK c : c = Change(tb, Fresh, None, [company |-> company])
  OBVIOUS
<1>2. PICK w : w = InHand(by, {c}, None, None)
  OBVIOUS
<1>3. Begin(s, w) /\ uuid' = uuid + 1
  <2>1. PICK changes : changes = {c}
    OBVIOUS
  <2>2. [InHand(by, {}, None, None) EXCEPT !.changes = changes] = w
    BY <1>2, <2>1 DEF InHand
  <2> QED
    BY <1>1, <2>1, <2>2 DEF Create, Fresh
<1>4. Takes(s, w) /\ HomeOnFile
  BY <1>3, Begun
<1>5. c.table = tb /\ c.was = None /\ c.new = [company |-> company] /\ c.new.company = company
  BY <1>1 DEF Change
<1>6. c.new \in RowOf[tb] /\ tb \in Tables /\ c.new # None
  <2>1. tb \in Tables \ {"flag", "approval", "record", "ledger"}
    BY TableTypes
  <2>2. RowOf[tb] = Owned /\ None \notin Owned
    BY <2>1, TableTypes
  <2>3. [company |-> company] \in Owned
    BY DEF Owned
  <2> QED
    BY <1>5, <2>1, <2>2, <2>3
<1>7. Fits(c, uuid')
  BY <1>5, <1>6 DEF Fits, Sites
<1>8. Ready(w)
  BY <1>2, <1>4, <1>5, <1>7, PlainReady
<1> QED
  BY <1>4, <1>8 DEF Calls

\* And of one change of a row that has an id.
LEMMA ChangeCalls ==
    ASSUME BaseInv, NEW s \in Services, NEW by, NEW c, Fits(c, uuid),
           c.table \notin {"company", "plant", "record", "ledger"},
           by # None /\ ~by.override =>
             /\ c.table \in {"department", "user"} => c.was = None /\ c.new.company = by.company
             /\ c.table = "flag" => c.id[1] = by.company,
           Change1(s, c, InHand(by, {}, None, None))
    PROVE  Calls(s)
<1>1. PICK w : w = InHand(by, {c}, None, None)
  OBVIOUS
<1>2. Begin(s, w) /\ uuid' = uuid
  <2>1. PICK changes : changes = {c}
    OBVIOUS
  <2>2. [InHand(by, {}, None, None) EXCEPT !.changes = changes] = w
    BY <1>1, <2>1 DEF InHand
  <2> QED
    BY <2>1, <2>2 DEF Change1
<1>3. Takes(s, w) /\ HomeOnFile
  BY <1>2, Begun
<1>4. Ready(w)
  BY <1>1, <1>2, <1>3, PlainReady
<1> QED
  BY <1>3, <1>4 DEF Calls

\* What is read of a row is a row, or none.
LEMMA ReadFits ==
    ASSUME BaseInv, NEW tb \in Tables, NEW i
    PROVE  /\ Read(rows, tb, i) \in RowOf[tb] \cup {None}
           /\ Read(rows, tb, i) = None <=> i \notin DOMAIN rows[tb]
BY TableTypes DEF Read, BaseInv, RowsTyped

\* create_department, create_user, create_role, create_permission, the flags,
\* tasks, documents, requisitions and decisions.
LEMMA SimpleCalls ==
    ASSUME BaseInv, NEW s \in Services,
           \/ CreateDepartment(s) \/ CreateUser(s) \/ CreateRole(s) \/ CreatePermission(s)
           \/ SetFeatureFlag(s) \/ EnableModule(s) \/ DisableModule(s)
           \/ CreateTask(s) \/ CreateRequisition(s) \/ UploadDocument(s) \/ DecideApproval(s)
    PROVE  Calls(s)
<1>h. Home \in Companies /\ Actors \subseteq [company : Companies, override : BOOLEAN]
  BY PlatformAssumption DEF Companies
<1>o. \A c \in Companies : [company |-> c] \in Owned /\ [company |-> c].company = c
  BY DEF Owned
<1>1. CASE CreateDepartment(s)
  <2>1. PICK actor \in Actors, company \in Companies, code \in Companies :
          /\ Allowed(actor, company)
          /\ Change1(s, Change("department", code, None, [company |-> company]), By(actor))
    BY <1>1 DEF CreateDepartment
  <2>2. PICK c : c = Change("department", code, None, [company |-> company])
    OBVIOUS
  <2>3. /\ c.table = "department" /\ c.was = None /\ c.new \in Owned
        /\ c.new.company = company
    BY <1>o, <2>2 DEF Change
  <2>4. Fits(c, uuid)
    BY <2>3, TableTypes DEF Fits, Sites
  <2>5. Change1(s, c, InHand(actor, {}, None, None))
    BY <2>1, <2>2, Spelled
  <2>6. ~actor.override => company = actor.company
    BY <2>1 DEF Allowed
  <2> QED
    BY <2>3, <2>4, <2>5, <2>6, ChangeCalls
<1>2. CASE CreateUser(s) \/ CreateRole(s)
  <2>1. PICK actor \in Actors, company \in Companies, tb \in {"user", "role"} :
          Allowed(actor, company) /\ Create(s, By(actor), tb, [company |-> company])
    BY <1>2 DEF CreateUser, CreateRole
  <2>2. Create(s, InHand(actor, {}, None, None), tb, [company |-> company])
    BY <2>1, Spelled
  <2>3. ~actor.override => company = actor.company
    BY <2>1 DEF Allowed
  <2> QED
    BY <2>2, <2>3, CreateCalls
<1>3. CASE CreatePermission(s)
  <2>1. PICK key \in Companies :
          Change1(s, Change("permission", key, None, [company |-> Home]), Work)
    BY <1>3 DEF CreatePermission
  <2>2. PICK c : c = Change("permission", key, None, [company |-> Home])
    OBVIOUS
  <2>3. c.table = "permission" /\ c.was = None /\ c.new \in Owned
    BY <1>h, <1>o, <2>2 DEF Change
  <2>4. Fits(c, uuid)
    BY <2>3, TableTypes DEF Fits, Sites
  <2>5. Change1(s, c, InHand(None, {}, None, None))
    BY <2>1, <2>2, Spelled
  <2> QED
    BY <2>3, <2>4, <2>5, ChangeCalls
<1>4. CASE SetFeatureFlag(s) \/ EnableModule(s) \/ DisableModule(s)
  <2>1. PICK actor \in Actors, company \in Companies, enabled \in BOOLEAN :
          SetFlag(s, actor, company, enabled)
    BY <1>4 DEF SetFeatureFlag, EnableModule, DisableModule
  <2>2. PICK m \in ModuleKeys :
          /\ Allowed(actor, company)
          /\ Change1(s, Change("flag", <<company, m>>, Read(rows, "flag", <<company, m>>),
                               [enabled |-> enabled]), By(actor))
    BY <2>1 DEF SetFlag
  <2>3. PICK i, r : i = <<company, m>> /\ r = Read(rows, "flag", i)
    OBVIOUS
  <2>4. PICK c : c = Change("flag", i, r, [enabled |-> enabled])
    OBVIOUS
  <2>5. r \in Flag \cup {None}
    BY <2>3, ReadFits, TableTypes
  <2>6. c.table = "flag" /\ c.id[1] = company /\ c.was = r /\ c.new \in Flag /\ c.new # None
    BY <2>3, <2>4, TableTypes DEF Change, Flag
  <2>7. Fits(c, uuid)
    BY <2>5, <2>6, TableTypes DEF Fits, Sites
  <2>8. Change1(s, c, InHand(actor, {}, None, None))
    BY <2>2, <2>3, <2>4, Spelled
  <2>9. ~actor.override => company = actor.company
    BY <2>2 DEF Allowed
  <2> QED
    BY <2>6, <2>7, <2>8, <2>9, ChangeCalls
<1>5. CASE CreateTask(s) \/ CreateRequisition(s) \/ UploadDocument(s)
  <2>1. PICK tb \in {"task", "document", "requisition"} :
          Create(s, Work, tb, [company |-> Home])
    BY <1>5 DEF CreateTask, CreateRequisition, UploadDocument
  <2>2. Create(s, InHand(None, {}, None, None), tb, [company |-> Home])
    BY <2>1, Spelled
  <2> QED
    BY <1>h, <2>2, CreateCalls
<1>6. CASE DecideApproval(s)
  <2>1. PICK actor \in Actors, status \in {"APPROVED", "REJECTED"} :
          Change1(s, Change("approval", 1, Read(rows, "approval", 1),
                            [status |-> status, decided_by |-> actor]), Work)
    BY <1>6 DEF DecideApproval
  <2>2. PICK r : r = Read(rows, "approval", 1)
    OBVIOUS
  <2>3. PICK c : c = Change("approval", 1, r, [status |-> status, decided_by |-> actor])
    OBVIOUS
  <2>4. r \in Approval \cup {None}
    BY <2>2, ReadFits, TableTypes
  <2>5. c.table = "approval" /\ c.was = r /\ c.new \in Approval /\ c.new # None
    BY <2>3, TableTypes DEF Change, Approval
  <2>6. Fits(c, uuid)
    BY <2>4, <2>5, TableTypes DEF Fits, Sites
  <2>7. Change1(s, c, InHand(None, {}, None, None))
    BY <2>1, <2>2, <2>3, Spelled
  <2> QED
    BY <2>5, <2>6, <2>7, ChangeCalls
<1> QED
  BY <1>1, <1>2, <1>3, <1>4, <1>5, <1>6

\* The entry of a company or a plant, which is committed after it.
LEMMA SiteEvents ==
    ASSUME NEW tb \in Sites, NEW action \in {"CREATE_COMPANY", "CREATE_PLANT"},
           NEW company \in Companies, NEW code \in Companies
    PROVE  LET e == Event(action, company, <<tb, code>>, None, None)
           IN e \in Events /\ e # None /\ e.company = company /\ e.id = <<tb, code>>
<1>1. PICK e : e = Event(action, company, <<tb, code>>, None, None)
  OBVIOUS
<1>2. e \in Events /\ e.company = company /\ e.id = <<tb, code>>
  BY <1>1 DEF Event, Events, Sites
<1> QED
  BY <1>1, <1>2, PlatformAssumption

\* A company or a plant with what comes with it, and the entry that is left.
LEMMA SiteReady ==
    ASSUME BaseInv, HomeOnFile, NEW by \in Actors, NEW changes, NEW c \in changes,
           NEW e \in Events, e # None,
           \A d \in changes : Fits(d, uuid') /\ (d.table \in Sites => d = c)
                              /\ d.table \in {"company", "plant", "flag"},
           c.table \in Sites, e.id = <<c.table, c.id>>,
           c.table = "company" => by.override /\ \A m \in ModuleKeys : \E d \in changes :
              d.table = "flag" /\ d.id = <<c.id, m>> /\ d.was = None,
           c.table = "plant" => changes = {c} /\ e.company = c.new.company,
           ~by.override => e.company = by.company
    PROVE  Ready(InHand(by, changes, None, e))
<1>1. PICK w : w = InHand(by, changes, None, e)
  OBVIOUS
<1>2. w.by = by /\ w.entry = None /\ w.changes = changes /\ w.event = None /\ w.later = e
  BY <1>1 DEF InHand
<1>3. \A d \in changes : Fits(d, uuid')
  OBVIOUS
<1>4. HomeStands(w)
  BY DEF HomeStands, HomeOnFile
<1>5. Founding(w)
  <2>1. \A d \in changes : d.table = "company" => d = c
    BY DEF Sites
  <2> QED
    BY <1>2, <2>1 DEF Founding
<1>6. OwnOnly(w)
  <2>1. c.was = None
    BY DEF Fits
  <2> QED
    BY <1>2, <2>1 DEF OwnOnly, Sites
<1>7. Recording(w)
  BY <1>2 DEF Recording
<1>8. WorkFits(w, uuid')
  BY <1>2, <1>3, <1>4, <1>5, <1>6, <1>7 DEF WorkFits
<1>9. NewRecords(w) /\ Numbers(w, calls')
      /\ \A x \in Counting(w) : x.row.call # 0 => x.row.call = calls + 1 /\ calls' = calls + 1
  BY <1>2, NotCounting DEF NewRecords
<1> QED
  BY <1>1, <1>8, <1>9 DEF Ready

\* create_plant: the entry comes in a commit of its own.
LEMMA PlantCalls ==
    ASSUME BaseInv, NEW s \in Services, CreatePlant(s)
    PROVE  Calls(s)
<1>1. PICK actor \in Actors, company \in DOMAIN rows["company"], code \in Companies :
        /\ Allowed(actor, company)
        /\ Change1(s, Change("plant", code, None, [company |-> company]),
                   [By(actor) EXCEPT !.later =
                      Event("CREATE_PLANT", company, <<"plant", code>>, None, None)])
  BY DEF CreatePlant
<1>2. PICK c : c = Change("plant", code, None, [company |-> company])
  OBVIOUS
<1>3. PICK e : e = Event("CREATE_PLANT", company, <<"plant", code>>, None, None)
  OBVIOUS
<1>4. company \in Companies
  BY DEF BaseInv, RowsTyped
<1>5. c.table = "plant" /\ c.id = code /\ c.was = None /\ c.new.company = company /\ c.new \in Owned
  BY <1>2, <1>4 DEF Change, Owned
<1>6. Fits(c, uuid')
  BY <1>5, TableTypes DEF Fits, Sites
<1>7. e \in Events /\ e # None /\ e.company = company /\ e.id = <<"plant", code>>
  BY <1>3, <1>4, SiteEvents DEF Sites
<1>8. PICK w, changes : w = InHand(actor, changes, None, e) /\ changes = {c}
  OBVIOUS
<1>9. Begin(s, w) /\ uuid' = uuid
  <2>1. [By(actor) EXCEPT !.later = e] = InHand(actor, {}, None, e)
    BY Spelled DEF InHand
  <2>2. [InHand(actor, {}, None, e) EXCEPT !.changes = changes] = w
    BY <1>8 DEF InHand
  <2> QED
    BY <1>1, <1>2, <1>3, <1>8, <2>1, <2>2 DEF Change1
<1>10. Takes(s, w) /\ HomeOnFile
  BY <1>9, Begun
<1>11. ~actor.override => e.company = actor.company
  BY <1>1, <1>7 DEF Allowed
<1>12. Ready(w)
  <2>1. c \in changes /\ \A d \in changes : d = c
    BY <1>8
  <2>2. c.table \in Sites /\ c.table # "company" /\ c.table \in {"company", "plant", "flag"}
    BY <1>5 DEF Sites
  <2>3. Ready(InHand(actor, changes, None, e))
    BY <1>5, <1>6, <1>7, <1>8, <1>10, <1>11, <2>1, <2>2, SiteReady
  <2> QED
    BY <1>8, <2>3
<1> QED
  BY <1>10, <1>12 DEF Calls

\* create_company: the company and a flag for every module.
LEMMA CompanyCalls ==
    ASSUME BaseInv, NEW s \in Services, CreateCompany(s)
    PROVE  Calls(s)
<1>1. PICK actor \in Actors, code \in Companies :
        /\ actor.override
        /\ Begin(s, [By(actor) EXCEPT
                       !.changes = {Change("company", code, None, [company |-> code])}
                                      \cup FlagsOf(code),
                       !.later = Event("CREATE_COMPANY", code, <<"company", code>>, None, None)])
        /\ UNCHANGED uuid
  BY DEF CreateCompany
<1>2. PICK c : c = Change("company", code, None, [company |-> code])
  OBVIOUS
<1>3. PICK e : e = Event("CREATE_COMPANY", code, <<"company", code>>, None, None)
  OBVIOUS
<1>4. c.table = "company" /\ c.id = code /\ c.was = None /\ c.new \in Owned
  BY <1>2 DEF Change, Owned
<1>5. Fits(c, uuid')
  BY <1>4, TableTypes DEF Fits, Sites
<1>6. e \in Events /\ e # None /\ e.company = code /\ e.id = <<"company", code>>
  BY <1>3, SiteEvents DEF Sites
<1>7. ASSUME NEW d \in FlagsOf(code)
      PROVE  d.table = "flag" /\ Fits(d, uuid')
  <2>1. PICK m \in ModuleKeys : d = Change("flag", <<code, m>>, None, [enabled |-> TRUE])
    BY DEF FlagsOf
  <2>2. d.table = "flag" /\ d.was = None /\ d.new \in Flag
    BY <2>1 DEF Change, Flag
  <2> QED
    BY <2>2, TableTypes DEF Fits, Sites
<1>8. \A m \in ModuleKeys : \E d \in FlagsOf(code) :
        d.table = "flag" /\ d.id = <<code, m>> /\ d.was = None
  <2> SUFFICES ASSUME NEW m \in ModuleKeys
               PROVE  \E d \in FlagsOf(code) :
                        d.table = "flag" /\ d.id = <<code, m>> /\ d.was = None
    OBVIOUS
  <2>1. PICK d : d = Change("flag", <<code, m>>, None, [enabled |-> TRUE])
    OBVIOUS
  <2>2. d \in FlagsOf(code)
    BY <2>1 DEF FlagsOf
  <2> QED
    BY <2>1, <2>2 DEF Change
<1>9. PICK w, changes : w = InHand(actor, changes, None, e) /\ changes = {c} \cup FlagsOf(code)
  OBVIOUS
<1>10. Begin(s, w)
  <2>1. PICK b : b = InHand(actor, {}, None, None)
    OBVIOUS
  <2>2. PICK v : v = InHand(actor, changes, None, None)
    OBVIOUS
  <2>3. [b EXCEPT !.changes = changes] = v
    BY <2>1, <2>2 DEF InHand
  <2>4. [v EXCEPT !.later = e] = w
    BY <1>9, <2>2 DEF InHand
  <2>5. [b EXCEPT !.changes = changes, !.later = e] = [[b EXCEPT !.changes = changes] EXCEPT !.later = e]
    OBVIOUS
  <2>6. By(actor) = b
    BY <2>1, Spelled
  <2>7. [b EXCEPT !.changes = changes, !.later = e] = w
    BY <2>3, <2>4, <2>5
  <2> QED
    BY <1>1, <1>2, <1>3, <1>9, <2>6, <2>7
<1>11. Takes(s, w) /\ HomeOnFile
  BY <1>1, <1>10, Begun
<1>12. Ready(w)
  <2>1. c \in changes /\ \A d \in changes : d = c \/ d \in FlagsOf(code)
    BY <1>9
  <2>2. c.table \in Sites /\ "flag" \notin Sites
    BY <1>4 DEF Sites
  <2>3. \A d \in changes : Fits(d, uuid') /\ (d.table \in Sites => d = c)
                           /\ d.table \in {"company", "plant", "flag"}
    BY <1>4, <1>5, <1>7, <2>1, <2>2
  <2>4. \A m \in ModuleKeys : \E d \in changes :
          d.table = "flag" /\ d.id = <<c.id, m>> /\ d.was = None
    BY <1>4, <1>8, <1>9
  <2>5. Ready(InHand(actor, changes, None, e))
    BY <1>1, <1>4, <1>6, <1>11, <2>1, <2>2, <2>3, <2>4, SiteReady
  <2> QED
    BY <1>9, <2>5
<1> QED
  BY <1>11, <1>12 DEF Calls

-----------------------------------------------------------------------------
(* Records. *)

\* The entry of a record, which is committed with it.
LEMMA RecordEvents ==
    ASSUME NEW action \in {"CREATE", "UPDATE", "DELETE"}, NEW company \in Companies,
           NEW i \in Nat, NEW old \in ModuleRecord \cup {None}, NEW new \in ModuleRecord \cup {None},
           NEW e, e = Event(action, company, <<"record", i>>, old, new)
    PROVE  /\ e \in Events /\ e # None /\ e.company = company /\ e.id = <<"record", i>>
           /\ e.action = action /\ e.old = old /\ e.new = new
<1>1. /\ e \in Events /\ e.company = company /\ e.id = <<"record", i>>
      /\ e.action = action /\ e.old = old /\ e.new = new
  BY DEF Event, Events
<1> QED
  BY <1>1, PlatformAssumption

\* One change of a record, with its entry if it has one.
LEMMA RecordReady ==
    ASSUME BaseInv, HomeOnFile, NEW by, NEW c, Fits(c, uuid'), c.table = "record", NEW e,
           c.was # None => e # None,
           e # None => /\ e \in Events /\ e.id = <<"record", c.id>> /\ e.new = c.new
                       /\ IF c.was = None THEN e.action = "CREATE"
                          ELSE e.old = c.was
                               /\ e.action = IF c.new = None THEN "DELETE" ELSE "UPDATE",
           by # None /\ ~by.override /\ e # None => e.company = by.company,
           IF c.was = None THEN c.id = uuid + 1 /\ uuid' = uuid + 1
                           ELSE c.id \in DOMAIN rows["record"]
    PROVE  Ready(InHand(by, {c}, e, None))
<1>1. PICK w : w = InHand(by, {c}, e, None)
  OBVIOUS
<1>2. w.by = by /\ w.entry = None /\ w.changes = {c} /\ w.event = e /\ w.later = None
  BY <1>1 DEF InHand
<1>3. OwnOnly(w)
  BY <1>2 DEF OwnOnly
<1>4. Founding(w) /\ HomeStands(w)
  BY <1>2 DEF Founding, Sites, HomeStands, HomeOnFile
<1>5. Recording(w)
  BY <1>2 DEF Recording
<1>6. NewRecords(w)
  BY <1>2 DEF NewRecords
<1>7. Numbers(w, calls')
      /\ \A x \in Counting(w) : x.row.call # 0 => x.row.call = calls + 1 /\ calls' = calls + 1
  BY <1>2, NotCounting
<1> QED
  BY <1>1, <1>2, <1>3, <1>4, <1>5, <1>6, <1>7 DEF Ready, WorkFits

\* create_module_router: a record without an entry.
LEMMA ModuleRecordCalls ==
    ASSUME BaseInv, NEW s \in Services, CreateModuleRecord(s)
    PROVE  Calls(s)
<1>1. PICK row \in ModuleRecord : Create(s, Work, "record", row)
  BY DEF CreateModuleRecord, ModuleRecord
<1>2. PICK c : c = Change("record", Fresh, None, row)
  OBVIOUS
<1>3. PICK w, changes : w = InHand(None, changes, None, None) /\ changes = {c}
  OBVIOUS
<1>4. Begin(s, w) /\ uuid' = uuid + 1
  <2>1. [InHand(None, {}, None, None) EXCEPT !.changes = changes] = w
    BY <1>3 DEF InHand
  <2> QED
    BY <1>1, <1>2, <1>3, <2>1, Spelled DEF Create, Fresh
<1>5. Takes(s, w) /\ HomeOnFile /\ uuid \in Nat
  BY <1>4, Begun DEF BaseInv, RowsTyped
<1>6. c.table = "record" /\ c.was = None /\ c.new = row /\ c.id = uuid + 1
  BY <1>2 DEF Change, Fresh
<1>7. Fits(c, uuid')
  BY <1>4, <1>5, <1>6, TableTypes DEF Fits, Sites
<1>8. Ready(InHand(None, {c}, None, None))
  BY <1>4, <1>5, <1>6, <1>7, RecordReady
<1> QED
  BY <1>3, <1>5, <1>8 DEF Calls

\* create_record: with its entry, under an id of its own.
LEMMA CreateRecordCalls ==
    ASSUME BaseInv, NEW s \in Services, CreateRecord(s)
    PROVE  Calls(s)
<1>a. Actors \subseteq [company : Companies, override : BOOLEAN]
  BY PlatformAssumption
<1>1. PICK actor \in Actors, asked \in Companies \cup {None}, m \in ModuleKeys,
           status \in Statuses :
        LET row == [company |-> TargetCompany(actor, asked), module |-> m, status |-> status]
        IN /\ Begin(s, [By(actor) EXCEPT
                !.changes = {Change("record", Fresh, None, row)},
                !.event = Event("CREATE", actor.company, <<"record", Fresh>>, None, row)])
           /\ uuid' = Fresh
  BY DEF CreateRecord
<1>2. PICK row : row = [company |-> TargetCompany(actor, asked), module |-> m, status |-> status]
  OBVIOUS
<1>3. row \in ModuleRecord
  BY <1>a, <1>2 DEF TargetCompany, ModuleRecord
<1>4. PICK c : c = Change("record", Fresh, None, row)
  OBVIOUS
<1>5. PICK e : e = Event("CREATE", actor.company, <<"record", Fresh>>, None, row)
  OBVIOUS
<1>6. PICK w, changes : w = InHand(actor, changes, e, None) /\ changes = {c}
  OBVIOUS
<1>7. Begin(s, w) /\ uuid' = uuid + 1
  <2>1. PICK b : b = InHand(actor, {}, None, None)
    OBVIOUS
  <2>2. PICK v : v = InHand(actor, changes, None, None)
    OBVIOUS
  <2>3. [b EXCEPT !.changes = changes] = v
    BY <2>1, <2>2 DEF InHand
  <2>4. [v EXCEPT !.event = e] = w
    BY <1>6, <2>2 DEF InHand
  <2>5. [b EXCEPT !.changes = changes, !.event = e] = [[b EXCEPT !.changes = changes] EXCEPT !.event = e]
    OBVIOUS
  <2>6. By(actor) = b
    BY <2>1, Spelled
  <2>7. [b EXCEPT !.changes = changes, !.event = e] = w
    BY <2>3, <2>4, <2>5
  <2> QED
    BY <1>1, <1>2, <1>4, <1>5, <1>6, <2>6, <2>7 DEF Fresh
<1>8. Takes(s, w) /\ HomeOnFile /\ uuid \in Nat /\ Fresh \in Nat /\ Fresh = uuid + 1
  BY <1>7, Begun DEF BaseInv, RowsTyped, Fresh
<1>9. c.table = "record" /\ c.was = None /\ c.new = row /\ c.id = uuid + 1
  BY <1>4, <1>8 DEF Change
<1>10. Fits(c, uuid')
  BY <1>3, <1>7, <1>8, <1>9, TableTypes DEF Fits, Sites
<1>11. /\ e \in Events /\ e # None /\ e.company = actor.company /\ e.id = <<"record", c.id>>
       /\ e.action = "CREATE" /\ e.new = row
  <2>1. PICK k, action, old, company :
           k = Fresh /\ action = "CREATE" /\ old = None /\ company = actor.company
    OBVIOUS
  <2>2. k \in Nat /\ k = c.id /\ company \in Companies
    BY <1>a, <1>8, <1>9, <2>1
  <2>3. action \in {"CREATE", "UPDATE", "DELETE"} /\ row \in ModuleRecord \cup {None}
        /\ old \in ModuleRecord \cup {None}
    BY <1>3, <2>1
  <2>4. e = Event(action, company, <<"record", k>>, old, row)
    BY <1>5, <2>1
  <2>5. /\ e \in Events /\ e # None /\ e.company = company /\ e.id = <<"record", k>>
        /\ e.action = action /\ e.new = row
    BY <2>2, <2>3, <2>4, RecordEvents
  <2> QED
    BY <2>1, <2>2, <2>5
<1>12. Ready(InHand(actor, {c}, e, None))
  BY <1>7, <1>8, <1>9, <1>10, <1>11, RecordReady
<1> QED
  BY <1>6, <1>8, <1>12 DEF Calls

\* update_record and delete_record: of a record on file, and with its entry.
LEMMA ChangeRecordCalls ==
    ASSUME BaseInv, NEW s \in Services, NEW actor \in Actors, NEW i \in DOMAIN rows["record"],
           NEW new \in ModuleRecord \cup {None}, NEW action,
           action = IF new = None THEN "DELETE" ELSE "UPDATE",
           Change1(s, Change("record", i, rows["record"][i], new),
                   [By(actor) EXCEPT !.event = Event(action, actor.company, <<"record", i>>,
                                                     rows["record"][i], new)])
    PROVE  Calls(s)
<1>1. PICK old : old = rows["record"][i]
  OBVIOUS
<1>2. PICK c : c = Change("record", i, old, new)
  OBVIOUS
<1>3. PICK e : e = Event(action, actor.company, <<"record", i>>, old, new)
  OBVIOUS
<1>4. PICK w, changes : w = InHand(actor, changes, e, None) /\ changes = {c}
  OBVIOUS
<1>5. Begin(s, w) /\ uuid' = uuid
  <2>1. PICK b : b = InHand(actor, {}, None, None)
    OBVIOUS
  <2>2. PICK v : v = InHand(actor, {}, e, None)
    OBVIOUS
  <2>3. [b EXCEPT !.event = e] = v
    BY <2>1, <2>2 DEF InHand
  <2>4. [v EXCEPT !.changes = changes] = w
    BY <1>4, <2>2 DEF InHand
  <2>5. By(actor) = b
    BY <2>1, Spelled
  <2> QED
    BY <1>1, <1>2, <1>3, <1>4, <2>3, <2>4, <2>5 DEF Change1
<1>6. Takes(s, w) /\ HomeOnFile /\ uuid \in Nat
  BY <1>5, Begun DEF BaseInv, RowsTyped
<1>7. old \in ModuleRecord /\ old # None /\ i \in Nat /\ i \in 0..uuid
  BY <1>1, TableTypes DEF BaseInv, RowsTyped
<1>8. c.table = "record" /\ c.was = old /\ c.new = new /\ c.id = i
  BY <1>2 DEF Change
<1>9. Fits(c, uuid')
  BY <1>5, <1>7, <1>8, TableTypes DEF Fits, Sites
<1>10. actor.company \in Companies /\ action \in {"CREATE", "UPDATE", "DELETE"}
  BY PlatformAssumption
<1>11. /\ e \in Events /\ e # None /\ e.company = actor.company /\ e.id = <<"record", i>>
       /\ e.action = action /\ e.old = old /\ e.new = new
  BY <1>3, <1>7, <1>10, RecordEvents
<1>12. Ready(InHand(actor, {c}, e, None))
  BY <1>5, <1>6, <1>7, <1>8, <1>9, <1>11, RecordReady
<1> QED
  BY <1>4, <1>6, <1>12 DEF Calls

\* Both take the record as they read it.
LEMMA UpdateRecordCalls ==
    ASSUME BaseInv, NEW s \in Services, UpdateRecord(s) \/ DeleteRecord(s)
    PROVE  Calls(s)
<1>t. \A i \in DOMAIN rows["record"] : rows["record"][i] \in ModuleRecord
  BY TableTypes DEF BaseInv, RowsTyped
<1>n. None \notin ModuleRecord
  BY TableTypes
<1>1. CASE UpdateRecord(s)
  <2>1. PICK actor \in Actors, i \in DOMAIN rows["record"],
             asked \in Companies \cup {None}, status \in Statuses \cup {None} :
          LET old == rows["record"][i]  new == Updated(old, asked, status) IN
          Change1(s, Change("record", i, old, new),
                  [By(actor) EXCEPT
                     !.event = Event("UPDATE", actor.company, <<"record", i>>, old, new)])
    BY <1>1 DEF UpdateRecord
  <2>2. PICK new : new = Updated(rows["record"][i], asked, status)
    OBVIOUS
  <2>3. new \in ModuleRecord
    BY <1>t, <2>2 DEF Updated, ModuleRecord
  <2> QED
    BY <1>n, <2>1, <2>2, <2>3, ChangeRecordCalls
<1>2. CASE DeleteRecord(s)
  <2>1. PICK actor \in Actors, i \in DOMAIN rows["record"] :
          LET old == rows["record"][i] IN
          Change1(s, Change("record", i, old, None),
                  [By(actor) EXCEPT
                     !.event = Event("DELETE", actor.company, <<"record", i>>, old, None)])
    BY <1>2 DEF DeleteRecord
  <2> QED
    BY <2>1, ChangeRecordCalls
<1> QED
  BY <1>1, <1>2


-----------------------------------------------------------------------------
(* The ledger: a number is counted, and the seeds have number 0. *)

\* How many rows of a kind are listed is a number.
LEMMA ListedNat ==
    ASSUME IsFiniteSet(DOMAIN rows["ledger"]), NEW kind
    PROVE  Listed(kind) \in Nat
<1>1. {i \in DOMAIN rows.ledger : i[1] = kind} \subseteq DOMAIN rows["ledger"]
  OBVIOUS
<1>2. IsFiniteSet({i \in DOMAIN rows.ledger : i[1] = kind})
  BY <1>1, FS_Subset
<1> QED
  BY <1>2, FS_CardinalityType DEF Listed

\* The number that was counted is of nobody who was answered.
LEMMA NumberedCalls ==
    ASSUME BaseInv, LedgerInv, NEW s \in Services, NEW kind \in Kinds, NEW item \in Items,
           NEW status \in {"ACTIVE", "RECORDED", "APPROVAL_REQUIRED", "AUTO_ACCEPTED",
                           "QUEUED_OFFLINE", "SYNCED"},
           Numbered(s, kind, item, status)
    PROVE  Calls(s)
<1>1. PICK row : row = [status |-> status, call |-> calls + 1, before |-> Told]
  OBVIOUS
<1>2. PICK id : id = Keyed(kind, item, Listed(kind) + 1)
  OBVIOUS
<1>3. PICK entry : entry = [id |-> id, row |-> row]
  OBVIOUS
<1>4. PICK w : w = [by |-> None, entry |-> entry, changes |-> {}, event |-> None, later |-> None]
  OBVIOUS
<1>5. Begin(s, w) /\ uuid' = uuid
  <2>1. [Work EXCEPT !.entry = entry] = w
    BY <1>4 DEF Work
  <2> QED
    BY <1>1, <1>2, <1>3, <2>1 DEF Numbered, Told
<1>6. Takes(s, w) /\ HomeOnFile /\ calls' = calls + 1
  BY <1>5, Begun
<1>7. calls \in Nat /\ calls < MaxCalls /\ MaxCalls \in Nat /\ Listed(kind) \in Nat
  BY <1>5, PlatformAssumption, ListedNat DEF Begin, BaseInv, RowsTyped, LedgerInv
<1>8. Told \subseteq 1..calls
  BY DEF Told, LedgerInv
<1>9. row \in Ledger /\ row.call = calls + 1 /\ row.before = Told
  BY <1>1, <1>7, <1>8 DEF Ledger
<1>10. id \in LedgerIds /\ id[1] = kind /\ id[3] = Listed(kind) + 1
  BY <1>2, <1>7 DEF Keyed, LedgerIds
<1>11. \A a \in answered : a.id # id
  <2> SUFFICES ASSUME NEW a \in answered, a.id = id
               PROVE  FALSE
    OBVIOUS
  <2>1. id \in DOMAIN rows["ledger"]
    BY DEF LedgerInv
  <2>2. id[3] <= Listed(id[1])
    BY <2>1 DEF LedgerInv
  <2> QED
    BY <1>7, <1>10, <2>2
<1>12. WorkFits(w, uuid')
  BY <1>3, <1>4, <1>6, <1>9
     DEF WorkFits, HomeStands, HomeOnFile, OwnOnly, Founding, Recording, Sites
<1>13. NewRecords(w)
  BY <1>4 DEF NewRecords
<1>14. \A e \in Counting(w) : e.id = id /\ e.row = row
  BY <1>3, <1>4 DEF Counting
<1>15. Numbers(w, calls')
  <2>f. IsFiniteSet(Counting(w))
    <3>1. PICK x : x = [id |-> w.entry.id, row |-> w.entry.row]
      OBVIOUS
    <3>2. Counting(w) \subseteq {x}
      BY <1>4, <3>1 DEF Counting
    <3> QED
      BY <3>2, FS_Singleton, FS_Subset
  <2> SUFFICES ASSUME NEW e \in Counting(w)
               PROVE  /\ id \in LedgerIds /\ row \in Ledger
                      /\ id[3] <= Listed(id[1]) + 1
                      /\ row.before \subseteq Told
                      /\ \A a \in answered : a.id = id => a.call \notin row.before
                      /\ row.call # 0 => row.call \in 1..calls' /\ row.call \notin Told
    BY <1>4, <1>14, <2>f DEF Numbers
  <2>1. id[3] <= Listed(id[1]) + 1
    BY <1>7, <1>10
  <2>2. row.call # 0 /\ row.call \in 1..calls' /\ row.call \notin Told
    BY <1>6, <1>7, <1>8, <1>9
  <2> QED
    BY <1>9, <1>10, <1>11, <2>1, <2>2
<1> QED
  BY <1>6, <1>9, <1>12, <1>13, <1>14, <1>15 DEF Ready, Calls

\* create_reservation, create_inventory_movement, create_stock_count, mobile_scan.
LEMMA LedgerCalls ==
    ASSUME BaseInv, LedgerInv, NEW s \in Services,
           CreateReservation(s) \/ CreateInventoryMovement(s) \/ CreateStockCount(s) \/ MobileScan(s)
    PROVE  Calls(s)
<1>1. CASE CreateReservation(s)
  BY <1>1, NumberedCalls DEF CreateReservation, Kinds
<1>2. CASE CreateInventoryMovement(s)
  BY <1>2, NumberedCalls DEF CreateInventoryMovement, Kinds
<1>3. CASE CreateStockCount(s)
  <2>1. PICK item \in Items, status \in {"APPROVAL_REQUIRED", "AUTO_ACCEPTED"} :
          Numbered(s, "stock_count", item, status)
    BY <1>3 DEF CreateStockCount
  <2> QED
    BY <2>1, NumberedCalls DEF Kinds
<1>4. CASE MobileScan(s)
  <2>1. PICK item \in Items, status \in {"QUEUED_OFFLINE", "SYNCED"} :
          Numbered(s, "inventory_mobile_scan", item, status)
    BY <1>4 DEF MobileScan
  <2> QED
    BY <2>1, NumberedCalls DEF Kinds
<1> QED
  BY <1>1, <1>2, <1>3, <1>4

\* A seed is a row that is missing.
LEMMA MissingRows ==
    ASSUME BaseInv, NEW tb \in Tables, NEW id, NEW row
    PROVE  /\ \A c \in Missing(tb, id, row) : c.table = tb /\ c.id = id /\ c.was = None /\ c.new = row
           /\ id \in DOMAIN rows[tb]
                \/ \E c \in Missing(tb, id, row) : c.table = tb /\ c.id = id /\ c.was = None
<1>1. PICK c : c = Change(tb, id, None, row)
  OBVIOUS
<1>2. c.table = tb /\ c.id = id /\ c.was = None /\ c.new = row
  BY <1>1 DEF Change
<1>3. Missing(tb, id, row) = IF id \in DOMAIN rows[tb] THEN {} ELSE {c}
  BY <1>1, ReadFits DEF Missing
<1> QED
  BY <1>2, <1>3

Seeds == SeedOrganisation \cup SeedLedger \cup SeedUsers \cup SeedRoles \cup SeedFlags \cup SeedRecords

\* What the seeding writes.
LEMMA SeedKinds ==
    ASSUME BaseInv, NEW c \in Seeds
    PROVE  \/ /\ c.table \in Tables \ {"flag", "approval", "record", "ledger"}
              /\ c.was = None /\ c.new \in Owned /\ (c.table \in Sites => c.id = Home)
           \/ c.table = "flag" /\ c.was = None /\ c.new \in Flag
           \/ c.table = "record" /\ c.was = None /\ c.new \in ModuleRecord /\ c.id = 0
           \/ /\ c.table = "ledger" /\ c.was \in Ledger \cup {None} /\ c.new \in Ledger
              /\ c.was # None => c.id \in DOMAIN rows["ledger"]
              /\ c.new.call = 0 /\ c.new.before = {} /\ c.id \in LedgerIds /\ c.id[3] = 0
              /\ c \in SeedLedger
<1>h. Home \in Companies /\ [company |-> Home] \in Owned
  BY DEF Companies, Owned
<1>1. CASE c \in SeedOrganisation
  <2>1. PICK tb \in {"company", "plant", "department"} : c \in Missing(tb, Home, [company |-> Home])
    BY <1>1 DEF SeedOrganisation
  <2>2. PICK row : row = [company |-> Home]
    OBVIOUS
  <2>3. tb \in Tables \ {"flag", "approval", "record", "ledger"}
    BY TableTypes
  <2>4. c.table = tb /\ c.id = Home /\ c.was = None /\ c.new = row
    BY <2>1, <2>2, <2>3, MissingRows
  <2> QED
    BY <1>h, <2>2, <2>3, <2>4
<1>2. CASE c \in SeedUsers \cup SeedRoles
  <2>1. PICK tb \in {"user", "role", "permission"}, id \in {0, Home} :
          c \in Missing(tb, id, [company |-> Home])
    BY <1>2 DEF SeedUsers, SeedRoles
  <2>2. PICK row : row = [company |-> Home]
    OBVIOUS
  <2>3. tb \in Tables \ {"flag", "approval", "record", "ledger"} /\ tb \notin Sites
    BY TableTypes DEF Sites
  <2>4. c.table = tb /\ c.was = None /\ c.new = row
    BY <2>1, <2>2, <2>3, MissingRows
  <2> QED
    BY <1>h, <2>2, <2>3, <2>4
<1>3. CASE c \in SeedFlags
  <2>1. PICK m \in ModuleKeys : c \in Missing("flag", <<Home, m>>, [enabled |-> TRUE])
    BY <1>3 DEF SeedFlags
  <2>2. PICK row, id : row = [enabled |-> TRUE] /\ id = <<Home, m>>
    OBVIOUS
  <2>3. c.table = "flag" /\ c.was = None /\ c.new = row
    BY <2>1, <2>2, TableTypes, MissingRows
  <2> QED
    BY <2>2, <2>3 DEF Flag
<1>4. CASE c \in SeedRecords
  <2>1. PICK row : /\ row = [company |-> Home, module |-> CHOOSE k \in ModuleKeys : TRUE,
                             status |-> CHOOSE v \in Statuses : TRUE]
                   /\ c \in Missing("record", 0, row)
    BY <1>4 DEF SeedRecords
  <2>2. (CHOOSE k \in ModuleKeys : TRUE) \in ModuleKeys
        /\ (CHOOSE v \in Statuses : TRUE) \in Statuses
    BY PlatformAssumption
  <2>3. row \in ModuleRecord
    BY <1>h, <2>1, <2>2 DEF ModuleRecord
  <2>4. c.table = "record" /\ c.id = 0 /\ c.was = None /\ c.new = row
    BY <2>1, TableTypes, MissingRows
  <2> QED
    BY <2>3, <2>4
<1>5. CASE c \in SeedLedger
  <2>1. PICK row : row = [status |-> "seeded", call |-> 0, before |-> {}]
    OBVIOUS
  <2>2. PICK kind \in Kinds : c = Found(Keyed(kind, None, 0), row)
    BY <1>5, <2>1 DEF SeedLedger
  <2>3. PICK id : id = Keyed(kind, None, 0)
    OBVIOUS
  <2>4. id \in LedgerIds /\ id[3] = 0
    BY <2>3 DEF Keyed, LedgerIds
  <2>5. row \in Ledger /\ row.call = 0 /\ row.before = {}
    BY <2>1, PlatformAssumption DEF Ledger
  <2>6. c.table = "ledger" /\ c.id = id /\ c.new = row /\ c.was = Read(rows, "ledger", id)
    BY <2>2, <2>3 DEF Found, Change
  <2>7. c.was \in Ledger \cup {None} /\ (c.was # None => c.id \in DOMAIN rows["ledger"])
    BY <2>6, ReadFits, TableTypes
  <2> QED
    BY <1>5, <2>4, <2>5, <2>6, <2>7
<1> QED
  BY <1>1, <1>2, <1>3, <1>4, <1>5 DEF Seeds

\* A service that starts has the seeds in hand.
LEMMA StartCalls ==
    ASSUME BaseInv, LedgerInv, NEW s \in Services, Start(s)
    PROVE  Calls(s)
<1>1. PICK changes : changes = Seeds
  OBVIOUS
<1>2. PICK w : w = InHand(None, changes, None, None)
  OBVIOUS
<1>3. w.by = None /\ w.entry = None /\ w.changes = changes /\ w.event = None /\ w.later = None
  BY <1>2 DEF InHand
<1>4. Takes(s, w) /\ uuid' = uuid /\ calls' = calls
  <2>1. [InHand(None, {}, None, None) EXCEPT !.changes = changes] = w
    BY <1>2 DEF InHand
  <2>2. call' = [call EXCEPT ![s] = w]
    BY <1>1, <2>1, Spelled DEF Start, Seeds
  <2>3. calls <= MaxCalls
    BY PlatformAssumption DEF BaseInv, RowsTyped
  <2> QED
    BY <2>2, <2>3 DEF Start, Takes
<1>5. \A c \in changes : Fits(c, uuid')
  <2> SUFFICES ASSUME NEW c \in Seeds
               PROVE  Fits(c, uuid)
    BY <1>1, <1>4
  <2>1. uuid \in Nat /\ Home \in Companies
    BY DEF BaseInv, RowsTyped, Companies
  <2>2. CASE /\ c.table \in Tables \ {"flag", "approval", "record", "ledger"}
             /\ c.was = None /\ c.new \in Owned /\ (c.table \in Sites => c.id = Home)
    BY <2>1, <2>2, TableTypes DEF Fits
  <2>3. CASE c.table = "flag" /\ c.was = None /\ c.new \in Flag
    BY <2>3, TableTypes DEF Fits, Sites
  <2>4. CASE c.table = "record" /\ c.was = None /\ c.new \in ModuleRecord /\ c.id = 0
    BY <2>1, <2>4, TableTypes DEF Fits, Sites
  <2>5. CASE c.table = "ledger" /\ c.was \in Ledger \cup {None} /\ c.new \in Ledger
    BY <2>5, TableTypes DEF Fits, Sites
  <2> QED
    BY <2>2, <2>3, <2>4, <2>5, SeedKinds
<1>6. HomeStands(w)
  <2> SUFFICES ASSUME NEW tb \in Sites, Home \notin DOMAIN rows[tb]
               PROVE  \E c \in Seeds : c.table = tb /\ c.id = Home /\ c.was = None
    BY <1>1, <1>3 DEF HomeStands
  <2>1. PICK row : row = [company |-> Home]
    OBVIOUS
  <2>2. tb \in Tables
    BY TableTypes DEF Sites
  <2>3. \E c \in Missing(tb, Home, row) : c.table = tb /\ c.id = Home /\ c.was = None
    BY <2>2, MissingRows
  <2>4. Missing(tb, Home, row) \subseteq Seeds
    BY <2>1 DEF Sites, Seeds, SeedOrganisation
  <2> QED
    BY <2>3, <2>4
<1>7. Founding(w)
  <2>1. ASSUME NEW m \in ModuleKeys, <<Home, m>> \notin DOMAIN rows["flag"]
        PROVE  \E d \in Seeds : d.table = "flag" /\ d.id = <<Home, m>> /\ d.was = None
    <3>1. PICK row, id : row = [enabled |-> TRUE] /\ id = <<Home, m>>
      OBVIOUS
    <3>2. \E c \in Missing("flag", id, row) : c.table = "flag" /\ c.id = id /\ c.was = None
      BY <2>1, <3>1, TableTypes, MissingRows
    <3>3. Missing("flag", id, row) \subseteq Seeds
      BY <3>1 DEF Seeds, SeedFlags
    <3> QED
      BY <3>1, <3>2, <3>3
  <2>2. \A c \in Seeds : c.table \in Sites => c.id = Home
    BY SeedKinds DEF Sites
  <2> QED
    BY <1>1, <1>3, <2>1, <2>2 DEF Founding, Sites
<1>8. OwnOnly(w)
  BY <1>3 DEF OwnOnly
<1>9. \A c \in changes : c.table = "record" => c.was = None /\ c.id = 0
  BY <1>1, SeedKinds
<1>10. Recording(w) /\ NewRecords(w)
  BY <1>3, <1>9 DEF Recording, NewRecords
<1>11. \A e \in Counting(w) : /\ e.id \in LedgerIds /\ e.id[3] = 0 /\ e.row \in Ledger
                              /\ e.row.call = 0 /\ e.row.before = {}
  <2> SUFFICES ASSUME NEW c \in Seeds, c.table = "ledger"
               PROVE  /\ c.id \in LedgerIds /\ c.id[3] = 0 /\ c.new \in Ledger
                      /\ c.new.call = 0 /\ c.new.before = {}
    BY <1>1, <1>3 DEF Counting
  <2> QED
    BY SeedKinds
<1>12. \A kind : Listed(kind) \in Nat
  BY ListedNat DEF LedgerInv
<1>13. Numbers(w, calls')
  <2>1. IsFiniteSet(Counting(w))
    <3>1. PICK row : row = [status |-> "seeded", call |-> 0, before |-> {}]
      OBVIOUS
    <3> DEFINE T(kind) == {[id |-> Keyed(kind, None, 0), row |-> row]}
    <3>2. SeedLedger = {Found(Keyed(kind, None, 0), row) : kind \in Kinds \ {"inventory_mobile_scan"}}
      BY <3>1 DEF SeedLedger
    <3>3. \A c \in SeedLedger : c.new = row /\ \E kind \in {"inventory_reservation",
                                 "inventory_movement", "stock_count"} : c.id = Keyed(kind, None, 0)
      BY <3>2 DEF Found, Change, Kinds
    <3>4. \A c \in Seeds : c.table = "ledger" => c \in SeedLedger
      BY SeedKinds
    <3>5. Counting(w) \subseteq T("inventory_reservation") \cup (T("inventory_movement") \cup T("stock_count"))
      BY <1>1, <1>3, <3>3, <3>4 DEF Counting
    <3>6. IsFiniteSet(T("inventory_reservation")) /\ IsFiniteSet(T("inventory_movement"))
          /\ IsFiniteSet(T("stock_count"))
      BY FS_Singleton
    <3> HIDE DEF T
    <3>7. IsFiniteSet(T("inventory_movement") \cup T("stock_count"))
      BY <3>6, FS_Union
    <3>8. IsFiniteSet(T("inventory_reservation") \cup (T("inventory_movement") \cup T("stock_count")))
      BY <3>6, <3>7, FS_Union
    <3> QED
      BY <3>5, <3>8, FS_Subset
  <2>2. \A c \in w.changes : c.table = "ledger" /\ c.was # None => c.id \in DOMAIN rows["ledger"]
    BY <1>1, <1>3, SeedKinds
  <2> QED
    BY <1>11, <1>12, <2>1, <2>2 DEF Numbers
<1> QED
  BY <1>3, <1>4, <1>5, <1>6, <1>7, <1>8, <1>10, <1>11, <1>13 DEF Ready, WorkFits, Calls

\* Whatever is done, a call begins, or is at its end, or looks its number up.
LEMMA OneStep ==
    ASSUME BaseInv, LedgerInv, Next
    PROVE  \E s \in Services : Calls(s) \/ Commit(s) \/ Crash(s) \/ LookUp(s)
<1>1. PICK s \in Services :
        \/ Start(s) \/ Commit(s) \/ Crash(s)
        \/ CreateCompany(s) \/ CreatePlant(s) \/ CreateDepartment(s) \/ CreateUser(s)
        \/ CreateRole(s) \/ CreatePermission(s) \/ SetFeatureFlag(s) \/ EnableModule(s)
        \/ DisableModule(s) \/ CreateTask(s) \/ CreateRequisition(s) \/ UploadDocument(s)
        \/ DecideApproval(s) \/ CreateModuleRecord(s)
        \/ CreateRecord(s) \/ UpdateRecord(s) \/ DeleteRecord(s)
        \/ CreateReservation(s) \/ CreateInventoryMovement(s) \/ CreateStockCount(s)
        \/ MobileScan(s) \/ LookUp(s)
  BY DEF Next
<1>2. CASE Start(s)
  BY <1>2, StartCalls
<1>3. CASE CreateCompany(s)
  BY <1>3, CompanyCalls
<1>4. CASE CreatePlant(s)
  BY <1>4, PlantCalls
<1>5. CASE \/ CreateDepartment(s) \/ CreateUser(s) \/ CreateRole(s) \/ CreatePermission(s)
           \/ SetFeatureFlag(s) \/ EnableModule(s) \/ DisableModule(s)
           \/ CreateTask(s) \/ CreateRequisition(s) \/ UploadDocument(s) \/ DecideApproval(s)
  BY <1>5, SimpleCalls
<1>6. CASE CreateModuleRecord(s)
  BY <1>6, ModuleRecordCalls
<1>7. CASE CreateRecord(s)
  BY <1>7, CreateRecordCalls
<1>8. CASE UpdateRecord(s) \/ DeleteRecord(s)
  BY <1>8, UpdateRecordCalls
<1>9. CASE \/ CreateReservation(s) \/ CreateInventoryMovement(s) \/ CreateStockCount(s)
           \/ MobileScan(s)
  BY <1>9, LedgerCalls
<1> QED
  BY <1>1, <1>2, <1>3, <1>4, <1>5, <1>6, <1>7, <1>8, <1>9


-----------------------------------------------------------------------------
(* The ledger keeps its numbers apart. *)

\* A call that is gone without having done anything, unless its entry was left.
Ends(s) ==
    /\ call' = [call EXCEPT ![s] = None] /\ up' \subseteq up
    /\ cut' = IF call[s] = None \/ call[s].changes # {} \/ call[s].event = None THEN cut
              ELSE cut \cup {call[s].event.id}
    /\ UNCHANGED <<rows, trail, uuid, calls, answered>>

\* Numbers stay what they were while rows are added and other calls are answered.
LEMMA StillNumbered ==
    ASSUME NEW w, NEW n \in Nat, NEW m \in Nat, n <= m, Numbers(w, n),
           DOMAIN rows["ledger"] \subseteq DOMAIN rows'["ledger"],
           \A kind : /\ Listed(kind) \in Nat /\ Listed(kind)' \in Nat
                     /\ Listed(kind) <= Listed(kind)',
           answered \subseteq answered',
           \A a \in answered' \ answered :
              a.call \notin Told /\ a.call # 0
              /\ \A e \in Counting(w) : e.row.call # a.call
    PROVE  Numbers(w, m)'
<1>1. Told \subseteq Told' /\ \A x \in Told' \ Told : \E a \in answered' \ answered : a.call = x
  BY DEF Told
<1>2. IsFiniteSet(Counting(w))
      /\ \A c \in w.changes : c.table = "ledger" /\ c.was # None => c.id \in DOMAIN rows'["ledger"]
  BY DEF Numbers
<1>3. ASSUME NEW e \in Counting(w)
      PROVE  /\ e.id \in LedgerIds /\ e.row \in Ledger
             /\ e.id[3] <= Listed(e.id[1])' + 1
             /\ e.row.before \subseteq Told'
             /\ \A a \in answered' : a.id = e.id => a.call \notin e.row.before
             /\ e.row.call # 0 => e.row.call \in 1..m /\ e.row.call \notin Told'
  <2>1. PICK kind, k : kind = e.id[1] /\ k = e.id[3]
    OBVIOUS
  <2>2. e.id \in LedgerIds /\ e.row \in Ledger /\ k <= Listed(kind) + 1 /\ k \in Nat
        /\ e.row.before \subseteq Told
    BY <2>1 DEF Numbers, LedgerIds
  <2>3. k <= Listed(kind)' + 1
    BY <2>2
  <2>4. \A a \in answered' : a.id = e.id => a.call \notin e.row.before
    BY <2>2 DEF Numbers
  <2>5. e.row.call # 0 => e.row.call \in 1..m /\ e.row.call \notin Told'
    BY <1>1, <2>2 DEF Numbers
  <2> QED
    BY <1>1, <2>1, <2>2, <2>3, <2>4, <2>5
<1> QED
  BY <1>2, <1>3 DEF Numbers

\* The calls of two services have the numbers of two calls.
Apart(v, w) ==
    \A e \in Counting(v), f \in Counting(w) : e.row.call = f.row.call => e.row.call = 0

\* An empty ledger.
LEMMA LedgerInit ==
    ASSUME Init
    PROVE  LedgerInv
<1>1. "ledger" \in Tables
  BY TableTypes
<1>2. rows["ledger"] = << >> /\ answered = {} /\ \A s \in Services : call[s] = None
  BY <1>1 DEF Init
<1>3. DOMAIN rows["ledger"] = {}
  BY <1>2
<1> QED
  BY <1>2, <1>3, FS_EmptySet DEF LedgerInv

\* Whoever begins counts what is on file, and nobody is answered.
LEMMA LedgerTakes ==
    ASSUME BaseInv, LedgerInv, NEW s \in Services, Calls(s)
    PROVE  LedgerInv'
<1>1. PICK w : Takes(s, w) /\ Ready(w)
  BY DEF Calls
<1>2. /\ rows' = rows /\ answered' = answered /\ call' = [call EXCEPT ![s] = w]
      /\ DOMAIN call = Services /\ calls \in Nat /\ calls' \in Nat /\ calls <= calls'
      /\ Told' = Told
  BY <1>1 DEF Takes, BaseInv, RowsTyped, Told
<1>3. \A kind : Listed(kind)' = Listed(kind) /\ Listed(kind) \in Nat
  BY <1>2, ListedNat DEF LedgerInv, Listed
<1>4. /\ DOMAIN rows'["ledger"] \subseteq LedgerIds /\ IsFiniteSet(DOMAIN rows'["ledger"])
      /\ \A i \in DOMAIN rows'["ledger"] :
           i[3] <= Listed(i[1])' /\ rows'["ledger"][i].before \subseteq Told'
  BY <1>2, <1>3 DEF LedgerInv
<1>5. \A a \in answered' : /\ a.call \in 1..calls' /\ a.id \in DOMAIN rows'["ledger"]
                           /\ a.call \notin rows'["ledger"][a.id].before
  BY <1>2 DEF LedgerInv
<1>6. ASSUME NEW u \in Services, call'[u] # None
      PROVE  Numbers(call[u], calls)'
  <2>1. PICK v, n, m : v = call'[u] /\ m = calls' /\ n = IF u = s THEN calls' ELSE calls
    OBVIOUS
  <2>2. Numbers(v, n)
    BY <1>1, <1>2, <1>6, <2>1 DEF LedgerInv, Ready
  <2>3. n \in Nat /\ m \in Nat /\ n <= m
    BY <1>2, <2>1
  <2>4. Numbers(v, m)'
    BY <1>2, <1>3, <2>2, <2>3, StillNumbered
  <2> QED
    BY <2>1, <2>4 DEF Numbers, Counting
<1>7. ASSUME NEW u \in Services, NEW v \in Services, u # v, call'[u] # None, call'[v] # None
      PROVE  Apart(call'[u], call'[v])
  <2>1. \A x \in Services \ {s} : call[x] # None => Apart(w, call[x]) /\ Apart(call[x], w)
    <3> SUFFICES ASSUME NEW x \in Services \ {s}, call[x] # None, NEW e \in Counting(w),
                        NEW f \in Counting(call[x]), e.row.call = f.row.call
                 PROVE  e.row.call = 0
      BY DEF Apart
    <3>1. f.row.call = 0 \/ f.row.call \in 1..calls
      BY DEF LedgerInv, Numbers
    <3>2. e.row.call = 0 \/ e.row.call = calls + 1
      BY <1>1 DEF Ready
    <3> QED
      BY <1>2, <3>1, <3>2
  <2>2. CASE u = s
    BY <1>2, <1>7, <2>1, <2>2
  <2>3. CASE v = s
    BY <1>2, <1>7, <2>1, <2>3
  <2>4. CASE u # s /\ v # s
    BY <1>2, <1>7, <2>4 DEF LedgerInv, Apart
  <2> QED
    BY <2>2, <2>3, <2>4
<1>8. \A u, v \in Services : u # v /\ call'[u] # None /\ call'[v] # None =>
         \A e \in Counting(call[u])', f \in Counting(call[v])' :
            e.row.call = f.row.call => e.row.call = 0
  BY <1>7 DEF Apart, Counting
<1> QED
  BY <1>4, <1>5, <1>6, <1>8 DEF LedgerInv

\* What a service counts is what it counted, or nothing any more.
LEMMA LedgerKeeps ==
    ASSUME BaseInv, LedgerInv, UNCHANGED <<rows, calls, answered>>,
           \A u \in Services : call'[u] # None =>
             /\ call[u] # None /\ Counting(call[u])' \subseteq Counting(call[u])
             /\ \A c \in call'[u].changes : c.table = "ledger" /\ c.was # None
                  => c.id \in DOMAIN rows["ledger"]
    PROVE  LedgerInv'
<1>1. Told' = Told /\ \A kind : Listed(kind)' = Listed(kind)
  BY DEF Told, Listed
<1>2. /\ DOMAIN rows'["ledger"] \subseteq LedgerIds /\ IsFiniteSet(DOMAIN rows'["ledger"])
      /\ \A i \in DOMAIN rows'["ledger"] :
           i[3] <= Listed(i[1])' /\ rows'["ledger"][i].before \subseteq Told'
  BY <1>1 DEF LedgerInv
<1>3. \A a \in answered' : /\ a.call \in 1..calls' /\ a.id \in DOMAIN rows'["ledger"]
                           /\ a.call \notin rows'["ledger"][a.id].before
  BY DEF LedgerInv
<1>4. ASSUME NEW u \in Services, call'[u] # None
      PROVE  Numbers(call[u], calls)'
  <2>1. Numbers(call[u], calls) /\ Counting(call[u])' \subseteq Counting(call[u])
    BY <1>4 DEF LedgerInv
  <2>2. IsFiniteSet(Counting(call[u])')
    BY <2>1, FS_Subset DEF Numbers
  <2> QED
    BY <1>1, <1>4, <2>1, <2>2 DEF Numbers
<1>5. \A u, v \in Services : u # v /\ call'[u] # None /\ call'[v] # None =>
         \A e \in Counting(call[u])', f \in Counting(call[v])' :
            e.row.call = f.row.call => e.row.call = 0
  BY DEF LedgerInv
<1> QED
  BY <1>2, <1>3, <1>4, <1>5 DEF LedgerInv

\* A call that is gone counts nothing.
LEMMA LedgerEnds ==
    ASSUME BaseInv, LedgerInv, NEW s \in Services, Ends(s)
    PROVE  LedgerInv'
<1>1. ASSUME NEW u \in Services, call'[u] # None
      PROVE  /\ call[u] # None /\ Counting(call[u])' \subseteq Counting(call[u])
             /\ \A c \in call'[u].changes : c.table = "ledger" /\ c.was # None
                  => c.id \in DOMAIN rows["ledger"]
  <2>1. call'[u] = call[u]
    BY <1>1 DEF Ends, BaseInv, RowsTyped
  <2> QED
    BY <1>1, <2>1 DEF LedgerInv, Numbers, Counting
<1> QED
  BY <1>1, LedgerKeeps DEF Ends

\* The number that is looked up is the number that was counted.
LEMMA LedgerLookUp ==
    ASSUME BaseInv, LedgerInv, NEW s \in Services, LookUp(s)
    PROVE  LedgerInv'
<1>1. PICK c : c = Found(call[s].entry.id, call[s].entry.row)
  OBVIOUS
<1>2. PICK l : l = [by |-> None, entry |-> None, changes |-> {c}, event |-> None, later |-> None]
  OBVIOUS
<1>3. /\ call' = [call EXCEPT ![s] = l] /\ UNCHANGED <<rows, calls, answered>>
      /\ call[s] # None /\ call[s].entry # None /\ DOMAIN call = Services
  <2>1. [Work EXCEPT !.changes = {c}] = l
    BY <1>2 DEF Work
  <2> QED
    BY <1>1, <2>1 DEF LookUp, BaseInv, RowsTyped
<1>4. /\ c.table = "ledger" /\ c.new = call[s].entry.row /\ c.id = call[s].entry.id
      /\ c.was # None => c.id \in DOMAIN rows["ledger"]
  BY <1>1 DEF Found, Change, Read
<1>5. Counting(l) \subseteq Counting(call[s])
  BY <1>2, <1>3, <1>4 DEF Counting
<1>6. ASSUME NEW u \in Services, call'[u] # None
      PROVE  /\ call[u] # None /\ Counting(call[u])' \subseteq Counting(call[u])
             /\ \A d \in call'[u].changes : d.table = "ledger" /\ d.was # None
                  => d.id \in DOMAIN rows["ledger"]
  <2>1. CASE u = s
    <3>1. Counting(call[u])' = Counting(l)
      BY <1>3, <2>1 DEF Counting
    <3> QED
      BY <1>2, <1>3, <1>4, <1>5, <2>1, <3>1
  <2>2. CASE u # s
    <3>1. call'[u] = call[u]
      BY <1>3, <2>2
    <3> QED
      BY <1>6, <3>1 DEF LedgerInv, Numbers, Counting
  <2> QED
    BY <2>1, <2>2
<1> QED
  BY <1>3, <1>6, LedgerKeeps


\* A row that is on file after a commit.
LEMMA CommittedRow ==
    ASSUME BaseInv, NEW s \in Services, Committed(s), NEW tb \in Tables, NEW i \in DOMAIN rows'[tb]
    PROVE  \/ /\ i \in DOMAIN rows[tb] /\ rows'[tb][i] = rows[tb][i]
              /\ \A c \in call[s].changes : c.table = tb /\ c.id = i => c.new \in {None, c.was}
           \/ \E c \in call[s].changes : /\ c.table = tb /\ c.id = i /\ c.was = None /\ c.new # None
                                         /\ i \notin DOMAIN rows[tb] /\ rows'[tb][i] = c.new
           \/ \E c \in call[s].changes : /\ c.table = tb /\ c.id = i /\ c.was # None
                                         /\ c.new \notin {None, c.was} /\ i \in DOMAIN rows[tb]
                                         /\ rows'[tb][i] = Merged(rows[tb][i], c.was, c.new)
<1>1. PICK changes : changes = call[s].changes
  OBVIOUS
<1>2. rows' = Flushed(rows, changes) /\ ~Refused(rows, changes) /\ tb \in DOMAIN rows
  BY <1>1 DEF Committed, Commit, BaseInv, RowsTyped
<1> QED
  BY <1>1, <1>2, FlushedRow

\* The ids of what is counted are finitely many.
LEMMA FiniteIds ==
    ASSUME NEW S, IsFiniteSet(S)
    PROVE  IsFiniteSet({e.id : e \in S})
<1> DEFINE T == {e.id : e \in S}
           f == [e \in S |-> e.id]
<1>1. f \in Surjection(S, T)
  BY DEF Surjection
<1> HIDE DEF f, T
<1>2. IsFiniteSet(T)
  BY <1>1, FS_Surjection
<1> QED
  BY <1>2 DEF T

\* A list grows by the rows that are added.
LEMMA ListedGrows ==
    ASSUME IsFiniteSet(DOMAIN rows'["ledger"]), DOMAIN rows["ledger"] \subseteq DOMAIN rows'["ledger"]
    PROVE  /\ \A kind : /\ Listed(kind) \in Nat /\ Listed(kind)' \in Nat
                        /\ Listed(kind) <= Listed(kind)'
           /\ \A i \in DOMAIN rows'["ledger"] \ DOMAIN rows["ledger"] :
                Listed(i[1]) + 1 <= Listed(i[1])'
<1> DEFINE Of(table, kind) == {i \in DOMAIN table : i[1] = kind}
<1>1. \A kind : Listed(kind) = Cardinality(Of(rows["ledger"], kind))
                /\ Listed(kind)' = Cardinality(Of(rows'["ledger"], kind))
  BY DEF Listed
<1>2. \A kind : /\ Of(rows["ledger"], kind) \in SUBSET Of(rows'["ledger"], kind)
                /\ Of(rows'["ledger"], kind) \in SUBSET DOMAIN rows'["ledger"]
  OBVIOUS
<1>3. \A i \in DOMAIN rows'["ledger"] \ DOMAIN rows["ledger"] :
        i \in Of(rows'["ledger"], i[1]) /\ i \notin Of(rows["ledger"], i[1])
  OBVIOUS
<1> HIDE DEF Of
<1>4. \A kind : IsFiniteSet(Of(rows'["ledger"], kind))
  BY <1>2, FS_Subset
<1>5. \A kind : /\ IsFiniteSet(Of(rows["ledger"], kind))
                /\ Cardinality(Of(rows["ledger"], kind)) <= Cardinality(Of(rows'["ledger"], kind))
  BY <1>2, <1>4, FS_Subset
<1>6. \A kind : Listed(kind) \in Nat /\ Listed(kind)' \in Nat
  BY <1>1, <1>4, <1>5, FS_CardinalityType
<1>7. ASSUME NEW i \in DOMAIN rows'["ledger"] \ DOMAIN rows["ledger"]
      PROVE  Listed(i[1]) + 1 <= Listed(i[1])'
  <2>1. PICK S, T : S = Of(rows["ledger"], i[1]) /\ T = Of(rows'["ledger"], i[1])
    OBVIOUS
  <2>2. IsFiniteSet(S) /\ IsFiniteSet(T) /\ S \cup {i} \in SUBSET T /\ i \notin S
    BY <1>2, <1>3, <1>4, <1>5, <2>1
  <2>3. Cardinality(S \cup {i}) = Cardinality(S) + 1
    BY <2>2, FS_AddElement, Zenon
  <2>4. Cardinality(S \cup {i}) <= Cardinality(T)
    BY <2>2, FS_Subset
  <2> QED
    BY <1>1, <2>1, <2>3, <2>4
<1> QED
  BY <1>1, <1>5, <1>6, <1>7

\* What a commit writes into the ledger, it knows of no answer with the same number.
LEMMA LedgerCommitted ==
    ASSUME BaseInv, LedgerInv, NEW s \in Services, Committed(s)
    PROVE  LedgerInv'
<1> DEFINE w == call[s]
           D == DOMAIN rows["ledger"]
<1>1. /\ w # None /\ w.entry = None /\ DOMAIN call = Services /\ calls \in Nat /\ calls' = calls
      /\ answered' = answered \cup Answers(w) /\ call' = [call EXCEPT ![s] = AfterCommit(w)]
      /\ Numbers(w, calls) /\ "ledger" \in Tables /\ WorkFits(w, uuid)
  BY CommittedRows, TableTypes DEF Committed, Commit, LedgerInv, BaseInv, RowsTyped
<1>2. ASSUME NEW c \in w.changes, c.table = "ledger"
      PROVE  /\ \E e \in Counting(w) : e.id = c.id /\ e.row = c.new
             /\ c.id \in LedgerIds /\ c.new \in Ledger
             /\ c.id[3] <= Listed(c.id[1]) + 1
             /\ c.new.before \subseteq Told
             /\ \A a \in answered : a.id = c.id => a.call \notin c.new.before
             /\ c.new.call # 0 => c.new.call \in 1..calls /\ c.new.call \notin Told
             /\ c.was # None => c.id \in D
  <2>1. PICK e : e = [id |-> c.id, row |-> c.new]
    OBVIOUS
  <2>2. e \in Counting(w) /\ e.id = c.id /\ e.row = c.new
    BY <1>2, <2>1 DEF Counting
  <2>3. c.was # None => c.id \in D
    BY <1>1, <1>2 DEF Numbers
  <2> HIDE DEF w
  <2> QED
    BY <1>1, <2>2, <2>3 DEF Numbers
<1>3. /\ D \subseteq DOMAIN rows'["ledger"]
      /\ \A i \in DOMAIN rows'["ledger"] \ D : \E c \in w.changes :
           c.table = "ledger" /\ c.id = i /\ rows'["ledger"][i] = c.new
  BY <1>1, CommittedRows
<1>4. IsFiniteSet(DOMAIN rows'["ledger"])
  <2>1. IsFiniteSet({e.id : e \in Counting(w)})
    BY <1>1, FiniteIds DEF Numbers
  <2>2. IsFiniteSet(D \cup {e.id : e \in Counting(w)})
    BY <2>1, FS_Union DEF LedgerInv
  <2>3. DOMAIN rows'["ledger"] \in SUBSET (D \cup {e.id : e \in Counting(w)})
    BY <1>2, <1>3
  <2> QED
    BY <2>2, <2>3, FS_Subset
<1>5. /\ \A kind : /\ Listed(kind) \in Nat /\ Listed(kind)' \in Nat
                   /\ Listed(kind) <= Listed(kind)'
      /\ \A i \in DOMAIN rows'["ledger"] \ D : Listed(i[1]) + 1 <= Listed(i[1])'
  BY <1>3, <1>4, ListedGrows
<1>6. ASSUME NEW i \in DOMAIN rows'["ledger"]
      PROVE  /\ rows'["ledger"][i].before \subseteq Told
             /\ \A a \in answered : a.id = i => a.call \notin rows'["ledger"][i].before
  <2>1. CASE i \in D /\ rows'["ledger"][i] = rows["ledger"][i]
    BY <2>1 DEF LedgerInv
  <2>2. ASSUME NEW c \in w.changes, c.table = "ledger", c.id = i, rows'["ledger"][i] = c.new
        PROVE  /\ rows'["ledger"][i].before \subseteq Told
               /\ \A a \in answered : a.id = i => a.call \notin rows'["ledger"][i].before
    BY <1>2, <2>2
  <2>3. ASSUME NEW c \in w.changes, c.table = "ledger", c.id = i, i \in D,
               rows'["ledger"][i] = Merged(rows["ledger"][i], c.was, c.new)
        PROVE  /\ rows'["ledger"][i].before \subseteq Told
               /\ \A a \in answered : a.id = i => a.call \notin rows'["ledger"][i].before
    <3>1. "before" \in DOMAIN c.new
      BY <1>2, <2>3 DEF Ledger
    <3>2. rows'["ledger"][i].before \in {c.new.before, rows["ledger"][i].before}
      BY <2>3, <3>1 DEF Merged
    <3> QED
      BY <1>2, <2>3, <3>2 DEF LedgerInv
  <2> QED
    BY <1>1, <2>1, <2>2, <2>3, CommittedRow
<1>7. ASSUME NEW b \in Answers(w)
      PROVE  /\ b.call \in 1..calls /\ b.call \notin Told /\ b.id \in DOMAIN rows'["ledger"]
             /\ \E e \in Counting(w) : e.row.call = b.call
  <2>1. PICK c \in w.changes : /\ c.table = "ledger" /\ c.new.call # 0
                               /\ b.call = c.new.call /\ b.id = c.id
    BY DEF Answers
  <2>2. c.id \in DOMAIN rows'["ledger"]
    BY <1>2, <1>3, <2>1, CommittedRows
  <2> QED
    BY <1>2, <2>1, <2>2
<1>8. Told \subseteq Told'
  BY <1>1 DEF Told
<1> HIDE DEF w
<1>9. ASSUME NEW i \in DOMAIN rows'["ledger"]
      PROVE  i \in LedgerIds /\ i[3] <= Listed(i[1])' /\ rows'["ledger"][i].before \subseteq Told'
  <2>1. PICK kind, k : kind = i[1] /\ k = i[3]
    OBVIOUS
  <2>2. i \in LedgerIds
    BY <1>2, <1>3 DEF LedgerInv
  <2>3. k \in Nat
    BY <2>1, <2>2 DEF LedgerIds
  <2>4. CASE i \in D
    <3>1. k <= Listed(kind)
      BY <2>1, <2>4 DEF LedgerInv
    <3>2. Listed(kind) \in Nat /\ Listed(kind)' \in Nat /\ Listed(kind) <= Listed(kind)'
      BY <1>5
    <3> QED
      BY <1>6, <1>8, <2>1, <2>2, <2>3, <3>1, <3>2
  <2>5. CASE i \notin D
    <3>1. k <= Listed(kind) + 1
      BY <1>2, <1>3, <2>1, <2>5
    <3>2. Listed(kind) \in Nat /\ Listed(kind)' \in Nat /\ Listed(kind) + 1 <= Listed(kind)'
      BY <1>5, <2>1, <2>5
    <3> QED
      BY <1>6, <1>8, <2>1, <2>2, <2>3, <3>1, <3>2
  <2> QED
    BY <2>4, <2>5
<1>10. ASSUME NEW a \in answered'
       PROVE  /\ a.call \in 1..calls' /\ a.id \in DOMAIN rows'["ledger"]
              /\ a.call \notin rows'["ledger"][a.id].before
  <2>1. CASE a \in answered
    BY <1>1, <1>3, <1>6, <2>1 DEF LedgerInv
  <2>2. CASE a \in Answers(w)
    BY <1>1, <1>6, <1>7, <2>2
  <2> QED
    BY <1>1, <2>1, <2>2
<1>11. ASSUME NEW u \in Services, call'[u] # None, u = s
       PROVE  Counting(call[u])' = {} /\ call'[u].changes = {}
  <2>1. PICK l : l = AfterCommit(w)
    OBVIOUS
  <2>2. call'[u] = l /\ w.later # None
    BY <1>1, <1>11, <2>1 DEF AfterCommit
  <2>3. l.entry = None /\ l.changes = {}
    BY <2>1, <2>2, WhatIsLeft
  <2> QED
    BY <2>2, <2>3 DEF Counting
<1>12. ASSUME NEW u \in Services, call'[u] # None
       PROVE  Numbers(call[u], calls)'
  <2>1. CASE u = s
    BY <1>11, <1>12, <2>1, FS_EmptySet DEF Numbers
  <2>2. CASE u # s
    <3>1. PICK v, n : v = call[u] /\ n = calls
      OBVIOUS
    <3>2. call'[u] = v /\ calls' = n /\ Numbers(v, n) /\ n \in Nat
      BY <1>1, <1>12, <2>2, <3>1 DEF LedgerInv
    <3>3. \A a \in answered' \ answered :
            a.call \notin Told /\ a.call # 0 /\ \A e \in Counting(v) : e.row.call # a.call
      <4> SUFFICES ASSUME NEW a \in Answers(w)
                   PROVE  a.call \notin Told /\ a.call # 0
                          /\ \A e \in Counting(v) : e.row.call # a.call
        BY <1>1
      <4>1. a.call \notin Told /\ a.call # 0
        BY <1>1, <1>7
      <4>2. PICK f \in Counting(w) : f.row.call = a.call
        BY <1>7
      <4> QED
        BY <1>1, <1>12, <2>2, <3>1, <3>2, <4>1, <4>2 DEF LedgerInv, w
    <3>4. answered \subseteq answered' /\ n <= n
      BY <1>1, <3>2
    <3>5. Numbers(v, n)'
      BY <1>3, <1>5, <3>2, <3>3, <3>4, StillNumbered
    <3> QED
      BY <3>2, <3>5 DEF Numbers, Counting
  <2> QED
    BY <2>1, <2>2
<1>13. \A u, v \in Services : u # v /\ call'[u] # None /\ call'[v] # None =>
         \A e \in Counting(call[u])', f \in Counting(call[v])' :
            e.row.call = f.row.call => e.row.call = 0
  <2> SUFFICES ASSUME NEW u \in Services, NEW v \in Services, u # v,
                      call'[u] # None, call'[v] # None,
                      NEW e \in Counting(call[u])', NEW f \in Counting(call[v])',
                      e.row.call = f.row.call
               PROVE  e.row.call = 0
    OBVIOUS
  <2>1. u # s /\ v # s
    BY <1>11
  <2>2. call'[u] = call[u] /\ call'[v] = call[v]
    BY <1>1, <2>1
  <2> QED
    BY <2>2 DEF LedgerInv, Counting
<1> QED
  BY <1>4, <1>9, <1>10, <1>12, <1>13 DEF LedgerInv

\* A commit is done, or refused, and then the call is gone as when it is cut off.
LEMMA CommitOrNot ==
    ASSUME NEW s \in Services, Commit(s) \/ Crash(s)
    PROVE  Committed(s) \/ Ends(s)
<1>1. CASE Commit(s) /\ Refused(rows, call[s].changes)
  <2>1. call[s].changes # {}
    BY <1>1 DEF Refused
  <2> QED
    BY <1>1, <2>1 DEF Commit, Ends
<1> QED
  BY <1>1 DEF Commit, Committed, Crash, Ends

\* Empty tables, and nobody serves them.
LEMMA BaseInit ==
    ASSUME Init
    PROVE  BaseInv
<1>1. RowsTyped
  BY PlatformAssumption, TableTypes DEF Init, RowsTyped
<1> QED
  BY <1>1 DEF Init, BaseInv

\* The two invariants the steps are taken apart with.
PlatformInv == BaseInv /\ LedgerInv

\* Every step keeps them.
LEMMA PlatformInvStep ==
    ASSUME PlatformInv, [Next]_vars
    PROVE  PlatformInv'
<1>1. CASE UNCHANGED vars
  <2>1. RowsTyped' /\ (up' # {} => HomeOnFile')
    BY <1>1 DEF vars, PlatformInv, BaseInv, RowsTyped, HomeOnFile
  <2>2. ASSUME NEW u \in Services, call'[u] # None
        PROVE  WorkFits(call[u], uuid)'
    <3>1. UNCHANGED <<rows, uuid, call>>
      BY <1>1 DEF vars
    <3> QED
      BY <2>2, <3>1, HandStays DEF PlatformInv
  <2>3. ASSUME NEW u \in Services, call'[u] # None
        PROVE  /\ call[u] # None /\ Counting(call[u])' \subseteq Counting(call[u])
               /\ \A c \in call'[u].changes : c.table = "ledger" /\ c.was # None
                    => c.id \in DOMAIN rows["ledger"]
    BY <1>1, <2>3 DEF vars, Counting, PlatformInv, LedgerInv, Numbers
  <2>4. LedgerInv'
    BY <1>1, <2>3, LedgerKeeps DEF PlatformInv, vars
  <2> QED
    BY <2>1, <2>2, <2>4 DEF PlatformInv, BaseInv
<1>2. ASSUME NEW s \in Services, Calls(s)
      PROVE  PlatformInv'
  <2>1. BaseInv'
    BY <1>2, BaseTakes DEF PlatformInv, Calls, Ready
  <2>2. LedgerInv'
    BY <1>2, LedgerTakes DEF PlatformInv
  <2> QED
    BY <2>1, <2>2 DEF PlatformInv
<1>3. ASSUME NEW s \in Services, Committed(s)
      PROVE  PlatformInv'
  <2>1. BaseInv'
    BY <1>3, BaseCommitted DEF PlatformInv
  <2>2. LedgerInv'
    BY <1>3, LedgerCommitted DEF PlatformInv
  <2> QED
    BY <2>1, <2>2 DEF PlatformInv
<1>4. ASSUME NEW s \in Services, Ends(s)
      PROVE  PlatformInv'
  <2>1. BaseInv'
    BY <1>4, BaseEnds DEF PlatformInv, Ends
  <2>2. LedgerInv'
    BY <1>4, LedgerEnds DEF PlatformInv
  <2> QED
    BY <2>1, <2>2 DEF PlatformInv
<1>5. ASSUME NEW s \in Services, LookUp(s)
      PROVE  PlatformInv'
  <2>1. BaseInv'
    BY <1>5, BaseLookUp DEF PlatformInv
  <2>2. LedgerInv'
    BY <1>5, LedgerLookUp DEF PlatformInv
  <2> QED
    BY <2>1, <2>2 DEF PlatformInv
<1>6. CASE Next
  <2>1. PICK s \in Services : Calls(s) \/ Commit(s) \/ Crash(s) \/ LookUp(s)
    BY <1>6, OneStep DEF PlatformInv
  <2> QED
    BY <1>2, <1>3, <1>4, <1>5, <2>1, CommitOrNot
<1> QED
  BY <1>1, <1>6

\* So they hold in every state.
LEMMA PlatformInvHolds == Spec => []PlatformInv
<1>1. Init => PlatformInv
  BY BaseInit, LedgerInit DEF PlatformInv
<1>2. PlatformInv /\ [Next]_vars => PlatformInv'
  BY PlatformInvStep
<1> QED
  BY <1>1, <1>2, PTL DEF Spec

\* A ledger row that was answered is on file under its number, and if another call
\* has written over it, that call had counted before the answer.
THEOREM AnswersAreKept == Spec => []KeptUnlessOverlapped
<1>1. PlatformInv => KeptUnlessOverlapped
  BY DEF PlatformInv, LedgerInv, KeptUnlessOverlapped
<1> QED
  BY <1>1, PlatformInvHolds, PTL


-----------------------------------------------------------------------------
(* The pages of one company, and what an admin of another commits. *)

\* Pages are made of the lists.
LEMMA PagesStand ==
    ASSUME NEW a,
           \A tb \in {"company", "plant", "department", "user", "record"} :
              Shown(a, tb)' = Shown(a, tb),
           ListFeatureFlags(a)' = ListFeatureFlags(a), AuditLogs(a)' = AuditLogs(a),
           EnabledModules(a)' = EnabledModules(a)
    PROVE  Pages(a)' = Pages(a)
<1>1. AnalyticsSummary(a)' = AnalyticsSummary(a)
  <2>1. PICK records, users : records = Shown(a, "record") /\ users = Shown(a, "user")
    OBVIOUS
  <2>2. Shown(a, "record")' = records /\ Shown(a, "user")' = users
    BY <2>1
  <2> QED
    BY <2>1, <2>2 DEF AnalyticsSummary
<1> QED
  BY <1>1 DEF Pages, ListCompanies, ListPlants, ListDepartments, ListRecords

\* Nothing that is only read on the way shows.
LEMMA PagesOfTheSame ==
    ASSUME NEW a, UNCHANGED <<rows, trail>>
    PROVE  Pages(a)' = Pages(a)
<1>1. \A tb \in {"company", "plant", "department", "user", "record"} : Shown(a, tb)' = Shown(a, tb)
  BY DEF Shown
<1>2. ListFeatureFlags(a)' = ListFeatureFlags(a) /\ AuditLogs(a)' = AuditLogs(a)
      /\ EnabledModules(a)' = EnabledModules(a)
  BY DEF ListFeatureFlags, AuditLogs, EnabledModules, Read
<1> QED
  BY <1>1, <1>2, PagesStand

\* A row of these tables comes with the admin's company, and is not changed.
LEMMA OwnRowsOnly ==
    ASSUME BaseInv, NEW s \in Services, Committed(s), NEW a, a.override = FALSE,
           call[s].by # None, ~call[s].by.override, a.company # call[s].by.company,
           NEW tb \in {"company", "plant", "department", "user"}
    PROVE  Shown(a, tb)' = Shown(a, tb)
<1> DEFINE w == call[s]
<1>1. OwnOnly(w) /\ tb \in Tables \ {"record"}
  BY CommittedRows, TableTypes DEF WorkFits
<1>2. \A c \in w.changes : c.table = tb => c.was = None /\ c.new.company = w.by.company
  BY <1>1 DEF OwnOnly
<1>3. DOMAIN rows[tb] \subseteq DOMAIN rows'[tb]
  BY <1>1, CommittedRows
<1>4. ASSUME NEW i \in DOMAIN rows'[tb]
      PROVE  IF i \in DOMAIN rows[tb] THEN rows'[tb][i] = rows[tb][i]
                                      ELSE rows'[tb][i].company = w.by.company
  BY <1>1, <1>2, CommittedRow
<1>5. \A company : Sees(a, company) <=> company = a.company
  BY DEF Sees
<1> HIDE DEF w
<1>6. {j \in DOMAIN rows'[tb] : Sees(a, rows'[tb][j].company)}
        = {j \in DOMAIN rows[tb] : Sees(a, rows[tb][j].company)}
  BY <1>3, <1>4, <1>5 DEF w
<1> QED
  BY <1>3, <1>4, <1>6 DEF Shown

\* Flags of the admin's company.
LEMMA OwnFlagsOnly ==
    ASSUME BaseInv, NEW s \in Services, Committed(s), NEW a, a.override = FALSE,
           call[s].by # None, ~call[s].by.override, a.company # call[s].by.company
    PROVE  /\ ListFeatureFlags(a)' = ListFeatureFlags(a)
           /\ EnabledModules(a)' = EnabledModules(a)
<1> DEFINE w == call[s]
<1>1. OwnOnly(w) /\ "flag" \in Tables \ {"record"}
  BY CommittedRows, TableTypes DEF WorkFits
<1>2. \A c \in w.changes : c.table = "flag" => c.id[1] = w.by.company
  BY <1>1 DEF OwnOnly
<1>3. DOMAIN rows["flag"] \subseteq DOMAIN rows'["flag"]
  BY <1>1, CommittedRows
<1>4. ASSUME NEW i \in DOMAIN rows'["flag"], i[1] = a.company
      PROVE  i \in DOMAIN rows["flag"] /\ rows'["flag"][i] = rows["flag"][i]
  BY <1>1, <1>2, <1>4, CommittedRow
<1>5. \A company : Sees(a, company) <=> company = a.company
  BY DEF Sees
<1> HIDE DEF w
<1>6. ListFeatureFlags(a)' = ListFeatureFlags(a)
  BY <1>3, <1>4, <1>5 DEF ListFeatureFlags
<1>7. \A m \in ModuleKeys : Read(rows, "flag", <<a.company, m>>)' = Read(rows, "flag", <<a.company, m>>)
  BY <1>3, <1>4 DEF Read
<1>8. EnabledModules(a)' = EnabledModules(a)
  BY <1>7 DEF EnabledModules
<1> QED
  BY <1>6, <1>8

\* Records that the call does not reach.
LEMMA RecordsOutOfReach ==
    ASSUME BaseInv, NEW s \in Services, Committed(s), NEW a, a.override = FALSE,
           ~Reaches(call[s], a.company)
    PROVE  Shown(a, "record")' = Shown(a, "record")
<1> DEFINE w == call[s]
<1>1. "record" \in Tables /\ WorkFits(w, uuid) /\ DOMAIN rows = Tables
      /\ rows' = Flushed(rows, w.changes)
  BY CommittedRows, TableTypes DEF Committed, Commit, BaseInv, RowsTyped
<1>2. \A c \in w.changes : c.table = "record" =>
        /\ c.new # None => c.new.company # a.company
        /\ c.id \in DOMAIN rows["record"] => rows["record"][c.id].company # a.company
  BY DEF Reaches
<1>3. \A company : Sees(a, company) <=> company = a.company
  BY DEF Sees
<1>4. ASSUME NEW i \in DOMAIN rows'["record"], rows'["record"][i].company = a.company
      PROVE  i \in DOMAIN rows["record"] /\ rows'["record"][i] = rows["record"][i]
  <2>1. ASSUME NEW c \in w.changes, c.table = "record", c.id = i, c.new # None, c.was # None,
               i \in DOMAIN rows["record"],
               rows'["record"][i] = Merged(rows["record"][i], c.was, c.new)
        PROVE  FALSE
    <3>1. c.new \in ModuleRecord
      BY <1>1, <2>1, TableTypes DEF WorkFits, Fits
    <3>2. "company" \in DOMAIN c.new
      BY <3>1 DEF ModuleRecord
    <3>3. rows'["record"][i].company \in {c.new.company, rows["record"][i].company}
      BY <2>1, <3>2 DEF Merged
    <3> QED
      BY <1>2, <1>4, <2>1, <3>3
  <2> QED
    BY <1>1, <1>2, <1>4, <2>1, CommittedRow
<1>5. ASSUME NEW i \in DOMAIN rows["record"], rows["record"][i].company = a.company
      PROVE  i \in DOMAIN rows'["record"] /\ rows'["record"][i] = rows["record"][i]
  <2>1. \A c \in w.changes : c.table = "record" => c.id # i
    BY <1>2, <1>5
  <2>2. PICK changes : changes = w.changes
    OBVIOUS
  <2>3. i \in DOMAIN rows'["record"]
    BY <1>1, <2>1, <2>2, FlushedDomain
  <2> QED
    BY <1>1, <2>1, <2>3, CommittedRow
<1> HIDE DEF w
<1>6. {j \in DOMAIN rows'["record"] : Sees(a, rows'["record"][j].company)}
        = {j \in DOMAIN rows["record"] : Sees(a, rows["record"][j].company)}
  BY <1>3, <1>4, <1>5
<1> QED
  BY <1>3, <1>4, <1>6 DEF Shown

\* The entries of the admin are of the admin's company.
LEMMA OwnEntriesOnly ==
    ASSUME BaseInv, NEW s \in Services, Committed(s), NEW a, a.override = FALSE,
           call[s].by # None, ~call[s].by.override, a.company # call[s].by.company
    PROVE  AuditLogs(a)' = AuditLogs(a)
<1> DEFINE w == call[s]
<1>1. OwnOnly(w) /\ trail \in Seq(Events) /\ (w.event # None => w.event \in Events)
      /\ trail' = IF w.event = None THEN trail ELSE Append(trail, w.event)
  BY CommittedRows DEF WorkFits, Recording, Committed, Commit, BaseInv, RowsTyped
<1>2. CASE w.event = None
  BY <1>1, <1>2 DEF AuditLogs
<1>3. CASE w.event # None
  <2>1. w.event.company # a.company
    BY <1>1, <1>3 DEF OwnOnly
  <2> HIDE DEF w
  <2>2. /\ Len(trail) \in Nat /\ DOMAIN trail = 1..Len(trail) /\ DOMAIN trail' = 1..(Len(trail) + 1)
        /\ \A n \in DOMAIN trail : trail'[n] = trail[n]
        /\ trail'[Len(trail) + 1] = w.event
    BY <1>1, <1>3
  <2>3. \A n \in DOMAIN trail' : n \in DOMAIN trail \/ trail'[n] = w.event
    BY <2>2
  <2>4. DOMAIN trail \subseteq DOMAIN trail'
    BY <2>2
  <2>5. \A company : Sees(a, company) <=> company = a.company
    BY DEF Sees
  <2>6. {m \in DOMAIN trail' : Sees(a, trail'[m].company)}
          = {m \in DOMAIN trail : Sees(a, trail[m].company)}
    BY <2>1, <2>2, <2>3, <2>4, <2>5
  <2> QED
    BY <2>2, <2>6 DEF AuditLogs
<1> QED
  BY <1>2, <1>3

\* What an admin of one company does, and however late it is committed, shows on
\* no page of another company, save for a record the call gives away or finds there.
THEOREM PagesAreOfOneCompany == Spec => ScopedPagesDoNotInterfere
<1> DEFINE Untold(s) ==
      /\ call[s] # None /\ call'[s] # call[s]
      /\ call[s].by # None /\ ~call[s].by.override
      => \A c \in Companies \ {call[s].by.company} :
            LET a == [company |-> c, override |-> FALSE]
            IN Reaches(call[s], c) \/ Pages(a)' = Pages(a)
<1>1. ASSUME PlatformInv, [Next]_vars, NEW s \in Services, call[s] # None, call'[s] # call[s],
             call[s].by # None, ~call[s].by.override,
             NEW c \in Companies \ {call[s].by.company}, ~Reaches(call[s], c),
             NEW a, a = [company |-> c, override |-> FALSE]
      PROVE  Pages(a)' = Pages(a)
  <2>1. a.override = FALSE /\ a.company = c
    BY <1>1
  <2>2. CASE UNCHANGED <<rows, trail>>
    BY <2>2, PagesOfTheSame
  <2>3. CASE Committed(s)
    <3>1. a.company # call[s].by.company /\ ~Reaches(call[s], a.company)
      BY <1>1, <2>1
    <3>2. \A tb \in {"company", "plant", "department", "user"} : Shown(a, tb)' = Shown(a, tb)
      BY <1>1, <2>1, <2>3, <3>1, OwnRowsOnly DEF PlatformInv
    <3>3. Shown(a, "record")' = Shown(a, "record")
      BY <1>1, <2>1, <2>3, <3>1, RecordsOutOfReach DEF PlatformInv
    <3>4. ListFeatureFlags(a)' = ListFeatureFlags(a) /\ EnabledModules(a)' = EnabledModules(a)
      BY <1>1, <2>1, <2>3, <3>1, OwnFlagsOnly DEF PlatformInv
    <3>5. AuditLogs(a)' = AuditLogs(a)
      BY <1>1, <2>1, <2>3, <3>1, OwnEntriesOnly DEF PlatformInv
    <3> QED
      BY <3>2, <3>3, <3>4, <3>5, PagesStand
  <2>4. CASE UNCHANGED vars
    BY <1>1, <2>4 DEF vars
  <2>5. CASE Next
    <3>1. PICK u \in Services : Calls(u) \/ Commit(u) \/ Crash(u) \/ LookUp(u)
      BY <1>1, <2>5, OneStep DEF PlatformInv
    <3>2. CASE Calls(u) \/ LookUp(u) \/ Ends(u)
      BY <2>2, <3>2 DEF Calls, Takes, LookUp, Ends
    <3>3. CASE Committed(u)
      <4>1. u = s
        BY <1>1, <3>3 DEF Committed, Commit, PlatformInv, BaseInv, RowsTyped
      <4> QED
        BY <2>3, <3>3, <4>1
    <3> QED
      BY <3>1, <3>2, <3>3, CommitOrNot
  <2> QED
    BY <1>1, <2>4, <2>5
<1>2. ASSUME PlatformInv, [Next]_vars, NEW s \in Services
      PROVE  Untold(s)
  <2> SUFFICES ASSUME call[s] # None, call'[s] # call[s],
                      call[s].by # None, ~call[s].by.override,
                      NEW c \in Companies \ {call[s].by.company}, ~Reaches(call[s], c)
               PROVE  Pages([company |-> c, override |-> FALSE])'
                        = Pages([company |-> c, override |-> FALSE])
    OBVIOUS
  <2>1. PICK a : a = [company |-> c, override |-> FALSE]
    OBVIOUS
  <2>2. Pages(a)' = Pages(a)
    BY <1>1, <1>2, <2>1
  <2> QED
    BY <2>1, <2>2
<1>3. PlatformInv /\ [Next]_vars => \A s \in Services : Untold(s)
  BY <1>2
<1>4. Spec => [][\A s \in Services : Untold(s)]_vars
  <2> HIDE DEF Untold
  <2> QED
    BY <1>3, PlatformInvHolds, PTL DEF Spec
<1> QED
  BY <1>4 DEF ScopedPagesDoNotInterfere


-----------------------------------------------------------------------------
(* The audit log. *)

\* What a commit adds to the audit log.
LEMMA Logged ==
    ASSUME BaseInv, NEW s \in Services, Committed(s)
    PROVE  /\ Len(trail) \in Nat /\ DOMAIN trail = 1..Len(trail)
           /\ \A n \in DOMAIN trail : trail'[n] = trail[n]
           /\ call[s].event = None => trail' = trail
           /\ call[s].event # None => /\ call[s].event \in Events
                                      /\ DOMAIN trail' = 1..(Len(trail) + 1)
                                      /\ trail'[Len(trail) + 1] = call[s].event
<1> DEFINE w == call[s]
<1>1. trail \in Seq(Events) /\ (w.event # None => w.event \in Events)
      /\ trail' = IF w.event = None THEN trail ELSE Append(trail, w.event)
  BY CommittedRows DEF WorkFits, Recording, Committed, Commit, BaseInv, RowsTyped
<1> HIDE DEF w
<1>2. Len(trail) \in Nat /\ DOMAIN trail = 1..Len(trail)
  BY <1>1
<1>3. CASE w.event = None
  BY <1>1, <1>2, <1>3 DEF w
<1>4. CASE w.event # None
  <2>1. /\ \A n \in DOMAIN trail : trail'[n] = trail[n]
        /\ DOMAIN trail' = 1..(Len(trail) + 1) /\ trail'[Len(trail) + 1] = w.event
    BY <1>1, <1>4
  <2> QED
    BY <1>1, <1>2, <1>4, <2>1 DEF w
<1> QED
  BY <1>3, <1>4

\* The entries of a row.
LEMMA Audited ==
    ASSUME BaseInv, NEW s \in Services, Committed(s), NEW id
    PROVE  /\ call[s].event # None /\ call[s].event.id = id
                => Audits(id)' = Audits(id) \cup {Len(trail) + 1}
           /\ call[s].event = None \/ call[s].event.id # id => Audits(id)' = Audits(id)
<1>1. PICK L : L = Len(trail)
  OBVIOUS
<1>2. PICK e : e = call[s].event
  OBVIOUS
<1>3. /\ L \in Nat /\ DOMAIN trail = 1..L /\ \A n \in DOMAIN trail : trail'[n] = trail[n]
      /\ e = None => trail' = trail
      /\ e # None => DOMAIN trail' = 1..(L + 1) /\ trail'[L + 1] = e
  BY <1>1, <1>2, Logged
<1>4. CASE e = None
  BY <1>2, <1>3, <1>4 DEF Audits
<1>5. CASE e # None
  <2>1. DOMAIN trail' = DOMAIN trail \cup {L + 1} /\ L + 1 \notin DOMAIN trail
    BY <1>3, <1>5
  <2>2. CASE e.id = id
    BY <1>1, <1>2, <1>3, <1>5, <2>1, <2>2 DEF Audits
  <2>3. CASE e.id # id
    BY <1>2, <1>3, <1>5, <2>1, <2>3 DEF Audits
  <2> QED
    BY <2>2, <2>3
<1> QED
  BY <1>4, <1>5

-----------------------------------------------------------------------------
(* Companies and plants. *)

\* The step changes nothing that is told of a company or a plant.
LEMMA EntryStands ==
    ASSUME NEW id, NEW created, OneEntry(id, created),
           Audits(id)' = Audits(id), EntryInHand(id)' = EntryInHand(id), id \in cut' <=> id \in cut
    PROVE  OneEntry(id, created)'
BY DEF OneEntry

\* No call begins with an entry in hand.
LEMMA CompanyTakes ==
    ASSUME BaseInv, CompanyInv, NEW s \in Services, Calls(s)
    PROVE  CompanyInv'
<1>1. PICK w : Takes(s, w) /\ Ready(w)
  BY DEF Calls
<1>2. /\ UNCHANGED <<rows, trail, cut>> /\ call' = [call EXCEPT ![s] = w] /\ call[s] = None
      /\ DOMAIN call = Services /\ (w.event # None => w.changes # {})
  BY <1>1 DEF Takes, Ready, NewRecords, BaseInv, RowsTyped
<1>3. ASSUME NEW id
      PROVE  Audits(id)' = Audits(id) /\ EntryInHand(id)' = EntryInHand(id)
  BY <1>2 DEF Audits, EntryInHand
<1> QED
  BY <1>2, <1>3 DEF CompanyInv, OneEntry

\* A call that looks its number up has no entry in hand.
LEMMA CompanyLookUp ==
    ASSUME BaseInv, CompanyInv, NEW s \in Services, LookUp(s)
    PROVE  CompanyInv'
<1>1. PICK c : c = Found(call[s].entry.id, call[s].entry.row)
  OBVIOUS
<1>2. PICK l : l = [by |-> None, entry |-> None, changes |-> {c}, event |-> None, later |-> None]
  OBVIOUS
<1>3. /\ call' = [call EXCEPT ![s] = l] /\ UNCHANGED <<rows, trail, cut>>
      /\ call[s] # None /\ call[s].entry # None /\ DOMAIN call = Services
  <2>1. [Work EXCEPT !.changes = {c}] = l
    BY <1>2 DEF Work
  <2> QED
    BY <1>1, <2>1 DEF LookUp, BaseInv, RowsTyped
<1>4. call[s].event = None /\ l.event = None
  BY <1>2, <1>3 DEF BaseInv, WorkFits
<1>5. ASSUME NEW id
      PROVE  Audits(id)' = Audits(id) /\ EntryInHand(id)' = EntryInHand(id)
  BY <1>3, <1>4 DEF Audits, EntryInHand
<1> QED
  BY <1>3, <1>5 DEF CompanyInv, OneEntry

\* The entry of a call that is cut off is the entry that was in hand.
LEMMA CompanyEnds ==
    ASSUME BaseInv, CompanyInv, NEW s \in Services, Ends(s)
    PROVE  CompanyInv'
<1>1. call' = [call EXCEPT ![s] = None] /\ DOMAIN call = Services /\ UNCHANGED <<rows, trail>>
  BY DEF Ends, BaseInv, RowsTyped
<1>2. ASSUME NEW id
      PROVE  /\ Audits(id)' = Audits(id) /\ EntryInHand(id)' = EntryInHand(id) \ {s}
             /\ id \in cut' <=> id \in cut \/ s \in EntryInHand(id)
  BY <1>1 DEF Audits, EntryInHand, Ends
<1>3. ASSUME NEW id, NEW created, OneEntry(id, created)
      PROVE  OneEntry(id, created)'
  <2>1. CASE s \notin EntryInHand(id)
    <3>1. EntryInHand(id)' = EntryInHand(id) /\ (id \in cut' <=> id \in cut)
      BY <1>2, <2>1
    <3> QED
      BY <1>2, <1>3, <3>1, EntryStands
  <2>2. CASE s \in EntryInHand(id)
    <3>1. EntryInHand(id) = {s} /\ Audits(id) = {} /\ created
      BY <1>3, <2>2 DEF OneEntry
    <3>2. EntryInHand(id)' = {} /\ Audits(id)' = {} /\ id \in cut'
      BY <1>2, <2>2, <3>1
    <3> QED
      BY <3>1, <3>2 DEF OneEntry
  <2> QED
    BY <2>1, <2>2
<1>4. \A c \in DOMAIN rows'["company"], m \in ModuleKeys : <<c, m>> \in DOMAIN rows'["flag"]
  BY <1>1 DEF CompanyInv
<1>5. ASSUME NEW tb \in Sites, NEW c \in Companies
      PROVE  OneEntry(<<tb, c>>, c \in DOMAIN rows[tb] /\ c # Home)'
  <2>1. PICK created : created = (c \in DOMAIN rows[tb] /\ c # Home)
    OBVIOUS
  <2>2. OneEntry(<<tb, c>>, created)
    BY <2>1 DEF CompanyInv
  <2>3. OneEntry(<<tb, c>>, created)'
    BY <1>3, <2>2
  <2> QED
    BY <1>1, <2>1, <2>3 DEF OneEntry
<1> QED
  BY <1>4, <1>5 DEF CompanyInv


\* What is in hand of an entry after a commit.
LEMMA EntryLeft ==
    ASSUME BaseInv, NEW s \in Services, Committed(s), NEW id
    PROVE  EntryInHand(id)' =
             (EntryInHand(id) \ {s})
                \cup (IF call[s].later # None /\ call[s].later.id = id THEN {s} ELSE {})
<1> DEFINE w == call[s]
<1>1. PICK l : l = AfterCommit(w)
  OBVIOUS
<1>2. call' = [call EXCEPT ![s] = l] /\ DOMAIN call = Services
  BY <1>1 DEF Committed, Commit, BaseInv, RowsTyped
<1>3. CASE w.later = None
  <2>1. l = None
    BY <1>1, <1>3 DEF AfterCommit
  <2> QED
    BY <1>2, <1>3, <2>1 DEF EntryInHand
<1>4. CASE w.later # None
  <2>1. w.by \in Actors /\ w.later \in Events
    BY <1>4, CommittedRows DEF WorkFits, Founding
  <2>2. l # None /\ l.changes = {} /\ l.event = w.later
    BY <1>1, <1>4, <2>1, WhatIsLeft
  <2> QED
    BY <1>2, <1>4, <2>2 DEF EntryInHand
<1> QED
  BY <1>3, <1>4

\* A company comes with its flags, and a company or a plant with its entry in hand.
LEMMA CompanyCommitted ==
    ASSUME BaseInv, CompanyInv, NEW s \in Services, Committed(s)
    PROVE  CompanyInv'
<1> DEFINE w == call[s]
<1>1. /\ w # None /\ w.entry = None /\ DOMAIN call = Services /\ cut' = cut
      /\ WorkFits(w, uuid) /\ Sites \subseteq Tables /\ Sites \subseteq Tables \ {"record"}
      /\ "flag" \in Tables \ {"record"} /\ "company" \in Tables
  BY CommittedRows, TableTypes DEF Committed, Commit, BaseInv, RowsTyped, Sites
<1>2. ASSUME NEW c \in DOMAIN rows'["company"], NEW m \in ModuleKeys
      PROVE  <<c, m>> \in DOMAIN rows'["flag"]
  <2>1. DOMAIN rows["flag"] \subseteq DOMAIN rows'["flag"]
    BY <1>1, CommittedRows
  <2>2. CASE c \in DOMAIN rows["company"]
    BY <2>1, <2>2 DEF CompanyInv
  <2>3. CASE c \notin DOMAIN rows["company"]
    <3>1. PICK d \in w.changes : d.table = "company" /\ d.id = c
      BY <1>1, <2>3, CommittedRows
    <3>2. <<c, m>> \in DOMAIN rows["flag"]
            \/ \E e \in w.changes : e.table = "flag" /\ e.id = <<c, m>> /\ e.was = None
      BY <1>1, <3>1 DEF WorkFits, Founding
    <3> QED
      BY <2>1, <3>2, CommittedRows
  <2> QED
    BY <2>2, <2>3
<1>3. ASSUME NEW tb \in Sites, NEW c \in Companies
      PROVE  OneEntry(<<tb, c>>, c \in DOMAIN rows[tb] /\ c # Home)'
  <2>1. PICK id : id = <<tb, c>>
    OBVIOUS
  <2>2. PICK created, now : /\ created = (c \in DOMAIN rows[tb] /\ c # Home)
                            /\ now = (c \in DOMAIN rows'[tb] /\ c # Home)
    OBVIOUS
  <2>3. OneEntry(id, created)
    BY <2>1, <2>2 DEF CompanyInv
  <2>4. EntryInHand(id)' = (EntryInHand(id) \ {s})
                              \cup (IF w.later # None /\ w.later.id = id THEN {s} ELSE {})
    BY EntryLeft
  <2>5. /\ w.event # None /\ w.event.id = id => Audits(id)' = Audits(id) \cup {Len(trail) + 1}
        /\ w.event = None \/ w.event.id # id => Audits(id)' = Audits(id)
    BY Audited
  <2>6. DOMAIN rows[tb] \subseteq DOMAIN rows'[tb]
    BY <1>1, CommittedRows
  <2>7. s \in EntryInHand(id) <=> w.changes = {} /\ w.event # None /\ w.event.id = id
    BY <1>1 DEF EntryInHand
  <2>8. w.changes # {} /\ w.event # None => w.event.id # id
    <3> SUFFICES ASSUME w.changes # {}, w.event # None
                 PROVE  w.event.id # id
      OBVIOUS
    <3>1. \E d : w.event.id = <<"record", d>>
      BY <1>1 DEF WorkFits, Recording
    <3> QED
      BY <2>1, <3>1 DEF Sites
  <2>9. CASE w.later # None /\ w.later.id = id
    <3>1. PICK d \in w.changes : d.table \in Sites /\ id = <<d.table, d.id>>
      BY <1>1, <2>9 DEF WorkFits, Founding
    <3>2. d.table = tb /\ d.id = c /\ d.was = None /\ HomeOnFile
      BY <1>1, <2>1, <2>9, <3>1 DEF WorkFits, Founding, Fits
    <3>3. c \notin DOMAIN rows[tb] /\ c \in DOMAIN rows'[tb] /\ c # Home
      BY <3>2, CommittedRows DEF HomeOnFile
    <3>4. Audits(id) = {} /\ EntryInHand(id) = {} /\ id \notin cut /\ now
      BY <2>2, <2>3, <3>3 DEF OneEntry
    <3>5. Audits(id)' = {} /\ EntryInHand(id)' = {s} /\ id \notin cut'
      BY <1>1, <2>4, <2>5, <2>8, <2>9, <3>1, <3>4
    <3>6. OneEntry(id, now)'
      BY <3>4, <3>5 DEF OneEntry
    <3> QED
      BY <2>1, <2>2, <3>6 DEF OneEntry
  <2>10. CASE ~(w.later # None /\ w.later.id = id)
    <3>1. now = created
      <4>1. ASSUME c \notin DOMAIN rows[tb], c \in DOMAIN rows'[tb], c # Home
            PROVE  FALSE
        <5>1. PICK d \in w.changes : d.table = tb /\ d.id = c
          BY <1>1, <4>1, CommittedRows
        <5> QED
          BY <1>1, <2>1, <2>10, <4>1, <5>1 DEF WorkFits, Founding
      <4> QED
        BY <2>2, <2>6, <4>1
    <3>2. CASE s \notin EntryInHand(id)
      <4>1. EntryInHand(id)' = EntryInHand(id) /\ Audits(id)' = Audits(id)
        BY <2>4, <2>5, <2>7, <2>8, <2>10, <3>2
      <4>2. OneEntry(id, created)'
        BY <1>1, <2>3, <4>1, EntryStands
      <4> QED
        BY <2>1, <2>2, <3>1, <4>2 DEF OneEntry
    <3>3. CASE s \in EntryInHand(id)
      <4>1. EntryInHand(id) = {s} /\ Audits(id) = {} /\ created /\ id \notin cut
        BY <2>3, <3>3 DEF OneEntry
      <4>2. PICK n : n = Len(trail) + 1
        OBVIOUS
      <4>3. EntryInHand(id)' = {} /\ Audits(id)' = {n} /\ id \notin cut'
        BY <1>1, <2>4, <2>5, <2>7, <2>10, <3>3, <4>1, <4>2
      <4>4. OneEntry(id, created)'
        BY <4>1, <4>3 DEF OneEntry
      <4> QED
        BY <2>1, <2>2, <3>1, <4>4 DEF OneEntry
    <3> QED
      BY <3>2, <3>3
  <2> QED
    BY <2>9, <2>10
<1> QED
  BY <1>2, <1>3 DEF CompanyInv

\* The company invariant, on top of the two.
LEMMA CompanyInvHolds == Spec => []CompanyInv
<1>1. Init => CompanyInv
  <2> SUFFICES ASSUME Init
               PROVE  CompanyInv
    OBVIOUS
  <2>1. \A tb \in Sites : tb \in Tables
    BY TableTypes DEF Sites
  <2>2. \A tb \in Sites : DOMAIN rows[tb] = {}
    BY <2>1 DEF Init
  <2>3. \A id : Audits(id) = {} /\ EntryInHand(id) = {} /\ id \notin cut
    BY DEF Init, Audits, EntryInHand
  <2> QED
    BY <2>2, <2>3 DEF CompanyInv, OneEntry, Sites
<1>2. PlatformInv /\ CompanyInv /\ [Next]_vars => CompanyInv'
  <2> SUFFICES ASSUME PlatformInv, CompanyInv, [Next]_vars
               PROVE  CompanyInv'
    OBVIOUS
  <2>1. CASE UNCHANGED vars
    <3>1. \A id : Audits(id)' = Audits(id) /\ EntryInHand(id)' = EntryInHand(id)
      BY <2>1 DEF vars, Audits, EntryInHand
    <3> QED
      BY <2>1, <3>1 DEF vars, CompanyInv, OneEntry
  <2>2. CASE Next
    <3>1. PICK s \in Services : Calls(s) \/ Commit(s) \/ Crash(s) \/ LookUp(s)
      BY <2>2, OneStep DEF PlatformInv
    <3>2. CASE Calls(s)
      BY <3>2, CompanyTakes DEF PlatformInv
    <3>3. CASE LookUp(s)
      BY <3>3, CompanyLookUp DEF PlatformInv
    <3>4. CASE Committed(s)
      BY <3>4, CompanyCommitted DEF PlatformInv
    <3>5. CASE Ends(s)
      BY <3>5, CompanyEnds DEF PlatformInv
    <3> QED
      BY <3>1, <3>2, <3>3, <3>4, <3>5, CommitOrNot
  <2> QED
    BY <2>1, <2>2
<1> QED
  BY <1>1, <1>2, PlatformInvHolds, PTL DEF Spec

\* A company has its flags whoever creates it, and a company or a plant that was
\* created is audited once, unless the service stopped between the two commits.
THEOREM CompaniesComeWhole == Spec => []CompaniesAreComplete
<1>1. ASSUME CompanyInv
      PROVE  CompaniesAreComplete
  <2>1. ASSUME NEW tb \in Sites, NEW c \in Companies
        PROVE  Cardinality(Audits(<<tb, c>>)) + Cardinality(EntryInHand(<<tb, c>>))
                 + Cardinality(cut \cap {<<tb, c>>})
                 = IF c \in DOMAIN rows[tb] /\ c # Home THEN 1 ELSE 0
    <3>1. PICK id, created : id = <<tb, c>> /\ created = (c \in DOMAIN rows[tb] /\ c # Home)
      OBVIOUS
    <3>2. OneEntry(id, created)
      BY <1>1, <3>1 DEF CompanyInv
    <3>3. Cardinality({}) = 0 /\ \A x : Cardinality({x}) = 1
      BY FS_EmptySet, FS_Singleton
    <3>4. cut \cap {id} = IF id \in cut THEN {id} ELSE {}
      OBVIOUS
    <3>5. Cardinality(Audits(id)) + Cardinality(EntryInHand(id)) + Cardinality(cut \cap {id})
            = IF created THEN 1 ELSE 0
      <4>1. CASE Audits(id) = {} /\ EntryInHand(id) = {} /\ id \notin cut /\ ~created
        BY <3>3, <3>4, <4>1
      <4>2. ASSUME NEW n, Audits(id) = {n}, EntryInHand(id) = {}, id \notin cut, created
            PROVE  Cardinality(Audits(id)) + Cardinality(EntryInHand(id))
                     + Cardinality(cut \cap {id}) = IF created THEN 1 ELSE 0
        <5>1. /\ Cardinality(Audits(id)) = 1 /\ Cardinality(EntryInHand(id)) = 0
              /\ Cardinality(cut \cap {id}) = 0
          BY <3>3, <3>4, <4>2, Zenon
        <5> QED
          BY <4>2, <5>1
      <4>3. ASSUME NEW s, Audits(id) = {}, EntryInHand(id) = {s}, id \notin cut, created
            PROVE  Cardinality(Audits(id)) + Cardinality(EntryInHand(id))
                     + Cardinality(cut \cap {id}) = IF created THEN 1 ELSE 0
        <5>1. /\ Cardinality(Audits(id)) = 0 /\ Cardinality(EntryInHand(id)) = 1
              /\ Cardinality(cut \cap {id}) = 0
          BY <3>3, <3>4, <4>3, Zenon
        <5> QED
          BY <4>3, <5>1
      <4>4. CASE Audits(id) = {} /\ EntryInHand(id) = {} /\ id \in cut /\ created
        <5>1. /\ Cardinality(Audits(id)) = 0 /\ Cardinality(EntryInHand(id)) = 0
              /\ Cardinality(cut \cap {id}) = 1
          BY <3>3, <3>4, <4>4, Zenon
        <5> QED
          BY <4>4, <5>1
      <4> QED
        BY <3>2, <4>1, <4>2, <4>3, <4>4 DEF OneEntry
    <3> QED
      BY <3>1, <3>5
  <2> QED
    BY <1>1, <2>1 DEF CompanyInv, CompaniesAreComplete, EntryInHand, Sites
<1> QED
  BY <1>1, CompanyInvHolds, PTL


-----------------------------------------------------------------------------
(* Records. *)

\* Records and their entries stay; what is in hand of records is what it was, or new.
LEMMA RecordTakes ==
    ASSUME BaseInv, RecordInv, NEW s \in Services, Calls(s)
    PROVE  RecordInv'
<1>1. PICK w : Takes(s, w) /\ Ready(w)
  BY DEF Calls
<1>2. /\ UNCHANGED <<rows, trail>> /\ call' = [call EXCEPT ![s] = w] /\ call[s] = None
      /\ DOMAIN call = Services /\ NewRecords(w)
      /\ uuid \in Nat /\ uuid' \in {uuid, uuid + 1}
      /\ DOMAIN rows["record"] \subseteq 0..uuid
  BY <1>1 DEF Takes, Ready, BaseInv, RowsTyped
<1>3. \A i : Mine(i)' = Mine(i) /\ (Deleted(i)' <=> Deleted(i))
  BY <1>2 DEF Mine, Audits, Deleted
<1>4. \A i, k : Changed(i, k)' = Changed(i, k)
  BY <1>2, <1>3 DEF Changed
<1>5. ASSUME NEW u \in Services \ {s}, call[u] # None, NEW c \in call[u].changes,
             c.table = "record", NEW d \in w.changes, d.table = "record", c.id = d.id
      PROVE  (c.was = None => c.id = 0) /\ (d.was = None => d.id = 0)
  <2>1. c.id \in 0..uuid
    BY <1>5 DEF BaseInv, WorkFits, Fits
  <2>2. d.was = None => d.id = 0
    BY <1>2, <1>5, <2>1 DEF NewRecords
  <2>3. d.was # None => d.id \in DOMAIN rows["record"]
    BY <1>2, <1>5 DEF NewRecords
  <2>4. c.was = None /\ c.id # 0 => c.id \notin DOMAIN rows["record"]
    BY <1>5 DEF RecordInv, RecordsInHand
  <2> QED
    BY <1>5, <2>2, <2>3, <2>4
<1>6. ASSUME NEW u \in Services, call'[u] # None, NEW c \in call'[u].changes, c.table = "record"
      PROVE  /\ c.was = None /\ c.id # 0 =>
                  /\ c.id \notin DOMAIN rows["record"] /\ Mine(c.id) = {}
                  /\ \A v \in Services \ {u} : call'[v] # None =>
                       \A d \in call'[v].changes : d.table = "record" => d.id # c.id
             /\ c.was # None => c.id \in DOMAIN rows["record"] \/ Deleted(c.id)
  <2>1. CASE u = s
    <3>1. c \in w.changes
      BY <1>2, <1>6, <2>1
    <3>2. c.was = None /\ c.id # 0 => c.id = uuid + 1
      BY <1>2, <1>6, <3>1 DEF NewRecords
    <3>3. c.was = None /\ c.id # 0 => c.id \notin DOMAIN rows["record"] /\ Mine(c.id) = {}
      BY <1>2, <3>2 DEF RecordInv
    <3>4. c.was = None /\ c.id # 0 => \A v \in Services \ {u} : call'[v] # None =>
             \A d \in call'[v].changes : d.table = "record" => d.id # c.id
      BY <1>2, <1>5, <1>6, <2>1, <3>1
    <3>5. c.was # None => c.id \in DOMAIN rows["record"]
      BY <1>2, <1>6, <3>1 DEF NewRecords
    <3> QED
      BY <3>3, <3>4, <3>5
  <2>2. CASE u # s
    <3>1. call[u] # None /\ c \in call[u].changes
      BY <1>2, <1>6, <2>2
    <3>2. /\ c.was = None /\ c.id # 0 =>
                  /\ c.id \notin DOMAIN rows["record"] /\ Mine(c.id) = {}
                  /\ \A v \in Services \ {u} : call[v] # None =>
                       \A d \in call[v].changes : d.table = "record" => d.id # c.id
          /\ c.was # None => c.id \in DOMAIN rows["record"] \/ Deleted(c.id)
      BY <1>6, <3>1 DEF RecordInv, RecordsInHand
    <3>3. c.was = None /\ c.id # 0 => \A v \in Services \ {u} : call'[v] # None =>
             \A d \in call'[v].changes : d.table = "record" => d.id # c.id
      <4> SUFFICES ASSUME c.was = None, c.id # 0, NEW v \in Services \ {u}, call'[v] # None,
                          NEW d \in call'[v].changes, d.table = "record"
                   PROVE  d.id # c.id
        OBVIOUS
      <4>1. CASE v = s
        <5>1. d \in w.changes
          BY <1>2, <4>1
        <5> QED
          BY <1>5, <1>6, <2>2, <3>1, <5>1
      <4>2. CASE v # s
        <5>1. call'[v] = call[v]
          BY <1>2, <4>2
        <5> QED
          BY <3>2, <5>1
      <4> QED
        BY <4>1, <4>2
    <3> QED
      BY <3>2, <3>3
  <2> QED
    BY <2>1, <2>2
<1>7. RecordsInHand'
  BY <1>2, <1>3, <1>6 DEF RecordsInHand
<1>8. \A i : Mine(i) # {} => i \in 0..uuid' /\ (i \in DOMAIN rows["record"] \/ Deleted(i))
  BY <1>2 DEF RecordInv
<1>9. \A i, k : LastTells(i, k) => LastTells(i, k)'
  BY <1>2, <1>4 DEF LastTells
<1> QED
  BY <1>2, <1>3, <1>7, <1>8, <1>9 DEF RecordInv

\* Less is in hand of records than there was.
LEMMA RecordKeeps ==
    ASSUME BaseInv, RecordInv, UNCHANGED <<rows, trail, uuid>>,
           \A u \in Services : call'[u] # None => \A c \in call'[u].changes :
             c.table = "record" => call[u] # None /\ c \in call[u].changes
    PROVE  RecordInv'
<1>1. \A i : Mine(i)' = Mine(i) /\ (Deleted(i)' <=> Deleted(i))
  BY DEF Mine, Audits, Deleted
<1>2. \A i, k : Changed(i, k)' = Changed(i, k)
  BY <1>1 DEF Changed
<1>3. RecordsInHand'
  BY <1>1 DEF RecordInv, RecordsInHand
<1>4. \A i, k : LastTells(i, k) => LastTells(i, k)'
  BY <1>2 DEF LastTells
<1> QED
  BY <1>1, <1>3, <1>4 DEF RecordInv

\* So it is when a call ends or looks its number up.
LEMMA RecordEnds ==
    ASSUME BaseInv, RecordInv, NEW s \in Services, Ends(s) \/ LookUp(s)
    PROVE  RecordInv'
<1>1. ASSUME NEW u \in Services, call'[u] # None, NEW c \in call'[u].changes, c.table = "record"
      PROVE  call[u] # None /\ c \in call[u].changes
  <2>1. CASE Ends(s)
    BY <1>1, <2>1 DEF Ends, BaseInv, RowsTyped
  <2>2. CASE LookUp(s)
    <3>1. PICK d : d = Found(call[s].entry.id, call[s].entry.row)
      OBVIOUS
    <3>2. PICK l : l = [by |-> None, entry |-> None, changes |-> {d}, event |-> None,
                        later |-> None]
      OBVIOUS
    <3>3. call' = [call EXCEPT ![s] = l] /\ DOMAIN call = Services
      <4>1. [Work EXCEPT !.changes = {d}] = l
        BY <3>2 DEF Work
      <4> QED
        BY <2>2, <3>1, <4>1 DEF LookUp, BaseInv, RowsTyped
    <3>4. d.table = "ledger"
      BY <3>1 DEF Found, Change
    <3> QED
      BY <1>1, <3>2, <3>3, <3>4
  <2> QED
    BY <2>1, <2>2
<1>2. UNCHANGED <<rows, trail, uuid>>
  BY DEF Ends, LookUp
<1> QED
  BY <1>1, <1>2, RecordKeeps

\* After a commit nothing of records is left in hand.
LEMMA NothingLeft ==
    ASSUME BaseInv, NEW s \in Services, Committed(s), NEW u \in Services, call'[u] # None,
           NEW c \in call'[u].changes
    PROVE  u # s /\ call'[u] = call[u]
<1>1. call' = [call EXCEPT ![s] = AfterCommit(call[s])] /\ DOMAIN call = Services
  BY DEF Committed, Commit, BaseInv, RowsTyped
<1>2. CASE u = s
  <2>1. PICK l : l = AfterCommit(call[s])
    OBVIOUS
  <2>2. call'[u] = l
    BY <1>1, <1>2, <2>1
  <2>3. call[s].later # None
    BY <2>1, <2>2 DEF AfterCommit
  <2>4. l.changes = {}
    BY <2>1, <2>3, WhatIsLeft
  <2> QED
    BY <2>2, <2>4
<1> QED
  BY <1>1, <1>2

\* A commit with no entry of a record adds records that were never told of.
LEMMA RecordsAdded ==
    ASSUME BaseInv, RecordInv, NEW s \in Services, Committed(s),
           call[s].event # None => call[s].changes = {}
    PROVE  RecordInv'
<1> DEFINE w == call[s]
<1>1. WorkFits(w, uuid) /\ "record" \in Tables /\ uuid' = uuid /\ DOMAIN rows = Tables
      /\ rows' = Flushed(rows, w.changes)
  BY CommittedRows, TableTypes DEF Committed, Commit, BaseInv, RowsTyped
<1>2. \A c \in w.changes : c.table = "record" => c.was = None /\ c.new # None
  BY <1>1 DEF WorkFits, Recording, Fits
<1>3. \A i : Mine(i)' = Mine(i)
  <2> SUFFICES ASSUME NEW i
               PROVE  Mine(i)' = Mine(i)
    OBVIOUS
  <2>1. PICK id : id = <<"record", i>>
    OBVIOUS
  <2>2. w.event = None \/ w.event.id # id
    BY <1>1, <2>1 DEF WorkFits, Recording, Sites
  <2>3. Audits(id)' = Audits(id)
    BY <2>2, Audited
  <2> QED
    BY <2>1, <2>3 DEF Mine
<1>4. \A n \in DOMAIN trail : trail'[n] = trail[n]
  BY Logged
<1>5. \A i : Mine(i) \subseteq DOMAIN trail
  BY DEF Mine, Audits
<1>6. \A i : Deleted(i)' <=> Deleted(i)
  BY <1>3, <1>4, <1>5 DEF Deleted
<1>7. \A i, k : Changed(i, k)' = Changed(i, k)
  BY <1>3, <1>4, <1>5 DEF Changed
<1>8. \A i \in DOMAIN rows["record"] : i \in DOMAIN rows'["record"] /\ rows'["record"][i] = rows["record"][i]
  <2> SUFFICES ASSUME NEW i \in DOMAIN rows["record"]
               PROVE  i \in DOMAIN rows'["record"] /\ rows'["record"][i] = rows["record"][i]
    OBVIOUS
  <2>1. PICK changes : changes = w.changes
    OBVIOUS
  <2>2. i \in DOMAIN rows'["record"]
    BY <1>1, <1>2, <2>1, FlushedDomain
  <2> QED
    BY <1>1, <1>2, <2>2, CommittedRow
<1>9. \A i \in DOMAIN rows'["record"] \ DOMAIN rows["record"] :
        \E c \in w.changes : c.table = "record" /\ c.id = i /\ c.was = None
  BY <1>1, CommittedRows
<1>10. w # None
  BY CommittedRows
<1>11. ASSUME NEW i \in DOMAIN rows'["record"] \ DOMAIN rows["record"], i # 0 \/ ~Deleted(i)
       PROVE  Mine(i) = {}
  BY <1>9, <1>10, <1>11 DEF RecordInv, RecordsInHand
<1>12. RecordsInHand'
  <2> SUFFICES ASSUME NEW u \in Services, call'[u] # None, NEW c \in call'[u].changes,
                      c.table = "record"
               PROVE  /\ c.was = None /\ c.id # 0 =>
                           /\ c.id \notin DOMAIN rows'["record"] /\ Mine(c.id) = {}
                           /\ \A v \in Services \ {u} : call'[v] # None =>
                                \A d \in call'[v].changes : d.table = "record" => d.id # c.id
                      /\ c.was # None => c.id \in DOMAIN rows'["record"] \/ Deleted(c.id)
    BY <1>3, <1>6 DEF RecordsInHand
  <2>1. u # s /\ call[u] # None /\ c \in call[u].changes
    BY NothingLeft
  <2>2. /\ c.was = None /\ c.id # 0 =>
                  /\ c.id \notin DOMAIN rows["record"] /\ Mine(c.id) = {}
                  /\ \A v \in Services \ {u} : call[v] # None =>
                       \A d \in call[v].changes : d.table = "record" => d.id # c.id
        /\ c.was # None => c.id \in DOMAIN rows["record"] \/ Deleted(c.id)
    BY <2>1 DEF RecordInv, RecordsInHand
  <2>3. c.was = None /\ c.id # 0 => c.id \notin DOMAIN rows'["record"]
    BY <1>9, <1>10, <2>1, <2>2
  <2>4. c.was = None /\ c.id # 0 => \A v \in Services \ {u} : call'[v] # None =>
             \A d \in call'[v].changes : d.table = "record" => d.id # c.id
    BY <2>2, NothingLeft
  <2> QED
    BY <1>8, <2>2, <2>3, <2>4
<1>13. ASSUME NEW i \in DOMAIN rows'["record"], i # 0 \/ ~Deleted(i), NEW k \in {"company", "status"}
       PROVE  LastTells(i, k)'
  <2>1. CASE i \in DOMAIN rows["record"]
    <3>1. LastTells(i, k)
      BY <1>13, <2>1 DEF RecordInv
    <3> QED
      <4>1. \A n \in Changed(i, k) : trail'[n] = trail[n]
        BY <1>4, <1>5 DEF Changed
      <4>2. rows'["record"][i] = rows["record"][i]
        BY <1>8, <2>1
      <4> QED
        BY <1>7, <3>1, <4>1, <4>2 DEF LastTells
  <2>2. CASE i \notin DOMAIN rows["record"]
    <3>1. Changed(i, k) = {}
      BY <1>11, <1>13, <2>2 DEF Changed
    <3> QED
      BY <1>7, <3>1 DEF LastTells
  <2> QED
    BY <2>1, <2>2
<1>14. \A i : Mine(i) # {} => i \in 0..uuid /\ (i \in DOMAIN rows'["record"] \/ Deleted(i))
  BY <1>8 DEF RecordInv
<1> HIDE DEF w
<1> QED
  BY <1>1, <1>3, <1>6, <1>12, <1>13, <1>14 DEF RecordInv


\* A commit of a record with its entry: what the entry tells is what is written.
LEMMA RecordLogged ==
    ASSUME BaseInv, RecordInv, NEW s \in Services, Committed(s),
           call[s].event # None, call[s].changes # {}
    PROVE  RecordInv'
<1> DEFINE w == call[s]
<1>1. WorkFits(w, uuid) /\ "record" \in Tables /\ uuid' = uuid /\ DOMAIN rows = Tables
      /\ rows' = Flushed(rows, w.changes) /\ ~Refused(rows, w.changes) /\ w # None
  BY CommittedRows, TableTypes DEF Committed, Commit, BaseInv, RowsTyped
<1>2. PICK c, e : /\ w.changes = {c} /\ e = w.event /\ c.table = "record"
                  /\ e.id = <<"record", c.id>>
  BY <1>1 DEF WorkFits, Recording
<1>3. PICK j, L : j = c.id /\ L = Len(trail) + 1
  OBVIOUS
<1>4. /\ c \in w.changes /\ j \in 0..uuid /\ c.new \in ModuleRecord \cup {None}
      /\ c.was \in ModuleRecord \cup {None} /\ (c.was = None => c.new # None)
      /\ None \notin ModuleRecord
      /\ c.was # None => /\ e.old = c.was /\ e.new = c.new
                         /\ e.action = IF c.new = None THEN "DELETE" ELSE "UPDATE"
      /\ c.was = None => e.action = "CREATE" /\ e.new = c.new
  BY <1>1, <1>2, <1>3, TableTypes DEF WorkFits, Fits, Recording
<1>5. /\ L \in Nat /\ trail'[L] = e /\ \A n \in DOMAIN trail : n \in Nat /\ n < L
      /\ \A n \in DOMAIN trail : trail'[n] = trail[n]
  <2>1. /\ Len(trail) \in Nat /\ DOMAIN trail = 1..Len(trail) /\ trail'[Len(trail) + 1] = e
        /\ \A n \in DOMAIN trail : trail'[n] = trail[n]
    BY <1>2, Logged
  <2> QED
    BY <1>3, <2>1
<1>6. \A i : Mine(i)' = IF i = j THEN Mine(i) \cup {L} ELSE Mine(i)
  <2> SUFFICES ASSUME NEW i
               PROVE  Mine(i)' = IF i = j THEN Mine(i) \cup {L} ELSE Mine(i)
    OBVIOUS
  <2>1. PICK id : id = <<"record", i>>
    OBVIOUS
  <2>2. e.id = id <=> i = j
    BY <1>2, <1>3, <2>1
  <2>3. Audits(id)' = IF e.id = id THEN Audits(id) \cup {L} ELSE Audits(id)
    BY <1>2, <1>3, Audited
  <2> QED
    BY <2>1, <2>2, <2>3 DEF Mine
<1>7. \A i : Mine(i) \subseteq DOMAIN trail
  BY DEF Mine, Audits
<1>8. \A i : Deleted(i)' <=> Deleted(i) \/ (i = j /\ e.action = "DELETE")
  BY <1>5, <1>6, <1>7 DEF Deleted
<1>9. \A i, k : /\ Changed(i, k) \subseteq DOMAIN trail
                /\ i # j => Changed(i, k)' = Changed(i, k)
                /\ e.action = "CREATE" \/ (e.action = "UPDATE" /\ e.old[k] # e.new[k])
                     => Changed(j, k)' = Changed(j, k) \cup {L}
                /\ ~(e.action = "CREATE" \/ (e.action = "UPDATE" /\ e.old[k] # e.new[k]))
                     => Changed(j, k)' = Changed(j, k)
  <2> SUFFICES ASSUME NEW i, NEW k
               PROVE  /\ Changed(i, k) \subseteq DOMAIN trail
                      /\ i # j => Changed(i, k)' = Changed(i, k)
                      /\ e.action = "CREATE" \/ (e.action = "UPDATE" /\ e.old[k] # e.new[k])
                           => Changed(j, k)' = Changed(j, k) \cup {L}
                      /\ ~(e.action = "CREATE" \/ (e.action = "UPDATE" /\ e.old[k] # e.new[k]))
                           => Changed(j, k)' = Changed(j, k)
    OBVIOUS
  <2>1. Changed(i, k) \subseteq DOMAIN trail /\ (i # j => Changed(i, k)' = Changed(i, k))
    BY <1>5, <1>6, <1>7 DEF Changed
  <2>2. Mine(j)' = Mine(j) \cup {L} /\ \A n \in Mine(j) : trail'[n] = trail[n]
    BY <1>5, <1>6, <1>7
  <2>3. Changed(j, k)' = {n \in Mine(j)' : \/ trail'[n].action = "CREATE"
                                           \/ /\ trail'[n].action = "UPDATE"
                                              /\ trail'[n].old[k] # trail'[n].new[k]}
    BY DEF Changed
  <2> QED
    BY <1>5, <2>1, <2>2, <2>3 DEF Changed
<1>10. \A d \in w.changes : d = c
  BY <1>2
<1>11. \A i : i # j => /\ i \in DOMAIN rows'["record"] <=> i \in DOMAIN rows["record"]
                       /\ i \in DOMAIN rows["record"] => rows'["record"][i] = rows["record"][i]
  <2> SUFFICES ASSUME NEW i, i # j
               PROVE  /\ i \in DOMAIN rows'["record"] <=> i \in DOMAIN rows["record"]
                      /\ i \in DOMAIN rows["record"] => rows'["record"][i] = rows["record"][i]
    OBVIOUS
  <2>1. PICK changes : changes = w.changes
    OBVIOUS
  <2>2. i \in DOMAIN rows["record"] => i \in DOMAIN rows'["record"]
    BY <1>1, <1>3, <1>10, <2>1, FlushedDomain
  <2> QED
    BY <1>1, <1>3, <1>10, <2>2, CommittedRow
<1>12. c.new = None => j \notin DOMAIN rows'["record"]
  <2>1. PICK changes : changes = w.changes
    OBVIOUS
  <2> QED
    BY <1>1, <1>2, <1>3, <2>1, FlushedDomain
<1>13. j \in DOMAIN rows["record"] /\ c.new # None => j \in DOMAIN rows'["record"]
  <2>1. PICK changes : changes = w.changes
    OBVIOUS
  <2> QED
    BY <1>1, <1>10, <2>1, FlushedDomain
<1>14. c.was = None => /\ j \notin DOMAIN rows["record"] /\ j \in DOMAIN rows'["record"]
                       /\ rows'["record"][j] = c.new
  <2> SUFFICES ASSUME c.was = None
               PROVE  /\ j \notin DOMAIN rows["record"] /\ j \in DOMAIN rows'["record"]
                      /\ rows'["record"][j] = c.new
    OBVIOUS
  <2>1. j \notin DOMAIN rows["record"] /\ j \in DOMAIN rows'["record"]
    BY <1>2, <1>3, <1>4, CommittedRows
  <2>2. \E d \in w.changes : rows'["record"][j] = d.new
    BY <1>1, <2>1, CommittedRows
  <2> QED
    BY <1>10, <2>1, <2>2
<1>15. c.was # None => j \in DOMAIN rows["record"] \/ Deleted(j)
  BY <1>1, <1>2, <1>3, <1>4 DEF RecordInv, RecordsInHand
<1>16. ASSUME c.was # None, j \in DOMAIN rows'["record"], NEW k \in {"company", "status"}
       PROVE  /\ j \in DOMAIN rows["record"] /\ c.new # None
              /\ rows'["record"][j][k] = IF c.new[k] # c.was[k] THEN c.new[k]
                                         ELSE rows["record"][j][k]
  <2>1. c.new # None
    BY <1>12, <1>16
  <2>2. k \in DOMAIN c.new
    BY <1>4, <2>1 DEF ModuleRecord
  <2>3. CASE c.new = c.was
    BY <1>1, <1>10, <1>16, <2>1, <2>3, CommittedRow
  <2>4. CASE c.new # c.was
    <3>1. j \in DOMAIN rows["record"]
      BY <1>1, <1>2, <1>3, <1>4, <1>16, <2>1, <2>4 DEF Refused
    <3>2. rows'["record"][j] = Merged(rows["record"][j], c.was, c.new)
      <4>1. c.table = "record" /\ c.id = j /\ c \in w.changes /\ c.new \notin {None, c.was}
        BY <1>2, <1>3, <1>4, <2>1, <2>4
      <4>2. \E d \in w.changes : rows'["record"][j] = Merged(rows["record"][j], d.was, d.new)
        BY <1>1, <1>16, <3>1, <4>1, CommittedRow
      <4> QED
        BY <1>10, <4>2
    <3> QED
      BY <2>1, <2>2, <3>1, <3>2 DEF Merged
  <2> QED
    BY <2>3, <2>4
<1>17. RecordsInHand'
  <2> SUFFICES ASSUME NEW u \in Services, call'[u] # None, NEW d \in call'[u].changes,
                      d.table = "record"
               PROVE  /\ d.was = None /\ d.id # 0 =>
                           /\ d.id \notin DOMAIN rows'["record"] /\ Mine(d.id)' = {}
                           /\ \A v \in Services \ {u} : call'[v] # None =>
                                \A f \in call'[v].changes : f.table = "record" => f.id # d.id
                      /\ d.was # None => d.id \in DOMAIN rows'["record"] \/ Deleted(d.id)'
    BY DEF RecordsInHand
  <2>1. u # s /\ call[u] # None /\ d \in call[u].changes
    BY NothingLeft
  <2>2. /\ d.was = None /\ d.id # 0 =>
                  /\ d.id \notin DOMAIN rows["record"] /\ Mine(d.id) = {}
                  /\ \A v \in Services \ {u} : call[v] # None =>
                       \A f \in call[v].changes : f.table = "record" => f.id # d.id
        /\ d.was # None => d.id \in DOMAIN rows["record"] \/ Deleted(d.id)
    BY <2>1 DEF RecordInv, RecordsInHand
  <2>3. d.was = None /\ d.id # 0 => d.id # j
    BY <1>1, <1>2, <1>3, <1>4, <2>1, <2>2
  <2>4. d.was = None /\ d.id # 0 => d.id \notin DOMAIN rows'["record"] /\ Mine(d.id)' = {}
    BY <1>6, <1>11, <2>2, <2>3
  <2>5. d.was = None /\ d.id # 0 => \A v \in Services \ {u} : call'[v] # None =>
             \A f \in call'[v].changes : f.table = "record" => f.id # d.id
    BY <2>2, NothingLeft
  <2>6. d.was # None => d.id \in DOMAIN rows'["record"] \/ Deleted(d.id)'
    <3>1. CASE d.id # j
      BY <1>8, <1>11, <2>2, <3>1
    <3>2. CASE d.id = j /\ c.new = None
      <4>1. c.was # None /\ e.action = "DELETE"
        BY <1>4, <3>2
      <4> QED
        BY <1>8, <3>2, <4>1
    <3>3. CASE d.id = j /\ c.new # None
      BY <1>8, <1>13, <2>2, <3>3
    <3> QED
      BY <3>1, <3>2, <3>3
  <2> QED
    BY <2>4, <2>5, <2>6
<1>18. ASSUME NEW i, Mine(i)' # {}
       PROVE  i \in 0..uuid /\ (i \in DOMAIN rows'["record"] \/ Deleted(i)')
  <2>1. CASE i # j
    BY <1>6, <1>8, <1>11, <1>18, <2>1 DEF RecordInv
  <2>2. CASE i = j /\ c.new = None
    <3>1. e.action = "DELETE"
      BY <1>4, <2>2
    <3> QED
      BY <1>4, <1>8, <2>2, <3>1
  <2>3. CASE i = j /\ c.new # None
    BY <1>4, <1>8, <1>13, <1>14, <1>15, <2>3
  <2> QED
    BY <2>1, <2>2, <2>3
<1>19. ASSUME NEW i \in DOMAIN rows'["record"], i # 0 \/ ~Deleted(i)', NEW k \in {"company", "status"}
       PROVE  LastTells(i, k)'
  <2>1. CASE i # j
    <3>1. i \in DOMAIN rows["record"] /\ rows'["record"][i] = rows["record"][i]
          /\ Changed(i, k)' = Changed(i, k) /\ \A n \in Changed(i, k) : trail'[n] = trail[n]
      BY <1>5, <1>9, <1>11, <1>19, <2>1
    <3>2. LastTells(i, k)
      BY <1>8, <1>19, <2>1, <3>1 DEF RecordInv
    <3> QED
      BY <3>1, <3>2 DEF LastTells
  <2>2. ASSUME i = j, Changed(i, k)' = Changed(i, k) \cup {L}, rows'["record"][i][k] = e.new[k]
        PROVE  LastTells(i, k)'
    <3>1. \A o \in Changed(i, k)' : o <= L
      BY <1>5, <1>9, <2>2
    <3>2. L \in Changed(i, k)' /\ rows'["record"][i][k] = trail'[L].new[k]
      BY <1>5, <2>2
    <3> QED
      BY <3>1, <3>2 DEF LastTells
  <2>3. CASE i = j /\ c.was = None
    <3>1. Changed(j, k)' = Changed(j, k) \cup {L}
      BY <1>4, <1>9, <2>3
    <3> QED
      BY <1>4, <1>14, <2>2, <2>3, <3>1
  <2>4. CASE i = j /\ c.was # None
    <3>1. /\ j \in DOMAIN rows["record"] /\ c.new # None
          /\ rows'["record"][j][k] = IF c.new[k] # c.was[k] THEN c.new[k]
                                     ELSE rows["record"][j][k]
      BY <1>16, <1>19, <2>4
    <3>2. e.action = "UPDATE" /\ e.old = c.was /\ e.new = c.new
      BY <1>4, <2>4, <3>1
    <3>3. CASE c.new[k] # c.was[k]
      <4>1. Changed(j, k)' = Changed(j, k) \cup {L}
        BY <1>9, <3>2, <3>3
      <4> QED
        BY <2>2, <2>4, <3>1, <3>2, <3>3, <4>1
    <3>4. CASE c.new[k] = c.was[k]
      <4>1. Changed(j, k)' = Changed(j, k) /\ \A n \in Changed(j, k) : trail'[n] = trail[n]
        BY <1>5, <1>9, <3>2, <3>4
      <4>2. LastTells(j, k)
        BY <1>8, <1>19, <2>4, <3>1, <3>2 DEF RecordInv
      <4> QED
        BY <2>4, <3>1, <3>4, <4>1, <4>2 DEF LastTells
    <3> QED
      BY <3>3, <3>4
  <2> QED
    BY <2>1, <2>3, <2>4
<1> HIDE DEF w
<1> QED
  BY <1>1, <1>17, <1>18, <1>19 DEF RecordInv

\* The record invariant, on top of the two.
LEMMA RecordInvHolds == Spec => []RecordInv
<1>1. Init => RecordInv
  <2> SUFFICES ASSUME Init
               PROVE  RecordInv
    OBVIOUS
  <2>1. DOMAIN rows["record"] = {} /\ \A i : Mine(i) = {}
    BY TableTypes DEF Init, Mine, Audits
  <2> QED
    BY <2>1 DEF Init, RecordInv, RecordsInHand
<1>2. PlatformInv /\ RecordInv /\ [Next]_vars => RecordInv'
  <2> SUFFICES ASSUME PlatformInv, RecordInv, [Next]_vars
               PROVE  RecordInv'
    OBVIOUS
  <2>1. CASE UNCHANGED vars
    BY <2>1, RecordKeeps DEF vars, PlatformInv
  <2>2. CASE Next
    <3>1. PICK s \in Services : Calls(s) \/ Commit(s) \/ Crash(s) \/ LookUp(s)
      BY <2>2, OneStep DEF PlatformInv
    <3>2. CASE Calls(s)
      BY <3>2, RecordTakes DEF PlatformInv
    <3>3. CASE Ends(s) \/ LookUp(s)
      BY <3>3, RecordEnds DEF PlatformInv
    <3>4. CASE Committed(s)
      BY <3>4, RecordsAdded, RecordLogged DEF PlatformInv
    <3> QED
      BY <3>1, <3>2, <3>3, <3>4, CommitOrNot
  <2> QED
    BY <2>1, <2>2
<1> QED
  BY <1>1, <1>2, PlatformInvHolds, PTL DEF Spec

\* Whatever updates overlap, every column of a record on file holds what the last
\* audited change of that column says.
THEOREM RecordsAreAsAudited == Spec => []RecordsAreAudited
<1>1. ASSUME BaseInv, RecordInv, NEW i \in DOMAIN rows["record"],
             i # 0 \/ \A n \in Mine(i) : trail[n].action # "DELETE",
             NEW k \in {"company", "status"}, Changed(i, k) # {}
      PROVE  rows["record"][i][k]
               = trail[CHOOSE n \in Changed(i, k) : \A o \in Changed(i, k) : o <= n].new[k]
  <2>1. LastTells(i, k)
    BY <1>1 DEF RecordInv, Deleted
  <2>2. PICK n \in Changed(i, k) : /\ \A o \in Changed(i, k) : o <= n
                                   /\ rows["record"][i][k] = trail[n].new[k]
    BY <1>1, <2>1 DEF LastTells
  <2>3. PICK last : last = CHOOSE m \in Changed(i, k) : \A o \in Changed(i, k) : o <= m
    OBVIOUS
  <2>4. last \in Changed(i, k) /\ n <= last
    BY <2>2, <2>3
  <2>5. n \in Nat /\ last \in Nat
    BY <1>1, <2>2, <2>4 DEF Changed, Mine, Audits, BaseInv, RowsTyped
  <2>6. last <= n
    BY <2>2, <2>4
  <2>7. last = n
    BY <2>4, <2>5, <2>6
  <2> QED
    BY <2>2, <2>3, <2>7
<1>2. PlatformInv /\ RecordInv => RecordsAreAudited
  BY <1>1 DEF RecordsAreAudited, Changed, Mine, PlatformInv
<1> QED
  BY <1>2, PlatformInvHolds, RecordInvHolds, PTL
=============================================================================
