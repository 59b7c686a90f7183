------------------------------- MODULE Session -------------------------------
(***************************************************************************)
(* What a commit of a SQLAlchemy session does to the tables.  A table is a *)
(* function from ids to rows; a change holds the row as the session read   *)
(* it (None: a row it adds) and as the handler left it (None: a row it     *)
(* deletes).  Every request has a session of its own, which is not flushed *)
(* before the commit (app/database.py:11).                                 *)
(***************************************************************************)

CONSTANT None    \* no row

Change(table, id, was, new) == [table |-> table, id |-> id, was |-> was, new |-> new]

Read(rows, table, id) == IF id \in DOMAIN rows[table] THEN rows[table][id] ELSE None

\* An insert finds its id taken, or an update finds its row gone: the session is
\* rolled back whole.  A delete of a row that is gone is only warned of.
Refused(rows, changes) ==
    \E c \in changes :
        \/ c.was = None /\ c.new # None /\ c.id \in DOMAIN rows[c.table]
        \/ c.was # None /\ c.new \notin {None, c.was} /\ c.id \notin DOMAIN rows[c.table]

\* Only the columns the handler changed are written.
Merged(now, was, new) == [k \in DOMAIN new |-> IF new[k] # was[k] THEN new[k] ELSE now[k]]

Flush(table, changes) ==
    LET put == {c \in changes : c.new \notin {None, c.was}}
        gone == {c.id : c \in {d \in changes : d.new = None}}
        Put(id) == CHOOSE c \in put : c.id = id
    IN [i \in (DOMAIN table \cup {c.id : c \in put}) \ gone |->
          IF i \notin {c.id : c \in put} THEN table[i]
          ELSE IF Put(i).was = None THEN Put(i).new
          ELSE Merged(table[i], Put(i).was, Put(i).new)]

Flushed(rows, changes) ==
    [tb \in DOMAIN rows |->
       IF \E c \in changes : c.table = tb
       THEN Flush(rows[tb], {c \in changes : c.table = tb}) ELSE rows[tb]]
=============================================================================
