----------------------------- MODULE LiveStream -----------------------------
(***************************************************************************)
(* The 48-hour stream of scripts/run_vinod_live_stream.py: a process that  *)
(* Docker restarts whenever it ends, which writes batches of numbered rows *)
(* to module_records and keeps its place in one row of app_metadata; and   *)
(* scripts/seed_vinod_scale_data.py, which an operator runs beside it and  *)
(* which deletes what has the prefix VINOD-LIVE before it loads its own.   *)
(* One action is one commit.  The contents of the rows, the Data Hub rows  *)
(* of the loader and its timings are left out; the clock is only whether   *)
(* the end of the stored window has passed.                                *)
(***************************************************************************)
EXTENDS Naturals, FiniteSets

CONSTANTS
    NoState,     \* there is no live_stream_state row
    BatchSizes,  \* the batch sizes a run of the process may be given
    AuditEvery,  \* a refresh run and an audit event every so many batches, 0: never
    LiveLoads,   \* the batches of live rows one run of the loader inserts
    MaxRow       \* bound: the highest row number the stream reaches

ASSUME LiveStreamAssumption ==
    /\ BatchSizes \subseteq Nat \ {0}
    /\ AuditEvery \in Nat /\ LiveLoads \in Nat /\ MaxRow \in Nat
    /\ NoState \notin [status : {"Running", "Completed", "Stopped"},
                       sequence : Nat, rows_inserted : Nat,
                       batches_inserted : Nat]

VARIABLES
    rows,       \* numbers of the stream's rows in module_records
    observed,   \* batch numbers that have a refresh run and an audit event
    state,      \* the live_stream_state row
    open,       \* the end time in that row is still ahead
    process,    \* where the process is
    size,       \* its batch size
    company,    \* the company, its plants, flags, role and user are on file
    seen,       \* what each script found when it looked for the company
    loader,     \* where the loader is
    loaded,     \* the loader's base rows are on file
    live,       \* the batches of live rows the loader has on file
    purged,     \* history: numbers of stream rows the loader deleted
    restarted   \* history: the window was over and the stream began again

streamVars == <<rows, observed, state, open, process, size>>
loaderVars == <<loader, loaded, live, purged>>
vars == <<rows, observed, state, open, process, size, company, seen, loader,
          loaded, live, purged, restarted>>

State == [status : {"Running", "Completed", "Stopped"},
          sequence : Nat, rows_inserted : Nat, batches_inserted : Nat]

Fresh == [status |-> "Running", sequence |-> 0, rows_inserted |-> 0,
          batches_inserted |-> 0]

\* The database and the two scripts before either has ever run.
Init ==
    /\ rows = {} /\ observed = {}
    /\ state = NoState /\ open = FALSE
    /\ process = "down" /\ size \in BatchSizes
    /\ company = FALSE /\ seen = [stream |-> FALSE, loader |-> FALSE]
    /\ loader = "idle" /\ loaded = FALSE /\ live = 0
    /\ purged = {} /\ restarted = FALSE

-----------------------------------------------------------------------------
(* The stream process. *)

\* main opens a session and looks for the company; nothing is committed yet.
Start ==
    /\ process = "down"
    /\ size' \in BatchSizes
    /\ seen' = [seen EXCEPT !.stream = company]
    /\ process' = "starting"
    /\ UNCHANGED <<rows, observed, state, open, company, restarted, loaderVars>>

\* The loader has inserted the company since: the commit is refused and the
\* process ends with the error.
StartCollides ==
    /\ process = "starting" /\ ~seen.stream /\ company
    /\ process' = "down"
    /\ UNCHANGED <<rows, observed, state, open, size, company, seen, restarted,
                   loaderVars>>

\* load_or_start_state, window over or no row: a new window from number zero.
LoadFresh ==
    /\ process = "starting" /\ (company => seen.stream)
    /\ state # NoState => state.status # "Completed" /\ ~open
    /\ state' = Fresh /\ open' = TRUE
    /\ restarted' = (restarted \/ state # NoState)
    /\ company' = TRUE
    /\ process' = "looping"
    /\ UNCHANGED <<rows, observed, size, seen, loaderVars>>

\* load_or_start_state, window still open.  The status it sets is lost: the
\* payload is changed in place and then assigned to itself, which the session
\* takes for no change.
LoadResumed ==
    /\ process = "starting" /\ (company => seen.stream)
    /\ state # NoState /\ state.status # "Completed" /\ open
    /\ process' = "looping"
    /\ UNCHANGED <<rows, observed, state, open, size, company, seen, restarted,
                   loaderVars>>

\* A stream that was completed stays so; the process idles or ends.
LoadCompleted ==
    /\ process = "starting"
    /\ state # NoState /\ state.status = "Completed"
    /\ process' \in {"held", "down"}
    /\ UNCHANGED <<rows, observed, state, open, size, company, seen, restarted,
                   loaderVars>>

OneShort == (state.sequence + 1) .. (state.sequence + size - 1)   \* mutant: range(size - 1)
BatchRows == (state.sequence + 1) .. (state.sequence + size)

BatchNumber == state.batches_inserted + 1

\* audit_every_batches > 0 and batch_number % audit_every_batches == 0
Audited == AuditEvery > 0 /\ BatchNumber % AuditEvery = 0

\* One of the ids of the batch, or of its events, is on file already.
Refused == BatchRows \cap rows # {} \/ (Audited /\ BatchNumber \in observed)

\* mutant: the rows are committed before the new place
RunBatchTwoCommits ==
    /\ process = "looping" /\ open
    /\ state.sequence + size <= MaxRow /\ ~Refused
    /\ rows' = rows \cup BatchRows
    /\ process' = "down"
    /\ UNCHANGED <<observed, state, open, size, company, seen, restarted,
                   loaderVars>>

\* run_batch: the rows, their events and the new place are one commit.  With
\* max_batches the process ends after its last batch.
RunBatch ==
    /\ process = "looping" /\ open
    /\ state.sequence + size <= MaxRow
    /\ ~Refused
    /\ rows' = rows \cup BatchRows
    /\ observed' = IF Audited THEN observed \cup {BatchNumber} ELSE observed
    /\ state' = [status |-> "Running", sequence |-> state.sequence + size,
                 rows_inserted |-> state.rows_inserted + size,
                 batches_inserted |-> BatchNumber]
    /\ process' \in {"looping", "down"}
    /\ UNCHANGED <<open, size, company, seen, restarted, loaderVars>>

\* run_batch on an id that is taken: nothing is committed, the process ends.
BatchRefused ==
    /\ process = "looping" /\ open
    /\ Refused
    /\ process' = "down"
    /\ UNCHANGED <<rows, observed, state, open, size, company, seen, restarted,
                   loaderVars>>

\* mutant: the end of the window is not looked at while batches go on
CompleteIfStopped ==
    /\ process = "looping" /\ ~open /\ state.status = "Stopped"
    /\ state' = [state EXCEPT !.status = "Completed"]
    /\ process' \in {"held", "down"}
    /\ UNCHANGED <<rows, observed, open, size, company, seen, restarted,
                   loaderVars>>

\* now >= ends_at at the top of the loop.
Complete ==
    /\ process = "looping" /\ ~open
    /\ state' = [state EXCEPT !.status = "Completed"]
    /\ process' \in {"held", "down"}
    /\ UNCHANGED <<rows, observed, open, size, company, seen, restarted,
                   loaderVars>>

\* SIGINT or SIGTERM, seen at the top of the loop or during the sleep.
Stop ==
    /\ process = "looping"
    /\ state' = [state EXCEPT !.status = "Stopped"]
    /\ process' = "down"
    /\ UNCHANGED <<rows, observed, open, size, company, seen, restarted,
                   loaderVars>>

\* The container is killed, or the database fails under the process.
Crash ==
    /\ process # "down"
    /\ process' = "down"
    /\ UNCHANGED <<rows, observed, state, open, size, company, seen, restarted,
                   loaderVars>>

\* The end time of the stored window passes.
WindowEnds ==
    /\ open
    /\ open' = FALSE
    /\ UNCHANGED <<rows, observed, state, process, size, company, seen,
                   restarted, loaderVars>>

-----------------------------------------------------------------------------
(* The loader. *)

\* ensure_vinod_company looks for the company.
LoaderStart ==
    /\ loader = "idle"
    /\ seen' = [seen EXCEPT !.loader = company]
    /\ loader' = "starting"
    /\ UNCHANGED <<company, loaded, live, purged, restarted, streamVars>>

\* The first commit: the company, and all that the prefixes VINOD-SCALE and
\* VINOD-LIVE match, the rows of the stream among it.
LoaderClean ==
    /\ loader = "starting" /\ (company => seen.loader)
    /\ company' = TRUE
    /\ rows' = {} /\ purged' = purged \cup rows
    /\ loaded' = FALSE /\ live' = 0
    /\ loader' = "cleaned"
    /\ UNCHANGED <<observed, state, open, process, size, seen, restarted>>

\* The second commit: the base rows, the Data Hub rows, their run and event.
LoaderLoad ==
    /\ loader = "cleaned"
    /\ loaded' = TRUE
    /\ loader' = "inserting"
    /\ UNCHANGED <<company, live, purged, seen, restarted, streamVars>>

\* insert_live_batches: one commit for each batch.
LoaderInsert ==
    /\ loader = "inserting" /\ live < LiveLoads
    /\ live' = live + 1
    /\ UNCHANGED <<company, loader, loaded, purged, seen, restarted, streamVars>>

\* The report is printed; or the script fails: the company is there after
\* all, or the login for the timings, or the database.
LoaderEnds ==
    /\ loader # "idle"
    /\ loader' = "idle"
    /\ UNCHANGED <<company, loaded, live, purged, seen, restarted, streamVars>>

Next ==
    \/ Start \/ StartCollides \/ LoadFresh \/ LoadResumed \/ LoadCompleted
    \/ RunBatch \/ BatchRefused \/ Complete \/ Stop \/ Crash \/ WindowEnds
    \/ LoaderStart \/ LoaderClean \/ LoaderLoad \/ LoaderInsert \/ LoaderEnds

Spec == Init /\ [][Next]_vars

\* Time passes, and a process that is up takes its steps.
FairSpec == Spec /\ WF_vars(WindowEnds) /\ WF_vars(Complete)

-----------------------------------------------------------------------------
TypeOK ==
    /\ rows \subseteq 1 .. MaxRow /\ purged \subseteq 1 .. MaxRow
    /\ observed \subseteq Nat
    /\ state \in State \cup {NoState}
    /\ process \in {"down", "starting", "looping", "held"}
    /\ size \in BatchSizes
    /\ open \in BOOLEAN /\ company \in BOOLEAN /\ loaded \in BOOLEAN
    /\ restarted \in BOOLEAN
    /\ seen \in [stream : BOOLEAN, loader : BOOLEAN]
    /\ loader \in {"idle", "starting", "cleaned", "inserting"}
    /\ live \in 0 .. LiveLoads

Place == IF state = NoState THEN 0 ELSE state.sequence

\* Whatever stops and starts the process inside its window, its place in
\* app_metadata is the number of the last row it wrote, every row up to it was
\* written, and each audit_every_batches-th batch has its events: the row of
\* progress is neither ahead of the rows nor behind them, and so no batch is
\* ever refused.
RestartSafe ==
    ~restarted =>
        /\ rows \cup purged = 1 .. Place
        /\ state # NoState =>
              observed = {b \in 1 .. state.batches_inserted :
                             AuditEvery > 0 /\ b % AuditEvery = 0}
        /\ process = "looping" => ~Refused

\* Even when the window was over and the numbering began again from zero, or
\* the loader has deleted rows, the numbers ever written are 1 to some n: a
\* batch is written whole or refused whole, after the last or over the deleted.
log == rows \cup purged
Log == INSTANCE AppendLog WITH Last <- MaxRow
ImplementsAppendLog == Log!Spec

\* A process that streams does not do so for ever: the window ends, and with
\* it the loop.
StreamEnds == (process = "looping") ~> (process # "looping")
==============================================================================
