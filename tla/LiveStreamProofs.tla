-------------------------- MODULE LiveStreamProofs --------------------------
(***************************************************************************)
(* Theorems about LiveStream, for every batch size, audit interval and     *)
(* bound.                                                                  *)
(***************************************************************************)
EXTENDS LiveStream, TLAPS

(* Intervals. *)

\* No rows are an interval.
LEMMA EmptyInterval == 1 .. 0 = {}
  OBVIOUS

\* An interval from 1 with one that begins no later than after its end is again
\* one.
LEMMA ExtendInterval ==
  ASSUME NEW n \in Nat, NEW s \in Nat, s <= n, NEW k \in Nat
  PROVE  (1 .. n) \cup ((s + 1) .. (s + k))
            = 1 .. (IF s + k <= n THEN n ELSE s + k)
<1>1. CASE s + k <= n
  BY <1>1
<1>2. CASE ~(s + k <= n)
  BY <1>2
<1>3. QED
  BY <1>1, <1>2

-----------------------------------------------------------------------------
(* Types.  A process in its loop has a state row. *)

TypeInv == TypeOK /\ (process = "looping" => state # NoState)

\* The variables have their types at the start.
LEMMA TypeInit == Init => TypeInv
<1> SUFFICES ASSUME Init PROVE TypeInv
  OBVIOUS
<1>1. rows \subseteq 1 .. MaxRow /\ purged \subseteq 1 .. MaxRow /\ observed \subseteq Nat
  BY DEF Init
<1>2. live \in 0 .. LiveLoads
  BY LiveStreamAssumption DEF Init
<1>3. state \in State \cup {NoState} /\ (process = "looping" => state # NoState)
  BY DEF Init
<1>4. QED
  BY <1>1, <1>2, <1>3 DEF Init, TypeInv, TypeOK

\* And after every step.
LEMMA TypeStep == TypeInv /\ [Next]_vars => TypeInv'
<1> SUFFICES ASSUME TypeOK, process = "looping" => state # NoState, [Next]_vars
             PROVE  TypeInv'
  BY DEF TypeInv
<1> USE LiveStreamAssumption DEF TypeInv
<1>1. CASE Start
  BY <1>1 DEF Start, TypeOK, loaderVars
<1>2. CASE StartCollides
  BY <1>2 DEF StartCollides, TypeOK, loaderVars
<1>3. CASE LoadFresh
  <2>1. state' \in State /\ state' # NoState
    BY <1>3 DEF LoadFresh, State, Fresh
  <2>2. QED
    BY <1>3, <2>1 DEF LoadFresh, TypeOK, loaderVars
<1>4. CASE LoadResumed
  BY <1>4 DEF LoadResumed, TypeOK, loaderVars
<1>5. CASE LoadCompleted
  BY <1>5 DEF LoadCompleted, TypeOK, loaderVars
<1>6. CASE RunBatch
  <2>1. state.sequence \in Nat /\ state.rows_inserted \in Nat
        /\ state.batches_inserted \in Nat /\ size \in Nat
    BY <1>6 DEF RunBatch, TypeOK, State
  <2>2. state' \in State /\ state' # NoState
    BY <1>6, <2>1 DEF RunBatch, BatchNumber, State
  <2>3. rows' \subseteq 1 .. MaxRow
    <3>1. rows' = rows \cup ((state.sequence + 1) .. (state.sequence + size))
          /\ state.sequence + size <= MaxRow /\ rows \subseteq 1 .. MaxRow
      BY <1>6 DEF RunBatch, BatchRows, TypeOK
    <3> DEFINE a == state.sequence
    <3>2. (a + 1) .. (a + size) \subseteq 1 .. MaxRow
      <4> HIDE DEF a
      <4> SUFFICES ASSUME a \in Nat, size \in Nat, a + size <= MaxRow, MaxRow \in Nat
                   PROVE  (a + 1) .. (a + size) \subseteq 1 .. MaxRow
        BY <2>1, <3>1 DEF a
      <4> QED
        OBVIOUS
    <3>3. QED
      BY <3>1, <3>2
  <2>4. observed' \subseteq Nat
    <3>1. observed' \subseteq observed \cup {state.batches_inserted + 1}
      BY <1>6 DEF RunBatch, BatchNumber
    <3>2. QED
      BY <2>1, <3>1 DEF TypeOK
  <2>5. QED
    BY <1>6, <2>2, <2>3, <2>4 DEF RunBatch, TypeOK, loaderVars
<1>7. CASE BatchRefused
  BY <1>7 DEF BatchRefused, TypeOK, loaderVars
<1>8. CASE Complete
  <2>1. state' \in State /\ state' # NoState
    BY <1>8 DEF Complete, TypeOK, State
  <2>2. QED
    BY <1>8, <2>1 DEF Complete, TypeOK, loaderVars
<1>9. CASE Stop
  <2>1. state' \in State /\ state' # NoState
    BY <1>9 DEF Stop, TypeOK, State
  <2>2. QED
    BY <1>9, <2>1 DEF Stop, TypeOK, loaderVars
<1>10. CASE Crash
  BY <1>10 DEF Crash, TypeOK, loaderVars
<1>11. CASE WindowEnds
  BY <1>11 DEF WindowEnds, TypeOK, loaderVars
<1>12. CASE LoaderStart
  BY <1>12 DEF LoaderStart, TypeOK, streamVars
<1>13. CASE LoaderClean
  <2>1. rows' \subseteq 1 .. MaxRow /\ purged' \subseteq 1 .. MaxRow
    BY <1>13 DEF LoaderClean, TypeOK
  <2>2. live' \in 0 .. LiveLoads
    BY <1>13 DEF LoaderClean
  <2>3. QED
    BY <1>13, <2>1, <2>2 DEF LoaderClean, TypeOK
<1>14. CASE LoaderLoad
  BY <1>14 DEF LoaderLoad, TypeOK, streamVars
<1>15. CASE LoaderInsert
  BY <1>15 DEF LoaderInsert, TypeOK, streamVars
<1>16. CASE LoaderEnds
  BY <1>16 DEF LoaderEnds, TypeOK, streamVars
<1>17. CASE UNCHANGED vars
  BY <1>17 DEF vars, TypeOK
<1>18. QED
  BY <1>1, <1>2, <1>3, <1>4, <1>5, <1>6, <1>7, <1>8, <1>9, <1>10, <1>11, <1>12,
     <1>13, <1>14, <1>15, <1>16, <1>17 DEF Next

(* The state of both scripts is of the stated types, whatever the batch      *)
(* sizes, the audit interval and the moments at which either is killed.      *)
THEOREM TypesHold == Spec => []TypeOK
<1>1. TypeInv => TypeOK
  BY DEF TypeInv
<1>2. QED
  BY TypeInit, TypeStep, <1>1, PTL DEF Spec

-----------------------------------------------------------------------------
(* The numbers written. *)

\* No number is missing, and the place in the state row is not beyond them.
NoGap == \E n \in 0 .. MaxRow : log = 1 .. n /\ Place <= n

\* Before the window is ever restarted the state row and the rows agree.
Exact ==
    ~restarted =>
        /\ log = 1 .. Place
        /\ state # NoState =>
              observed = {b \in 1 .. state.batches_inserted :
                             AuditEvery > 0 /\ b % AuditEvery = 0}
        /\ state = NoState => observed = {}

RowsInv == TypeInv /\ NoGap /\ Exact

\* The rows are in order at the start.
LEMMA RowsInit == Init => RowsInv
<1> SUFFICES ASSUME Init PROVE RowsInv
  OBVIOUS
<1>1. log = {} /\ Place = 0 /\ state = NoState /\ observed = {}
  BY DEF Init, log, Place
<1>2. 0 \in 0 .. MaxRow
  BY LiveStreamAssumption
<1>3. NoGap
  BY <1>1, <1>2, EmptyInterval DEF NoGap
<1>4. Exact
  BY <1>1, EmptyInterval DEF Exact
<1>5. QED
  BY <1>3, <1>4, TypeInit DEF RowsInv

\* A step that leaves the numbers, the place and the events alone.
LEMMA RowsUntouched ==
  ASSUME RowsInv, TypeInv', log' = log, Place' = Place, observed' = observed,
         restarted' = restarted, (state' = NoState) <=> (state = NoState),
         state # NoState => state'.batches_inserted = state.batches_inserted
  PROVE  RowsInv'
<1>1. NoGap'
  BY DEF RowsInv, NoGap
<1>2. Exact'
  BY DEF RowsInv, Exact
<1>3. QED
  BY <1>1, <1>2 DEF RowsInv

\* And after every step.
LEMMA RowsStep == RowsInv /\ [Next]_vars => RowsInv'
<1> SUFFICES ASSUME RowsInv, [Next]_vars PROVE RowsInv'
  OBVIOUS
<1>0. TypeInv' /\ TypeOK /\ TypeOK'
  BY TypeStep DEF RowsInv, TypeInv
<1>1. CASE Start
  BY <1>0, <1>1, RowsUntouched DEF Start, loaderVars, log, Place
<1>2. CASE StartCollides
  BY <1>0, <1>2, RowsUntouched DEF StartCollides, loaderVars, log, Place
<1>3. CASE LoadFresh
  <2>1. log' = log /\ observed' = observed /\ Place' = 0 /\ state' # NoState
        /\ state'.batches_inserted = 0
    BY <1>3, LiveStreamAssumption DEF LoadFresh, loaderVars, log, Place, Fresh, State
  <2>2. NoGap'
    BY <2>1 DEF RowsInv, NoGap
  <2>3. ~restarted' => state = NoState /\ ~restarted
    BY <1>3 DEF LoadFresh
  <2>4. ~restarted' => log = 1 .. 0 /\ observed = {}
    BY <2>3 DEF RowsInv, Exact, Place
  <2>5. {b \in 1 .. 0 : AuditEvery > 0 /\ b % AuditEvery = 0} = {}
    BY EmptyInterval
  <2>6. Exact'
    BY <2>1, <2>4, <2>5 DEF Exact
  <2>7. QED
    BY <1>0, <2>2, <2>6 DEF RowsInv
<1>4. CASE LoadResumed
  BY <1>0, <1>4, RowsUntouched DEF LoadResumed, loaderVars, log, Place
<1>5. CASE LoadCompleted
  BY <1>0, <1>5, RowsUntouched DEF LoadCompleted, loaderVars, log, Place
<1>6. CASE RunBatch
  <2>1. /\ state # NoState /\ state' # NoState
        /\ state.sequence \in Nat /\ state.batches_inserted \in Nat
        /\ size \in Nat /\ Place = state.sequence
        /\ Place' = state.sequence + size
        /\ state'.batches_inserted = state.batches_inserted + 1
    BY <1>0, <1>6, LiveStreamAssumption
    DEF RunBatch, RowsInv, TypeInv, TypeOK, State, Place, BatchNumber
  <2>2. log' = log \cup ((state.sequence + 1) .. (state.sequence + size))
    BY <1>6 DEF RunBatch, log, BatchRows, loaderVars
  <2>3. NoGap'
    <3>1. PICK n \in 0 .. MaxRow : log = 1 .. n /\ Place <= n
      BY DEF RowsInv, NoGap
    <3> DEFINE m == IF state.sequence + size <= n THEN n ELSE state.sequence + size
    <3>2. log' = 1 .. m
      BY <2>1, <2>2, <3>1, ExtendInterval
    <3>3. m \in 0 .. MaxRow /\ Place' <= m
      BY <1>6, <2>1, <3>1 DEF RunBatch
    <3>4. QED
      BY <3>2, <3>3 DEF NoGap
  <2>4. Exact'
    <3> SUFFICES ASSUME ~restarted' PROVE Exact'
      BY DEF Exact
    <3>1. ~restarted
      BY <1>6 DEF RunBatch
    <3>2. log = 1 .. state.sequence
      BY <2>1, <3>1 DEF RowsInv, Exact
    <3>3. log' = 1 .. Place'
      BY <2>1, <2>2, <3>2, ExtendInterval
    <3> DEFINE Due(b) == AuditEvery > 0 /\ b % AuditEvery = 0
               k == state.batches_inserted
    <3>4. observed = {b \in 1 .. k : Due(b)}
      BY <2>1, <3>1 DEF RowsInv, Exact
    <3>5. observed' = IF Due(k + 1) THEN observed \cup {k + 1} ELSE observed
      BY <1>6 DEF RunBatch, Audited, BatchNumber
    <3>6. 1 .. (k + 1) = (1 .. k) \cup {k + 1}
      <4>1. k \in Nat
        BY <2>1
      <4> HIDE DEF k
      <4>2. \A x : x \in 1 .. (k + 1) <=> x \in (1 .. k) \cup {k + 1}
        BY <4>1
      <4>3. QED
        BY <4>2
    <3> HIDE DEF Due, k
    <3>7. observed' = {b \in 1 .. (k + 1) : Due(b)}
      BY <3>4, <3>5, <3>6
    <3>8. observed' = {b \in 1 .. state'.batches_inserted :
                          AuditEvery > 0 /\ b % AuditEvery = 0}
      BY <2>1, <3>7 DEF Due, k
    <3>9. QED
      BY <2>1, <3>3, <3>8, <1>6 DEF Exact, RunBatch
  <2>5. QED
    BY <1>0, <2>3, <2>4 DEF RowsInv
<1>7. CASE BatchRefused
  BY <1>0, <1>7, RowsUntouched DEF BatchRefused, loaderVars, log, Place
<1>8. CASE Complete
  <2>1. state # NoState /\ state' # NoState /\ state'.sequence = state.sequence
        /\ state'.batches_inserted = state.batches_inserted
    BY <1>0, <1>8, LiveStreamAssumption DEF Complete, RowsInv, TypeInv, TypeOK, State
  <2>2. QED
    BY <1>0, <1>8, <2>1, RowsUntouched DEF Complete, loaderVars, log, Place
<1>9. CASE Stop
  <2>1. state # NoState /\ state' # NoState /\ state'.sequence = state.sequence
        /\ state'.batches_inserted = state.batches_inserted
    BY <1>0, <1>9, LiveStreamAssumption DEF Stop, RowsInv, TypeInv, TypeOK, State
  <2>2. QED
    BY <1>0, <1>9, <2>1, RowsUntouched DEF Stop, loaderVars, log, Place
<1>10. CASE Crash
  BY <1>0, <1>10, RowsUntouched DEF Crash, loaderVars, log, Place
<1>11. CASE WindowEnds
  BY <1>0, <1>11, RowsUntouched DEF WindowEnds, loaderVars, log, Place
<1>12. CASE LoaderStart
  BY <1>0, <1>12, RowsUntouched DEF LoaderStart, streamVars, log, Place
<1>13. CASE LoaderClean
  BY <1>0, <1>13, RowsUntouched DEF LoaderClean, log, Place
<1>14. CASE LoaderLoad
  BY <1>0, <1>14, RowsUntouched DEF LoaderLoad, streamVars, log, Place
<1>15. CASE LoaderInsert
  BY <1>0, <1>15, RowsUntouched DEF LoaderInsert, streamVars, log, Place
<1>16. CASE LoaderEnds
  BY <1>0, <1>16, RowsUntouched DEF LoaderEnds, streamVars, log, Place
<1>17. CASE UNCHANGED vars
  BY <1>0, <1>17, RowsUntouched DEF vars, log, Place
<1>18. QED
  BY <1>1, <1>2, <1>3, <1>4, <1>5, <1>6, <1>7, <1>8, <1>9, <1>10, <1>11, <1>12,
     <1>13, <1>14, <1>15, <1>16, <1>17 DEF Next

\* The rows and the events that agree with the state row leave the next batch
\* nothing to collide with.
LEMMA ExactIsSafe == RowsInv => RestartSafe
<1> SUFFICES ASSUME RowsInv, ~restarted PROVE RestartSafe
  BY DEF RestartSafe
<1>1. log = 1 .. Place
  BY DEF RowsInv, Exact
<1>2. state # NoState =>
        observed = {b \in 1 .. state.batches_inserted :
                       AuditEvery > 0 /\ b % AuditEvery = 0}
  BY DEF RowsInv, Exact
<1>3. ASSUME process = "looping" PROVE ~Refused
  <2>1. state # NoState /\ state.sequence \in Nat /\ state.batches_inserted \in Nat
        /\ size \in Nat /\ Place = state.sequence
    BY <1>3, LiveStreamAssumption DEF RowsInv, TypeInv, TypeOK, State, Place
  <2>2. \A r \in rows : r \in Nat /\ r <= state.sequence
    BY <1>1, <2>1 DEF log
  <2>3. BatchRows \cap rows = {}
    BY <2>1, <2>2 DEF BatchRows
  <2>4. BatchNumber \notin observed
    BY <1>2, <2>1 DEF BatchNumber
  <2>5. QED
    BY <2>3, <2>4 DEF Refused
<1>4. QED
  BY <1>1, <1>2, <1>3 DEF RestartSafe, log

(* However often the process is stopped, killed or restarted inside its       *)
(* window, beside a loader that deletes its rows, the place in app_metadata    *)
(* agrees with the rows and the events, and no batch is refused.               *)
THEOREM RestartsAreSafe == Spec => []RestartSafe
  BY RowsInit, RowsStep, ExactIsSafe, PTL DEF Spec

-----------------------------------------------------------------------------
(* The refinement. *)

\* At the start the log that the stream stands for is empty.
LEMMA LogInit == Init => Log!Init
  BY DEF Init, Log!Init, log

\* Every step appends to that log, or leaves it as it is.
LEMMA LogStep == RowsInv /\ RowsInv' /\ [Next]_vars => [Log!Append]_log
<1> SUFFICES ASSUME RowsInv, RowsInv', [Next]_vars, log' # log PROVE Log!Append
  OBVIOUS
<1>1. log \subseteq log'
  <2>1. CASE RunBatch
    BY <2>1 DEF RunBatch, loaderVars, log
  <2>2. CASE LoaderClean
    BY <2>2 DEF LoaderClean, log
  <2>3. CASE rows' = rows /\ purged' = purged
    BY <2>3 DEF log
  <2>4. QED
    BY <2>1, <2>2, <2>3
    DEF Next, vars, streamVars, loaderVars, Start, StartCollides, LoadFresh,
        LoadResumed, LoadCompleted, BatchRefused, Complete, Stop, Crash,
        WindowEnds, LoaderStart, LoaderLoad, LoaderInsert, LoaderEnds
<1>2. PICK n \in 0 .. MaxRow : log = 1 .. n
  BY DEF RowsInv, NoGap
<1>3. PICK m \in 0 .. MaxRow : log' = 1 .. m
  BY DEF RowsInv, NoGap
<1>4. n <= m
  BY <1>1, <1>2, <1>3
<1>5. QED
  BY <1>2, <1>3, <1>4 DEF Log!Append

(* The stream is an append-only log: the numbers written are always 1 to some *)
(* n and each step goes from n to a higher number, also when the window was    *)
(* restarted over rows that are there or over rows that were deleted.          *)
THEOREM StreamAppends == Spec => ImplementsAppendLog
<1>1. RowsInv /\ RowsInv' /\ [Next]_vars => [Log!Append]_log
  BY LogStep
<1>2. QED
  BY RowsInit, RowsStep, LogInit, <1>1, PTL DEF Spec, ImplementsAppendLog, Log!Spec
==============================================================================
