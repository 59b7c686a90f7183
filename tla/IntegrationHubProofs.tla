------------------------ MODULE IntegrationHubProofs ------------------------
(***************************************************************************)
(* The integration hub, for any number of threads, keys, records and       *)
(* calls.  First the intake of events alone: it implements ApplyOnce, and  *)
(* an event that was answered "Ignored" is in the log or about to be.      *)
(* Then the whole hub: it implements the intake, the configuration is      *)
(* shown as it is switched, a commit reports every record of its file, and *)
(* an import is committed as often as it was approved.                     *)
(*                                                                         *)
(* None of the properties is inductive, as each is silent about a call     *)
(* between two of its steps.  OneOnItsWay says where a key without         *)
(* collision can be: with at most one thread before its key is stored, at  *)
(* most one thread before its event is, and then in the log.  OneSwitch    *)
(* has the switch under way agree with what it has written.  Whole(id) has *)
(* the rows of an import complete from the moment nobody adds any more,    *)
(* through its approval, to the step that counts them.  Covered(id) counts *)
(* the commits under way with those that are done, and one more for the    *)
(* commit an approved import still allows; Room(id) grants an approved     *)
(* import a commit of each thread.                                         *)
(***************************************************************************)
EXTENDS IntegrationHub, FiniteSetTheorems, SequenceTheorems, TLAPS

Unique(k, step) ==
    \A t, u \in Threads : At(t, step, k) /\ At(u, step, k) => t = u

(* A key on which no two pushes collided.                                  *)
OneOnItsWay(k) ==
    /\ Unique(k, "key") /\ Unique(k, "event")
    /\ \A t \in Threads :
          /\ At(t, "key", k) => keyRows[k] = 0
          /\ At(t, "event", k) => events[k] = 0 /\ keyRows[k] > 0
    /\ events[k] > 0 => keyRows[k] > 0

CleanKeys == \A k \in Keys \ collided : OneOnItsWay(k)

(* A stored key has its event in the log, or a thread about to log it.     *)
StoredIsLogged ==
    \A k \in Keys :
        keyRows[k] > 0 => events[k] > 0 \/ \E t \in Threads : At(t, "event", k)

IgnoredIsStored == \A k \in ignored : keyRows[k] > 0

OnceInv == TypeOK /\ CleanKeys
LogInv == TypeOK /\ StoredIsLogged /\ IgnoredIsStored

(* The key an idle thread holds is one.                                    *)
LEMMA Chosen == AnyKey \in Keys
BY KeysAssumption DEF AnyKey

(* A server that has just started knows no key, and every thread is idle.  *)
LEMMA InitHolds == Init => TypeOK /\ CleanKeys /\ StoredIsLogged /\ IgnoredIsStored
BY Chosen DEF Init, TypeOK, CleanKeys, OneOnItsWay, Unique, StoredIsLogged,
              IgnoredIsStored, At, Empty

(* Neither does one that has restarted.                                    *)
LEMMA RestartHolds ==
    Restart => TypeOK' /\ CleanKeys' /\ StoredIsLogged' /\ IgnoredIsStored'
BY Chosen DEF Restart, TypeOK, CleanKeys, OneOnItsWay, Unique, StoredIsLogged,
              IgnoredIsStored, At, Empty, KeysAtStart

(* Every step of the handler keeps rows and locals well typed.             *)
LEMMA TypeStep == TypeOK /\ [Next]_vars => TypeOK'
<1> SUFFICES ASSUME TypeOK, [Next]_vars PROVE TypeOK'
  OBVIOUS
<1>1. ASSUME NEW t \in Threads, NEW k \in Keys, Push(t, k) PROVE TypeOK'
  BY <1>1 DEF TypeOK, Push
<1>2. ASSUME NEW t \in Threads, StoreKey(t) PROVE TypeOK'
  BY <1>2 DEF TypeOK, StoreKey
<1>3. ASSUME NEW t \in Threads, StoreEvent(t) PROVE TypeOK'
  BY <1>3, Chosen DEF TypeOK, StoreEvent
<1>4. CASE Restart
  BY <1>4, RestartHolds
<1>5. CASE UNCHANGED vars
  BY <1>5 DEF TypeOK, vars
<1> QED
  BY <1>1, <1>2, <1>3, <1>4, <1>5 DEF Next

-----------------------------------------------------------------------------
(* A new push of a key: if another thread holds it, the key collides.      *)
LEMMA PushClean ==
    ASSUME OnceInv, NEW t \in Threads, NEW j \in Keys, Push(t, j)
    PROVE  CleanKeys'
<1> SUFFICES ASSUME NEW k \in Keys \ collided' PROVE OneOnItsWay(k)'
  BY DEF CleanKeys
<1> USE DEF OnceInv, TypeOK
<1>1. k \notin collided /\ OneOnItsWay(k)
  BY DEF Push, CleanKeys
<1>2. CASE ~Unknown(j)
  BY <1>1, <1>2 DEF Push, OneOnItsWay, Unique, At
<1>3. CASE Unknown(j)
  <2>1. \A u \in Threads : u # t =>
          (At(u, "key", k)' <=> At(u, "key", k)) /\ (At(u, "event", k)' <=> At(u, "event", k))
    BY <1>3 DEF Push, At
  <2>2. ~At(t, "event", k)'
    BY <1>3 DEF Push, At
  <2>3. At(t, "key", k)' => k = j /\ keyRows[k] = 0 /\ \A u \in Threads : ~At(u, "key", k)
    BY <1>3 DEF Push, At, Unknown
  <2>4. keyRows' = keyRows /\ events' = events
    BY DEF Push
  <2> QED
    BY <1>1, <2>1, <2>2, <2>3, <2>4 DEF OneOnItsWay, Unique
<1> QED
  BY <1>2, <1>3

(* Storing a key: its thread goes on to the event.                         *)
LEMMA StoreKeyClean ==
    ASSUME OnceInv, NEW t \in Threads, StoreKey(t)
    PROVE  CleanKeys'
<1> SUFFICES ASSUME NEW k \in Keys \ collided' PROVE OneOnItsWay(k)'
  BY DEF CleanKeys
<1> USE DEF OnceInv, TypeOK
<1>1. k \notin collided /\ OneOnItsWay(k)
  BY DEF StoreKey, CleanKeys
<1>2. /\ \A u \in Threads : u # t =>
            (At(u, "key", k)' <=> At(u, "key", k)) /\ (At(u, "event", k)' <=> At(u, "event", k))
      /\ ~At(t, "key", k)'
      /\ At(t, "event", k)' <=> At(t, "key", k)
      /\ events' = events
  BY DEF StoreKey, At
<1>3. CASE key[t] = k
  <2>1. At(t, "key", k) /\ keyRows[k] = 0 /\ events[k] = 0
    BY <1>1, <1>3 DEF StoreKey, At, OneOnItsWay
  <2>2. \A u \in Threads : ~At(u, "event", k) /\ (At(u, "key", k) => u = t)
    BY <1>1, <2>1 DEF OneOnItsWay, Unique
  <2>3. keyRows'[k] = 1
    BY <1>3, <2>1 DEF StoreKey
  <2> QED
    BY <1>2, <2>1, <2>2, <2>3 DEF OneOnItsWay, Unique
<1>4. CASE key[t] # k
  <2>1. keyRows'[k] = keyRows[k] /\ ~At(t, "key", k)
    BY <1>4 DEF StoreKey, At
  <2> QED
    BY <1>1, <1>2, <2>1 DEF OneOnItsWay, Unique
<1> QED
  BY <1>3, <1>4

(* Storing an event: its thread was the only one on its way with the key.  *)
LEMMA StoreEventClean ==
    ASSUME OnceInv, NEW t \in Threads, StoreEvent(t)
    PROVE  CleanKeys'
<1> SUFFICES ASSUME NEW k \in Keys \ collided' PROVE OneOnItsWay(k)'
  BY DEF CleanKeys
<1> USE DEF OnceInv, TypeOK
<1>1. k \notin collided /\ OneOnItsWay(k)
  BY DEF StoreEvent, CleanKeys
<1>2. /\ \A u \in Threads : u # t =>
            (At(u, "key", k)' <=> At(u, "key", k)) /\ (At(u, "event", k)' <=> At(u, "event", k))
      /\ ~At(t, "key", k)' /\ ~At(t, "event", k)'
      /\ keyRows' = keyRows
  BY DEF StoreEvent, At
<1>3. CASE key[t] = k
  <2>1. At(t, "event", k) /\ keyRows[k] > 0
    BY <1>1, <1>3 DEF StoreEvent, At, OneOnItsWay
  <2>2. \A u \in Threads : At(u, "event", k) => u = t
    BY <1>1, <2>1 DEF OneOnItsWay, Unique
  <2> QED
    BY <1>1, <1>2, <2>1, <2>2 DEF OneOnItsWay, Unique
<1>4. CASE key[t] # k
  <2>1. events'[k] = events[k]
    BY <1>4 DEF StoreEvent
  <2> QED
    BY <1>1, <1>2, <2>1 DEF OneOnItsWay, Unique
<1> QED
  BY <1>3, <1>4

(* OnceInv is inductive.                                                   *)
LEMMA OnceStep == OnceInv /\ [Next]_vars => OnceInv'
<1> SUFFICES ASSUME OnceInv, [Next]_vars PROVE OnceInv'
  OBVIOUS
<1>1. TypeOK'
  BY TypeStep DEF OnceInv
<1>2. CASE UNCHANGED vars
  BY <1>1, <1>2 DEF OnceInv, CleanKeys, OneOnItsWay, Unique, At, vars
<1>3. CASE Restart
  BY <1>1, <1>3, RestartHolds DEF OnceInv
<1> QED
  BY <1>1, <1>2, <1>3, PushClean, StoreKeyClean, StoreEventClean DEF Next, OnceInv

(* Every step of the handler is a step of ApplyOnce or none.               *)
LEMMA StepRefines == OnceInv /\ [Next]_vars => [Log!Next]_(Log!vars)
<1> SUFFICES ASSUME OnceInv, [Next]_vars PROVE [Log!Next]_(Log!vars)
  OBVIOUS
<1> USE DEF Log!Next, Log!vars
<1>1. ASSUME NEW t \in Threads, NEW k \in Keys, Push(t, k)
      PROVE  Log!Collide(k) \/ UNCHANGED <<events, collided>>
  BY <1>1 DEF Push, Log!Collide
<1>2. ASSUME NEW t \in Threads, StoreKey(t) PROVE UNCHANGED <<events, collided>>
  BY <1>2 DEF StoreKey
<1>3. ASSUME NEW t \in Threads, StoreEvent(t) PROVE Log!Apply(key[t]) /\ key[t] \in Keys
  <2>1. key[t] \in Keys /\ At(t, "event", key[t])
    BY <1>3 DEF OnceInv, TypeOK, StoreEvent, At
  <2>2. events[key[t]] = 0 \/ key[t] \in collided
    BY <2>1 DEF OnceInv, CleanKeys, OneOnItsWay
  <2> QED
    BY <1>3, <2>1, <2>2 DEF StoreEvent, Log!Apply
<1>4. CASE Restart
  BY <1>4 DEF Restart, Log!Forget, Empty
<1>5. CASE UNCHANGED vars
  BY <1>5 DEF vars
<1> QED
  BY <1>1, <1>2, <1>3, <1>4, <1>5 DEF Next

(* A repeated push has one effect: the intake implements ApplyOnce, with   *)
(* the rows of the event log for effects (inbound_event looks the key up,  *)
(* stores it and stores the event).                                        *)
THEOREM EventsApplyOnce == Spec => ImplementsApplyOnce
<1>1. Init => OnceInv /\ Log!Init
  BY InitHolds DEF OnceInv, Init, Log!Init, Empty
<1> QED
  BY <1>1, OnceStep, StepRefines, PTL DEF Spec, ImplementsApplyOnce, Log!Spec

-----------------------------------------------------------------------------
(* LogInv is inductive: a push is ignored only when its key is stored, and *)
(* the thread that stores a key stays until it has stored the event.       *)
LEMMA LogStep == LogInv /\ [Next]_vars => LogInv'
<1> SUFFICES ASSUME LogInv, [Next]_vars PROVE LogInv'
  OBVIOUS
<1>0. TypeOK'
  BY TypeStep DEF LogInv
<1> USE DEF LogInv, TypeOK
<1>1. ASSUME NEW t \in Threads, NEW j \in Keys, Push(t, j)
      PROVE  StoredIsLogged' /\ IgnoredIsStored'
  <2>1. StoredIsLogged'
    BY <1>1 DEF Push, StoredIsLogged, At
  <2>2. IgnoredIsStored'
    BY <1>1 DEF Push, IgnoredIsStored, Unknown
  <2> QED
    BY <2>1, <2>2
<1>2. ASSUME NEW t \in Threads, StoreKey(t)
      PROVE  StoredIsLogged' /\ IgnoredIsStored'
  <2>1. At(t, "event", key[t])'
    BY <1>2 DEF StoreKey, At
  <2>2. \A k \in Keys : k # key[t] => keyRows'[k] = keyRows[k]
    BY <1>2 DEF StoreKey
  <2>3. \A u \in Threads, k \in Keys : At(u, "event", k) => At(u, "event", k)'
    BY <1>2 DEF StoreKey, At
  <2>4. StoredIsLogged'
    BY <1>2, <2>1, <2>2, <2>3 DEF StoreKey, StoredIsLogged
  <2>5. IgnoredIsStored'
    BY <1>2 DEF StoreKey, IgnoredIsStored
  <2> QED
    BY <2>4, <2>5
<1>3. ASSUME NEW t \in Threads, StoreEvent(t)
      PROVE  StoredIsLogged' /\ IgnoredIsStored'
  <2>1. events'[key[t]] > 0 /\ \A k \in Keys : events[k] > 0 => events'[k] > 0
    BY <1>3 DEF StoreEvent
  <2>2. \A u \in Threads, k \in Keys : k # key[t] /\ At(u, "event", k) => At(u, "event", k)'
    BY <1>3 DEF StoreEvent, At
  <2>3. StoredIsLogged'
    BY <1>3, <2>1, <2>2 DEF StoreEvent, StoredIsLogged
  <2>4. IgnoredIsStored'
    BY <1>3 DEF StoreEvent, IgnoredIsStored
  <2> QED
    BY <2>3, <2>4
<1>4. CASE Restart
  BY <1>4, RestartHolds
<1>5. CASE UNCHANGED vars
  BY <1>5 DEF vars, StoredIsLogged, IgnoredIsStored, At
<1>6. StoredIsLogged' /\ IgnoredIsStored'
  BY <1>1, <1>2, <1>3, <1>4, <1>5 DEF Next
<1> QED
  BY <1>0, <1>6

(* A sender that was told "Ignored" can rely on the event being in the log *)
(* or a thread being about to store it, collisions and restarts or not.    *)
THEOREM IgnoredEventsAreLogged == Spec => []IgnoredIsLogged
<1>1. Init => LogInv
  BY InitHolds DEF LogInv
<1>2. LogInv => IgnoredIsLogged
  BY DEF LogInv, TypeOK, StoredIsLogged, IgnoredIsStored, IgnoredIsLogged
<1> QED
  BY <1>1, <1>2, LogStep, PTL DEF Spec

(* Rows, answers and locals are well typed in every state.                 *)
THEOREM IntakeTypeCorrect == Spec => []TypeOK
<1>1. Init => TypeOK
  BY InitHolds
<1> QED
  BY <1>1, TypeStep, PTL DEF Spec

-----------------------------------------------------------------------------
JobKinds ==
    [size : Nat, rows : Nat, errors : BOOLEAN,
     status : {"Validation Failed", "Validated", "Approval Blocked", "Approved", "Committed"},
     early : BOOLEAN, approvals : Nat, commits : Nat, races : Nat, counted : Nat]

ConfigKinds ==
    [enabled : BOOLEAN, status : {"Active", "Disabled", "Draft"}, mixed : BOOLEAN]

OnJob(t) == In(t, "rows") \/ In(t, "commit") \/ In(t, "count")

HubTypes ==
    /\ jobs \in Seq(JobKinds) /\ config \in ConfigKinds
    /\ call \in [Threads -> {NoCall} \cup CallKinds]
    /\ \A t \in Threads :
          /\ OnJob(t) => call[t].of \in Jobs
          /\ In(t, "status") => call[t].of \in BOOLEAN

(* A switch under way is the last that wrote.                              *)
OneSwitch ==
    config.mixed \/
       /\ \A t \in Threads : In(t, "status") => call[t].of = config.enabled
       /\ SwitchAgrees

Whole(id) ==
    /\ Busy("rows", id) \/ AllFiled(jobs[id])
    /\ Approved(jobs[id]) => AllFiled(jobs[id]) \/ jobs[id].early
    /\ Busy("commit", id) \/ Busy("count", id) => AllFiled(jobs[id]) \/ jobs[id].early
    /\ jobs[id].counted = jobs[id].size \/ jobs[id].early

AllWhole == \A id \in Jobs : Whole(id)

Committers(id) == {t \in Threads : In(t, "commit") /\ call[t].of = id}

(* The commits an import still allows before it is approved again.         *)
Left(id) == IF Approved(jobs[id]) /\ Committers(id) = {} THEN 1 ELSE 0

(* A thread each may commit an approved import, and those that have passed *)
(* the test any other.                                                     *)
Room(id) ==
    jobs[id].commits + (IF Approved(jobs[id]) THEN Cardinality(Threads)
                                              ELSE Cardinality(Committers(id)))
      <= jobs[id].approvals * Cardinality(Threads)

Covered(id) ==
    /\ IsFiniteSet(Committers(id)) /\ Room(id)
    /\ jobs[id].commits + Cardinality(Committers(id)) + Left(id)
         <= jobs[id].approvals + jobs[id].races
    /\ jobs[id].errors =>
         jobs[id].commits = 0 /\ ~Approved(jobs[id]) /\ Committers(id) = {}

AllCovered == \A id \in Jobs : Covered(id)

-----------------------------------------------------------------------------
(* The hub pushes, stores and restarts as the intake alone does.           *)
LEMMA HubStep == [HubNext]_<<vars, hubVars>> => [Next]_vars
<1>1. HubNext => [Next]_vars
  BY DEF HubNext, HubRestart, Next
<1> QED
  BY <1>1 DEF vars, hubVars

(* Whatever else the hub does, its intake is that of InboundEvents.        *)
THEOREM HubKeepsIntake == HubSpec => Spec
<1>1. HubInit => Init
  BY DEF HubInit
<1> QED
  BY <1>1, HubStep, PTL DEF HubSpec, Spec

(* A repeated push has one effect beside imports and switches, too.        *)
THEOREM HubAppliesOnce == HubSpec => ImplementsApplyOnce
BY HubKeepsIntake, EventsApplyOnce, PTL

(* An answer "Ignored" can be relied on beside imports and switches, too.  *)
THEOREM HubLogsIgnored == HubSpec => []IgnoredIsLogged
BY HubKeepsIntake, IgnoredEventsAreLogged, PTL

-----------------------------------------------------------------------------
(* A call that begins or goes on changes what its own thread is in.        *)
LEMMA CallGoesOn ==
    ASSUME HubTypes, NEW t \in Threads, NEW k \in CallKinds,
           call' = [call EXCEPT ![t] = k]
    PROVE  /\ call' \in [Threads -> {NoCall} \cup CallKinds]
           /\ \A u \in Threads : u # t => call'[u] = call[u]
           /\ call'[t] = k /\ k # NoCall
BY HubAssumption DEF HubTypes

(* A call that ends leaves its thread in none.                             *)
LEMMA CallEnds ==
    ASSUME HubTypes, NEW t \in Threads, call' = [call EXCEPT ![t] = NoCall]
    PROVE  /\ call' \in [Threads -> {NoCall} \cup CallKinds]
           /\ \A u \in Threads : u # t => call'[u] = call[u]
           /\ call'[t] = NoCall
BY DEF HubTypes

(* An import is changed in its place.                                      *)
LEMMA JobChanges ==
    ASSUME HubTypes, NEW id \in Jobs, NEW job \in JobKinds,
           jobs' = [jobs EXCEPT ![id] = job]
    PROVE  /\ jobs' \in Seq(JobKinds) /\ Jobs' = Jobs /\ jobs'[id] = job
           /\ \A other \in Jobs : other # id => jobs'[other] = jobs[other]
BY DEF HubTypes, Jobs

Quiet == UNCHANGED <<jobs, config, call>>

(* A step that leaves imports, configuration and calls alone keeps it all. *)
LEMMA QuietKeeps ==
    ASSUME Quiet
    PROVE  /\ HubTypes => HubTypes'
           /\ OneSwitch => OneSwitch'
           /\ AllWhole => AllWhole'
           /\ AllCovered => AllCovered'
<1> USE DEF Quiet, In, Jobs
<1>1. HubTypes => HubTypes'
  BY DEF HubTypes, OnJob
<1>2. OneSwitch => OneSwitch'
  BY DEF OneSwitch, SwitchAgrees
<1>3. AllWhole => AllWhole'
  BY DEF AllWhole, Whole, Busy, AllFiled, Approved
<1>4. AllCovered => AllCovered'
  BY DEF AllCovered, Covered, Committers, Left, Room, Approved
<1> QED
  BY <1>1, <1>2, <1>3, <1>4

Filing(t) ==
    \/ CreateProvider(t) \/ CreateConfig(t) \/ CreateCredential(t) \/ CreateWebhook(t)
    \/ CreateMapping(t) \/ CreateSyncJob(t) \/ RetrySyncJob(t) \/ ExportFile(t)
    \/ RotateCredential(t) \/ ResolveError(t)
    \/ DraftAction(t)

(* Filing a row of another list is such a step.                            *)
LEMMA FilingIsQuiet ==
    ASSUME HubTypes, NEW t \in Threads, Filing(t)
    PROVE  Quiet
<1>1. PICK n \in {0, 1, 2} : File(t, n)
  BY DEF Filing, CreateProvider, CreateConfig, CreateCredential, CreateWebhook,
         CreateMapping, CreateSyncJob, RetrySyncJob, ExportFile,
         RotateCredential, ResolveError, DraftAction
<1> QED
  BY <1>1 DEF File, Begin, Quiet, HubTypes

HubInv == HubTypes /\ OneSwitch /\ AllWhole /\ AllCovered

(* A server that has just started has no imports and shows the             *)
(* configuration it was seeded with.                                       *)
LEMMA FreshHolds == HubInit => HubInv
<1> SUFFICES ASSUME HubInit PROVE HubInv
  OBVIOUS
<1> USE DEF HubInit, Seeded
<1>1. HubTypes
  BY DEF HubTypes, OnJob, In, ConfigKinds
<1>2. OneSwitch /\ AllWhole /\ AllCovered
  BY DEF OneSwitch, SwitchAgrees, AllWhole, AllCovered, Jobs, In
<1> QED
  BY <1>1, <1>2 DEF HubInv

(* So has one that has started again.                                      *)
LEMMA HubRestartHolds == HubRestart => HubInv'
<1> SUFFICES ASSUME HubRestart PROVE HubInv'
  OBVIOUS
<1> USE DEF HubRestart, Seeded
<1>1. HubTypes'
  BY DEF HubTypes, OnJob, In, ConfigKinds
<1>2. OneSwitch' /\ AllWhole' /\ AllCovered'
  BY DEF OneSwitch, SwitchAgrees, AllWhole, AllCovered, Jobs, In
<1> QED
  BY <1>1, <1>2 DEF HubInv

-----------------------------------------------------------------------------
(* Imports leave the configuration and the switches under way alone.       *)
LEMMA ImportsKeepSwitch ==
    ASSUME OneSwitch, NEW t \in Threads, UNCHANGED config,
           ~In(t, "status"), ~In(t, "status")',
           \A u \in Threads : u # t => call'[u] = call[u]
    PROVE  OneSwitch'
BY DEF OneSwitch, SwitchAgrees, In

(* No commit begins or ends: the threads that commit stay the same.        *)
LEMMA CommittersStay ==
    ASSUME NEW t \in Threads, ~In(t, "commit"), ~In(t, "commit")',
           \A u \in Threads : u # t => call'[u] = call[u]
    PROVE  \A id : Committers(id)' = Committers(id)
BY DEF Committers, In

(* An import whose status and counts stay, with the threads that commit    *)
(* it, stays covered.                                                      *)
LEMMA CoveredStays ==
    ASSUME NEW id, Covered(id), Committers(id)' = Committers(id),
           jobs'[id].commits = jobs[id].commits, jobs'[id].status = jobs[id].status,
           jobs'[id].approvals = jobs[id].approvals, jobs'[id].races = jobs[id].races,
           jobs'[id].errors = jobs[id].errors
    PROVE  Covered(id)'
BY DEF Covered, Left, Room, Approved

(* There are as many threads as a number says, whatever may commit among   *)
(* them, and an approval makes room for one commit of each.                *)
LEMMA ThreadsNumbered ==
    /\ Cardinality(Threads) \in Nat
    /\ \A id : /\ IsFiniteSet(Committers(id)) /\ Cardinality(Committers(id)) \in Nat
              /\ Cardinality(Committers(id)) <= Cardinality(Threads)
    /\ \A n \in Nat : /\ n * Cardinality(Threads) \in Nat
                      /\ (n + 1) * Cardinality(Threads)
                           = n * Cardinality(Threads) + Cardinality(Threads)
<1>1. IsFiniteSet(Threads) /\ Cardinality(Threads) \in Nat
  BY HubAssumption, FS_CardinalityType
<1>2. ASSUME NEW id
      PROVE  /\ IsFiniteSet(Committers(id)) /\ Cardinality(Committers(id)) \in Nat
             /\ Cardinality(Committers(id)) <= Cardinality(Threads)
  <2>1. Committers(id) \in SUBSET Threads
    BY DEF Committers
  <2> QED
    BY <1>1, <2>1, FS_Subset, FS_CardinalityType
<1>3. ASSUME NEW c \in Nat, NEW n \in Nat
      PROVE  n * c \in Nat /\ (n + 1) * c = n * c + c
  OBVIOUS
<1> QED
  BY <1>1, <1>2, <1>3

(* A new import: its rows are added by the thread that put it on file.     *)
LEMMA ImportFileHolds ==
    ASSUME HubInv, NEW t \in Threads, ImportFile(t)
    PROVE  HubInv'
<1> USE DEF HubInv
<1>1. PICK size \in 0..MaxRecords, errors \in BOOLEAN :
        /\ Begin(t, [at |-> "rows", of |-> Len(jobs) + 1])
        /\ jobs' = Append(jobs, Job(size, errors)) /\ UNCHANGED config
  BY DEF ImportFile
<1>2. PICK new \in Nat : new = Len(jobs) + 1
  BY DEF HubTypes
<1> DEFINE job == Job(size, errors)
           k == [at |-> "rows", of |-> new]
<1>3. job \in JobKinds /\ job.counted = job.size /\ ~Approved(job)
  BY HubAssumption DEF Job, JobKinds, Approved
<1>4. Jobs = 1..Len(jobs) /\ k \in CallKinds /\ new \notin Jobs
  BY <1>2 DEF HubTypes, Jobs, CallKinds
<1>5. /\ jobs' \in Seq(JobKinds) /\ Jobs' = Jobs \cup {new} /\ jobs'[new] = job
      /\ \A id \in Jobs : jobs'[id] = jobs[id]
  <2> HIDE DEF job
  <2>1. jobs \in Seq(JobKinds)
    BY DEF HubTypes
  <2>2. /\ jobs' \in Seq(JobKinds) /\ Len(jobs') = Len(jobs) + 1
        /\ \A i \in 1..Len(jobs) : jobs'[i] = jobs[i]
        /\ jobs'[Len(jobs) + 1] = job
    BY <1>1, <1>3, <2>1, AppendProperties DEF job
  <2> QED
    BY <1>2, <1>4, <2>2 DEF Jobs
<1>6. /\ call' \in [Threads -> {NoCall} \cup CallKinds]
      /\ \A u \in Threads : u # t => call'[u] = call[u]
      /\ call'[t] = k /\ k # NoCall
  BY <1>1, <1>2, <1>4, CallGoesOn DEF Begin
<1>7. call[t] = NoCall
  BY <1>1 DEF Begin
<1>8. HubTypes'
  BY <1>1, <1>5, <1>6 DEF HubTypes, OnJob, In
<1>9. OneSwitch'
  BY <1>1, <1>6, <1>7, ImportsKeepSwitch DEF In
<1>10. \A id \in Jobs, at \in {"rows", "commit", "count"} : Busy(at, id)' <=> Busy(at, id)
  BY <1>4, <1>6, <1>7 DEF Busy, In
<1>11. Busy("rows", new)' /\ ~Busy("commit", new)' /\ ~Busy("count", new)'
  <2>1. \A u \in Threads : OnJob(u) => call[u].of # new
    BY <1>4 DEF HubTypes
  <2> QED
    BY <1>6, <2>1 DEF Busy, OnJob, In
<1>12. \A id \in Jobs : Whole(id)'
  BY <1>5, <1>10 DEF AllWhole, Whole, AllFiled, Approved
<1>13. Whole(new)'
  BY <1>3, <1>5, <1>11 DEF Whole, AllFiled, Approved
<1>14. \A id \in Jobs : Covered(id)'
  BY <1>5, <1>6, <1>7, CommittersStay, CoveredStays DEF AllCovered, In
<1>15. Covered(new)'
  <2>1. Committers(new)' = {}
    BY <1>11 DEF Committers, Busy
  <2>2. job.commits = 0 /\ job.approvals = 0 /\ job.races = 0
    BY DEF Job
  <2> HIDE DEF job
  <2>3. Room(new)'
    <3>1. 0 * Cardinality(Threads) = 0
      BY ThreadsNumbered
    <3> QED
      BY <1>3, <1>5, <2>1, <2>2, <3>1, FS_EmptySet DEF Room, Approved
  <2> QED
    BY <1>3, <1>5, <2>1, <2>2, <2>3, FS_EmptySet DEF Covered, Left, Approved
<1> QED
  BY <1>5, <1>8, <1>9, <1>12, <1>13, <1>14, <1>15 DEF AllWhole, AllCovered

(* What the calls do to an import leaves it one.                           *)
LEMMA JobSteps ==
    ASSUME NEW job \in JobKinds
    PROVE  /\ [job EXCEPT !.rows = @ + 1] \in JobKinds
           /\ \A adding \in BOOLEAN : Answered(job, adding) \in JobKinds
           /\ [job EXCEPT !.races = @ + 1] \in JobKinds
           /\ [job EXCEPT !.status = "Committed", !.commits = @ + 1] \in JobKinds
           /\ [job EXCEPT !.counted = job.rows] \in JobKinds
<1> USE DEF JobKinds
<1>1. /\ job.rows + 1 \in Nat /\ job.approvals + 1 \in Nat
      /\ job.commits + 1 \in Nat /\ job.races + 1 \in Nat
  <2>1. job.rows \in Nat /\ job.approvals \in Nat /\ job.commits \in Nat /\ job.races \in Nat
    OBVIOUS
  <2> HIDE DEF JobKinds
  <2> QED
    BY <2>1
<1>2. [job EXCEPT !.rows = job.rows + 1] \in JobKinds
  BY <1>1
<1>3. ASSUME NEW adding \in BOOLEAN PROVE Answered(job, adding) \in JobKinds
  <2>1. [job EXCEPT !.status = "Approval Blocked"] \in JobKinds
    OBVIOUS
  <2>2. job.early \/ adding \in BOOLEAN
    OBVIOUS
  <2>3. [job EXCEPT !.status = "Approved", !.approvals = job.approvals + 1,
                    !.early = job.early \/ adding] \in JobKinds
    BY <1>1, <2>2
  <2> QED
    BY <2>1, <2>3 DEF Answered
<1>4. [job EXCEPT !.races = job.races + 1] \in JobKinds
  BY <1>1
<1>5. [job EXCEPT !.status = "Committed", !.commits = job.commits + 1] \in JobKinds
  BY <1>1
<1>6. [job EXCEPT !.counted = job.rows] \in JobKinds
  OBVIOUS
<1> QED
  BY <1>2, <1>3, <1>4, <1>5, <1>6

(* Of the imports other than the one a call works on, nothing changes.     *)
LEMMA OthersStay ==
    ASSUME HubInv, NEW t \in Threads, NEW id \in Jobs, NEW job \in JobKinds,
           jobs' = [jobs EXCEPT ![id] = job],
           \A u \in Threads : u # t => call'[u] = call[u],
           OnJob(t) => call[t].of = id, OnJob(t)' => call'[t].of = id
    PROVE  \A other \in Jobs : other # id => Whole(other)' /\ Covered(other)'
<1> SUFFICES ASSUME NEW other \in Jobs, other # id PROVE Whole(other)' /\ Covered(other)'
  OBVIOUS
<1>1. jobs'[other] = jobs[other]
  BY JobChanges DEF HubInv
<1>2. \A at \in {"rows", "commit", "count"} : Busy(at, other)' <=> Busy(at, other)
  BY DEF Busy, OnJob, In
<1>3. Committers(other)' = Committers(other)
  BY DEF Committers, OnJob, In
<1>4. Covered(other)'
  BY <1>1, <1>3, CoveredStays DEF HubInv, AllCovered
<1> QED
  BY <1>1, <1>2, <1>4 DEF HubInv, AllWhole, Whole, AllFiled, Approved

(* A record is added, or the last one has been and the thread is done.     *)
LEMMA AddRecordHolds ==
    ASSUME HubInv, NEW t \in Threads, AddRecord(t)
    PROVE  HubInv'
<1> USE DEF HubInv
<1>1. PICK id \in Jobs : id = call[t].of
  BY DEF AddRecord, HubTypes, OnJob
<1>2. In(t, "rows") /\ OnJob(t) /\ UNCHANGED config /\ jobs[id] \in JobKinds
  BY DEF AddRecord, OnJob, HubTypes, Jobs
<1>3. CASE AllFiled(jobs[id])
  <2>1. UNCHANGED jobs /\ call' = [call EXCEPT ![t] = NoCall]
    BY <1>1, <1>3 DEF AddRecord, Go
  <2>2. /\ call' \in [Threads -> {NoCall} \cup CallKinds]
        /\ \A u \in Threads : u # t => call'[u] = call[u]
        /\ call'[t] = NoCall
    BY <2>1, CallEnds
  <2>3. HubTypes'
    BY <1>2, <2>1, <2>2 DEF HubTypes, OnJob, In, Jobs
  <2>4. OneSwitch'
    BY <1>2, <2>2, ImportsKeepSwitch DEF In
  <2>5. \A other \in Jobs :
            /\ other # id => (Busy("rows", other)' <=> Busy("rows", other))
            /\ Busy("commit", other)' <=> Busy("commit", other)
            /\ Busy("count", other)' <=> Busy("count", other)
    BY <1>1, <1>2, <2>2 DEF Busy, In
  <2>6. AllWhole'
    BY <1>3, <2>1, <2>5 DEF AllWhole, Whole, AllFiled, Approved, Jobs
  <2>7. AllCovered'
    BY <1>2, <2>1, <2>2, CommittersStay, CoveredStays DEF AllCovered, In, Jobs
  <2> QED
    BY <2>3, <2>4, <2>6, <2>7
<1>4. CASE ~AllFiled(jobs[id])
  <2> DEFINE job == [jobs[id] EXCEPT !.rows = @ + 1]
  <2>1. jobs' = [jobs EXCEPT ![id] = job] /\ UNCHANGED call
    BY <1>1, <1>4 DEF AddRecord
  <2>2. job \in JobKinds
    BY <1>2, JobSteps
  <2>3. jobs' \in Seq(JobKinds) /\ Jobs' = Jobs /\ jobs'[id] = job
    BY <2>1, <2>2, JobChanges
  <2>4. HubTypes'
    BY <1>2, <2>1, <2>3 DEF HubTypes, OnJob, In
  <2>5. OneSwitch'
    BY <1>2, <2>1 DEF OneSwitch, SwitchAgrees, In
  <2>6. \A other \in Jobs : other # id => Whole(other)' /\ Covered(other)'
    <3> HIDE DEF job
    <3> QED
      BY <1>1, <2>1, <2>2, OthersStay DEF OnJob, In
  <2>7. Busy("rows", id)
    BY <1>1, <1>2 DEF Busy
  <2>8. Whole(id)'
    <3>1. Whole(id) /\ UNCHANGED <<Busy("rows", id), Busy("commit", id), Busy("count", id)>>
      BY <2>1 DEF AllWhole, Busy, In
    <3>2. /\ job.status = jobs[id].status /\ job.early = jobs[id].early
          /\ job.counted = jobs[id].counted /\ job.size = jobs[id].size
      BY <1>2 DEF JobKinds
    <3> QED
      BY <1>4, <2>3, <2>7, <3>1, <3>2 DEF Whole, AllFiled, Approved
  <2>9. Covered(id)'
    <3>1. Committers(id)' = Committers(id)
      BY <2>1 DEF Committers, In
    <3>2. /\ job.commits = jobs[id].commits /\ job.status = jobs[id].status
          /\ job.approvals = jobs[id].approvals /\ job.races = jobs[id].races
          /\ job.errors = jobs[id].errors
      BY <1>2 DEF JobKinds
    <3> QED
      BY <2>3, <3>1, <3>2, CoveredStays DEF AllCovered
  <2> QED
    BY <2>3, <2>4, <2>5, <2>6, <2>8, <2>9 DEF AllWhole, AllCovered
<1> QED
  BY <1>3, <1>4

(* An approval finds the rows complete, or is marked early.                *)
LEMMA ImportApproveHolds ==
    ASSUME HubInv, NEW t \in Threads, ImportApprove(t)
    PROVE  HubInv'
<1> USE DEF HubInv
<1>1. PICK id \in Jobs :
        /\ Begin(t, NoCall)
        /\ jobs' = [jobs EXCEPT ![id] = Answered(jobs[id], Busy("rows", id))]
  BY DEF ImportApprove
<1>2. UNCHANGED <<config, call>>
  BY <1>1 DEF ImportApprove, Begin, HubTypes
<1>3. jobs[id] \in JobKinds /\ Busy("rows", id) \in BOOLEAN
  BY DEF HubTypes, Jobs, Busy
<1>4. PICK job \in JobKinds : job = Answered(jobs[id], Busy("rows", id))
  BY <1>3, JobSteps
<1>5. /\ job.counted = jobs[id].counted /\ job.size = jobs[id].size
      /\ job.rows = jobs[id].rows /\ (jobs[id].early => job.early)
      /\ Approved(job) => job.early \/ ~Busy("rows", id)
  BY <1>3, <1>4 DEF JobKinds, Approved, Answered
<1>6. jobs' \in Seq(JobKinds) /\ Jobs' = Jobs /\ jobs'[id] = job
  BY <1>1, <1>4, JobChanges
<1>7. HubTypes'
  BY <1>2, <1>6 DEF HubTypes, OnJob, In
<1>8. OneSwitch'
  BY <1>2 DEF OneSwitch, SwitchAgrees, In
<1>9. \A other \in Jobs : other # id => Whole(other)' /\ Covered(other)'
  BY <1>1, <1>2, <1>4, OthersStay DEF Begin, OnJob, In
<1>10. Whole(id)'
  <2>1. Whole(id) /\ UNCHANGED <<Busy("rows", id), Busy("commit", id), Busy("count", id)>>
    BY <1>2 DEF AllWhole, Busy, In
  <2> QED
    BY <1>5, <1>6, <2>1 DEF Whole, AllFiled, Approved
<1>11. Covered(id)'
  <2>1. Covered(id) /\ Committers(id)' = Committers(id) /\ Cardinality(Committers(id)) \in Nat
    BY <1>2, FS_CardinalityType DEF AllCovered, Covered, Committers, In
  <2>2. job.commits = jobs[id].commits /\ job.races = jobs[id].races
    BY <1>3, <1>4 DEF JobKinds, Answered
  <2>3. CASE jobs[id].errors
    <3>1. job.errors /\ ~Approved(job) /\ job.approvals = jobs[id].approvals
      BY <1>3, <1>4, <2>3 DEF JobKinds, Answered, Approved
    <3>2. Room(id)'
      BY <1>6, <2>1, <2>2, <2>3, <3>1 DEF Covered, Room
    <3> QED
      BY <1>6, <2>1, <2>2, <2>3, <3>1, <3>2 DEF Covered, Left
  <2>4. CASE ~jobs[id].errors
    <3>1. ~job.errors /\ job.approvals = jobs[id].approvals + 1
      BY <1>3, <1>4, <2>4 DEF JobKinds, Answered
    <3>2. Left(id)' \in {0, 1} /\ Left(id) \in {0, 1}
      BY DEF Left
    <3>3. /\ jobs[id].commits \in Nat /\ jobs[id].approvals \in Nat
          /\ jobs[id].races \in Nat
      BY <1>3 DEF JobKinds
    <3>4. Room(id)'
      <4> DEFINE threads == Cardinality(Threads)
                 committers == Cardinality(Committers(id))
                 approvals == jobs[id].approvals
      <4>1. /\ threads \in Nat /\ committers \in Nat /\ approvals \in Nat
            /\ committers <= threads /\ approvals * threads \in Nat
            /\ (approvals + 1) * threads = approvals * threads + threads
        BY <3>3, ThreadsNumbered
      <4>2. jobs[id].commits <= approvals * threads
        BY <2>1, <3>3, <4>1 DEF Covered, Room
      <4>3. Cardinality(Committers(id)') = committers
        BY <2>1
      <4> HIDE DEF threads, committers, approvals
      <4>4. jobs[id].commits + (IF Approved(job) THEN threads ELSE committers)
              <= (approvals + 1) * threads
        BY <3>3, <4>1, <4>2
      <4> QED
        BY <1>6, <2>2, <3>1, <4>3, <4>4 DEF Room, Approved, threads, approvals
    <3> QED
      BY SMTT(30), <1>6, <2>1, <2>2, <2>4, <3>1, <3>2, <3>3, <3>4 DEF Covered
  <2> QED
    BY <2>3, <2>4
<1> QED
  BY <1>6, <1>7, <1>8, <1>9, <1>10, <1>11 DEF AllWhole, AllCovered

(* A commit begins on an approved import.                                  *)
LEMMA ImportCommitHolds ==
    ASSUME HubInv, NEW t \in Threads, ImportCommit(t)
    PROVE  HubInv'
<1> USE DEF HubInv
<1>1. PICK id \in Jobs :
        /\ Approved(jobs[id])
        /\ Begin(t, [at |-> "commit", of |-> id])
        /\ jobs' = [jobs EXCEPT ![id].races = IF Busy("commit", id) THEN @ + 1 ELSE @]
        /\ UNCHANGED config
  BY DEF ImportCommit
<1> DEFINE k == [at |-> "commit", of |-> id]
<1>2. jobs[id] \in JobKinds /\ k \in CallKinds /\ call[t] = NoCall
  BY <1>1 DEF HubTypes, Jobs, Begin, CallKinds
<1>3. PICK job \in JobKinds :
        /\ jobs' = [jobs EXCEPT ![id] = job]
        /\ job.counted = jobs[id].counted /\ job.size = jobs[id].size
        /\ job.rows = jobs[id].rows /\ job.early = jobs[id].early
        /\ job.status = jobs[id].status /\ job.commits = jobs[id].commits
        /\ job.approvals = jobs[id].approvals /\ job.errors = jobs[id].errors
        /\ job.races = IF Busy("commit", id) THEN jobs[id].races + 1 ELSE jobs[id].races
  <2>1. [jobs[id] EXCEPT !.races = @ + 1] \in JobKinds
    BY <1>2, JobSteps
  <2>2. CASE Busy("commit", id)
    <3>1. jobs' = [jobs EXCEPT ![id] = [jobs[id] EXCEPT !.races = @ + 1]]
      BY <1>1, <2>2
    <3> QED
      BY <1>2, <2>1, <2>2, <3>1 DEF JobKinds
  <2>3. CASE ~Busy("commit", id)
    <3>1. jobs' = [jobs EXCEPT ![id] = jobs[id]]
      BY <1>1, <1>2, <2>3 DEF JobKinds
    <3> QED
      BY <1>2, <2>3, <3>1
  <2> QED
    BY <2>2, <2>3
<1>4. jobs' \in Seq(JobKinds) /\ Jobs' = Jobs /\ jobs'[id] = job
  BY <1>3, JobChanges
<1>5. /\ call' \in [Threads -> {NoCall} \cup CallKinds]
      /\ \A u \in Threads : u # t => call'[u] = call[u]
      /\ call'[t] = k /\ k # NoCall
  BY <1>1, <1>2, CallGoesOn DEF Begin
<1>6. HubTypes'
  BY <1>1, <1>4, <1>5 DEF HubTypes, OnJob, In
<1>7. OneSwitch'
  BY <1>1, <1>2, <1>5, ImportsKeepSwitch DEF In
<1>8. \A other \in Jobs : other # id => Whole(other)' /\ Covered(other)'
  <2>1. ~OnJob(t) /\ call'[t].of = id
    BY <1>2, <1>5 DEF OnJob, In
  <2> QED
    BY <1>3, <1>5, <2>1, OthersStay
<1>9. Whole(id)'
  <2>1. Busy("rows", id)' <=> Busy("rows", id)
    BY <1>2, <1>5 DEF Busy, In
  <2>2. Whole(id) /\ (AllFiled(jobs[id]) \/ jobs[id].early)
    BY <1>1 DEF AllWhole, Whole
  <2> QED
    BY <1>3, <1>4, <2>1, <2>2 DEF Whole, AllFiled, Approved
<1>10. Covered(id)'
  <2>1. Covered(id) /\ Cardinality(Committers(id)) \in Nat
    BY FS_CardinalityType DEF AllCovered, Covered
  <2>2. Committers(id)' = Committers(id) \cup {t} /\ t \notin Committers(id)
    BY <1>2, <1>5 DEF Committers, In
  <2>3. /\ IsFiniteSet(Committers(id)')
        /\ Cardinality(Committers(id)') = Cardinality(Committers(id)) + 1
    BY <2>1, <2>2, FS_AddElement DEF Covered
  <2>4. Busy("commit", id) <=> Committers(id) # {}
    BY DEF Busy, Committers
  <2>5. Left(id)' = 0 /\ Left(id) = IF Busy("commit", id) THEN 0 ELSE 1
    BY <1>1, <2>2, <2>4 DEF Left
  <2>6. ~jobs[id].errors
    BY <1>1, <2>1 DEF Covered
  <2>7. /\ jobs[id].commits \in Nat /\ jobs[id].approvals \in Nat
        /\ jobs[id].races \in Nat
    BY <1>2 DEF JobKinds
  <2>8. Room(id)'
    BY <1>1, <1>3, <1>4, <2>1 DEF Covered, Room, Approved
  <2> DEFINE n == Cardinality(Committers(id))
             m == Cardinality(Committers(id)')
  <2>9. /\ n \in Nat /\ m = n + 1
        /\ jobs[id].commits + n + Left(id) <= jobs[id].approvals + jobs[id].races
    BY <2>1, <2>3 DEF Covered
  <2> HIDE DEF n, m
  <2>10. jobs[id].commits + m + 0 <= job.approvals + job.races
    BY <1>3, <2>5, <2>7, <2>9
  <2>11. jobs'[id].commits + m + Left(id)' <= jobs'[id].approvals + jobs'[id].races
    BY <1>3, <1>4, <2>5, <2>10
  <2>12. ~jobs'[id].errors
    BY <1>3, <1>4, <2>6
  <2> QED
    BY <2>3, <2>8, <2>11, <2>12 DEF Covered, m
<1> QED
  BY <1>4, <1>6, <1>7, <1>8, <1>9, <1>10 DEF AllWhole, AllCovered

(* A committed import is counted next, by the same thread.                 *)
LEMMA MarkCommittedHolds ==
    ASSUME HubInv, NEW t \in Threads, MarkCommitted(t)
    PROVE  HubInv'
<1> USE DEF HubInv
<1>1. PICK id \in Jobs : id = call[t].of
  BY DEF MarkCommitted, HubTypes, OnJob
<1>2. In(t, "commit") /\ UNCHANGED config /\ jobs[id] \in JobKinds /\ call[t] \in CallKinds
  BY DEF MarkCommitted, In, HubTypes, Jobs
<1> DEFINE job == [jobs[id] EXCEPT !.status = "Committed", !.commits = @ + 1]
           k == [call[t] EXCEPT !.at = "count"]
<1>3. jobs' = [jobs EXCEPT ![id] = job] /\ call' = [call EXCEPT ![t] = k]
  BY <1>1, <1>2 DEF MarkCommitted, Go, HubTypes
<1>4. /\ job \in JobKinds /\ job.counted = jobs[id].counted /\ job.size = jobs[id].size
      /\ job.rows = jobs[id].rows /\ job.early = jobs[id].early /\ ~Approved(job)
  <2>1. job \in JobKinds
    BY <1>2, JobSteps
  <2> QED
    BY <1>2, <2>1 DEF JobKinds, Approved
<1>5. k \in CallKinds /\ k.at = "count" /\ k.of = id
  BY <1>1, <1>2 DEF CallKinds
<1> HIDE DEF job, k
<1>6. jobs' \in Seq(JobKinds) /\ Jobs' = Jobs /\ jobs'[id] = job
  BY <1>3, <1>4, JobChanges
<1>7. /\ call' \in [Threads -> {NoCall} \cup CallKinds]
      /\ \A u \in Threads : u # t => call'[u] = call[u]
      /\ call'[t] = k /\ k # NoCall
  BY <1>3, <1>5, CallGoesOn
<1>8. HubTypes'
  BY <1>2, <1>5, <1>6, <1>7 DEF HubTypes, OnJob, In
<1>9. OneSwitch'
  BY <1>2, <1>5, <1>7, ImportsKeepSwitch DEF In
<1>10. \A other \in Jobs : other # id => Whole(other)' /\ Covered(other)'
  BY <1>1, <1>3, <1>4, <1>5, <1>7, OthersStay DEF OnJob, In
<1>11. Whole(id)'
  <2>1. (Busy("rows", id)' <=> Busy("rows", id)) /\ Busy("commit", id)
    BY <1>1, <1>2, <1>5, <1>7 DEF Busy, In
  <2>2. Whole(id)
    BY DEF AllWhole
  <2> QED
    BY <1>4, <1>6, <2>1, <2>2 DEF Whole, AllFiled, Approved
<1>12. Covered(id)'
  <2>1. Covered(id) /\ Cardinality(Committers(id)) \in Nat
    BY FS_CardinalityType DEF AllCovered, Covered
  <2>2. Committers(id)' = Committers(id) \ {t} /\ t \in Committers(id)
    BY <1>1, <1>2, <1>5, <1>7 DEF Committers, In
  <2>3. /\ IsFiniteSet(Committers(id)')
        /\ Cardinality(Committers(id)') = Cardinality(Committers(id)) - 1
    BY <2>1, <2>2, FS_RemoveElement DEF Covered
  <2>4. Left(id)' = 0 /\ Left(id) = 0
    BY <1>4, <1>6, <2>2 DEF Left
  <2>5. ~jobs[id].errors
    BY <2>1, <2>2 DEF Covered
  <2>6. /\ job.commits = jobs[id].commits + 1 /\ job.approvals = jobs[id].approvals
        /\ job.races = jobs[id].races /\ job.errors = jobs[id].errors
    BY <1>2 DEF job, JobKinds
  <2>7. /\ jobs[id].commits \in Nat /\ jobs[id].approvals \in Nat
        /\ jobs[id].races \in Nat
    BY <1>2 DEF JobKinds
  <2>8. Room(id)'
    <3> DEFINE threads == Cardinality(Threads)
               committers == Cardinality(Committers(id))
    <3>1. /\ threads \in Nat /\ committers \in Nat /\ committers <= threads
          /\ jobs[id].approvals * threads \in Nat
      BY <2>7, ThreadsNumbered
    <3>2. jobs[id].commits + committers <= jobs[id].approvals * threads
      BY <2>1, <2>7, <3>1 DEF Covered, Room
    <3>3. Cardinality(Committers(id)') = committers - 1
      BY <2>3
    <3> HIDE DEF threads, committers
    <3>4. jobs[id].commits + 1 + (committers - 1) <= jobs[id].approvals * threads
      BY <2>7, <3>1, <3>2
    <3> QED
      BY <1>4, <1>6, <2>6, <3>3, <3>4 DEF Room, threads
  <2> QED
    BY <1>6, <2>1, <2>3, <2>4, <2>5, <2>6, <2>7, <2>8 DEF Covered
<1> QED
  BY <1>6, <1>8, <1>9, <1>10, <1>11, <1>12 DEF AllWhole, AllCovered

(* The rows a commit counts are all that the file has, or it came early.   *)
LEMMA CountCommittedHolds ==
    ASSUME HubInv, NEW t \in Threads, CountCommitted(t)
    PROVE  HubInv'
<1> USE DEF HubInv
<1>1. PICK id \in Jobs : id = call[t].of
  BY DEF CountCommitted, HubTypes, OnJob
<1>2. In(t, "count") /\ UNCHANGED config /\ jobs[id] \in JobKinds
  BY DEF CountCommitted, HubTypes, Jobs
<1> DEFINE job == [jobs[id] EXCEPT !.counted = jobs[id].rows]
<1>3. jobs' = [jobs EXCEPT ![id] = job] /\ call' = [call EXCEPT ![t] = NoCall]
  BY <1>1, <1>2 DEF CountCommitted, Go, HubTypes
<1>4. /\ job \in JobKinds /\ job.counted = jobs[id].rows /\ job.size = jobs[id].size
      /\ job.rows = jobs[id].rows /\ job.early = jobs[id].early
      /\ job.status = jobs[id].status
  <2>1. job \in JobKinds
    BY <1>2, JobSteps
  <2> QED
    BY <1>2, <2>1 DEF JobKinds
<1> HIDE DEF job
<1>5. jobs' \in Seq(JobKinds) /\ Jobs' = Jobs /\ jobs'[id] = job
  BY <1>3, <1>4, JobChanges
<1>6. /\ call' \in [Threads -> {NoCall} \cup CallKinds]
      /\ \A u \in Threads : u # t => call'[u] = call[u]
      /\ call'[t] = NoCall
  BY <1>3, CallEnds
<1>7. HubTypes'
  BY <1>2, <1>5, <1>6 DEF HubTypes, OnJob, In
<1>8. OneSwitch'
  BY <1>2, <1>6, ImportsKeepSwitch DEF In
<1>9. \A other \in Jobs : other # id => Whole(other)' /\ Covered(other)'
  BY <1>1, <1>3, <1>4, <1>6, OthersStay DEF OnJob, In
<1>10. Whole(id)'
  <2>1. /\ Busy("rows", id)' <=> Busy("rows", id)
        /\ Busy("commit", id)' <=> Busy("commit", id)
        /\ Busy("count", id)
    BY <1>1, <1>2, <1>6 DEF Busy, In
  <2>2. Whole(id)
    BY DEF AllWhole
  <2> QED
    BY <1>4, <1>5, <2>1, <2>2 DEF Whole, AllFiled, Approved
<1>11. Covered(id)'
  <2>1. Committers(id)' = Committers(id)
    BY <1>2, <1>6, CommittersStay DEF In
  <2>2. /\ job.commits = jobs[id].commits /\ job.approvals = jobs[id].approvals
        /\ job.races = jobs[id].races /\ job.errors = jobs[id].errors
    BY <1>2 DEF job, JobKinds
  <2> QED
    BY <1>4, <1>5, <2>1, <2>2, CoveredStays DEF AllCovered
<1> QED
  BY <1>5, <1>7, <1>8, <1>9, <1>10, <1>11 DEF AllWhole, AllCovered

-----------------------------------------------------------------------------
(* Switches leave the imports alone.                                       *)
LEMMA SwitchesKeepImports ==
    ASSUME HubInv, NEW t \in Threads, UNCHANGED jobs,
           ~OnJob(t), ~OnJob(t)', \A u \in Threads : u # t => call'[u] = call[u]
    PROVE  AllWhole' /\ AllCovered'
<1>1. \A id \in Jobs, at \in {"rows", "commit", "count"} : Busy(at, id)' <=> Busy(at, id)
  BY DEF Busy, OnJob, In
<1>2. AllCovered'
  BY CommittersStay, CoveredStays DEF HubInv, AllCovered, OnJob, Jobs
<1> QED
  BY <1>1, <1>2 DEF HubInv, AllWhole, Whole, AllFiled, Approved, Jobs

(* A switch that begins alone is the last that wrote.                      *)
LEMMA SetConfigStatusHolds ==
    ASSUME HubInv, NEW t \in Threads, SetConfigStatus(t)
    PROVE  HubInv'
<1> USE DEF HubInv
<1> DEFINE others == {u \in Threads : In(u, "status")}
<1>1. PICK enabled \in BOOLEAN :
        /\ Begin(t, [at |-> "status", of |-> enabled])
        /\ config' = [config EXCEPT !.enabled = enabled, !.mixed = others # {}]
        /\ UNCHANGED jobs
  BY DEF SetConfigStatus
<1> DEFINE k == [at |-> "status", of |-> enabled]
<1>2. k \in CallKinds /\ call[t] = NoCall
  BY <1>1 DEF Begin, CallKinds
<1>3. /\ call' \in [Threads -> {NoCall} \cup CallKinds]
      /\ \A u \in Threads : u # t => call'[u] = call[u]
      /\ call'[t] = k /\ k # NoCall
  BY <1>1, <1>2, CallGoesOn DEF Begin
<1>4. config' \in ConfigKinds /\ config'.enabled = enabled /\ (config'.mixed <=> others # {})
  BY <1>1 DEF HubTypes, ConfigKinds
<1>5. HubTypes'
  BY <1>1, <1>3, <1>4 DEF HubTypes, OnJob, In, Jobs
<1>6. OneSwitch'
  BY <1>3, <1>4 DEF OneSwitch, SwitchAgrees, In
<1>7. AllWhole' /\ AllCovered'
  BY <1>1, <1>2, <1>3, SwitchesKeepImports DEF OnJob, In
<1> QED
  BY <1>5, <1>6, <1>7

(* A switch that ends writes the status of what it has enabled.            *)
LEMMA SetStatusHolds ==
    ASSUME HubInv, NEW t \in Threads, SetStatus(t)
    PROVE  HubInv'
<1> USE DEF HubInv
<1>1. /\ In(t, "status") /\ call[t].of \in BOOLEAN /\ UNCHANGED jobs
      /\ config' = [config EXCEPT !.status = StatusOf(call[t].of)]
      /\ call' = [call EXCEPT ![t] = NoCall]
  BY DEF SetStatus, Go, HubTypes
<1>2. /\ call' \in [Threads -> {NoCall} \cup CallKinds]
      /\ \A u \in Threads : u # t => call'[u] = call[u]
      /\ call'[t] = NoCall
  BY <1>1, CallEnds
<1>3. /\ config' \in ConfigKinds /\ config'.enabled = config.enabled
      /\ config'.mixed = config.mixed
      /\ config'.status = StatusOf(call[t].of)
  BY <1>1 DEF HubTypes, ConfigKinds, StatusOf
<1>4. HubTypes'
  BY <1>1, <1>2, <1>3 DEF HubTypes, OnJob, In, Jobs
<1>5. OneSwitch'
  <2>1. CASE config.mixed
    BY <1>3, <2>1 DEF OneSwitch
  <2>2. CASE ~config.mixed
    <3>1. call[t].of = config.enabled
      BY <1>1, <2>2 DEF OneSwitch
    <3>2. config.enabled \in BOOLEAN
      BY DEF HubTypes, ConfigKinds
    <3>3. config'.enabled <=> config'.status = "Active"
      BY <1>3, <3>1, <3>2 DEF StatusOf
    <3> QED
      BY <1>2, <1>3, <2>2, <3>3 DEF OneSwitch, SwitchAgrees, In
  <2> QED
    BY <2>1, <2>2
<1>6. AllWhole' /\ AllCovered'
  BY <1>1, <1>2, SwitchesKeepImports DEF OnJob, In
<1> QED
  BY <1>4, <1>5, <1>6

(* An edit counts as mixed.                                                *)
LEMMA UpdateConfigHolds ==
    ASSUME HubInv, NEW t \in Threads, UpdateConfig(t)
    PROVE  HubInv'
<1> USE DEF HubInv
<1>1. config' \in ConfigKinds /\ config'.mixed /\ UNCHANGED <<jobs, call>>
  BY DEF UpdateConfig, Begin, HubTypes, ConfigKinds
<1>2. HubTypes' /\ OneSwitch'
  BY <1>1 DEF HubTypes, OnJob, In, Jobs, OneSwitch
<1>3. AllWhole'
  BY <1>1 DEF AllWhole, Whole, Busy, In, AllFiled, Approved, Jobs
<1>4. AllCovered'
  BY <1>1 DEF AllCovered, Covered, Committers, Left, Room, In, Approved, Jobs
<1> QED
  BY <1>2, <1>3, <1>4

(* HubInv is inductive.                                                    *)
LEMMA HubInvStep == HubInv /\ [HubNext]_<<vars, hubVars>> => HubInv'
<1> SUFFICES ASSUME HubInv, [HubNext]_<<vars, hubVars>> PROVE HubInv'
  OBVIOUS
<1>1. CASE Quiet
  BY <1>1, QuietKeeps DEF HubInv
<1>2. CASE HubRestart
  BY <1>2, HubRestartHolds
<1>3. ASSUME NEW t \in Threads, Filing(t) PROVE Quiet
  BY <1>3, FilingIsQuiet DEF HubInv
<1>4. CASE UNCHANGED <<vars, hubVars>>
  BY <1>1, <1>4 DEF hubVars, Quiet
<1>5. CASE HubNext
  <2>1. CASE UNCHANGED hubVars
    BY <1>1, <2>1 DEF hubVars, Quiet
  <2>2. ASSUME NEW t \in Threads,
              \/ ImportFile(t) \/ AddRecord(t) \/ ImportApprove(t)
              \/ ImportCommit(t) \/ MarkCommitted(t) \/ CountCommitted(t)
              \/ SetConfigStatus(t) \/ SetStatus(t) \/ UpdateConfig(t) \/ Filing(t)
        PROVE  HubInv'
    BY <1>1, <1>3, <2>2, ImportFileHolds, AddRecordHolds, ImportApproveHolds,
       ImportCommitHolds, MarkCommittedHolds, CountCommittedHolds,
       SetConfigStatusHolds, SetStatusHolds, UpdateConfigHolds
  <2> QED
    BY <1>2, <1>5, <2>1, <2>2 DEF HubNext, Filing
<1> QED
  BY <1>4, <1>5

(* The configuration is shown active when it is enabled, but for switches  *)
(* that overlapped, edits, and a switch between its two assignments        *)
(* (set_config_status).                                                    *)
THEOREM ConfigurationAgrees == HubSpec => []SwitchAgrees
<1>1. HubInv => SwitchAgrees
  BY DEF HubInv, OneSwitch, SwitchAgrees
<1> QED
  BY <1>1, FreshHolds, HubInvStep, PTL DEF HubSpec

(* A commit reports every record of the file, unless the import was        *)
(* approved while its rows were being added (import_file puts the job on   *)
(* file before its rows).                                                  *)
THEOREM ImportsCommitWhole == HubSpec => []CommitsAreWhole
<1>1. HubInv => CommitsAreWhole
  BY DEF HubInv, AllWhole, Whole, CommitsAreWhole
<1> QED
  BY <1>1, FreshHolds, HubInvStep, PTL DEF HubSpec

(* An import is committed once for every approval and once more for every  *)
(* commit that began while another was under way, and by no more than the  *)
(* threads there are for each approval, whatever the order in which        *)
(* import_approve and import_commit read and write its status; one with    *)
(* errors is never committed.                                              *)
THEOREM CommitsNeedApprovals == HubSpec => []CommittedAsApproved
<1>1. HubInv => CommittedAsApproved
  <2> SUFFICES ASSUME HubInv, NEW id \in Jobs
               PROVE  /\ jobs[id].commits <= jobs[id].approvals + jobs[id].races
                      /\ jobs[id].commits <= jobs[id].approvals * Cardinality(Threads)
                      /\ jobs[id].errors => jobs[id].commits = 0
    BY DEF CommittedAsApproved
  <2>1. Covered(id) /\ Cardinality(Committers(id)) \in Nat /\ Left(id) \in Nat
    BY FS_CardinalityType DEF HubInv, AllCovered, Covered, Left
  <2>2. /\ jobs[id].commits \in Nat /\ jobs[id].approvals \in Nat
        /\ jobs[id].races \in Nat
    <3>1. jobs[id] \in JobKinds
      BY DEF HubInv, HubTypes, Jobs
    <3> QED
      BY <3>1 DEF JobKinds
  <2>3. jobs[id].commits <= jobs[id].approvals * Cardinality(Threads)
    <3> DEFINE threads == Cardinality(Threads)
               committers == Cardinality(Committers(id))
               room == jobs[id].approvals * threads
    <3>1. threads \in Nat /\ committers \in Nat /\ room \in Nat
      BY <2>1, <2>2, ThreadsNumbered
    <3>2. jobs[id].commits + (IF Approved(jobs[id]) THEN threads ELSE committers) <= room
      BY <2>1 DEF Covered, Room
    <3> HIDE DEF threads, committers, room
    <3>3. jobs[id].commits <= room
      BY <2>2, <3>1, <3>2
    <3> QED
      BY <3>3 DEF room, threads
  <2> QED
    BY <2>1, <2>2, <2>3 DEF Covered
<1> QED
  BY <1>1, FreshHolds, HubInvStep, PTL DEF HubSpec

(* Imports, the configuration and the calls under way are well typed.      *)
THEOREM HubTypeCorrect == HubSpec => []HubTypes
<1>1. HubInv => HubTypes
  BY DEF HubInv
<1> QED
  BY <1>1, FreshHolds, HubInvStep, PTL DEF HubSpec
=============================================================================
