--------------------------- MODULE ShopFloorProofs ---------------------------
(***************************************************************************)
(* The shop floor: production, and after it quality and maintenance, for   *)
(* any number of threads, orders, materials, lots, machines and spares.    *)
(***************************************************************************)
EXTENDS ProductionDesk, Quality, MaintenanceDesk, FiniteSetTheorems, TLAPS

AllStatuses == ClientStatuses \cup ServerStatuses \cup {"absent"}
RowKinds == [order : Orders, item : Materials \cup {"total"}, quantity : Nat]

Typed ==
    /\ status \in [Orders -> AllStatuses] /\ target \in [Orders -> Nat]
    /\ rows \in [Lists -> SUBSET RowKinds]
    /\ pc \in [Threads -> {"idle", "demand", "keep", "store", "status"}]
    /\ kind \in [Threads -> {"reserve", "schedule", "cost", "complete"}]
    /\ ord \in [Threads -> Orders] /\ todo \in [Threads -> SUBSET Materials]
    /\ at \in [Threads -> Lists]
    /\ own \in [Threads -> SUBSET RowKinds] /\ kept \in [Threads -> SUBSET RowKinds]
    /\ clashed \subseteq Lists /\ edited \subseteq Orders

Wanted(o, materials) ==
    {[order |-> o, item |-> m, quantity |-> Demand(o, m)] : m \in materials}

Total(o) == {[order |-> o, item |-> "total", quantity |-> 0]}

(* What kind of call is at which step, and with whose rows.                *)
Shape(t) ==
    /\ \A r \in own[t] : r.order = ord[t]
    /\ pc[t] = "idle" => kind[t] = "reserve" /\ own[t] = {}
    /\ pc[t] # "idle" => Known(ord[t])
    /\ kind[t] \in {"reserve", "schedule"} => at[t] = "reservations"
    /\ kind[t] = "schedule" => pc[t] \in {"demand", "status"}
    /\ kind[t] \in {"cost", "complete"} =>
         at[t] = "costing" /\ pc[t] \in {"keep", "store"} /\ own[t] = Total(ord[t])

Shapes == \A t \in Threads : Shape(t)

Stores(t, L) == pc[t] = "store" /\ at[t] = L

(* On a list without clash one thread at most is about to store, and what  *)
(* it has kept is still what the list has of the other orders.             *)
OneStores ==
    \A L \in Lists \ clashed : \A t \in Threads :
        Stores(t, L) =>
            /\ kept[t] = OfOthers(ord[t], L)
            /\ \A u \in Threads : Stores(u, L) => u = t

(* What a reservation of an order that is not edited holds: one row for    *)
(* each material its loop has passed, and on file once it has stored them. *)
Gathers(t) ==
    /\ pc[t] = "demand" => own[t] = Wanted(ord[t], Materials \ todo[t])
    /\ pc[t] \in {"keep", "store", "status"} => own[t] = Wanted(ord[t], Materials)
    /\ pc[t] = "status" /\ "reservations" \notin clashed =>
         RowsOf(ord[t], "reservations") = Wanted(ord[t], Materials)

Gathered ==
    \A t \in Threads :
        kind[t] = "reserve" /\ pc[t] # "idle" /\ ord[t] \notin edited => Gathers(t)

OnFile ==
    \A o \in Orders \ edited :
        "reservations" \notin clashed /\ status[o] \in Shortages =>
            /\ RowsOf(o, "reservations") = Wanted(o, Materials)
            /\ status[o] = "Material Shortage" <=> IsShort(Wanted(o, Materials))

Costed ==
    \A o \in Orders :
        "costing" \notin clashed /\ status[o] \in Completions =>
            RowsOf(o, "costing") # {} \/ Running(o, "complete")

Inv == Typed /\ Shapes /\ OneStores /\ Gathered /\ OnFile /\ Costed

\* There is an order to name when no call is in hand.
LEMMA Chosen == AnyOrder \in Orders
BY ProductionAssumption DEF AnyOrder

\* What an order needs of a material is a number.
LEMMA DemandIsNat ==
    ASSUME Typed, NEW o \in Orders, NEW m \in Materials
    PROVE  Demand(o, m) \in Nat
<1>1. target[o] \in Nat /\ PerUnit[m] \in Nat
  BY ProductionAssumption DEF Typed
<1>2. \A a, b \in Nat : a * b \in Nat
  OBVIOUS
<1> QED
  BY <1>1, <1>2 DEF Demand

\* The seeded orders are in order, and no call is in hand.
LEMMA InitHolds == Init => Inv
<1> SUFFICES ASSUME Init PROVE Inv
  OBVIOUS
<1> USE Chosen, ProductionAssumption DEF Init
<1>1. Typed
  BY DEF Typed, SeedStatus, AllStatuses, ServerStatuses, Lists
<1>2. Shapes /\ OneStores /\ Gathered
  BY DEF Shapes, Shape, OneStores, Stores, Gathered
<1>3. \A o \in Orders : status[o] \notin Shortages \cup Completions
  BY DEF SeedStatus, Shortages, Completions
<1>4. OnFile /\ Costed
  BY <1>3 DEF OnFile, Costed
<1> QED
  BY <1>1, <1>2, <1>4 DEF Inv

\* So is the server that starts again, whose lists are seeded anew.
LEMMA RestartHolds == Restart => Inv'
<1> SUFFICES ASSUME Restart PROVE Inv'
  OBVIOUS
<1> USE Chosen, ProductionAssumption DEF Restart
<1>1. Typed'
  BY DEF Typed, SeedStatus, AllStatuses, ServerStatuses, Lists
<1>2. Shapes' /\ OneStores' /\ Gathered'
  BY DEF Shapes, Shape, OneStores, Stores, Gathered
<1>3. \A o \in Orders : status'[o] \notin Shortages \cup Completions
  BY DEF SeedStatus, Shortages, Completions
<1>4. OnFile' /\ Costed'
  BY <1>3 DEF OnFile, Costed
<1> QED
  BY <1>1, <1>2, <1>4 DEF Inv

(* A request body gives an order a status no call has computed.            *)
LEMMA RequestedStatus ==
    ASSUME NEW s \in ClientStatuses
    PROVE  s \in AllStatuses /\ s # "absent" /\ s \notin Shortages \cup Completions
BY ProductionAssumption DEF AllStatuses

\* create_production_order: no row names the new order, and no call works on
\* it.
LEMMA CreateOrderHolds ==
    ASSUME Inv, NEW o \in Orders, CreateOrder(o)
    PROVE  Inv'
<1> USE DEF Inv
<1>1. PICK s \in ClientStatuses, q \in Quantities :
        /\ status' = [status EXCEPT ![o] = s] /\ target' = [target EXCEPT ![o] = q]
        /\ UNCHANGED <<rows, locals, clashed, edited>> /\ ~Known(o)
  BY DEF CreateOrder
<1> USE DEF locals
<1>2. /\ s \in AllStatuses /\ s # "absent" /\ s \notin Shortages \cup Completions
      /\ q \in Nat
  BY RequestedStatus, ProductionAssumption
<1>3. Typed'
  BY <1>1, <1>2 DEF Typed
<1>4. Shapes'
  BY <1>1, <1>2 DEF Typed, Shapes, Shape, Known, Total
<1>5. OneStores'
  BY <1>1 DEF OneStores, Stores, OfOthers
<1>6. \A p \in Orders : p # o => target'[p] = target[p] /\ status'[p] = status[p]
  BY <1>1 DEF Typed
<1>7. \A p \in Orders : p # o => \A S : Wanted(p, S)' = Wanted(p, S)
  BY <1>6 DEF Wanted, Demand
<1>8. Gathered'
  <2> SUFFICES ASSUME NEW t \in Threads, kind[t] = "reserve", pc[t] # "idle",
                      ord[t] \notin edited
               PROVE  Gathers(t)'
    BY <1>1 DEF Gathered
  <2>1. Gathers(t) /\ ord[t] \in Orders /\ ord[t] # o
    BY <1>1 DEF Gathered, Typed, Shapes, Shape
  <2> QED
    BY <1>1, <1>7, <2>1 DEF Gathers, RowsOf
<1>9. OnFile'
  <2> SUFFICES ASSUME NEW p \in Orders \ edited, "reservations" \notin clashed,
                      status'[p] \in Shortages
               PROVE  /\ RowsOf(p, "reservations") = Wanted(p, Materials)'
                      /\ status'[p] = "Material Shortage" <=> IsShort(Wanted(p, Materials)')
    BY <1>1 DEF OnFile, RowsOf, IsShort
  <2>1. p # o
    BY <1>1, <1>2 DEF Typed
  <2> QED
    BY <1>6, <1>7, <2>1 DEF OnFile
<1>10. Costed'
  <2> SUFFICES ASSUME NEW p \in Orders, "costing" \notin clashed, status'[p] \in Completions
               PROVE  RowsOf(p, "costing") # {} \/ Running(p, "complete")
    BY <1>1 DEF Costed, RowsOf, Running
  <2>1. p # o
    BY <1>1, <1>2 DEF Typed
  <2> QED
    BY <1>6, <2>1 DEF Costed
<1> QED
  BY <1>3, <1>4, <1>5, <1>8, <1>9, <1>10

\* update_production_order: the target may change under a call, and the order
\* is one of those that were edited.
LEMMA UpdateOrderHolds ==
    ASSUME Inv, NEW o \in Orders, UpdateOrder(o)
    PROVE  Inv'
<1> USE DEF Inv
<1>1. PICK s \in ClientStatuses, q \in Quantities :
        /\ status' = [status EXCEPT ![o] = s] /\ target' = [target EXCEPT ![o] = q]
        /\ edited' = IF Running(o, "reserve") THEN edited \cup {o} ELSE edited
        /\ UNCHANGED <<rows, locals, clashed>>
  BY DEF UpdateOrder
<1> USE DEF locals
<1>2. /\ s \in AllStatuses /\ s # "absent" /\ s \notin Shortages \cup Completions
      /\ q \in Nat
  BY RequestedStatus, ProductionAssumption
<1>3. Typed'
  BY <1>1, <1>2 DEF Typed
<1>4. Shapes'
  BY <1>1, <1>2 DEF Typed, Shapes, Shape, Known, Total
<1>5. OneStores'
  BY <1>1 DEF OneStores, Stores, OfOthers
<1>6. \A p \in Orders : p # o => target'[p] = target[p] /\ status'[p] = status[p]
  BY <1>1 DEF Typed
<1>7. \A p \in Orders : p # o => \A S : Wanted(p, S)' = Wanted(p, S)
  BY <1>6 DEF Wanted, Demand
<1>8. Gathered'
  <2> SUFFICES ASSUME NEW t \in Threads, kind[t] = "reserve", pc[t] # "idle",
                      ord[t] \notin edited'
               PROVE  Gathers(t)'
    BY <1>1 DEF Gathered
  <2>1. Gathers(t) /\ ord[t] \in Orders /\ ord[t] # o
    BY <1>1 DEF Gathered, Typed, Running
  <2> QED
    BY <1>1, <1>7, <2>1 DEF Gathers, RowsOf
<1>9. OnFile'
  <2> SUFFICES ASSUME NEW p \in Orders \ edited', "reservations" \notin clashed,
                      status'[p] \in Shortages
               PROVE  /\ RowsOf(p, "reservations") = Wanted(p, Materials)'
                      /\ status'[p] = "Material Shortage" <=> IsShort(Wanted(p, Materials)')
    BY <1>1 DEF OnFile, RowsOf, IsShort
  <2>1. p # o /\ p \notin edited
    BY <1>1, <1>2 DEF Typed
  <2> QED
    BY <1>6, <1>7, <2>1 DEF OnFile
<1>10. Costed'
  <2> SUFFICES ASSUME NEW p \in Orders, "costing" \notin clashed, status'[p] \in Completions
               PROVE  RowsOf(p, "costing") # {} \/ Running(p, "complete")
    BY <1>1 DEF Costed, RowsOf, Running
  <2>1. p # o
    BY <1>1, <1>2 DEF Typed
  <2> QED
    BY <1>6, <2>1 DEF Costed
<1> QED
  BY <1>3, <1>4, <1>5, <1>8, <1>9, <1>10

(* Steps that change no order and no list leave what is on file true.      *)
LEMMA OnFileStays ==
    ASSUME OnFile, UNCHANGED <<status, target, rows, edited>>, clashed \subseteq clashed'
    PROVE  OnFile'
<1> SUFFICES ASSUME NEW o \in Orders \ edited, "reservations" \notin clashed,
                    status[o] \in Shortages
             PROVE  /\ RowsOf(o, "reservations") = Wanted(o, Materials)'
                    /\ status[o] = "Material Shortage" <=> IsShort(Wanted(o, Materials)')
  BY DEF OnFile, RowsOf, IsShort
<1>1. Wanted(o, Materials)' = Wanted(o, Materials)
  BY DEF Wanted, Demand
<1> QED
  BY <1>1 DEF OnFile

(* A call that starts on an order: the other threads stay where they are.  *)
LEMMA BeginDemandHolds ==
    ASSUME Inv, NEW t \in Threads, NEW o \in Orders, NEW k \in {"reserve", "schedule"},
           BeginDemand(t, o, k)
    PROVE  Inv'
<1> USE DEF Inv, BeginDemand, Enter
<1>1. Typed'
  BY DEF Typed
<1>2. Shapes'
  BY DEF Typed, Shapes, Shape, Known, Total
<1>3. OneStores'
  BY DEF Typed, OneStores, Stores, OfOthers
<1>4. \A p \in Orders : \A S : Wanted(p, S)' = Wanted(p, S)
  BY DEF Wanted, Demand
<1>5. Gathered'
  <2> SUFFICES ASSUME NEW u \in Threads, kind'[u] = "reserve", pc'[u] # "idle",
                      ord'[u] \notin edited
               PROVE  Gathers(u)'
    BY DEF Gathered
  <2>1. CASE u = t
    <3>1. pc'[u] = "demand" /\ own'[u] = {} /\ todo'[u] = Materials
      BY <2>1 DEF Typed, Shapes, Shape
    <3> QED
      BY <3>1 DEF Gathers, Wanted
  <2>2. CASE u # t
    <3>1. /\ Gathers(u) /\ ord'[u] = ord[u] /\ pc'[u] = pc[u]
          /\ own'[u] = own[u] /\ todo'[u] = todo[u] /\ ord[u] \in Orders
      BY <2>2 DEF Gathered, Typed
    <3> QED
      BY <1>4, <3>1 DEF Gathers, RowsOf
  <2> QED
    BY <2>1, <2>2
<1>6. OnFile'
  BY OnFileStays
<1>7. Costed'
  BY DEF Costed, RowsOf, Running, Typed
<1> QED
  BY <1>1, <1>2, <1>3, <1>5, <1>6, <1>7

\* calculate_demand, one material: the row is of the order's own target, unless
\* it was edited.
LEMMA DemandItemHolds ==
    ASSUME Inv, NEW t \in Threads, DemandItem(t)
    PROVE  Inv'
<1> USE DEF Inv
<1>1. PICK m \in todo[t] :
        /\ own' = [own EXCEPT ![t] = own[t] \cup
              {[order |-> ord[t], item |-> m, quantity |-> Demand(ord[t], m)]}]
        /\ todo' = [todo EXCEPT ![t] = todo[t] \ {m}]
  BY DEF DemandItem
<1> USE DEF DemandItem
<1>2. ord[t] \in Orders /\ m \in Materials /\ Demand(ord[t], m) \in Nat
  BY <1>1, DemandIsNat DEF Typed
<1>3. Typed'
  <2>1. own' \in [Threads -> SUBSET RowKinds]
    BY <1>1, <1>2 DEF Typed, RowKinds
  <2>2. todo' \in [Threads -> SUBSET Materials]
    BY <1>1 DEF Typed
  <2> QED
    BY <2>1, <2>2 DEF Typed
<1>4. Shapes'
  BY <1>1 DEF Typed, Shapes, Shape, Known, Total
<1>5. OneStores'
  BY DEF OneStores, Stores, OfOthers
<1>6. \A p \in Orders : \A S : Wanted(p, S)' = Wanted(p, S)
  BY DEF Wanted, Demand
<1>7. Gathered'
  <2> SUFFICES ASSUME NEW u \in Threads, kind[u] = "reserve", pc[u] # "idle",
                      ord[u] \notin edited
               PROVE  Gathers(u)'
    BY DEF Gathered
  <2>1. Gathers(u) /\ ord[u] \in Orders
    BY DEF Gathered, Typed
  <2>2. CASE u = t
    <3>1. /\ own'[u] = own[u] \cup {[order |-> ord[u], item |-> m, quantity |-> Demand(ord[u], m)]}
          /\ todo'[u] = todo[u] \ {m} /\ pc[u] = "demand" /\ todo[u] \subseteq Materials
      BY <1>1, <2>2 DEF Typed
    <3>2. own[u] = Wanted(ord[u], Materials \ todo[u])
      BY <2>1, <3>1 DEF Gathers
    <3>3. own'[u] = Wanted(ord[u], Materials \ todo'[u])
      <4>1. Materials \ todo'[u] = (Materials \ todo[u]) \cup {m}
        BY <1>2, <3>1
      <4> HIDE DEF Demand
      <4> QED
        BY <3>1, <3>2, <4>1 DEF Wanted
    <3> QED
      BY <1>6, <2>1, <3>1, <3>3 DEF Gathers
  <2>3. CASE u # t
    <3>1. own'[u] = own[u] /\ todo'[u] = todo[u]
      BY <1>1, <2>3 DEF Typed
    <3> QED
      BY <1>6, <2>1, <3>1 DEF Gathers, RowsOf
  <2> QED
    BY <2>2, <2>3
<1>8. OnFile'
  BY OnFileStays
<1>9. Costed'
  BY DEF Costed, RowsOf, Running
<1> QED
  BY <1>3, <1>4, <1>5, <1>7, <1>8, <1>9

\* calculate_demand ends: a row for every material is in hand.
LEMMA EndDemandHolds ==
    ASSUME Inv, NEW t \in Threads, EndDemand(t)
    PROVE  Inv'
<1> USE DEF Inv, EndDemand
<1>1. Typed'
  BY DEF Typed
<1>2. Shapes'
  BY DEF Typed, Shapes, Shape, Known, Total
<1>3. OneStores'
  BY DEF Typed, OneStores, Stores, OfOthers
<1>4. \A p \in Orders : \A S : Wanted(p, S)' = Wanted(p, S)
  BY DEF Wanted, Demand
<1>5. Gathered'
  <2> SUFFICES ASSUME NEW u \in Threads, kind[u] = "reserve", pc'[u] # "idle",
                      ord[u] \notin edited
               PROVE  Gathers(u)'
    BY DEF Gathered
  <2>1. Gathers(u) /\ ord[u] \in Orders
    BY DEF Gathered, Typed
  <2>2. CASE u = t
    <3>1. pc'[u] = "keep" /\ own[u] = Wanted(ord[u], Materials \ {})
      BY <2>1, <2>2 DEF Typed, Gathers
    <3> QED
      BY <1>4, <2>1, <3>1 DEF Gathers
  <2>3. CASE u # t
    <3>1. pc'[u] = pc[u]
      BY <2>3 DEF Typed
    <3> QED
      BY <1>4, <2>1, <3>1 DEF Gathers, RowsOf
  <2> QED
    BY <2>2, <2>3
<1>6. OnFile'
  BY OnFileStays
<1>7. Costed'
  BY DEF Costed, RowsOf, Running, Typed
<1> QED
  BY <1>1, <1>2, <1>3, <1>5, <1>6, <1>7

\* The list without the order's rows is kept; whoever else is about to store
\* the same list now clashes with this call.
LEMMA KeepRowsHolds ==
    ASSUME Inv, NEW t \in Threads, KeepRows(t)
    PROVE  Inv'
<1> USE DEF Inv, KeepRows
<1>1. Typed'
  <2>1. kept' \in [Threads -> SUBSET RowKinds]
    BY DEF Typed, OfOthers
  <2>2. clashed' \subseteq Lists /\ clashed \subseteq clashed'
    BY DEF Typed
  <2> QED
    BY <2>1, <2>2 DEF Typed
<1>2. Shapes'
  BY DEF Typed, Shapes, Shape, Known, Total
<1>3. OneStores'
  <2> SUFFICES ASSUME NEW L \in Lists \ clashed', NEW u \in Threads, Stores(u, L)'
               PROVE  /\ kept'[u] = OfOthers(ord[u], L)
                      /\ \A v \in Threads : Stores(v, L)' => v = u
    BY DEF OneStores, OfOthers
  <2>1. L \notin clashed /\ (L = at[t] => \A v \in Threads : ~Stores(v, L))
    BY DEF Stores
  <2>2. \A v \in Threads : v # t => (Stores(v, L)' <=> Stores(v, L)) /\ kept'[v] = kept[v]
    BY DEF Stores, Typed
  <2>3. (Stores(t, L)' <=> at[t] = L) /\ ~Stores(t, L) /\ kept'[t] = OfOthers(ord[t], at[t])
    BY DEF Stores, Typed
  <2> QED
    BY <2>1, <2>2, <2>3 DEF OneStores
<1>4. \A p \in Orders : \A S : Wanted(p, S)' = Wanted(p, S)
  BY DEF Wanted, Demand
<1>5. Gathered'
  <2> SUFFICES ASSUME NEW u \in Threads, kind[u] = "reserve", pc'[u] # "idle",
                      ord[u] \notin edited
               PROVE  Gathers(u)'
    BY DEF Gathered
  <2>1. /\ Gathers(u) /\ ord[u] \in Orders
        /\ IF u = t THEN pc[u] = "keep" /\ pc'[u] = "store" ELSE pc'[u] = pc[u]
    BY DEF Gathered, Typed
  <2> QED
    BY <1>4, <2>1 DEF Gathers, RowsOf
<1>6. OnFile'
  BY OnFileStays
<1>7. Costed'
  BY DEF Costed, RowsOf, Running, Typed
<1> QED
  BY <1>1, <1>2, <1>3, <1>5, <1>6, <1>7

(* Storing a list without clash replaces the rows of one order.            *)
LEMMA StoreReplaces ==
    ASSUME Inv, NEW t \in Threads, StoreRows(t), NEW L \in Lists \ clashed
    PROVE  \A o \in Orders :
             RowsOf(o, L)' = IF L = at[t] /\ o = ord[t] THEN own[t] ELSE RowsOf(o, L)
<1> SUFFICES ASSUME NEW o \in Orders
             PROVE  {r \in rows'[L] : r.order = o}
                       = IF L = at[t] /\ o = ord[t] THEN own[t] ELSE RowsOf(o, L)
  BY DEF RowsOf
<1>1. CASE L = at[t]
  <2>1. rows'[L] = OfOthers(ord[t], L) \cup own[t]
    BY <1>1 DEF Inv, Typed, StoreRows, OneStores, Stores
  <2>2. \A r \in own[t] : r.order = ord[t]
    BY DEF Inv, Shapes, Shape
  <2> QED
    BY <1>1, <2>1, <2>2 DEF OfOthers, RowsOf
<1>2. CASE L # at[t]
  BY <1>2 DEF Inv, Typed, StoreRows, RowsOf
<1> QED
  BY <1>1, <1>2

(* What a thread is in when it has returned.                               *)
LEMMA ReturnTypes ==
    ASSUME Inv, NEW t \in Threads, Return(t)
    PROVE  /\ pc' \in [Threads -> {"idle", "demand", "keep", "store", "status"}]
           /\ kind' \in [Threads -> {"reserve", "schedule", "cost", "complete"}]
           /\ ord' \in [Threads -> Orders] /\ at' \in [Threads -> Lists]
           /\ own' \in [Threads -> SUBSET RowKinds]
           /\ pc'[t] = "idle" /\ kind'[t] = "reserve" /\ at'[t] = "reservations"
           /\ own'[t] = {}
           /\ \A u \in Threads : u # t =>
                 /\ pc'[u] = pc[u] /\ kind'[u] = kind[u] /\ ord'[u] = ord[u]
                 /\ at'[u] = at[u] /\ own'[u] = own[u]
BY Chosen DEF Inv, Typed, Return, Lists

(* The rows a reservation is about to store are what its order wants.      *)
LEMMA StoredIsWanted ==
    ASSUME Inv, NEW t \in Threads, pc[t] = "store", at[t] = "reservations",
           ord[t] \notin edited
    PROVE  own[t] = Wanted(ord[t], Materials)
<1>1. kind[t] \in {"reserve", "schedule", "cost", "complete"} /\ Shape(t)
  BY DEF Inv, Typed, Shapes
<1>2. kind[t] = "reserve"
  BY <1>1 DEF Shape
<1> QED
  BY <1>2 DEF Inv, Gathered, Gathers

\* The list is stored: of the others' rows, what was kept.
LEMMA StoreRowsHolds ==
    ASSUME Inv, NEW t \in Threads, StoreRows(t)
    PROVE  Inv'
<1> USE DEF Inv
<1>1. /\ UNCHANGED <<status, target, todo, clashed, edited>>
      /\ pc[t] = "store" /\ kept' = [kept EXCEPT ![t] = {}]
      /\ rows' = [rows EXCEPT ![at[t]] = kept[t] \cup own[t]]
  BY DEF StoreRows
<1>2. /\ pc' \in [Threads -> {"idle", "demand", "keep", "store", "status"}]
      /\ kind' \in [Threads -> {"reserve", "schedule", "cost", "complete"}]
      /\ ord' \in [Threads -> Orders] /\ at' \in [Threads -> Lists]
      /\ own' \in [Threads -> SUBSET RowKinds]
      /\ \A u \in Threads : u # t =>
            /\ pc'[u] = pc[u] /\ kind'[u] = kind[u] /\ ord'[u] = ord[u]
            /\ at'[u] = at[u] /\ own'[u] = own[u]
  <2>1. CASE kind[t] = "reserve"
    BY <2>1 DEF StoreRows, Typed
  <2>2. CASE kind[t] # "reserve"
    BY <2>2, ReturnTypes DEF StoreRows
  <2> QED
    BY <2>1, <2>2
<1>3. IF kind[t] = "reserve"
      THEN /\ pc'[t] = "status" /\ kind'[t] = "reserve" /\ ord'[t] = ord[t]
           /\ at'[t] = at[t] /\ own'[t] = own[t]
      ELSE /\ pc'[t] = "idle" /\ kind'[t] = "reserve" /\ at'[t] = "reservations"
           /\ own'[t] = {}
  BY ReturnTypes DEF StoreRows, Typed
<1>4. Typed'
  BY <1>1, <1>2 DEF Typed
<1>5. Shapes'
  <2> SUFFICES ASSUME NEW u \in Threads PROVE Shape(u)'
    BY DEF Shapes
  <2>1. Shape(u) /\ Shape(t)
    BY DEF Shapes
  <2> QED
    BY <1>1, <1>2, <1>3, <2>1 DEF Shape, Known, Total
<1>6. OneStores'
  <2> SUFFICES ASSUME NEW L \in Lists \ clashed, NEW u \in Threads, Stores(u, L)'
               PROVE  /\ kept'[u] = {r \in rows'[L] : r.order # ord'[u]}
                      /\ \A v \in Threads : Stores(v, L)' => v = u
    BY <1>1 DEF OneStores, OfOthers
  <2>1. \A v \in Threads : Stores(v, L)' => v # t /\ Stores(v, L)
    BY <1>1, <1>2, <1>3 DEF Stores
  <2>2. L # at[t]
    BY <1>1, <2>1 DEF OneStores, Stores
  <2>3. rows'[L] = rows[L]
    BY <1>1, <2>2 DEF Typed
  <2>4. u # t /\ Stores(u, L) /\ kept'[u] = kept[u] /\ ord'[u] = ord[u]
    BY <1>1, <1>2, <2>1 DEF Typed
  <2>5. kept[u] = OfOthers(ord[u], L) /\ \A v \in Threads : Stores(v, L) => v = u
    BY <2>4 DEF OneStores
  <2> QED
    BY <2>1, <2>3, <2>4, <2>5 DEF OfOthers
<1>7. \A p, S : Wanted(p, S)' = Wanted(p, S)
  BY <1>1 DEF Wanted, Demand
<1>8. "reservations" \notin clashed =>
        \A o \in Orders :
          {r \in rows'["reservations"] : r.order = o}
             = IF at[t] = "reservations" /\ o = ord[t] THEN own[t]
               ELSE RowsOf(o, "reservations")
  BY StoreReplaces DEF Lists, RowsOf
<1>9. Gathered'
  <2> SUFFICES ASSUME NEW u \in Threads, kind'[u] = "reserve", pc'[u] # "idle",
                      ord'[u] \notin edited
               PROVE  Gathers(u)'
    BY <1>1 DEF Gathered
  <2>1. CASE u = t
    <3>1. /\ kind[t] = "reserve" /\ at[t] = "reservations" /\ ord[t] \in Orders
          /\ ord[t] \notin edited /\ own[t] = Wanted(ord[t], Materials)
      BY <1>1, <1>3, <2>1 DEF Gathered, Gathers, Shapes, Shape, Typed
    <3>2. "reservations" \notin clashed
             => {r \in rows'["reservations"] : r.order = ord[t]} = own[t]
      BY <3>1, <1>8
    <3> QED
      BY <1>1, <1>3, <1>7, <2>1, <3>1, <3>2 DEF Gathers, RowsOf
  <2>2. CASE u # t
    <3>1. Gathers(u) /\ ord[u] \in Orders
      BY <1>2, <2>2 DEF Gathered, Typed
    <3>2. ASSUME pc[u] = "status", "reservations" \notin clashed
          PROVE  {r \in rows'["reservations"] : r.order = ord[u]} = Wanted(ord[u], Materials)
      <4>1. RowsOf(ord[u], "reservations") = Wanted(ord[u], Materials)
        BY <3>1, <3>2 DEF Gathers
      <4>2. CASE at[t] = "reservations" /\ ord[t] = ord[u]
        <5>1. own[t] = Wanted(ord[u], Materials)
          BY <1>1, <1>2, <2>2, <4>2, StoredIsWanted
        <5> QED
          BY <1>8, <3>1, <3>2, <4>2, <5>1
      <4>3. CASE ~(at[t] = "reservations" /\ ord[t] = ord[u])
        BY <1>8, <3>1, <3>2, <4>1, <4>3
      <4> QED
        BY <4>2, <4>3
    <3> QED
      BY <1>1, <1>2, <1>7, <2>2, <3>1, <3>2 DEF Gathers, RowsOf
  <2> QED
    BY <2>1, <2>2
<1>10. OnFile'
  <2> SUFFICES ASSUME NEW o \in Orders \ edited, "reservations" \notin clashed,
                      status[o] \in Shortages
               PROVE  /\ {r \in rows'["reservations"] : r.order = o} = Wanted(o, Materials)
                      /\ status[o] = "Material Shortage" <=> IsShort(Wanted(o, Materials))
    BY <1>1, <1>7 DEF OnFile, RowsOf, IsShort
  <2>1. /\ RowsOf(o, "reservations") = Wanted(o, Materials)
        /\ status[o] = "Material Shortage" <=> IsShort(Wanted(o, Materials))
    BY DEF OnFile
  <2>2. CASE at[t] = "reservations" /\ ord[t] = o
    <3>1. own[t] = Wanted(o, Materials)
      BY <1>1, <2>2, StoredIsWanted
    <3> QED
      BY <1>8, <2>1, <2>2, <3>1
  <2>3. CASE ~(at[t] = "reservations" /\ ord[t] = o)
    BY <1>8, <2>1, <2>3
  <2> QED
    BY <2>2, <2>3
<1>11. Costed'
  <2> SUFFICES ASSUME NEW o \in Orders, "costing" \notin clashed, status[o] \in Completions
               PROVE  {r \in rows'["costing"] : r.order = o} # {} \/ Running(o, "complete")'
    BY <1>1 DEF Costed, RowsOf
  <2>1. RowsOf(o, "costing") # {} \/ Running(o, "complete")
    BY DEF Costed
  <2>2. \A p \in Orders :
          {r \in rows'["costing"] : r.order = p}
             = IF at[t] = "costing" /\ p = ord[t] THEN own[t] ELSE RowsOf(p, "costing")
    BY StoreReplaces DEF Lists, RowsOf
  <2>3. CASE at[t] = "costing" /\ ord[t] = o
    <3>1. own[t] = Total(o)
      BY <2>3 DEF Shapes, Shape, Typed
    <3> QED
      BY <2>2, <2>3, <3>1 DEF Total
  <2>4. CASE ~(at[t] = "costing" /\ ord[t] = o)
    <3>1. Running(o, "complete") => Running(o, "complete")'
      BY <1>2, <2>4 DEF Running, Shapes, Shape
    <3> QED
      BY <2>1, <2>2, <2>4, <3>1
  <2> QED
    BY <2>3, <2>4
<1> QED
  BY <1>4, <1>5, <1>6, <1>9, <1>10, <1>11

(* A call that returns leaves the rebuilding of the lists to the others.   *)
LEMMA OneStoresStays ==
    ASSUME Inv, NEW t \in Threads, Return(t), UNCHANGED <<rows, kept, clashed>>
    PROVE  OneStores'
<1> SUFFICES ASSUME NEW L \in Lists \ clashed, NEW u \in Threads, Stores(u, L)'
             PROVE  /\ kept[u] = {r \in rows[L] : r.order # ord'[u]}
                    /\ \A v \in Threads : Stores(v, L)' => v = u
  BY DEF OneStores, OfOthers
<1>1. \A v \in Threads : Stores(v, L)' => Stores(v, L) /\ ord'[v] = ord[v]
  BY ReturnTypes DEF Stores
<1>2. kept[u] = OfOthers(ord[u], L) /\ \A v \in Threads : Stores(v, L) => v = u
  BY <1>1 DEF Inv, OneStores
<1> QED
  BY <1>1, <1>2 DEF OfOthers

\* reserve_materials ends: its status is one of shortage or of success, with
\* the rows on file.
LEMMA EndReserveHolds ==
    ASSUME Inv, NEW t \in Threads, EndReserve(t)
    PROVE  Inv'
<1> USE DEF Inv
<1>1. /\ UNCHANGED <<target, rows, todo, kept, clashed, edited>>
      /\ pc[t] = "status" /\ kind[t] = "reserve" /\ Return(t)
      /\ status' = [status EXCEPT ![ord[t]] =
           IF IsShort(own[t]) THEN "Material Shortage" ELSE "Material Reserved"]
  BY DEF EndReserve
<1>2. Typed'
  BY <1>1, ReturnTypes DEF Typed, AllStatuses, ServerStatuses, Shortages
<1>3. \A o \in Orders : Known(o) => Known(o)'
  BY <1>1 DEF Typed, Known
<1>4. Shapes'
  <2> SUFFICES ASSUME NEW u \in Threads PROVE Shape(u)'
    BY DEF Shapes
  <2>1. Shape(u) /\ ord[u] \in Orders
    BY DEF Shapes, Typed
  <2>2. CASE u = t
    BY <1>1, <2>2, ReturnTypes DEF Shape
  <2>3. CASE u # t
    <3>1. /\ pc'[u] = pc[u] /\ kind'[u] = kind[u] /\ ord'[u] = ord[u]
          /\ at'[u] = at[u] /\ own'[u] = own[u]
      BY <1>1, <2>3, ReturnTypes
    <3> PICK o : o = ord[u]
      OBVIOUS
    <3>2. o \in Orders /\ Known(o) => Known(o)'
      BY <1>3, <2>1
    <3> QED
      BY <2>1, <3>1, <3>2 DEF Shape, Known, Total
  <2> QED
    BY <2>2, <2>3
<1>5. OneStores'
  BY <1>1, OneStoresStays
<1>6. \A p, S : Wanted(p, S)' = Wanted(p, S)
  BY <1>1 DEF Wanted, Demand
<1>7. Gathered'
  <2> SUFFICES ASSUME NEW u \in Threads, kind'[u] = "reserve", pc'[u] # "idle",
                      ord'[u] \notin edited
               PROVE  Gathers(u)'
    BY <1>1 DEF Gathered
  <2>1. u # t
    BY <1>1, ReturnTypes
  <2>2. /\ Gathers(u) /\ ord'[u] = ord[u] /\ pc'[u] = pc[u] /\ own'[u] = own[u]
    BY <1>1, <2>1, ReturnTypes DEF Gathered
  <2> QED
    BY <1>1, <1>6, <2>2 DEF Gathers, RowsOf
<1>8. OnFile'
  <2> SUFFICES ASSUME NEW o \in Orders \ edited, "reservations" \notin clashed,
                      status'[o] \in Shortages
               PROVE  /\ RowsOf(o, "reservations") = Wanted(o, Materials)
                      /\ status'[o] = "Material Shortage" <=> IsShort(Wanted(o, Materials))
    BY <1>1, <1>6 DEF OnFile, RowsOf, IsShort
  <2>1. CASE o = ord[t]
    <3>1. own[t] = Wanted(o, Materials) /\ RowsOf(o, "reservations") = Wanted(o, Materials)
      BY <1>1, <2>1 DEF Gathered, Gathers
    <3>2. status'[o] = IF IsShort(own[t]) THEN "Material Shortage" ELSE "Material Reserved"
      BY <1>1, <2>1 DEF Typed
    <3> QED
      BY <3>1, <3>2
  <2>2. CASE o # ord[t]
    BY <1>1, <2>2 DEF OnFile, Typed
  <2> QED
    BY <2>1, <2>2
<1>9. Costed'
  <2>1. \A o \in Orders : status'[o] \in Completions => status[o] \in Completions
    BY <1>1 DEF Typed, Completions
  <2>2. \A o \in Orders : Running(o, "complete") => Running(o, "complete")'
    BY <1>1, ReturnTypes DEF Running
  <2> QED
    BY <1>1, <2>1, <2>2 DEF Costed, RowsOf
<1> QED
  BY <1>2, <1>4, <1>5, <1>7, <1>8, <1>9

\* schedule ends with the status the shortages give, and no row is touched.
LEMMA EndScheduleHolds ==
    ASSUME Inv, NEW t \in Threads, EndSchedule(t)
    PROVE  Inv'
<1> USE DEF Inv
<1>1. PICK s \in {"Scheduled", "On Hold"} :
        /\ UNCHANGED <<target, rows, todo, kept, clashed, edited>>
        /\ pc[t] = "status" /\ kind[t] = "schedule" /\ Return(t)
        /\ status' = [status EXCEPT ![ord[t]] = s]
  BY DEF EndSchedule
<1>2. Typed'
  BY <1>1, ReturnTypes DEF Typed, AllStatuses, ServerStatuses
<1>3. Shapes'
  <2> SUFFICES ASSUME NEW u \in Threads PROVE Shape(u)'
    BY DEF Shapes
  <2>1. Shape(u) /\ ord[u] \in Orders
    BY DEF Shapes, Typed
  <2>2. \A o \in Orders : Known(o) => Known(o)'
    BY <1>1 DEF Typed, Known
  <2>3. CASE u = t
    BY <1>1, <2>3, ReturnTypes DEF Shape
  <2>4. CASE u # t
    <3>1. /\ pc'[u] = pc[u] /\ kind'[u] = kind[u] /\ ord'[u] = ord[u]
          /\ at'[u] = at[u] /\ own'[u] = own[u]
      BY <1>1, <2>4, ReturnTypes
    <3> PICK o : o = ord[u]
      OBVIOUS
    <3>2. o \in Orders /\ Known(o) => Known(o)'
      BY <2>1, <2>2
    <3> QED
      BY <2>1, <3>1, <3>2 DEF Shape, Known, Total
  <2> QED
    BY <2>3, <2>4
<1>4. OneStores'
  BY <1>1, OneStoresStays
<1>5. \A p, S : Wanted(p, S)' = Wanted(p, S)
  BY <1>1 DEF Wanted, Demand
<1>6. Gathered'
  <2> SUFFICES ASSUME NEW u \in Threads, kind'[u] = "reserve", pc'[u] # "idle",
                      ord'[u] \notin edited
               PROVE  Gathers(u)'
    BY <1>1 DEF Gathered
  <2>1. u # t
    BY <1>1, ReturnTypes
  <2>2. /\ Gathers(u) /\ ord'[u] = ord[u] /\ pc'[u] = pc[u] /\ own'[u] = own[u]
    BY <1>1, <2>1, ReturnTypes DEF Gathered
  <2> QED
    BY <1>1, <1>5, <2>2 DEF Gathers, RowsOf
<1>7. \A o \in Orders : status'[o] \in Shortages \cup Completions => status'[o] = status[o]
  BY <1>1 DEF Typed, Shortages, Completions
<1>8. OnFile'
  <2> SUFFICES ASSUME NEW o \in Orders \ edited, "reservations" \notin clashed,
                      status'[o] \in Shortages
               PROVE  /\ RowsOf(o, "reservations") = Wanted(o, Materials)
                      /\ status'[o] = "Material Shortage" <=> IsShort(Wanted(o, Materials))
    BY <1>1, <1>5 DEF OnFile, RowsOf, IsShort
  <2> QED
    BY <1>7 DEF OnFile
<1>9. Costed'
  <2>1. \A o \in Orders : Running(o, "complete") => Running(o, "complete")'
    BY <1>1, ReturnTypes DEF Running
  <2> QED
    BY <1>1, <1>7, <2>1 DEF Costed, RowsOf
<1> QED
  BY <1>2, <1>3, <1>4, <1>6, <1>8, <1>9

(* Costing begins: the rows a call has in hand are the total of its order. *)
LEMMA CostingHolds ==
    ASSUME Inv, NEW t \in Threads, NEW o \in Orders,
           CalculateCosting(t, o) \/ CompleteOrder(t, o)
    PROVE  Inv'
<1> USE DEF Inv
<1>1. PICK k \in {"cost", "complete"}, s \in AllStatuses :
        /\ BeginCost(t, o, k) /\ status' = [status EXCEPT ![o] = s]
        /\ \/ k = "cost" /\ s = status[o]
           \/ k = "complete" /\ s \in Completions
  <2>1. CASE CalculateCosting(t, o)
    <3>1. status' = [status EXCEPT ![o] = status[o]] /\ status[o] \in AllStatuses
      BY <2>1 DEF CalculateCosting, Typed
    <3> QED
      BY <2>1, <3>1 DEF CalculateCosting
  <2>2. CASE CompleteOrder(t, o)
    BY <2>2 DEF CompleteOrder, AllStatuses, ServerStatuses
  <2> QED
    BY <2>1, <2>2
<1> USE DEF BeginCost, Enter
<1>2. Total(o) \subseteq RowKinds
  BY DEF Total, RowKinds
<1>3. Typed'
  BY <1>1, <1>2 DEF Typed, Total, Lists
<1>4. Shapes'
  <2> SUFFICES ASSUME NEW u \in Threads PROVE Shape(u)'
    BY DEF Shapes
  <2>1. Shape(u) /\ ord[u] \in Orders
    BY DEF Shapes, Typed
  <2>2. \A p \in Orders : Known(p) => Known(p)'
    BY <1>1 DEF Typed, Known, Completions
  <2>3. CASE u = t
    <3>1. /\ pc'[u] = "keep" /\ kind'[u] = k /\ ord'[u] = o /\ at'[u] = "costing"
          /\ own'[u] = Total(o) /\ Known(o)
      BY <1>1, <2>3 DEF Typed, Total
    <3> QED
      BY <1>1, <2>2, <3>1 DEF Shape, Total, Known
  <2>4. CASE u # t
    <3>1. /\ pc'[u] = pc[u] /\ kind'[u] = kind[u] /\ ord'[u] = ord[u] /\ at'[u] = at[u]
          /\ own'[u] = own[u]
      BY <1>1, <2>4 DEF Typed
    <3> QED
      BY <2>1, <2>2, <3>1 DEF Shape, Total, Known
  <2> QED
    BY <2>3, <2>4
<1>5. OneStores'
  BY <1>1 DEF Typed, OneStores, Stores, OfOthers
<1>6. \A p, S : Wanted(p, S)' = Wanted(p, S)
  BY <1>1 DEF Wanted, Demand
<1>7. Gathered'
  <2> SUFFICES ASSUME NEW u \in Threads, kind'[u] = "reserve", pc'[u] # "idle",
                      ord'[u] \notin edited
               PROVE  Gathers(u)'
    BY <1>1 DEF Gathered
  <2>1. u # t
    BY <1>1 DEF Typed
  <2>2. /\ Gathers(u) /\ ord'[u] = ord[u] /\ pc'[u] = pc[u] /\ own'[u] = own[u]
    BY <1>1, <2>1 DEF Gathered, Typed
  <2> QED
    BY <1>1, <1>6, <2>2 DEF Gathers, RowsOf
<1>8. \A p \in Orders : status'[p] = IF p = o THEN s ELSE status[p]
  BY <1>1 DEF Typed
<1>9. OnFile'
  <2> SUFFICES ASSUME NEW p \in Orders \ edited, "reservations" \notin clashed,
                      status'[p] \in Shortages
               PROVE  /\ RowsOf(p, "reservations") = Wanted(p, Materials)
                      /\ status'[p] = "Material Shortage" <=> IsShort(Wanted(p, Materials))
    BY <1>1, <1>6 DEF OnFile, RowsOf, IsShort
  <2>1. status'[p] = status[p]
    BY <1>1, <1>8 DEF Shortages, Completions
  <2> QED
    BY <2>1 DEF OnFile
<1>10. Costed'
  <2> SUFFICES ASSUME NEW p \in Orders, "costing" \notin clashed, status'[p] \in Completions
               PROVE  RowsOf(p, "costing") # {} \/ Running(p, "complete")'
    BY <1>1 DEF Costed, RowsOf
  <2>1. Running(p, "complete") => Running(p, "complete")'
    BY <1>1 DEF Running, Typed
  <2>2. CASE p = o /\ k = "complete"
    BY <1>1, <2>2 DEF Running, Typed
  <2>3. CASE ~(p = o /\ k = "complete")
    BY <1>1, <1>8, <2>1, <2>3 DEF Costed
  <2> QED
    BY <2>2, <2>3
<1> QED
  BY <1>3, <1>4, <1>5, <1>7, <1>9, <1>10

(* Inv is inductive.                                                       *)
LEMMA InvStep == Inv /\ [Next]_vars => Inv'
<1> SUFFICES ASSUME Inv, [Next]_vars PROVE Inv'
  OBVIOUS
<1>1. CASE Next
  BY <1>1, CreateOrderHolds, UpdateOrderHolds, BeginDemandHolds, DemandItemHolds,
     EndDemandHolds, KeepRowsHolds, StoreRowsHolds, EndReserveHolds, EndScheduleHolds,
     CostingHolds, RestartHolds DEF Next, Work, ThreadStep
<1>2. CASE UNCHANGED vars
  <2> USE <1>2 DEF vars, Inv
  <2>1. Typed' /\ Shapes' /\ OneStores'
    BY DEF Typed, Shapes, Shape, Known, Total, OneStores, Stores, OfOthers
  <2>2. \A p, S : Wanted(p, S)' = Wanted(p, S)
    BY DEF Wanted, Demand
  <2>3. Gathered'
    <3> SUFFICES ASSUME NEW t \in Threads, kind[t] = "reserve", pc[t] # "idle",
                        ord[t] \notin edited
                 PROVE  Gathers(t)'
      BY DEF Gathered
    <3> QED
      BY <2>2 DEF Gathered, Gathers, RowsOf
  <2>4. OnFile' /\ Costed'
    BY OnFileStays DEF Costed, RowsOf, Running
  <2> QED
    BY <2>1, <2>3, <2>4
<1> QED
  BY <1>1, <1>2

(* The desk beside the orders leaves them alone.                           *)
THEOREM DeskKeepsProduction == DeskSpec => Spec
<1>1. DeskInit => Init
  BY DEF DeskInit
<1>2. [DeskNext]_<<vars, served>> => [Next]_vars
  <2>1. Desk => UNCHANGED vars
    BY DEF Desk, Serve, CreateProduct, UpdateProduct, DeleteProduct, CreateBom, ApproveBom,
           CreateRouting, UpdateRouting, CreateWorkCenter, CreateLine, CreateMachine,
           CreateShift, CreateApprovalRule, CreateLog, ConsumeMaterial, CreateDowntime,
           CreateWip, CreateLoss
  <2> QED
    BY <2>1 DEF DeskNext, Next
<1> QED
  BY <1>1, <1>2, PTL DEF DeskSpec, Spec

\* The invariant holds in every state of every behaviour, key figures included.
LEMMA InvHolds == DeskSpec => []Inv
BY InitHolds, InvStep, DeskKeepsProduction, PTL DEF Spec

\* An order that was reserved has its rows on the list of reservations, one for
\* each material, unless calls on that list overlapped or the order was edited
\* meanwhile.
THEOREM ReservationsAreOnFile == DeskSpec => []ReservedIsOnFile
<1>1. Inv => ReservedIsOnFile
  BY DEF Inv, OnFile, ReservedIsOnFile, Wanted, Demand
<1> QED
  BY <1>1, InvHolds, PTL

\* An order that was completed has its row on the list of costs, unless calls
\* on that list overlapped.
THEOREM CompletionsAreCosted == DeskSpec => []CompletedIsCosted
<1>1. Inv => CompletedIsCosted
  BY DEF Inv, Costed, CompletedIsCosted
<1> QED
  BY <1>1, InvHolds, PTL

\* Orders, lists and calls have the types the model gives them.
THEOREM ProductionTypeCorrect == DeskSpec => []Typed
<1>1. Inv => Typed
  BY DEF Inv
<1> QED
  BY <1>1, InvHolds, PTL

-----------------------------------------------------------------------------
(***************************************************************************)
(* Quality: a lot that is shown as held has the row that holds it, one     *)
(* that is shown failed the call that decides on it, and an approved lot   *)
(* and a released row are named by an approval.                            *)
(*                                                                         *)
(* HeldIsOnFile is not inductive: a call between its two writes is about   *)
(* to show a lot as held, so the invariant says that such a call has made  *)
(* the row and that the lot it knows is still on file.  Nobody deletes a   *)
(* row and nobody renames what it holds, which is what StepKeeps rests on. *)
(***************************************************************************)
LotRows == [status : Statuses, supplier : BOOLEAN]

LotsTyped ==
    /\ \E n \in Lots : lots \in [1..n -> LotRows]
    /\ \E n \in Nat : held \in [1..n -> Held]
    /\ call \in [Threads -> Calls \cup {None}]

IsHeld(n, list) == \E id \in DOMAIN held : held[id].list = list /\ held[id].lot = n

\* A call that inspects knows a lot of the list, and has made the row before it
\* shows the lot as held.
Inspects(t) ==
    call[t] # None /\ call[t].at \in {"mark", "hold", "Quarantine", "Rework"} =>
        /\ call[t].of \in DOMAIN lots
        /\ call[t].at = "Quarantine" => IsHeld(call[t].of, "quarantine")
        /\ call[t].at = "Rework" => IsHeld(call[t].of, "rework")

HeldInv == LotsTyped /\ (\A t \in Threads : Inspects(t)) /\ HeldIsOnFile

-----------------------------------------------------------------------------
(* What one step of one thread may do.                                     *)

\* Thread t is between the status "Failed" of a lot and the next one.
Decides(t, n) ==
    \E step \in {"hold", "Quarantine", "Rework"} : At(t, step) /\ call[t].of = n

\* The status a lot is given has what it needs: the row, or the call that decides
\* on the lot or adds the approval next.
Justified(n, t) ==
    \/ n \in DOMAIN lots /\ lots'[n].status = lots[n].status
    \/ lots'[n].status \notin {"Quarantine", "Rework Required", "Failed", "Approved"}
    \/ lots'[n].status = "Quarantine" /\ IsHeld(n, "quarantine")
    \/ lots'[n].status = "Rework Required" /\ IsHeld(n, "rework")
    \/ lots'[n].status = "Failed" /\ Decides(t, n)'
    \/ /\ lots'[n].status = "Approved"
       /\ call'[t] # None /\ call'[t].at = "approval"
       /\ call'[t].of = <<"Inspection Lot", n>>

\* A held row is on file for good, and holds the same lot.
RowsStay ==
    \A id \in DOMAIN held :
        /\ id \in DOMAIN held'
        /\ held'[id].list = held[id].list /\ held'[id].lot = held[id].lot

\* A row that is released now was so before, or thread t adds its approval next.
ReleasedBy(t) ==
    \A id \in DOMAIN held' :
        held'[id].status = "Released" =>
            \/ id \in DOMAIN held /\ held[id].status = "Released"
            \/ /\ call'[t] # None /\ call'[t].at = "approval"
               /\ call'[t].of = <<"Quarantine", id>>

(* A step of one thread keeps lots held and approvals named if it only     *)
(* adds rows, and what it changes is justified.                            *)
LEMMA StepKeeps ==
    ASSUME HeldInv, NEW t \in Threads, LotsTyped',
           \A u \in Threads \ {t} : call'[u] = call[u],
           \A n \in DOMAIN lots : n \in DOMAIN lots',
           \A n \in DOMAIN lots' : Justified(n, t),
           RowsStay, ReleasedBy(t), approvals \subseteq approvals',
           At(t, "approval") => call[t].of \in approvals',
           \A n \in DOMAIN lots : lots'[n].status = "Failed" /\ Decides(t, n) => Decides(t, n)',
           Inspects(t)'
    PROVE  HeldInv'
<1>1. \A n, list : IsHeld(n, list) => IsHeld(n, list)'
  BY DEF IsHeld, RowsStay
<1>2. \A u \in Threads : Inspects(u)'
  <2> SUFFICES ASSUME NEW u \in Threads \ {t} PROVE Inspects(u)'
    OBVIOUS
  <2>1. Inspects(u) /\ call'[u] = call[u]
    BY DEF HeldInv
  <2> QED
    BY <1>1, <2>1 DEF Inspects
<1>3. \A source : Approved(source) => Approved(source)'
  BY DEF Approved, At
<1>d. ASSUME NEW n \in DOMAIN lots, lots'[n].status = "Failed", Deciding(n)
      PROVE  Deciding(n)'
  <2>1. PICK u \in Threads : Decides(u, n)
    BY <1>d DEF Deciding, Decides
  <2>2. CASE u = t
    BY <1>d, <2>1, <2>2 DEF Deciding, Decides
  <2>3. CASE u # t
    BY <2>1, <2>3 DEF Deciding, Decides, At
  <2> QED
    BY <2>2, <2>3
<1>4. HeldIsOnFile'
  <2>1. ASSUME NEW n \in DOMAIN lots'
        PROVE  /\ lots'[n].status = "Quarantine" => IsHeld(n, "quarantine")'
               /\ lots'[n].status = "Rework Required" => IsHeld(n, "rework")'
               /\ lots'[n].status = "Failed" => Deciding(n)'
               /\ lots'[n].status = "Approved" => Approved(<<"Inspection Lot", n>>)'
    <3>1. CASE n \in DOMAIN lots /\ lots'[n].status = lots[n].status
      <4>1. /\ lots[n].status = "Quarantine" => IsHeld(n, "quarantine")
            /\ lots[n].status = "Rework Required" => IsHeld(n, "rework")
            /\ lots[n].status = "Failed" => Deciding(n)
            /\ lots[n].status = "Approved" => Approved(<<"Inspection Lot", n>>)
        BY <3>1 DEF HeldInv, HeldIsOnFile, IsHeld
      <4> QED
        BY <1>1, <1>3, <1>d, <3>1, <4>1
    <3>2. CASE ~(n \in DOMAIN lots /\ lots'[n].status = lots[n].status)
      <4>1. Justified(n, t)
        OBVIOUS
      <4> QED
        BY <1>1, <3>2, <4>1 DEF Justified, Approved, At, Deciding, Decides
    <3> QED
      BY <3>1, <3>2
  <2>2. ASSUME NEW id \in DOMAIN held', held'[id].status = "Released"
        PROVE  Approved(<<"Quarantine", id>>)'
    BY <1>3, <2>2
       DEF HeldInv, HeldIsOnFile, ReleasedBy, Approved, At
  <2> QED
    BY <2>1, <2>2 DEF HeldIsOnFile, IsHeld
<1> QED
  BY <1>2, <1>4 DEF HeldInv

(* A step of a call is not the absence of one.                             *)
LEMMA StepTypes ==
    ASSUME NEW step \in {"mark", "hold", "Quarantine", "Rework", "approval"},
           NEW of \in Subjects, NEW critical \in {TRUE, FALSE, None}
    PROVE  /\ Step(step, of, critical) \in Calls
           /\ Step(step, of, critical) # None
<1>1. Step(step, of, critical) \in Calls
  BY DEF Step, Calls
<1> QED
  BY <1>1, QualityAssumption DEF Step

\* A call knows a lot, a held row, or nothing, and whether a failure was
\* critical.
LEMMA CallTypes ==
    ASSUME LotsTyped, NEW t \in Threads, call[t] # None
    PROVE  /\ call[t] \in Calls /\ call[t].critical \in {TRUE, FALSE, None}
           /\ call[t].of \in Subjects
BY DEF LotsTyped, Calls

\* update_inspection_lot_status: one lot of the list takes the status, the
\* others keep theirs.
LEMMA StatusSet ==
    ASSUME LotsTyped, NEW n \in DOMAIN lots, NEW s \in Statuses, SetStatus(n, s)
    PROVE  /\ \E m \in Lots : lots' \in [1..m -> LotRows]
           /\ DOMAIN lots' = DOMAIN lots
           /\ lots'[n].status = s
           /\ \A i \in DOMAIN lots : i # n => lots'[i] = lots[i]
<1>1. PICK m \in Lots : lots \in [1..m -> LotRows]
  BY DEF LotsTyped
<1>2. lots' = [lots EXCEPT ![n] = [lots[n] EXCEPT !.status = s]]
  BY DEF SetStatus
<1>3. [lots[n] EXCEPT !.status = s] \in LotRows
      /\ [lots[n] EXCEPT !.status = s].status = s
  BY <1>1 DEF LotRows
<1>4. lots' \in [1..m -> LotRows]
  BY <1>1, <1>2, <1>3
<1> QED
  BY <1>1, <1>2, <1>3, <1>4

\* create_quarantine, create_rework: the new row holds its lot, and is not
\* released; the others are as they were.
LEMMA HeldAdded ==
    ASSUME LotsTyped, NEW list \in {"quarantine", "rework"}, NEW lot \in Lots \cup {None},
           NEW s \in {"Active", "Open"}, AddHeld(list, lot, s)
    PROVE  /\ \E m \in Nat : held' \in [1..m -> Held]
           /\ RowsStay
           /\ IsHeld(lot, list)'
           /\ \A id \in DOMAIN held' :
                held'[id].status = "Released" => id \in DOMAIN held /\ held[id].status = "Released"
<1>1. PICK m \in Nat : held \in [1..m -> Held]
  BY DEF LotsTyped
<1>2. DOMAIN held = 1..m /\ Cardinality(DOMAIN held) = m
  BY <1>1, FS_Interval
<1> DEFINE new == [list |-> list, lot |-> lot, status |-> s]
<1>3. held' = [i \in 1..m \cup {m + 1} |-> IF i = m + 1 THEN new ELSE held[i]]
  BY <1>2 DEF AddHeld
<1>4. 1..m \cup {m + 1} = 1..(m + 1) /\ m + 1 \notin 1..m
  BY <1>1
<1>5. new \in Held
  BY DEF Held
<1>6. held' \in [1..(m + 1) -> Held] /\ held'[m + 1] = new
      /\ \A i \in 1..m : held'[i] = held[i]
  BY <1>1, <1>3, <1>4, <1>5
<1>7. RowsStay
  BY <1>2, <1>4, <1>6 DEF RowsStay
<1>8. IsHeld(lot, list)'
  BY <1>4, <1>6 DEF IsHeld
<1>9. ASSUME NEW id \in DOMAIN held', held'[id].status = "Released"
      PROVE  id \in DOMAIN held /\ held[id].status = "Released"
  BY <1>2, <1>4, <1>6, <1>9
<1> QED
  BY <1>6, <1>7, <1>8, <1>9

\* A step moves the call of its own thread only.
LEMMA Called ==
    ASSUME LotsTyped, NEW t \in Threads, NEW c \in Calls \cup {None},
           call' = [call EXCEPT ![t] = c]
    PROVE  /\ call' \in [Threads -> Calls \cup {None}]
           /\ call'[t] = c
           /\ \A u \in Threads \ {t} : call'[u] = call[u]
BY DEF LotsTyped

(* Steps that change no lot, no held row and no approval.                  *)
LEMMA AsideHolds ==
    ASSUME HeldInv, NEW t \in Threads, NEW c \in Calls \cup {None},
           call' = [call EXCEPT ![t] = c], UNCHANGED <<lots, held, approvals>>,
           ~At(t, "approval"), \A n : ~Decides(t, n), Inspects(t)'
    PROVE  HeldInv'
<1>1. LotsTyped'
  BY Called DEF HeldInv, LotsTyped
<1>2. RowsStay /\ ReleasedBy(t) /\ \A n \in DOMAIN lots' : Justified(n, t)
  BY DEF RowsStay, ReleasedBy, Justified
<1> QED
  BY <1>1, <1>2, Called, StepKeeps DEF HeldInv

(* Steps that add a held row, and then show the lot as held, or do not.    *)
LEMMA HoldHolds ==
    ASSUME HeldInv, NEW t \in Threads, NEW c \in Calls \cup {None},
           call' = [call EXCEPT ![t] = c], UNCHANGED <<lots, approvals>>,
           ~At(t, "approval"), \A n : Decides(t, n) => Decides(t, n)', Inspects(t)',
           NEW list \in {"quarantine", "rework"}, NEW lot \in Lots \cup {None},
           NEW s \in {"Active", "Open"}, AddHeld(list, lot, s)
    PROVE  HeldInv'
<1>1. LotsTyped'
  BY Called, HeldAdded DEF HeldInv, LotsTyped
<1>2. RowsStay /\ ReleasedBy(t)
  BY HeldAdded DEF HeldInv, ReleasedBy
<1>3. \A n \in DOMAIN lots' : Justified(n, t)
  BY DEF Justified
<1> QED
  BY <1>1, <1>2, <1>3, Called, StepKeeps DEF HeldInv

(* Steps that set the status of a lot, for a reason.                       *)
LEMMA StatusHolds ==
    ASSUME HeldInv, NEW t \in Threads, NEW c \in Calls \cup {None},
           call' = [call EXCEPT ![t] = c], UNCHANGED <<held, approvals>>,
           ~At(t, "approval"), Inspects(t)',
           NEW n \in DOMAIN lots, NEW s \in Statuses, SetStatus(n, s),
           \A i : Decides(t, i) => i = n /\ s # "Failed",
           \/ s \notin {"Quarantine", "Rework Required", "Failed", "Approved"}
           \/ s = "Quarantine" /\ IsHeld(n, "quarantine")
           \/ s = "Rework Required" /\ IsHeld(n, "rework")
           \/ s = "Failed" /\ c # None /\ c.at = "hold" /\ c.of = n
           \/ s = "Approved" /\ c # None /\ c.at = "approval" /\ c.of = <<"Inspection Lot", n>>
    PROVE  HeldInv'
<1>1. LotsTyped'
  BY Called, StatusSet DEF HeldInv, LotsTyped
<1>2. RowsStay /\ ReleasedBy(t)
  BY DEF RowsStay, ReleasedBy
<1>3. DOMAIN lots' = DOMAIN lots
  BY StatusSet DEF HeldInv
<1>4. ASSUME NEW i \in DOMAIN lots PROVE Justified(i, t)
  <2>1. CASE i = n
    <3>1. lots'[i].status = s /\ call'[t] = c
      BY <2>1, Called, StatusSet DEF HeldInv
    <3> QED
      BY <2>1, <3>1 DEF Justified, Decides, At
  <2>2. CASE i # n
    BY <2>2, StatusSet DEF HeldInv, Justified
  <2> QED
    BY <2>1, <2>2
<1>5. \A i \in DOMAIN lots : lots'[i].status = "Failed" /\ Decides(t, i) => Decides(t, i)'
  BY StatusSet DEF HeldInv
<1> QED
  BY <1>1, <1>2, <1>3, <1>4, <1>5, Called, StepKeeps DEF HeldInv

\* create_inspection_lot, start_inspection and submit_inspection with
\* apply_failure_decision, step by step: the row is made before the lot is
\* shown as held, and another call may mark the lot in between.
LEMMA InspectionHolds ==
    ASSUME HeldInv, NEW t \in Threads,
           \/ CreateInspectionLot(t) \/ StartInspection(t) \/ SubmitInspection(t)
           \/ MarkResult(t) \/ Hold(t) \/ MarkHeld(t)
    PROVE  HeldInv'
<1> USE DEF HeldInv
<1>t. LotsTyped /\ Inspects(t) /\ DOMAIN lots \subseteq Lots
  BY QualityAssumption DEF LotsTyped, Lots
<1>1. CASE CreateInspectionLot(t)
  <2>1. PICK supplier \in BOOLEAN :
          LET n == Cardinality(DOMAIN lots) + 1 IN
          /\ n <= MaxLots
          /\ lots' = [i \in DOMAIN lots \cup {n} |->
                      IF i = n THEN [status |-> "Created", supplier |-> supplier] ELSE lots[i]]
    BY <1>1 DEF CreateInspectionLot
  <2>2. /\ call' = [call EXCEPT ![t] = None] /\ call[t] = None
        /\ UNCHANGED <<held, approvals>>
    BY <1>1 DEF CreateInspectionLot, Begin
  <2>3. PICK m \in Lots : lots \in [1..m -> LotRows]
    BY DEF LotsTyped
  <2>4. DOMAIN lots = 1..m /\ Cardinality(DOMAIN lots) = m /\ m \in Nat
    BY <2>3, FS_Interval, QualityAssumption DEF Lots
  <2> DEFINE new == [status |-> "Created", supplier |-> supplier]
  <2>5. m + 1 \in Lots /\ 1..m \cup {m + 1} = 1..(m + 1) /\ m + 1 \notin 1..m
    BY <2>1, <2>4, QualityAssumption DEF Lots
  <2>6. lots' = [i \in 1..(m + 1) |-> IF i = m + 1 THEN new ELSE lots[i]]
    BY <2>1, <2>4, <2>5
  <2>7. new \in LotRows
    BY DEF LotRows, Statuses
  <2>8. lots' \in [1..(m + 1) -> LotRows] /\ lots'[m + 1] = new
        /\ \A i \in 1..m : lots'[i] = lots[i]
    BY <2>3, <2>4, <2>5, <2>6, <2>7
  <2>9. LotsTyped'
    BY <2>2, <2>5, <2>8, Called DEF LotsTyped
  <2>10. \A n \in DOMAIN lots' : Justified(n, t)
    <3>1. lots'[m + 1].status = "Created" /\ DOMAIN lots' = 1..m \cup {m + 1}
      BY <2>5, <2>8
    <3> QED
      BY <2>4, <2>8, <3>1 DEF Justified
  <2>11. /\ RowsStay /\ ReleasedBy(t) /\ Inspects(t)' /\ ~At(t, "approval")
         /\ \A n : ~Decides(t, n)
    BY <2>2, Called DEF RowsStay, ReleasedBy, Inspects, At, Decides
  <2>12. \A n \in DOMAIN lots : n \in DOMAIN lots'
    BY <2>4, <2>5, <2>8
  <2> QED
    BY <2>2, <2>9, <2>10, <2>11, <2>12, Called, StepKeeps
<1>2. CASE StartInspection(t)
  <2>1. PICK n \in DOMAIN lots : SetStatus(n, "In Inspection")
    BY <1>2 DEF StartInspection
  <2>2. /\ call' = [call EXCEPT ![t] = None] /\ UNCHANGED <<held, approvals>>
        /\ ~At(t, "approval") /\ Inspects(t)' /\ \A i : ~Decides(t, i)
    BY <1>2, Called DEF StartInspection, Begin, At, Inspects, Decides
  <2> QED
    BY <2>1, <2>2, StatusHolds DEF Statuses
<1>3. CASE SubmitInspection(t)
  <2>1. PICK n \in DOMAIN lots, critical \in {None, TRUE, FALSE} :
          call' = [call EXCEPT ![t] = Step("mark", n, critical)]
    BY <1>3 DEF SubmitInspection, Begin
  <2>2. /\ Step("mark", n, critical) \in Calls
        /\ Step("mark", n, critical).at = "mark"
        /\ Step("mark", n, critical).of = n
    <3>1. critical \in {TRUE, FALSE, None}
      OBVIOUS
    <3>2. n \in Subjects
      BY <1>t DEF Subjects
    <3>3. Step("mark", n, critical) \in Calls
      BY <3>1, <3>2, StepTypes
    <3> QED
      BY <3>3 DEF Step
  <2>3. /\ UNCHANGED <<lots, held, approvals>> /\ ~At(t, "approval")
        /\ \A i : ~Decides(t, i)
    BY <1>3 DEF SubmitInspection, Begin, At, Decides
  <2>4. Inspects(t)'
    BY <2>1, <2>2, <2>3, Called DEF Inspects
  <2> QED
    BY <2>1, <2>2, <2>3, <2>4, AsideHolds
<1>4. CASE MarkResult(t)
  <2>1. /\ call[t] # None /\ call[t].at = "mark" /\ call[t].of \in DOMAIN lots
        /\ UNCHANGED <<held, approvals>> /\ ~At(t, "approval") /\ \A n : ~Decides(t, n)
    BY <1>4, <1>t DEF MarkResult, At, Inspects, Decides
  <2>2. CASE call[t].critical = None
    <3>1. SetStatus(call[t].of, "Passed") /\ call' = [call EXCEPT ![t] = None]
      BY <1>4, <2>2 DEF MarkResult, Go
    <3>2. Inspects(t)'
      BY <3>1, Called DEF Inspects
    <3> QED
      BY <2>1, <3>1, <3>2, StatusHolds DEF Statuses
  <2>3. CASE call[t].critical # None
    <3> DEFINE c == [call[t] EXCEPT !.at = "hold"]
    <3>1. SetStatus(call[t].of, "Failed") /\ call' = [call EXCEPT ![t] = c]
      BY <1>4, <2>3 DEF MarkResult, Go
    <3>2. c \in Calls /\ c # None /\ c.at = "hold" /\ c.of = call[t].of
      BY <2>1, CallTypes, QualityAssumption DEF Calls
    <3>3. Inspects(t)'
      BY <2>1, <3>1, <3>2, Called, StatusSet DEF Inspects, Statuses
    <3> QED
      BY <2>1, <3>1, <3>2, <3>3, StatusHolds DEF Statuses
  <2> QED
    BY <2>2, <2>3
<1>5. CASE Hold(t)
  <2> DEFINE d == Decision(call[t])
             c == Step(d, call[t].of, call[t].critical)
  <2>1. /\ call[t] # None /\ call[t].at = "hold" /\ call[t].of \in DOMAIN lots
        /\ UNCHANGED <<lots, approvals>> /\ ~At(t, "approval")
        /\ call' = [call EXCEPT ![t] = c]
    BY <1>5, <1>t DEF Hold, At, Inspects, Go
  <2>2. d \in {"Quarantine", "Rework"}
    BY DEF Decision
  <2>3. c \in Calls /\ c.at = d /\ c.of = call[t].of
    <3>1. /\ call[t].critical \in {TRUE, FALSE, None}
          /\ call[t].of \in Subjects
          /\ d \in {"mark", "hold", "Quarantine", "Rework", "approval"}
      BY <1>t, <2>1, <2>2, CallTypes
    <3> HIDE DEF d
    <3>2. c \in Calls
      BY <3>1, StepTypes
    <3> QED
      BY <3>2 DEF Step
  <2>4. IF d = "Quarantine" THEN AddHeld("quarantine", call[t].of, "Active")
                            ELSE AddHeld("rework", call[t].of, "Open")
    BY <1>5 DEF Hold
  <2> HIDE DEF c, d
  <2>n. PICK n \in DOMAIN lots : n = call[t].of
    BY <2>1
  <2>d. \A i : Decides(t, i) => Decides(t, i)'
    <3>1. call'[t] = c /\ c # None
      BY <1>t, <2>1, <2>3, Called, QualityAssumption
    <3> QED
      BY <2>2, <2>3, <3>1 DEF Decides, At
  <2>5. CASE d = "Quarantine"
    <3>1. IsHeld(n, "quarantine")'
      BY <1>t, <2>n, <2>4, <2>5, HeldAdded
    <3>2. Inspects(t)'
      BY <2>n, <2>1, <2>3, <2>5, <3>1, Called DEF Inspects, IsHeld
    <3> QED
      BY <1>t, <2>1, <2>3, <2>4, <2>5, <2>d, <3>2, HoldHolds
  <2>6. CASE d = "Rework"
    <3>1. IsHeld(n, "rework")'
      BY <1>t, <2>n, <2>4, <2>6, HeldAdded
    <3>2. Inspects(t)'
      BY <2>n, <2>1, <2>3, <2>6, <3>1, Called DEF Inspects, IsHeld
    <3> QED
      BY <1>t, <2>1, <2>3, <2>4, <2>6, <2>d, <3>2, HoldHolds
  <2> QED
    BY <2>2, <2>5, <2>6
<1>6. CASE MarkHeld(t)
  <2>1. PICK decision \in {"Quarantine", "Rework"} :
          /\ At(t, decision)
          /\ SetStatus(call[t].of, IF decision = "Quarantine" THEN "Quarantine" ELSE "Rework Required")
          /\ call' = [call EXCEPT ![t] = None]
          /\ UNCHANGED <<held, approvals>>
    BY <1>6 DEF MarkHeld, Go
  <2>2. /\ call[t].of \in DOMAIN lots /\ ~At(t, "approval")
        /\ decision = "Quarantine" => IsHeld(call[t].of, "quarantine")
        /\ decision = "Rework" => IsHeld(call[t].of, "rework")
    BY <1>t, <2>1 DEF Inspects, At
  <2>d. \A i : Decides(t, i) => i = call[t].of
    BY DEF Decides
  <2>3. Inspects(t)'
    BY <2>1, Called DEF Inspects
  <2>4. CASE decision = "Quarantine"
    BY <2>1, <2>2, <2>3, <2>4, <2>d, StatusHolds DEF Statuses
  <2>5. CASE decision = "Rework"
    BY <2>1, <2>2, <2>3, <2>5, <2>d, StatusHolds DEF Statuses
  <2> QED
    BY <2>4, <2>5
<1> QED
  BY <1>1, <1>2, <1>3, <1>4, <1>5, <1>6

\* approve_lot, reject_lot and release_quarantine: the status is written, and
\* the approval row after it.
LEMMA ReleaseHolds ==
    ASSUME HeldInv, NEW t \in Threads,
           \/ ApproveLot(t) \/ AddApproval(t) \/ RejectLot(t) \/ ReleaseQuarantine(t)
    PROVE  HeldInv'
<1> USE DEF HeldInv
<1>t. LotsTyped /\ Inspects(t)
  OBVIOUS
<1>1. CASE ApproveLot(t)
  <2>1. PICK n \in DOMAIN lots :
          /\ call' = [call EXCEPT ![t] = Step("approval", <<"Inspection Lot", n>>, None)]
          /\ SetStatus(n, "Approved")
    BY <1>1 DEF ApproveLot, Begin
  <2> DEFINE c == Step("approval", <<"Inspection Lot", n>>, None)
  <2>2. UNCHANGED <<held, approvals>> /\ ~At(t, "approval") /\ \A i : ~Decides(t, i)
    BY <1>1 DEF ApproveLot, Begin, At, Decides
  <2>3. <<"Inspection Lot", n>> \in Subjects
    <3>1. n \in Nat
      BY <1>t DEF LotsTyped
    <3> QED
      BY <3>1 DEF Subjects
  <2>4. c \in Calls /\ c # None
    BY <2>3, StepTypes
  <2>5. /\ c.at = "approval" /\ c.of = <<"Inspection Lot", n>>
        /\ call' = [call EXCEPT ![t] = c]
    BY <2>1 DEF Step
  <2> HIDE DEF c
  <2>6. Inspects(t)'
    BY <1>t, <2>1, <2>4, <2>5, Called DEF Inspects
  <2> QED
    <3>1. "Approved" \in Statuses
      BY DEF Statuses
    <3> QED
      BY <2>1, <2>2, <2>4, <2>5, <2>6, <3>1, StatusHolds
<1>2. CASE AddApproval(t)
  <2>1. /\ call' = [call EXCEPT ![t] = None] /\ UNCHANGED <<lots, held>>
        /\ approvals' = approvals \cup {call[t].of}
    BY <1>2 DEF AddApproval, Go
  <2>2. LotsTyped' /\ Inspects(t)'
    BY <2>1, Called DEF LotsTyped, Inspects
  <2>3. /\ RowsStay /\ ReleasedBy(t) /\ \A n \in DOMAIN lots' : Justified(n, t)
        /\ \A n : ~Decides(t, n)
    BY <1>2, <2>1 DEF RowsStay, ReleasedBy, Justified, Decides, AddApproval, At
  <2> QED
    BY <2>1, <2>2, <2>3, Called, StepKeeps
<1>3. CASE RejectLot(t)
  <2>1. PICK n \in DOMAIN lots : SetStatus(n, "Rejected")
    BY <1>3 DEF RejectLot
  <2>2. /\ call' = [call EXCEPT ![t] = None] /\ UNCHANGED <<held, approvals>>
        /\ ~At(t, "approval") /\ \A i : ~Decides(t, i)
    BY <1>3 DEF RejectLot, Begin, At, Decides
  <2>3. Inspects(t)'
    BY <2>2, Called DEF Inspects
  <2> QED
    BY <2>1, <2>2, <2>3, StatusHolds DEF Statuses
<1>4. CASE ReleaseQuarantine(t)
  <2>1. PICK id \in DOMAIN held :
          /\ call' = [call EXCEPT ![t] = Step("approval", <<"Quarantine", id>>, None)]
          /\ held' = [held EXCEPT ![id] = [held[id] EXCEPT !.status = "Released"]]
    BY <1>4 DEF ReleaseQuarantine, Begin
  <2> DEFINE c == Step("approval", <<"Quarantine", id>>, None)
  <2>2. UNCHANGED <<lots, approvals>> /\ ~At(t, "approval") /\ \A n : ~Decides(t, n)
    BY <1>4 DEF ReleaseQuarantine, Begin, At, Decides
  <2>3. PICK m \in Nat : held \in [1..m -> Held]
    BY DEF LotsTyped
  <2>4. <<"Quarantine", id>> \in Subjects
    <3>1. id \in Nat
      BY <2>3
    <3> QED
      BY <3>1 DEF Subjects
  <2>5. c \in Calls /\ c # None
    BY <2>4, StepTypes
  <2>6. /\ c.at = "approval" /\ c.of = <<"Quarantine", id>>
        /\ call' = [call EXCEPT ![t] = c]
    BY <2>1 DEF Step
  <2> HIDE DEF c
  <2>7. Inspects(t)' /\ call'[t] = c
    BY <1>t, <2>1, <2>5, <2>6, Called DEF Inspects
  <2>8. /\ held' \in [1..m -> Held]
        /\ held'[id].list = held[id].list /\ held'[id].lot = held[id].lot
        /\ \A i \in DOMAIN held : i # id => held'[i] = held[i]
    BY <2>1, <2>3 DEF Held
  <2>9. RowsStay /\ ReleasedBy(t)
    BY <2>3, <2>5, <2>6, <2>7, <2>8 DEF RowsStay, ReleasedBy
  <2>10. LotsTyped'
    <3>1. call' \in [Threads -> Calls \cup {None}]
      BY <1>t, <2>5, <2>6, Called
    <3> QED
      BY <1>t, <2>2, <2>8, <3>1 DEF LotsTyped
  <2>11. \A n \in DOMAIN lots' : Justified(n, t)
    BY <2>2 DEF Justified
  <2> QED
    BY <2>1, <2>2, <2>5, <2>7, <2>9, <2>10, <2>11, Called, StepKeeps
<1> QED
  BY <1>1, <1>2, <1>3, <1>4

\* Rows made by hand and the lists nobody looks up again hold no lot back.
LEMMA OtherHolds ==
    ASSUME HeldInv, NEW t \in Threads,
           \/ CreateQuarantine(t) \/ CreateRework(t) \/ CreateQualityPlan(t) \/ CreateChecklist(t)
           \/ CreateSamplingRule(t) \/ CreateRejection(t) \/ CreateScrap(t) \/ DraftRecommendation(t)
           \/ UpdateQualityPlan(t) \/ UpdateCapa(t)
           \/ CreateDefect(t) \/ CreateCapa(t)
    PROVE  HeldInv'
<1>t. LotsTyped
  BY DEF HeldInv
<1>1. CASE CreateQuarantine(t) \/ CreateRework(t)
  <2>1. /\ call' = [call EXCEPT ![t] = None] /\ UNCHANGED <<lots, approvals>>
        /\ ~At(t, "approval") /\ \A n : ~Decides(t, n)
        /\ \/ AddHeld("quarantine", None, "Active")
           \/ AddHeld("rework", None, "Open")
    BY <1>1 DEF CreateQuarantine, CreateRework, Begin, At, Decides
  <2>2. Inspects(t)'
    BY <1>t, <2>1, Called DEF Inspects
  <2> QED
    BY <2>1, <2>2, HoldHolds
<1>2. CASE ~(CreateQuarantine(t) \/ CreateRework(t))
  <2>1. /\ call' = [call EXCEPT ![t] = None] /\ UNCHANGED <<lots, held, approvals>>
        /\ ~At(t, "approval") /\ \A n : ~Decides(t, n)
    BY <1>2
       DEF CreateQualityPlan, CreateChecklist, CreateSamplingRule,
           CreateRejection, CreateScrap, DraftRecommendation,
           CreateRow, UpdateQualityPlan, UpdateCapa,
           Overwrite, CreateDefect, CreateCapa, Begin, At, Decides
  <2>2. Inspects(t)'
    BY <1>t, <2>1, Called DEF Inspects
  <2> QED
    BY <2>1, <2>2, AsideHolds
<1> QED
  BY <1>1, <1>2

(* The seeded lists show no lot as held, and no thread runs a call.        *)
LEMMA LotsSeeded ==
    /\ \E n \in Lots : SeededLots \in [1..n -> LotRows]
    /\ \E n \in Nat : << >> \in [1..n -> Held]
    /\ DOMAIN << >> = {}
    /\ \A n \in DOMAIN SeededLots : SeededLots[n].status = "Pending Inspection"
<1>1. 1 \in Lots
  BY QualityAssumption DEF Lots
<1>2. {1} = 1..1 /\ {} = 1..0
  OBVIOUS
<1>3. [status |-> "Pending Inspection", supplier |-> TRUE] \in LotRows
  BY DEF LotRows, Statuses
<1>4. SeededLots \in [1..1 -> LotRows]
  BY <1>2, <1>3 DEF SeededLots
<1>5. << >> \in [1..0 -> Held] /\ DOMAIN << >> = {}
  BY <1>2
<1>6. \A n \in DOMAIN SeededLots : SeededLots[n].status = "Pending Inspection"
  BY DEF SeededLots
<1> QED
  BY <1>1, <1>4, <1>5, <1>6

\* The server starts with its seeded lists.
LEMMA LotsInit ==
    QualityInit => HeldInv
<1> SUFFICES ASSUME QualityInit PROVE HeldInv
  OBVIOUS
<1> USE LotsSeeded DEF QualityInit
<1>1. LotsTyped /\ \A t \in Threads : Inspects(t)
  BY DEF LotsTyped, Inspects
<1>2. HeldIsOnFile
  BY DEF HeldIsOnFile
<1> QED
  BY <1>1, <1>2 DEF HeldInv

\* A restart forgets every row together with every status that needs one.
LEMMA LotsRestart ==
    QualityRestart => HeldInv'
<1> SUFFICES ASSUME QualityRestart PROVE HeldInv'
  OBVIOUS
<1> USE LotsSeeded DEF QualityRestart
<1>1. LotsTyped' /\ \A t \in Threads : Inspects(t)'
  BY DEF LotsTyped, Inspects
<1>2. HeldIsOnFile'
  BY DEF HeldIsOnFile
<1> QED
  BY <1>1, <1>2 DEF HeldInv

\* The invariant is inductive.
LEMMA HeldStep ==
    HeldInv /\ [QualityNext]_qualityVars => HeldInv'
<1> SUFFICES ASSUME HeldInv, [QualityNext]_qualityVars PROVE HeldInv'
  OBVIOUS
<1>1. CASE QualityNext /\ ~QualityRestart
  BY <1>1, InspectionHolds, ReleaseHolds, OtherHolds DEF QualityNext
<1>2. CASE QualityRestart
  BY <1>2, LotsRestart
<1>3. CASE UNCHANGED qualityVars
  <2>1. LotsTyped' /\ \A t \in Threads : Inspects(t)'
    BY <1>3 DEF qualityVars, HeldInv, LotsTyped, Inspects, IsHeld
  <2>2. HeldIsOnFile'
    <3>1. /\ \A source : Approved(source)' = Approved(source)
          /\ \A n : Deciding(n)' = Deciding(n)
      BY <1>3 DEF qualityVars, Approved, Deciding, At
    <3> QED
      BY <1>3, <3>1 DEF qualityVars, HeldInv, HeldIsOnFile
  <2> QED
    BY <2>1, <2>2 DEF HeldInv
<1> QED
  BY <1>1, <1>2, <1>3 DEF QualityNext

\* A lot shown in quarantine or rework has its row, one shown failed the call that
\* decides on it, and an approved lot or a released row its approval, or the call
\* about to add it: whatever overlaps
\* with inspect, approve_lot and release_quarantine, in quality_service.py,
\* which lock nothing.
THEOREM HeldLotsAreOnFile ==
    QualitySpec => []HeldIsOnFile
<1>1. QualityInit => HeldInv
  BY LotsInit
<1>2. HeldInv => HeldIsOnFile
  BY DEF HeldInv
<1> QED
  BY <1>1, <1>2, HeldStep, PTL DEF QualitySpec

-----------------------------------------------------------------------------
(***************************************************************************)
(* Maintenance: what the usage rows of a spare leave of its stock is what  *)
(* the stock says, an order at rest has a cost row that covers all its     *)
(* spares, and the capabilities of a machine are those last asked for.     *)
(*                                                                         *)
(* CostCoversSpares is silent while a call is busy.  Covered says what     *)
(* makes up for a missing cost row meanwhile: a thread that has not yet    *)
(* added up the usage rows of the order, or one that has, and found them   *)
(* all.                                                                    *)
(***************************************************************************)
(* A thread that will add up the rows of o, or has added up all of them.   *)
WillCover(t, o) ==
    /\ workOf[t] = o
    /\ \/ workPc[t] \in {"spares", "stock", "usage"}
       \/ workPc[t] = "cost" /\ current[t] = lines[o]

Covered(o) ==
    \/ lines[o] = 0
    \/ lines[o] \in costs[o]
    \/ \E t \in Threads : WillCover(t, o)

CostInv == TypeOK /\ \A o \in WorkOrders \ uncosted : Covered(o)

(* What is left of a stock is a natural.                                   *)
LEMMA LeftType == ASSUME NEW a \in Nat, NEW q \in Nat PROVE Left(a, q) \in Nat
BY DEF Left

(* An idle thread's locals hold an order and a spare.                      *)
LEMMA NamesChosen ==
    /\ AnyWork \in WorkOrders /\ AnySpare \in Spares
           /\ Nothing \in [Spares -> Portions] /\ Nothing \in [Spares -> Nat]
<1>1. AnyWork \in WorkOrders
  BY MaintenanceAssumption DEF AnyWork
<1>2. AnySpare \in Spares
  BY MaintenanceAssumption DEF AnySpare
<1>3. Portions \subseteq Nat /\ 0 \in Portions
  BY MaintenanceAssumption
<1> QED
  BY <1>1, <1>2, <1>3 DEF Nothing

(* Every quantity a thread has to consume is a natural.                    *)
LEMMA NeedType ==
    ASSUME TypeOK, NEW t \in Threads, NEW p \in Spares
    PROVE  need[t][p] \in Nat /\ 0 \in Portions
<1>1. Portions \subseteq Nat /\ 0 \in Portions
  BY MaintenanceAssumption
<1> QED
  BY <1>1 DEF TypeOK

(* The seed data is well typed, and no order in it has used a spare.       *)
LEMMA WorkInit ==
    WorkOrdersInit => CostInv
<1> SUFFICES ASSUME WorkOrdersInit PROVE CostInv
  OBVIOUS
<1> USE DEF WorkOrdersInit
<1>1. machine \in [Machines -> {"absent"} \cup MachineStatuses \cup ServiceStates]
  BY MaintenanceAssumption
<1>2. workStatus \in [WorkOrders -> {"absent"} \cup WorkStatuses \cup WorkServerStatuses]
  BY DEF SeedWorkStatus, WorkServerStatuses
<1>3. review \in [WorkOrders -> BOOLEAN] /\ assigned \in [WorkOrders -> BOOLEAN]
  BY DEF IsSeed
<1>4. subject \in [WorkOrders -> Machines] /\ stock \in [Spares -> Nat]
  BY MaintenanceAssumption
<1>5. TypeOK
  BY <1>1, <1>2, <1>3, <1>4, NamesChosen DEF TypeOK, ServiceStates
<1>6. \A o \in WorkOrders : Covered(o)
  BY DEF Covered
<1> QED
  BY <1>5, <1>6 DEF CostInv

(* So is the repository after a restart.                                   *)
LEMMA WorkRestart ==
    WorkOrdersRestart => CostInv'
<1> SUFFICES ASSUME WorkOrdersRestart PROVE CostInv'
  OBVIOUS
<1> USE DEF WorkOrdersRestart
<1>1. machine' \in [Machines -> {"absent"} \cup MachineStatuses \cup ServiceStates]
  BY MaintenanceAssumption
<1>2. workStatus' \in [WorkOrders -> {"absent"} \cup WorkStatuses \cup WorkServerStatuses]
  BY DEF SeedWorkStatus, WorkServerStatuses
<1>3. review' \in [WorkOrders -> BOOLEAN] /\ assigned' \in [WorkOrders -> BOOLEAN]
  BY DEF IsSeed
<1>4. subject' \in [WorkOrders -> Machines] /\ stock' \in [Spares -> Nat]
  BY MaintenanceAssumption
<1>5. TypeOK'
  BY <1>1, <1>2, <1>3, <1>4, NamesChosen DEF TypeOK, ServiceStates
<1>6. \A o \in WorkOrders : Covered(o)'
  BY DEF Covered
<1> QED
  BY <1>5, <1>6 DEF CostInv

(* Returning keeps the locals of a thread well typed.                      *)
LEMMA ReturnType ==
    ASSUME TypeOK, NEW t \in Threads, ReturnWork(t)
    PROVE  /\ workPc' \in [Threads -> {"idle", "machine", "spares", "stock", "usage", "cost"}]
           /\ workOf' \in [Threads -> WorkOrders]
           /\ after' \in [Threads -> ServiceStates]
           /\ need' \in [Threads -> [Spares -> Portions]]
           /\ part' \in [Threads -> Spares]
           /\ current' \in [Threads -> Nat]
BY NamesChosen DEF TypeOK, ReturnWork, ServiceStates

(* A new status and a new machine leave an order well typed.               *)
LEMMA SetOrderType ==
    ASSUME TypeOK, NEW o \in WorkOrders,
           NEW s \in WorkStatuses \cup WorkServerStatuses,
           NEW a \in BOOLEAN, NEW m \in Machines, NEW has \in BOOLEAN,
           SetOrder(o, s, a, m, has)
    PROVE  TypeOK'
BY DEF TypeOK, SetOrder, spareVars, workLocals

(* Every call that is one step keeps the rows well typed.                  *)
LEMMA CallType ==
    ASSUME TypeOK PROVE
    /\ \A m \in Machines : MachineCall(m) => TypeOK'
    /\ \A o \in WorkOrders : OrderCall(o) => TypeOK'
<1>1. ASSUME NEW m \in Machines, MachineCall(m) PROVE TypeOK'
  <2>1. PICK s \in {"absent"} \cup MachineStatuses : SetMachine(m, s)
    BY <1>1 DEF MachineCall, AddMachine, UpdateMachine,
       DeleteMachine
  <2>2. machine' \in [Machines -> {"absent"} \cup MachineStatuses \cup ServiceStates]
    BY <2>1 DEF SetMachine, TypeOK
  <2> QED
    BY <2>1, <2>2 DEF SetMachine, TypeOK, orderVars, spareVars,
       workLocals
<1>2. ASSUME NEW o \in WorkOrders, OrderCall(o) PROVE TypeOK'
  <2> USE DEF WorkServerStatuses, WorkCompletions
  <2>1. CASE CloseWorkOrder(o)
    <3>1. review[o] \in BOOLEAN /\ subject[o] \in Machines /\ assigned[o] \in BOOLEAN
      BY DEF TypeOK
    <3> QED
      BY <2>1, <3>1, SetOrderType DEF CloseWorkOrder
  <2>2. ASSUME NEW has \in BOOLEAN, AssignWorkOrder(o, has) PROVE TypeOK'
    <3>1. review[o] \in BOOLEAN /\ subject[o] \in Machines
      BY DEF TypeOK
    <3> QED
      BY <2>2, <3>1, SetOrderType DEF AssignWorkOrder
  <2>3. ASSUME NEW has \in BOOLEAN, NEW m \in Machines, CreateWorkOrder(o, m, has)
        PROVE  TypeOK'
    BY <2>3, SetOrderType DEF CreateWorkOrder
  <2>4. ASSUME NEW has \in BOOLEAN, NEW m \in Machines, UpdateWorkOrder(o, m, has)
        PROVE  TypeOK'
    BY <2>4, SetOrderType DEF UpdateWorkOrder
  <2> QED
    BY <1>2, <2>1, <2>2, <2>3, <2>4 DEF OrderCall
<1> QED
  BY <1>1, <1>2

(* So does every step of a thread.                                         *)
LEMMA ThreadType ==
    ASSUME TypeOK, NEW t \in Threads
    PROVE  WorkStep(t) => TypeOK'
<1>1. CASE MachineGone(t)
  BY <1>1, ReturnType DEF MachineGone, TypeOK, orderVars,
     spareVars
<1>2. CASE WriteMachine(t)
  <2>1. machine' \in [Machines -> {"absent"} \cup MachineStatuses \cup ServiceStates]
    BY <1>2 DEF WriteMachine, TypeOK
  <2>2. CASE after[t] = "Under Maintenance"
    BY <1>2, <2>1, <2>2, ReturnType DEF WriteMachine, TypeOK,
       orderVars, spareVars
  <2>3. CASE after[t] # "Under Maintenance"
    BY <1>2, <2>1, <2>3 DEF WriteMachine, TypeOK, orderVars,
       spareVars, ServiceStates
  <2> QED
    BY <2>2, <2>3
<1>3. ASSUME NEW p \in Spares, ReadStock(t, p) PROVE TypeOK'
  BY <1>3 DEF ReadStock, TypeOK, orderVars, spareVars
<1>4. CASE WriteStock(t)
  <2>1. part[t] \in Spares /\ current[t] \in Nat
    BY DEF TypeOK
  <2>2. need[t][part[t]] \in Nat
    BY <2>1, NeedType
  <2>3. Left(current[t], need[t][part[t]]) \in Nat
    BY <2>1, <2>2, LeftType
  <2> QED
    BY <1>4, <2>3 DEF WriteStock, TypeOK, orderVars
<1>5. CASE AddUsage(t)
  <2>1. part[t] \in Spares /\ workOf[t] \in WorkOrders /\ 0 \in Portions
    BY NeedType DEF TypeOK
  <2>2. need[t][part[t]] \in Nat
    BY <2>1, NeedType
  <2>3. used' \in [Spares -> Nat] /\ lines' \in [WorkOrders -> Nat]
    BY <1>5, <2>1, <2>2 DEF AddUsage, TypeOK
  <2>4. need' \in [Threads -> [Spares -> Portions]]
    BY <1>5, <2>1 DEF AddUsage, TypeOK
  <2> QED
    BY <1>5, <2>3, <2>4, NamesChosen DEF AddUsage, TypeOK, orderVars
<1>6. CASE SumSpares(t)
  BY <1>6 DEF SumSpares, SpareCost, TypeOK, orderVars,
     spareVars
<1>7. CASE GiveUp(t)
  BY <1>7, ReturnType DEF GiveUp, TypeOK, orderVars, spareVars
<1>8. CASE AddCost(t)
  BY <1>8, ReturnType DEF AddCost, TypeOK, orderVars
<1> QED
  BY <1>1, <1>2, <1>3, <1>4, <1>5, <1>6, <1>7, <1>8
     DEF WorkStep, Consume, MalformedSpare, CannotSum, NoAssignee

(* So does starting or completing an order.                                *)
LEMMA EnterType ==
    ASSUME TypeOK, NEW t \in Threads, NEW o \in WorkOrders
    PROVE  StartWorkOrder(t, o) \/ CompleteWorkOrder(t, o) => TypeOK'
<1>1. CASE StartWorkOrder(t, o)
  BY <1>1 DEF StartWorkOrder, EnterWork, TypeOK, spareVars,
     WorkServerStatuses, ServiceStates
<1>2. CASE CompleteWorkOrder(t, o)
  <2>1. CompletedStatus(o) \in WorkServerStatuses
    BY DEF CompletedStatus, WorkServerStatuses, WorkCompletions
  <2>2. need' \in [Threads -> [Spares -> Portions]]
    BY <1>2 DEF CompleteWorkOrder, TypeOK
  <2>3. PICK v \in {"Active",
  "Pending Validation"} : EnterWork(t, o, CompletedStatus(o), v)
    BY <1>2 DEF CompleteWorkOrder
  <2> QED
    BY <2>1, <2>2, <2>3 DEF EnterWork, TypeOK, spareVars,
       ServiceStates
<1> QED
  BY <1>1, <1>2

(* TypeOK is inductive.                                                    *)
LEMMA TypeStep ==
    TypeOK /\ [WorkOrdersNext]_workVars => TypeOK'
<1> SUFFICES ASSUME TypeOK, [WorkOrdersNext]_workVars PROVE TypeOK'
  OBVIOUS
<1>1. CASE WorkOrdersRestart
  BY <1>1, WorkRestart DEF CostInv
<1>2. CASE UNCHANGED workVars
  BY <1>2 DEF TypeOK, workVars, orderVars, spareVars, workLocals
<1> QED
  BY <1>1, <1>2, CallType, ThreadType, EnterType DEF WorkOrdersNext, WorkCall

(* Every value the maintenance handlers store, in the rows and in their    *)
(* locals, is of its type: no stock falls below zero.                      *)
THEOREM MaintenanceTypeCorrect ==
    WorkOrdersSpec => []TypeOK
<1>1. WorkOrdersInit => TypeOK
  BY WorkInit DEF CostInv
<1> QED
  BY <1>1, TypeStep, PTL DEF WorkOrdersSpec

-----------------------------------------------------------------------------
(* A step that leaves usage rows, cost rows and every covering thread      *)
(* alone leaves the orders covered.                                        *)
LEMMA StaysCovered ==
    ASSUME CostInv, UNCHANGED <<lines, costs>>, uncosted \subseteq uncosted',
           \A u \in Threads, o \in WorkOrders \ uncosted' :
               WillCover(u, o) => WillCover(u, o)'
    PROVE  \A o \in WorkOrders \ uncosted' : Covered(o)'
BY DEF CostInv, Covered

(* No step of a thread takes the cover of an order away: while the rows    *)
(* are added to the order the thread has its sum still to come, and a sum  *)
(* of all of them ends in a cost row, unless the call gives up.            *)
LEMMA ThreadCovers ==
    ASSUME CostInv, NEW t \in Threads, WorkStep(t)
    PROVE  \A o \in WorkOrders \ uncosted' : Covered(o)'
<1> USE DEF CostInv, TypeOK
<1>1. CASE MachineGone(t)
  <2>1. \A u \in Threads, o \in WorkOrders : WillCover(u, o) => WillCover(u, o)'
    BY <1>1 DEF MachineGone, ReturnWork, WillCover, spareVars
  <2> QED
    BY <1>1, <2>1, StaysCovered DEF MachineGone, spareVars
<1>2. CASE WriteMachine(t)
  <2>1. \A u \in Threads, o \in WorkOrders : WillCover(u, o) => WillCover(u, o)'
    BY <1>2 DEF WriteMachine, ReturnWork, WillCover, spareVars
  <2> QED
    BY <1>2, <2>1, StaysCovered DEF WriteMachine, spareVars
<1>3. ASSUME NEW p \in Spares, ReadStock(t, p)
      PROVE  \A o \in WorkOrders \ uncosted' : Covered(o)'
  <2>1. \A u \in Threads, o \in WorkOrders : WillCover(u, o) => WillCover(u, o)'
    BY <1>3 DEF ReadStock, WillCover, spareVars
  <2> QED
    BY <1>3, <2>1, StaysCovered DEF ReadStock, spareVars
<1>4. CASE WriteStock(t)
  <2>1. \A u \in Threads, o \in WorkOrders : WillCover(u, o) => WillCover(u, o)'
    BY <1>4 DEF WriteStock, WillCover
  <2> QED
    BY <1>4, <2>1, StaysCovered DEF WriteStock
<1>5. CASE AddUsage(t)
  <2> TAKE o \in WorkOrders \ uncosted'
  <2>1. uncosted' = uncosted /\ costs' = costs
    BY <1>5 DEF AddUsage
  <2>2. CASE o = workOf[t]
    <3>1. WillCover(t, o)'
      BY <1>5, <2>2 DEF AddUsage, WillCover
    <3> QED
      BY <3>1 DEF Covered
  <2>3. CASE o # workOf[t]
    <3>1. lines'[o] = lines[o]
      BY <1>5, <2>3 DEF AddUsage
    <3>2. \A u \in Threads : WillCover(u, o) => WillCover(u, o)'
      BY <1>5, <2>3, <3>1 DEF AddUsage, WillCover
    <3> QED
      BY <2>1, <3>1, <3>2 DEF Covered
  <2> QED
    BY <2>2, <2>3
<1>6. CASE SumSpares(t)
  <2> TAKE o \in WorkOrders \ uncosted'
  <2>1. lines' = lines /\ costs' = costs
    BY <1>6 DEF SumSpares, spareVars
  <2>2. CASE o = workOf[t]
    <3>1. WillCover(t, o)'
      BY <1>6, <2>1, <2>2 DEF SumSpares, SpareCost, WillCover
    <3> QED
      BY <3>1 DEF Covered
  <2>3. CASE o # workOf[t]
    <3>1. o \notin uncosted
      BY <1>6, <2>3 DEF SumSpares
    <3>2. \A u \in Threads : WillCover(u, o) => WillCover(u, o)'
      BY <1>6, <2>1, <2>3 DEF SumSpares, WillCover
    <3> QED
      BY <2>1, <3>1, <3>2 DEF Covered
  <2> QED
    BY <2>2, <2>3
<1>7. CASE GiveUp(t)
  <2>1. \A u \in Threads, o \in WorkOrders \ uncosted' :
            WillCover(u, o) => WillCover(u, o)'
    BY <1>7 DEF GiveUp, ReturnWork, WillCover, spareVars
  <2> QED
    BY <1>7, <2>1, StaysCovered DEF GiveUp, spareVars
<1>8. CASE AddCost(t)
  <2> TAKE o \in WorkOrders \ uncosted'
  <2>1. uncosted' = uncosted /\ lines' = lines
    BY <1>8 DEF AddCost
  <2>2. costs[o] \subseteq costs'[o]
    BY <1>8 DEF AddCost
  <2>3. CASE WillCover(t, o)
    <3>1. lines[o] \in costs'[o]
      BY <1>8, <2>3 DEF AddCost, WillCover
    <3> QED
      BY <2>1, <3>1 DEF Covered
  <2>4. CASE ~WillCover(t, o)
    <3>1. \A u \in Threads : WillCover(u, o) => WillCover(u, o)'
      BY <1>8, <2>4 DEF AddCost, ReturnWork, WillCover
    <3> QED
      BY <2>1, <2>2, <3>1 DEF Covered
  <2> QED
    BY <2>3, <2>4
<1> QED
  BY <1>1, <1>2, <1>3, <1>4, <1>5, <1>6, <1>7, <1>8
     DEF WorkStep, Consume, MalformedSpare, CannotSum, NoAssignee

(* CostInv is inductive.                                                   *)
LEMMA CostStep ==
    CostInv /\ [WorkOrdersNext]_workVars => CostInv'
<1> SUFFICES ASSUME CostInv, [WorkOrdersNext]_workVars PROVE CostInv'
  OBVIOUS
<1>0. TypeOK'
  BY TypeStep DEF CostInv
<1>1. ASSUME NEW m \in Machines, MachineCall(m)
      PROVE  \A o \in WorkOrders \ uncosted' : Covered(o)'
  BY <1>1, StaysCovered DEF MachineCall, AddMachine,
     UpdateMachine, DeleteMachine, SetMachine, WillCover,
     spareVars, workLocals
<1>2. ASSUME NEW o \in WorkOrders, OrderCall(o)
      PROVE  \A x \in WorkOrders \ uncosted' : Covered(x)'
  <2>1. UNCHANGED <<spareVars, workLocals, uncosted>>
    BY <1>2 DEF OrderCall, CloseWorkOrder, AssignWorkOrder,
       CreateWorkOrder, UpdateWorkOrder, SetOrder
  <2> QED
    BY <2>1, StaysCovered DEF WillCover, spareVars, workLocals
<1>3. ASSUME NEW t \in Threads, NEW o \in WorkOrders,
             StartWorkOrder(t, o) \/ CompleteWorkOrder(t, o)
      PROVE  \A x \in WorkOrders \ uncosted' : Covered(x)'
  <2>1. PICK s, v : EnterWork(t, o, s, v)
    BY <1>3 DEF StartWorkOrder, CompleteWorkOrder
  <2>2. \A u \in Threads, x \in WorkOrders : WillCover(u, x) => WillCover(u, x)'
    BY <2>1 DEF EnterWork, WillCover, spareVars, CostInv, TypeOK
  <2> QED
    BY <2>1, <2>2, StaysCovered DEF EnterWork, spareVars
<1>4. CASE WorkOrdersRestart
  BY <1>4, WorkRestart DEF CostInv
<1>5. CASE UNCHANGED workVars
  <2>1. UNCHANGED <<lines, costs, uncosted, workPc, workOf, current>>
    BY <1>5 DEF workVars, spareVars, workLocals
  <2>2. \A u \in Threads, o \in WorkOrders : WillCover(u, o) => WillCover(u, o)'
    BY <2>1 DEF WillCover
  <2> QED
    BY <1>0, <2>1, <2>2, StaysCovered DEF CostInv
<1>6. \A o \in WorkOrders \ uncosted' : Covered(o)'
  BY <1>1, <1>2, <1>3, <1>4, <1>5, ThreadCovers DEF WorkOrdersNext, WorkCall, CostInv
<1> QED
  BY <1>0, <1>6 DEF CostInv

(* complete_work_order calculates the cost after its spares are consumed:  *)
(* even if completions overlap, an order at rest has a cost row for all of *)
(* them, those of failed completions too, once one has added them up.      *)
THEOREM CostsCoverSpares ==
    WorkOrdersSpec => []CostCoversSpares
<1>1. CostInv => CostCoversSpares
  <2> SUFFICES ASSUME CostInv, NEW o \in WorkOrders \ uncosted, ~Busy(o),
  lines[o] > 0
               PROVE  lines[o] \in costs[o]
    BY DEF CostCoversSpares
  <2>1. ~\E t \in Threads : WillCover(t, o)
    BY DEF Busy, WillCover
  <2>2. Covered(o) /\ lines[o] # 0
    BY DEF CostInv, TypeOK
  <2> QED
    BY <2>1, <2>2 DEF Covered
<1> QED
  BY <1>1, WorkInit, CostStep, PTL DEF WorkOrdersSpec

-----------------------------------------------------------------------------
(* The spares.  Between the write of a stock and its usage row a thread    *)
(* owes the books what it took, and any number of threads may owe of one   *)
(* spare at a time.  The invariant therefore needs the sum of what they    *)
(* owe, of which it says that there is one: a function g that gives each   *)
(* set of threads its sum.                                                 *)
Owed(p) ==
    [t \in Threads |-> IF workPc[t] = "usage" /\ part[t] = p THEN need[t][p] ELSE 0]

Sums(g, f) ==
    /\ g \in [SUBSET Threads -> Nat]
    /\ \A S \in SUBSET Threads : \A t \in S : g[S] = g[S \ {t}] + f[t]
    /\ \A S \in SUBSET Threads : (\A t \in S : f[t] = 0) => g[S] = 0

(* If thread t owes v and not what f says, h is the sum where g was.       *)
Moves(h, g, f, t, v) ==
    Sums(h, [f EXCEPT ![t] = v]) /\ h[Threads] + f[t] = g[Threads] + v

Balanced(p) ==
    \E g : Sums(g, Owed(p)) /\ stock[p] = Left(SeedStock[p], used[p] + g[Threads])

Consumes(t, p) == workPc[t] = "stock" /\ part[t] = p

OneConsumes(p) ==
    \A t \in Threads :
        Consumes(t, p) =>
            current[t] = stock[p] /\ \A u \in Threads : Consumes(u, p) => u = t

SpareInv == TypeOK /\ \A p \in Spares \ contested : Balanced(p) /\ OneConsumes(p)

(* However many consume a spare at one time, no stock that one of them has *)
(* read, nor the one on file, is below what the books leave with all that  *)
(* is owed, and none is above the seed stock.                              *)
Within(p, x, n) == Left(SeedStock[p], n) <= x /\ x <= SeedStock[p]

AllWithin(p, n) ==
    /\ Within(p, stock[p], n)
    /\ \A t \in Threads : Consumes(t, p) => Within(p, current[t], n)

Ample(p) == \E g : Sums(g, Owed(p)) /\ AllWithin(p, used[p] + g[Threads])

AmpleInv == TypeOK /\ \A p \in Spares : Ample(p)

(* If one thread owes another quantity, the sum changes by the difference. *)
LEMMA SumMoves ==
    ASSUME NEW f \in [Threads -> Nat], NEW g, Sums(g, f), NEW t \in Threads,
           NEW v \in Nat
    PROVE  \E h : Moves(h, g, f, t, v)
<1> DEFINE h == [S \in SUBSET Threads |-> IF t \in S THEN g[S \ {t}] + v ELSE g[S]]
           e == [f EXCEPT ![t] = v]
<1>1. /\ g \in [SUBSET Threads -> Nat]
      /\ \A S \in SUBSET Threads : \A u \in S : g[S] = g[S \ {u}] + f[u]
      /\ \A S \in SUBSET Threads : (\A u \in S : f[u] = 0) => g[S] = 0
  BY DEF Sums
<1>2. h \in [SUBSET Threads -> Nat]
  <2> SUFFICES ASSUME NEW S \in SUBSET Threads
               PROVE  (IF t \in S THEN g[S \ {t}] + v ELSE g[S]) \in Nat
    OBVIOUS
  <2>1. S \ {t} \in SUBSET Threads
    OBVIOUS
  <2>2. g[S \ {t}] \in Nat /\ g[S] \in Nat
    BY <1>1, <2>1
  <2> QED
    BY <2>2
<1>3. e[t] = v /\ (\A u \in Threads \ {t} : e[u] = f[u])
  OBVIOUS
<1>4. ASSUME NEW S \in SUBSET Threads, NEW u \in S PROVE h[S] = h[S \ {u}] + e[u]
  <2>1. S \ {u} \in SUBSET Threads /\ S \ {t} \in SUBSET Threads /\ u \in Threads
    OBVIOUS
  <2>2. h[S] = IF t \in S THEN g[S \ {t}] + v ELSE g[S]
    BY <2>1
  <2>3. h[S \ {u}] = IF t \in S \ {u} THEN g[(S \ {u}) \ {t}] + v ELSE g[S \ {u}]
    BY <2>1
  <2>4. CASE u = t
    BY <2>2, <2>3, <2>4, <1>3
  <2>5. CASE u # t /\ t \notin S
    <3>1. g[S] = g[S \ {u}] + f[u]
      BY <1>1
    <3> QED
      BY <2>1, <2>2, <2>3, <2>5, <3>1, <1>3
  <2>6. CASE u # t /\ t \in S
    <3>1. (S \ {u}) \ {t} = (S \ {t}) \ {u}
      OBVIOUS
    <3>2. u \in S \ {t}
      BY <2>6
    <3>3. g[S \ {t}] = g[(S \ {t}) \ {u}] + f[u]
      BY <1>1, <2>1, <3>2
    <3>4. (S \ {t}) \ {u} \in SUBSET Threads
      OBVIOUS
    <3>5. g[(S \ {t}) \ {u}] \in Nat /\ f[u] \in Nat
      BY <1>1, <2>1, <3>4
    <3>6. h[S \ {u}] = g[(S \ {t}) \ {u}] + v
      BY <2>3, <2>6, <3>1
    <3>7. h[S] = g[S \ {t}] + v /\ e[u] = f[u]
      BY <2>1, <2>2, <2>6, <1>3
    <3> HIDE DEF h, e
    <3> QED
      BY <3>3, <3>5, <3>6, <3>7
  <2> QED
    BY <2>4, <2>5, <2>6
<1>5. ASSUME NEW S \in SUBSET Threads, \A u \in S : e[u] = 0 PROVE h[S] = 0
  <2>1. S \ {t} \in SUBSET Threads
    OBVIOUS
  <2>2. \A u \in S \ {t} : f[u] = 0
    BY <1>3, <1>5
  <2>3. g[S \ {t}] = 0
    BY <1>1, <2>1, <2>2
  <2>4. CASE t \in S
    BY <1>3, <1>5, <2>3, <2>4
  <2>5. CASE t \notin S
    <3>1. S \ {t} = S
      BY <2>5
    <3> QED
      BY <2>3, <2>5, <3>1
  <2> QED
    BY <2>4, <2>5
<1>6. h[Threads] + f[t] = g[Threads] + v
  <2>1. Threads \in SUBSET Threads /\ Threads \ {t} \in SUBSET Threads
    OBVIOUS
  <2>2. g[Threads] = g[Threads \ {t}] + f[t]
    BY <1>1, <2>1
  <2>3. h[Threads] = g[Threads \ {t}] + v
    BY <2>1
  <2>4. g[Threads \ {t}] \in Nat /\ f[t] \in Nat
    BY <1>1, <2>1
  <2> HIDE DEF h
  <2> QED
    BY <2>2, <2>3, <2>4
<1>7. Sums(h, e)
  <2> HIDE DEF h, e
  <2> QED
    BY <1>2, <1>4, <1>5 DEF Sums
<1> QED
  BY <1>6, <1>7 DEF Moves

(* Nobody owes what nobody has taken.                                      *)
LEMMA NothingOwed ==
    ASSUME NEW f \in [Threads -> Nat], \A t \in Threads : f[t] = 0
    PROVE  \E g : Sums(g, f) /\ g[Threads] = 0
<1> DEFINE g == [S \in SUBSET Threads |-> 0]
<1>1. g \in [SUBSET Threads -> Nat] /\ g[Threads] = 0
  OBVIOUS
<1>2. ASSUME NEW S \in SUBSET Threads, NEW t \in S PROVE g[S] = g[S \ {t}] + f[t]
  <2>1. S \ {t} \in SUBSET Threads
    OBVIOUS
  <2> QED
    BY <2>1
<1>3. Sums(g, f)
  BY <1>1, <1>2 DEF Sums
<1> QED
  BY <1>1, <1>3

(* What a thread owes of a spare is a natural.                             *)
LEMMA OwedType ==
    ASSUME TypeOK, NEW p \in Spares
    PROVE  Owed(p) \in [Threads -> Nat]
<1>1. \A t \in Threads : need[t][p] \in Nat
  BY NeedType
<1> QED
  BY <1>1 DEF Owed

(* The same of what the threads owe of a spare.                            *)
LEMMA OwedMoves ==
    ASSUME TypeOK, NEW p \in Spares, NEW g, Sums(g, Owed(p)),
           NEW t \in Threads,
           NEW v \in Nat
    PROVE  \E h : Moves(h, g, Owed(p), t, v)
BY OwedType, SumMoves

(* A fresh repository is balanced.                                         *)
LEMMA SparesSeeded ==
    WorkOrdersInit => SpareInv
<1> SUFFICES ASSUME WorkOrdersInit PROVE SpareInv
  OBVIOUS
<1>1. TypeOK
  BY WorkInit DEF CostInv
<1>2. ASSUME NEW p \in Spares PROVE Balanced(p) /\ OneConsumes(p)
  <2>1. \A t \in Threads : workPc[t] = "idle"
    BY DEF WorkOrdersInit
  <2>2. Owed(p) \in [Threads -> Nat] /\ (\A t \in Threads : Owed(p)[t] = 0)
    BY <2>1 DEF Owed
  <2>3. PICK g : Sums(g, Owed(p)) /\ g[Threads] = 0
    BY <2>2, NothingOwed
  <2>4. stock[p] = SeedStock[p] /\ used[p] = 0 /\ SeedStock[p] \in Nat
    BY MaintenanceAssumption DEF WorkOrdersInit, Nothing
  <2>5. stock[p] = Left(SeedStock[p], used[p] + g[Threads])
    BY <2>3, <2>4 DEF Left
  <2> QED
    BY <2>1, <2>3, <2>5 DEF Balanced, OneConsumes, Consumes
<1> QED
  BY <1>1, <1>2 DEF SpareInv

(* A step that neither writes a stock nor adds a usage row, and lets no    *)
(* thread begin to consume, leaves the books as they are.                  *)
LEMMA BooksStay ==
    ASSUME UNCHANGED <<stock, used>>, NEW p \in Spares,
           Balanced(p), OneConsumes(p), Owed(p)' = Owed(p),
           \A t \in Threads :
               Consumes(t, p)' => Consumes(t, p) /\ current'[t] = current[t]
    PROVE  Balanced(p)' /\ OneConsumes(p)'
BY DEF Balanced, OneConsumes

(* Nothing that a thread does outside consuming touches the books.         *)
LEMMA OthersKeepBooks ==
    ASSUME SpareInv, UNCHANGED <<stock, used>>, contested' = contested,
           NEW t \in Threads, workPc[t] \notin {"stock", "usage"},
           workPc'[t] \notin {"stock", "usage"},
           \A u \in Threads \ {t} : /\ workPc'[u] = workPc[u] /\ part'[u] = part[u]
                                    /\ need'[u] = need[u] /\ current'[u] = current[u]
    PROVE  \A p \in Spares \ contested' : Balanced(p)' /\ OneConsumes(p)'
<1> TAKE p \in Spares \ contested'
<1>1. Owed(p)' = Owed(p)
  BY DEF Owed
<1>2. \A u \in Threads :
          Consumes(u, p)' => Consumes(u, p) /\ current'[u] = current[u]
  BY DEF Consumes
<1> QED
  BY <1>1, <1>2, BooksStay DEF SpareInv

(* Two threads that read one stock are told apart from then on.            *)
LEMMA ReadKeepsBooks ==
    ASSUME SpareInv, NEW t \in Threads, NEW q \in Spares,
           ReadStock(t, q)
    PROVE  \A p \in Spares \ contested' : Balanced(p)' /\ OneConsumes(p)'
<1> TAKE p \in Spares \ contested'
<1> USE DEF SpareInv, TypeOK
<1>1. Owed(p)' = Owed(p)
  BY DEF Owed, ReadStock
<1>2. UNCHANGED <<stock, used>> /\ p \notin contested
  BY DEF ReadStock, spareVars
<1>3. CASE p # q
  <2>1. \A u \in Threads :
            Consumes(u, p)' => Consumes(u, p) /\ current'[u] = current[u]
    BY <1>3 DEF Consumes, ReadStock
  <2> QED
    BY <1>1, <1>2, <2>1, BooksStay
<1>4. CASE p = q
  <2>1. \A u \in Threads \ {t} : ~Consumes(u, p) /\ ~Consumes(u, p)'
    BY <1>4 DEF Consumes, ReadStock
  <2>2. current'[t] = stock'[p]
    BY <1>2, <1>4 DEF ReadStock
  <2>3. OneConsumes(p)'
    BY <2>1, <2>2 DEF OneConsumes
  <2>4. Balanced(p)'
    BY <1>1, <1>2 DEF Balanced
  <2> QED
    BY <2>3, <2>4
<1> QED
  BY <1>3, <1>4

(* What a thread takes from the stock it owes the books.                   *)
LEMMA WriteKeepsBooks ==
    ASSUME SpareInv, NEW t \in Threads, WriteStock(t)
    PROVE  \A p \in Spares \ contested' : Balanced(p)' /\ OneConsumes(p)'
<1> TAKE p \in Spares \ contested'
<1> USE DEF SpareInv, TypeOK
<1>1. UNCHANGED <<used, part, need, current>> /\ p \notin contested
  BY DEF WriteStock
<1>2. CASE p # part[t]
  <2>1. Owed(p)' = Owed(p) /\ stock'[p] = stock[p]
    BY <1>1, <1>2 DEF Owed, WriteStock
  <2>2. \A u \in Threads : Consumes(u, p)' => Consumes(u, p)
    BY <1>1, <1>2 DEF Consumes, WriteStock
  <2> QED
    BY <1>1, <2>1, <2>2 DEF Balanced, OneConsumes
<1>3. CASE p = part[t]
  <2>1. Consumes(t, p) /\ need[t][p] \in Nat
    BY <1>3, NeedType DEF WriteStock, Consumes
  <2>2. current[t] = stock[p] /\ \A u \in Threads : Consumes(u, p) => u = t
    BY <1>1, <2>1 DEF OneConsumes
  <2>3. \A u \in Threads : ~Consumes(u, p)'
    BY <2>2, <1>1 DEF Consumes, WriteStock
  <2>4. Owed(p)' = [Owed(p) EXCEPT ![t] = need[t][p]]
    BY <1>1, <1>3 DEF Owed, WriteStock
  <2>5. Owed(p)[t] = 0
    BY DEF Owed, WriteStock
  <2>6. PICK g : Sums(g, Owed(p))
                 /\ stock[p] = Left(SeedStock[p], used[p] + g[Threads])
    BY <1>1 DEF Balanced
  <2>7. PICK h : Moves(h, g, Owed(p), t, need[t][p])
    BY <2>1, <2>6, OwedMoves
  <2>8. g[Threads] \in Nat /\ h[Threads] \in Nat
    BY <2>6, <2>7 DEF Sums, Moves
  <2>9. stock'[p] = Left(stock[p], need[t][p])
    BY <1>3, <2>2 DEF WriteStock
  <2>10. used[p] \in Nat /\ SeedStock[p] \in Nat
    BY MaintenanceAssumption
  <2>11. stock'[p] = Left(SeedStock[p], used'[p] + h[Threads])
    BY <1>1, <2>1, <2>5, <2>6, <2>7, <2>8, <2>9, <2>10 DEF Left, Moves
  <2>12. Sums(h, Owed(p)')
    BY <2>4, <2>7 DEF Moves
  <2> QED
    BY <2>3, <2>11, <2>12 DEF Balanced, OneConsumes, Sums
<1> QED
  BY <1>2, <1>3

(* With its usage row a thread pays what it owes.                          *)
LEMMA UsageKeepsBooks ==
    ASSUME SpareInv, NEW t \in Threads, AddUsage(t)
    PROVE  \A p \in Spares \ contested' : Balanced(p)' /\ OneConsumes(p)'
<1> TAKE p \in Spares \ contested'
<1> USE DEF SpareInv, TypeOK
<1>1. UNCHANGED <<stock>> /\ p \notin contested
  BY DEF AddUsage
<1>2. \A u \in Threads :
          Consumes(u, p)' => Consumes(u, p) /\ current'[u] = current[u]
  BY DEF Consumes, AddUsage
<1>3. CASE p # part[t]
  <2>1. Owed(p)' = Owed(p) /\ used'[p] = used[p]
    BY <1>3 DEF Owed, AddUsage
  <2> QED
    BY <1>1, <1>2, <2>1 DEF Balanced, OneConsumes
<1>4. CASE p = part[t]
  <2>1. need[t][p] \in Nat /\ used[p] \in Nat
    BY NeedType
  <2>2. Owed(p)' = [Owed(p) EXCEPT ![t] = 0]
    BY <1>4 DEF Owed, AddUsage
  <2>3. Owed(p)[t] = need[t][p]
    BY <1>4 DEF Owed, AddUsage
  <2>4. used'[p] = used[p] + need[t][p]
    BY <1>4 DEF AddUsage
  <2>5. PICK g : Sums(g, Owed(p))
                 /\ stock[p] = Left(SeedStock[p], used[p] + g[Threads])
    BY <1>1 DEF Balanced
  <2>6. PICK h : Moves(h, g, Owed(p), t, 0)
    BY <2>5, OwedMoves
  <2>7. g[Threads] \in Nat /\ h[Threads] \in Nat
    BY <2>5, <2>6 DEF Sums, Moves
  <2>8. used[p] + g[Threads] = used'[p] + h[Threads]
    BY <2>1, <2>3, <2>4, <2>6, <2>7 DEF Moves
  <2>9. Sums(h, Owed(p)')
    BY <2>2, <2>6 DEF Moves
  <2>10. Balanced(p)'
    BY <1>1, <2>5, <2>8, <2>9 DEF Balanced, Sums
  <2> QED
    BY <1>1, <1>2, <2>10 DEF OneConsumes
<1> QED
  BY <1>3, <1>4

(* Nor does a call that ends owing nothing.                                *)
LEMMA ReturnKeepsBooks ==
    ASSUME SpareInv, TypeOK, UNCHANGED <<stock, used>>, contested' = contested,
           NEW t \in Threads, workPc[t] \notin {"stock", "usage"}, ReturnWork(t)
    PROVE  \A p \in Spares \ contested' : Balanced(p)' /\ OneConsumes(p)'
<1>1. workPc'[t] = "idle"
  BY DEF TypeOK, ReturnWork
<1>2. \A u \in Threads \ {t} : /\ workPc'[u] = workPc[u] /\ part'[u] = part[u]
                                 /\ need'[u] = need[u] /\ current'[u] = current[u]
  BY DEF TypeOK, ReturnWork
<1> QED
  BY <1>1, <1>2, OthersKeepBooks

(* SpareInv is inductive.                                                  *)
LEMMA SpareStep ==
    SpareInv /\ [WorkOrdersNext]_workVars => SpareInv'
<1> SUFFICES ASSUME SpareInv, [WorkOrdersNext]_workVars PROVE SpareInv'
  OBVIOUS
<1> DEFINE Kept == \A p \in Spares \ contested' : Balanced(p)' /\ OneConsumes(p)'
<1>0. TypeOK /\ TypeOK'
  BY TypeStep DEF SpareInv
<1>1. ASSUME UNCHANGED <<spareVars, workLocals, contested>> PROVE Kept
  <2>1. UNCHANGED <<stock, used, workPc, need, part, current, contested>>
    BY <1>1 DEF spareVars, workLocals
  <2>2. \A p \in Spares : Owed(p)' = Owed(p)
    BY <2>1 DEF Owed
  <2> QED
    BY <2>1, <2>2, BooksStay DEF SpareInv, Consumes
<1>2. ASSUME NEW m \in Machines, MachineCall(m) PROVE Kept
  BY <1>1, <1>2 DEF MachineCall, AddMachine, UpdateMachine,
     DeleteMachine, SetMachine
<1>3. ASSUME NEW o \in WorkOrders, OrderCall(o) PROVE Kept
  BY <1>1, <1>3 DEF OrderCall, CloseWorkOrder, AssignWorkOrder,
     CreateWorkOrder, UpdateWorkOrder, SetOrder
<1>4. ASSUME NEW t \in Threads, NEW o \in WorkOrders,
             StartWorkOrder(t, o) \/ CompleteWorkOrder(t, o)
      PROVE  Kept
  <2>1. PICK s, v : EnterWork(t, o, s, v)
    BY <1>4 DEF StartWorkOrder, CompleteWorkOrder
  <2>2. \A u \in Threads \ {t} : need'[u] = need[u]
    BY <1>0, <1>4 DEF StartWorkOrder, CompleteWorkOrder, TypeOK
  <2> QED
    BY <1>0, <2>1, <2>2, OthersKeepBooks DEF EnterWork, TypeOK, spareVars
<1>5. ASSUME NEW t \in Threads, WorkStep(t) PROVE Kept
  <2>1. CASE MachineGone(t) \/ MalformedSpare(t) \/ CannotSum(t) \/ NoAssignee(t) \/ AddCost(t)
    <3>1. /\ UNCHANGED <<stock, used>> /\ contested' = contested
          /\ workPc[t] \notin {"stock", "usage"} /\ ReturnWork(t)
      BY <2>1 DEF MachineGone, MalformedSpare, CannotSum, NoAssignee, GiveUp, AddCost,
         spareVars
    <3> QED
      BY <1>0, <3>1, ReturnKeepsBooks
  <2>2. CASE WriteMachine(t)
    <3>1. /\ UNCHANGED <<stock, used>> /\ contested' = contested
          /\ workPc[t] \notin {"stock", "usage"}
      BY <2>2 DEF WriteMachine, spareVars
    <3>2. CASE ReturnWork(t)
      BY <1>0, <3>1, <3>2, ReturnKeepsBooks
    <3>3. CASE workPc' = [workPc EXCEPT ![t] = "spares"] /\ UNCHANGED <<need, part, current>>
      <4>1. workPc'[t] = "spares" /\ \A u \in Threads \ {t} : workPc'[u] = workPc[u]
        BY <1>0, <3>3 DEF TypeOK
      <4> QED
        BY <3>1, <3>3, <4>1, OthersKeepBooks
    <3> QED
      BY <2>2, <3>2, <3>3 DEF WriteMachine
  <2>3. CASE SumSpares(t)
    BY <1>0, <2>3, OthersKeepBooks DEF SumSpares, TypeOK, spareVars
  <2> QED
    BY <1>5, <2>1, <2>2, <2>3, ReadKeepsBooks, WriteKeepsBooks,
       UsageKeepsBooks DEF WorkStep, Consume
<1>6. ASSUME WorkOrdersRestart PROVE Kept
  <2>1. workPc' = [t \in Threads |-> "idle"] /\ stock' = SeedStock /\ used' = Nothing
    BY <1>6 DEF WorkOrdersRestart
  <2>2. \A t \in Threads : workPc'[t] = "idle"
    BY <2>1
  <2> TAKE p \in Spares \ contested'
  <2>3. Owed(p)' \in [Threads -> Nat] /\ (\A t \in Threads : Owed(p)'[t] = 0)
    BY <2>2 DEF Owed
  <2>4. \E g : Sums(g, Owed(p)') /\ g[Threads] = 0
    BY <2>3, NothingOwed
  <2>5. PICK g : Sums(g, Owed(p)') /\ g[Threads] = 0
    BY <2>4
  <2>6. stock'[p] = SeedStock[p] /\ used'[p] = 0 /\ SeedStock[p] \in Nat
    <3>1. SeedStock \in [Spares -> Nat] /\ p \in Spares
      BY MaintenanceAssumption
    <3> QED
      BY <2>1, <3>1 DEF Nothing
  <2>7. stock'[p] = Left(SeedStock[p], used'[p] + g[Threads])
    <3>1. g[Threads] = 0
      BY <2>5
    <3>2. used'[p] + g[Threads] = 0
      BY <2>6, <3>1
    <3> QED
      BY <2>6, <3>2, SMT DEF Left
  <2>8. Balanced(p)'
    BY <2>5, <2>7 DEF Balanced, Sums
  <2>9. OneConsumes(p)'
    BY <2>2 DEF OneConsumes, Consumes
  <2> QED
    BY <2>8, <2>9
<1>7. ASSUME UNCHANGED workVars PROVE Kept
  <2>1. UNCHANGED <<spareVars, workLocals, contested>>
    BY <1>7 DEF workVars
  <2> QED
    BY <1>1, <2>1
<1> QED
  BY <1>0, <1>2, <1>3, <1>4, <1>5, <1>6, <1>7 DEF WorkOrdersNext, WorkCall, SpareInv

(* More used leaves no more, and what is left after two uses is what is    *)
(* left after both.                                                        *)
LEMMA LeftOfLeft ==
    ASSUME NEW p \in Spares, NEW n \in Nat, NEW q \in Nat, NEW x \in Nat, Within(p, x, n)
    PROVE  Within(p, x, n + q) /\ Within(p, Left(x, q), n + q)
<1>1. SeedStock[p] \in Nat
  BY MaintenanceAssumption
<1> QED
  BY <1>1 DEF Within, Left

(* A stock that nobody has touched is what the books leave.                *)
LEMMA SeedAmple ==
    ASSUME NEW p \in Spares, NEW g, Sums(g, Owed(p)), g[Threads] = 0, used[p] = 0,
           stock[p] = SeedStock[p], \A t \in Threads : ~Consumes(t, p)
    PROVE  Ample(p)
<1>1. SeedStock[p] \in Nat
  BY MaintenanceAssumption
<1>2. used[p] + g[Threads] = 0
  OBVIOUS
<1>3. Within(p, stock[p], used[p] + g[Threads])
  BY <1>1, <1>2 DEF Within, Left
<1> QED
  BY <1>3 DEF Ample, AllWithin

(* A fresh repository holds the seed stock, and nobody consumes.           *)
LEMMA AmpleSeeded ==
    WorkOrdersInit => AmpleInv
<1> SUFFICES ASSUME WorkOrdersInit PROVE AmpleInv
  OBVIOUS
<1>1. TypeOK
  BY WorkInit DEF CostInv
<1>2. ASSUME NEW p \in Spares PROVE Ample(p)
  <2>1. \A t \in Threads : workPc[t] = "idle"
    BY DEF WorkOrdersInit
  <2>2. Owed(p) \in [Threads -> Nat] /\ (\A t \in Threads : Owed(p)[t] = 0)
    BY <2>1 DEF Owed
  <2>3. PICK g : Sums(g, Owed(p)) /\ g[Threads] = 0
    BY <2>2, NothingOwed
  <2>4. stock[p] = SeedStock[p] /\ used[p] = 0
    BY DEF WorkOrdersInit, Nothing
  <2> QED
    BY <2>1, <2>3, <2>4, SeedAmple DEF Consumes
<1> QED
  BY <1>1, <1>2 DEF AmpleInv

(* A step that writes no stock and adds no usage row.                      *)
LEMMA AmpleStays ==
    ASSUME UNCHANGED <<stock, used>>, NEW p \in Spares, Ample(p), Owed(p)' = Owed(p),
           \A t \in Threads : Consumes(t, p)' =>
               (Consumes(t, p) /\ current'[t] = current[t]) \/ current'[t] = stock[p]
    PROVE  Ample(p)'
<1>1. PICK g : Sums(g, Owed(p)) /\ AllWithin(p, used[p] + g[Threads])
  BY DEF Ample
<1>2. AllWithin(p, used[p] + g[Threads])'
  BY <1>1 DEF AllWithin, Within
<1>3. Sums(g, Owed(p)')
  BY <1>1
<1> QED
  BY <1>2, <1>3 DEF Ample, Sums

(* A thread that takes from a stock owes as much: whatever it has read is  *)
(* at least what the books leave, so what it writes is at least what they  *)
(* leave now.                                                              *)
LEMMA WriteKeepsAmple ==
    ASSUME AmpleInv, NEW t \in Threads, WriteStock(t), NEW p \in Spares
    PROVE  Ample(p)'
<1> USE DEF AmpleInv, TypeOK
<1>1. UNCHANGED <<used, part, need, current>> /\ Ample(p)
  BY DEF WriteStock
<1>2. \A u \in Threads : Consumes(u, p)' => Consumes(u, p)
  BY <1>1 DEF Consumes, WriteStock
<1>3. CASE p # part[t]
  <2>1. Owed(p)' = Owed(p) /\ stock'[p] = stock[p]
    BY <1>1, <1>3 DEF Owed, WriteStock
  <2>2. PICK g : Sums(g, Owed(p)) /\ AllWithin(p, used[p] + g[Threads])
    BY <1>1 DEF Ample
  <2>3. AllWithin(p, used[p] + g[Threads])'
    BY <1>1, <1>2, <2>1, <2>2 DEF AllWithin, Within
  <2>4. Sums(g, Owed(p)')
    BY <2>1, <2>2
  <2> QED
    BY <2>3, <2>4 DEF Ample, Sums
<1>4. CASE p = part[t]
  <2>1. Consumes(t, p) /\ need[t][p] \in Nat
    BY <1>4, NeedType DEF WriteStock, Consumes
  <2>2. PICK q \in Nat : q = need[t][p]
    BY <2>1
  <2>3. Owed(p)' = [Owed(p) EXCEPT ![t] = q]
    BY <1>1, <1>4, <2>2 DEF Owed, WriteStock
  <2>4. Owed(p)[t] = 0
    BY DEF Owed, WriteStock
  <2>5. PICK g : Sums(g, Owed(p)) /\ AllWithin(p, used[p] + g[Threads])
    BY <1>1 DEF Ample
  <2>6. PICK h : Moves(h, g, Owed(p), t, q)
    BY <2>5, OwedMoves
  <2>7. g[Threads] \in Nat /\ h[Threads] \in Nat /\ used[p] \in Nat
    BY <2>5, <2>6 DEF Sums, Moves
  <2>8. PICK n \in Nat : n = used[p] + g[Threads]
    BY <2>7
  <2>9. used'[p] + h[Threads] = n + q
    BY <1>1, <2>4, <2>6, <2>7, <2>8 DEF Moves
  <2>10. stock'[p] = Left(current[t], q)
    BY <1>4, <2>2 DEF WriteStock
  <2>11. Within(p, Left(current[t], q), n + q)
    <3>1. Within(p, current[t], n) /\ current[t] \in Nat
      BY <2>1, <2>5, <2>8 DEF AllWithin
    <3> QED
      BY <3>1, LeftOfLeft
  <2>12. ASSUME NEW u \in Threads, Consumes(u, p) PROVE Within(p, current[u], n + q)
    <3>1. Within(p, current[u], n) /\ current[u] \in Nat
      BY <2>5, <2>8, <2>12 DEF AllWithin
    <3> QED
      BY <3>1, LeftOfLeft
  <2>13. AllWithin(p, n + q)'
    BY <1>1, <1>2, <2>10, <2>11, <2>12 DEF AllWithin, Within
  <2>14. Sums(h, Owed(p)')
    BY <2>3, <2>6 DEF Moves
  <2>15. AllWithin(p, used[p] + h[Threads])'
    BY <2>9, <2>13
  <2> QED
    BY <2>14, <2>15 DEF Ample, Sums
<1> QED
  BY <1>3, <1>4

(* A usage row moves what a thread owes to what is used.                   *)
LEMMA UsageKeepsAmple ==
    ASSUME AmpleInv, NEW t \in Threads, AddUsage(t), NEW p \in Spares
    PROVE  Ample(p)'
<1> USE DEF AmpleInv, TypeOK
<1>1. UNCHANGED <<stock>> /\ Ample(p)
  BY DEF AddUsage
<1>2. \A u \in Threads :
          Consumes(u, p)' => Consumes(u, p) /\ current'[u] = current[u]
  BY DEF Consumes, AddUsage
<1>3. CASE p # part[t]
  <2>1. Owed(p)' = Owed(p) /\ used'[p] = used[p]
    BY <1>3 DEF Owed, AddUsage
  <2>2. PICK g : Sums(g, Owed(p)) /\ AllWithin(p, used[p] + g[Threads])
    BY <1>1 DEF Ample
  <2>3. AllWithin(p, used[p] + g[Threads])'
    BY <1>1, <1>2, <2>1, <2>2 DEF AllWithin, Within
  <2>4. Sums(g, Owed(p)')
    BY <2>1, <2>2
  <2> QED
    BY <2>3, <2>4 DEF Ample, Sums
<1>4. CASE p = part[t]
  <2>1. need[t][p] \in Nat /\ used[p] \in Nat
    BY NeedType
  <2>2. Owed(p)' = [Owed(p) EXCEPT ![t] = 0]
    BY <1>4 DEF Owed, AddUsage
  <2>3. Owed(p)[t] = need[t][p]
    BY <1>4 DEF Owed, AddUsage
  <2>4. used'[p] = used[p] + need[t][p]
    BY <1>4 DEF AddUsage
  <2>5. PICK g : Sums(g, Owed(p)) /\ AllWithin(p, used[p] + g[Threads])
    BY <1>1 DEF Ample
  <2>6. PICK h : Moves(h, g, Owed(p), t, 0)
    BY <2>5, OwedMoves
  <2>7. g[Threads] \in Nat /\ h[Threads] \in Nat
    BY <2>5, <2>6 DEF Sums, Moves
  <2>8. used[p] + g[Threads] = used'[p] + h[Threads]
    BY <2>1, <2>3, <2>4, <2>6, <2>7 DEF Moves
  <2>9. Sums(h, Owed(p)')
    BY <2>2, <2>6 DEF Moves
  <2>10. AllWithin(p, used[p] + h[Threads])'
    BY <1>1, <1>2, <2>5, <2>8 DEF AllWithin, Within
  <2> QED
    BY <2>9, <2>10 DEF Ample, Sums
<1> QED
  BY <1>3, <1>4

(* AmpleInv is inductive.                                                  *)
LEMMA AmpleStep ==
    AmpleInv /\ [WorkOrdersNext]_workVars => AmpleInv'
<1> SUFFICES ASSUME AmpleInv, [WorkOrdersNext]_workVars PROVE AmpleInv'
  OBVIOUS
<1> DEFINE Kept == \A p \in Spares : Ample(p)'
<1>0. TypeOK /\ TypeOK' /\ \A p \in Spares : Ample(p)
  BY TypeStep DEF AmpleInv
<1>o. ASSUME UNCHANGED <<stock, used>>, NEW t \in Threads,
             workPc[t] \notin {"stock", "usage"}, workPc'[t] \notin {"stock", "usage"},
             \A u \in Threads \ {t} :
                 /\ workPc'[u] = workPc[u] /\ part'[u] = part[u]
                 /\ need'[u] = need[u] /\ current'[u] = current[u]
      PROVE  Kept
  <2> TAKE p \in Spares
  <2>1. Owed(p)' = Owed(p)
    BY <1>o DEF Owed
  <2>2. \A u \in Threads :
            Consumes(u, p)' => Consumes(u, p) /\ current'[u] = current[u]
    BY <1>o DEF Consumes
  <2> QED
    BY <1>0, <1>o, <2>1, <2>2, AmpleStays
<1>1. ASSUME UNCHANGED <<spareVars, workLocals>> PROVE Kept
  <2>1. UNCHANGED <<stock, used, workPc, need, part, current>>
    BY <1>1 DEF spareVars, workLocals
  <2>2. \A p \in Spares : Owed(p)' = Owed(p)
    BY <2>1 DEF Owed
  <2> QED
    BY <1>0, <2>1, <2>2, AmpleStays DEF Consumes
<1>2. ASSUME NEW m \in Machines, MachineCall(m) PROVE Kept
  BY <1>1, <1>2 DEF MachineCall, AddMachine, UpdateMachine,
     DeleteMachine, SetMachine
<1>3. ASSUME NEW o \in WorkOrders, OrderCall(o) PROVE Kept
  BY <1>1, <1>3 DEF OrderCall, CloseWorkOrder, AssignWorkOrder,
     CreateWorkOrder, UpdateWorkOrder, SetOrder
<1>4. ASSUME NEW t \in Threads, NEW o \in WorkOrders,
             StartWorkOrder(t, o) \/ CompleteWorkOrder(t, o)
      PROVE  Kept
  <2>1. PICK s, v : EnterWork(t, o, s, v)
    BY <1>4 DEF StartWorkOrder, CompleteWorkOrder
  <2>2. \A u \in Threads \ {t} : need'[u] = need[u]
    BY <1>0, <1>4 DEF StartWorkOrder, CompleteWorkOrder, TypeOK
  <2> QED
    BY <1>0, <1>o, <2>1, <2>2 DEF EnterWork, TypeOK, spareVars
<1>r. ASSUME NEW t \in Threads, UNCHANGED <<stock, used>>,
             workPc[t] \notin {"stock", "usage"}, ReturnWork(t)
      PROVE  Kept
  BY <1>0, <1>o, <1>r DEF TypeOK, ReturnWork
<1>5. ASSUME NEW t \in Threads, WorkStep(t) PROVE Kept
  <2>1. CASE MachineGone(t) \/ MalformedSpare(t) \/ CannotSum(t) \/ NoAssignee(t) \/ AddCost(t)
    <3>1. UNCHANGED <<stock, used>> /\ workPc[t] \notin {"stock", "usage"} /\ ReturnWork(t)
      BY <2>1 DEF MachineGone, MalformedSpare, CannotSum, NoAssignee, GiveUp, AddCost,
         spareVars
    <3> QED
      BY <1>r, <3>1
  <2>2. CASE WriteMachine(t)
    <3>1. UNCHANGED <<stock, used>> /\ workPc[t] \notin {"stock", "usage"}
      BY <2>2 DEF WriteMachine, spareVars
    <3>2. CASE ReturnWork(t)
      BY <1>r, <3>1, <3>2
    <3>3. CASE workPc' = [workPc EXCEPT ![t] = "spares"] /\ UNCHANGED <<need, part, current>>
      <4>1. workPc'[t] = "spares" /\ \A u \in Threads \ {t} : workPc'[u] = workPc[u]
        BY <1>0, <3>3 DEF TypeOK
      <4> QED
        BY <1>o, <3>1, <3>3, <4>1
    <3> QED
      BY <2>2, <3>2, <3>3 DEF WriteMachine
  <2>3. CASE SumSpares(t)
    BY <1>0, <1>o, <2>3 DEF SumSpares, TypeOK, spareVars
  <2>4. ASSUME NEW q \in Spares, ReadStock(t, q) PROVE Kept
    <3> TAKE p \in Spares
    <3>1. Owed(p)' = Owed(p)
      BY <1>0, <2>4 DEF Owed, ReadStock, TypeOK
    <3>2. \A u \in Threads : Consumes(u, p)' =>
              (Consumes(u, p) /\ current'[u] = current[u]) \/ current'[u] = stock[p]
      BY <1>0, <2>4 DEF Consumes, ReadStock, TypeOK
    <3>3. UNCHANGED <<stock, used>>
      BY <2>4 DEF ReadStock, spareVars
    <3> QED
      BY <1>0, <3>1, <3>2, <3>3, AmpleStays
  <2>5. WriteStock(t) \/ AddUsage(t) => Kept
    BY WriteKeepsAmple, UsageKeepsAmple
  <2> QED
    BY <1>5, <2>1, <2>2, <2>3, <2>4, <2>5 DEF WorkStep, Consume
<1>6. ASSUME WorkOrdersRestart PROVE Kept
  <2>1. \A t \in Threads : workPc'[t] = "idle"
    BY <1>6 DEF WorkOrdersRestart
  <2> TAKE p \in Spares
  <2>2. Owed(p)' \in [Threads -> Nat] /\ (\A t \in Threads : Owed(p)'[t] = 0)
    BY <2>1 DEF Owed
  <2>3. \E g : Sums(g, Owed(p)') /\ g[Threads] = 0
    BY <2>2, NothingOwed
  <2>4. PICK g : Sums(g, Owed(p)') /\ g[Threads] = 0
    BY <2>3
  <2>5. SeedStock[p] \in Nat /\ stock'[p] = SeedStock[p] /\ used'[p] = 0
    BY <1>6, MaintenanceAssumption DEF WorkOrdersRestart, Nothing
  <2>6. Within(p, stock[p], used[p] + g[Threads])'
    <3>1. used'[p] + g[Threads] = 0
      BY <2>4, <2>5
    <3> QED
      BY <2>5, <3>1 DEF Within, Left
  <2>7. AllWithin(p, used[p] + g[Threads])'
    BY <2>1, <2>6 DEF AllWithin, Consumes
  <2> QED
    BY <2>4, <2>7 DEF Ample, Sums
<1>7. ASSUME UNCHANGED workVars PROVE Kept
  <2>1. UNCHANGED <<spareVars, workLocals>>
    BY <1>7 DEF workVars
  <2> QED
    BY <1>1, <2>1
<1> QED
  BY <1>0, <1>2, <1>3, <1>4, <1>5, <1>6, <1>7 DEF WorkOrdersNext, WorkCall, AmpleInv

(* consume_spare reads a stock, writes what is left and adds a usage row,  *)
(* in three steps and without a lock.  Whenever nobody has still to add    *)
(* one, the stock is at least what the usage rows leave of it, however     *)
(* many consumed it at one time, and exactly that if no two did.           *)
THEOREM SparesAreAccountedFor ==
    WorkOrdersSpec => []SparesAccountedFor
<1>1. SpareInv /\ AmpleInv => SparesAccountedFor
  <2> SUFFICES ASSUME SpareInv, AmpleInv, NEW p \in Spares,
                      \A t \in Threads : ~(workPc[t] = "usage" /\ part[t] = p)
               PROVE  /\ stock[p] \in Left(SeedStock[p], used[p]) .. SeedStock[p]
                      /\ p \notin contested => stock[p] = Left(SeedStock[p], used[p])
    BY DEF SparesAccountedFor
  <2>1. \A t \in Threads : Owed(p)[t] = 0
    BY DEF Owed
  <2>2. \A g : Sums(g, Owed(p)) => used[p] + g[Threads] = used[p]
    <3>1. \A g : Sums(g, Owed(p)) => g[Threads] = 0
      BY <2>1 DEF Sums
    <3> QED
      BY <3>1 DEF SpareInv, TypeOK
  <2>3. stock[p] \in Left(SeedStock[p], used[p]) .. SeedStock[p]
    <3>1. Within(p, stock[p], used[p])
      BY <2>2 DEF AmpleInv, Ample, AllWithin
    <3>2. SeedStock[p] \in Nat /\ used[p] \in Nat /\ stock[p] \in Nat
      BY MaintenanceAssumption DEF SpareInv, TypeOK
    <3> QED
      BY <3>1, <3>2, LeftType DEF Within
  <2>4. ASSUME p \notin contested PROVE stock[p] = Left(SeedStock[p], used[p])
    BY <2>2, <2>4 DEF SpareInv, Balanced
  <2> QED
    BY <2>3, <2>4
<1> QED
  BY <1>1, SparesSeeded, SpareStep, AmpleSeeded, AmpleStep, PTL DEF WorkOrdersSpec

(***************************************************************************)
(* The desk.  Its orders are those of MaintenanceOrders, and the           *)
(* capabilities of a machine follow the last call on it.                   *)
(***************************************************************************)
THEOREM DeskKeepsWorkOrders ==
    MaintenanceSpec => WorkOrdersSpec
<1>1. MaintenanceInit => WorkOrdersInit
  BY DEF MaintenanceInit
<1>2. ASSUME NEW t \in Threads, Registry(t)
      PROVE  \E m \in Machines : MachineCall(m)
  BY <1>2 DEF Registry, RegisterMachine, ReviseMachine,
     RemoveMachine, MachineCall
<1>3. [MaintenanceNext]_<<workVars, deskVars>> => [WorkOrdersNext]_workVars
  BY <1>2 DEF MaintenanceNext, DeskRestart, WorkOrdersNext, workVars, deskVars
<1> QED
  BY <1>1, <1>3, PTL DEF MaintenanceSpec, WorkOrdersSpec

DeskTyped ==
    /\ capability \in [Machines -> Seq(BOOLEAN)]
    /\ wanted \in [Machines -> BOOLEAN]
    /\ unsettled \subseteq Machines
    /\ desk \in [Threads -> DeskCalls \cup {NoCall}]

(* A machine has capabilities on file, or the call that registers it is    *)
(* about to add them.                                                      *)
Registered ==
    \A m \in Machines :
        machine[m] = "absent" \/ capability[m] # <<>>
            \/ \E t \in Threads : Writing(t, m) /\ desk[t].at = "add"

(* One call writes a settled machine, with what was asked last, and it     *)
(* adds a row just if there is none.                                       *)
OneWriter ==
    \A m \in Machines \ unsettled, t \in Threads :
        Writing(t, m) =>
            /\ \A u \in Threads : Writing(u, m) => u = t
            /\ desk[t].tracked = wanted[m]
            /\ desk[t].at = "add" <=> capability[m] = <<>>

DeskInv == DeskTyped /\ Registered /\ OneWriter /\ SettingsTakeHold

(* The row that is looked up, after a row is added or the first one set.   *)
LEMMA RowLookedUp ==
    ASSUME NEW list \in Seq(BOOLEAN), NEW b \in BOOLEAN
    PROVE  /\ Append(list, b) \in Seq(BOOLEAN) /\ Append(list, b) # <<>>
           /\ list = <<>> => Head(Append(list, b)) = b
           /\ FirstRowSet(list, b) \in Seq(BOOLEAN)
           /\ FirstRowSet(list, b) = <<>> <=> list = <<>>
           /\ list # <<>> => Head(FirstRowSet(list, b)) = b
<1>1. CASE list = <<>>
  BY <1>1 DEF FirstRowSet
<1>2. CASE list # <<>>
  <2>1. Len(list) \in Nat /\ Len(list) >= 1
    BY <1>2
  <2>2. FirstRowSet(list, b) = [list EXCEPT ![1] = b]
    BY <1>2 DEF FirstRowSet
  <2>3. /\ FirstRowSet(list, b) \in Seq(BOOLEAN)
        /\ Len(FirstRowSet(list, b)) = Len(list)
        /\ FirstRowSet(list, b)[1] = b
    BY <2>1, <2>2
  <2> QED
    BY <1>2, <2>1, <2>3
<1> QED
  BY <1>1, <1>2

(* No handler of an order adds a machine or removes one.                   *)
LEMMA WorkKeepsMachines ==
    ASSUME TypeOK, WorkCall
    PROVE  \A m \in Machines : machine'[m] = "absent" <=> machine[m] = "absent"
<1>1. ASSUME NEW o \in WorkOrders, OrderCall(o) PROVE machine' = machine
  BY <1>1 DEF OrderCall, CloseWorkOrder, AssignWorkOrder,
     CreateWorkOrder, UpdateWorkOrder, SetOrder
<1>2. ASSUME NEW t \in Threads, NEW o \in WorkOrders,
             StartWorkOrder(t, o) \/ CompleteWorkOrder(t, o)
      PROVE  machine' = machine
  BY <1>2 DEF StartWorkOrder, CompleteWorkOrder, EnterWork
<1>3. ASSUME NEW t \in Threads, WorkStep(t), ~WriteMachine(t)
      PROVE  machine' = machine
  BY <1>3 DEF WorkStep, MachineGone, Consume, ReadStock,
     WriteStock, AddUsage, SumSpares, MalformedSpare, CannotSum,
     NoAssignee, GiveUp, AddCost
<1>4. ASSUME NEW t \in Threads, WriteMachine(t)
      PROVE  \A m \in Machines : machine'[m] = "absent" <=> machine[m] = "absent"
  <2>1. /\ machine' = [machine EXCEPT ![subject[workOf[t]]] = after[t]]
        /\ machine[subject[workOf[t]]] # "absent" /\ after[t] # "absent"
    BY <1>4 DEF WriteMachine, TypeOK, ServiceStates
  <2> QED
    BY <2>1 DEF TypeOK
<1> QED
  BY <1>1, <1>2, <1>3, <1>4 DEF WorkCall

(* A step that leaves the desk alone, and no machine appears, keeps the    *)
(* invariant.                                                              *)
LEMMA DeskUntouched ==
    ASSUME DeskInv,
           \A m \in Machines : machine'[m] # "absent" => machine[m] # "absent",
           UNCHANGED <<capability, wanted, unsettled>>,
           desk' = desk
    PROVE  DeskInv'
<1>1. \A t \in Threads, m \in Machines : Writing(t, m)' <=> Writing(t, m)
  BY DEF Writing
<1> QED
  BY <1>1 DEF DeskInv, DeskTyped, Registered, OneWriter, SettingsTakeHold

(* A call begins to write a machine, which is there afterwards.            *)
LEMMA BeginKeeps ==
    ASSUME DeskInv, NEW t \in Threads, NEW m \in Machines,
           NEW step \in {"add", "set"},
           NEW again \in BOOLEAN, BeginWrite(t, m, step, again),
           \A n \in Machines \ {m} : machine'[n] = machine[n],
           step = "add" => (again <=> capability[m] # <<>>),
           step = "set" => machine[m] # "absent"
    PROVE  DeskInv'
<1>0. NoCall \notin DeskCalls
  BY RegistryAssumption
<1>1. PICK tracked \in BOOLEAN :
        /\ desk[t] = NoCall
        /\ desk' = [desk EXCEPT ![t] = [at |-> step, machine |-> m, tracked |-> tracked]]
        /\ wanted' = [wanted EXCEPT ![m] = tracked]
        /\ unsettled' = IF again \/ \E u \in Threads : Writing(u, m)
                        THEN unsettled \cup {m} ELSE unsettled \ {m}
        /\ capability' = capability
  BY DEF BeginWrite, Take
<1>2. DeskTyped'
  BY <1>1 DEF DeskInv, DeskTyped, DeskCalls
<1>3. /\ \A u \in Threads \ {t} : desk'[u] = desk[u]
      /\ desk'[t] = [at |-> step, machine |-> m, tracked |-> tracked]
      /\ desk'[t] # NoCall
  BY <1>0, <1>1 DEF DeskInv, DeskTyped, DeskCalls
<1>4. /\ \A n \in Machines, u \in Threads \ {t} : Writing(u, n)' <=> Writing(u, n)
      /\ \A n \in Machines : ~Writing(t, n)
      /\ \A n \in Machines : Writing(t, n)' <=> n = m
  BY <1>1, <1>3 DEF Writing
<1>5. Registered'
  BY <1>1, <1>3, <1>4 DEF DeskInv, Registered
<1>6. OneWriter'
  <2> SUFFICES ASSUME NEW n \in Machines \ unsettled', NEW u \in Threads,
  Writing(u, n)'
               PROVE  /\ \A v \in Threads : Writing(v, n)' => v = u
                      /\ desk'[u].tracked = wanted'[n]
                      /\ desk'[u].at = "add" <=> capability'[n] = <<>>
    BY DEF OneWriter
  <2>1. CASE n = m
    <3>1. ~again /\ \A v \in Threads : ~Writing(v, m)
      BY <1>1, <2>1
    <3>2. u = t /\ \A v \in Threads : Writing(v, n)' => v = t
      BY <1>4, <2>1, <3>1
    <3>3. desk'[u].tracked = wanted'[n]
      BY <1>1, <1>3, <2>1, <3>2 DEF DeskInv, DeskTyped
    <3>4. step = "set" => capability[m] # <<>>
      BY <3>1 DEF DeskInv, Registered
    <3> QED
      BY <1>1, <1>3, <2>1, <3>1, <3>2, <3>3, <3>4
  <2>2. CASE n # m
    <3>1. n \notin unsettled /\ u # t /\ wanted'[n] = wanted[n]
      BY <1>1, <1>4, <2>2 DEF DeskInv, DeskTyped
    <3> QED
      BY <1>1, <1>3, <1>4, <2>2, <3>1 DEF DeskInv, OneWriter
  <2> QED
    BY <2>1, <2>2
<1>7. SettingsTakeHold'
  <2> SUFFICES ASSUME NEW n \in Machines \ unsettled', machine'[n] # "absent",
                      \A u \in Threads : ~Writing(u, n)'
               PROVE  capability'[n] # <<>> /\ Head(capability'[n]) = wanted'[n]
    BY DEF SettingsTakeHold
  <2>1. n # m
    BY <1>4
  <2>2. n \notin unsettled /\ wanted'[n] = wanted[n] /\ machine[n] # "absent"
    BY <1>1, <2>1 DEF DeskInv, DeskTyped
  <2>3. \A u \in Threads : ~Writing(u, n)
    BY <1>4
  <2> QED
    BY <1>1, <2>2, <2>3 DEF DeskInv, SettingsTakeHold
<1> QED
  BY <1>2, <1>5, <1>6, <1>7 DEF DeskInv

(* A call ends that has written the capabilities it was asked for.         *)
LEMMA EndKeeps ==
    ASSUME DeskInv, NEW t \in Threads,
           AddCapability(t) \/ SetCapability(t),
           machine' = machine
    PROVE  DeskInv'
<1>0. NoCall \notin DeskCalls
  BY RegistryAssumption
<1> DEFINE m == desk[t].machine
           b == desk[t].tracked
<1>1. /\ desk[t] \in DeskCalls /\ desk[t] # NoCall /\ m \in Machines /\ b \in BOOLEAN
      /\ desk' = [desk EXCEPT ![t] = NoCall]
      /\ UNCHANGED <<wanted, unsettled>>
  BY DEF AddCapability, SetCapability, In, Leave, DeskInv,
         DeskTyped, DeskCalls
<1>2. capability[m] \in Seq(BOOLEAN)
  BY <1>1 DEF DeskInv, DeskTyped
<1>3. /\ capability' = [capability EXCEPT ![m] =
            IF desk[t].at = "add" THEN Append(capability[m], b)
                                  ELSE FirstRowSet(capability[m], b)]
  BY <1>1 DEF AddCapability, SetCapability, In, DeskCalls
<1>4. /\ capability'[m] = IF desk[t].at = "add" THEN Append(capability[m], b)
                                                ELSE FirstRowSet(capability[m], b)
      /\ \A n \in Machines \ {m} : capability'[n] = capability[n]
  BY <1>1, <1>3 DEF DeskInv, DeskTyped
<1>5. /\ capability'[m] \in Seq(BOOLEAN)
      /\ capability[m] # <<>> => capability'[m] # <<>>
      /\ desk[t].at = "add" => capability'[m] # <<>>
      /\ (desk[t].at = "add" <=> capability[m] = <<>>) => Head(capability'[m]) = b
      /\ (desk[t].at = "add" <=> capability[m] = <<>>) => capability'[m] # <<>>
  <2>1. /\ Append(capability[m], b) \in Seq(BOOLEAN) /\ Append(capability[m], b) # <<>>
        /\ capability[m] = <<>> => Head(Append(capability[m], b)) = b
        /\ FirstRowSet(capability[m], b) \in Seq(BOOLEAN)
        /\ FirstRowSet(capability[m], b) = <<>> <=> capability[m] = <<>>
        /\ capability[m] # <<>> => Head(FirstRowSet(capability[m], b)) = b
    BY <1>1, <1>2, RowLookedUp
  <2>2. CASE desk[t].at = "add"
    BY <1>4, <2>1, <2>2
  <2>3. CASE desk[t].at # "add"
    BY <1>4, <2>1, <2>3
  <2> QED
    BY <2>2, <2>3
<1>6. DeskTyped'
  BY <1>1, <1>3, <1>5 DEF DeskInv, DeskTyped
<1>7. /\ \A u \in Threads \ {t} : desk'[u] = desk[u]
      /\ desk'[t] = NoCall
  BY <1>1 DEF DeskInv, DeskTyped
<1>8. /\ \A n \in Machines, u \in Threads \ {t} : Writing(u, n)' <=> Writing(u, n)
      /\ \A n \in Machines : ~Writing(t, n)'
      /\ \A n \in Machines : Writing(t, n) <=> n = m
  BY <1>1, <1>7 DEF Writing
<1>9. Registered'
  <2> SUFFICES ASSUME NEW n \in Machines, machine[n] # "absent", capability'[n] = <<>>
               PROVE  \E u \in Threads : Writing(u, n)' /\ desk'[u].at = "add"
    BY DEF Registered
  <2>1. capability[n] = <<>> /\ (n = m => desk[t].at # "add")
    BY <1>4, <1>5
  <2>2. PICK u \in Threads : Writing(u, n) /\ desk[u].at = "add"
    BY <2>1 DEF DeskInv, Registered
  <2>3. u # t
    BY <1>8, <2>1, <2>2
  <2> QED
    BY <1>7, <1>8, <2>2, <2>3
<1>10. OneWriter'
  BY <1>1, <1>4, <1>7, <1>8 DEF DeskInv, OneWriter
<1>11. SettingsTakeHold'
  <2> SUFFICES ASSUME NEW n \in Machines \ unsettled, machine[n] # "absent",
                      \A u \in Threads : ~Writing(u, n)'
               PROVE  capability'[n] # <<>> /\ Head(capability'[n]) = wanted[n]
    BY <1>1 DEF SettingsTakeHold
  <2>1. CASE n = m
    <3>1. b = wanted[n] /\ (desk[t].at = "add" <=> capability[n] = <<>>)
      BY <1>8, <2>1 DEF DeskInv, OneWriter
    <3> QED
      BY <1>5, <2>1, <3>1
  <2>2. CASE n # m
    <3>1. \A u \in Threads : ~Writing(u, n)
      BY <1>8, <2>2
    <3> QED
      BY <1>4, <2>2, <3>1 DEF DeskInv, SettingsTakeHold
  <2> QED
    BY <2>1, <2>2
<1> QED
  BY <1>6, <1>9, <1>10, <1>11 DEF DeskInv

\* The seeded settings are a sequence of one row.
LEMMA SeedRow ==
    /\ <<>> \in Seq(BOOLEAN) /\ <<TRUE>> \in Seq(BOOLEAN)
    /\ <<TRUE>> # <<>> /\ Head(<<TRUE>>) = TRUE
<1>1. <<>> \in Seq(BOOLEAN)
  OBVIOUS
<1>2. <<TRUE>> \in Seq(BOOLEAN)
  OBVIOUS
<1>3. <<TRUE>> # <<>>
  OBVIOUS
<1>4. Append(<<>>, TRUE) = <<TRUE>>
  OBVIOUS
<1>5. Head(<<TRUE>>) = TRUE
  BY <1>1, <1>4, RowLookedUp
<1> QED
  BY <1>1, <1>2, <1>3, <1>5

(* Of the machines in the seed data, each has its capabilities on file.    *)
LEMMA SeedSettled ==
    MaintenanceInit => DeskInv
<1> SUFFICES ASSUME MaintenanceInit PROVE DeskInv
  OBVIOUS
<1>1. /\ \A t \in Threads, m \in Machines : ~Writing(t, m)
      /\ \A m \in Machines : wanted[m] = TRUE /\ machine[m] = SeedMachine[m]
      /\ \A m \in Machines : machine[m] # "absent" => capability[m] = <<TRUE>>
  BY DEF MaintenanceInit, WorkOrdersInit, SeedCapability, Writing
<1>2. SeedCapability \in [Machines -> Seq(BOOLEAN)]
  BY SeedRow DEF SeedCapability
<1>3. DeskTyped
  BY <1>2 DEF MaintenanceInit, DeskTyped
<1> QED
  BY <1>1, <1>3, SeedRow DEF DeskInv, Registered, OneWriter, SettingsTakeHold

\* A restart leaves one row of settings.
LEMMA RestartSettles ==
    DeskRestart => DeskInv'
<1> SUFFICES ASSUME DeskRestart PROVE DeskInv'
  OBVIOUS
<1>1. /\ \A t \in Threads, m \in Machines : ~Writing(t, m)'
      /\ \A m \in Machines : wanted'[m] = TRUE /\ machine'[m] = SeedMachine[m]
      /\ \A m \in Machines : machine'[m] # "absent" => capability'[m] = <<TRUE>>
  BY DEF DeskRestart, WorkOrdersRestart, SeedCapability, Writing
<1>2. SeedCapability \in [Machines -> Seq(BOOLEAN)]
  BY SeedRow DEF SeedCapability
<1>3. DeskTyped'
  BY <1>2 DEF DeskRestart, DeskTyped
<1> QED
  BY <1>1, <1>3, SeedRow DEF DeskInv, Registered, OneWriter, SettingsTakeHold

(* So every step of the desk keeps the invariant.                          *)
LEMMA SettingsStep ==
    TypeOK /\ DeskInv /\ [MaintenanceNext]_<<workVars, deskVars>> => DeskInv'
<1> SUFFICES ASSUME TypeOK, DeskInv,
[MaintenanceNext]_<<workVars, deskVars>>
             PROVE  DeskInv'
  OBVIOUS
<1>1. CASE WorkCall /\ UNCHANGED deskVars
  BY <1>1, WorkKeepsMachines, DeskUntouched DEF deskVars
<1>2. ASSUME NEW t \in Threads, NEW m \in Machines, RegisterMachine(t, m)
      PROVE  DeskInv'
  <2>1. \A n \in Machines \ {m} : machine'[n] = machine[n]
    BY <1>2 DEF RegisterMachine, AddMachine, SetMachine,
       TypeOK
  <2>2. BeginWrite(t, m, "add", capability[m] # <<>>)
    BY <1>2 DEF RegisterMachine
  <2> QED
    BY <2>1, <2>2, BeginKeeps
<1>3. ASSUME NEW t \in Threads, NEW m \in Machines, ReviseMachine(t, m)
      PROVE  DeskInv'
  <2>1. machine[m] # "absent" /\ \A n \in Machines \ {m} : machine'[n] = machine[n]
    BY <1>3 DEF ReviseMachine, UpdateMachine, SetMachine, TypeOK
  <2>2. BeginWrite(t, m, "set", FALSE)
    BY <1>3 DEF ReviseMachine
  <2> QED
    BY <2>1, <2>2, BeginKeeps
<1>4. ASSUME NEW t \in Threads, Take(t, NoCall), Rest PROVE desk' = desk
  BY <1>4 DEF Take, DeskInv, DeskTyped
<1>5. ASSUME NEW t \in Threads, NEW m \in Machines, RemoveMachine(t, m)
      PROVE  DeskInv'
  <2>1. \A n \in Machines : machine'[n] # "absent" => machine[n] # "absent"
    BY <1>5 DEF RemoveMachine, DeleteMachine, SetMachine, TypeOK
  <2> QED
    BY <1>4, <1>5, <2>1, DeskUntouched DEF RemoveMachine, Rest
<1>6. ASSUME NEW t \in Threads, MaintenanceCall(t), UNCHANGED workVars PROVE DeskInv'
  <2>1. CASE AddCapability(t) \/ SetCapability(t)
    BY <1>6, <2>1, EndKeeps DEF workVars
  <2>2. CASE ~(AddCapability(t) \/ SetCapability(t))
    <3>1. Take(t, NoCall) /\ Rest
      BY <1>6, <2>2 DEF MaintenanceCall, CreateRule, ReserveSpare,
         CreateDowntimeEvent, CreatePlan, UpdatePlan,
         CreateSparePart, CreateShutdownWindow, CreateAttachment,
         CreateMachineDocument, CreateRuntimeLog, CreateVendor,
         DraftAction, File
    <3> QED
      BY <1>4, <1>6, <3>1, DeskUntouched DEF workVars, Rest
  <2> QED
    BY <2>1, <2>2
<1>7. CASE DeskRestart
  BY <1>7, RestartSettles
<1>8. CASE UNCHANGED <<workVars, deskVars>>
  BY <1>8, DeskUntouched DEF workVars, deskVars
<1> QED
  BY <1>1, <1>2, <1>3, <1>5, <1>6, <1>7, <1>8 DEF MaintenanceNext, Registry

(* However machines are registered, updated and deleted, in calls that     *)
(* overlap with each other and with work orders, the capabilities a rule   *)
(* is checked against are those of the last call on the machine.           *)
THEOREM SettingsAreKept ==
    MaintenanceSpec => []SettingsTakeHold
<1>1. DeskInv => SettingsTakeHold
  BY DEF DeskInv
<1> QED
  BY <1>1, SeedSettled, SettingsStep, DeskKeepsWorkOrders, MaintenanceTypeCorrect,
     PTL DEF MaintenanceSpec
=============================================================================
