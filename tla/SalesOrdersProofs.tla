-------------------------- MODULE SalesOrdersProofs --------------------------
(***************************************************************************)
(* Type correctness of SalesOrders, and the proofs, for any stock, orders, *)
(* lines and threads, that an order on which no two writing calls          *)
(* overlapped is never oversold, that the rows of the reservation table    *)
(* add up to what its lines hold, and that the fill rate reported of the   *)
(* orders is a percentage.  The rest of the desk leaves the orders as they *)
(* are, so all of it holds of the whole desk.                              *)
(***************************************************************************)
EXTENDS SalesDesk, FiniteSetTheorems, WellFoundedInduction, TLAPS

(* Sums.  SumOver is a fold, defined by recursion over the subsets of a    *)
(* set; what it gives is proved by way of a smallest set it would not hold *)
(* of.                                                                     *)
Choice(s) == CHOOSE x \in s : TRUE

\* g says of every subset of T what the fold makes of it.
Adds(g, v, T) ==
    g = [s \in SUBSET T |-> IF s = {} THEN 0 ELSE v[Choice(s)] + g[s \ {Choice(s)}]]

(* A sum is the value of such a function.                                  *)
LEMMA SumIsChosen ==
    ASSUME NEW v, NEW T
    PROVE  SumOver(v, T) = (CHOOSE g : Adds(g, v, T))[T]
  BY DEF SumOver, FoldSet, MapThenFoldSet, Adds, Choice

(* Of sets of a finite set's elements, one has none of the others in it.   *)
LEMMA SmallestSet ==
    ASSUME NEW T, IsFiniteSet(T), NEW Bad, Bad \subseteq SUBSET T, Bad # {}
    PROVE  \E s \in Bad : \A r \in Bad : ~(r \subseteq s /\ r # s)
<1>1. IsWellFoundedOn(StrictSubsetOrdering(T), FiniteSubsetsOf(T))
  BY FS_StrictSubsetOrderingWellFounded
<1>2. Bad \subseteq FiniteSubsetsOf(T)
  BY FS_FiniteSubsetsOfFinite
<1>3. PICK s \in Bad : \A r \in Bad : ~(<<r, s>> \in StrictSubsetOrdering(T))
  BY <1>1, <1>2, WFMin
<1> QED
  BY <1>3 DEF StrictSubsetOrdering

(* A sum by its recursion: one element's quantity, and that of the rest.   *)
LEMMA AddsUp ==
    ASSUME NEW v, NEW T, NEW g, Adds(g, v, T), NEW s \in SUBSET T
    PROVE  /\ s = {} => g[s] = 0
           /\ s # {} => /\ Choice(s) \in s /\ s \ {Choice(s)} \in SUBSET T
                        /\ s \ {Choice(s)} \subseteq s /\ s \ {Choice(s)} # s
                        /\ g[s] = v[Choice(s)] + g[s \ {Choice(s)}]
<1>1. g[s] = IF s = {} THEN 0 ELSE v[Choice(s)] + g[s \ {Choice(s)}]
  BY DEF Adds
<1>2. s # {} => Choice(s) \in s
  BY DEF Choice
<1> QED
  BY <1>1, <1>2

(* Sums of naturals are naturals, ...                                      *)
LEMMA AddsNaturals ==
    ASSUME NEW T, IsFiniteSet(T), NEW v, \A x \in T : v[x] \in Nat, NEW g, Adds(g, v, T)
    PROVE  \A s \in SUBSET T : g[s] \in Nat
<1> DEFINE Bad == {s \in SUBSET T : g[s] \notin Nat}
<1> SUFFICES ASSUME Bad # {} PROVE FALSE
  OBVIOUS
<1>1. PICK s \in Bad : \A r \in Bad : ~(r \subseteq s /\ r # s)
  <2>1. Bad \subseteq SUBSET T
    OBVIOUS
  <2> HIDE DEF Bad
  <2> QED
    BY <2>1, SmallestSet
<1>s. s \in SUBSET T /\ g[s] \notin Nat
  OBVIOUS
<1>2. CASE s = {}
  <2>1. g[s] = 0
    BY <1>s, <1>2 DEF Adds
  <2> QED
    BY <1>s, <2>1
<1>3. CASE s # {}
  <2>1. /\ Choice(s) \in s /\ s \ {Choice(s)} \in SUBSET T
        /\ s \ {Choice(s)} \subseteq s /\ s \ {Choice(s)} # s
        /\ g[s] = v[Choice(s)] + g[s \ {Choice(s)}]
    BY <1>3, AddsUp
  <2>2. g[s \ {Choice(s)}] \in Nat
    BY <1>1, <2>1
  <2>3. v[Choice(s)] \in Nat
    BY <2>1
  <2> QED
    BY <2>1, <2>2, <2>3
<1> QED
  BY <1>2, <1>3

(* ... and grow with what is summed.                                       *)
LEMMA AddsLess ==
    ASSUME NEW S, IsFiniteSet(S), NEW v, \A x \in S : v[x] \in Nat, NEW g, Adds(g, v, S),
           NEW R, IsFiniteSet(R), NEW w, \A x \in R : w[x] \in Nat, NEW h, Adds(h, w, R),
           NEW T, T \subseteq S, T \subseteq R, \A x \in T : v[x] <= w[x]
    PROVE  g[T] <= h[T]
<1> DEFINE Bad == {s \in SUBSET T : ~(g[s] <= h[s])}
<1>0. IsFiniteSet(T) /\ T \in SUBSET T
  BY FS_Subset
<1> SUFFICES ASSUME Bad # {} PROVE FALSE
  BY <1>0
<1>1. PICK s \in Bad : \A r \in Bad : ~(r \subseteq s /\ r # s)
  <2>1. Bad \subseteq SUBSET T
    OBVIOUS
  <2> HIDE DEF Bad
  <2> QED
    BY <1>0, <2>1, SmallestSet
<1>2. s \in SUBSET S /\ s \in SUBSET R /\ s \in SUBSET T /\ ~(g[s] <= h[s])
  OBVIOUS
<1>a. \A r \in SUBSET S : g[r] \in Nat
  BY AddsNaturals
<1>b. \A r \in SUBSET R : h[r] \in Nat
  BY AddsNaturals
<1>3. CASE s = {}
  <2>1. g[s] = 0
    BY <1>2, <1>3 DEF Adds
  <2>2. h[s] = 0
    BY <1>2, <1>3 DEF Adds
  <2> QED
    BY <1>2, <2>1, <2>2
<1>4. CASE s # {}
  <2> PICK x : x = Choice(s)
    OBVIOUS
  <2>1. /\ x \in s /\ s \ {x} \in SUBSET S
        /\ s \ {x} \subseteq s /\ s \ {x} # s
        /\ g[s] = v[x] + g[s \ {x}]
    BY <1>2, <1>4, AddsUp
  <2>2. h[s] = w[x] + h[s \ {x}]
    BY <1>2, <1>4, AddsUp
  <2>3. g[s \ {x}] <= h[s \ {x}]
    BY <1>1, <1>2, <2>1
  <2>4. v[x] \in Nat /\ w[x] \in Nat /\ v[x] <= w[x]
    BY <1>2, <2>1
  <2>5. g[s \ {x}] \in Nat /\ h[s \ {x}] \in Nat /\ s \ {x} \in SUBSET R
    BY <1>2, <1>a, <1>b, <2>1
  <2> QED
    BY <1>2, <2>1, <2>2, <2>3, <2>4, <2>5
<1> QED
  BY <1>3, <1>4

(* Sums of equal quantities are equal.                                     *)
LEMMA AddsSame ==
    ASSUME NEW S, IsFiniteSet(S), NEW v, \A x \in S : v[x] \in Nat, NEW g, Adds(g, v, S),
           NEW R, IsFiniteSet(R), NEW w, \A x \in R : w[x] \in Nat, NEW h, Adds(h, w, R),
           NEW T, T \subseteq S, T \subseteq R, \A x \in T : v[x] = w[x]
    PROVE  g[T] = h[T]
<1>1. (\A x \in T : v[x] <= w[x]) /\ (\A x \in T : w[x] <= v[x])
  OBVIOUS
<1>2. g[T] <= h[T]
  BY <1>1, AddsLess
<1>3. h[T] <= g[T]
  BY <1>1, AddsLess
<1>4. g[T] \in Nat /\ h[T] \in Nat
  BY AddsNaturals
<1> QED
  BY <1>2, <1>3, <1>4

(* There is such a sum of every finite set: that of a set is made of those *)
(* of the sets in it.                                                      *)
LEMMA AddsExists ==
    ASSUME NEW T, IsFiniteSet(T), NEW v, \A x \in T : v[x] \in Nat
    PROVE  Adds(CHOOSE g : Adds(g, v, T), v, T)
<1> DEFINE Sum(s) == CHOOSE g : Adds(g, v, s)
           Bad == {s \in SUBSET T : ~(Adds(Sum(s), v, s))}
<1> SUFFICES ASSUME Bad # {} PROVE FALSE
  OBVIOUS
<1>1. PICK R \in Bad : \A r \in Bad : ~(r \subseteq R /\ r # R)
  <2>1. Bad \subseteq SUBSET T
    OBVIOUS
  <2> HIDE DEF Bad
  <2> QED
    BY <2>1, SmallestSet
<1>2. R \in SUBSET T /\ ~(\E g : Adds(g, v, R))
  OBVIOUS
<1>3. ASSUME NEW s \in SUBSET R, s # R PROVE Adds(Sum(s), v, s)
  BY <1>1, <1>2, <1>3
<1> DEFINE W(s) == Sum(s)[s]
           g == [s \in SUBSET R |->
                    IF s = {} THEN 0 ELSE v[Choice(s)] + W(s \ {Choice(s)})]
<1> HIDE DEF Sum
<1>4. ASSUME NEW r \in SUBSET R, r # R PROVE g[r] = W(r)
  <2>1. Adds(Sum(r), v, r) /\ r \in SUBSET r
    BY <1>3, <1>4
  <2>2. CASE r = {}
    <3>1. Sum(r)[r] = 0
      <4> PICK a : a = Sum(r)
        OBVIOUS
      <4>1. a[r] = 0
        BY <2>1, <2>2, AddsUp
      <4> QED
        BY <4>1
    <3> QED
      BY <2>2, <3>1
  <2>3. CASE r # {}
    <3> PICK x : x = Choice(r)
      OBVIOUS
    <3>1. /\ x \in r /\ r \ {x} \in SUBSET r /\ r \ {x} \subseteq r /\ r \ {x} # r
          /\ Sum(r)[r] = v[x] + Sum(r)[r \ {x}]
      BY <2>1, <2>3, AddsUp
    <3>2. r \ {x} \in SUBSET R /\ r \ {x} # R /\ r \subseteq T
      BY <1>2, <1>4, <3>1
    <3>3. Adds(Sum(r \ {x}), v, r \ {x})
      BY <1>3, <3>2
    <3>4. IsFiniteSet(r) /\ IsFiniteSet(r \ {x})
      BY <3>2, FS_Subset
    <3>5. Sum(r)[r \ {x}] = Sum(r \ {x})[r \ {x}]
      <4> PICK a, b, q : a = Sum(r) /\ b = Sum(r \ {x}) /\ q = r \ {x}
        OBVIOUS
      <4>1. /\ Adds(a, v, r) /\ Adds(b, v, q) /\ IsFiniteSet(r) /\ IsFiniteSet(q)
            /\ (\A y \in r : v[y] \in Nat) /\ (\A y \in q : v[y] \in Nat)
            /\ q \subseteq r /\ q \subseteq q /\ \A y \in q : v[y] = v[y]
        BY <2>1, <3>1, <3>2, <3>3, <3>4
      <4>2. a[q] = b[q]
        BY <4>1, AddsSame
      <4> QED
        BY <4>2
    <3> QED
      BY <2>3, <3>1, <3>5
  <2> QED
    BY <2>2, <2>3
<1> HIDE DEF W
<1>5. ASSUME NEW s \in SUBSET R, s # {}
      PROVE  g[s] = v[Choice(s)] + g[s \ {Choice(s)}]
  <2>1. Choice(s) \in s
    BY <1>5 DEF Choice
  <2>2. s \ {Choice(s)} \in SUBSET R /\ s \ {Choice(s)} # R
    BY <2>1
  <2>3. g[s] = v[Choice(s)] + W(s \ {Choice(s)})
    BY <1>5
  <2>4. g[s \ {Choice(s)}] = W(s \ {Choice(s)})
    BY <1>4, <2>2
  <2> QED
    BY <2>3, <2>4
<1>6. Adds(g, v, R)
  <2>1. g = [s \in SUBSET R |-> IF s = {} THEN 0 ELSE v[Choice(s)] + g[s \ {Choice(s)}]]
    BY <1>5
  <2> HIDE DEF g
  <2> QED
    BY <2>1 DEF Adds
<1> QED
  BY <1>2, <1>6

(* The order in which elements are chosen does not matter.                 *)
LEMMA AddsMore ==
    ASSUME NEW S, IsFiniteSet(S), NEW v, \A z \in S : v[z] \in Nat, NEW g, Adds(g, v, S)
    PROVE  \A T \in SUBSET S : \A x \in S \ T : g[T \cup {x}] = v[x] + g[T]
<1> DEFINE Bad == {T \in SUBSET S : \E x \in S \ T : g[T \cup {x}] # v[x] + g[T]}
<1> SUFFICES ASSUME Bad # {} PROVE FALSE
  OBVIOUS
<1>1. PICK T \in Bad : \A r \in Bad : ~(r \subseteq T /\ r # T)
  <2>1. Bad \subseteq SUBSET S
    OBVIOUS
  <2> HIDE DEF Bad
  <2> QED
    BY <2>1, SmallestSet
<1>2. T \in SUBSET S
  OBVIOUS
<1> PICK x \in S \ T : g[T \cup {x}] # v[x] + g[T]
  OBVIOUS
<1>3. ASSUME NEW r \in SUBSET T, r # T, NEW z \in S \ r PROVE g[r \cup {z}] = v[z] + g[r]
  BY <1>1, <1>2, <1>3
<1> HIDE DEF Bad
<1> PICK s : s = T \cup {x}
  OBVIOUS
<1> PICK y : y = Choice(s)
  OBVIOUS
<1>4. s \in SUBSET S /\ y \in s /\ g[s] = v[y] + g[s \ {y}]
  <2>1. s \in SUBSET S /\ s # {}
    BY <1>2
  <2>2. g[s] = v[y] + g[s \ {y}]
    BY <2>1 DEF Adds
  <2>3. y \in s
    BY <2>1 DEF Choice
  <2> QED
    BY <2>1, <2>2, <2>3
<1>5. CASE y = x
  <2>1. s \ {y} = T
    BY <1>2, <1>5
  <2> QED
    BY <1>2, <1>4, <1>5, <2>1
<1>6. CASE y # x
  <2>1. y \in T
    BY <1>4, <1>6
  <2> PICK r : r = T \ {y}
    OBVIOUS
  <2>2. /\ r \in SUBSET T /\ r # T /\ r \in SUBSET S /\ s \ {y} = r \cup {x}
        /\ r \cup {y} = T /\ x \in S \ r /\ y \in S \ r
    BY <1>2, <1>6, <2>1
  <2>3. g[s \ {y}] = v[x] + g[r]
    BY <1>3, <2>2
  <2>4. g[T] = v[y] + g[r]
    BY <1>3, <2>2
  <2>5. v[x] \in Nat /\ v[y] \in Nat /\ g[r] \in Nat
    BY <2>2, AddsNaturals
  <2> QED
    BY <1>2, <1>4, <2>3, <2>4, <2>5
<1> QED
  BY <1>5, <1>6

(* What a sum over a set is, of naturals.                                  *)
LEMMA SumIs ==
    ASSUME NEW T, IsFiniteSet(T), NEW v, \A x \in T : v[x] \in Nat
    PROVE  \E g : Adds(g, v, T) /\ SumOver(v, T) = g[T]
  BY AddsExists, SumIsChosen

(* It is a natural, ...                                                    *)
LEMMA SumIsNatural ==
    ASSUME NEW T, IsFiniteSet(T), NEW v, \A x \in T : v[x] \in Nat
    PROVE  SumOver(v, T) \in Nat
<1>1. PICK g : Adds(g, v, T) /\ SumOver(v, T) = g[T]
  BY SumIs
<1>2. g[T] \in Nat
  BY <1>1, AddsNaturals
<1> QED
  BY <1>1, <1>2

(* ... nothing for no element, ...                                         *)
LEMMA SumOfNone ==
    ASSUME NEW v
    PROVE  SumOver(v, {}) = 0
<1>1. IsFiniteSet({})
  BY FS_EmptySet
<1>2. PICK g : Adds(g, v, {}) /\ SumOver(v, {}) = g[{}]
  BY <1>1, SumIs
<1> QED
  BY <1>2 DEF Adds

(* ... grows with the quantities, ...                                      *)
LEMMA SumIsLess ==
    ASSUME NEW T, IsFiniteSet(T), NEW v, \A x \in T : v[x] \in Nat,
           NEW w, \A x \in T : w[x] \in Nat, \A x \in T : v[x] <= w[x]
    PROVE  SumOver(v, T) <= SumOver(w, T)
<1>1. PICK g : Adds(g, v, T) /\ SumOver(v, T) = g[T]
  BY SumIs
<1>2. PICK h : Adds(h, w, T) /\ SumOver(w, T) = h[T]
  BY SumIs
<1>3. g[T] <= h[T]
  BY <1>1, <1>2, AddsLess
<1> QED
  BY <1>1, <1>2, <1>3

(* ... is that of equal quantities, ...                                    *)
LEMMA SumIsSame ==
    ASSUME NEW T, IsFiniteSet(T), NEW v, \A x \in T : v[x] \in Nat,
           NEW w, \A x \in T : v[x] = w[x]
    PROVE  SumOver(v, T) = SumOver(w, T)
<1>0. \A x \in T : w[x] \in Nat
  OBVIOUS
<1>1. PICK g : Adds(g, v, T) /\ SumOver(v, T) = g[T]
  BY SumIs
<1>2. PICK h : Adds(h, w, T) /\ SumOver(w, T) = h[T]
  BY <1>0, SumIs
<1>3. g[T] = h[T]
  BY <1>0, <1>1, <1>2, AddsSame
<1> QED
  BY <1>1, <1>2, <1>3

(* ... and grows by the quantity of an element that is added.              *)
LEMMA SumOfMore ==
    ASSUME NEW T, IsFiniteSet(T), NEW x, x \notin T,
           NEW v, \A y \in T \cup {x} : v[y] \in Nat
    PROVE  SumOver(v, T \cup {x}) = v[x] + SumOver(v, T)
<1> PICK S : S = T \cup {x}
  OBVIOUS
<1>1. /\ IsFiniteSet(S) /\ T \in SUBSET S /\ x \in S \ T
      /\ (\A y \in S : v[y] \in Nat) /\ \A y \in T : v[y] \in Nat
  BY FS_AddElement
<1>2. PICK g : Adds(g, v, S) /\ SumOver(v, S) = g[S]
  BY <1>1, SumIs
<1>3. PICK h : Adds(h, v, T) /\ SumOver(v, T) = h[T]
  BY <1>1, SumIs
<1>4. g[T \cup {x}] = v[x] + g[T]
  BY <1>1, <1>2, AddsMore
<1>5. g[T] = h[T]
  <2>1. T \subseteq S /\ T \subseteq T /\ \A y \in T : v[y] = v[y]
    BY <1>1
  <2> QED
    BY <1>1, <1>2, <1>3, <2>1, AddsSame
<1> QED
  BY <1>2, <1>3, <1>4, <1>5

-----------------------------------------------------------------------------
(* max(a, 0) of an integer is a natural.                                   *)
LEMMA NotBelowZeroType ==
    ASSUME NEW a \in Int PROVE NotBelowZero(a) \in Nat
BY DEF NotBelowZero

(* The stock record is a record of naturals, so what can be promised is.   *)
LEMMA AvailableType ==
    ASSUME NEW i \in Items PROVE AvailableQuantity(i) \in Nat
<1> DEFINE s == FinishedGoods[i]
<1>1. \A f \in StockFields : s[f] \in Nat
  BY SalesAssumption
<1>2. /\ s["physical"] \in Int /\ s["reserved"] \in Int
      /\ s["allocated"] \in Int /\ s["quarantine"] \in Int
      /\ s["rejected"] \in Int /\ s["expired"] \in Int
      /\ s["dispatch_pending"] \in Int
  BY <1>1 DEF StockFields
<1>3. s["physical"] - s["reserved"] - s["allocated"] - s["quarantine"]
        - s["rejected"] - s["expired"] - s["dispatch_pending"] \in Int
  BY <1>2
<1> QED
  BY <1>3, NotBelowZeroType DEF AvailableQuantity

(* A reservation never takes more of a line than is pending on it.         *)
LEMMA ReservableBound ==
    ASSUME TypeOK, NEW l \in Lines
    PROVE  Reservable(l) \in Nat /\ Reservable(l) <= pending[l]
<1>1. LineItem[l] \in Items
  BY SalesAssumption
<1>2. AvailableQuantity(LineItem[l]) \in Nat
  BY <1>1, AvailableType
<1>3. pending[l] \in Nat
  BY DEF TypeOK
<1> QED
  BY <1>2, <1>3 DEF Reservable, Smaller

(* The values an idle thread's locals hold are an order and a line.        *)
LEMMA Chosen == AnyOrder \in Orders /\ AnyLine \in Lines
BY SalesAssumption DEF AnyOrder, AnyLine

(* The seed data is well typed.                                            *)
LEMMA TypeInit == Init => TypeOK
<1> SUFFICES ASSUME Init PROVE TypeOK
  OBVIOUS
<1> QED
  BY SalesAssumption, Chosen DEF Init, TypeOK, Steps, ServerStatuses

(* Returning from a handler keeps the thread's locals well typed.          *)
LEMMA TypeReturn ==
    ASSUME TypeOK, NEW t \in Threads, Return(t)
    PROVE  /\ pc' \in [Threads -> Steps]
           /\ ord' \in [Threads -> Orders]
           /\ todo' \in [Threads -> SUBSET Lines]
           /\ line' \in [Threads -> Lines]
           /\ qty' \in [Threads -> Nat]
           /\ rest' \in [Threads -> Nat]
           /\ short' \in [Threads -> BOOLEAN]
           /\ made' \in [Threads -> BOOLEAN]
BY Chosen DEF TypeOK, Return, Steps

(* Every step of every handler keeps the rows and the locals well typed.   *)
LEMMA TypeStep == TypeOK /\ [Next]_vars => TypeOK'
<1> SUFFICES ASSUME TypeOK, [Next]_vars PROVE TypeOK'
  OBVIOUS
<1>1. ASSUME NEW t \in Threads, NEW o \in Orders, BeginCreate(t, o)
      PROVE  TypeOK'
  BY <1>1 DEF TypeOK, BeginCreate, Steps, LinesOf
<1>2. ASSUME NEW t \in Threads, NEW o \in Orders, BeginReserve(t, o)
      PROVE  TypeOK'
  BY <1>2 DEF TypeOK, BeginReserve, Steps, LinesOf
<1>3. ASSUME NEW t \in Threads, NEW o \in Orders,
             NEW step \in {"dispatch", "pickonly"}, BeginDispatch(t, o, step)
      PROVE  TypeOK'
  BY <1>3 DEF TypeOK, BeginDispatch, Steps, LinesOf
<1>4. ASSUME NEW t \in Threads, AddLine(t) PROVE TypeOK'
  BY <1>4, SalesAssumption DEF TypeOK, AddLine
<1>5. ASSUME NEW t \in Threads, EndCreate(t) PROVE TypeOK'
  BY <1>5, TypeReturn DEF TypeOK, EndCreate
<1>6. ASSUME NEW t \in Threads, TakeLine(t) PROVE TypeOK'
  <2> PICK l \in todo[t] : line' = [line EXCEPT ![t] = l]
                           /\ qty' = [qty EXCEPT ![t] = Reservable(l)]
                           /\ todo' = [todo EXCEPT ![t] = @ \ {l}]
                           /\ pc' = [pc EXCEPT ![t] =
                                IF Reservable(l) > 0 THEN "apply" ELSE "check"]
    BY <1>6 DEF TakeLine
  <2>1. l \in Lines
    BY DEF TypeOK
  <2>2. Reservable(l) \in Nat
    BY <2>1, ReservableBound
  <2> QED
    BY <1>6, <2>1, <2>2 DEF TypeOK, TakeLine, Steps
<1>7. ASSUME NEW t \in Threads, AddReserved(t) PROVE TypeOK'
  <2> DEFINE l == line[t]
  <2>a. l \in Lines /\ qty[t] \in Nat /\ ordered[l] \in Nat
    BY DEF TypeOK
  <2>1. reserved' \in [Lines -> Nat]
    <3>1. reserved' = [reserved EXCEPT ![l] = @ + qty[t]]
      BY <1>7 DEF AddReserved
    <3>2. reserved \in [Lines -> Nat]
      BY DEF TypeOK
    <3> HIDE DEF l
    <3> QED
      BY <2>a, <3>1, <3>2
  <2>2. NotBelowZero(ordered[line[t]] - reserved'[line[t]]) \in Nat
    <3>1. reserved'[l] \in Nat
      BY <2>a, <2>1
    <3> HIDE DEF l
    <3>2. ordered[l] - reserved'[l] \in Int
      BY <2>a, <3>1
    <3> QED
      BY <3>2, NotBelowZeroType DEF l
  <2> QED
    BY <1>7, <2>1, <2>2 DEF TypeOK, AddReserved, Steps
<1>8. ASSUME NEW t \in Threads, StorePending(t) PROVE TypeOK'
  BY <1>8 DEF TypeOK, StorePending, Steps
<1>9. ASSUME NEW t \in Threads, RecordReservation(t) PROVE TypeOK'
  BY <1>9 DEF TypeOK, RecordReservation, RowQuantity, Steps
<1>10. ASSUME NEW t \in Threads, CheckShort(t) PROVE TypeOK'
  <2>1. StillShort(t) \in BOOLEAN
    BY DEF StillShort, TypeOK
  <2> QED
    BY <1>10, <2>1, Chosen DEF TypeOK, CheckShort, Steps
<1>11. ASSUME NEW t \in Threads, EndReserve(t) PROVE TypeOK'
  BY <1>11, TypeReturn DEF TypeOK, EndReserve, ServerStatuses, ReserveStatuses
<1>12. ASSUME NEW t \in Threads, PickLine(t) PROVE TypeOK'
  BY <1>12 DEF TypeOK, PickLine, PickQuantity
<1>13. ASSUME NEW t \in Threads, EndDispatch(t) PROVE TypeOK'
  BY <1>13, TypeReturn DEF TypeOK, EndDispatch, ServerStatuses
<1>14. ASSUME NEW o \in Orders, SubmitOrder(o) PROVE TypeOK'
  BY <1>14 DEF TypeOK, SubmitOrder, SetStatus, ServerStatuses
<1>15. ASSUME NEW o \in Orders, ApproveOrder(o) PROVE TypeOK'
  BY <1>15 DEF TypeOK, ApproveOrder, SetStatus, ServerStatuses
<1>16. ASSUME NEW o \in Orders, CloseOrder(o) PROVE TypeOK'
  BY <1>16 DEF TypeOK, CloseOrder, SetStatus, ServerStatuses
<1>17. ASSUME NEW o \in Orders, UpdateOrder(o) PROVE TypeOK'
  BY <1>17 DEF TypeOK, UpdateOrder, SetStatus
<1>18. ASSUME NEW o \in Orders, NEW i \in Items, NEW override \in BOOLEAN,
              CreateAllocation(o, i, override)
       PROVE  TypeOK'
  <2>1. allocations' \subseteq AllocationRows
    <3> DEFINE s == IF ~ProtectedItem(i) THEN "Allocated"
                    ELSE IF override THEN "Override Approval Required"
                    ELSE "Blocked By Protected Reservation"
    <3>1. allocations' = allocations \cup {[order |-> o, item |-> i, status |-> s]}
      BY <1>18 DEF CreateAllocation
    <3>2. s \in {"Allocated", "Override Approval Required",
                 "Blocked By Protected Reservation"}
      OBVIOUS
    <3> HIDE DEF s
    <3>3. [order |-> o, item |-> i, status |-> s] \in AllocationRows
      BY <3>2 DEF AllocationRows
    <3> QED
      BY <3>1, <3>3 DEF TypeOK
  <2> QED
    BY <1>18, <2>1 DEF TypeOK, CreateAllocation
<1>19. CASE UNCHANGED vars
  BY <1>19 DEF TypeOK, vars
<1> QED
  BY <1>1, <1>2, <1>3, <1>4, <1>5, <1>6, <1>7, <1>8, <1>9, <1>10, <1>11,
     <1>12, <1>13, <1>14, <1>15, <1>16, <1>17, <1>18, <1>19
  DEF Next, ThreadStep

(* Every value a handler stores is one the schemas allow.                  *)
THEOREM TypeCorrect == Spec => []TypeOK
BY TypeInit, TypeStep, PTL DEF Spec

-----------------------------------------------------------------------------
(* The invariant that makes NeverOversold inductive, in named parts.  All  *)
(* that is said of the quantities of a line is said of orders outside      *)
(* `overlapped`, on which OneWriter leaves a single thread at work.        *)

AtALine(t) == pc[t] \in {"apply", "store", "record", "check"}

LoopOfItsOrder ==
    \A t \in Threads :
        /\ todo[t] \subseteq LinesOf(ord[t])
        /\ AtALine(t) => line[t] \in LinesOf(ord[t]) \ todo[t]

WorkOnKnownOrders ==
    \A t \in Threads : Writing(t) => status[ord[t]] # "absent"

OneWriter ==
    \A t, u \in Threads :
        t # u /\ Writing(t) /\ Writing(u) /\ ord[t] = ord[u]
            => ord[t] \in overlapped

Untouched(l) == ordered[l] = 0 /\ reserved[l] = 0 /\ pending[l] = 0

UnknownOrdersAreEmpty ==
    \A l \in Lines : status[LineOrder[l]] = "absent" => Untouched(l)

CreatorAddsFreshLines ==
    \A t \in Threads :
        pc[t] = "create" /\ ord[t] \notin overlapped
            => \A l \in todo[t] : Untouched(l)

(* What a reserving thread has read is still so when it acts on it.        *)
ReadsStillHold ==
    \A t \in Threads :
        ord[t] \notin overlapped =>
            /\ pc[t] = "apply" => qty[t] <= pending[line[t]]
            /\ pc[t] = "store" =>
                  reserved[line[t]] + rest[t] = ordered[line[t]]

Storing(l) == \E t \in Threads : pc[t] = "store" /\ line[t] = l

LineIsSplit ==
    \A l \in Lines :
        LineOrder[l] \notin overlapped =>
            /\ reserved[l] <= ordered[l]
            /\ ~Storing(l) => reserved[l] + pending[l] = ordered[l]

Discipline ==
    LoopOfItsOrder /\ WorkOnKnownOrders /\ OneWriter

Quantified ==
    UnknownOrdersAreEmpty /\ CreatorAddsFreshLines /\ ReadsStillHold /\ LineIsSplit

OversoldInv == TypeOK /\ Discipline /\ Quantified

(* The seed data satisfies the strengthened invariant.                     *)
LEMMA OversoldInit == Init => OversoldInv
<1> SUFFICES ASSUME Init PROVE OversoldInv
  OBVIOUS
<1>1. TypeOK
  BY TypeInit
<1>2. Discipline
  BY <1>1 DEF Init, Discipline, LoopOfItsOrder, AtALine, WorkOnKnownOrders, OneWriter,
         Writing, TypeOK
<1>3. Quantified
  <2>1. UnknownOrdersAreEmpty
    BY SalesAssumption DEF Init, UnknownOrdersAreEmpty, Untouched, LinesOf
  <2>2. CreatorAddsFreshLines /\ ReadsStillHold
    BY DEF Init, CreatorAddsFreshLines, ReadsStillHold
  <2>3. LineIsSplit
    BY SalesAssumption DEF Init, LineIsSplit
  <2> QED
    BY <2>1, <2>2, <2>3 DEF Quantified
<1> QED
  BY <1>1, <1>2, <1>3 DEF OversoldInv

(* A thread keeps to the lines of its order, and a second writer of an     *)
(* order marks it.                                                         *)
LEMMA DisciplineStep ==
    ASSUME TypeOK, TypeOK', Discipline, [Next]_vars
    PROVE  Discipline'
<1> USE DEF Discipline, LoopOfItsOrder, WorkOnKnownOrders, OneWriter, AtALine,
            Writing
<1>1. ASSUME NEW t \in Threads, NEW o \in Orders, BeginCreate(t, o)
      PROVE  Discipline'
  BY <1>1, SalesAssumption DEF TypeOK, BeginCreate
<1>2. ASSUME NEW t \in Threads, NEW o \in Orders, BeginReserve(t, o)
      PROVE  Discipline'
  BY <1>2 DEF TypeOK, BeginReserve, LinesOf
<1>3. ASSUME NEW t \in Threads, NEW o \in Orders,
             NEW step \in {"dispatch", "pickonly"}, BeginDispatch(t, o, step)
      PROVE  Discipline'
  BY <1>3 DEF TypeOK, BeginDispatch, LinesOf
<1>4. ASSUME NEW t \in Threads, AddLine(t) PROVE Discipline'
  BY <1>4 DEF TypeOK, AddLine
<1>5. ASSUME NEW t \in Threads, EndCreate(t) PROVE Discipline'
  BY <1>5 DEF TypeOK, EndCreate, Return
<1>6. ASSUME NEW t \in Threads, TakeLine(t) PROVE Discipline'
  BY <1>6 DEF TypeOK, TakeLine
<1>7. ASSUME NEW t \in Threads, AddReserved(t) PROVE Discipline'
  BY <1>7 DEF TypeOK, AddReserved
<1>8. ASSUME NEW t \in Threads, StorePending(t) PROVE Discipline'
  BY <1>8 DEF TypeOK, StorePending
<1>9. ASSUME NEW t \in Threads, RecordReservation(t) PROVE Discipline'
  BY <1>9 DEF TypeOK, RecordReservation
<1>10. ASSUME NEW t \in Threads, CheckShort(t) PROVE Discipline'
  BY <1>10 DEF TypeOK, CheckShort
<1>11. ASSUME NEW t \in Threads, EndReserve(t) PROVE Discipline'
  BY <1>11 DEF TypeOK, EndReserve, Return
<1>12. ASSUME NEW t \in Threads, PickLine(t) PROVE Discipline'
  BY <1>12 DEF TypeOK, PickLine
<1>13. ASSUME NEW t \in Threads, EndDispatch(t) PROVE Discipline'
  BY <1>13 DEF TypeOK, EndDispatch, Return
<1>14. ASSUME NEW o \in Orders, SubmitOrder(o) PROVE Discipline'
  BY <1>14 DEF TypeOK, SubmitOrder, SetStatus
<1>15. ASSUME NEW o \in Orders, ApproveOrder(o) PROVE Discipline'
  BY <1>15 DEF TypeOK, ApproveOrder, SetStatus
<1>16. ASSUME NEW o \in Orders, CloseOrder(o) PROVE Discipline'
  BY <1>16 DEF TypeOK, CloseOrder, SetStatus
<1>17. ASSUME NEW o \in Orders, UpdateOrder(o) PROVE Discipline'
  BY <1>17, SalesAssumption DEF TypeOK, UpdateOrder, SetStatus
<1>18. ASSUME NEW o \in Orders, NEW i \in Items, NEW override \in BOOLEAN,
              CreateAllocation(o, i, override)
       PROVE  Discipline'
  BY <1>18 DEF CreateAllocation
<1>19. CASE UNCHANGED vars
  BY <1>19 DEF vars
<1> QED
  BY <1>1, <1>2, <1>3, <1>4, <1>5, <1>6, <1>7, <1>8, <1>9, <1>10, <1>11,
     <1>12, <1>13, <1>14, <1>15, <1>16, <1>17, <1>18, <1>19
  DEF Next, ThreadStep

(* A call that ends, and leaves the lines as they are, leaves them split.  *)
LEMMA ReturnKeepsSplit ==
    ASSUME TypeOK, Quantified, NEW t \in Threads, pc[t] # "store", Return(t),
           UNCHANGED <<ordered, reserved, pending, overlapped>>,
           \A o \in Orders : status'[o] = "absent" => status[o] = "absent"
    PROVE  Quantified'
<1>0. LineOrder \in [Lines -> Orders]
  BY SalesAssumption
<1>1. pc'[t] = "idle" /\ todo'[t] = {}
  BY DEF TypeOK, Return
<1>2. ASSUME NEW u \in Threads, u # t
      PROVE  /\ pc'[u] = pc[u] /\ ord'[u] = ord[u] /\ todo'[u] = todo[u]
             /\ line'[u] = line[u] /\ qty'[u] = qty[u] /\ rest'[u] = rest[u]
  BY <1>2 DEF TypeOK, Return
<1>3. UnknownOrdersAreEmpty'
  BY <1>0 DEF Quantified, UnknownOrdersAreEmpty, Untouched
<1>4. CreatorAddsFreshLines'
  BY <1>1, <1>2 DEF Quantified, CreatorAddsFreshLines, Untouched
<1>5. ReadsStillHold'
  BY <1>1, <1>2 DEF Quantified, ReadsStillHold
<1>6. \A l : Storing(l)' <=> Storing(l)
  BY <1>1, <1>2 DEF Storing
<1>7. LineIsSplit'
  BY <1>6 DEF Quantified, LineIsSplit
<1> QED
  BY <1>3, <1>4, <1>5, <1>7 DEF Quantified

(* What one writer at a time does to the lines of an order.                *)
LEMMA QuantifiedStep ==
    ASSUME TypeOK, TypeOK', Discipline, Quantified, [Next]_vars
    PROVE  Quantified'
<1> USE DEF Quantified, UnknownOrdersAreEmpty, CreatorAddsFreshLines,
            ReadsStillHold, LineIsSplit, Untouched, Storing
<1>0. LineOrder \in [Lines -> Orders] /\ "absent" \notin ClientStatuses
  BY SalesAssumption
<1>1. ASSUME NEW t \in Threads, NEW o \in Orders, BeginCreate(t, o)
      PROVE  Quantified'
  BY <1>0, <1>1 DEF TypeOK, BeginCreate, LinesOf
<1>2. ASSUME NEW t \in Threads, NEW o \in Orders, BeginReserve(t, o)
      PROVE  Quantified'
  BY <1>0, <1>2 DEF TypeOK, BeginReserve
<1>3. ASSUME NEW t \in Threads, NEW o \in Orders,
             NEW step \in {"dispatch", "pickonly"}, BeginDispatch(t, o, step)
      PROVE  Quantified'
  BY <1>0, <1>3 DEF TypeOK, BeginDispatch
<1>4. ASSUME NEW t \in Threads, AddLine(t) PROVE Quantified'
  BY <1>0, <1>4 DEF TypeOK, AddLine, Discipline, LoopOfItsOrder,
     WorkOnKnownOrders, OneWriter, AtALine, Writing, LinesOf
<1>5. ASSUME NEW t \in Threads, EndCreate(t) PROVE Quantified'
  BY <1>0, <1>5 DEF TypeOK, EndCreate, Return
<1>6. ASSUME NEW t \in Threads, TakeLine(t) PROVE Quantified'
  <2> PICK l \in todo[t] : line' = [line EXCEPT ![t] = l]
                           /\ qty' = [qty EXCEPT ![t] = Reservable(l)]
                           /\ todo' = [todo EXCEPT ![t] = @ \ {l}]
                           /\ pc' = [pc EXCEPT ![t] =
                                IF Reservable(l) > 0 THEN "apply" ELSE "check"]
    BY <1>6 DEF TakeLine
  <2>1. l \in Lines
    BY DEF TypeOK
  <2>2. Reservable(l) \in Nat /\ Reservable(l) <= pending[l]
    BY <2>1, ReservableBound
  <2> QED
    BY <1>0, <1>6, <2>1, <2>2 DEF TypeOK, TakeLine
<1>7. ASSUME NEW t \in Threads, AddReserved(t) PROVE Quantified'
  BY <1>0, <1>7 DEF TypeOK, AddReserved, Discipline, LoopOfItsOrder,
     WorkOnKnownOrders, OneWriter, AtALine, Writing, LinesOf, NotBelowZero
<1>8. ASSUME NEW t \in Threads, StorePending(t) PROVE Quantified'
  BY <1>0, <1>8 DEF TypeOK, StorePending, Discipline, LoopOfItsOrder,
     WorkOnKnownOrders, OneWriter, AtALine, Writing, LinesOf
<1>9. ASSUME NEW t \in Threads, RecordReservation(t) PROVE Quantified'
  BY <1>0, <1>9 DEF TypeOK, RecordReservation
<1>10. ASSUME NEW t \in Threads, CheckShort(t) PROVE Quantified'
  BY <1>0, <1>10 DEF TypeOK, CheckShort
<1>11. ASSUME NEW t \in Threads, EndReserve(t) PROVE Quantified'
  <2>1. \A o \in Orders : status'[o] = "absent" => status[o] = "absent"
    BY <1>11 DEF TypeOK, EndReserve
  <2> QED
    BY <1>11, <2>1, ReturnKeepsSplit DEF EndReserve
<1>12. ASSUME NEW t \in Threads, PickLine(t) PROVE Quantified'
  BY <1>0, <1>12 DEF TypeOK, PickLine
<1>13. ASSUME NEW t \in Threads, EndDispatch(t) PROVE Quantified'
  <2>1. \A o \in Orders : status'[o] = "absent" => status[o] = "absent"
    BY <1>13 DEF TypeOK, EndDispatch
  <2> QED
    BY <1>13, <2>1, ReturnKeepsSplit DEF EndDispatch
<1>14. ASSUME NEW o \in Orders, SubmitOrder(o) PROVE Quantified'
  BY <1>0, <1>14 DEF TypeOK, SubmitOrder, SetStatus
<1>15. ASSUME NEW o \in Orders, ApproveOrder(o) PROVE Quantified'
  BY <1>0, <1>15 DEF TypeOK, ApproveOrder, SetStatus
<1>16. ASSUME NEW o \in Orders, CloseOrder(o) PROVE Quantified'
  BY <1>0, <1>16 DEF TypeOK, CloseOrder, SetStatus
<1>17. ASSUME NEW o \in Orders, UpdateOrder(o) PROVE Quantified'
  BY <1>0, <1>17 DEF TypeOK, UpdateOrder, SetStatus
<1>18. ASSUME NEW o \in Orders, NEW i \in Items, NEW override \in BOOLEAN,
              CreateAllocation(o, i, override)
       PROVE  Quantified'
  BY <1>18 DEF CreateAllocation
<1>19. CASE UNCHANGED vars
  BY <1>19 DEF vars
<1> QED
  BY <1>1, <1>2, <1>3, <1>4, <1>5, <1>6, <1>7, <1>8, <1>9, <1>10, <1>11,
     <1>12, <1>13, <1>14, <1>15, <1>16, <1>17, <1>18, <1>19
  DEF Next, ThreadStep

(* The strengthened invariant says what was promised of an order no two    *)
(* writers have shared.                                                    *)
LEMMA OversoldSafe == OversoldInv => NeverOversold
<1> SUFFICES ASSUME OversoldInv, NEW l \in Lines,
                    LineOrder[l] \notin overlapped
             PROVE  /\ reserved[l] <= ordered[l]
                    /\ AtRest(LineOrder[l]) => reserved[l] + pending[l] = ordered[l]
  BY DEF NeverOversold
<1>1. AtRest(LineOrder[l]) => ~Storing(l)
  BY DEF AtRest, Storing, Writing, OversoldInv, Discipline, LoopOfItsOrder,
     AtALine, LinesOf
<1> QED
  BY <1>1 DEF OversoldInv, Quantified, LineIsSplit

(* However the calls of any number of threads interleave, an order on      *)
(* which two writing calls never overlapped is not reserved beyond what    *)
(* was ordered, and at rest its lines are split into reserved and pending. *)
THEOREM OrdersAreNeverOversold == Spec => []NeverOversold
<1>1. OversoldInv /\ [Next]_vars => OversoldInv'
  BY TypeStep, DisciplineStep, QuantifiedStep DEF OversoldInv
<1> QED
  BY OversoldInit, <1>1, OversoldSafe, PTL DEF Spec

-----------------------------------------------------------------------------
(* What the loop of a reserve call knows of the lines it has passed, on an *)
(* order where it is the only writer: the strengthening that carries       *)
(* StatusTellsShortage over EndReserve.                                    *)

Reserving(t) == pc[t] = "line" \/ AtALine(t)

Passed(t, l) ==
    l \in LinesOf(ord[t]) /\ l \notin todo[t] /\ ~(AtALine(t) /\ line[t] = l)

ReservesSomething ==
    \A t \in Threads : pc[t] \in {"apply", "store", "record"} => qty[t] > 0

CreatedUnreserved ==
    \A t \in Threads :
        pc[t] = "create" /\ ord[t] \notin overlapped
            => status[ord[t]] \notin ReserveStatuses

FlagsSumUp ==
    \A t \in Threads :
        Reserving(t) /\ ord[t] \notin overlapped =>
            /\ short[t] <=> \E l \in Lines : Passed(t, l) /\ pending[l] > 0
            /\ made[t] => \E l \in LinesOf(ord[t]) : booked[l] > 0

StatusInv ==
    ReservesSomething /\ CreatedUnreserved /\ FlagsSumUp /\ StatusTellsShortage

(* No thread is in a loop at start, and no seeded order has a status of a  *)
(* reservation.                                                            *)
LEMMA StatusInit == Init => StatusInv
<1> SUFFICES ASSUME Init PROVE StatusInv
  OBVIOUS
<1>1. \A t \in Threads : pc[t] = "idle"
  BY DEF Init
<1>2. \A o \in Orders : status[o] \in {"Submitted", "absent"}
  BY DEF Init
<1> QED
  BY <1>1, <1>2 DEF StatusInv, ReservesSomething, CreatedUnreserved, FlagsSumUp,
     Reserving, AtALine, StatusTellsShortage

(* Calls that touch neither lines nor reserve calls, and that give no      *)
(* order one of the three statuses.                                        *)
LEMMA StatusFrame ==
    ASSUME StatusInv,
           UNCHANGED <<pending, booked, pc, ord, todo, line, qty, short, made,
                       overlapped>>,
           \A o \in Orders : status'[o] = status[o]
                             \/ status'[o] \notin ReserveStatuses,
           TypeOK
    PROVE  StatusInv'
<1>1. ReservesSomething'
  BY DEF StatusInv, ReservesSomething
<1>2. CreatedUnreserved'
  BY DEF StatusInv, CreatedUnreserved, TypeOK
<1>3. FlagsSumUp'
  BY DEF StatusInv, FlagsSumUp, Reserving, AtALine, Passed
<1>4. StatusTellsShortage'
  BY DEF StatusInv, StatusTellsShortage, AtRest, Writing, Waiting, ReserveStatuses
<1> QED
  BY <1>1, <1>2, <1>3, <1>4 DEF StatusInv

(* What the loop's flags say of the lines it has passed stays true until   *)
(* it stores the status.                                                   *)
LEMMA StatusStep ==
    ASSUME OversoldInv, OversoldInv', StatusInv, [Next]_vars
    PROVE  StatusInv'
<1>0. /\ TypeOK /\ Discipline /\ Quantified
      /\ LineOrder \in [Lines -> Orders]
      /\ ClientStatuses \cap ReserveStatuses = {}
      /\ "absent" \notin ClientStatuses
  BY SalesAssumption DEF OversoldInv
<1>1. ASSUME NEW t \in Threads, NEW o \in Orders, BeginCreate(t, o)
      PROVE  StatusInv'
  <2>1. ReservesSomething'
    BY <1>0, <1>1 DEF StatusInv, ReservesSomething, TypeOK, BeginCreate
  <2>2. CreatedUnreserved'
    BY <1>0, <1>1 DEF StatusInv, CreatedUnreserved, TypeOK, BeginCreate
  <2>3. FlagsSumUp'
    BY <1>0, <1>1 DEF StatusInv, FlagsSumUp, Reserving, AtALine, Passed, TypeOK,
       BeginCreate
  <2>4. StatusTellsShortage'
    BY <1>0, <1>1 DEF StatusInv, StatusTellsShortage, AtRest, Writing, Waiting,
       TypeOK, BeginCreate
  <2> QED
    BY <2>1, <2>2, <2>3, <2>4 DEF StatusInv
<1>2. ASSUME NEW t \in Threads, NEW o \in Orders, BeginReserve(t, o)
      PROVE  StatusInv'
  <2>1. ReservesSomething'
    BY <1>0, <1>2 DEF StatusInv, ReservesSomething, TypeOK, BeginReserve
  <2>2. CreatedUnreserved'
    BY <1>0, <1>2 DEF StatusInv, CreatedUnreserved, TypeOK, BeginReserve
  <2>3. FlagsSumUp'
    <3>1. \A l \in LinesOf(o) : o \notin overlapped' /\ pending[l] > 0 => Present(l)
      BY <1>0, <1>2 DEF BeginReserve, Present, Quantified, LineIsSplit, Storing,
         LinesOf, Writing, Discipline, LoopOfItsOrder, AtALine, TypeOK
    <3> QED
      BY <1>0, <1>2, <3>1 DEF StatusInv, FlagsSumUp, Reserving, AtALine, Passed,
         TypeOK, BeginReserve
  <2>4. StatusTellsShortage'
    BY <1>0, <1>2 DEF StatusInv, StatusTellsShortage, AtRest, Writing, Waiting,
       TypeOK, BeginReserve
  <2> QED
    BY <2>1, <2>2, <2>3, <2>4 DEF StatusInv
<1>3. ASSUME NEW t \in Threads, NEW o \in Orders,
             NEW step \in {"dispatch", "pickonly"}, BeginDispatch(t, o, step)
      PROVE  StatusInv'
  <2>1. ReservesSomething' /\ CreatedUnreserved'
    BY <1>0, <1>3 DEF StatusInv, ReservesSomething, CreatedUnreserved, TypeOK,
       BeginDispatch
  <2>2. FlagsSumUp'
    BY <1>0, <1>3 DEF StatusInv, FlagsSumUp, Reserving, AtALine, Passed, TypeOK,
       BeginDispatch
  <2>3. StatusTellsShortage'
    BY <1>0, <1>3 DEF StatusInv, StatusTellsShortage, AtRest, Writing, Waiting,
       TypeOK, BeginDispatch
  <2> QED
    BY <2>1, <2>2, <2>3 DEF StatusInv
<1>4. ASSUME NEW t \in Threads, AddLine(t) PROVE StatusInv'
  <2>1. ReservesSomething' /\ CreatedUnreserved'
    BY <1>0, <1>4 DEF StatusInv, ReservesSomething, CreatedUnreserved, TypeOK,
       AddLine
  <2>2. \A l \in Lines :
           LineOrder[l] # ord[t] => pending'[l] = pending[l]
    BY <1>0, <1>4 DEF AddLine, Discipline, LoopOfItsOrder, LinesOf, TypeOK
  <2>3. FlagsSumUp'
    BY <1>0, <1>4, <2>2 DEF StatusInv, FlagsSumUp, Reserving, AtALine, Passed,
       TypeOK, AddLine, Discipline, OneWriter, Writing, LinesOf
  <2>4. StatusTellsShortage'
    BY <1>0, <1>4, <2>2 DEF StatusInv, StatusTellsShortage, AtRest, Writing,
       Waiting, TypeOK, AddLine, LinesOf
  <2> QED
    BY <2>1, <2>3, <2>4 DEF StatusInv
<1>5. ASSUME NEW t \in Threads, EndCreate(t) PROVE StatusInv'
  <2>1. ReservesSomething' /\ CreatedUnreserved'
    BY <1>0, <1>5 DEF StatusInv, ReservesSomething, CreatedUnreserved, TypeOK,
       EndCreate, Return
  <2>2. FlagsSumUp'
    BY <1>0, <1>5 DEF StatusInv, FlagsSumUp, Reserving, AtALine, Passed, TypeOK,
       EndCreate, Return
  <2>3. StatusTellsShortage'
    BY <1>0, <1>5 DEF StatusInv, StatusTellsShortage, AtRest, Writing, Waiting,
       TypeOK, EndCreate, Return, CreatedUnreserved, ReserveStatuses
  <2> QED
    BY <2>1, <2>2, <2>3 DEF StatusInv
<1>6. ASSUME NEW t \in Threads, TakeLine(t) PROVE StatusInv'
  <2>1. ReservesSomething' /\ CreatedUnreserved'
    BY <1>0, <1>6 DEF StatusInv, ReservesSomething, CreatedUnreserved, TypeOK,
       TakeLine
  <2>2. FlagsSumUp'
    BY <1>0, <1>6 DEF StatusInv, FlagsSumUp, Reserving, AtALine, Passed, TypeOK,
       TakeLine
  <2>3. StatusTellsShortage'
    BY <1>0, <1>6 DEF StatusInv, StatusTellsShortage, AtRest, Writing, Waiting,
       TypeOK, TakeLine
  <2> QED
    BY <2>1, <2>2, <2>3 DEF StatusInv
<1>7. ASSUME NEW t \in Threads, AddReserved(t) PROVE StatusInv'
  <2>1. ReservesSomething' /\ CreatedUnreserved'
    BY <1>0, <1>7 DEF StatusInv, ReservesSomething, CreatedUnreserved, TypeOK,
       AddReserved
  <2>2. FlagsSumUp'
    BY <1>0, <1>7 DEF StatusInv, FlagsSumUp, Reserving, AtALine, Passed, TypeOK,
       AddReserved
  <2>3. StatusTellsShortage'
    BY <1>0, <1>7 DEF StatusInv, StatusTellsShortage, AtRest, Writing, Waiting,
       TypeOK, AddReserved
  <2> QED
    BY <2>1, <2>2, <2>3 DEF StatusInv
<1>8. ASSUME NEW t \in Threads, StorePending(t) PROVE StatusInv'
  <2>1. ReservesSomething' /\ CreatedUnreserved'
    BY <1>0, <1>8 DEF StatusInv, ReservesSomething, CreatedUnreserved, TypeOK,
       StorePending
  <2>2. /\ line[t] \in LinesOf(ord[t])
        /\ \A l \in Lines \ {line[t]} : pending'[l] = pending[l]
    BY <1>0, <1>8 DEF StorePending, Discipline, LoopOfItsOrder, AtALine, TypeOK
  <2>3. FlagsSumUp'
    BY <1>0, <1>8, <2>2 DEF StatusInv, FlagsSumUp, Reserving, AtALine, Passed,
       TypeOK, StorePending, Discipline, OneWriter, Writing, LinesOf
  <2>4. StatusTellsShortage'
    <3>1. ASSUME NEW o \in Orders, AtRest(o)'
          PROVE  o # ord[t] /\ AtRest(o)
      BY <1>0, <1>8, <3>1 DEF AtRest, Writing, TypeOK, StorePending
    <3>2. ASSUME NEW o \in Orders, o # ord[t]
          PROVE  Waiting(o)' <=> Waiting(o)
      BY <2>2, <3>2 DEF Waiting, LinesOf
    <3> QED
      BY <1>8, <3>1, <3>2 DEF StatusInv, StatusTellsShortage, StorePending
  <2> QED
    BY <2>1, <2>3, <2>4 DEF StatusInv
<1>9. ASSUME NEW t \in Threads, RecordReservation(t) PROVE StatusInv'
  <2>1. ReservesSomething' /\ CreatedUnreserved'
    BY <1>0, <1>9 DEF StatusInv, ReservesSomething, CreatedUnreserved, TypeOK,
       RecordReservation
  <2>2. /\ line[t] \in LinesOf(ord[t]) /\ booked'[line[t]] > 0
        /\ \A l \in Lines : booked[l] > 0 => booked'[l] > 0
    BY <1>0, <1>9 DEF RecordReservation, RowQuantity, Discipline, LoopOfItsOrder,
       AtALine, StatusInv, ReservesSomething, TypeOK, LinesOf
  <2>3. FlagsSumUp'
    BY <1>0, <1>9, <2>2 DEF StatusInv, FlagsSumUp, Reserving, AtALine, Passed,
       TypeOK, RecordReservation, LinesOf
  <2>4. StatusTellsShortage'
    BY <1>0, <1>9, <2>2 DEF StatusInv, StatusTellsShortage, AtRest, Writing,
       Waiting, TypeOK, RecordReservation, LinesOf
  <2> QED
    BY <2>1, <2>3, <2>4 DEF StatusInv
<1>10. ASSUME NEW t \in Threads, CheckShort(t) PROVE StatusInv'
  <2>1. ReservesSomething' /\ CreatedUnreserved'
    BY <1>0, <1>10 DEF StatusInv, ReservesSomething, CreatedUnreserved, TypeOK,
       CheckShort
  <2>2. FlagsSumUp'
    <3>1. line[t] \in LinesOf(ord[t]) \ todo[t]
      BY <1>0, <1>10 DEF CheckShort, Discipline, LoopOfItsOrder, AtALine
    <3>2. \A l \in Lines : Passed(t, l)' <=> Passed(t, l) \/ l = line[t]
      BY <1>0, <1>10, <3>1 DEF CheckShort, Passed, AtALine, TypeOK
    <3>3. \A u \in Threads \ {t}, l \in Lines : Passed(u, l)' <=> Passed(u, l)
      BY <1>0, <1>10 DEF CheckShort, Passed, AtALine, TypeOK
    <3>4. short'[t] <=> short[t] \/ pending[line[t]] > 0
      BY <1>0, <1>10 DEF CheckShort, StillShort, TypeOK
    <3> QED
      BY <1>0, <1>10, <3>2, <3>3, <3>4 DEF StatusInv, FlagsSumUp, Reserving,
         AtALine, TypeOK, CheckShort
  <2>3. StatusTellsShortage'
    BY <1>0, <1>10 DEF StatusInv, StatusTellsShortage, AtRest, Writing, Waiting,
       TypeOK, CheckShort
  <2> QED
    BY <2>1, <2>2, <2>3 DEF StatusInv
<1>11. ASSUME NEW t \in Threads, EndReserve(t) PROVE StatusInv'
  <2>1. ReservesSomething' /\ CreatedUnreserved'
    BY <1>0, <1>11 DEF StatusInv, ReservesSomething, CreatedUnreserved, TypeOK,
       EndReserve, Return, Discipline, OneWriter, Writing
  <2>2. FlagsSumUp'
    BY <1>0, <1>11 DEF StatusInv, FlagsSumUp, Reserving, AtALine, Passed, TypeOK,
       EndReserve, Return
  <2>3. StatusTellsShortage'
    <3> DEFINE o == ord[t]
    <3>1. /\ status' = [status EXCEPT ![o] =
                IF short[t] /\ made[t] THEN "Partially Reserved"
                ELSE IF short[t] THEN "Production Required"
                ELSE "Fully Reserved"]
          /\ o \in Orders
          /\ UNCHANGED <<pending, booked, overlapped>>
      BY <1>0, <1>11 DEF EndReserve, TypeOK
    <3>2. o \notin overlapped =>
             /\ short[t] <=> Waiting(o)
             /\ made[t] => \E l \in LinesOf(o) : booked[l] > 0
      BY <1>0, <1>11 DEF EndReserve, StatusInv, FlagsSumUp, Reserving, AtALine,
         Passed, LinesOf, Waiting
    <3>3. \A p \in Orders \ {o} : AtRest(p)' => AtRest(p)
      BY <1>0, <1>11 DEF EndReserve, Return, AtRest, Writing, TypeOK
    <3>4. \A p \in Orders : Waiting(p)' <=> Waiting(p)
      BY <3>1 DEF Waiting
    <3>5. \A p \in Orders \ {o} : status'[p] = status[p]
      BY <3>1, <1>0 DEF TypeOK
    <3>6. status'[o] = IF short[t] /\ made[t] THEN "Partially Reserved"
                       ELSE IF short[t] THEN "Production Required"
                       ELSE "Fully Reserved"
      BY <3>1, <1>0 DEF TypeOK
    <3> HIDE DEF o
    <3> SUFFICES ASSUME NEW p \in Orders, p \notin overlapped, AtRest(p)'
                 PROVE  /\ status'[p] = "Fully Reserved" => ~Waiting(p)
                        /\ status'[p] \in {"Partially Reserved", "Production Required"}
                             => Waiting(p)
                        /\ status'[p] = "Partially Reserved"
                             => \E l \in LinesOf(p) : booked[l] > 0
      BY <3>1, <3>4 DEF StatusTellsShortage
    <3>7. CASE p = o
      BY <3>2, <3>6, <3>7
    <3>8. CASE p # o
      BY <3>3, <3>5, <3>8 DEF StatusInv, StatusTellsShortage
    <3> QED
      BY <3>7, <3>8
  <2> QED
    BY <2>1, <2>2, <2>3 DEF StatusInv
<1>12. ASSUME NEW t \in Threads, PickLine(t) PROVE StatusInv'
  <2>1. ReservesSomething' /\ CreatedUnreserved'
    BY <1>0, <1>12 DEF StatusInv, ReservesSomething, CreatedUnreserved, PickLine
  <2>2. FlagsSumUp'
    BY <1>0, <1>12 DEF StatusInv, FlagsSumUp, Reserving, AtALine, Passed, TypeOK,
       PickLine
  <2>3. StatusTellsShortage'
    BY <1>0, <1>12 DEF StatusInv, StatusTellsShortage, AtRest, Writing, Waiting,
       PickLine
  <2> QED
    BY <2>1, <2>2, <2>3 DEF StatusInv
<1>13. ASSUME NEW t \in Threads, EndDispatch(t) PROVE StatusInv'
  <2>1. ReservesSomething' /\ CreatedUnreserved'
    BY <1>0, <1>13 DEF StatusInv, ReservesSomething, CreatedUnreserved, TypeOK,
       EndDispatch, Return, ReserveStatuses
  <2>2. FlagsSumUp'
    BY <1>0, <1>13 DEF StatusInv, FlagsSumUp, Reserving, AtALine, Passed, TypeOK,
       EndDispatch, Return
  <2>3. StatusTellsShortage'
    BY <1>0, <1>13 DEF StatusInv, StatusTellsShortage, AtRest, Writing, Waiting,
       TypeOK, EndDispatch, Return
  <2> QED
    BY <2>1, <2>2, <2>3 DEF StatusInv
<1>14. ASSUME NEW o \in Orders,
              SubmitOrder(o) \/ ApproveOrder(o) \/ CloseOrder(o) \/ UpdateOrder(o)
       PROVE  StatusInv'
  <2>1. \E s \in ClientStatuses \cup {"Pending Approval",
                     "Inventory Check Pending", "Closed"} : SetStatus(o, s)
    BY <1>14 DEF SubmitOrder, ApproveOrder, CloseOrder, UpdateOrder
  <2>2. \A p \in Orders : status'[p] = status[p]
                           \/ status'[p] \notin ReserveStatuses
    BY <1>0, <2>1 DEF SetStatus, TypeOK, ReserveStatuses
  <2> QED
    BY <1>0, <2>1, <2>2, StatusFrame DEF SetStatus
<1>15. ASSUME NEW o \in Orders, NEW i \in Items, NEW override \in BOOLEAN,
              CreateAllocation(o, i, override)
       PROVE  StatusInv'
  BY <1>0, <1>15, StatusFrame DEF CreateAllocation
<1>16. CASE UNCHANGED vars
  BY <1>0, <1>16, StatusFrame DEF vars
<1> QED
  BY <1>1, <1>2, <1>3, <1>4, <1>5, <1>6, <1>7, <1>8, <1>9, <1>10, <1>11,
     <1>12, <1>13, <1>14, <1>15, <1>16
  DEF Next, ThreadStep

(* For any stock and any number of threads, the status a reserve call      *)
(* leaves on an order with no overlapping writers says truly whether       *)
(* anything is still pending.                                              *)
THEOREM StatusIsTrue == Spec => []StatusTellsShortage
<1>1. OversoldInv /\ [Next]_vars => OversoldInv'
  BY TypeStep, DisciplineStep, QuantifiedStep DEF OversoldInv
<1>2. OversoldInv /\ StatusInv /\ [Next]_vars => StatusInv'
  BY <1>1, StatusStep
<1>3. StatusInv => StatusTellsShortage
  BY DEF StatusInv
<1> QED
  BY OversoldInit, StatusInit, <1>1, <1>2, <1>3, PTL DEF Spec

(* Whatever else the desk does, its orders are those of SalesOrders: so    *)
(* what is proved above holds beside customers, shipments and key figures. *)
THEOREM DeskKeepsOrders == DeskSpec => Spec
<1>1. DeskInit => Init
  BY DEF DeskInit
<1>2. [DeskNext]_<<vars, deskVars>> => [Next]_vars
  BY DEF DeskNext, vars, deskVars
<1> QED
  BY <1>1, <1>2, PTL DEF DeskSpec, Spec

CustomerTyped == customer \in [there : BOOLEAN, deletions : Nat]

(* However many calls to delete a customer are under way, one is answered  *)
(* that it deleted the customer (delete_customer looks the row up and then *)
(* has the list remove it, which fails for a row that is gone).            *)
THEOREM DeletionsHappenOnce == DeskSpec => []DeletedOnce
<1> DEFINE Inv == CustomerTyped /\ DeletedOnce
<1>1. DeskInit => Inv
  BY DEF DeskInit, CustomerTyped, DeletedOnce
<1>2. Inv /\ [DeskNext]_<<vars, deskVars>> => Inv'
  <2> SUFFICES ASSUME Inv, [DeskNext]_<<vars, deskVars>> PROVE Inv'
    OBVIOUS
  <2>1. CASE UNCHANGED customer
    BY <2>1 DEF CustomerTyped, DeletedOnce
  <2>2. ASSUME NEW t \in Threads, RemoveCustomer(t) PROVE Inv'
    BY <2>2 DEF RemoveCustomer, Removed, CustomerTyped, DeletedOnce
  <2>3. ASSUME NEW t \in Threads, Desk(t), ~RemoveCustomer(t) PROVE UNCHANGED customer
    BY <2>3 DEF Desk, CreateCustomer, UpdateCustomer, FindCustomer, CreateRegion,
       CreateTerritory, CreatePlantRepresentative, CreateShipment, UpdateShipment,
       CreateReturn, UpdateReturn, DraftAction, ReadKpis, AnswerKpis, File, Overwrite
  <2> QED
    BY <2>1, <2>2, <2>3 DEF DeskNext, deskVars
<1>3. Inv => DeletedOnce
  OBVIOUS
<1> QED
  BY <1>1, <1>2, <1>3, PTL DEF DeskSpec

-----------------------------------------------------------------------------
(* Reservation rows.  A unit is added to the line before its row is        *)
(* stored; in between, the thread that will store it is in Unrecorded.     *)

(* The threads at work on a line, and what they add up, are known.         *)
LEMMA UnrecordedIsFinite ==
    ASSUME TypeOK, NEW l \in Lines
    PROVE  /\ IsFiniteSet(Unrecorded(l)) /\ Unrecorded(l) \subseteq Threads
           /\ \A t \in Unrecorded(l) : qty[t] \in Nat
<1>1. Unrecorded(l) \subseteq Threads
  BY DEF Unrecorded
<1> QED
  BY <1>1, SalesAssumption, FS_Subset DEF TypeOK

(* A line nobody adds to or stores a row of keeps its rows.                *)
LEMMA RowsStay ==
    ASSUME TypeOK, NEW l \in Lines, reserved[l] = booked[l] + SumOver(qty, Unrecorded(l)),
           reserved'[l] = reserved[l], booked'[l] = booked[l],
           Unrecorded(l)' = Unrecorded(l), \A t \in Unrecorded(l) : qty'[t] = qty[t]
    PROVE  reserved'[l] = booked'[l] + SumOver(qty', Unrecorded(l)')
<1> PICK U, v, w : U = Unrecorded(l) /\ v = qty /\ w = qty'
  OBVIOUS
<1>1. IsFiniteSet(U) /\ (\A x \in U : v[x] \in Nat) /\ \A x \in U : v[x] = w[x]
  BY UnrecordedIsFinite
<1>2. SumOver(v, U) = SumOver(w, U)
  BY <1>1, SumIsSame
<1> QED
  BY <1>2

(* Steps that neither add to a line nor store a row.                       *)
LEMMA RowsQuiet ==
    ASSUME TypeOK, RowsBackReservations, UNCHANGED <<reserved, booked>>,
           \A t \in Threads :
              /\ pc'[t] \in {"store", "record"} <=> pc[t] \in {"store", "record"}
              /\ pc[t] \in {"store", "record"} => line'[t] = line[t] /\ qty'[t] = qty[t]
    PROVE  RowsBackReservations'
<1> SUFFICES ASSUME NEW l \in Lines
             PROVE  reserved'[l] = booked'[l] + SumOver(qty', Unrecorded(l)')
  BY DEF RowsBackReservations
<1>1. Unrecorded(l)' = Unrecorded(l) /\ \A t \in Unrecorded(l) : qty'[t] = qty[t]
  BY DEF Unrecorded
<1> QED
  BY <1>1, RowsStay DEF RowsBackReservations

(* A unit is added to a line, and its thread will store a row for it.      *)
LEMMA RowsAhead ==
    ASSUME TypeOK, RowsBackReservations, NEW t \in Threads, AddReserved(t)
    PROVE  RowsBackReservations'
<1> SUFFICES ASSUME NEW l \in Lines
             PROVE  reserved'[l] = booked'[l] + SumOver(qty', Unrecorded(l)')
  BY DEF RowsBackReservations
<1>1. /\ pc[t] = "apply" /\ pc' = [pc EXCEPT ![t] = "store"]
      /\ reserved' = [reserved EXCEPT ![line[t]] = @ + qty[t]]
      /\ UNCHANGED <<booked, line, qty>>
  BY DEF AddReserved
<1>2. pc \in [Threads -> Steps] /\ reserved \in [Lines -> Nat] /\ qty[t] \in Nat
  BY DEF TypeOK
<1>3. CASE line[t] = l
  <2> PICK U, v : U = Unrecorded(l) /\ v = qty
    OBVIOUS
  <2>1. t \notin U /\ Unrecorded(l)' = U \cup {t}
    BY <1>1, <1>2, <1>3 DEF Unrecorded
  <2>2. IsFiniteSet(U) /\ \A x \in U \cup {t} : v[x] \in Nat
    BY <1>2, UnrecordedIsFinite
  <2>3. SumOver(v, U \cup {t}) = v[t] + SumOver(v, U)
    BY <2>1, <2>2, SumOfMore
  <2>4. SumOver(v, U) \in Nat /\ booked[l] \in Nat /\ v[t] \in Nat
    BY <2>2, SumIsNatural DEF TypeOK
  <2>5. reserved[l] = booked[l] + SumOver(v, U)
    BY DEF RowsBackReservations
  <2>6. reserved'[l] = reserved[l] + v[t] /\ booked' = booked /\ qty' = v
    BY <1>1, <1>2, <1>3
  <2>7. SumOver(qty', Unrecorded(l)') = SumOver(v, U \cup {t})
    BY <2>1, <2>6
  <2> QED
    BY <2>3, <2>4, <2>5, <2>6, <2>7
<1>4. CASE line[t] # l
  <2>1. Unrecorded(l)' = Unrecorded(l)
    BY <1>1, <1>2, <1>4 DEF Unrecorded
  <2>2. reserved'[l] = reserved[l]
    BY <1>1, <1>2, <1>4
  <2> QED
    BY <1>1, <2>1, <2>2, RowsStay DEF RowsBackReservations
<1> QED
  BY <1>3, <1>4

(* The row is stored.                                                      *)
LEMMA RowsCatchUp ==
    ASSUME TypeOK, RowsBackReservations, NEW t \in Threads, RecordReservation(t)
    PROVE  RowsBackReservations'
<1> SUFFICES ASSUME NEW l \in Lines
             PROVE  reserved'[l] = booked'[l] + SumOver(qty', Unrecorded(l)')
  BY DEF RowsBackReservations
<1>1. /\ pc[t] = "record" /\ pc' = [pc EXCEPT ![t] = "check"]
      /\ booked' = [booked EXCEPT ![line[t]] = @ + qty[t]]
      /\ UNCHANGED <<reserved, line, qty>>
  BY DEF RecordReservation, RowQuantity
<1>2. pc \in [Threads -> Steps] /\ booked \in [Lines -> Nat] /\ qty[t] \in Nat
  BY DEF TypeOK
<1>3. CASE line[t] = l
  <2> PICK U, V, v : U = Unrecorded(l) /\ V = Unrecorded(l)' /\ v = qty
    OBVIOUS
  <2>1. t \notin V /\ U = V \cup {t}
    BY <1>1, <1>2, <1>3 DEF Unrecorded
  <2>2. IsFiniteSet(V) /\ \A x \in V \cup {t} : v[x] \in Nat
    <3>1. IsFiniteSet(U) /\ (\A x \in U : v[x] \in Nat) /\ V \subseteq U
      BY <2>1, UnrecordedIsFinite
    <3> QED
      BY <2>1, <3>1, FS_Subset
  <2>3. SumOver(v, V \cup {t}) = v[t] + SumOver(v, V)
    BY <2>1, <2>2, SumOfMore
  <2>4. SumOver(v, V) \in Nat /\ booked[l] \in Nat /\ v[t] \in Nat
    BY <2>2, SumIsNatural DEF TypeOK
  <2>5. reserved[l] = booked[l] + SumOver(v, V \cup {t})
    BY <2>1 DEF RowsBackReservations
  <2>6. booked'[l] = booked[l] + v[t] /\ reserved' = reserved /\ qty' = v
    BY <1>1, <1>2, <1>3
  <2> QED
    BY <2>3, <2>4, <2>5, <2>6
<1>4. CASE line[t] # l
  <2>1. Unrecorded(l)' = Unrecorded(l)
    BY <1>1, <1>2, <1>4 DEF Unrecorded
  <2>2. booked'[l] = booked[l]
    BY <1>1, <1>2, <1>4
  <2> QED
    BY <1>1, <2>1, <2>2, RowsStay DEF RowsBackReservations
<1> QED
  BY <1>3, <1>4

(* Every other step leaves the threads that will store a row alone.        *)
LEMMA RowsStep ==
    ASSUME TypeOK, RowsBackReservations, [Next]_vars
    PROVE  RowsBackReservations'
<1> DEFINE Quiet ==
       /\ UNCHANGED <<reserved, booked>>
       /\ \A t \in Threads :
             /\ pc'[t] \in {"store", "record"} <=> pc[t] \in {"store", "record"}
             /\ pc[t] \in {"store", "record"} => line'[t] = line[t] /\ qty'[t] = qty[t]
<1>0. /\ pc \in [Threads -> Steps] /\ line \in [Threads -> Lines]
      /\ qty \in [Threads -> Nat]
  BY DEF TypeOK
<1>1. ASSUME NEW t \in Threads, NEW o \in Orders,
             \/ BeginCreate(t, o) \/ BeginReserve(t, o)
             \/ \E step \in {"dispatch", "pickonly"} : BeginDispatch(t, o, step)
      PROVE  Quiet
  BY <1>0, <1>1 DEF BeginCreate, BeginReserve, BeginDispatch
<1>2. ASSUME NEW t \in Threads,
             AddLine(t) \/ TakeLine(t) \/ StorePending(t) \/ CheckShort(t) \/ PickLine(t)
      PROVE  Quiet
  BY <1>0, <1>2 DEF AddLine, TakeLine, StorePending, CheckShort, PickLine
<1>3. ASSUME NEW t \in Threads, EndCreate(t) \/ EndReserve(t) \/ EndDispatch(t)
      PROVE  Quiet
  BY <1>0, <1>3 DEF EndCreate, EndReserve, EndDispatch, Return
<1>4. ASSUME NEW o \in Orders,
             \/ SubmitOrder(o) \/ ApproveOrder(o) \/ CloseOrder(o) \/ UpdateOrder(o)
             \/ \E i \in Items, override \in BOOLEAN : CreateAllocation(o, i, override)
      PROVE  Quiet
  BY <1>4 DEF SubmitOrder, ApproveOrder, CloseOrder, UpdateOrder, SetStatus, CreateAllocation
<1>5. UNCHANGED vars => Quiet
  BY DEF vars
<1>6. Quiet => RowsBackReservations'
  BY RowsQuiet
<1> HIDE DEF Quiet
<1>7. ASSUME NEW t \in Threads, ThreadStep(t) PROVE RowsBackReservations'
  BY <1>2, <1>3, <1>6, <1>7, RowsAhead, RowsCatchUp DEF ThreadStep
<1> QED
  BY <1>1, <1>4, <1>5, <1>6, <1>7 DEF Next

(* Even when calls overlap, every unit reserved on a line is on a          *)
(* reservation row or on the row a thread is about to store                *)
(* (sales_service.reserve_order adds to the item first).                   *)
THEOREM RowsTellReservations == Spec => []RowsBackReservations
<1>1. Init => RowsBackReservations
  <2> SUFFICES ASSUME Init, NEW l \in Lines
               PROVE  reserved[l] = booked[l] + SumOver(qty, Unrecorded(l))
    BY DEF RowsBackReservations
  <2>1. Unrecorded(l) = {} /\ reserved[l] = 0 /\ booked[l] = 0
    BY DEF Init, Unrecorded
  <2>2. SumOver(qty, {}) = 0
    BY SumOfNone
  <2> QED
    BY <2>1, <2>2
<1>2. TypeOK /\ RowsBackReservations /\ [Next]_vars => RowsBackReservations'
  BY RowsStep
<1> QED
  BY <1>1, <1>2, TypeInit, TypeStep, PTL DEF Spec

-----------------------------------------------------------------------------
(* Key figures.                                                            *)

\* What a call that answers key figures has added up is no more than what has been
\* ordered by now.
DeskCalls == [at : {"delete", "kpis"}, seen : Nat]

SeenInv ==
    /\ desk \in [Threads -> DeskCalls \cup {NoCall}]
    /\ \A t \in Threads :
          In(t, "kpis") => desk[t].seen <= Total(ordered) \/ overlapped # {}

(* A part is no more than all of it, in percent.                           *)
LEMMA Percentage ==
    ASSUME NEW whole \in Nat, whole > 0, NEW part \in Nat, part <= whole
    PROVE  (part * 100) \div whole <= 100
<1>1. (part * 100) <= whole * 100
  OBVIOUS
<1> QED
  BY <1>1

(* Lines are ordered once, and orders that overlapped stay so.             *)
LEMMA OrderedGrows ==
    ASSUME OversoldInv, [Next]_vars, overlapped' = {}
    PROVE  overlapped = {} /\ \A l \in Lines : ordered[l] <= ordered'[l]
<1>0. ordered \in [Lines -> Nat] /\ CreatorAddsFreshLines
  BY DEF OversoldInv, TypeOK, Quantified
<1> DEFINE Same == UNCHANGED <<ordered, overlapped>>
<1>1. ASSUME NEW t \in Threads, NEW o \in Orders,
             BeginCreate(t, o) \/ \E step \in {"dispatch", "pickonly"} : BeginDispatch(t, o, step)
      PROVE  Same
  BY <1>1 DEF BeginCreate, BeginDispatch
<1>2. ASSUME NEW t \in Threads, NEW o \in Orders, BeginReserve(t, o)
      PROVE  ordered' = ordered /\ overlapped = {}
  BY <1>2 DEF BeginReserve
<1>3. ASSUME NEW t \in Threads, AddLine(t)
      PROVE  overlapped = {} /\ \A l \in Lines : ordered[l] <= ordered'[l]
  <2>1. PICK l \in todo[t], q \in Quantities :
          pc[t] = "create" /\ ordered' = [ordered EXCEPT ![l] = q] /\ overlapped' = overlapped
    BY <1>3 DEF AddLine
  <2>2. ordered[l] = 0 /\ q \in Nat
    BY <1>0, <2>1, SalesAssumption DEF CreatorAddsFreshLines, Untouched
  <2> QED
    BY <1>0, <2>1, <2>2
<1>4. ASSUME NEW t \in Threads, ThreadStep(t), ~AddLine(t) PROVE Same
  BY <1>4 DEF ThreadStep, EndCreate, TakeLine, AddReserved, StorePending, RecordReservation,
              CheckShort, EndReserve, PickLine, EndDispatch, Return
<1>5. ASSUME NEW o \in Orders,
             \/ SubmitOrder(o) \/ ApproveOrder(o) \/ CloseOrder(o) \/ UpdateOrder(o)
             \/ \E i \in Items, override \in BOOLEAN : CreateAllocation(o, i, override)
      PROVE  Same
  BY <1>5 DEF SubmitOrder, ApproveOrder, CloseOrder, UpdateOrder, SetStatus, CreateAllocation
<1>6. UNCHANGED vars => Same
  BY DEF vars
<1>7. Same => overlapped = {} /\ \A l \in Lines : ordered[l] <= ordered'[l]
  BY <1>0
<1> HIDE DEF Same
<1> QED
  BY <1>0, <1>1, <1>2, <1>3, <1>4, <1>5, <1>6, <1>7 DEF Next

(* So the sum of what was ordered never falls, and what is reserved is     *)
(* part of it.                                                             *)
LEMMA TotalsGrow ==
    ASSUME OversoldInv, OversoldInv', [Next]_vars, overlapped' = {}
    PROVE  Total(ordered) <= Total(ordered)'
<1> PICK v, w : v = ordered /\ w = ordered'
  OBVIOUS
<1>1. (\A l \in Lines : v[l] \in Nat) /\ \A l \in Lines : w[l] \in Nat
  BY DEF OversoldInv, TypeOK
<1>2. \A l \in Lines : v[l] <= w[l]
  BY OrderedGrows
<1>3. SumOver(v, Lines) <= SumOver(w, Lines)
  BY <1>1, <1>2, SumIsLess, SalesAssumption
<1> QED
  BY <1>3 DEF Total

(* The totals of well-typed orders are natural numbers.                    *)
LEMMA TotalsAreNaturals ==
    ASSUME TypeOK
    PROVE  Total(ordered) \in Nat /\ Total(reserved) \in Nat
<1>1. (\A l \in Lines : ordered[l] \in Nat) /\ \A l \in Lines : reserved[l] \in Nat
  BY DEF TypeOK
<1> QED
  BY <1>1, SumIsNatural, SalesAssumption DEF Total

(* As long as no order is oversold, what is reserved of all the lines is   *)
(* part of what is ordered of them.                                        *)
LEMMA ReservedIsPart ==
    ASSUME OversoldInv, overlapped = {}
    PROVE  Total(reserved) <= Total(ordered)
<1> PICK v, w : v = reserved /\ w = ordered
  OBVIOUS
<1>1. (\A l \in Lines : v[l] \in Nat) /\ \A l \in Lines : w[l] \in Nat
  BY DEF OversoldInv, TypeOK
<1>2. \A l \in Lines : v[l] <= w[l]
  BY DEF OversoldInv, Quantified, LineIsSplit
<1>3. SumOver(v, Lines) <= SumOver(w, Lines)
  BY <1>1, <1>2, SumIsLess, SalesAssumption
<1> QED
  BY <1>3 DEF Total

(* Orders that go on beside the desk only add to what was ordered.         *)
LEMMA SeenBesideOrders ==
    ASSUME OversoldInv, OversoldInv', SeenInv, [Next]_vars, UNCHANGED desk
    PROVE  SeenInv'
<1>1. desk' \in [Threads -> DeskCalls \cup {NoCall}]
  BY DEF SeenInv
<1>2. ASSUME NEW t \in Threads, In(t, "kpis")', overlapped' = {}
      PROVE  desk'[t].seen <= Total(ordered)'
  <2>1. In(t, "kpis") /\ overlapped = {}
    BY <1>2, OrderedGrows DEF In
  <2>2. desk[t].seen <= Total(ordered) /\ desk[t].seen \in Nat
    BY <2>1 DEF SeenInv, In, DeskCalls
  <2>3. Total(ordered) <= Total(ordered)'
    BY <1>2, TotalsGrow
  <2>4. Total(ordered) \in Nat
    BY TotalsAreNaturals DEF OversoldInv
  <2>5. Total(ordered)' \in Nat
    <3> PICK w : w = ordered'
      OBVIOUS
    <3>1. \A l \in Lines : w[l] \in Nat
      BY DEF OversoldInv, TypeOK
    <3>2. SumOver(w, Lines) \in Nat
      BY <3>1, SumIsNatural, SalesAssumption
    <3> QED
      BY <3>2 DEF Total
  <2> QED
    BY <2>2, <2>3, <2>4, <2>5
<1> QED
  BY <1>1, <1>2 DEF SeenInv

(* A call of the desk that adds up the reserved quantities sees no more    *)
(* than what is ordered.                                                   *)
LEMMA SeenByTheDesk ==
    ASSUME OversoldInv, SeenInv, NEW t \in Threads, Desk(t), UNCHANGED vars
    PROVE  SeenInv'
<1>0. /\ desk \in [Threads -> DeskCalls \cup {NoCall}] /\ NoCall \notin DeskCalls
      /\ ordered' = ordered /\ overlapped' = overlapped
  BY DeskAssumption DEF SeenInv, DeskCalls, vars
<1>1. PICK next \in DeskCalls \cup {NoCall} :
         /\ desk' = [desk EXCEPT ![t] = next]
         /\ next # NoCall /\ next.at = "kpis" => next.seen = Total(reserved)
  <2>1. CASE ReadKpis(t)
    <3> PICK seen, next : seen = Total(reserved) /\ next = [at |-> "kpis", seen |-> seen]
      OBVIOUS
    <3>1. desk' = [desk EXCEPT ![t] = next]
      BY <2>1 DEF ReadKpis, Take
    <3>2. seen \in Nat
      BY TotalsAreNaturals DEF OversoldInv
    <3>3. next \in DeskCalls /\ next.seen = Total(reserved)
      BY <3>2 DEF DeskCalls
    <3> QED
      BY <3>1, <3>3
  <2>2. CASE FindCustomer(t)
    <3> PICK next : next = [at |-> "delete", seen |-> 0]
      OBVIOUS
    <3>1. desk' = [desk EXCEPT ![t] = next]
      BY <2>2 DEF FindCustomer, Take
    <3>2. next \in DeskCalls /\ next.at # "kpis"
      BY DEF DeskCalls
    <3> QED
      BY <3>1, <3>2
  <2>3. CASE desk' = [desk EXCEPT ![t] = NoCall]
    BY <2>3
  <2> QED
    BY <2>1, <2>2, <2>3 DEF Desk, CreateCustomer, UpdateCustomer, CreateRegion,
       CreateTerritory, CreatePlantRepresentative, CreateShipment, UpdateShipment,
       CreateReturn, UpdateReturn, DraftAction, AnswerKpis, RemoveCustomer, File, Overwrite,
       Take, Leave
<1>2. desk' \in [Threads -> DeskCalls \cup {NoCall}]
  BY <1>0, <1>1
<1>3. Total(ordered)' = Total(ordered)
  BY <1>0 DEF Total
<1>4. ASSUME NEW u \in Threads, In(u, "kpis")', overlapped' = {}
      PROVE  desk'[u].seen <= Total(ordered)
  <2>1. CASE u = t
    <3>1. desk'[u].seen = Total(reserved)
      BY <1>0, <1>1, <1>4, <2>1 DEF In
    <3>2. Total(reserved) <= Total(ordered)
      BY <1>0, <1>4, ReservedIsPart
    <3> QED
      BY <3>1, <3>2
  <2>2. CASE u # t
    <3>1. desk'[u] = desk[u]
      BY <1>0, <1>1, <2>2
    <3> QED
      BY <1>0, <1>4, <3>1 DEF SeenInv, In
  <2> QED
    BY <2>1, <2>2
<1> QED
  BY <1>2, <1>3, <1>4 DEF SeenInv

(* The fill rate that is answered is a percentage, though orders are       *)
(* created and reserved between its two sums (sales_service.kpis), unless  *)
(* two calls have written the lines of one order at one time.              *)
THEOREM FillRatesArePercentages == DeskSpec => []FillRateIsAPercentage
<1>1. DeskInit => OversoldInv /\ SeenInv
  BY OversoldInit DEF DeskInit, SeenInv, In
<1>2. OversoldInv /\ SeenInv /\ [DeskNext]_<<vars, deskVars>> => OversoldInv' /\ SeenInv'
  <2> SUFFICES ASSUME OversoldInv, SeenInv, [DeskNext]_<<vars, deskVars>>
               PROVE  OversoldInv' /\ SeenInv'
    OBVIOUS
  <2>1. [Next]_vars
    BY DEF DeskNext, vars, deskVars
  <2>2. OversoldInv'
    BY <2>1, TypeStep, DisciplineStep, QuantifiedStep DEF OversoldInv
  <2>3. CASE UNCHANGED desk
    BY <2>1, <2>2, <2>3, SeenBesideOrders
  <2>4. CASE \E t \in Threads : Desk(t) /\ UNCHANGED vars
    <3> PICK t \in Threads : Desk(t) /\ UNCHANGED vars
      BY <2>4
    <3>1. SeenInv'
      BY SeenByTheDesk
    <3> QED
      BY <2>2, <3>1
  <2> QED
    BY <2>2, <2>3, <2>4 DEF DeskNext, deskVars
<1>3. OversoldInv /\ SeenInv => FillRateIsAPercentage
  <2> SUFFICES ASSUME OversoldInv, SeenInv, NEW t \in Threads, In(t, "kpis"), overlapped = {}
               PROVE  FillRate(desk[t].seen) <= 100
    BY DEF FillRateIsAPercentage
  <2> PICK seen, all : seen = desk[t].seen /\ all = Total(ordered)
    OBVIOUS
  <2>1. seen \in Nat /\ all \in Nat /\ seen <= all
    BY TotalsAreNaturals DEF OversoldInv, SeenInv, In, DeskCalls
  <2>2. CASE all > 0
    <3>1. (seen * 100) \div all <= 100
      BY <2>1, <2>2, Percentage
    <3> QED
      BY <2>2, <3>1 DEF FillRate
  <2>3. CASE all = 0
    <3>1. seen = 0
      BY <2>1, <2>3
    <3> QED
      BY <2>3, <3>1 DEF FillRate
  <2> QED
    BY <2>1, <2>2, <2>3
<1> QED
  BY <1>1, <1>2, <1>3, PTL DEF DeskSpec
=============================================================================
