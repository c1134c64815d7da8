--------------------------- MODULE CostLimitProofs ---------------------------
(***************************************************************************)
(* Proofs about CostLimit: that a block is justified, and by how much a    *)
(* monthly limit may be overrun, for every number of requests, users and   *)
(* keys, all limits and costs, and any length of a month.                  *)
(***************************************************************************)
EXTENDS CostLimit, FiniteSetTheorems, TLAPS

-----------------------------------------------------------------------------
(* Sums. *)

\* A sum of numbers up to d over a finite set is at most d for each of them.
LEMMA SumBound ==
  ASSUME NEW f, NEW S, IsFiniteSet(S), NEW d \in Nat, \A x \in S : f[x] \in 0 .. d
  PROVE  /\ IsFiniteSet(Units(f, S))
         /\ SumOver(f, S) \in Nat
         /\ SumOver(f, S) <= Cardinality(S) * d
<1>1. IsFiniteSet(1 .. d) /\ Cardinality(1 .. d) = d
  BY FS_Interval
<1>2. IsFiniteSet(S \X (1 .. d)) /\ Cardinality(S \X (1 .. d)) = Cardinality(S) * d
  BY <1>1, FS_Product
<1>3. Units(f, S) \subseteq S \X (1 .. d)
  <2> SUFFICES ASSUME NEW x \in S, NEW k \in 1 .. f[x]
               PROVE  <<x, k>> \in S \X (1 .. d)
    BY DEF Units
  <2>1. QED
    OBVIOUS
<1>4. IsFiniteSet(Units(f, S)) /\ Cardinality(Units(f, S)) <= Cardinality(S \X (1 .. d))
  BY <1>2, <1>3, FS_Subset
<1>5. QED
  BY <1>2, <1>4, FS_CardinalityType DEF SumOver

\* A sum over part of a set is not greater.
LEMMA SumMonotone ==
  ASSUME NEW f, NEW S, NEW T \in SUBSET S, IsFiniteSet(Units(f, S))
  PROVE  SumOver(f, T) <= SumOver(f, S)
<1>1. Units(f, T) \subseteq Units(f, S)
  BY DEF Units
<1>2. QED
  BY <1>1, FS_Subset DEF SumOver

\* A sum over a union is at most the two sums together.
LEMMA SumUnion ==
  ASSUME NEW f, NEW S, NEW T, IsFiniteSet(Units(f, S)), IsFiniteSet(Units(f, T))
  PROVE  /\ IsFiniteSet(Units(f, S \cup T))
         /\ SumOver(f, S \cup T) <= SumOver(f, S) + SumOver(f, T)
<1>1. Units(f, S \cup T) = Units(f, S) \cup Units(f, T)
  BY DEF Units
<1> DEFINE A == Units(f, S)
           B == Units(f, T)
<1>2. /\ IsFiniteSet(A \cup B)
      /\ Cardinality(A \cup B) = Cardinality(A) + Cardinality(B) - Cardinality(A \cap B)
  BY FS_Union
<1>3. IsFiniteSet(A \cap B)
  BY FS_Intersection
<1>4. Cardinality(A) \in Nat /\ Cardinality(B) \in Nat /\ Cardinality(A \cap B) \in Nat
  BY <1>3, FS_CardinalityType
<1>5. Cardinality(A \cup B) <= Cardinality(A) + Cardinality(B)
  BY <1>2, <1>4
<1>6. QED
  BY <1>1, <1>2, <1>5 DEF SumOver

\* The same column has the same sum.
LEMMA SumSame ==
  ASSUME NEW f, NEW g, NEW S, \A x \in S : f[x] = g[x]
  PROVE  SumOver(f, S) = SumOver(g, S)
<1>1. \A p : p \in Units(f, S) <=> \E x \in S : p \in {x} \X (1 .. f[x])
  BY DEF Units
<1>2. \A p : p \in Units(g, S) <=> \E x \in S : p \in {x} \X (1 .. g[x])
  BY DEF Units
<1>3. Units(f, S) = Units(g, S)
  BY <1>1, <1>2
<1>4. QED
  BY <1>3 DEF SumOver

-----------------------------------------------------------------------------
(* Months. *)

\* A month starts on a whole second, at a multiple of its length.
LEMMA MonthStartIs ==
  ASSUME NEW t \in Nat
  PROVE  \E q \in Nat : /\ MonthStart(t) = q * MonthTicks
                        /\ MonthStart(t) <= t /\ t < MonthStart(t) + MonthTicks
<1> DEFINE q == t \div MonthTicks
<1>1. /\ q \in Nat /\ t % MonthTicks \in 0 .. MonthTicks - 1
      /\ t = (MonthTicks * q) + (t % MonthTicks)
  BY TimeAssumption
<1>2. MonthTicks * q = q * MonthTicks
  BY <1>1, TimeAssumption
<1>3. MonthStart(t) = q * MonthTicks
  BY <1>1, <1>2, TimeAssumption DEF MonthStart
<1>4. QED
  BY <1>1, <1>2, <1>3, TimeAssumption

LEMMA WholeSeconds ==
  ASSUME NEW q \in Nat
  PROVE  q * MonthTicks \in Nat /\ (q * MonthTicks) % 10 = 0
<1>1. PICK m \in Nat : MonthTicks = 10 * m
  <2>1. MonthTicks = 10 * (MonthTicks \div 10) /\ MonthTicks \div 10 \in Nat
    BY TimeAssumption
  <2>2. QED
    BY <2>1
<1>2. q * MonthTicks = 10 * (q * m) /\ q * m \in Nat
  BY <1>1
<1>3. QED
  BY <1>2

\* Multiples of the length of a month are that far apart.
LEMMA MultiplesApart ==
  ASSUME NEW q \in Nat, NEW p \in Nat, q < p
  PROVE  q * MonthTicks + MonthTicks <= p * MonthTicks
<1>1. PICK d \in Nat : p = q + 1 + d
  <2>1. p - q - 1 \in Nat /\ p = q + 1 + (p - q - 1)
    OBVIOUS
  <2>2. QED
    BY <2>1
<1>2. p * MonthTicks = q * MonthTicks + MonthTicks + d * MonthTicks
  BY <1>1, TimeAssumption
<1>3. d * MonthTicks \in Nat /\ q * MonthTicks \in Nat /\ MonthTicks \in Nat
  BY TimeAssumption
<1>4. QED
  BY <1>2, <1>3

\* An instant is in one month only.
LEMMA MonthUnique ==
  ASSUME NEW s \in Nat, NEW t \in Nat,
         MonthStart(t) <= s, s < MonthStart(t) + MonthTicks
  PROVE  MonthStart(s) = MonthStart(t)
<1>1. PICK q \in Nat : MonthStart(t) = q * MonthTicks
  BY MonthStartIs
<1>2. PICK p \in Nat : /\ MonthStart(s) = p * MonthTicks
                       /\ MonthStart(s) <= s /\ s < MonthStart(s) + MonthTicks
  BY MonthStartIs
<1>3. q * MonthTicks \in Nat /\ p * MonthTicks \in Nat /\ MonthTicks \in Nat
  BY TimeAssumption
<1>4. ~(q < p)
  BY <1>1, <1>2, <1>3, MultiplesApart
<1>5. ~(p < q)
  BY <1>1, <1>2, <1>3, MultiplesApart
<1>6. QED
  BY <1>1, <1>2, <1>4, <1>5

\* A row counted in a month and not stamped late was stamped in that month.
LEMMA StampedInMonth ==
  ASSUME NEW s \in Nat, NEW t \in Nat, (s % MonthTicks) \notin 1 .. 9,
         TextAtOrAfter(s, MonthStart(t)), TextBefore(s, MonthStart(t) + MonthTicks)
  PROVE  MonthStart(t) <= s /\ s < MonthStart(t) + MonthTicks
<1>1. PICK q \in Nat : MonthStart(t) = q * MonthTicks
  BY MonthStartIs
<1>2. /\ MonthStart(t) \in Nat /\ MonthStart(t) % 10 = 0
      /\ MonthTicks \in Nat \ {0} /\ (MonthStart(t) + MonthTicks) % 10 = 0
  <2>1. MonthStart(t) \in Nat /\ MonthStart(t) % 10 = 0
    BY <1>1, WholeSeconds
  <2>2. QED
    BY <2>1, TimeAssumption
<1>3. TextKey(MonthStart(t)) = MonthStart(t) + 9
        /\ TextKey(MonthStart(t) + MonthTicks) = MonthStart(t) + MonthTicks + 9
  BY <1>2 DEF TextKey
<1>4. MonthStart(t) <= s
  BY <1>2, <1>3 DEF TextAtOrAfter, TextKey
<1>5. s < MonthStart(t) + MonthTicks + 10 /\ (s % 10 = 0 => s < MonthStart(t) + MonthTicks)
  BY <1>2, <1>3 DEF TextBefore, TextKey
<1>6. SUFFICES ASSUME s >= MonthStart(t) + MonthTicks PROVE FALSE
  BY <1>2, <1>4
<1>7. MonthTicks >= 10
  BY TimeAssumption
<1>8. MonthStart(s) = MonthStart(t) + MonthTicks
  <2>1. PICK p \in Nat : /\ MonthStart(s) = p * MonthTicks
                         /\ MonthStart(s) <= s /\ s < MonthStart(s) + MonthTicks
    BY MonthStartIs
  <2>2. q * MonthTicks \in Nat /\ p * MonthTicks \in Nat /\ (q + 1) * MonthTicks \in Nat
    BY TimeAssumption
  <2>3. (q + 1) * MonthTicks = MonthStart(t) + MonthTicks
    BY <1>1, TimeAssumption
  <2>4. ~(q + 1 < p)
    BY <1>5, <1>7, <2>1, <2>2, <2>3, MultiplesApart, TimeAssumption
  <2>5. ~(p < q + 1)
    BY <1>6, <2>1, <2>2, <2>3, MultiplesApart, TimeAssumption
  <2>6. QED
    BY <2>1, <2>3, <2>4, <2>5
<1>9. s - MonthStart(s) \in 1 .. 9
  BY <1>2, <1>5, <1>6, <1>8
<1>10. s % MonthTicks = s - MonthStart(s)
  <2> DEFINE m == s % MonthTicks
  <2>1. m \in 0 .. MonthTicks - 1
    BY TimeAssumption
  <2>2. MonthStart(s) = s - m
    BY DEF MonthStart
  <2> HIDE DEF m
  <2>3. m = s - (s - m)
    BY <2>1
  <2>4. QED
    BY <2>2, <2>3 DEF m
<1>11. QED
  BY <1>9, <1>10

-----------------------------------------------------------------------------
(* The types, and the order a request goes through its stages in. *)

Stages == {"idle", "arrived", "check", "open", "refused", "stamped", "recorded", "gone"}

TypeOK ==
  /\ now \in Instants
  /\ stage \in [Requests -> Stages]
  /\ at \in [Requests -> Nat]
  /\ key \in [Requests -> Keys \cup {NoKey}]
  /\ limit \in [Requests -> Nat]
  /\ under \in [Requests -> Nat]
  /\ cost \in [Requests -> Costs \cup {Null}]
  /\ recordedAt \in [Requests -> Nat]
  /\ rows \subseteq Requests
  /\ blocked \subseteq Requests
  /\ peak \in [Users -> Nat]

Ordered ==
  \A x \in Requests :
    /\ stage[x] # "idle" => key[x] \in Keys
    /\ at[x] <= now
    /\ recordedAt[x] <= now
    /\ stage[x] \in {"stamped", "recorded"} => at[x] <= recordedAt[x]
    /\ x \in rows <=> stage[x] = "recorded"
    /\ under[x] # NoLimit \/ x \in blocked =>
         stage[x] \notin {"idle", "arrived", "check", "refused"}

\* The requests of u that are in flight were counted.
Flights(u) == {x \in Requests : stage[x] \in InFlight /\ UserOf[key[x]] = u}

PeakCounts == \A u \in Users : Cardinality(Flights(u)) <= peak[u]

IInv == TypeOK /\ Ordered /\ PeakCounts

-----------------------------------------------------------------------------
(* What a limit may be overrun by. *)

\* The rows SpendBound sums up.
Counted(u, l, t) ==
  {x \in RowsOf(u) : InMonth(x, t) /\ ~StampedLate(x) /\ under[x] \in 1 .. l}

\* The requests that may still add such a row without another check in the month of t.
Pending(u, l, t) ==
  {x \in Requests :
     /\ stage[x] \in {"check", "open", "stamped"}
     /\ UserOf[key[x]] = u
     /\ at[x] < MonthStart(t) + MonthTicks
     /\ IF stage[x] = "check" THEN at[x] < MonthStart(t) ELSE under[x] \in 1 .. l}

\* P holds the rows the last check in that month saw and F the requests that were in
\* flight at it.  Together they are all that is counted or will be before the next.
Covers(u, l, t, P, F) ==
  /\ SumOf(P) < l
  /\ Cardinality(F) <= peak[u]
  /\ Counted(u, l, t) \cup Pending(u, l, t) \subseteq P \cup F

Bounded(u, l, t) ==
  \E P \in SUBSET rows, F \in SUBSET Requests : Covers(u, l, t, P, F)

BoundInv ==
  \A u \in Users, l \in Limits \ {NoLimit}, t \in Instants : Bounded(u, l, t)

-----------------------------------------------------------------------------
(* The type invariant and the order of the stages hold. *)

LEMMA FlightsFinite ==
  ASSUME NEW u
  PROVE  IsFiniteSet(Flights(u)) /\ Cardinality(Flights(u)) \in Nat
<1>1. Flights(u) \subseteq Requests
  BY DEF Flights
<1>2. QED
  BY <1>1, RequestsAssumption, FS_Subset, FS_CardinalityType

\* The peak never falls, and it counts the request that comes in.
LEMMA PeakGrows ==
  ASSUME TypeOK, NEW k \in Keys, CountFlights(k)
  PROVE  /\ peak' \in [Users -> Nat]
         /\ \A u \in Users : peak[u] <= peak'[u]
         /\ Cardinality(Flights(UserOf[k])) + 1 <= peak'[UserOf[k]]
<1> DEFINE c == Cardinality(Flights(UserOf[k]))
<1>1. c \in Nat
  BY FlightsFinite
<1>2. UserOf[k] \in Users
  BY KeysAssumption
<1>3. peak' = [peak EXCEPT ![UserOf[k]] = IF c + 1 > @ THEN c + 1 ELSE @]
  BY DEF CountFlights, Flights
<1>4. peak \in [Users -> Nat]
  BY DEF TypeOK
<1> HIDE DEF c
<1>5. /\ peak' \in [Users -> Nat]
      /\ \A u \in Users : peak[u] <= peak'[u]
      /\ c + 1 <= peak'[UserOf[k]]
  BY <1>1, <1>2, <1>3, <1>4
<1>6. QED
  BY <1>5 DEF c

LEMMA InitIInv == Init => IInv
<1> SUFFICES ASSUME Init PROVE IInv
  OBVIOUS
<1>1. TypeOK
  BY TimeAssumption, MoneyAssumption DEF Init, TypeOK, Stages, NoLimit
<1>2. Ordered
  BY TimeAssumption DEF Init, Ordered, NoLimit
<1>3. PeakCounts
  <2> SUFFICES ASSUME NEW u \in Users PROVE Cardinality(Flights(u)) <= peak[u]
    BY DEF PeakCounts
  <2>1. Flights(u) = {}
    BY DEF Flights, Init, InFlight
  <2>2. QED
    BY <2>1, FS_EmptySet DEF Init
<1>4. QED
  BY <1>1, <1>2, <1>3 DEF IInv

LEMMA NextTypeOK == IInv /\ [Next]_vars => TypeOK'
<1> SUFFICES ASSUME IInv, [Next]_vars PROVE TypeOK'
  OBVIOUS
<1>0. TypeOK
  BY DEF IInv
<1>1. ASSUME NEW r \in Requests, NEW k \in Keys, Refuse(r, k) PROVE TypeOK'
  BY <1>0, <1>1, PeakGrows DEF Refuse, Goto, TypeOK, Stages
<1>2. ASSUME NEW r \in Requests, NEW k \in Keys, NEW l \in Limits, Arrive(r, k, l)
      PROVE  TypeOK'
  BY <1>0, <1>2, MoneyAssumption DEF Arrive, Goto, TypeOK, Stages
<1>a. ASSUME NEW r \in Requests, Enter(r) PROVE TypeOK'
  <2>1. key[r] \in Keys
    BY <1>a DEF Enter, IInv, Ordered
  <2>2. peak' \in [Users -> Nat]
    BY <1>0, <1>a, <2>1, PeakGrows DEF Enter
  <2>3. QED
    BY <1>0, <1>a, <2>2, TimeAssumption DEF Enter, Goto, TypeOK, Stages
<1>3. ASSUME NEW r \in Requests, Check(r) PROVE TypeOK'
  BY <1>0, <1>3 DEF Check, Goto, TypeOK, Stages
<1>4. ASSUME NEW r \in Requests, CheckFails(r) PROVE TypeOK'
  BY <1>0, <1>4 DEF CheckFails, Goto, TypeOK, Stages
<1>5. ASSUME NEW r \in Requests, Stamp(r) PROVE TypeOK'
  BY <1>0, <1>5, TimeAssumption DEF Stamp, Goto, TypeOK, Stages
<1>6. ASSUME NEW r \in Requests, Insert(r) PROVE TypeOK'
  BY <1>0, <1>6 DEF Insert, Goto, TypeOK, Stages
<1>7. ASSUME NEW S \in SUBSET Requests, Lose(S) PROVE TypeOK'
  BY <1>0, <1>7 DEF Lose, TypeOK, Stages
<1>8. CASE Tick
  BY <1>0, <1>8 DEF Tick, request, TypeOK
<1>9. CASE UNCHANGED vars
  BY <1>0, <1>9 DEF vars, request, TypeOK
<1>10. QED
  BY <1>1, <1>2, <1>a, <1>3, <1>4, <1>5, <1>6, <1>7, <1>8, <1>9 DEF Next

LEMMA NextOrdered == IInv /\ [Next]_vars => Ordered'
<1> SUFFICES ASSUME IInv, [Next]_vars, NEW x \in Requests
             PROVE  /\ stage'[x] # "idle" => key'[x] \in Keys
                    /\ at'[x] <= now'
                    /\ recordedAt'[x] <= now'
                    /\ stage'[x] \in {"stamped", "recorded"} => at'[x] <= recordedAt'[x]
                    /\ x \in rows' <=> stage'[x] = "recorded"
                    /\ under'[x] # NoLimit \/ x \in blocked'
                         => stage'[x] \notin {"idle", "arrived", "check", "refused"}
  BY DEF Ordered
<1> DEFINE Goal == /\ stage'[x] # "idle" => key'[x] \in Keys
                   /\ at'[x] <= now'
                   /\ recordedAt'[x] <= now'
                   /\ stage'[x] \in {"stamped", "recorded"} => at'[x] <= recordedAt'[x]
                   /\ x \in rows' <=> stage'[x] = "recorded"
                   /\ under'[x] # NoLimit \/ x \in blocked'
                        => stage'[x] \notin {"idle", "arrived", "check", "refused"}
<1>0. TypeOK /\ now \in Nat /\ Ordered
  BY TimeAssumption DEF IInv, TypeOK
<1>1. ASSUME NEW r \in Requests, NEW k \in Keys, Refuse(r, k) PROVE Goal
  BY <1>0, <1>1 DEF Refuse, Goto, TypeOK, Ordered
<1>2. ASSUME NEW r \in Requests, NEW k \in Keys, NEW l \in Limits, Arrive(r, k, l)
      PROVE  Goal
  BY <1>0, <1>2 DEF Arrive, Goto, TypeOK, Ordered
<1>a. ASSUME NEW r \in Requests, Enter(r) PROVE Goal
  BY <1>0, <1>a DEF Enter, Goto, TypeOK, Ordered
<1>3. ASSUME NEW r \in Requests, Check(r) PROVE Goal
  BY <1>0, <1>3 DEF Check, Goto, TypeOK, Ordered
<1>4. ASSUME NEW r \in Requests, CheckFails(r) PROVE Goal
  BY <1>0, <1>4 DEF CheckFails, Goto, TypeOK, Ordered
<1>5. ASSUME NEW r \in Requests, Stamp(r) PROVE Goal
  BY <1>0, <1>5 DEF Stamp, Goto, TypeOK, Ordered
<1>6. ASSUME NEW r \in Requests, Insert(r) PROVE Goal
  BY <1>0, <1>6 DEF Insert, Goto, TypeOK, Ordered
<1>7. ASSUME NEW S \in SUBSET Requests, Lose(S) PROVE Goal
  BY <1>0, <1>7 DEF Lose, TypeOK, Ordered, InFlight
<1>8. CASE Tick
  BY <1>0, <1>8, TimeAssumption DEF Tick, request, TypeOK, Ordered
<1>9. CASE UNCHANGED vars
  BY <1>0, <1>9 DEF vars, request, TypeOK, Ordered
<1>10. QED
  BY <1>1, <1>2, <1>a, <1>3, <1>4, <1>5, <1>6, <1>7, <1>8, <1>9 DEF Next

LEMMA AddBound ==
  ASSUME NEW S, IsFiniteSet(S), NEW r
  PROVE  /\ IsFiniteSet(S \cup {r}) /\ Cardinality(S \cup {r}) \in Nat
         /\ Cardinality(S \cup {r}) <= Cardinality(S) + 1
<1>1. /\ IsFiniteSet(S \cup {r}) /\ Cardinality(S \cup {r}) \in Nat
      /\ Cardinality(S) \in Nat
  BY FS_AddElement, FS_CardinalityType
<1>2. Cardinality(S \cup {r}) \in {Cardinality(S), Cardinality(S) + 1}
  <2>1. CASE r \in S
    <3>1. S \cup {r} = S
      BY <2>1
    <3>2. QED
      BY <3>1
  <2>2. CASE r \notin S
    BY <2>2, FS_AddElement
  <2>3. QED
    BY <2>1, <2>2
<1>3. QED
  BY <1>1, <1>2

\* Only a request that comes in is added to those in flight.
LEMMA FlightsChange ==
  ASSUME IInv, [Next]_vars
  PROVE  \/ /\ peak' = peak
            /\ \A u : Flights(u)' \subseteq Flights(u)
         \/ \E r \in Requests, k \in Keys :
              /\ CountFlights(k)
              /\ \A u : Flights(u)' \subseteq
                          Flights(u) \cup (IF u = UserOf[k] THEN {r} ELSE {})
<1> DEFINE Falls == /\ peak' = peak
                    /\ \A u : Flights(u)' \subseteq Flights(u)
<1>0. TypeOK
  BY DEF IInv
<1>1. ASSUME NEW r \in Requests, NEW k \in Keys, Refuse(r, k)
      PROVE  /\ CountFlights(k)
             /\ \A u : Flights(u)' \subseteq Flights(u) \cup (IF u = UserOf[k] THEN {r} ELSE {})
  BY <1>0, <1>1 DEF Refuse, Goto, TypeOK, Flights
<1>2. ASSUME NEW r \in Requests, NEW k \in Keys, NEW l \in Limits, Arrive(r, k, l)
      PROVE  Falls
  BY <1>0, <1>2 DEF Arrive, Goto, TypeOK, Flights, InFlight
<1>a. ASSUME NEW r \in Requests, Enter(r)
      PROVE  \E k \in Keys :
               /\ CountFlights(k)
               /\ \A u : Flights(u)' \subseteq Flights(u) \cup (IF u = UserOf[k] THEN {r} ELSE {})
  <2>1. key[r] \in Keys
    BY <1>a DEF Enter, IInv, Ordered
  <2>2. CountFlights(key[r])
    BY <1>a DEF Enter
  <2>3. \A u : Flights(u)' \subseteq Flights(u) \cup (IF u = UserOf[key[r]] THEN {r} ELSE {})
    BY <1>0, <1>a DEF Enter, Goto, TypeOK, Flights
  <2>4. QED
    BY <2>1, <2>2, <2>3
<1>3. ASSUME NEW r \in Requests, Check(r) \/ CheckFails(r) PROVE Falls
  BY <1>0, <1>3 DEF Check, CheckFails, Goto, TypeOK, Flights, InFlight
<1>5. ASSUME NEW r \in Requests, Stamp(r) PROVE Falls
  BY <1>0, <1>5 DEF Stamp, Goto, TypeOK, Flights, InFlight
<1>6. ASSUME NEW r \in Requests, Insert(r) PROVE Falls
  BY <1>0, <1>6 DEF Insert, Goto, TypeOK, Flights, InFlight
<1>7. ASSUME NEW S \in SUBSET Requests, Lose(S) PROVE Falls
  BY <1>0, <1>7 DEF Lose, TypeOK, Flights, InFlight
<1>8. CASE Tick \/ UNCHANGED vars
  BY <1>0, <1>8 DEF Tick, request, vars, Flights
<1>10. QED
  BY <1>1, <1>2, <1>a, <1>3, <1>5, <1>6, <1>7, <1>8 DEF Next

LEMMA PeakKept == ASSUME IInv, [Next]_vars
                  PROVE  \A u \in Users : peak[u] <= peak'[u]
<1>0. TypeOK
  BY DEF IInv
<1>1. CASE peak' = peak
  BY <1>0, <1>1 DEF TypeOK
<1>2. ASSUME NEW k \in Keys, CountFlights(k) PROVE \A u \in Users : peak[u] <= peak'[u]
  BY <1>0, <1>2, PeakGrows
<1>3. QED
  BY <1>1, <1>2, FlightsChange

LEMMA NextPeakCounts == IInv /\ [Next]_vars => PeakCounts'
<1> SUFFICES ASSUME IInv, [Next]_vars, NEW u \in Users
             PROVE  Cardinality(Flights(u)') <= peak'[u]
  BY DEF PeakCounts
<1>0. TypeOK /\ Cardinality(Flights(u)) <= peak[u] /\ peak[u] \in Nat
  BY DEF IInv, PeakCounts, TypeOK
<1>1. IsFiniteSet(Flights(u)) /\ Cardinality(Flights(u)) \in Nat
  BY FlightsFinite
<1>2. TypeOK' /\ peak'[u] \in Nat
  <2>1. TypeOK'
    BY NextTypeOK
  <2>2. QED
    BY <2>1 DEF TypeOK
<1>3. peak[u] <= peak'[u]
  BY PeakKept
<1>4. CASE Flights(u)' \subseteq Flights(u)
  <2>1. Cardinality(Flights(u)') <= Cardinality(Flights(u)) /\ Cardinality(Flights(u)') \in Nat
    BY <1>1, <1>4, FS_Subset, FS_CardinalityType
  <2>2. QED
    BY <1>0, <1>1, <1>2, <1>3, <2>1
<1>5. ASSUME NEW r \in Requests, NEW k \in Keys, CountFlights(k), u = UserOf[k],
             Flights(u)' \subseteq Flights(u) \cup {r}
      PROVE  Cardinality(Flights(u)') <= peak'[u]
  <2>1. /\ IsFiniteSet(Flights(u) \cup {r})
        /\ Cardinality(Flights(u) \cup {r}) \in Nat
        /\ Cardinality(Flights(u) \cup {r}) <= Cardinality(Flights(u)) + 1
    BY <1>1, AddBound
  <2>2. /\ Cardinality(Flights(u)') <= Cardinality(Flights(u) \cup {r})
        /\ Cardinality(Flights(u)') \in Nat
    BY <1>5, <2>1, FS_Subset, FS_CardinalityType
  <2>3. Cardinality(Flights(u)) + 1 <= peak'[u]
    BY <1>0, <1>5, PeakGrows
  <2>4. QED
    BY <1>1, <1>2, <2>1, <2>2, <2>3
<1>6. QED
  <2>1. CASE \E r \in Requests, k \in Keys :
               /\ CountFlights(k)
               /\ \A v : Flights(v)' \subseteq Flights(v) \cup (IF v = UserOf[k] THEN {r} ELSE {})
    <3>1. PICK r \in Requests, k \in Keys :
            /\ CountFlights(k)
            /\ Flights(u)' \subseteq Flights(u) \cup (IF u = UserOf[k] THEN {r} ELSE {})
      BY <2>1
    <3>2. CASE u = UserOf[k]
      BY <3>1, <3>2, <1>5
    <3>3. CASE u # UserOf[k]
      BY <3>1, <3>3, <1>4
    <3>4. QED
      BY <3>2, <3>3
  <2>2. CASE \A v : Flights(v)' \subseteq Flights(v)
    <3>1. Flights(u)' \subseteq Flights(u)
      BY <2>2
    <3>2. QED
      BY <1>4, <3>1
  <2>3. QED
    BY <2>1, <2>2, FlightsChange

LEMMA NextIInv == IInv /\ [Next]_vars => IInv'
BY NextTypeOK, NextOrdered, NextPeakCounts DEF IInv

\* The variables keep their types, a request goes through its stages in order and is
\* stamped after it came in, and no user ever has more requests in flight than were
\* counted: what the bound on the overrun is stated with (cost_limit.go:29, server.go:850).
THEOREM TypeCorrect == Spec => []IInv
BY InitIInv, NextIInv, PTL DEF Spec

-----------------------------------------------------------------------------
(* The sums of the model. *)

\* The column c summed up over S, without its NULLs: SumOf(S) is Column(cost, S).
Column(c, S) == SumOver(c, {x \in S : c[x] # Null})

LEMMA ColumnOfCost ==
  \A S : SumOf(S) = Column(cost, S)
BY DEF SumOf, Column

LEMMA DearestIs == Dearest \in Nat /\ \A c \in Costs : c \in 0 .. Dearest
<1>1. Dearest \in Costs /\ \A d \in Costs : d <= Dearest
  BY DearestAssumption DEF Dearest
<1>2. QED
  BY <1>1, MoneyAssumption

LEMMA ColumnBound ==
  ASSUME NEW c \in [Requests -> Costs \cup {Null}], NEW S \in SUBSET Requests
  PROVE  /\ IsFiniteSet(Units(c, {x \in S : c[x] # Null}))
         /\ Column(c, S) \in Nat
         /\ Column(c, S) <= Cardinality(S) * Dearest
<1> DEFINE T == {x \in S : c[x] # Null}
<1>1. /\ IsFiniteSet(S) /\ Cardinality(S) \in Nat
      /\ IsFiniteSet(T) /\ Cardinality(T) \in Nat /\ Cardinality(T) <= Cardinality(S)
  <2>1. IsFiniteSet(S) /\ Cardinality(S) \in Nat
    BY RequestsAssumption, FS_Subset, FS_CardinalityType
  <2>2. T \subseteq S
    OBVIOUS
  <2>3. QED
    BY <2>1, <2>2, FS_Subset, FS_CardinalityType
<1>2. \A x \in T : c[x] \in 0 .. Dearest
  BY DearestIs
<1>3. Dearest \in Nat
  BY DearestIs
<1> HIDE DEF T
<1>4. /\ IsFiniteSet(Units(c, T))
      /\ SumOver(c, T) \in Nat
      /\ SumOver(c, T) <= Cardinality(T) * Dearest
  BY <1>1, <1>2, <1>3, SumBound
<1>5. Cardinality(T) * Dearest <= Cardinality(S) * Dearest
  <2> DEFINE d == Cardinality(S) - Cardinality(T)
  <2>1. d \in Nat /\ Cardinality(S) = Cardinality(T) + d
    BY <1>1
  <2> HIDE DEF d
  <2>2. Cardinality(S) * Dearest = Cardinality(T) * Dearest + d * Dearest
    BY <1>1, <1>3, <2>1
  <2>3. d * Dearest \in Nat /\ Cardinality(T) * Dearest \in Nat
    BY <1>1, <1>3, <2>1
  <2>4. QED
    BY <2>2, <2>3
<1>6. Cardinality(T) * Dearest \in Nat /\ Cardinality(S) * Dearest \in Nat
  BY <1>1, <1>3
<1>7. SumOver(c, T) <= Cardinality(S) * Dearest
  BY <1>4, <1>5, <1>6
<1>8. QED
  BY <1>4, <1>7 DEF Column, T

LEMMA ColumnMonotone ==
  ASSUME NEW c \in [Requests -> Costs \cup {Null}], NEW S \in SUBSET Requests,
         NEW T \in SUBSET S
  PROVE  Column(c, T) <= Column(c, S)
<1>1. {x \in T : c[x] # Null} \in SUBSET {x \in S : c[x] # Null}
  OBVIOUS
<1>2. IsFiniteSet(Units(c, {x \in S : c[x] # Null}))
  BY ColumnBound
<1>3. QED
  BY <1>1, <1>2, SumMonotone DEF Column

LEMMA ColumnUnion ==
  ASSUME NEW c \in [Requests -> Costs \cup {Null}], NEW S \in SUBSET Requests,
         NEW T \in SUBSET Requests
  PROVE  Column(c, S \cup T) <= Column(c, S) + Column(c, T)
<1>1. {x \in S \cup T : c[x] # Null} = {x \in S : c[x] # Null} \cup {x \in T : c[x] # Null}
  OBVIOUS
<1>2. /\ IsFiniteSet(Units(c, {x \in S : c[x] # Null}))
      /\ IsFiniteSet(Units(c, {x \in T : c[x] # Null}))
  BY ColumnBound
<1>3. QED
  BY <1>1, <1>2, SumUnion DEF Column

\* A sum depends on the costs of its rows alone.
LEMMA ColumnSame ==
  ASSUME NEW c, NEW d, NEW S, \A x \in S : c[x] = d[x]
  PROVE  Column(c, S) = Column(d, S)
<1>1. {x \in S : c[x] # Null} = {x \in S : d[x] # Null}
  OBVIOUS
<1>2. \A x \in {x \in S : c[x] # Null} : c[x] = d[x]
  OBVIOUS
<1>3. SumOver(c, {x \in S : c[x] # Null}) = SumOver(d, {x \in S : c[x] # Null})
  BY <1>2, SumSame
<1>4. QED
  BY <1>1, <1>3 DEF Column

\* The empty sum is less than any limit.
LEMMA ColumnEmpty == \A c : Column(c, {}) = 0
<1> SUFFICES ASSUME NEW c PROVE Column(c, {}) = 0
  OBVIOUS
<1>1. Units(c, {x \in {} : c[x] # Null}) = {}
  BY DEF Units
<1>2. QED
  BY <1>1, FS_EmptySet DEF Column, SumOver

-----------------------------------------------------------------------------
(* What a step leaves alone. *)

\* A request that has arrived keeps its key and its limit, and from its check its instant.
LEMMA EnteredKept ==
  ASSUME IInv, [Next]_vars, NEW x \in Requests, stage[x] # "idle"
  PROVE  /\ stage'[x] # "idle" /\ key'[x] = key[x] /\ limit'[x] = limit[x]
         /\ stage[x] # "arrived" => at'[x] = at[x]
         /\ stage[x] # "check" => under'[x] = under[x]
<1> DEFINE Goal == /\ stage'[x] # "idle" /\ key'[x] = key[x] /\ limit'[x] = limit[x]
                   /\ stage[x] # "arrived" => at'[x] = at[x]
                   /\ stage[x] # "check" => under'[x] = under[x]
<1>0. TypeOK
  BY DEF IInv
<1>1. ASSUME NEW r \in Requests, NEW k \in Keys, Refuse(r, k) PROVE Goal
  BY <1>0, <1>1 DEF Refuse, Goto, TypeOK
<1>2. ASSUME NEW r \in Requests, NEW k \in Keys, NEW l \in Limits, Arrive(r, k, l)
      PROVE  Goal
  BY <1>0, <1>2 DEF Arrive, Goto, TypeOK
<1>a. ASSUME NEW r \in Requests, Enter(r) PROVE Goal
  BY <1>0, <1>a DEF Enter, Goto, TypeOK
<1>3. ASSUME NEW r \in Requests, Check(r) \/ CheckFails(r) PROVE Goal
  BY <1>0, <1>3 DEF Check, CheckFails, Goto, TypeOK
<1>5. ASSUME NEW r \in Requests, Stamp(r) PROVE Goal
  BY <1>0, <1>5 DEF Stamp, Goto, TypeOK
<1>6. ASSUME NEW r \in Requests, Insert(r) PROVE Goal
  BY <1>0, <1>6 DEF Insert, Goto, TypeOK
<1>7. ASSUME NEW S \in SUBSET Requests, Lose(S) PROVE Goal
  BY <1>0, <1>7 DEF Lose, TypeOK
<1>8. CASE Tick \/ UNCHANGED vars
  BY <1>0, <1>8 DEF Tick, request, vars
<1>10. QED
  BY <1>1, <1>2, <1>a, <1>3, <1>5, <1>6, <1>7, <1>8 DEF Next

\* A stamp and a cost are fixed before the row is inserted, and a row stays.
LEMMA StampKept ==
  ASSUME IInv, [Next]_vars, NEW x \in Requests, stage[x] \in {"stamped", "recorded"}
  PROVE  cost'[x] = cost[x] /\ recordedAt'[x] = recordedAt[x]
<1> DEFINE Goal == cost'[x] = cost[x] /\ recordedAt'[x] = recordedAt[x]
<1>0. TypeOK
  BY DEF IInv
<1>1. ASSUME NEW r \in Requests, Stamp(r) PROVE Goal
  BY <1>0, <1>1 DEF Stamp, Goto, TypeOK
<1>2. CASE cost' = cost /\ recordedAt' = recordedAt
  BY <1>2
<1>3. QED
  BY <1>1, <1>2 DEF Next, Refuse, Arrive, Enter, Check, CheckFails, Insert, Lose, Tick, request, vars

LEMMA RowsChange ==
  ASSUME IInv, [Next]_vars
  PROVE  \/ rows' = rows
         \/ \E r \in Requests : stage[r] = "stamped" /\ rows' = rows \cup {r}
<1>1. ASSUME NEW r \in Requests, Insert(r)
      PROVE  stage[r] = "stamped" /\ rows' = rows \cup {r}
  BY <1>1 DEF Insert
<1>2. QED
  BY <1>1 DEF Next, Refuse, Arrive, Enter, Check, CheckFails, Stamp, Lose, Tick, vars

\* So the sum over rows stays what it is.
LEMMA RowSumsKept ==
  ASSUME IInv, [Next]_vars, NEW P \in SUBSET rows
  PROVE  P \in SUBSET rows' /\ Column(cost', P) = Column(cost, P)
<1>1. rows \subseteq rows'
  BY RowsChange
<1>2. \A x \in P : cost'[x] = cost[x]
  BY StampKept DEF IInv, TypeOK, Ordered
<1>3. Column(cost', P) = Column(cost, P)
  BY <1>2, ColumnSame
<1>4. QED
  BY <1>1, <1>3

-----------------------------------------------------------------------------
(* A block is justified. *)

\* Spend(u, t), of rows ws with keys k, stamps w and costs c.
Month(ws, k, w, u, t) ==
  {x \in ws : /\ UserOf[k[x]] = u
              /\ TextAtOrAfter(w[x], MonthStart(t))
              /\ TextBefore(w[x], MonthStart(t) + MonthTicks)}

Paid(ws, k, w, c, u, t) == Column(c, Month(ws, k, w, u, t))

LEMMA SpendIsPaid ==
  ASSUME NEW u, NEW t
  PROVE  Spend(u, t) = Paid(rows, key, recordedAt, cost, u, t)
<1>1. {x \in RowsOf(u) : InMonth(x, t)} = Month(rows, key, recordedAt, u, t)
  BY DEF RowsOf, InMonth, Month
<1>2. QED
  BY <1>1 DEF Spend, Paid, SumOf, Column

Justified(bs, m, ws, k, w, c, a) ==
  \A r \in bs : m[r] > 0 /\ Paid(ws, k, w, c, UserOf[k[r]], a[r]) >= m[r]

LEMMA JustifiedIs ==
  CostBlockJustified <=> Justified(blocked, limit, rows, key, recordedAt, cost, at)
BY SpendIsPaid DEF CostBlockJustified, Justified

\* What a user has spent in a month only grows.
LEMMA SpendGrows ==
  ASSUME IInv, [Next]_vars, NEW u, NEW t \in Nat
  PROVE  /\ Paid(rows, key, recordedAt, cost, u, t) \in Nat
         /\ Paid(rows', key', recordedAt', cost', u, t) \in Nat
         /\ Paid(rows, key, recordedAt, cost, u, t) <= Paid(rows', key', recordedAt', cost', u, t)
<1> DEFINE P == Month(rows, key, recordedAt, u, t)
           Q == Month(rows', key', recordedAt', u, t)
<1>0. TypeOK /\ TypeOK'
  BY NextIInv DEF IInv
<1>1. P \in SUBSET rows /\ Q \in SUBSET rows' /\ rows \subseteq Requests /\ rows' \subseteq Requests
  BY <1>0 DEF Month, TypeOK
<1>2. Column(cost', P) = Column(cost, P) /\ P \in SUBSET rows'
  BY <1>1, RowSumsKept
<1>3. P \subseteq Q
  <2> SUFFICES ASSUME NEW x \in P PROVE x \in Q
    OBVIOUS
  <2>1. x \in Requests /\ stage[x] = "recorded" /\ x \in rows'
    BY <1>1, <1>2 DEF IInv, Ordered
  <2>2. key'[x] = key[x] /\ recordedAt'[x] = recordedAt[x]
    BY <2>1, EnteredKept, StampKept
  <2>3. QED
    BY <2>1, <2>2 DEF Month
<1>5. cost' \in [Requests -> Costs \cup {Null}] /\ cost \in [Requests -> Costs \cup {Null}]
  BY <1>0 DEF TypeOK
<1> HIDE DEF P, Q
<1>6. Column(cost, P) \in Nat /\ Column(cost', Q) \in Nat
  BY <1>1, <1>5, ColumnBound
<1>7. Column(cost', P) <= Column(cost', Q)
  BY <1>1, <1>3, <1>5, ColumnMonotone
<1>8. Column(cost, P) <= Column(cost', Q)
  BY <1>2, <1>7
<1>9. QED
  BY <1>6, <1>8 DEF Paid, P, Q

LEMMA BlockedChange ==
  ASSUME IInv, [Next]_vars
  PROVE  \/ blocked' = blocked
         \/ \E r \in Requests :
              /\ stage[r] = "check"
              /\ limit[r] # NoLimit /\ Spend(UserOf[key[r]], at[r]) >= limit[r]
              /\ blocked' = blocked \cup {r}
<1>1. ASSUME NEW r \in Requests, Check(r)
      PROVE  \/ blocked' = blocked
             \/ /\ stage[r] = "check"
                /\ limit[r] # NoLimit /\ Spend(UserOf[key[r]], at[r]) >= limit[r]
                /\ blocked' = blocked \cup {r}
  BY <1>1 DEF Check
<1>2. QED
  BY <1>1 DEF Next, Refuse, Arrive, Enter, CheckFails, Stamp, Insert, Lose, Tick, request, vars

LEMMA NextCostBlockJustified ==
  IInv /\ CostBlockJustified /\ [Next]_vars => CostBlockJustified'
<1> SUFFICES ASSUME IInv, CostBlockJustified, [Next]_vars, NEW r \in blocked'
             PROVE  /\ limit'[r] > 0
                    /\ Paid(rows', key', recordedAt', cost', UserOf[key'[r]], at'[r]) >= limit'[r]
  <2>1. CostBlockJustified' <=> Justified(blocked, limit, rows, key, recordedAt, cost, at)'
    BY JustifiedIs, PTL
  <2>2. Justified(blocked, limit, rows, key, recordedAt, cost, at)'
          <=> Justified(blocked', limit', rows', key', recordedAt', cost', at')
    BY DEF Justified
  <2>3. QED
    BY <2>1, <2>2 DEF Justified
<1>0. TypeOK /\ TypeOK' /\ Ordered
  BY NextIInv DEF IInv
<1> DEFINE u == UserOf[key[r]]
           t == at[r]
           S == Paid(rows, key, recordedAt, cost, u, t)
           T == Paid(rows', key', recordedAt', cost', u, t)
<1>1. r \in Requests /\ limit[r] \in Nat /\ at[r] \in Nat
  BY <1>0 DEF TypeOK
<1>2. stage[r] \notin {"idle", "arrived"} /\ limit[r] > 0 /\ S >= limit[r]
  <2>1. CASE r \in blocked
    BY <1>0, <1>1, <2>1, SpendIsPaid DEF CostBlockJustified, Ordered
  <2>2. CASE r \notin blocked
    BY <1>1, <2>2, BlockedChange, SpendIsPaid DEF NoLimit
  <2>3. QED
    BY <2>1, <2>2
<1>3. key'[r] = key[r] /\ limit'[r] = limit[r] /\ at'[r] = at[r]
  BY <1>1, <1>2, EnteredKept
<1>4. S \in Nat /\ T \in Nat /\ S <= T
  BY <1>1, SpendGrows
<1>5. Paid(rows', key', recordedAt', cost', UserOf[key'[r]], at'[r]) = T
  BY <1>3
<1> HIDE DEF S, T
<1>6. QED
  BY <1>1, <1>2, <1>3, <1>4, <1>5

\* A request is answered "monthly cost limit exceeded" only if what its user has spent in
\* the month it is checked for comes up to the limit its key had on arrival: the sum it was
\* checked against can only have grown since, whoever else's requests were recorded
\* meanwhile (cost_limit.go:29-59).
THEOREM BlockJustified == Spec => []CostBlockJustified
<1>1. Init => IInv /\ CostBlockJustified
  BY InitIInv DEF Init, CostBlockJustified
<1>2. IInv /\ CostBlockJustified /\ [Next]_vars => (IInv /\ CostBlockJustified)'
  BY NextIInv, NextCostBlockJustified
<1>3. QED
  BY <1>1, <1>2, PTL DEF Spec

-----------------------------------------------------------------------------
(* By how much a limit may be overrun. *)

\* When what is counted is below the limit, the requests in flight cover the rest.
Restart ==
  \A u \in Users, l \in Limits \ {NoLimit}, t \in Instants :
    SumOf(Counted(u, l, t)) < l => Bounded(u, l, t)

LEMMA StartOver == IInv => Restart
<1> SUFFICES ASSUME IInv, NEW u \in Users, NEW l \in Limits \ {NoLimit}, NEW t \in Instants,
                    SumOf(Counted(u, l, t)) < l
             PROVE  Bounded(u, l, t)
  BY DEF Restart
<1>1. Counted(u, l, t) \in SUBSET rows
  BY DEF Counted, RowsOf
<1>2. Flights(u) \in SUBSET Requests /\ Cardinality(Flights(u)) <= peak[u]
  BY DEF IInv, PeakCounts, Flights
<1>3. Pending(u, l, t) \subseteq Flights(u)
  BY DEF Pending, Flights, InFlight
<1>4. Covers(u, l, t, Counted(u, l, t), Flights(u))
  BY <1>2, <1>3 DEF Covers
<1>5. QED
  BY <1>1, <1>2, <1>4 DEF Bounded

\* A row that begins to count was pending: it was stamped in the month, so its request
\* came in before the end of it.
LEMMA CountedChange ==
  ASSUME IInv, [Next]_vars, NEW u, NEW l \in Nat, NEW t \in Nat
  PROVE  Counted(u, l, t)' \subseteq Counted(u, l, t) \cup Pending(u, l, t)
<1> SUFFICES ASSUME NEW x \in Counted(u, l, t)'
             PROVE  x \in Counted(u, l, t) \cup Pending(u, l, t)
  OBVIOUS
<1>0. TypeOK /\ TypeOK' /\ Ordered
  BY NextIInv DEF IInv
<1>1. /\ x \in rows' /\ UserOf[key'[x]] = u /\ under'[x] \in 1 .. l
      /\ TextAtOrAfter(recordedAt'[x], MonthStart(t))
      /\ TextBefore(recordedAt'[x], MonthStart(t) + MonthTicks)
      /\ (recordedAt'[x] % MonthTicks) \notin 1 .. 9
  BY DEF Counted, RowsOf, InMonth, StampedLate
<1>2. x \in Requests /\ stage[x] \in {"stamped", "recorded"}
  BY <1>0, <1>1, RowsChange DEF TypeOK, Ordered
<1>3. key'[x] = key[x] /\ under'[x] = under[x] /\ recordedAt'[x] = recordedAt[x]
  BY <1>2, EnteredKept, StampKept
<1>4. CASE stage[x] = "recorded"
  <2>1. x \in rows
    BY <1>0, <1>2, <1>4 DEF Ordered
  <2>2. QED
    BY <1>1, <1>3, <2>1 DEF Counted, RowsOf, InMonth, StampedLate
<1>5. CASE stage[x] = "stamped"
  <2>1. recordedAt[x] \in Nat /\ at[x] \in Nat /\ at[x] <= recordedAt[x]
    BY <1>0, <1>2, <1>5 DEF TypeOK, Ordered
  <2>2. recordedAt[x] < MonthStart(t) + MonthTicks
    BY <1>1, <1>3, <2>1, StampedInMonth
  <2>3. MonthStart(t) + MonthTicks \in Nat
    BY MonthStartIs, WholeSeconds, TimeAssumption
  <2>4. at[x] < MonthStart(t) + MonthTicks
    BY <2>1, <2>2, <2>3
  <2>5. QED
    BY <1>1, <1>2, <1>3, <1>5, <2>4 DEF Pending
<1>6. QED
  BY <1>2, <1>4, <1>5

\* A request becomes pending by coming in before the month or by passing its check in it.
LEMMA PendingChange ==
  ASSUME IInv, [Next]_vars, NEW u, NEW l \in Nat, NEW t \in Nat,
         NEW x \in Pending(u, l, t)', x \notin Pending(u, l, t)
  PROVE  \/ /\ now' = now /\ now < MonthStart(t)
         \/ /\ stage[x] = "check" /\ UserOf[key[x]] = u /\ limit[x] \in 1 .. l
            /\ MonthStart(t) <= at[x] /\ at[x] < MonthStart(t) + MonthTicks
            /\ Spend(u, at[x]) < limit[x]
            /\ rows' = rows /\ key' = key /\ recordedAt' = recordedAt /\ cost' = cost
<1> DEFINE Early  == now' = now /\ now < MonthStart(t)
           Passed == /\ stage[x] = "check" /\ UserOf[key[x]] = u /\ limit[x] \in 1 .. l
                     /\ MonthStart(t) <= at[x] /\ at[x] < MonthStart(t) + MonthTicks
                     /\ Spend(u, at[x]) < limit[x]
                     /\ rows' = rows /\ key' = key /\ recordedAt' = recordedAt /\ cost' = cost
<1>0. /\ TypeOK /\ Ordered
      /\ MonthStart(t) \in Nat /\ MonthTicks \in Nat
  BY MonthStartIs, WholeSeconds, TimeAssumption DEF IInv
<1>a. /\ x \in Requests /\ stage'[x] \in {"check", "open", "stamped"}
      /\ UserOf[key'[x]] = u /\ at'[x] < MonthStart(t) + MonthTicks
      /\ IF stage'[x] = "check" THEN at'[x] < MonthStart(t) ELSE under'[x] \in 1 .. l
  BY DEF Pending
<1>b. ~ /\ stage[x] \in {"check", "open", "stamped"}
        /\ UserOf[key[x]] = u /\ at[x] < MonthStart(t) + MonthTicks
        /\ IF stage[x] = "check" THEN at[x] < MonthStart(t) ELSE under[x] \in 1 .. l
  BY <1>a DEF Pending
<1>c. at[x] \in Nat /\ under[x] \in Nat /\ limit[x] \in Nat
  BY <1>0, <1>a DEF TypeOK
<1>1. ASSUME NEW r \in Requests, NEW k \in Keys, Refuse(r, k) PROVE FALSE
  BY <1>0, <1>a, <1>b, <1>1 DEF Refuse, Goto, TypeOK
<1>2. ASSUME NEW r \in Requests, NEW k \in Keys, NEW l2 \in Limits, Arrive(r, k, l2)
      PROVE  FALSE
  BY <1>0, <1>a, <1>b, <1>2 DEF Arrive, Goto, TypeOK
<1>d. ASSUME NEW r \in Requests, Enter(r) PROVE Early
  BY <1>0, <1>a, <1>b, <1>d DEF Enter, Goto, TypeOK
<1>3. ASSUME NEW r \in Requests, Check(r) PROVE Passed
  <2>1. r = x
    BY <1>0, <1>a, <1>b, <1>3 DEF Check, Goto, TypeOK
  <2>2. /\ stage[x] = "check" /\ stage'[x] = "open" /\ key' = key /\ at' = at
        /\ rows' = rows /\ recordedAt' = recordedAt /\ cost' = cost
    BY <1>0, <1>3, <2>1 DEF Check, Goto, TypeOK
  <2>3. under'[x] # NoLimit /\ under[x] = NoLimit
    BY <1>0, <1>a, <2>2 DEF Ordered, NoLimit
  <2>4. /\ limit[x] = NoLimit \/ Spend(UserOf[key[x]], at[x]) < limit[x]
        /\ under'[x] = limit[x]
    BY <1>0, <1>3, <1>a, <2>1, <2>3 DEF Check, TypeOK
  <2>5. limit[x] \in 1 .. l /\ UserOf[key[x]] = u /\ at[x] < MonthStart(t) + MonthTicks
    BY <1>a, <2>2, <2>4
  <2>6. MonthStart(t) <= at[x]
    BY <1>0, <1>b, <1>c, <2>2, <2>5
  <2>7. QED
    BY <2>2, <2>3, <2>4, <2>5, <2>6
<1>4. ASSUME NEW r \in Requests, CheckFails(r) PROVE FALSE
  <2>1. stage[r] = "check" => under[r] = NoLimit
    BY <1>0, <1>4 DEF Ordered
  <2>2. QED
    BY <1>0, <1>a, <1>b, <1>4, <2>1 DEF CheckFails, Goto, TypeOK, NoLimit
<1>5. ASSUME NEW r \in Requests, Stamp(r) PROVE FALSE
  <2>1. stage[r] = "refused" => under[r] = NoLimit
    BY <1>0, <1>5 DEF Ordered
  <2>2. QED
    BY <1>0, <1>a, <1>b, <1>5, <2>1 DEF Stamp, Goto, TypeOK, NoLimit
<1>6. ASSUME NEW r \in Requests, Insert(r) PROVE FALSE
  BY <1>0, <1>a, <1>b, <1>6 DEF Insert, Goto, TypeOK
<1>7. ASSUME NEW S \in SUBSET Requests, Lose(S) PROVE FALSE
  BY <1>0, <1>a, <1>b, <1>7 DEF Lose, TypeOK
<1>8. CASE Tick \/ UNCHANGED vars
  BY <1>0, <1>a, <1>b, <1>8 DEF Tick, request, vars
<1>10. QED
  BY <1>1, <1>2, <1>d, <1>3, <1>4, <1>5, <1>6, <1>7, <1>8 DEF Next

LEMMA NextBoundInv == IInv /\ BoundInv /\ [Next]_vars => BoundInv'
<1> SUFFICES ASSUME IInv, BoundInv, [Next]_vars,
                    NEW u \in Users, NEW l \in Limits \ {NoLimit}, NEW t \in Instants
             PROVE  Bounded(u, l, t)'
  BY DEF BoundInv
<1>0. /\ TypeOK /\ Ordered /\ TypeOK' /\ Ordered'
      /\ l \in Nat /\ t \in Nat
      /\ MonthStart(t) \in Nat
  BY NextIInv, MonthStartIs, WholeSeconds, TimeAssumption, MoneyAssumption DEF IInv
<1>1. ASSUME Column(cost', Counted(u, l, t)') < l PROVE Bounded(u, l, t)'
  <2>1. IInv' => Restart'
    BY StartOver, PTL
  <2>2. SumOf(Counted(u, l, t))' = Column(cost', Counted(u, l, t)')
    BY DEF SumOf, Column
  <2>3. QED
    BY <1>1, <2>1, <2>2, NextIInv DEF Restart
<1>2. CASE Pending(u, l, t)' \subseteq Pending(u, l, t)
  <2>1. PICK P \in SUBSET rows, F \in SUBSET Requests : Covers(u, l, t, P, F)
    BY DEF BoundInv, Bounded
  <2>2. P \in SUBSET rows' /\ Column(cost', P) = Column(cost, P)
    BY RowSumsKept
  <2>3. SumOf(P)' = Column(cost', P) /\ SumOf(P) = Column(cost, P)
    BY DEF SumOf, Column
  <2>4. SumOf(P)' < l
    BY <2>1, <2>2, <2>3 DEF Covers
  <2>5. Cardinality(F) <= peak'[u]
    <3>1. Cardinality(F) \in Nat /\ Cardinality(F) <= peak[u]
      BY <2>1, RequestsAssumption, FS_Subset, FS_CardinalityType DEF Covers
    <3>2. peak[u] \in Nat /\ peak'[u] \in Nat /\ peak[u] <= peak'[u]
      BY <1>0, PeakKept DEF TypeOK
    <3>3. QED
      BY <3>1, <3>2
  <2>6. Counted(u, l, t)' \cup Pending(u, l, t)' \subseteq P \cup F
    BY <1>0, <1>2, <2>1, CountedChange DEF Covers
  <2>7. Covers(u, l, t, P, F)'
    BY <2>4, <2>5, <2>6 DEF Covers
  <2>8. QED
    BY <2>2, <2>7 DEF Bounded
<1>3. ASSUME NEW x \in Pending(u, l, t)', x \notin Pending(u, l, t) PROVE Bounded(u, l, t)'
  <2>1. CASE now' = now /\ now < MonthStart(t)
    <3>1. Counted(u, l, t)' = {}
      <4> SUFFICES ASSUME NEW y \in Counted(u, l, t)' PROVE FALSE
        OBVIOUS
      <4>1. /\ y \in rows'
            /\ TextAtOrAfter(recordedAt'[y], MonthStart(t))
            /\ TextBefore(recordedAt'[y], MonthStart(t) + MonthTicks)
            /\ (recordedAt'[y] % MonthTicks) \notin 1 .. 9
        BY DEF Counted, RowsOf, InMonth, StampedLate
      <4>2. recordedAt'[y] \in Nat /\ recordedAt'[y] <= now' /\ now' \in Nat
        BY <1>0, <4>1, TimeAssumption DEF TypeOK, Ordered
      <4>3. MonthStart(t) <= recordedAt'[y]
        BY <1>0, <4>1, <4>2, StampedInMonth
      <4>4. QED
        BY <1>0, <2>1, <4>2, <4>3
    <3>2. Column(cost', {}) < l
      BY <1>0, ColumnEmpty DEF NoLimit
    <3>3. QED
      BY <1>1, <3>1, <3>2
  <2>2. CASE /\ stage[x] = "check" /\ UserOf[key[x]] = u /\ limit[x] \in 1 .. l
             /\ MonthStart(t) <= at[x] /\ at[x] < MonthStart(t) + MonthTicks
             /\ Spend(u, at[x]) < limit[x]
             /\ rows' = rows /\ key' = key /\ recordedAt' = recordedAt /\ cost' = cost
    <3> DEFINE M == Month(rows, key, recordedAt, u, at[x])
               C == Counted(u, l, t)'
    <3>1. x \in Requests /\ at[x] \in Nat
      BY <1>0 DEF Pending, TypeOK
    <3>2. MonthStart(at[x]) = MonthStart(t)
      BY <1>0, <2>2, <3>1, MonthUnique
    <3>3. C \subseteq M
      BY <2>2, <3>2 DEF Counted, RowsOf, InMonth, Month
    <3>4. M \in SUBSET Requests /\ cost \in [Requests -> Costs \cup {Null}]
      BY <1>0 DEF Month, TypeOK
    <3>5. Column(cost, M) < limit[x]
      BY <2>2, SpendIsPaid DEF Paid
    <3> HIDE DEF M, C
    <3>6. /\ Column(cost, M) \in Nat /\ Column(cost, C) \in Nat
          /\ Column(cost, C) <= Column(cost, M)
      BY <3>3, <3>4, ColumnBound, ColumnMonotone
    <3>7. Column(cost', C) < l
      BY <1>0, <2>2, <3>5, <3>6
    <3>8. QED
      BY <1>1, <3>7 DEF C
  <2>3. QED
    BY <1>0, <1>3, <2>1, <2>2, PendingChange
<1>4. QED
  BY <1>2, <1>3

LEMMA InitBoundInv == Init => BoundInv
<1> SUFFICES ASSUME Init, NEW u \in Users, NEW l \in Limits \ {NoLimit}, NEW t \in Instants
             PROVE  Bounded(u, l, t)
  BY DEF BoundInv
<1>1. Counted(u, l, t) = {}
  BY DEF Init, Counted, RowsOf
<1>2. SumOf({}) = 0 /\ l \in Nat \ {0}
  BY ColumnEmpty, ColumnOfCost, MoneyAssumption DEF NoLimit
<1>3. QED
  BY <1>1, <1>2, StartOver, InitIInv DEF Restart

LEMMA BoundIsBound == IInv /\ BoundInv => SpendBound
<1> SUFFICES ASSUME IInv, BoundInv,
                    NEW u \in Users, NEW l \in Limits \ {NoLimit}, NEW t \in Instants
             PROVE  SumOf(Counted(u, l, t)) < l + peak[u] * Dearest
  BY DEF SpendBound, Counted
<1>1. PICK P \in SUBSET rows, F \in SUBSET Requests : Covers(u, l, t, P, F)
  BY DEF BoundInv, Bounded
<1> DEFINE C == Counted(u, l, t)
           n == Cardinality(F)
           p == peak[u]
           d == Dearest
<1>2. /\ rows \subseteq Requests /\ cost \in [Requests -> Costs \cup {Null}]
      /\ p \in Nat /\ l \in Nat
  BY MoneyAssumption DEF IInv, TypeOK
<1>3. /\ Column(cost, P) < l /\ n <= p /\ C \subseteq P \cup F
  BY <1>1, ColumnOfCost DEF Covers
<1>4. n \in Nat /\ d \in Nat
  BY RequestsAssumption, FS_Subset, FS_CardinalityType, DearestIs
<1>5. P \in SUBSET Requests /\ P \cup F \in SUBSET Requests /\ C \in SUBSET (P \cup F)
  BY <1>2, <1>3
<1> HIDE DEF C
<1>6. /\ Column(cost, C) \in Nat /\ Column(cost, P \cup F) \in Nat /\ Column(cost, P) \in Nat
      /\ Column(cost, F) \in Nat /\ Column(cost, F) <= n * d
  BY <1>2, <1>5, ColumnBound
<1>7. Column(cost, C) <= Column(cost, P \cup F)
  BY <1>2, <1>5, ColumnMonotone
<1>8. Column(cost, P \cup F) <= Column(cost, P) + Column(cost, F)
  BY <1>2, <1>5, ColumnUnion
<1> HIDE DEF n, p, d
<1>9. n * d <= p * d /\ n * d \in Nat /\ p * d \in Nat
  <2> DEFINE e == p - n
  <2>1. e \in Nat /\ p = n + e
    BY <1>2, <1>3, <1>4
  <2> HIDE DEF e
  <2>2. p * d = n * d + e * d
    BY <1>4, <2>1
  <2>3. e * d \in Nat /\ n * d \in Nat
    BY <1>4, <2>1
  <2>4. QED
    BY <2>2, <2>3
<1>10. Column(cost, C) < l + p * d
  BY <1>2, <1>3, <1>6, <1>7, <1>8, <1>9
<1>11. QED
  BY <1>10, ColumnOfCost DEF C, p, d

\* The rows of a month that belong to requests found below a limit of l or less sum up to
\* less than l and the cost of the requests of the user that were ever in flight together:
\* the overrun that checking the limit before the cost is known allows
\* (cost_limit.go:29-59, and logRequest at server.go:850 after the answer), and no more.
THEOREM OverrunBounded == Spec => []SpendBound
<1>1. Init => IInv /\ BoundInv
  BY InitIInv, InitBoundInv
<1>2. IInv /\ BoundInv /\ [Next]_vars => (IInv /\ BoundInv)'
  BY NextIInv, NextBoundInv
<1>3. QED
  BY <1>1, <1>2, BoundIsBound, PTL DEF Spec
=============================================================================
