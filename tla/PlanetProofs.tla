----------------------------- MODULE PlanetProofs -----------------------------
(***************************************************************************)
(* What TLAPS proves about the two components on a planet: its economy and *)
(* its space elevator.                                                     *)
(*                                                                         *)
(* Economy, for any goods, factories and builders: every variable keeps    *)
(* its type, deposits stay within their capacity and nobody uses a         *)
(* transient good; the books of every tick balance; what players import is *)
(* used by a tick, once; a settlement that is founded stays empty.  The    *)
(* argument is one of sums of shares that are rounded down.                *)
(*                                                                         *)
(* SpaceElevator, for any number of transfers, cabins and loads: every     *)
(* variable keeps its type, no goods are made, and they are lost only by a *)
(* request that finds no cabin, with a station or without one to arrive    *)
(* at, and by a transfer that is cut off.                                  *)
(***************************************************************************)
EXTENDS Economy, SpaceElevator, Sums

-----------------------------------------------------------------------------
(* The economy: numbers, rounded down *)

\* What division leaves out is less than the divisor.
LEMMA DivideBounds ==
  ASSUME NEW a \in Nat, NEW b \in Nat \ {0}
  PROVE  a \div b \in Nat /\ (a \div b) * b <= a /\ a < (a \div b) * b + b
  BY SMT

\* Products grow with either factor.
LEMMA TimesMonotone ==
  ASSUME NEW a \in Nat, NEW b \in Nat, NEW c \in Nat, a <= b
  PROVE  a * c <= b * c /\ c * a <= c * b /\ a * c \in Nat /\ c * a \in Nat
  BY SMT

\* A positive factor may be cancelled.
LEMMA TimesCancel ==
  ASSUME NEW a \in Nat, NEW b \in Nat, NEW c \in Nat \ {0}, a * c <= b * c
  PROVE  a <= b
  BY SMT

\* What is exact is not rounded.
LEMMA DivideExact ==
  ASSUME NEW a \in Nat, NEW b \in Nat \ {0}
  PROVE  (a * b) \div b = a /\ (b * a) \div b = a
<1>1. a * b \in Nat /\ b * a = a * b
  BY SMT
<1>2. (a * b) \div b \in Nat /\ ((a * b) \div b) * b <= a * b /\ a * b < ((a * b) \div b) * b + b
  BY <1>1, DivideBounds
<1>3. (a * b) \div b <= a
  BY <1>2, TimesCancel
<1>4. a < (a * b) \div b + 1
  <2> DEFINE q == (a * b) \div b
  <2>1. q \in Nat /\ a * b < (q + 1) * b
    BY <1>2, SMT
  <2> HIDE DEF q
  <2>2. q + 1 <= a => (q + 1) * b <= a * b
    BY <2>1, TimesMonotone
  <2>3. a * b \in Int /\ (q + 1) * b \in Int
    BY <2>1, SMT
  <2> QED BY <2>1, <2>2, <2>3 DEF q
<1> QED BY <1>1, <1>2, <1>3, <1>4

\* A part of n rounded down, of less than the whole, is at most n.
LEMMA RoundedPart ==
  ASSUME NEW n \in Nat, NEW part \in Nat, NEW whole \in Nat, part < whole
  PROVE  /\ (n * part) \div whole \in Nat
         /\ (n * part) \div whole <= n
         /\ ((n * part) \div whole) * whole <= n * part
<1>1. n * part \in Nat /\ n * part <= n * whole /\ whole \in Nat \ {0}
  BY TimesMonotone
<1>2. (n * part) \div whole \in Nat /\ ((n * part) \div whole) * whole <= n * part
  BY <1>1, DivideBounds
<1>3. ((n * part) \div whole) * whole <= n * whole
  BY <1>1, <1>2, SMT
<1> QED BY <1>1, <1>2, <1>3, TimesCancel

\* Least and Monus of natural numbers.
LEMMA LeastMonus ==
  ASSUME NEW a \in Nat, NEW b \in Nat
  PROVE  /\ Least(a, b) \in Nat /\ Least(a, b) <= a /\ Least(a, b) <= b
         /\ Monus(a, b) \in Nat /\ Monus(a, b) <= a /\ (b <= a => Monus(a, b) = a - b)
  BY DEF Least, Monus

\* The least of n and some more is one of them.
LEMMA LeastOfType ==
  ASSUME NEW n \in Nat, NEW S \in SUBSET Nat
  PROVE  /\ LeastOf(n, S) \in Nat /\ LeastOf(n, S) \in {n} \cup S /\ LeastOf(n, S) <= n
         /\ \A k \in S : LeastOf(n, S) <= k
<1>1. {n} \cup S \in SUBSET Nat /\ {n} \cup S # {}
  OBVIOUS
<1>2. \E m \in {n} \cup S : \A k \in {n} \cup S : m <= k
  BY <1>1, LeastNatural
<1>3. LeastOf(n, S) \in {n} \cup S /\ \A k \in {n} \cup S : LeastOf(n, S) <= k
  BY <1>2 DEF LeastOf
<1> QED BY <1>1, <1>3

\* The most of some equal numbers, or 0.
LEMMA MostOfOne ==
  ASSUME NEW n \in Nat, NEW S \in SUBSET {n}
  PROVE  Most(S) \in Nat /\ Most(S) <= n
<1>1. \E m \in {0} \cup S : \A k \in {0} \cup S : k <= m
  <2>1. CASE n \in S
    BY <2>1
  <2>2. CASE n \notin S
    BY <2>2
  <2> QED BY <2>1, <2>2
<1>2. Most(S) \in {0} \cup S /\ \A k \in {0} \cup S : k <= Most(S)
  BY <1>1 DEF Most
<1>3. Most(S) = 0 \/ Most(S) = n
  BY <1>2, Zenon
<1> QED BY <1>3

\* A factor may be taken out of a sum.
LEMMA SumTimes ==
  ASSUME NEW S, IsFiniteSet(S), NEW c \in Nat, NEW f, NEW h,
         \A x \in S : f[x] \in Int, \A x \in S : h[x] = c * f[x]
  PROVE  SumFunctionOnSet(h, S) = c * SumFunctionOnSet(f, S)
<1> DEFINE F == {T \in SUBSET S : SumFunctionOnSet(h, T) = c * SumFunctionOnSet(f, T)}
<1>1. {} \in F
  <2>1. SumFunctionOnSet(f, {}) = 0 /\ SumFunctionOnSet(h, {}) = 0
    BY SumRecursive
  <2> QED BY <2>1
<1>2. ASSUME NEW T \in F, NEW x \in S, x \notin T PROVE T \cup {x} \in F
  <2>1. T \in SUBSET S /\ IsFiniteSet(T) /\ T \cup {x} \in SUBSET S
    BY FS_Subset
  <2>2. \A y \in T \cup {x} : f[y] \in Int /\ h[y] \in Int
    BY <2>1, SMT
  <2>3. /\ SumFunctionOnSet(f, T \cup {x}) = f[x] + SumFunctionOnSet(f, T)
        /\ SumFunctionOnSet(h, T \cup {x}) = h[x] + SumFunctionOnSet(h, T)
    BY <1>2, <2>1, <2>2, SumAdd
  <2>4. SumFunctionOnSet(f, T) \in Int
    BY <2>1, <2>2, SumType
  <2>5. SumFunctionOnSet(h, T) = c * SumFunctionOnSet(f, T) /\ h[x] = c * f[x] /\ f[x] \in Int
    BY <2>2
  <2>6. c * (f[x] + SumFunctionOnSet(f, T)) = c * f[x] + c * SumFunctionOnSet(f, T)
    BY <2>4, <2>5, SMT
  <2> QED BY <2>1, <2>3, <2>5, <2>6
<1>3. F = SUBSET S
  <2> HIDE DEF F
  <2>1. F \in SUBSET (SUBSET S)
    BY DEF F
  <2> QED BY <1>1, <1>2, <2>1, InductionOnSubsets
<1>4. S \in F
  BY <1>3
<1> QED BY <1>4

-----------------------------------------------------------------------------
(* Sums of shares *)

\* Amounts that are cut to part of their sum, each in proportion, add up to no
\* more than that part.
LEMMA SumPart ==
  ASSUME NEW S, IsFiniteSet(S), NEW u, NEW v, NEW part \in Nat, NEW whole \in Nat,
         \A x \in S : u[x] \in Nat /\ v[x] \in Nat /\ u[x] <= v[x],
         whole = SumFunctionOnSet(v, S), part <= whole,
         part < whole => \A x \in S : whole * u[x] <= part * v[x]
  PROVE  SumFunctionOnSet(u, S) <= part
<1>1. SumFunctionOnSet(u, S) \in Nat /\ SumFunctionOnSet(u, S) <= whole
  BY SumNatural, SumMonotone
<1>2. CASE part = whole
  BY <1>1, <1>2
<1>3. CASE part < whole
  <2> DEFINE uu == [x \in S |-> whole * u[x]]
             vv == [x \in S |-> part * v[x]]
  <2>1. \A x \in S : uu[x] \in Int /\ vv[x] \in Int /\ uu[x] <= vv[x]
    BY <1>3, SMT
  <2>2. SumFunctionOnSet(uu, S) <= SumFunctionOnSet(vv, S)
    <3> HIDE DEF uu, vv
    <3> QED BY <2>1, SumMonotone
  <2>3. SumFunctionOnSet(uu, S) = whole * SumFunctionOnSet(u, S)
    <3>1. \A x \in S : uu[x] = whole * u[x] /\ u[x] \in Int
      OBVIOUS
    <3> HIDE DEF uu
    <3> QED BY <3>1, SumTimes
  <2>4. SumFunctionOnSet(vv, S) = part * whole
    <3>1. \A x \in S : vv[x] = part * v[x] /\ v[x] \in Int
      OBVIOUS
    <3> HIDE DEF vv
    <3> QED BY <3>1, SumTimes
  <2>5. SumFunctionOnSet(u, S) * whole <= part * whole /\ whole \in Nat \ {0}
    <3> HIDE DEF uu, vv
    <3>1. SumFunctionOnSet(u, S) * whole = whole * SumFunctionOnSet(u, S)
      BY <1>1, SMT
    <3> QED BY <1>3, <2>2, <2>3, <2>4, <3>1
  <2> QED BY <1>1, <2>5, TimesCancel
<1> QED BY <1>2, <1>3

\* What a use gets is at most what it desires, that if there is enough, and
\* nothing if there is nothing.
LEMMA DomesticType ==
  ASSUME NEW n \in Nat, NEW supply \in Nat, NEW dom \in Nat
  PROVE  /\ Domestic(n, supply, dom) \in Nat /\ Domestic(n, supply, dom) <= n
         /\ dom <= supply => Domestic(n, supply, dom) = n
         /\ supply < dom => Domestic(n, supply, dom) * dom <= n * supply
         /\ supply = 0 /\ n <= dom => Domestic(n, supply, dom) = 0
<1>1. CASE dom <= supply
  BY <1>1 DEF Domestic
<1>2. CASE supply < dom
  <2>1. Domestic(n, supply, dom) = (n * supply) \div dom
    BY <1>2 DEF Domestic
  <2>2. /\ Domestic(n, supply, dom) \in Nat /\ Domestic(n, supply, dom) <= n
        /\ Domestic(n, supply, dom) * dom <= n * supply
    BY <1>2, <2>1, RoundedPart
  <2>3. ASSUME supply = 0 PROVE Domestic(n, supply, dom) = 0
    <3>1. Domestic(n, supply, dom) * dom <= 0 * dom /\ dom \in Nat \ {0}
      BY <1>2, <2>2, <2>3
    <3>2. Domestic(n, supply, dom) <= 0
      BY <2>2, <3>1, TimesCancel
    <3> QED BY <2>2, <3>2
  <2> QED BY <1>2, <2>2, <2>3
<1> QED BY <1>1, <1>2

\* The uses of a good together never get more than there is.
LEMMA SharesFit ==
  ASSUME NEW a \in Nat, NEW b \in Nat, NEW c \in Nat, NEW x \in Nat, NEW supply \in Nat,
         NEW dom \in Nat, dom = a + b + c
  PROVE  /\ Exported(x, supply, dom) \in Nat
         /\ Domestic(a, supply, dom) + Domestic(b, supply, dom) + Domestic(c, supply, dom)
              + Exported(x, supply, dom) <= supply
<1> DEFINE A == Domestic(a, supply, dom)
           B == Domestic(b, supply, dom)
           C == Domestic(c, supply, dom)
<1>1. A \in Nat /\ B \in Nat /\ C \in Nat
  BY DomesticType
<1> DEFINE share(n) == Domestic(n, supply, dom)
<1>4. \A n \in Nat : /\ dom <= supply => share(n) = n
                     /\ supply < dom => share(n) * dom <= n * supply
  BY DomesticType
<1>5. A = share(a) /\ B = share(b) /\ C = share(c)
  OBVIOUS
<1> HIDE DEF A, B, C, share
<1>2. CASE dom <= supply
  <2>1. A = a /\ B = b /\ C = c
    BY <1>2, <1>4, <1>5
  <2>2. Exported(x, supply, dom) = Least(x, supply - dom) /\ supply - dom \in Nat
    BY <1>2 DEF Exported
  <2>3. Exported(x, supply, dom) \in Nat /\ Exported(x, supply, dom) <= supply - dom
    BY <2>2, LeastMonus
  <2> QED BY <2>1, <2>3 DEF A, B, C
<1>3. CASE supply < dom
  <2>1. A * dom <= a * supply /\ B * dom <= b * supply /\ C * dom <= c * supply
    BY <1>3, <1>4, <1>5
  <2>2. Exported(x, supply, dom) = 0
    BY <1>3 DEF Exported
  <2>3. (A + B + C) * dom = A * dom + B * dom + C * dom
    BY <1>1, SMT
  <2>4. supply * dom = a * supply + b * supply + c * supply
    BY SMT
  <2>5. /\ A * dom \in Int /\ B * dom \in Int /\ C * dom \in Int
        /\ a * supply \in Int /\ b * supply \in Int /\ c * supply \in Int
    BY <1>1, SMT
  <2>6. (A + B + C) * dom <= supply * dom
    BY <2>1, <2>3, <2>4, <2>5
  <2>7. A + B + C <= supply
    <3>1. A + B + C \in Nat /\ dom \in Nat \ {0}
      BY <1>1, <1>3
    <3> QED BY <2>6, <3>1, TimesCancel
  <2> QED BY <1>1, <2>2, <2>7 DEF A, B, C
<1> QED BY <1>2, <1>3

-----------------------------------------------------------------------------
(* Production *)

\* What factories run and builders build.
Runs   == [Factories -> Nat]
Builds == [Builders -> Nat]

\* What runs use, make and dig are natural numbers.
LEMMA RunsType ==
  ASSUME NEW runs \in Runs, NEW g \in Goods
  PROVE  /\ Used(runs, g) \in Nat /\ Made(runs, g) \in Nat
         /\ SumFunctionOnSet([f \in Extractors |-> Output[f][g] * runs[f]], Extractors) \in Nat
<1>1. \A f \in Factories : Input[f][g] \in Nat /\ Output[f][g] \in Nat /\ runs[f] \in Nat
  BY EconomyAssumption DEF Runs, Amounts
<1>2. \A f \in Factories : Input[f][g] * runs[f] \in Nat /\ Output[f][g] * runs[f] \in Nat
  BY <1>1, SMT
<1>3. IsFiniteSet(Factories) /\ Extractors \subseteq Factories /\ IsFiniteSet(Extractors)
  BY EconomyAssumption, FS_Subset
<1> DEFINE i == [f \in Factories |-> Input[f][g] * runs[f]]
           o == [f \in Factories |-> Output[f][g] * runs[f]]
           d == [f \in Extractors |-> Output[f][g] * runs[f]]
<1>4. /\ \A f \in Factories : i[f] \in Nat /\ o[f] \in Nat
      /\ \A f \in Extractors : d[f] \in Nat
  BY <1>2, <1>3
<1>5. /\ Used(runs, g) = SumFunctionOnSet(i, Factories)
      /\ Made(runs, g) = SumFunctionOnSet(o, Factories)
  BY DEF Used, Made
<1> HIDE DEF i, o
<1>6. SumFunctionOnSet(d, Extractors) \in Nat
  <2> HIDE DEF d
  <2> QED BY <1>3, <1>4, SumNatural
<1> QED BY <1>3, <1>4, <1>5, <1>6, SumNatural

\* What a plan costs is a natural number.
LEMMA InvestedType ==
  ASSUME NEW plan \in Builds, NEW g \in Goods
  PROVE  Invested(plan, g) \in Nat /\ \A b \in Builders : BuildCost[b][g] * plan[b] <= Invested(plan, g)
<1> DEFINE c == [b \in Builders |-> BuildCost[b][g] * plan[b]]
<1>1. \A b \in Builders : BuildCost[b][g] \in Nat /\ plan[b] \in Nat
  BY EconomyAssumption DEF Builds, Amounts
<1>2. \A b \in Builders : c[b] \in Nat /\ c[b] = BuildCost[b][g] * plan[b]
  BY <1>1, SMT
<1>3. Invested(plan, g) = SumFunctionOnSet(c, Builders) /\ IsFiniteSet(Builders)
  BY EconomyAssumption DEF Invested
<1> HIDE DEF c
<1>4. SumFunctionOnSet(c, Builders) \in Nat /\ \A b \in Builders : c[b] <= SumFunctionOnSet(c, Builders)
  BY <1>2, <1>3, SumNatural
<1> QED BY <1>2, <1>3, <1>4

\* What runs make of a part.
LEMMA PartType ==
  ASSUME NEW runs \in Nat, NEW part \in Nat, NEW whole \in Nat
  PROVE  /\ Part(runs, part, whole) \in Nat /\ Part(runs, part, whole) <= runs
         /\ whole <= part => Part(runs, part, whole) = runs
         /\ part < whole => Part(runs, part, whole) * whole <= runs * part
<1>1. CASE part < whole
  <2>1. Part(runs, part, whole) = (runs * part) \div whole
    BY <1>1 DEF Part
  <2> QED BY <1>1, <2>1, RoundedPart
<1>2. CASE whole <= part
  BY <1>2 DEF Part
<1> QED BY <1>1, <1>2

\* What factories want to run: an extractor no more than its deposit gives.
LEMMA WantedType ==
  ASSUME NEW e \in EconomyRecord, NEW potential \in Runs, NEW f \in Factories
  PROVE  /\ Wanted(e, potential, f) \in Nat
         /\ f \in Extractors => \A g \in Needs(Output[f]) :
              Capacity[g] > 0 =>
                Wanted(e, potential, f) <= (MaxExtraction[g] * e.resources[g]) \div Capacity[g]
<1>1. /\ \A g \in Goods : e.stocks[g] \in Nat /\ e.resources[g] \in Nat
      /\ \A g \in Goods : Input[f][g] \in Nat /\ Output[f][g] \in Nat
      /\ \A g \in Goods : Capacity[g] \in Nat /\ MaxExtraction[g] \in Nat
      /\ potential[f] \in Nat
  BY EconomyAssumption DEF EconomyRecord, Amounts, Runs
<1> DEFINE given(g) == (MaxExtraction[g] * e.resources[g]) \div Capacity[g]
           D == {h \in Needs(Output[f]) : Capacity[h] > 0}
           inputs == {e.stocks[g] \div Input[f][g] : g \in Needs(Input[f])}
           most == IF f \in Extractors THEN Least(potential[f], Limit(e, f)) ELSE potential[f]
<1>2. \A g \in D : given(g) \in Nat
  <2> SUFFICES ASSUME NEW g \in D PROVE given(g) \in Nat
    OBVIOUS
  <2>1. MaxExtraction[g] * e.resources[g] \in Nat /\ Capacity[g] \in Nat \ {0}
    <3>1. MaxExtraction[g] \in Nat /\ e.resources[g] \in Nat /\ Capacity[g] \in Nat /\ Capacity[g] > 0
      BY <1>1 DEF Needs
    <3> QED BY <3>1, SMT
  <2> QED BY <2>1, DivideBounds
<1>3. ASSUME f \in Extractors
      PROVE  Limit(e, f) \in Nat /\ \A g \in D : Limit(e, f) <= given(g)
  <2>1. Limit(e, f) = Most({given(g) : g \in D})
    BY DEF Limit
  <2>2. CASE D = {}
    <3>1. {given(g) : g \in D} \in SUBSET {0}
      BY <2>2
    <3> QED BY <2>1, <2>2, <3>1, MostOfOne
  <2>3. CASE D # {}
    <3>1. PICK g \in D : TRUE
      BY <2>3
    <3>2. \A h \in D : h = g
      BY <1>3, EconomyAssumption
    <3>3. {given(h) : h \in D} \in SUBSET {given(g)}
      <4> HIDE DEF given, D
      <4> QED BY <3>2
    <3>4. Most({given(h) : h \in D}) \in Nat /\ Most({given(h) : h \in D}) <= given(g)
      <4>1. given(g) \in Nat
        BY <1>2
      <4> HIDE DEF given, D
      <4> QED BY <3>3, <4>1, MostOfOne
    <3> HIDE DEF given, D
    <3> QED BY <2>1, <3>2, <3>4
  <2> QED BY <2>2, <2>3
<1>4. most \in Nat /\ (f \in Extractors => most <= Limit(e, f))
  <2>1. CASE f \in Extractors
    BY <1>1, <1>3, <2>1, LeastMonus
  <2>2. CASE f \notin Extractors
    BY <1>1, <2>2
  <2> QED BY <2>1, <2>2
<1>5. inputs \in SUBSET Nat
  <2>1. \A g \in Needs(Input[f]) : e.stocks[g] \in Nat /\ Input[f][g] \in Nat \ {0}
    BY <1>1 DEF Needs
  <2>2. \A g \in Needs(Input[f]) : e.stocks[g] \div Input[f][g] \in Nat
    BY <2>1, DivideBounds
  <2> QED BY <2>2
<1>6. Wanted(e, potential, f) = LeastOf(most, inputs)
  BY DEF Wanted
<1>7. Wanted(e, potential, f) \in Nat /\ Wanted(e, potential, f) <= most
  <2> HIDE DEF most, inputs
  <2> QED BY <1>4, <1>5, <1>6, LeastOfType
<1>8. ASSUME f \in Extractors, NEW g \in Needs(Output[f]), Capacity[g] > 0
      PROVE  Wanted(e, potential, f) <= given(g)
  <2>1. g \in D
    BY <1>8
  <2>2. Limit(e, f) \in Nat /\ Limit(e, f) <= given(g) /\ given(g) \in Nat
    BY <1>2, <1>3, <1>8, <2>1
  <2>3. most <= Limit(e, f)
    BY <1>4, <1>8
  <2> HIDE DEF given, most, D
  <2> QED BY <1>4, <1>7, <2>2, <2>3
<1> QED BY <1>7, <1>8

\* Rationing takes runs away.
LEMMA RationedType ==
  ASSUME NEW e \in EconomyRecord, NEW wanted \in Runs
  PROVE  Rationed(e, wanted) \in Runs /\ \A f \in Factories : Rationed(e, wanted)[f] <= wanted[f]
<1>1. ASSUME NEW f \in Factories
      PROVE  /\ Rationed(e, wanted)[f] \in Nat /\ Rationed(e, wanted)[f] <= wanted[f]
  <2> DEFINE parts == {Part(wanted[f], e.stocks[g], Used(wanted, g)) : g \in Needs(Input[f])}
  <2>1. Rationed(e, wanted)[f] = LeastOf(wanted[f], parts) /\ wanted[f] \in Nat
    BY DEF Rationed, Runs
  <2>2. \A g \in Needs(Input[f]) : e.stocks[g] \in Nat /\ Used(wanted, g) \in Nat
    BY RunsType DEF Needs, EconomyRecord, Amounts
  <2>3. parts \in SUBSET Nat
    BY <2>1, <2>2, PartType
  <2> HIDE DEF parts
  <2> QED BY <2>1, <2>3, LeastOfType
<1>2. Rationed(e, wanted) = [f \in Factories |-> Rationed(e, wanted)[f]]
  BY DEF Rationed
<1> QED BY <1>1, <1>2 DEF Runs

\* Scaling takes runs away, in proportion to what is missing, and none where
\* nothing is.
LEMMA ScaledType ==
  ASSUME NEW planned \in Runs, NEW got \in Amounts, NEW desired \in Amounts
  PROVE  /\ Scaled(planned, got, desired) \in Runs
         /\ \A f \in Factories : Scaled(planned, got, desired)[f] <= planned[f]
         /\ \A f \in Factories : \A g \in Needs(Input[f]) :
              Scaled(planned, got, desired)[f] <= Part(planned[f], got[g], desired[g])
         /\ got = desired => Scaled(planned, got, desired) = planned
<1> DEFINE parts(f) == {Part(planned[f], got[g], desired[g]) : g \in Needs(Input[f])}
           runs == Scaled(planned, got, desired)
<1>1. ASSUME NEW f \in Factories
      PROVE  /\ runs[f] = LeastOf(planned[f], parts(f)) /\ planned[f] \in Nat
             /\ parts(f) \in SUBSET Nat
  <2>1. \A g \in Needs(Input[f]) : got[g] \in Nat /\ desired[g] \in Nat
    BY DEF Needs, Amounts
  <2>2. planned[f] \in Nat
    BY DEF Runs
  <2>3. \A g \in Needs(Input[f]) : Part(planned[f], got[g], desired[g]) \in Nat
    BY <2>1, <2>2, PartType
  <2>4. parts(f) \in SUBSET Nat
    BY <2>3
  <2> QED BY <2>2, <2>4 DEF Scaled
<1>2. ASSUME NEW f \in Factories
      PROVE  /\ runs[f] \in Nat /\ runs[f] <= planned[f] /\ runs[f] \in {planned[f]} \cup parts(f)
             /\ \A k \in parts(f) : runs[f] <= k
  <2> DEFINE P == parts(f)
  <2>1. runs[f] = LeastOf(planned[f], P) /\ planned[f] \in Nat /\ P \in SUBSET Nat
    BY <1>1
  <2> HIDE DEF P, runs, parts
  <2>2. /\ LeastOf(planned[f], P) \in Nat /\ LeastOf(planned[f], P) <= planned[f]
        /\ LeastOf(planned[f], P) \in {planned[f]} \cup P
        /\ \A k \in P : LeastOf(planned[f], P) <= k
    BY <2>1, LeastOfType
  <2> QED BY <2>1, <2>2 DEF P
<1>3. runs = [f \in Factories |-> runs[f]]
  BY DEF Scaled
<1>4. runs \in Runs
  <2> HIDE DEF runs
  <2> QED BY <1>2, <1>3 DEF Runs
<1>5. ASSUME NEW f \in Factories, NEW g \in Needs(Input[f])
      PROVE  runs[f] <= Part(planned[f], got[g], desired[g])
  <2> HIDE DEF runs
  <2> QED BY <1>2
<1>6. ASSUME got = desired PROVE runs = planned
  <2>1. ASSUME NEW f \in Factories PROVE runs[f] = planned[f]
    <3>1. \A g \in Needs(Input[f]) : Part(planned[f], got[g], desired[g]) = planned[f]
      <4>1. \A g \in Needs(Input[f]) : got[g] \in Nat /\ desired[g] = got[g]
        BY <1>6 DEF Needs, Amounts
      <4>2. planned[f] \in Nat
        BY DEF Runs
      <4> QED BY <4>1, <4>2, PartType
    <3>2. \A k \in parts(f) : k = planned[f]
      BY <3>1
    <3> HIDE DEF runs, parts
    <3> QED BY <1>2, <3>2
  <2>2. planned = [f \in Factories |-> planned[f]]
    BY DEF Runs
  <2> HIDE DEF runs
  <2> QED BY <1>3, <2>1, <2>2
<1> QED BY <1>2, <1>4, <1>5, <1>6

\* Scaled runs use no more of a good than they got.
LEMMA ScaledFits ==
  ASSUME NEW planned \in Runs, NEW got \in Amounts, NEW desired \in Amounts, NEW g \in Goods,
         desired[g] = Used(planned, g), got[g] <= desired[g]
  PROVE  Used(Scaled(planned, got, desired), g) <= got[g]
<1> DEFINE runs == Scaled(planned, got, desired)
           u == [f \in Factories |-> Input[f][g] * runs[f]]
           v == [f \in Factories |-> Input[f][g] * planned[f]]
<1>1. runs \in Runs /\ \A f \in Factories : runs[f] <= planned[f]
  BY ScaledType
<1>2. \A f \in Factories : \A h \in Needs(Input[f]) :
        runs[f] <= Part(planned[f], got[h], desired[h])
  BY ScaledType
<1>3. Used(runs, g) = SumFunctionOnSet(u, Factories) /\ desired[g] = SumFunctionOnSet(v, Factories)
  BY DEF Used
<1> HIDE DEF runs
<1>4. got[g] \in Nat /\ desired[g] \in Nat /\ IsFiniteSet(Factories)
  BY EconomyAssumption DEF Amounts
<1>5. ASSUME NEW f \in Factories
      PROVE  /\ u[f] \in Nat /\ v[f] \in Nat /\ u[f] <= v[f]
             /\ got[g] < desired[g] => desired[g] * u[f] <= got[g] * v[f]
  <2> DEFINE i == Input[f][g]
             r == runs[f]
             p == planned[f]
             P == Part(planned[f], got[g], desired[g])
  <2>1. i \in Nat /\ r \in Nat /\ p \in Nat /\ r <= p
    BY <1>1, EconomyAssumption DEF Runs, Amounts
  <2>2. u[f] = i * r /\ v[f] = i * p
    OBVIOUS
  <2>3. P \in Nat /\ (got[g] < desired[g] => P * desired[g] <= p * got[g])
    BY <1>4, <2>1, PartType
  <2>4. i > 0 => r <= P
    BY <1>2 DEF Needs
  <2> HIDE DEF i, r, p, P, u, v
  <2>5. i * r <= i * p /\ i * r \in Nat /\ i * p \in Nat
    BY <2>1, TimesMonotone
  <2>6. ASSUME got[g] < desired[g] PROVE desired[g] * (i * r) <= got[g] * (i * p)
    <3>1. CASE i = 0
      <4>1. i * r = 0 /\ i * p = 0
        BY <2>1, <3>1, SMT
      <4> QED BY <1>4, <4>1
    <3>2. CASE i > 0
      <4>1. r * desired[g] <= P * desired[g] /\ r * desired[g] \in Nat
        BY <1>4, <2>1, <2>3, <2>4, <3>2, TimesMonotone
      <4>2. P * desired[g] \in Int /\ p * got[g] \in Nat
        BY <1>4, <2>1, <2>3, SMT
      <4>3. r * desired[g] <= p * got[g]
        BY <2>3, <2>6, <4>1, <4>2
      <4>4. i * (r * desired[g]) <= i * (p * got[g])
        BY <2>1, <4>1, <4>2, <4>3, TimesMonotone
      <4>5. /\ i * (r * desired[g]) = desired[g] * (i * r)
            /\ i * (p * got[g]) = got[g] * (i * p)
        BY <1>4, <2>1, SMT
      <4> QED BY <4>4, <4>5
    <3> QED BY <2>1, <3>1, <3>2
  <2> QED BY <2>2, <2>5, <2>6
<1> HIDE DEF u, v
<1>6. SumFunctionOnSet(u, Factories) <= got[g]
  BY <1>3, <1>4, <1>5, SumPart
<1> QED BY <1>3, <1>6 DEF runs

-----------------------------------------------------------------------------
(* Investment *)

\* Builders build no more than planned, with no more than their part of the
\* goods, and what is planned when all goods are given.
LEMMA BuiltType ==
  ASSUME NEW plan \in Builds, NEW given \in Amounts, NEW b \in Builders,
         \A g \in Goods : given[g] <= Invested(plan, g)
  PROVE  /\ Built(plan, given, b) \in Nat /\ Built(plan, given, b) <= plan[b]
         /\ \A g \in Goods :
              Invested(plan, g) * (BuildCost[b][g] * Built(plan, given, b))
                <= given[g] * (BuildCost[b][g] * plan[b])
         /\ (\A g \in Goods : given[g] = Invested(plan, g)) => Built(plan, given, b) = plan[b]
<1> DEFINE c(g) == BuildCost[b][g]
           p == plan[b]
           I(g) == Invested(plan, g)
           D == {h \in Needs(BuildCost[b]) : Invested(plan, h) > 0}
           q(g) == (given[g] * c(g) * p) \div I(g)
           parts == {q(g) \div c(g) : g \in D}
           m == Built(plan, given, b)
<1>1. /\ p \in Nat
      /\ \A g \in Goods : c(g) \in Nat /\ given[g] \in Nat /\ I(g) \in Nat /\ c(g) * p <= I(g)
  BY EconomyAssumption, InvestedType DEF Builds, Amounts
<1>2. m = LeastOf(p, parts)
  BY DEF Built
<1>3. ASSUME NEW g \in D
      PROVE  /\ g \in Goods /\ c(g) \in Nat \ {0} /\ I(g) \in Nat \ {0} /\ q(g) \in Nat
             /\ q(g) * I(g) <= given[g] * c(g) * p /\ given[g] * c(g) * p \in Nat
             /\ q(g) \div c(g) \in Nat /\ (q(g) \div c(g)) * c(g) <= q(g)
  <2>1. g \in Goods /\ c(g) \in Nat \ {0} /\ I(g) \in Nat \ {0} /\ given[g] \in Nat /\ p \in Nat
    BY <1>1 DEF Needs
  <2> DEFINE a == given[g] * c(g) * p
  <2>2. a \in Nat
    <3> HIDE DEF c, p, I
    <3> QED BY <2>1, SMT
  <2>3. q(g) = a \div I(g)
    OBVIOUS
  <2>4. q(g) \in Nat /\ q(g) * I(g) <= a
    <3> HIDE DEF a, I, q
    <3> QED BY <2>1, <2>2, <2>3, DivideBounds
  <2>5. q(g) \div c(g) \in Nat /\ (q(g) \div c(g)) * c(g) <= q(g)
    <3> HIDE DEF q, c
    <3> QED BY <2>1, <2>4, DivideBounds
  <2> HIDE DEF q, c, I, p
  <2> QED BY <2>1, <2>2, <2>4, <2>5
<1>4. parts \in SUBSET Nat
  <2> HIDE DEF D, q, c
  <2> QED BY <1>3
<1>5. m \in Nat /\ m <= p /\ m \in {p} \cup parts /\ \A k \in parts : m <= k
  <2> HIDE DEF p, parts, m
  <2> QED BY <1>1, <1>2, <1>4, LeastOfType
<1>6. ASSUME NEW g \in Goods PROVE I(g) * (c(g) * m) <= given[g] * (c(g) * p)
  <2>1. CASE g \in D
    <3> DEFINE k == q(g) \div c(g)
    <3>1. m <= k /\ k \in Nat /\ k * c(g) <= q(g) /\ q(g) \in Nat /\ c(g) \in Nat /\ I(g) \in Nat
      <4>1. k \in parts
        BY <2>1
      <4> HIDE DEF D, q, c, parts, m
      <4> QED BY <1>3, <1>5, <2>1, <4>1
    <3>2. q(g) * I(g) <= given[g] * c(g) * p /\ given[g] * c(g) * p \in Nat
      BY <1>3, <2>1
    <3>5. m \in Nat /\ p \in Nat /\ given[g] \in Nat
      BY <1>1, <1>5
    <3> HIDE DEF D, q, c, I, k, m, p
    <3>3. m * c(g) <= k * c(g) /\ m * c(g) \in Nat /\ k * c(g) \in Nat
      BY <3>1, <3>5, TimesMonotone
    <3>4. m * c(g) <= q(g)
      BY <3>1, <3>3
    <3>6. (m * c(g)) * I(g) <= q(g) * I(g) /\ (m * c(g)) * I(g) \in Nat /\ q(g) * I(g) \in Nat
      <4>1. q(g) * I(g) \in Nat
        BY <3>1, SMT
      <4> QED BY <3>1, <3>3, <3>4, <4>1, TimesMonotone
    <3>7. (m * c(g)) * I(g) <= given[g] * c(g) * p
      BY <3>2, <3>6
    <3>8. /\ (m * c(g)) * I(g) = I(g) * (c(g) * m)
          /\ given[g] * c(g) * p = given[g] * (c(g) * p)
      BY <3>1, <3>5, SMT
    <3> QED BY <3>7, <3>8
  <2>2. CASE g \notin D
    <3>1. c(g) = 0 \/ I(g) = 0
      BY <1>1, <2>2 DEF Needs
    <3>2. c(g) * m \in Nat /\ c(g) * p \in Nat /\ given[g] \in Nat /\ I(g) \in Nat
      <4>1. c(g) \in Nat /\ m \in Nat /\ p \in Nat /\ given[g] \in Nat /\ I(g) \in Nat
        BY <1>1, <1>5
      <4> HIDE DEF c, m, p, I
      <4> QED BY <4>1, SMT
    <3>3. I(g) * (c(g) * m) = 0
      <4>1. c(g) \in Nat /\ m \in Nat /\ I(g) \in Nat
        BY <1>1, <1>5
      <4> HIDE DEF c, m, I
      <4>2. CASE c(g) = 0
        <5>1. c(g) * m = 0
          BY <4>1, <4>2
        <5> QED BY <4>1, <5>1
      <4>3. CASE I(g) = 0
        BY <3>2, <4>1, <4>3
      <4> QED BY <3>1, <4>2, <4>3
    <3>4. given[g] * (c(g) * p) \in Nat
      <4> HIDE DEF c, p
      <4> QED BY <3>2, SMT
    <3> HIDE DEF c, m, p, I
    <3> QED BY <3>3, <3>4
  <2> QED BY <2>1, <2>2
<1>7. ASSUME \A g \in Goods : given[g] = Invested(plan, g) PROVE m = p
  <2>1. ASSUME NEW g \in D PROVE q(g) \div c(g) = p
    <3>1. given[g] = I(g) /\ I(g) \in Nat \ {0} /\ c(g) \in Nat \ {0} /\ p \in Nat
      BY <1>1, <1>3, <1>7
    <3>2. q(g) = (given[g] * c(g) * p) \div I(g)
      OBVIOUS
    <3> HIDE DEF q, c, I, p, D
    <3>3. given[g] * c(g) * p = I(g) * (c(g) * p) /\ c(g) * p \in Nat
      BY <3>1, SMT
    <3>4. q(g) = c(g) * p
      BY <3>1, <3>2, <3>3, DivideExact
    <3> QED BY <3>1, <3>4, DivideExact
  <2>2. \A k \in parts : k = p
    <3> HIDE DEF q, c, p, D
    <3> QED BY <2>1
  <2> HIDE DEF parts, p, m
  <2> QED BY <1>5, <2>2
<1> QED BY <1>5, <1>6, <1>7

\* What is built takes no more of a good than was given.
LEMMA BuiltFits ==
  ASSUME NEW plan \in Builds, NEW given \in Amounts, NEW g \in Goods,
         \A h \in Goods : given[h] <= Invested(plan, h)
  PROVE  Invested([b \in Builders |-> Built(plan, given, b)], g) <= given[g]
<1> DEFINE built == [b \in Builders |-> Built(plan, given, b)]
           u == [b \in Builders |-> BuildCost[b][g] * built[b]]
           v == [b \in Builders |-> BuildCost[b][g] * plan[b]]
<1>1. /\ Invested(built, g) = SumFunctionOnSet(u, Builders)
      /\ Invested(plan, g) = SumFunctionOnSet(v, Builders)
  BY DEF Invested
<1>2. given[g] \in Nat /\ Invested(plan, g) \in Nat /\ IsFiniteSet(Builders)
  BY EconomyAssumption, InvestedType DEF Amounts
<1>3. ASSUME NEW b \in Builders
      PROVE  /\ u[b] \in Nat /\ v[b] \in Nat /\ u[b] <= v[b]
             /\ Invested(plan, g) * u[b] <= given[g] * v[b]
  <2>1. /\ Built(plan, given, b) \in Nat /\ Built(plan, given, b) <= plan[b]
        /\ Invested(plan, g) * (BuildCost[b][g] * Built(plan, given, b))
                <= given[g] * (BuildCost[b][g] * plan[b])
    BY BuiltType
  <2>2. BuildCost[b][g] \in Nat /\ plan[b] \in Nat
    BY EconomyAssumption DEF Builds, Amounts
  <2>3. u[b] = BuildCost[b][g] * Built(plan, given, b) /\ v[b] = BuildCost[b][g] * plan[b]
    OBVIOUS
  <2> HIDE DEF u, v
  <2>4. u[b] <= v[b] /\ u[b] \in Nat /\ v[b] \in Nat
    BY <2>1, <2>2, <2>3, TimesMonotone
  <2> QED BY <2>1, <2>3, <2>4
<1> HIDE DEF u, v
<1>4. SumFunctionOnSet(u, Builders) <= given[g]
  BY <1>1, <1>2, <1>3, SumPart
<1> QED BY <1>1, <1>4

-----------------------------------------------------------------------------
(* Deposits *)

\* Neither extraction nor regeneration takes a deposit out of its bounds.
LEMMA DepositType ==
  ASSUME NEW e \in EconomyRecord, NEW runs \in Runs, NEW g \in Goods,
         e.resources[g] <= Capacity[g]
  PROVE  Deposit(e, runs, g) \in Nat /\ Deposit(e, runs, g) <= Capacity[g]
<1> DEFINE dug == SumFunctionOnSet([f \in Extractors |-> Output[f][g] * runs[f]], Extractors)
           left == Monus(e.resources[g], dug)
           grown == (Regeneration[g] * (Capacity[g] - left)) \div Capacity[g]
<1>1. e.resources[g] \in Nat /\ Capacity[g] \in Nat /\ Regeneration[g] \in Nat /\ dug \in Nat
  BY EconomyAssumption, RunsType DEF EconomyRecord, Amounts
<1>2. left \in Nat /\ left <= Capacity[g]
  <2> HIDE DEF dug
  <2> QED BY <1>1, LeastMonus
<1>3. CASE Capacity[g] = 0 \/ \A f \in Extractors : Output[f][g] = 0
  BY <1>1, <1>3 DEF Deposit
<1>4. CASE Capacity[g] # 0 /\ ~\A f \in Extractors : Output[f][g] = 0
  <2>1. Deposit(e, runs, g) = Least(Capacity[g], left + grown)
    BY <1>4 DEF Deposit
  <2> HIDE DEF left, dug
  <2>2. Regeneration[g] * (Capacity[g] - left) \in Nat /\ Capacity[g] \in Nat \ {0}
    BY <1>1, <1>2, <1>4, SMT
  <2>3. grown \in Nat
    BY <2>2, DivideBounds
  <2> HIDE DEF grown
  <2>4. left + grown \in Nat /\ Capacity[g] \in Nat
    BY <1>1, <1>2, <2>3
  <2>5. Least(Capacity[g], left + grown) \in Nat /\ Least(Capacity[g], left + grown) <= Capacity[g]
    BY <2>4, LeastMonus
  <2> QED BY <2>1, <2>5
<1> QED BY <1>3, <1>4

\* Nobody digs up more than a deposit has.
LEMMA DugFits ==
  ASSUME NEW e \in EconomyRecord, NEW potential \in Runs, NEW runs \in Runs,
         \A f \in Factories : runs[f] <= Wanted(e, potential, f),
         NEW g \in Goods, Dug(g)
  PROVE  Made(runs, g) <= e.resources[g]
<1> DEFINE u == [f \in Factories |-> Output[f][g] * runs[f]]
           o == [f \in Extractors |-> Output[f][g]]
           L == (MaxExtraction[g] * e.resources[g]) \div Capacity[g]
           w == [f \in Extractors |-> L * o[f]]
           s == SumFunctionOnSet(o, Extractors)
           m == MaxExtraction[g]
           r == e.resources[g]
           c == Capacity[g]
<1>1. /\ m \in Nat /\ r \in Nat /\ c \in Nat \ {0}
      /\ IsFiniteSet(Factories) /\ Extractors \in SUBSET Factories /\ IsFiniteSet(Extractors)
      /\ \A f \in Factories : Output[f][g] \in Nat /\ runs[f] \in Nat
  BY EconomyAssumption, FS_Subset DEF EconomyRecord, Amounts, Runs, Dug
<1>2. L \in Nat /\ L * c <= m * r
  <2>1. m * r \in Nat
    BY <1>1, SMT
  <2> QED BY <1>1, <2>1, DivideBounds
<1>3. s \in Nat /\ s * m <= c
  <2>1. \A f \in Extractors : o[f] \in Nat
    BY <1>1
  <2>2. s * m <= c
    BY DEF Dug
  <2> HIDE DEF o
  <2> QED BY <1>1, <2>1, <2>2, SumNatural
<1>4. Made(runs, g) = SumFunctionOnSet(u, Factories)
  BY DEF Made
<1>5. /\ \A f \in Factories : u[f] \in Nat
      /\ \A f \in Factories \ Extractors : u[f] = 0
      /\ \A f \in Extractors : u[f] <= w[f] /\ w[f] \in Nat
  <2> SUFFICES ASSUME NEW f \in Factories
               PROVE  /\ u[f] \in Nat
                      /\ f \notin Extractors => u[f] = 0
                      /\ f \in Extractors => u[f] <= w[f] /\ w[f] \in Nat
    BY <1>1
  <2> DEFINE k == Output[f][g]
             n == runs[f]
  <2>1. k \in Nat /\ n \in Nat /\ u[f] = k * n /\ (f \in Extractors => w[f] = L * k)
    BY <1>1
  <2>2. f \notin Extractors => k = 0
    BY <1>1 DEF Dug
  <2>3. f \in Extractors /\ k > 0 => n <= L
    <3> SUFFICES ASSUME f \in Extractors, k > 0 PROVE n <= L
      OBVIOUS
    <3>1. g \in Needs(Output[f]) /\ Capacity[g] > 0
      BY DEF Needs, Dug
    <3>2. Wanted(e, potential, f) \in Nat /\ Wanted(e, potential, f) <= L
      BY <3>1, WantedType
    <3>3. n <= Wanted(e, potential, f)
      OBVIOUS
    <3> HIDE DEF L, n
    <3> QED BY <1>2, <2>1, <3>2, <3>3
  <2> HIDE DEF k, n, L, u, w
  <2>4. k * n \in Nat /\ L * k \in Nat
    BY <1>2, <2>1, SMT
  <2>5. k = 0 => k * n = 0 /\ L * k = 0
    BY <1>2, <2>1, SMT
  <2>6. n <= L => k * n <= k * L
    BY <1>2, <2>1, TimesMonotone
  <2>7. k * L = L * k
    BY <1>2, <2>1, SMT
  <2> QED BY <2>1, <2>2, <2>3, <2>4, <2>5, <2>6, <2>7
<1>6. SumFunctionOnSet(u, Factories) = SumFunctionOnSet(u, Extractors)
  <2> HIDE DEF u
  <2> QED BY <1>1, <1>5, SumRestrict
<1>7. SumFunctionOnSet(u, Extractors) <= SumFunctionOnSet(w, Extractors)
  <2> HIDE DEF u, w
  <2> QED BY <1>1, <1>5, SumMonotone
<1>8. SumFunctionOnSet(w, Extractors) = L * s
  <2>1. \A f \in Extractors : w[f] = L * o[f] /\ o[f] \in Int
    BY <1>1
  <2> HIDE DEF w, o, L
  <2> QED BY <1>1, <1>2, <2>1, SumTimes
<1>9. L * s <= r
  <2> HIDE DEF L, s, m, r, c
  <2>1. s * (L * c) <= s * (m * r) /\ s * (L * c) \in Nat /\ s * (m * r) \in Nat
    <3>1. L * c \in Nat /\ m * r \in Nat
      BY <1>1, <1>2, SMT
    <3> QED BY <1>2, <1>3, <3>1, TimesMonotone, SMT
  <2>2. (s * m) * r <= c * r /\ (s * m) * r \in Nat /\ c * r \in Nat
    <3>1. s * m \in Nat
      BY <1>1, <1>3, SMT
    <3> QED BY <1>1, <1>3, <3>1, TimesMonotone, SMT
  <2>3. s * (L * c) = (L * s) * c /\ s * (m * r) = (s * m) * r /\ c * r = r * c
    BY <1>1, <1>2, <1>3, SMT
  <2>4. (L * s) * c <= r * c /\ L * s \in Nat
    BY <1>2, <1>3, <2>1, <2>2, <2>3, SMT
  <2> QED BY <1>1, <2>4, TimesCancel
<1>10. SumFunctionOnSet(u, Extractors) \in Int /\ SumFunctionOnSet(w, Extractors) \in Int
  <2> HIDE DEF u, w
  <2> QED BY <1>1, <1>5, SumType
<1> HIDE DEF u, w, L, s, r
<1> QED BY <1>1, <1>2, <1>3, <1>4, <1>6, <1>7, <1>8, <1>9, <1>10 DEF r

-----------------------------------------------------------------------------
(* The tick *)

\* No deposit is over its capacity, and of a transient good there is nothing to
\* use and nothing was used.
Sound(e) ==
  /\ \A g \in Goods : e.resources[g] <= Capacity[g]
  /\ \A g \in Transient :
       /\ e.stocks[g] = 0 /\ e.imports[g] = 0
       /\ e.consumption[g] = 0 /\ e.intermediate[g] = 0 /\ e.investment[g] = 0

\* A table is the function it is made of.
LEMMA TableIs == \A f : Table(f) = f
  BY DEF Table

\* A tick computes natural numbers, keeps an economy sound and balances its
\* books.
LEMMA TickedBooks ==
  ASSUME NEW e \in EconomyRecord, Sound(e), e.initialized,
         NEW potential \in Runs, NEW want \in Amounts, NEW plan \in Builds
  PROVE  /\ Ticked(e, potential, want, plan) \in EconomyRecord
         /\ Sound(Ticked(e, potential, want, plan))
         /\ Books(e, Ticked(e, potential, want, plan))
<1> DEFINE wanted   == Table([f \in Factories |-> Wanted(e, potential, f)])
           planned  == Table(Rationed(e, wanted))
           inputs   == Table([g \in Goods |-> Used(planned, g)])
           supply   == Table([g \in Goods |-> e.stocks[g] + e.imports[g]])
           dom      == Table([g \in Goods |-> want[g] + Invested(plan, g) + inputs[g]])
           consumed == Table([g \in Goods |-> Domestic(want[g], supply[g], dom[g])])
           given    == Table([g \in Goods |-> Domestic(Invested(plan, g), supply[g], dom[g])])
           got      == Table([g \in Goods |-> Domestic(inputs[g], supply[g], dom[g])])
           exported == Table([g \in Goods |-> Exported(e.exports[g], supply[g], dom[g])])
           runs     == Table(Scaled(planned, got, inputs))
           usage    == Table([g \in Goods |-> consumed[g] + given[g] + Used(runs, g) + exported[g]])
           built    == Table([b \in Builders |-> Built(plan, given, b)])
           new      == Ticked(e, potential, want, plan)
<1>1. new =
        [initialized  |-> TRUE,
         stocks       |-> [g \in Goods |-> Stored(g, Monus(supply[g], usage[g]) + Made(runs, g))],
         resources    |-> [g \in Goods |-> Deposit(e, runs, g)],
         imports      |-> Zero,
         exports      |-> Zero,
         budget       |-> exported,
         production   |-> [g \in Goods |-> Made(runs, g)],
         consumption  |-> consumed,
         investment   |-> [g \in Goods |-> Invested(built, g)],
         intermediate |-> [g \in Goods |-> Used(runs, g)],
         supply       |-> supply,
         demand       |-> [g \in Goods |-> dom[g] + e.exports[g]]]
  BY Zenon DEF Ticked
<1>2. /\ wanted = [f \in Factories |-> Wanted(e, potential, f)]
      /\ planned = Rationed(e, wanted)
      /\ inputs = [g \in Goods |-> Used(planned, g)]
      /\ supply = [g \in Goods |-> e.stocks[g] + e.imports[g]]
      /\ dom = [g \in Goods |-> want[g] + Invested(plan, g) + inputs[g]]
  BY TableIs, Zenon
<1>3. /\ consumed = [g \in Goods |-> Domestic(want[g], supply[g], dom[g])]
      /\ given = [g \in Goods |-> Domestic(Invested(plan, g), supply[g], dom[g])]
      /\ got = [g \in Goods |-> Domestic(inputs[g], supply[g], dom[g])]
      /\ exported = [g \in Goods |-> Exported(e.exports[g], supply[g], dom[g])]
      /\ runs = Scaled(planned, got, inputs)
      /\ usage = [g \in Goods |-> consumed[g] + given[g] + Used(runs, g) + exported[g]]
      /\ built = [b \in Builders |-> Built(plan, given, b)]
  BY TableIs, Zenon
<1> HIDE DEF wanted, planned, inputs, supply, dom, consumed, given, got, exported, runs,
             usage, built, new
<1>4. /\ e.stocks \in Amounts /\ e.imports \in Amounts /\ e.exports \in Amounts
      /\ e.resources \in Amounts /\ want \in Amounts
      /\ Transient \subseteq Goods /\ Capacity \in Amounts
  BY EconomyAssumption DEF EconomyRecord
\* Runs.
<1>5. wanted \in Runs
  <2>1. \A f \in Factories : Wanted(e, potential, f) \in Nat
    BY WantedType
  <2> QED BY <1>2, <2>1 DEF Runs
<1>6. planned \in Runs /\ \A f \in Factories : planned[f] <= wanted[f]
  BY <1>2, <1>5, RationedType
<1>7. inputs \in Amounts /\ \A g \in Goods : inputs[g] = Used(planned, g)
  <2>1. \A g \in Goods : Used(planned, g) \in Nat
    BY <1>6, RunsType
  <2> QED BY <1>2, <2>1 DEF Amounts
\* Supply and demand.
<1>8. ASSUME NEW g \in Goods
      PROVE  /\ e.stocks[g] \in Nat /\ e.imports[g] \in Nat /\ e.exports[g] \in Nat
             /\ want[g] \in Nat /\ Invested(plan, g) \in Nat /\ inputs[g] \in Nat
             /\ supply[g] = e.stocks[g] + e.imports[g] /\ supply[g] \in Nat
             /\ dom[g] = want[g] + Invested(plan, g) + inputs[g] /\ dom[g] \in Nat
  BY <1>2, <1>4, <1>7, InvestedType DEF Amounts
<1>9. ASSUME NEW g \in Goods
      PROVE  /\ consumed[g] = Domestic(want[g], supply[g], dom[g])
             /\ given[g] = Domestic(Invested(plan, g), supply[g], dom[g])
             /\ got[g] = Domestic(inputs[g], supply[g], dom[g])
             /\ exported[g] = Exported(e.exports[g], supply[g], dom[g])
             /\ usage[g] = consumed[g] + given[g] + Used(runs, g) + exported[g]
  BY <1>3
<1>10. ASSUME NEW g \in Goods
       PROVE  /\ consumed[g] \in Nat
              /\ given[g] \in Nat /\ given[g] <= Invested(plan, g)
              /\ got[g] \in Nat /\ got[g] <= inputs[g]
              /\ exported[g] \in Nat
              /\ consumed[g] + given[g] + got[g] + exported[g] <= supply[g]
              /\ dom[g] <= supply[g] => /\ consumed[g] = want[g] /\ given[g] = Invested(plan, g)
                                        /\ got[g] = inputs[g]
              /\ supply[g] = 0 => consumed[g] = 0 /\ given[g] = 0 /\ got[g] = 0
  <2>1. /\ Domestic(want[g], supply[g], dom[g]) + Domestic(Invested(plan, g), supply[g], dom[g])
             + Domestic(inputs[g], supply[g], dom[g]) + Exported(e.exports[g], supply[g], dom[g])
               <= supply[g]
        /\ Exported(e.exports[g], supply[g], dom[g]) \in Nat
    BY <1>8, SharesFit
  <2>2. supply[g] \in Nat /\ dom[g] \in Nat
    BY <1>8
  <2>3. \A n \in Nat :
          /\ Domestic(n, supply[g], dom[g]) \in Nat /\ Domestic(n, supply[g], dom[g]) <= n
          /\ dom[g] <= supply[g] => Domestic(n, supply[g], dom[g]) = n
          /\ supply[g] = 0 /\ n <= dom[g] => Domestic(n, supply[g], dom[g]) = 0
    <3> DEFINE s == supply[g]
               d == dom[g]
    <3>1. s \in Nat /\ d \in Nat
      BY <2>2
    <3> HIDE DEF s, d
    <3>2. ASSUME NEW n \in Nat
          PROVE  /\ Domestic(n, s, d) \in Nat /\ Domestic(n, s, d) <= n
                 /\ d <= s => Domestic(n, s, d) = n
                 /\ s = 0 /\ n <= d => Domestic(n, s, d) = 0
      BY <3>1, DomesticType
    <3> QED BY <3>2 DEF s, d
  <2>4. /\ want[g] \in Nat /\ Invested(plan, g) \in Nat /\ inputs[g] \in Nat
        /\ want[g] <= dom[g] /\ Invested(plan, g) <= dom[g] /\ inputs[g] <= dom[g]
    BY <1>8
  <2>5. /\ consumed[g] \in Nat /\ given[g] \in Nat /\ got[g] \in Nat
        /\ given[g] <= Invested(plan, g) /\ got[g] <= inputs[g]
        /\ dom[g] <= supply[g] => /\ consumed[g] = want[g] /\ given[g] = Invested(plan, g)
                                  /\ got[g] = inputs[g]
        /\ supply[g] = 0 => consumed[g] = 0 /\ given[g] = 0 /\ got[g] = 0
    BY <1>9, <2>3, <2>4
  <2> QED BY <1>9, <2>1, <2>5
<1>11. consumed \in Amounts /\ given \in Amounts /\ got \in Amounts /\ exported \in Amounts
  <2>1. /\ consumed = [g \in Goods |-> consumed[g]] /\ given = [g \in Goods |-> given[g]]
        /\ got = [g \in Goods |-> got[g]] /\ exported = [g \in Goods |-> exported[g]]
    BY <1>3
  <2> QED BY <1>10, <2>1 DEF Amounts
\* What is used and made of it.
<1>12. runs \in Runs /\ \A f \in Factories : runs[f] <= planned[f]
  BY <1>3, <1>6, <1>7, <1>11, ScaledType
<1>13. ASSUME NEW g \in Goods
       PROVE  Used(runs, g) \in Nat /\ Made(runs, g) \in Nat /\ Used(runs, g) <= got[g]
  <2>1. Used(runs, g) \in Nat /\ Made(runs, g) \in Nat
    BY <1>12, RunsType
  <2>2. Used(Scaled(planned, got, inputs), g) <= got[g]
    BY <1>6, <1>7, <1>10, <1>11, ScaledFits
  <2> QED BY <1>3, <2>1, <2>2
<1>14. built \in Builds
  <2>1. \A b \in Builders : Built(plan, given, b) \in Nat
    BY <1>10, <1>11, BuiltType
  <2> QED BY <1>3, <2>1 DEF Builds
<1>15. ASSUME NEW g \in Goods
       PROVE  Invested(built, g) \in Nat /\ Invested(built, g) <= given[g]
  <2>1. Invested(built, g) \in Nat
    BY <1>14, InvestedType
  <2>2. Invested([b \in Builders |-> Built(plan, given, b)], g) <= given[g]
    BY <1>10, <1>11, BuiltFits
  <2> QED BY <1>3, <2>1, <2>2
<1>16. ASSUME NEW g \in Goods
       PROVE  /\ usage[g] \in Nat /\ usage[g] <= supply[g]
              /\ Monus(supply[g], usage[g]) \in Nat
              /\ Monus(supply[g], usage[g]) = supply[g] - usage[g]
  <2>1. usage[g] \in Nat /\ usage[g] <= supply[g]
    BY <1>8, <1>9, <1>10, <1>13
  <2> QED BY <1>8, <2>1, LeastMonus
<1>17. ASSUME NEW g \in Goods
       PROVE  /\ new.stocks[g] = IF g \in Transient THEN 0
                                 ELSE supply[g] - usage[g] + Made(runs, g)
              /\ new.stocks[g] \in Nat
              /\ Deposit(e, runs, g) \in Nat /\ Deposit(e, runs, g) <= Capacity[g]
              /\ new.resources[g] = Deposit(e, runs, g)
              /\ new.imports[g] = 0 /\ new.exports[g] = 0 /\ new.budget[g] = exported[g]
              /\ new.production[g] = Made(runs, g) /\ new.consumption[g] = consumed[g]
              /\ new.investment[g] = Invested(built, g) /\ new.intermediate[g] = Used(runs, g)
              /\ new.supply[g] = supply[g] /\ new.demand[g] = dom[g] + e.exports[g]
  <2>1. /\ new.stocks[g] = Stored(g, Monus(supply[g], usage[g]) + Made(runs, g))
        /\ new.resources[g] = Deposit(e, runs, g)
        /\ new.imports[g] = 0 /\ new.exports[g] = 0 /\ new.budget[g] = exported[g]
        /\ new.production[g] = Made(runs, g) /\ new.consumption[g] = consumed[g]
        /\ new.investment[g] = Invested(built, g) /\ new.intermediate[g] = Used(runs, g)
        /\ new.supply[g] = supply[g] /\ new.demand[g] = dom[g] + e.exports[g]
    BY <1>1 DEF Zero
  <2>2. Deposit(e, runs, g) \in Nat /\ Deposit(e, runs, g) <= Capacity[g]
    BY <1>12, DepositType DEF Sound
  <2>3. /\ new.stocks[g] = IF g \in Transient THEN 0 ELSE supply[g] - usage[g] + Made(runs, g)
        /\ new.stocks[g] \in Nat
    BY <1>13, <1>16, <2>1 DEF Stored
  <2> QED BY <2>1, <2>2, <2>3
<1>18. new \in EconomyRecord
  <2>1. /\ supply \in Amounts /\ Zero \in Amounts
        /\ [g \in Goods |-> Stored(g, Monus(supply[g], usage[g]) + Made(runs, g))] \in Amounts
        /\ [g \in Goods |-> Deposit(e, runs, g)] \in Amounts
        /\ [g \in Goods |-> Made(runs, g)] \in Amounts
        /\ [g \in Goods |-> Invested(built, g)] \in Amounts
        /\ [g \in Goods |-> Used(runs, g)] \in Amounts
        /\ [g \in Goods |-> dom[g] + e.exports[g]] \in Amounts
    <3>1. supply \in Amounts
      BY <1>2, <1>4 DEF Amounts
    <3>2. \A g \in Goods : Stored(g, Monus(supply[g], usage[g]) + Made(runs, g)) \in Nat
      BY <1>13, <1>16 DEF Stored
    <3>3. \A g \in Goods : dom[g] + e.exports[g] \in Nat
      BY <1>8
    <3> QED BY <1>13, <1>15, <1>17, <3>1, <3>2, <3>3 DEF Amounts, Zero
  <2> QED BY <1>1, <1>11, <2>1 DEF EconomyRecord
<1>19. Sound(new)
  <2>1. ASSUME NEW g \in Transient
        PROVE  /\ new.stocks[g] = 0 /\ new.imports[g] = 0
               /\ new.consumption[g] = 0 /\ new.intermediate[g] = 0 /\ new.investment[g] = 0
    <3>1. g \in Goods /\ supply[g] = 0
      BY <1>4, <1>8 DEF Sound
    <3>2. consumed[g] = 0 /\ given[g] = 0 /\ got[g] = 0
      BY <1>10, <3>1
    <3>3. Used(runs, g) = 0 /\ Invested(built, g) = 0
      BY <1>13, <1>15, <3>1, <3>2
    <3> QED BY <1>17, <3>1, <3>2, <3>3
  <2> QED BY <1>17, <2>1 DEF Sound
\* The books.
<1>20. ASSUME NEW g \in Goods \ Transient PROVE Balance(e, new, g) = given[g] - Invested(built, g)
  <2>1. g \in Goods /\ g \notin Transient
    OBVIOUS
  <2>2. /\ new.stocks[g] = supply[g] - usage[g] + Made(runs, g)
        /\ new.production[g] = Made(runs, g) /\ new.consumption[g] = consumed[g]
        /\ new.investment[g] = Invested(built, g) /\ new.intermediate[g] = Used(runs, g)
        /\ new.budget[g] = exported[g]
    BY <1>17, <2>1
  <2>3. /\ supply[g] = e.stocks[g] + e.imports[g] /\ e.stocks[g] \in Nat /\ e.imports[g] \in Nat
        /\ usage[g] = consumed[g] + given[g] + Used(runs, g) + exported[g]
        /\ consumed[g] \in Nat /\ given[g] \in Nat /\ Used(runs, g) \in Nat /\ exported[g] \in Nat
        /\ Made(runs, g) \in Nat /\ Invested(built, g) \in Nat
    BY <1>8, <1>9, <1>10, <1>13, <1>15, <2>1
  <2> QED BY <2>2, <2>3 DEF Balance, Uses
<1>21. ASSUME \A h \in Goods : new.demand[h] - e.exports[h] <= new.supply[h], NEW g \in Goods
       PROVE  given[g] = Invested(built, g)
  <2>1. ASSUME NEW h \in Goods PROVE given[h] = Invested(plan, h)
    <3>1. dom[h] <= supply[h]
      BY <1>8, <1>17, <1>21
    <3> QED BY <1>10, <3>1
  <2>2. \A b \in Builders : Built(plan, given, b) = plan[b]
    <3>1. \A h \in Goods : given[h] <= Invested(plan, h)
      BY <1>10
    <3> QED BY <1>11, <2>1, <3>1, BuiltType
  <2>3. built = plan
    <3>1. plan = [b \in Builders |-> plan[b]]
      BY DEF Builds
    <3> QED BY <1>3, <2>2, <3>1
  <2> QED BY <2>1, <2>3
<1>22. ASSUME NEW g \in Goods, Dug(g) PROVE new.production[g] <= e.resources[g]
  <2>1. \A f \in Factories : runs[f] <= Wanted(e, potential, f)
    <3> SUFFICES ASSUME NEW f \in Factories PROVE runs[f] <= Wanted(e, potential, f)
      OBVIOUS
    <3>1. runs[f] \in Nat /\ planned[f] \in Nat /\ wanted[f] \in Nat
      BY <1>5, <1>6, <1>12 DEF Runs
    <3>2. runs[f] <= planned[f] /\ planned[f] <= wanted[f] /\ wanted[f] = Wanted(e, potential, f)
      BY <1>2, <1>6, <1>12
    <3> QED BY <3>1, <3>2
  <2>2. Made(runs, g) <= e.resources[g]
    BY <1>12, <1>22, <2>1, DugFits
  <2> QED BY <1>17, <2>2
<1>23. ASSUME NEW g \in Goods PROVE Uses(new, g) <= e.stocks[g] + e.imports[g]
  <2>1. /\ new.consumption[g] = consumed[g] /\ new.investment[g] = Invested(built, g)
        /\ new.intermediate[g] = Used(runs, g) /\ new.budget[g] = exported[g]
    BY <1>17
  <2>2. /\ supply[g] = e.stocks[g] + e.imports[g] /\ supply[g] \in Nat
        /\ usage[g] = consumed[g] + given[g] + Used(runs, g) + exported[g] /\ usage[g] <= supply[g]
        /\ consumed[g] \in Nat /\ given[g] \in Nat /\ Used(runs, g) \in Nat /\ exported[g] \in Nat
        /\ Invested(built, g) \in Nat /\ Invested(built, g) <= given[g]
    BY <1>8, <1>9, <1>10, <1>13, <1>15, <1>16
  <2> QED BY <2>1, <2>2 DEF Uses
<1>24. Books(e, new)
  <2>1. ASSUME NEW g \in Goods \ Transient
        PROVE  /\ Balance(e, new, g) >= 0
               /\ (\A h \in Goods : new.demand[h] - e.exports[h] <= new.supply[h])
                    => Balance(e, new, g) = 0
    BY <1>10, <1>15, <1>20, <1>21
  <2> QED BY <1>22, <1>23, <2>1 DEF Books
<1> QED BY <1>18, <1>19, <1>24 DEF new

-----------------------------------------------------------------------------
(* The economy and the copy of it *)

\* The inductive invariant: the copy is sound too, whose tick becomes the
\* economy.
EconomyIInv ==
  /\ TypeOK
  /\ econ # NoEconomy => Sound(econ)
  /\ copy # NoCopy => Sound(copy.economy)

\* The invariant of the runs follows.
LEMMA SoundInv == EconomyIInv => EconomyInv
<1> SUFFICES ASSUME EconomyIInv, NEW e \in Economies, NEW g \in Transient
             PROVE  /\ e.stocks[g] = 0 /\ e.imports[g] = 0
                    /\ e.consumption[g] = 0 /\ e.intermediate[g] = 0 /\ e.investment[g] = 0
  BY DEF EconomyIInv, EconomyInv, TransientNeverUsed
<1>1. (e = econ /\ econ # NoEconomy) \/ (e = copy.economy /\ copy # NoCopy)
  <2>1. e \in {econ} \cup (IF copy = NoCopy THEN {} ELSE {copy.economy}) /\ e # NoEconomy
    BY Zenon DEF Economies
  <2>2. CASE copy = NoCopy
    BY <2>1, <2>2
  <2>3. CASE copy # NoCopy
    BY <2>1, <2>3
  <2> QED BY <2>2, <2>3
<1>2. Sound(e)
  BY <1>1 DEF EconomyIInv
<1> QED BY <1>2 DEF Sound

\* What the variables hold.
LEMMA Contents ==
  ASSUME EconomyIInv
  PROVE  /\ econ # NoEconomy => econ \in EconomyRecord /\ Sound(econ)
         /\ copy # NoCopy => copy \in CopyRecord /\ copy.economy \in EconomyRecord /\ Sound(copy.economy)
         /\ planet = "settled" <=> econ # NoEconomy
  BY DEF EconomyIInv, TypeOK, CopyRecord

\* A new settlement is sound, and one that the loop initialized.
LEMMA NewSound ==
  /\ Default \in EconomyRecord /\ Sound(Default)
  /\ Initialized \in EconomyRecord /\ Sound(Initialized)
  /\ Default # NoEconomy /\ Initialized # NoEconomy
<1> DEFINE stocks == [g \in Goods |->
             IF g \notin Transient /\ \E f \in Factories : Output[f][g] > 0 THEN InitStock ELSE 0]
<1>1. /\ Zero \in Amounts /\ Capacity \in Amounts /\ stocks \in Amounts
      /\ \A g \in Goods : Zero[g] = 0 /\ Capacity[g] \in Nat
      /\ \A g \in Transient : g \in Goods /\ stocks[g] = 0
  BY EconomyAssumption DEF Zero, Amounts
<1>2. Default \in EconomyRecord /\ Sound(Default)
  BY <1>1 DEF Default, EconomyRecord, Sound
<1>3. Initialized = [Default EXCEPT !.initialized = TRUE, !.resources = Capacity, !.stocks = stocks]
  BY DEF Initialized
<1> HIDE DEF stocks
<1>4. Initialized \in EconomyRecord
  BY <1>1, <1>2, <1>3 DEF EconomyRecord
<1>5. /\ Initialized.resources = Capacity /\ Initialized.stocks = stocks
      /\ Initialized.imports = Zero /\ Initialized.consumption = Zero
      /\ Initialized.intermediate = Zero /\ Initialized.investment = Zero
  BY <1>3 DEF Default
<1>6. Sound(Initialized)
  BY <1>1, <1>5 DEF Sound
<1> QED BY <1>2, <1>4, <1>6, EconomyAssumption

\* Accumulators may be emptied or filled without harm, except with transient
\* goods.
LEMMA SoundAccounts ==
  ASSUME NEW e \in EconomyRecord, Sound(e), NEW i \in Amounts, NEW x \in Amounts, NEW b \in Amounts,
         \A g \in Transient : i[g] = 0
  PROVE  /\ [e EXCEPT !.imports = i, !.exports = x] \in EconomyRecord
         /\ Sound([e EXCEPT !.imports = i, !.exports = x])
         /\ [e EXCEPT !.exports = x, !.budget = b] \in EconomyRecord
         /\ Sound([e EXCEPT !.exports = x, !.budget = b])
         /\ [e EXCEPT !.imports = i] \in EconomyRecord
         /\ Sound([e EXCEPT !.imports = i])
  BY DEF EconomyRecord, Sound

\* At the start there is a seed's settlement.
LEMMA SoundInit == Init => EconomyIInv
<1> SUFFICES ASSUME Init PROVE EconomyIInv
  OBVIOUS
<1>1. econ = Default /\ copy = NoCopy /\ planet = "settled"
  BY DEF Init
<1>2. name \in NameRecord /\ booted \in BOOLEAN /\ {ticks, trades, edits, restarts} \subseteq Nat
  <2>1. PICK n \in Names : name = [system |-> n, id |-> n]
    BY DEF Init
  <2>2. name \in NameRecord
    BY <2>1 DEF NameRecord
  <2>3. booted = FALSE /\ ticks = 0 /\ trades = 0 /\ edits = 0 /\ restarts = 0
    BY DEF Init
  <2>4. {ticks, trades, edits, restarts} \subseteq Nat
    BY <2>3
  <2>5. booted \in BOOLEAN
    BY <2>3
  <2> QED BY <2>2, <2>4, <2>5
<1> QED BY <1>1, <1>2, NewSound DEF EconomyIInv, TypeOK, Sound

\* What an action has to show: that the economy it leaves is sound, if there is
\* one, and the copy too.
LEMMA SoundStep ==
  ASSUME name' \in NameRecord, planet' \in {"absent", "uninhabited", "settled"},
         booted' \in BOOLEAN, {ticks', trades', edits', restarts'} \subseteq Nat,
         \/ planet' # "settled" /\ econ' = NoEconomy
         \/ planet' = "settled" /\ econ' \in EconomyRecord /\ Sound(econ'),
         \/ copy' = NoCopy
         \/ copy' \in CopyRecord /\ Sound(copy'.economy)
  PROVE  EconomyIInv'
<1>1. (econ # NoEconomy => Sound(econ))' /\ (planet = "settled" <=> econ # NoEconomy)'
      /\ econ' \in {NoEconomy} \cup EconomyRecord
  BY EconomyAssumption
<1>2. copy' \in {NoCopy} \cup CopyRecord /\ (copy # NoCopy => Sound(copy.economy))'
  OBVIOUS
<1>3. (econ # NoEconomy => \A g \in Goods : econ.resources[g] <= Capacity[g])'
  BY <1>1 DEF Sound
<1> QED BY <1>1, <1>2, <1>3 DEF EconomyIInv, TypeOK

\* The loop's own steps.
LEMMA SoundLoop == ASSUME EconomyIInv, RunLoop PROVE EconomyIInv'
<1> USE DEF EconomyIInv, TypeOK, galaxy
<1>1. /\ econ # NoEconomy => econ \in EconomyRecord /\ Sound(econ)
      /\ copy # NoCopy => copy \in CopyRecord /\ copy.economy \in EconomyRecord /\ Sound(copy.economy)
      /\ planet = "settled" <=> econ # NoEconomy
  BY Contents
<1>2. Zero \in Amounts /\ \A g \in Goods : Zero[g] = 0
  BY DEF Zero, Amounts
<1>3. Transient \subseteq Goods
  BY EconomyAssumption
<1>4. CASE Bootstrap
  <2>1. econ' # NoEconomy => econ' \in EconomyRecord /\ Sound(econ')
    BY <1>1, <1>4, NewSound DEF Bootstrap
  <2>2. econ' # NoEconomy <=> econ # NoEconomy
    BY <1>1, <1>4, NewSound DEF Bootstrap
  <2> QED BY <1>1, <1>4, <2>1, <2>2, SoundStep DEF Bootstrap
<1>5. CASE CopyEconomy
  <2>1. econ \in EconomyRecord /\ Sound(econ) /\ planet = "settled"
    BY <1>1, <1>5 DEF CopyEconomy
  <2>2. copy' \in CopyRecord /\ Sound(copy'.economy)
    BY <1>5, <2>1 DEF CopyEconomy, CopyRecord
  <2>3. econ' \in EconomyRecord /\ Sound(econ')
    BY <1>2, <1>3, <1>5, <2>1, SoundAccounts DEF CopyEconomy
  <2>4. ticks' \in Nat /\ UNCHANGED <<name, planet, booted, trades, edits, restarts>>
    BY <1>5 DEF CopyEconomy
  <2> QED BY <2>1, <2>2, <2>3, <2>4, SoundStep
<1>6. CASE TickEconomy
  <2>1. PICK potential \in Potentials, want \in Wants, plan \in Plans :
          copy' = [copy EXCEPT !.ticked = TRUE, !.economy = Ticked(@, potential, want, plan)]
    BY <1>6 DEF TickEconomy
  <2>2. potential \in Runs /\ want \in Amounts /\ plan \in Builds
    BY EconomyAssumption DEF Runs, Builds
  <2>3. copy \in CopyRecord /\ copy.economy \in EconomyRecord /\ Sound(copy.economy)
    BY <1>1, <1>6 DEF TickEconomy
  <2> DEFINE new == Ticked(copy.economy, potential, want, plan)
  <2>4. new \in EconomyRecord /\ Sound(new)
    <3>1. CASE copy.economy.initialized
      BY <2>2, <2>3, <3>1, TickedBooks
    <3>2. CASE ~copy.economy.initialized
      <4>1. new = copy.economy
        BY <3>2 DEF Ticked
      <4> QED BY <2>3, <4>1
    <3> QED BY <3>1, <3>2
  <2> HIDE DEF new
  <2>5. copy' = [copy EXCEPT !.ticked = TRUE, !.economy = new]
    BY <2>1 DEF new
  <2>6. copy' \in CopyRecord /\ copy'.economy = new
    BY <2>3, <2>4, <2>5 DEF CopyRecord
  <2>7. UNCHANGED <<name, planet, econ, booted, ticks, trades, edits, restarts>>
    BY <1>6 DEF TickEconomy
  <2> QED BY <1>1, <2>4, <2>6, <2>7, SoundStep
<1>7. CASE WriteEconomy
  <2>1. copy \in CopyRecord /\ copy.economy \in EconomyRecord /\ Sound(copy.economy)
    BY <1>1, <1>7 DEF WriteEconomy
  <2>2. copy' = NoCopy /\ UNCHANGED <<name, planet, booted, ticks, trades, edits, restarts>>
    BY <1>7 DEF WriteEconomy
  <2>3. ASSUME Found PROVE econ' \in EconomyRecord /\ Sound(econ') /\ planet = "settled"
    <3>1. planet = "settled" /\ econ \in EconomyRecord /\ Sound(econ)
      BY <1>1, <2>3 DEF Found
    <3> DEFINE i == [g \in Goods |-> copy.economy.imports[g] + econ.imports[g]]
               x == [g \in Goods |-> copy.economy.exports[g] + econ.exports[g]]
    <3>2. i \in Amounts /\ x \in Amounts
      BY <2>1, <3>1 DEF EconomyRecord, Amounts
    <3>3. \A g \in Transient : i[g] = 0
      BY <1>3, <2>1, <3>1 DEF Sound
    <3>4. econ' = [copy.economy EXCEPT !.imports = i, !.exports = x]
      BY <1>7, <2>1, <2>3 DEF WriteEconomy, Merged, EconomyRecord
    <3> HIDE DEF i, x
    <3> QED BY <2>1, <3>1, <3>2, <3>3, <3>4, SoundAccounts
  <2>4. ASSUME ~Found PROVE econ' = econ
    BY <1>7, <2>4 DEF WriteEconomy
  <2>5. \/ planet' # "settled" /\ econ' = NoEconomy
        \/ planet' = "settled" /\ econ' \in EconomyRecord /\ Sound(econ')
    BY <1>1, <2>2, <2>3, <2>4
  <2> QED BY <2>2, <2>5, SoundStep
<1> QED BY <1>4, <1>5, <1>6, <1>7 DEF RunLoop

\* Trades.
LEMMA SoundTrade ==
  ASSUME EconomyIInv, NEW t \in Trades, Import(t) \/ Export(t)
  PROVE  EconomyIInv'
<1>1. /\ econ # NoEconomy => econ \in EconomyRecord /\ Sound(econ)
      /\ copy # NoCopy => copy \in CopyRecord /\ copy.economy \in EconomyRecord /\ Sound(copy.economy)
      /\ planet = "settled" <=> econ # NoEconomy
  BY Contents
<1>2. t.good \in Goods /\ t.units \in Nat /\ t.good \notin Transient /\ Transient \subseteq Goods
  BY EconomyAssumption DEF Import, Export, Trade
<1>3. econ \in EconomyRecord /\ Sound(econ) /\ planet = "settled"
  BY <1>1 DEF Import, Export, Trade
<1>4. UNCHANGED <<name, planet, copy, booted, ticks, edits, restarts>> /\ trades' = trades + 1
  BY DEF Import, Export, Trade, loop
<1>5. /\ name \in NameRecord /\ booted \in BOOLEAN /\ {ticks, trades, edits, restarts} \subseteq Nat
      /\ econ.imports \in Amounts /\ econ.exports \in Amounts /\ econ.budget \in Amounts
  BY <1>3 DEF EconomyIInv, TypeOK, EconomyRecord
<1>6. econ' \in EconomyRecord /\ Sound(econ')
  <2>1. CASE Import(t)
    <3> DEFINE i == [econ.imports EXCEPT ![t.good] = @ + t.units]
    <3>1. econ' = [econ EXCEPT !.imports = i]
      BY <2>1 DEF Import
    <3>2. i \in Amounts /\ \A g \in Transient : i[g] = 0
      BY <1>2, <1>3, <1>5 DEF Amounts, Sound
    <3> HIDE DEF i
    <3> QED BY <1>3, <1>5, <3>1, <3>2, SoundAccounts
  <2>2. CASE Export(t)
    <3> DEFINE x == [econ.exports EXCEPT ![t.good] = @ + t.units]
               b == [econ.budget EXCEPT ![t.good] = Monus(@, t.units)]
    <3>1. econ' = [econ EXCEPT !.exports = x, !.budget = b]
      BY <2>2 DEF Export
    <3>2. x \in Amounts /\ b \in Amounts
      <4>1. Monus(econ.budget[t.good], t.units) \in Nat
        BY <1>2, <1>5, LeastMonus DEF Amounts
      <4> QED BY <1>2, <1>5, <4>1 DEF Amounts
    <3>3. \A g \in Transient : econ.imports[g] = 0
      BY <1>3 DEF Sound
    <3> HIDE DEF x, b
    <3> QED BY <1>3, <1>5, <3>1, <3>2, <3>3, SoundAccounts
  <2> QED BY <2>1, <2>2
<1> QED BY <1>1, <1>3, <1>4, <1>5, <1>6, SoundStep

\* The administration.
LEMMA SoundAdminister == ASSUME EconomyIInv, Administer PROVE EconomyIInv'
<1>1. /\ econ # NoEconomy => econ \in EconomyRecord /\ Sound(econ)
      /\ copy # NoCopy => copy \in CopyRecord /\ copy.economy \in EconomyRecord /\ Sound(copy.economy)
      /\ planet = "settled" <=> econ # NoEconomy
  BY Contents
<1>2. /\ name \in NameRecord /\ booted \in BOOLEAN /\ {ticks, trades, edits, restarts} \subseteq Nat
      /\ planet \in {"absent", "uninhabited", "settled"}
  BY DEF EconomyIInv, TypeOK
<1>3. UNCHANGED <<copy, booted, ticks, trades, restarts>> /\ edits' \in Nat
  BY <1>2 DEF Administer, Settle, DeleteSettlement, DeletePlanet, CreatePlanet, RenameSystem, Edit, loop
<1>4. name' \in NameRecord /\ planet' \in {"absent", "uninhabited", "settled"}
  BY <1>2 DEF Administer, Settle, DeleteSettlement, DeletePlanet, CreatePlanet, RenameSystem, NameRecord
<1>5. \/ planet' # "settled" /\ econ' = NoEconomy
      \/ planet' = "settled" /\ econ' \in EconomyRecord /\ Sound(econ')
  BY <1>1, NewSound DEF Administer, Settle, DeleteSettlement, DeletePlanet, CreatePlanet, RenameSystem
<1> QED BY <1>1, <1>2, <1>3, <1>4, <1>5, SoundStep

\* Every step keeps the invariant.
LEMMA SoundNext == EconomyIInv /\ [Next]_vars => EconomyIInv'
<1> SUFFICES ASSUME EconomyIInv, [Next]_vars PROVE EconomyIInv'
  OBVIOUS
<1>1. CASE RunLoop
  BY <1>1, SoundLoop
<1>2. ASSUME NEW t \in Trades, Import(t) \/ Export(t) PROVE EconomyIInv'
  BY <1>2, SoundTrade
<1>3. CASE Administer
  BY <1>3, SoundAdminister
<1>4. CASE Restart
  <2>1. UNCHANGED <<name, planet, econ, ticks, trades, edits>> /\ copy' = NoCopy
        /\ booted' = FALSE /\ restarts' = restarts + 1
    BY <1>4 DEF Restart, galaxy
  <2>2. /\ name \in NameRecord /\ planet \in {"absent", "uninhabited", "settled"}
        /\ {ticks, trades, edits, restarts} \subseteq Nat
    BY DEF EconomyIInv, TypeOK
  <2>3. \/ planet # "settled" /\ econ = NoEconomy
        \/ planet = "settled" /\ econ \in EconomyRecord /\ Sound(econ)
    BY Contents
  <2>4. booted' \in BOOLEAN
    BY <2>1
  <2>5. name' \in NameRecord /\ planet' \in {"absent", "uninhabited", "settled"}
        /\ {ticks', trades', edits', restarts'} \subseteq Nat
    BY <2>1, <2>2
  <2>6. \/ planet' # "settled" /\ econ' = NoEconomy
        \/ planet' = "settled" /\ econ' \in EconomyRecord /\ Sound(econ')
    BY <2>1, <2>3
  <2> QED BY <2>1, <2>4, <2>5, <2>6, SoundStep
<1>5. CASE UNCHANGED vars
  BY <1>5, Contents, SoundStep DEF vars, galaxy, loop, EconomyIInv, TypeOK
<1> QED BY <1>1, <1>2, <1>3, <1>4, <1>5 DEF Next

\* In every economy, whatever the goods, factories and builders: what is held
\* has its type, deposits stay within their capacity, and nobody uses a
\* transient good.
THEOREM EconomyCorrect == Spec => []EconomyInv
<1>1. Spec => []EconomyIInv
  BY SoundInit, SoundNext, PTL DEF Spec
<1> QED BY <1>1, SoundInv, PTL

-----------------------------------------------------------------------------
(* What a step may do *)

\* The books of every tick balance.
THEOREM BooksCorrect == Spec => BooksBalance
<1>1. EconomyIInv /\ [Next]_vars =>
        [Ticks /\ copy.economy.initialized => Books(copy.economy, copy'.economy)]_vars
  <2> SUFFICES ASSUME EconomyIInv, [Next]_vars, Ticks, copy.economy.initialized
               PROVE  Books(copy.economy, copy'.economy)
    OBVIOUS
  <2>1. copy \in CopyRecord /\ copy.economy \in EconomyRecord /\ Sound(copy.economy)
    BY Contents DEF Ticks
  <2>2. TickEconomy
    BY DEF Ticks, Next, RunLoop, Bootstrap, CopyEconomy, WriteEconomy, Import, Export, Trade,
           Administer, Settle, DeleteSettlement, DeletePlanet, CreatePlanet, RenameSystem, Edit,
           Restart, vars, loop
  <2>3. PICK potential \in Potentials, want \in Wants, plan \in Plans :
          copy' = [copy EXCEPT !.ticked = TRUE, !.economy = Ticked(@, potential, want, plan)]
    BY <2>2 DEF TickEconomy
  <2>4. potential \in Runs /\ want \in Amounts /\ plan \in Builds
    BY EconomyAssumption DEF Runs, Builds
  <2>5. Books(copy.economy, Ticked(copy.economy, potential, want, plan))
    BY <2>1, <2>4, TickedBooks
  <2>6. copy'.economy = Ticked(copy.economy, potential, want, plan)
    BY <2>1, <2>3 DEF CopyRecord
  <2> QED BY <2>5, <2>6
<1>2. Spec => []EconomyIInv
  BY SoundInit, SoundNext, PTL DEF Spec
<1> QED BY <1>1, <1>2, PTL DEF Spec, BooksBalance

\* What players import is used by a tick, once, and goods only come and go with
\* what the code adds and removes.
THEOREM TradesCorrect == Spec => TradesKept
<1>1. ASSUME EconomyIInv, [Next]_vars, NEW g \in Goods, Held(g)' # Held(g), ~Ticks
      PROVE  \/ Held(g)' > Held(g) /\ trades' # trades
             \/ edits' # edits /\ econ' # econ
             \/ copy # NoCopy /\ copy.ticked /\ copy' = NoCopy /\ ~Found
             \/ restarts' # restarts /\ copy # NoCopy
             \/ booted' /\ ~booted /\ ~econ.initialized
  <2>1. /\ econ # NoEconomy => econ \in EconomyRecord
        /\ copy # NoCopy => copy \in CopyRecord /\ copy.economy \in EconomyRecord
        /\ planet = "settled" <=> econ # NoEconomy
        /\ {trades, edits, restarts} \subseteq Nat
    BY <1>1, Contents DEF EconomyIInv, TypeOK
  <2>2. ~(econ' = econ /\ copy' = copy)
    BY <1>1 DEF Held
  <2>3. CASE Bootstrap
    <3>1. econ' # econ /\ booted' /\ ~booted
      BY <2>2, <2>3 DEF Bootstrap
    <3> QED BY <2>3, <3>1 DEF Bootstrap
  <2>4. CASE CopyEconomy
    <3>1. econ \in EconomyRecord /\ econ # NoEconomy /\ copy = NoCopy
      BY <2>1, <2>4 DEF CopyEconomy
    <3>2. /\ econ' = [econ EXCEPT !.imports = Zero, !.exports = Zero]
          /\ copy' = [name |-> name, ticked |-> FALSE, economy |-> econ]
      BY <2>4 DEF CopyEconomy
    <3>3. econ' \in EconomyRecord /\ econ'.imports[g] = 0
      BY <1>1, <3>1, <3>2 DEF EconomyRecord, Zero, Amounts
    <3>4. copy' \in CopyRecord /\ copy'.economy = econ
      BY <1>1, <3>1, <3>2 DEF CopyRecord, EconomyIInv, TypeOK
    <3>5. econ' # NoEconomy /\ copy' # NoCopy
      BY <3>3, <3>4, EconomyAssumption
    <3>6. econ.stocks[g] \in Nat /\ econ.imports[g] \in Nat
      BY <1>1, <3>1 DEF EconomyRecord, Amounts
    <3>7. Held(g)' = 0 + (econ.stocks[g] + econ.imports[g])
      BY <3>3, <3>4, <3>5 DEF Held
    <3>8. Held(g) = econ.imports[g] + econ.stocks[g]
      BY <3>1 DEF Held
    <3> QED BY <1>1, <3>6, <3>7, <3>8
  <2>5. CASE TickEconomy
    <3>1. PICK potential \in Potentials, want \in Wants, plan \in Plans :
            copy' = [copy EXCEPT !.ticked = TRUE, !.economy = Ticked(@, potential, want, plan)]
      BY <2>5 DEF TickEconomy
    <3>2. copy \in CopyRecord /\ ~copy.ticked /\ copy # NoCopy
      BY <2>1, <2>5 DEF TickEconomy
    <3>3. copy'.ticked
      BY <3>1, <3>2 DEF CopyRecord
    <3>4. copy' # NoCopy
      <4>1. potential \in Runs /\ want \in Amounts /\ plan \in Builds
        BY EconomyAssumption DEF Runs, Builds
      <4>2. Ticked(copy.economy, potential, want, plan) \in EconomyRecord
        <5>1. copy.economy \in EconomyRecord /\ Sound(copy.economy)
          BY <1>1, <3>2, Contents
        <5>2. CASE copy.economy.initialized
          BY <4>1, <5>1, <5>2, TickedBooks
        <5>3. CASE ~copy.economy.initialized
          <6>1. Ticked(copy.economy, potential, want, plan) = copy.economy
            BY <5>3 DEF Ticked
          <6> QED BY <5>1, <6>1
        <5> QED BY <5>2, <5>3
      <4>3. copy' \in CopyRecord
        BY <3>1, <3>2, <4>2 DEF CopyRecord
      <4> QED BY <4>3, EconomyAssumption
    <3> QED BY <1>1, <3>2, <3>3, <3>4 DEF Ticks
  <2>6. CASE WriteEconomy
    <3>1. /\ copy # NoCopy /\ copy.ticked /\ copy' = NoCopy
          /\ econ' = IF Found THEN Merged(copy.economy) ELSE econ
      BY <2>6 DEF WriteEconomy
    <3>2. CASE Found
      <4>1. econ \in EconomyRecord /\ econ # NoEconomy /\ copy.economy \in EconomyRecord
        BY <2>1, <3>1, <3>2 DEF Found
      <4>2. econ' = Merged(copy.economy)
        BY <3>1, <3>2
      <4>3. /\ econ'.imports[g] = copy.economy.imports[g] + econ.imports[g]
            /\ econ'.stocks[g] = copy.economy.stocks[g]
        BY <1>1, <4>1, <4>2 DEF Merged, EconomyRecord
      <4>4. econ' # NoEconomy
        <5>1. EconomyIInv'
          BY <1>1, SoundNext
        <5>2. planet' = "settled"
          BY <2>6, <3>2 DEF WriteEconomy, Found
        <5> QED BY <5>1, <5>2 DEF EconomyIInv, TypeOK
      <4>5. /\ copy.economy.imports[g] \in Nat /\ copy.economy.stocks[g] \in Nat
            /\ econ.imports[g] \in Nat
        BY <1>1, <4>1 DEF EconomyRecord, Amounts
      <4>6. Held(g)' = (copy.economy.imports[g] + econ.imports[g]) + copy.economy.stocks[g]
        BY <3>1, <4>3, <4>4 DEF Held
      <4>7. Held(g) = econ.imports[g] + (copy.economy.stocks[g] + copy.economy.imports[g])
        BY <3>1, <4>1 DEF Held
      <4> QED BY <1>1, <4>5, <4>6, <4>7
    <3> QED BY <3>1, <3>2
  <2>7. ASSUME NEW t \in Trades, Import(t) \/ Export(t)
        PROVE  Held(g)' > Held(g) /\ trades' # trades
    <3>1. t.good \in Goods /\ t.units \in Nat
      BY EconomyAssumption
    <3>2. econ \in EconomyRecord /\ econ # NoEconomy /\ trades' = trades + 1 /\ copy' = copy
      BY <2>1, <2>7 DEF Import, Export, Trade, loop
    <3>3. econ' \in EconomyRecord /\ econ' # NoEconomy
      <4>1. EconomyIInv'
        BY <1>1, SoundNext
      <4>2. planet' = "settled"
        BY <2>7 DEF Import, Export, Trade
      <4> QED BY <4>1, <4>2 DEF EconomyIInv, TypeOK
    <3>4. /\ econ'.stocks[g] = econ.stocks[g]
          /\ econ'.imports[g] = econ.imports[g] \/ econ'.imports[g] = econ.imports[g] + t.units
      <4>0. econ.imports \in Amounts
        BY <3>2 DEF EconomyRecord
      <4>1. CASE Import(t)
        <5> DEFINE i == [econ.imports EXCEPT ![t.good] = @ + t.units]
        <5>1. econ' = [econ EXCEPT !.imports = i]
          BY <4>1 DEF Import
        <5>2. i[g] = econ.imports[g] \/ i[g] = econ.imports[g] + t.units
          BY <1>1, <3>1, <4>0 DEF Amounts
        <5> HIDE DEF i
        <5>3. econ'.stocks = econ.stocks /\ econ'.imports = i
          BY <3>2, <5>1 DEF EconomyRecord
        <5> QED BY <5>2, <5>3
      <4>2. CASE Export(t)
        <5>1. econ'.stocks = econ.stocks /\ econ'.imports = econ.imports
          BY <3>2, <4>2 DEF Export, EconomyRecord
        <5> QED BY <5>1
      <4> QED BY <2>7, <4>1, <4>2
    <3>5. econ.stocks[g] \in Nat /\ econ.imports[g] \in Nat
      BY <1>1, <3>2 DEF EconomyRecord, Amounts
    <3>6. trades' # trades
      BY <2>1, <3>2
    <3>7. CASE copy = NoCopy
      <4>1. Held(g) = econ.imports[g] + econ.stocks[g] /\ Held(g)' = econ'.imports[g] + econ'.stocks[g]
        BY <3>2, <3>3, <3>7 DEF Held
      <4> QED BY <1>1, <3>1, <3>4, <3>5, <3>6, <4>1
    <3>8. CASE copy # NoCopy
      <4>1. copy.economy.stocks[g] \in Nat /\ copy.economy.imports[g] \in Nat
        BY <1>1, <2>1, <3>8 DEF EconomyRecord, Amounts
      <4>2. /\ Held(g) = econ.imports[g] + (copy.economy.stocks[g] + copy.economy.imports[g])
            /\ Held(g)' = econ'.imports[g] + (copy.economy.stocks[g] + copy.economy.imports[g])
        BY <3>2, <3>3, <3>8 DEF Held
      <4> QED BY <1>1, <3>1, <3>4, <3>5, <3>6, <4>1, <4>2
    <3> QED BY <3>7, <3>8
  <2>8. CASE Administer
    <3>1. copy' = copy /\ edits' = edits + 1
      BY <2>8 DEF Administer, Settle, DeleteSettlement, DeletePlanet, CreatePlanet, RenameSystem,
                  Edit, loop
    <3> QED BY <2>1, <2>2, <3>1
  <2>9. CASE Restart
    <3>1. copy' = NoCopy /\ econ' = econ /\ restarts' = restarts + 1
      BY <2>9 DEF Restart, galaxy
    <3> QED BY <2>1, <2>2, <3>1
  <2>10. CASE UNCHANGED vars
    BY <2>2, <2>10 DEF vars, galaxy, loop
  <2> QED BY <1>1, <2>3, <2>4, <2>5, <2>6, <2>7, <2>8, <2>9, <2>10 DEF Next, RunLoop
<1>2. EconomyIInv /\ [Next]_vars =>
        [\A g \in Goods : Held(g)' # Held(g) /\ ~Ticks =>
           \/ Held(g)' > Held(g) /\ trades' # trades
           \/ edits' # edits /\ econ' # econ
           \/ copy # NoCopy /\ copy.ticked /\ copy' = NoCopy /\ ~Found
           \/ restarts' # restarts /\ copy # NoCopy
           \/ booted' /\ ~booted /\ ~econ.initialized]_vars
  BY <1>1
<1>3. Spec => []EconomyIInv
  BY SoundInit, SoundNext, PTL DEF Spec
<1> QED BY <1>2, <1>3, PTL DEF Spec, TradesKept

\* Nobody lives in a settlement that was founded or replaced while the server
\* runs, until it starts anew.
THEOREM FoundedCorrect == Spec => FoundedStaysEmpty
<1>1. ASSUME EconomyIInv, [Next]_vars, Lives(econ'), ~Lives(econ)
      PROVE  \/ ~booted
             \/ copy # NoCopy /\ Lives(copy.economy) /\ copy' = NoCopy
  <2>1. /\ econ # NoEconomy => econ \in EconomyRecord
        /\ copy # NoCopy => copy \in CopyRecord /\ copy.economy \in EconomyRecord
        /\ planet = "settled" <=> econ # NoEconomy
    BY <1>1, Contents
  <2>2. CASE Bootstrap
    BY <2>2 DEF Bootstrap
  <2>3. CASE CopyEconomy
    <3>1. econ \in EconomyRecord /\ econ # NoEconomy
      BY <2>1, <2>3 DEF CopyEconomy
    <3>2. econ'.initialized = econ.initialized
      BY <2>3, <3>1 DEF CopyEconomy, EconomyRecord
    <3> QED BY <1>1, <3>1, <3>2 DEF Lives
  <2>4. CASE WriteEconomy
    <3>1. copy # NoCopy /\ copy' = NoCopy /\ copy.economy \in EconomyRecord
      BY <2>1, <2>4 DEF WriteEconomy
    <3>2. econ' # econ
      BY <1>1
    <3>3. econ' = Merged(copy.economy)
      BY <2>4, <3>2 DEF WriteEconomy
    <3>4. econ'.initialized = copy.economy.initialized
      BY <3>1, <3>3 DEF Merged, EconomyRecord
    <3>5. copy.economy # NoEconomy
      BY <3>1, EconomyAssumption
    <3> QED BY <1>1, <3>1, <3>4, <3>5 DEF Lives
  <2>5. ASSUME NEW t \in Trades, Import(t) \/ Export(t) PROVE FALSE
    <3>1. econ \in EconomyRecord /\ econ # NoEconomy
      BY <2>1, <2>5 DEF Import, Export, Trade
    <3>2. econ'.initialized = econ.initialized
      BY <2>5, <3>1 DEF Import, Export, EconomyRecord
    <3> QED BY <1>1, <3>1, <3>2 DEF Lives
  <2>6. CASE Administer
    <3>1. econ' \in {econ, NoEconomy, Default}
      BY <2>6 DEF Administer, Settle, DeleteSettlement, DeletePlanet, CreatePlanet, RenameSystem
    <3>2. ~Default.initialized
      BY DEF Default
    <3> QED BY <1>1, <3>1, <3>2 DEF Lives
  <2>7. CASE TickEconomy \/ Restart \/ UNCHANGED vars
    <3>1. econ' = econ
      BY <2>7 DEF TickEconomy, Restart, vars, galaxy
    <3> QED BY <1>1, <3>1
  <2> QED BY <1>1, <2>2, <2>3, <2>4, <2>5, <2>6, <2>7 DEF Next, RunLoop
<1>2. EconomyIInv /\ [Next]_vars =>
        [Lives(econ') /\ ~Lives(econ) =>
           \/ ~booted
           \/ copy # NoCopy /\ Lives(copy.economy) /\ copy' = NoCopy]_vars
  BY <1>1
<1>3. Spec => []EconomyIInv
  BY SoundInit, SoundNext, PTL DEF Spec
<1> QED BY <1>2, <1>3, PTL DEF Spec, FoundedStaysEmpty

-----------------------------------------------------------------------------
(* The space elevator: type correctness *)

\* The strings that are not the timer of a transfer.
LEMMA TimersApart ==
  \A t \in Threads : t # "none" /\ t # "alone" /\ t # "expired"
  BY SpaceElevatorAssumption

\* Deducting a load within the capacity of a cabin leaves a natural number,
\* whether the subtraction wraps around or not.
LEMMA DeductedNat ==
  ASSUME NEW n \in Nat, NEW q \in Nat, q <= CabinCapacity
  PROVE  Deducted(n, q) \in Nat
  BY SpaceElevatorAssumption DEF Deducted

\* The state and the deadline of a cabin still fit together when its timer runs
\* out or is nobody's.
LEMMA ExpiredCabin ==
  ASSUME NEW cab \in Cabin, cab.timer # "none", NEW timer \in {"alone", "expired"}
  PROVE  [cab EXCEPT !.timer = timer] \in Cabin
  BY DEF Cabin

\* So they do when the timer of a transfer's cabin becomes another.
LEMMA RetimedCabins ==
  ASSUME ElevatorTypeOK, NEW t \in Threads, NEW timer \in {"alone", "expired"}
  PROVE  Retimed(t, timer) \in [1..MaxCabins -> Cabin]
<1>1. ASSUME NEW c \in 1..MaxCabins
      PROVE  (IF cabin[c].timer = t THEN [cabin[c] EXCEPT !.timer = timer] ELSE cabin[c]) \in Cabin
  BY ExpiredCabin, TimersApart DEF ElevatorTypeOK
<1> QED BY <1>1 DEF Retimed

\* What a started transfer keeps about itself.
LEMMA JobFields ==
  ASSUME NEW job \in Job, job.pc # "idle"
  PROVE  /\ job \in Moving
         /\ job.pc \in {"moving", "moved"} /\ job.from \in Places /\ job.total \in Nat
<1>1. job \in Moving
  BY DEF Job, Done
<1> QED BY <1>1 DEF Moving

\* A handler at rest is one of the transfers there may be.
LEMMA DoneJob ==
  \A answer \in {"none", "success", "failure"} : Done(answer) \in Job /\ Done(answer).pc = "idle"
  BY DEF Job, Done

\* At the start cabins are free and nothing moves.
LEMMA ElevatorTypeInit == ElevatorInit => ElevatorTypeOK
  BY SpaceElevatorAssumption DEF ElevatorInit, ElevatorTypeOK, Cabin, New, Job, Idle

\* A transfer starts with a cabin of its own, or with none.
LEMMA TypeStart ==
  ASSUME ElevatorTypeOK, NEW t \in Threads, NEW from \in Places, NEW load \in Loads, Start(t, from, load)
  PROVE  ElevatorTypeOK'
<1>1. load.total \in Nat /\ load.total <= CabinCapacity /\ stock[from] \in Nat
  BY SpaceElevatorAssumption DEF Start, ElevatorTypeOK
<1>2. Deducted(stock[from], load.total) \in Nat
  BY <1>1, DeductedNat
<1>3. stock' \in [Places -> Nat]
  <2>1. stock' = [stock EXCEPT ![from] = Deducted(stock[from], load.total)]
    BY DEF Start
  <2> QED BY <1>2, <2>1 DEF ElevatorTypeOK
<1>4. cabins \in 0..MaxCabins /\ 1..cabins \subseteq 1..MaxCabins
  BY SpaceElevatorAssumption DEF ElevatorTypeOK
<1>5. CASE UNCHANGED <<cabin, transfer>>
  BY <1>3, <1>5 DEF Start, ElevatorTypeOK
<1>6. CASE ~UNCHANGED <<cabin, transfer>>
  <2>1. PICK c \in 1..cabins :
          /\ cabin' = [Released EXCEPT ![c] = [state |-> "in_use", timer |-> t]]
          /\ transfer' = [transfer EXCEPT
               ![t] = [pc |-> "moving", cabin |-> c, from |-> from, total |-> load.total]]
    BY <1>6 DEF Start
  <2>2. c \in 1..MaxCabins
    BY <1>4
  <2>3. [state |-> "in_use", timer |-> t] \in Cabin /\ New \in Cabin
    BY DEF Cabin, New
  <2>4. Released \in [1..MaxCabins -> Cabin]
    BY <2>3 DEF Released, ElevatorTypeOK
  <2>5. cabin' \in [1..MaxCabins -> Cabin]
    BY <2>1, <2>3, <2>4
  <2>6. [pc |-> "moving", cabin |-> c, from |-> from, total |-> load.total] \in Job
    BY <1>1, <2>2 DEF Job, Moving
  <2>7. transfer' \in [Threads -> Job]
    BY <2>1, <2>6 DEF ElevatorTypeOK
  <2> QED BY <1>3, <2>5, <2>7 DEF Start, ElevatorTypeOK
<1> QED BY <1>5, <1>6

\* A deadline passes.
LEMMA TypeElapse ==
  ASSUME ElevatorTypeOK, NEW t \in Threads, Elapse(t)
  PROVE  ElevatorTypeOK'
<1>1. transfer[t] \in Job /\ transfer[t].pc # "idle"
  BY DEF Elapse, ElevatorTypeOK
<1>2. [transfer[t] EXCEPT !.pc = "moved"] \in Job
  <2> DEFINE job == transfer[t]
  <2>1. job \in Moving
    BY <1>1, JobFields
  <2> HIDE DEF job
  <2>2. [job EXCEPT !.pc = "moved"] \in Job
    BY <2>1 DEF Job, Moving
  <2> QED BY <2>2 DEF job
<1>3. transfer' \in [Threads -> Job]
  <2>1. transfer' = [transfer EXCEPT ![t] = [transfer[t] EXCEPT !.pc = "moved"]]
    BY DEF Elapse
  <2> QED BY <1>2, <2>1 DEF ElevatorTypeOK
<1>4. cabin' \in [1..MaxCabins -> Cabin]
  BY RetimedCabins DEF Elapse
<1> QED BY <1>3, <1>4 DEF Elapse, ElevatorTypeOK

\* A transfer ends and frees its cabin.
LEMMA TypeComplete ==
  ASSUME ElevatorTypeOK, NEW t \in Threads, Complete(t)
  PROVE  ElevatorTypeOK'
<1>1. transfer' \in [Threads -> Job]
  <2>1. \E answer \in {"success", "failure"} : transfer' = [transfer EXCEPT ![t] = Done(answer)]
    BY DEF Complete, Answer
  <2> QED BY <2>1, DoneJob DEF ElevatorTypeOK
<1>2. CASE ~connected /\ UNCHANGED <<cabin, stock>>
  BY <1>1, <1>2 DEF Complete, ElevatorTypeOK
<1>3. CASE connected
  <2>1. PICK failed \in {FALSE, Failing} :
          /\ cabin' = [c \in 1..MaxCabins |->
               IF c = transfer[t].cabin /\ c \in 1..cabins THEN Completed(failed) ELSE cabin[c]]
          /\ stock' = GoesTo(t, failed)
    BY <1>3 DEF Complete
  <2>2. Completed(failed) \in Cabin
    BY DEF Completed, Cabin, New
  <2>3. cabin' \in [1..MaxCabins -> Cabin]
    BY <2>1, <2>2 DEF ElevatorTypeOK
  <2>4. transfer[t] \in Job /\ transfer[t].pc # "idle"
    BY DEF Complete, ElevatorTypeOK
  <2>5. transfer[t].from \in Places /\ transfer[t].total \in Nat
    BY <2>4, JobFields
  <2>6. stock' \in [Places -> Nat]
    BY <2>1, <2>5 DEF GoesTo, ElevatorTypeOK, Places, Other
  <2> QED BY <1>1, <2>3, <2>6 DEF Complete, ElevatorTypeOK
<1> QED BY <1>2, <1>3 DEF Complete

\* A transfer is cut off, and its cabin keeps its deadline or is made anew.
LEMMA TypeCutOff ==
  ASSUME ElevatorTypeOK, RestartElevator \/ \E t \in Threads : Drop(t)
  PROVE  ElevatorTypeOK'
<1>1. Idle \in Job /\ New \in Cabin
  BY DoneJob DEF Idle, Cabin, New
<1>2. CASE RestartElevator
  BY <1>1, <1>2 DEF RestartElevator, ElevatorTypeOK
<1>3. ASSUME NEW t \in Threads, Drop(t) PROVE ElevatorTypeOK'
  <2>1. cabin' \in [1..MaxCabins -> Cabin]
    BY <1>3, RetimedCabins DEF Drop
  <2> QED BY <1>1, <1>3, <2>1 DEF Drop, ElevatorTypeOK
<1> QED BY <1>2, <1>3

\* So every step keeps the types.
LEMMA ElevatorTypeStep == ElevatorTypeOK /\ [ElevatorNext]_elevatorVars => ElevatorTypeOK'
<1> SUFFICES ASSUME ElevatorTypeOK, [ElevatorNext]_elevatorVars PROVE ElevatorTypeOK'
  OBVIOUS
<1>1. CASE AddCabin
  BY <1>1, SpaceElevatorAssumption DEF AddCabin, ElevatorTypeOK
<1>2. CASE Remove
  BY <1>2 DEF Remove, ElevatorTypeOK
<1>3. CASE Rebuild
  BY <1>3, SpaceElevatorAssumption DEF Rebuild, ElevatorTypeOK, New, Cabin
<1>4. ASSUME NEW c \in 1..MaxCabins, Expire(c) PROVE ElevatorTypeOK'
  <2>1. cabin[c] \in Cabin /\ cabin[c].timer # "none"
    BY <1>4 DEF Expire, ElevatorTypeOK
  <2>2. [cabin[c] EXCEPT !.timer = "expired"] \in Cabin
    BY <2>1, ExpiredCabin
  <2>3. cabin' = [cabin EXCEPT ![c] = [cabin[c] EXCEPT !.timer = "expired"]]
    BY <1>4 DEF Expire
  <2> QED BY <1>4, <2>2, <2>3 DEF Expire, ElevatorTypeOK
<1>5. ASSUME NEW t \in Threads, NEW from \in Places, NEW load \in Loads, Start(t, from, load)
      PROVE  ElevatorTypeOK'
  BY <1>5, TypeStart
<1>6. ASSUME NEW t \in Threads, Elapse(t) \/ Complete(t) PROVE ElevatorTypeOK'
  BY <1>6, TypeElapse, TypeComplete
<1>7. CASE UNCHANGED elevatorVars
  BY <1>7 DEF elevatorVars, ElevatorTypeOK
<1>8. CASE RestartElevator \/ \E t \in Threads : Drop(t)
  BY <1>8, TypeCutOff
<1> QED BY <1>1, <1>2, <1>3, <1>4, <1>5, <1>6, <1>7, <1>8 DEF ElevatorNext

\* Every variable keeps its type, and a cabin's state and deadline fit together,
\* whichever transfers, failures, repairs, removals and restarts interleave.
THEOREM ElevatorTypeCorrect == ElevatorSpec => []ElevatorTypeOK
  BY ElevatorTypeInit, ElevatorTypeStep, PTL DEF ElevatorSpec

-----------------------------------------------------------------------------
(* The space elevator: the goods *)

\* No request names a good twice: of every load the largest quantity, which is
\* compared with the stock, is also the total, which is taken from it.
NamedOnce == \A load \in Loads : load.total = load.largest

\* The goods of the two ends and of the transfers are numbers.
LEMMA CarriedNat == \A job \in Job : Carried(job) \in Nat
<1>1. ASSUME NEW job \in Job, job.pc = "idle" PROVE Carried(job) \in Nat
  BY <1>1 DEF Carried
<1>2. ASSUME NEW job \in Job, job.pc # "idle" PROVE Carried(job) \in Nat
  BY <1>2, JobFields DEF Carried
<1> QED BY <1>1, <1>2

\* A transfer that starts, moves or ends changes what is on its way by what it
\* carries itself.
LEMMA TransferChange ==
  ASSUME ElevatorTypeOK, ElevatorTypeOK', NEW t \in Threads, \A u \in Threads \ {t} : transfer'[u] = transfer[u]
  PROVE  SumFunctionOnSet([u \in Threads |-> Carried(transfer[u])], Threads)'
           = SumFunctionOnSet([u \in Threads |-> Carried(transfer[u])], Threads)
             + (Carried(transfer'[t]) - Carried(transfer[t]))
<1> DEFINE before == [u \in Threads |-> Carried(transfer[u])]
           after == [u \in Threads |-> Carried(transfer'[u])]
<1>1. \A u \in Threads : before[u] \in Int /\ after[u] \in Int
  <2>1. \A u \in Threads : transfer[u] \in Job /\ transfer'[u] \in Job
    BY DEF ElevatorTypeOK
  <2> QED BY <2>1, CarriedNat
<1>2. \A u \in Threads \ {t} : after[u] = before[u]
  OBVIOUS
<1>3. before[t] = Carried(transfer[t]) /\ after[t] = Carried(transfer'[t])
  OBVIOUS
<1>4. IsFiniteSet(Threads)
  BY SpaceElevatorAssumption
<1> HIDE DEF before, after
<1>5. SumFunctionOnSet(after, Threads) = SumFunctionOnSet(before, Threads) + (after[t] - before[t])
  BY <1>1, <1>2, <1>4, SumChange, SMTT(30)
<1>6. SumFunctionOnSet(after, Threads)
        = SumFunctionOnSet(before, Threads) + (Carried(transfer'[t]) - Carried(transfer[t]))
  BY <1>3, <1>5
<1> QED BY <1>6 DEF before, after

\* What the transfers under way carry is a number.
LEMMA CarriedSum ==
  ElevatorTypeOK => SumFunctionOnSet([t \in Threads |-> Carried(transfer[t])], Threads) \in Nat
<1> SUFFICES ASSUME ElevatorTypeOK
             PROVE  SumFunctionOnSet([t \in Threads |-> Carried(transfer[t])], Threads) \in Nat
  OBVIOUS
<1> DEFINE carried == [t \in Threads |-> Carried(transfer[t])]
<1>1. \A t \in Threads : carried[t] \in Nat
  BY CarriedNat DEF ElevatorTypeOK
<1> HIDE DEF carried
<1>2. SumFunctionOnSet(carried, Threads) \in Nat
  BY <1>1, SumNatural, SpaceElevatorAssumption
<1> QED BY <1>2 DEF carried

\* So the total changes by what the two ends and this one transfer do.
LEMMA TotalChange ==
  ASSUME ElevatorTypeOK, ElevatorTypeOK', NEW t \in Threads,
         \A u \in Threads \ {t} : transfer'[u] = transfer[u],
         NEW change \in Int,
         stock'["station"] + stock'["warehouse"] = stock["station"] + stock["warehouse"] + change
  PROVE  /\ Total' = Total + change + (Carried(transfer'[t]) - Carried(transfer[t]))
         /\ Total \in Nat
<1> DEFINE moving == SumFunctionOnSet([u \in Threads |-> Carried(transfer[u])], Threads)
           moving2 == SumFunctionOnSet([u \in Threads |-> Carried(transfer'[u])], Threads)
<1>1. moving2 = moving + (Carried(transfer'[t]) - Carried(transfer[t]))
  BY TransferChange
<1>2. moving \in Nat
  BY CarriedSum
<1>3. Total = stock["station"] + stock["warehouse"] + moving
      /\ Total' = stock'["station"] + stock'["warehouse"] + moving2
  BY DEF Total
<1>4. stock["station"] \in Nat /\ stock["warehouse"] \in Nat
  BY DEF ElevatorTypeOK, Places
<1>5. Carried(transfer[t]) \in Nat /\ Carried(transfer'[t]) \in Nat
  BY CarriedNat DEF ElevatorTypeOK
<1>6. stock'["station"] \in Nat /\ stock'["warehouse"] \in Nat
  BY DEF ElevatorTypeOK, Places
<1> HIDE DEF moving, moving2
<1> QED BY <1>1, <1>2, <1>3, <1>4, <1>5, <1>6

\* A transfer that finds a cabin takes with it what it deducts; a request that finds
\* none loses it.
LEMMA StartKeeps ==
  ASSUME NamedOnce, ElevatorTypeOK, ElevatorTypeOK', NEW t \in Threads, NEW from \in Places, NEW load \in Loads,
         Start(t, from, load)
  PROVE  Total' = Total \/ (Total' <= Total /\ RefusedLate)
<1>1. load.total \in Nat /\ load.total <= stock[from] /\ stock \in [Places -> Nat]
  BY SpaceElevatorAssumption DEF Start, NamedOnce, ElevatorTypeOK
<1>2. stock' = [stock EXCEPT ![from] = @ - load.total]
  BY <1>1 DEF Start, Deducted
<1>3. stock'["station"] + stock'["warehouse"] = stock["station"] + stock["warehouse"] + (0 - load.total)
  BY <1>1, <1>2 DEF Places
<1>4. 0 - load.total \in Int
  BY <1>1
<1>5. Carried(transfer[t]) = 0
  BY DEF Start, Carried
<1>6. CASE UNCHANGED <<cabin, transfer>> /\ \A c \in 1..cabins : ~Free(c)
  <2>1. Total' = Total + (0 - load.total) + (Carried(transfer'[t]) - Carried(transfer[t])) /\ Total \in Nat
    BY <1>3, <1>4, <1>6, TotalChange
  <2>2. Carried(transfer'[t]) = 0
    BY <1>5, <1>6
  <2>3. Total' <= Total
    BY <1>1, <1>5, <2>1, <2>2
  <2> QED BY <1>6, <2>3 DEF Start, RefusedLate
<1>7. ASSUME NEW c \in 1..cabins,
             transfer' = [transfer EXCEPT
               ![t] = [pc |-> "moving", cabin |-> c, from |-> from, total |-> load.total]]
      PROVE  Total' = Total
  <2>1. transfer'[t] = [pc |-> "moving", cabin |-> c, from |-> from, total |-> load.total]
        /\ \A u \in Threads \ {t} : transfer'[u] = transfer[u]
    BY <1>7 DEF ElevatorTypeOK
  <2>2. Carried(transfer'[t]) = load.total
    BY <2>1 DEF Carried
  <2>3. Total' = Total + (0 - load.total) + (Carried(transfer'[t]) - Carried(transfer[t])) /\ Total \in Nat
    BY <1>3, <1>4, <2>1, TotalChange
  <2> QED BY <1>1, <1>5, <2>2, <2>3
<1> QED BY <1>6, <1>7 DEF Start

\* Where a transfer ends with an answer, on a planet with a station.
LEMMA CompletePlace ==
  ASSUME ElevatorTypeOK, NEW t \in Threads, Complete(t), connected
  PROVE  \E answer \in {"success", "failure"} :
           /\ transfer' = [transfer EXCEPT ![t] = Done(answer)]
           /\ stock' = [stock EXCEPT ![IF answer = "success" THEN Other(transfer[t].from)
                                       ELSE transfer[t].from] = @ + transfer[t].total]
<1>1. PICK failed \in {FALSE, Failing} :
        stock' = GoesTo(t, failed) /\ transfer' = [transfer EXCEPT ![t] = Done(Answer(failed))]
  BY DEF Complete
<1>2. failed \in BOOLEAN
  BY SpaceElevatorAssumption
<1>3. CASE failed
  BY <1>1, <1>3 DEF GoesTo, Answer
<1>4. CASE ~failed
  BY <1>1, <1>4 DEF GoesTo, Answer
<1> QED BY <1>2, <1>3, <1>4

\* A transfer that ends at a station, whether its cabin failed or not, whatever
\* the cabin was doing by then, puts down what it carried; without a station it is
\* gone.
LEMMA CompleteKeeps ==
  ASSUME ElevatorTypeOK, ElevatorTypeOK', NEW t \in Threads, Complete(t)
  PROVE  Total' = Total \/ (Total' <= Total /\ ~connected /\ Answers(t, "success"))
<1> DEFINE n == transfer[t].total
<1>1. transfer[t] \in Job /\ transfer[t].pc # "idle"
  BY DEF Complete, ElevatorTypeOK
<1>2. transfer[t].from \in Places /\ n \in Nat
  BY <1>1, JobFields
<1>3. stock["station"] \in Nat /\ stock["warehouse"] \in Nat /\ stock \in [Places -> Nat]
  BY DEF ElevatorTypeOK, Places
<1>4. ASSUME NEW answer \in {"success", "failure"}, transfer' = [transfer EXCEPT ![t] = Done(answer)],
             NEW change \in Int,
             stock'["station"] + stock'["warehouse"] = stock["station"] + stock["warehouse"] + change
      PROVE  Total' = Total + change + (0 - n) /\ Total \in Nat /\ transfer'[t] = Done(answer)
  <2>1. transfer'[t] = Done(answer) /\ \A u \in Threads \ {t} : transfer'[u] = transfer[u]
    BY <1>4 DEF ElevatorTypeOK
  <2>2. Carried(transfer[t]) = n /\ Carried(transfer'[t]) = 0
    BY <1>1, <2>1, DoneJob DEF Carried
  <2>3. Total' = Total + change + (Carried(transfer'[t]) - Carried(transfer[t])) /\ Total \in Nat
    BY <1>4, <2>1, TotalChange
  <2> QED BY <2>1, <2>2, <2>3
<1>5. CASE connected
  <2>1. PICK answer \in {"success", "failure"} :
          /\ transfer' = [transfer EXCEPT ![t] = Done(answer)]
          /\ stock' = [stock EXCEPT ![IF answer = "success" THEN Other(transfer[t].from)
                                      ELSE transfer[t].from] = @ + n]
    BY <1>5, CompletePlace
  <2>2. PICK place \in Places : stock' = [stock EXCEPT ![place] = @ + n]
    BY <1>2, <2>1 DEF Other, Places
  <2> HIDE DEF n
  <2>3. stock'["station"] + stock'["warehouse"] = stock["station"] + stock["warehouse"] + n
    BY <1>2, <1>3, <2>2 DEF Places
  <2>4. n \in Int
    BY <1>2
  <2>5. Total' = Total + n + (0 - n) /\ Total \in Nat
    BY <1>4, <2>1, <2>3, <2>4
  <2> QED BY <1>2, <2>5
<1>6. CASE ~connected
  <2>1. stock' = stock /\ transfer' = [transfer EXCEPT ![t] = Done("success")]
    BY <1>6 DEF Complete, Answer
  <2>2. stock'["station"] + stock'["warehouse"] = stock["station"] + stock["warehouse"] + 0
    BY <1>3, <2>1
  <2>3. Total' = Total + 0 + (0 - n) /\ Total \in Nat /\ transfer'[t] = Done("success")
    BY <1>4, <2>1, <2>2
  <2> HIDE DEF n
  <2>4. Total' <= Total
    BY <1>2, <2>3
  <2> QED BY <1>6, <2>3, <2>4 DEF Complete, Answers
<1> QED BY <1>5, <1>6

\* The end of a transfer's time moves no goods.
LEMMA ElapseKeeps ==
  ASSUME ElevatorTypeOK, ElevatorTypeOK', NEW t \in Threads, Elapse(t)
  PROVE  Total' = Total
<1>1. transfer[t] \in Job /\ transfer[t].pc # "idle" /\ stock' = stock
  BY DEF Elapse, ElevatorTypeOK
<1>2. transfer[t] \in Moving /\ transfer[t].total \in Nat
  BY <1>1, JobFields
<1>3. transfer'[t].total = transfer[t].total /\ transfer'[t].pc # "idle"
  BY <1>2 DEF Elapse, ElevatorTypeOK, Moving
<1>4. \A u \in Threads \ {t} : transfer'[u] = transfer[u]
  BY DEF Elapse, ElevatorTypeOK
<1>5. Carried(transfer'[t]) - Carried(transfer[t]) = 0
  BY <1>1, <1>2, <1>3 DEF Carried
<1>6. stock'["station"] + stock'["warehouse"] = stock["station"] + stock["warehouse"] + 0
  BY <1>1 DEF ElevatorTypeOK, Places
<1>7. Total' = Total + 0 + (Carried(transfer'[t]) - Carried(transfer[t])) /\ Total \in Nat
  BY <1>4, <1>6, TotalChange
<1> QED BY <1>5, <1>7

\* What is cut off is lost.
LEMMA CutOffLoses ==
  ASSUME ElevatorTypeOK, ElevatorTypeOK', RestartElevator \/ \E t \in Threads : Drop(t)
  PROVE  Total' = Total \/ (Total' <= Total /\ \E t \in Threads : CutOff(t))
<1>1. breaks' > breaks
  BY DEF RestartElevator, Drop, ElevatorTypeOK
<1>2. stock' = stock /\ stock["station"] \in Nat /\ stock["warehouse"] \in Nat
  BY DEF RestartElevator, Drop, ElevatorTypeOK, Places
<1>3. ASSUME NEW t \in Threads, Drop(t)
      PROVE  Total' <= Total /\ CutOff(t)
  <2>1. transfer'[t] = Idle /\ \A u \in Threads \ {t} : transfer'[u] = transfer[u]
    BY <1>3 DEF Drop, ElevatorTypeOK
  <2>2. Carried(transfer'[t]) = 0 /\ Carried(transfer[t]) \in Nat
    BY <2>1, CarriedNat DEF Carried, Idle, Done, ElevatorTypeOK
  <2>3. stock'["station"] + stock'["warehouse"] = stock["station"] + stock["warehouse"] + 0
    BY <1>2
  <2>4. Total' = Total + 0 + (Carried(transfer'[t]) - Carried(transfer[t])) /\ Total \in Nat
    BY <2>1, <2>3, TotalChange
  <2>5. Total' <= Total
    BY <2>2, <2>4
  <2> QED BY <1>1, <1>3, <2>1, <2>5 DEF Drop, CutOff
<1>4. CASE RestartElevator
  <2> DEFINE carried == [t \in Threads |-> Carried(transfer[t])]
             carried2 == [t \in Threads |-> Carried(transfer'[t])]
             moving == SumFunctionOnSet(carried, Threads)
             moving2 == SumFunctionOnSet(carried2, Threads)
  <2>1. \A t \in Threads : transfer'[t] = Idle
    BY <1>4 DEF RestartElevator
  <2>2. \A t \in Threads : carried2[t] = 0
    BY <2>1 DEF Carried, Idle, Done
  <2>3. (\A t \in Threads : transfer[t].pc = "idle") => \A t \in Threads : carried[t] = 0
    BY DEF Carried
  <2>4. moving \in Nat
    BY CarriedSum
  <2>5. Total = stock["station"] + stock["warehouse"] + moving
        /\ Total' = stock'["station"] + stock'["warehouse"] + moving2
    BY DEF Total
  <2> HIDE DEF carried, carried2
  <2>6. moving2 = 0
    BY <2>2, SumZero, SpaceElevatorAssumption
  <2>7. (\A t \in Threads : transfer[t].pc = "idle") => moving = 0
    BY <2>3, SumZero, SpaceElevatorAssumption
  <2>8. CASE \A t \in Threads : transfer[t].pc = "idle"
    BY <1>2, <2>5, <2>6, <2>7, <2>8
  <2>9. ASSUME NEW t \in Threads, transfer[t].pc # "idle"
        PROVE  CutOff(t)
    BY <1>1, <2>1, <2>9 DEF CutOff
  <2> HIDE DEF moving, moving2
  <2>10. Total' <= Total
    BY <1>2, <2>4, <2>5, <2>6
  <2> QED BY <2>8, <2>9, <2>10
<1> QED BY <1>3, <1>4

\* The admin takes the station with its stock, and builds on what is left.
LEMMA StationKeeps ==
  ASSUME ElevatorTypeOK, ElevatorTypeOK', AddCabin \/ Remove \/ Rebuild \/ \E c \in 1..MaxCabins : Expire(c)
  PROVE  Total' = Total \/ (Total' <= Total /\ connected /\ ~connected')
<1>1. transfer' = transfer
  BY DEF AddCabin, Remove, Rebuild, Expire
<1> DEFINE moving == SumFunctionOnSet([t \in Threads |-> Carried(transfer[t])], Threads)
<1>2. Total = stock["station"] + stock["warehouse"] + moving
      /\ Total' = stock'["station"] + stock'["warehouse"] + moving
  BY <1>1 DEF Total
<1>3. moving \in Nat
  BY CarriedSum
<1> HIDE DEF moving
<1>4. stock["station"] \in Nat /\ stock["warehouse"] \in Nat
  BY DEF ElevatorTypeOK, Places
<1>5. CASE Remove
  <2>1. stock'["station"] = 0 /\ stock'["warehouse"] = 0
    BY <1>5 DEF Remove, Places
  <2>2. Total' <= Total
    BY <1>2, <1>3, <1>4, <2>1
  <2> QED BY <1>5, <2>2 DEF Remove
<1>6. CASE ~Remove
  <2>1. stock' = stock
    BY <1>6 DEF AddCabin, Rebuild, Expire
  <2> QED BY <1>2, <2>1
<1> QED BY <1>5, <1>6

\* A transfer that is answered on a planet with a station has put its goods where
\* the answer says.
LEMMA AnswersTrue ==
  ASSUME ElevatorTypeOK, ElevatorNext, connected, NEW t \in Threads,
         NEW answer \in {"success", "failure"}, Answers(t, answer)
  PROVE  LET from  == transfer[t].from
             place == IF answer = "success" THEN Other(from) ELSE from
         IN  stock'[place] = stock[place] + transfer[t].total
<1> DEFINE place == IF answer = "success" THEN Other(transfer[t].from) ELSE transfer[t].from
<1>1. transfer[t].pc = "moved" /\ transfer'[t] = Done(answer) /\ transfer'[t] # transfer[t]
      /\ transfer'[t].answer = answer
  BY DEF Answers, Done
<1>2. transfer \in [Threads -> Job] /\ transfer[t].from \in Places
  <2>1. transfer[t] \in Job /\ transfer[t].pc # "idle"
    BY <1>1 DEF ElevatorTypeOK
  <2> QED BY <2>1, JobFields DEF ElevatorTypeOK
<1>3. ~(AddCabin \/ Remove \/ Rebuild \/ \E c \in 1..MaxCabins : Expire(c))
  BY <1>1 DEF AddCabin, Remove, Rebuild, Expire
<1>4. ASSUME RestartElevator PROVE FALSE
  <2>1. transfer'[t] = Done("none")
    BY <1>4 DEF RestartElevator, Idle
  <2> QED BY <1>1, <2>1 DEF Done
<1>5. ASSUME NEW u \in Threads, Drop(u) PROVE FALSE
  BY <1>1, <1>2, <1>5 DEF Drop, Idle, Done
<1>6. ASSUME NEW u \in Threads, Elapse(u) PROVE FALSE
  <2>1. u # t
    BY <1>1, <1>6 DEF Elapse
  <2> QED BY <1>1, <1>2, <1>6, <2>1 DEF Elapse
<1>7. ASSUME NEW u \in Threads, NEW from \in Places, NEW load \in Loads, Start(u, from, load)
      PROVE  FALSE
  <2>1. u # t
    BY <1>1, <1>7 DEF Start
  <2>2. transfer'[t] = transfer[t]
    BY <1>2, <1>7, <2>1 DEF Start
  <2> QED BY <1>1, <2>2
<1>8. PICK u \in Threads : Complete(u)
  BY <1>3, <1>4, <1>5, <1>6, <1>7 DEF ElevatorNext
<1>9. PICK told \in {"success", "failure"} :
        /\ transfer' = [transfer EXCEPT ![u] = Done(told)]
        /\ stock' = [stock EXCEPT ![IF told = "success" THEN Other(transfer[u].from)
                                    ELSE transfer[u].from] = @ + transfer[u].total]
  BY <1>8, CompletePlace
<1>10. u = t
  BY <1>1, <1>2, <1>9
<1>11. told = answer
  BY <1>1, <1>2, <1>9, <1>10 DEF Done
<1>12. place \in Places /\ stock \in [Places -> Nat]
  BY <1>2 DEF Other, Places, ElevatorTypeOK
<1>13. stock' = [stock EXCEPT ![place] = @ + transfer[t].total]
  BY <1>9, <1>10, <1>11
<1> HIDE DEF place
<1>14. stock'[place] = stock[place] + transfer[t].total
  BY <1>12, <1>13
<1> QED BY <1>14 DEF place

\* However transfers, failures, repairs, upgrades, dropped requests and restarts
\* interleave, and even when transfers meet in one cabin, each delivers its goods or
\* returns them, as it is answered: none are made, and they are lost only by a request
\* that finds no cabin, with the station, where there is no station to arrive at, and
\* by a transfer that is cut off.
THEOREM ElevatorGoodsCorrect == NamedOnce => (ElevatorSpec => GoodsLostOnlyWithoutCabin)
<1> SUFFICES ASSUME NamedOnce PROVE ElevatorSpec => GoodsLostOnlyWithoutCabin
  OBVIOUS
<1> DEFINE Lost ==
             \/ RefusedLate
             \/ connected /\ ~connected'
             \/ ~connected /\ \E t \in Threads : Answers(t, "success")
             \/ \E t \in Threads : CutOff(t)
           True ==
             connected => \A t \in Threads, answer \in {"success", "failure"} :
               LET from  == transfer[t].from
                   place == IF answer = "success" THEN Other(from) ELSE from
               IN  Answers(t, answer) => stock'[place] = stock[place] + transfer[t].total
           Kept == Total' <= Total /\ (Total' < Total => Lost) /\ True
<1>1. ElevatorTypeOK /\ ElevatorTypeOK' /\ [ElevatorNext]_elevatorVars => [Kept]_elevatorVars
  <2> SUFFICES ASSUME ElevatorTypeOK, ElevatorTypeOK', ElevatorNext
               PROVE  Kept
    OBVIOUS
  <2>1. Total \in Nat
    BY CarriedSum DEF Total, ElevatorTypeOK, Places
  <2>2. Total' = Total \/ (Total' <= Total /\ Lost)
    <3>1. CASE AddCabin \/ Remove \/ Rebuild \/ \E c \in 1..MaxCabins : Expire(c)
      BY <3>1, StationKeeps
    <3>2. ASSUME NEW t \in Threads, NEW from \in Places, NEW load \in Loads, Start(t, from, load)
          PROVE  Total' = Total \/ (Total' <= Total /\ Lost)
      BY <3>2, StartKeeps
    <3>3. ASSUME NEW t \in Threads, Elapse(t) \/ Complete(t)
          PROVE  Total' = Total \/ (Total' <= Total /\ Lost)
      BY <3>3, ElapseKeeps, CompleteKeeps
    <3>4. CASE RestartElevator \/ \E t \in Threads : Drop(t)
      BY <3>4, CutOffLoses
    <3> QED BY <3>1, <3>2, <3>3, <3>4 DEF ElevatorNext
  <2>3. True
    BY AnswersTrue
  <2> HIDE DEF Lost, True
  <2> QED BY <2>1, <2>2, <2>3
<1> QED BY <1>1, ElevatorTypeInit, ElevatorTypeStep, PTL DEF ElevatorSpec, GoodsLostOnlyWithoutCabin
=============================================================================
