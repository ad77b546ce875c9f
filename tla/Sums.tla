--------------------------------- MODULE Sums ---------------------------------
(***************************************************************************)
(* What the proofs of the components share: the least element of a set of  *)
(* numbers, the two forms of induction that follow from it, and from these *)
(* what SumFunctionOnSet of the community modules adds up to.  The forms   *)
(* of induction are stated over sets, with no operator as a parameter.     *)
(* Last, sequences as queues: what is picked out of one, and what is left  *)
(* when its head is taken or an entry is appended.                         *)
(***************************************************************************)
EXTENDS Integers, FiniteSets, Functions, WellFoundedInduction, FiniteSetTheorems,
        SequenceTheorems, TLAPS

\* A set of natural numbers that is not empty has a least element.
LEMMA LeastNatural ==
  ASSUME NEW T \in SUBSET Nat, T # {}
  PROVE  \E m \in T : \A k \in T : m <= k
<1> DEFINE Less == {p \in Nat \X Nat : p[1] < p[2]}
<1>1. IsWellFoundedOn(Less, Nat)
  BY NatLessThanWellFounded DEF OpToRel
<1>2. PICK m \in T : \A k \in T : <<k, m>> \notin Less
  BY <1>1, WFMin
<1>3. ASSUME NEW k \in T PROVE m <= k
  <2>1. <<k, m>> \in Nat \X Nat /\ <<k, m>>[1] = k /\ <<k, m>>[2] = m
    OBVIOUS
  <2>2. ~(k < m)
    BY <1>2, <2>1
  <2> QED BY <2>2
<1> QED BY <1>3

\* Induction over the natural numbers.
LEMMA InductionOnNat ==
  ASSUME NEW T \in SUBSET Nat, 0 \in T, \A n \in T : n + 1 \in T
  PROVE  T = Nat
<1> SUFFICES ASSUME Nat \ T # {} PROVE FALSE
  OBVIOUS
<1>1. PICK m \in Nat \ T : \A k \in Nat \ T : m <= k
  BY LeastNatural
<1>2. m # 0 /\ m - 1 \in Nat /\ m - 1 \in T
  BY <1>1
<1> QED BY <1>2, <1>1

\* Induction over the subsets of a finite set.
LEMMA InductionOnSubsets ==
  ASSUME NEW S, IsFiniteSet(S), NEW F \in SUBSET (SUBSET S), {} \in F,
         \A T \in F, x \in S : x \notin T => T \cup {x} \in F
  PROVE  F = SUBSET S
<1> DEFINE Sizes == {n \in Nat : \A T \in SUBSET S : Cardinality(T) = n => T \in F}
<1>1. \A T \in SUBSET S : IsFiniteSet(T) /\ Cardinality(T) \in Nat
  BY FS_Subset, FS_CardinalityType
<1>2. 0 \in Sizes
  BY <1>1, FS_EmptySet
<1>3. ASSUME NEW n \in Sizes PROVE n + 1 \in Sizes
  <2> SUFFICES ASSUME NEW T \in SUBSET S, Cardinality(T) = n + 1 PROVE T \in F
    OBVIOUS
  <2>1. n \in Nat /\ Cardinality(T) # 0 /\ IsFiniteSet(T)
    BY <1>1
  <2>2. PICK x : x \in T
    BY <2>1, FS_EmptySet
  <2>3. Cardinality(T \ {x}) = n
    <3>1. Cardinality(T \ {x}) = Cardinality(T) - 1
      BY <2>1, <2>2, FS_RemoveElement
    <3> QED BY <3>1, <2>1
  <2>4. T \ {x} \in F
    BY <1>3, <2>3
  <2>5. T = (T \ {x}) \cup {x}
    BY <2>2
  <2> QED BY <2>2, <2>4, <2>5
<1>4. Sizes = Nat
  <2> HIDE DEF Sizes
  <2>1. Sizes \in SUBSET Nat
    BY DEF Sizes
  <2> QED BY <1>2, <1>3, <2>1, InductionOnNat
<1> QED BY <1>1, <1>4

\* A set of n + 1 elements has n without any of them.
LEMMA OneLess ==
  ASSUME NEW T, IsFiniteSet(T), NEW n \in Nat, Cardinality(T) = n + 1
  PROVE  T # {} /\ \A x \in T : Cardinality(T \ {x}) = n
<1>1. T # {}
  <2>1. Cardinality({}) = 0
    BY FS_EmptySet
  <2> QED BY <2>1
<1>2. ASSUME NEW x \in T PROVE Cardinality(T \ {x}) = n
  <2>1. Cardinality(T \ {x}) = Cardinality(T) - 1
    BY FS_RemoveElement
  <2> QED BY <2>1
<1> QED BY <1>1, <1>2

-----------------------------------------------------------------------------
(* Sums *)

Chosen(T) == CHOOSE x \in T : TRUE

\* On the sets of D, g adds up f, an element at a time.
AddsUp(g, f, D) ==
  g = [T \in D |-> IF T = {} THEN 0 ELSE f[Chosen(T)] + g[T \ {Chosen(T)}]]

\* The subsets of S with n elements or fewer.
UpTo(S, n) == {T \in SUBSET S : Cardinality(T) <= n}

\* The recursion of the definition, as a choice of a function.
LEMMA SumUnfolded ==
  ASSUME NEW f, NEW S
  PROVE  SumFunctionOnSet(f, S) = (CHOOSE g : AddsUp(g, f, SUBSET S))[S]
  BY DEF SumFunctionOnSet, FoldFunctionOnSet, MapThenFoldSet, AddsUp, Chosen

\* There is such a function.
LEMMA SomeAddsUp ==
  ASSUME NEW f, NEW S, IsFiniteSet(S)
  PROVE  \E g : AddsUp(g, f, SUBSET S)
<1> DEFINE Good == {n \in Nat : \E g : AddsUp(g, f, UpTo(S, n))}
<1>1. \A T \in SUBSET S : IsFiniteSet(T) /\ Cardinality(T) \in Nat /\ Cardinality(T) <= Cardinality(S)
  BY FS_Subset, FS_CardinalityType
<1>2. ASSUME NEW T \in SUBSET S, T # {}
      PROVE  /\ Chosen(T) \in T /\ T \ {Chosen(T)} \in SUBSET S
             /\ Cardinality(T \ {Chosen(T)}) = Cardinality(T) - 1 /\ Cardinality(T) # 0
  <2>1. Chosen(T) \in T
    BY <1>2 DEF Chosen
  <2> QED BY <1>1, <1>2, <2>1, FS_RemoveElement, FS_EmptySet
<1>3. 0 \in Good
  <2>1. UpTo(S, 0) = {{}}
    BY <1>1, FS_EmptySet DEF UpTo
  <2> DEFINE g == [T \in {{}} |-> 0]
  <2>2. AddsUp(g, f, {{}})
    BY DEF AddsUp
  <2> QED BY <2>1, <2>2
<1>4. ASSUME NEW n \in Good PROVE n + 1 \in Good
  <2>1. PICK g : AddsUp(g, f, UpTo(S, n))
    BY <1>4
  <2> DEFINE h == [T \in UpTo(S, n + 1) |->
                     IF T = {} THEN 0 ELSE f[Chosen(T)] + g[T \ {Chosen(T)}]]
  <2>2. \A T \in UpTo(S, n) : T \in UpTo(S, n + 1) /\ h[T] = g[T]
    <3>1. \A T \in UpTo(S, n) : T \in UpTo(S, n + 1)
      BY <1>1 DEF UpTo
    <3>2. \A T \in UpTo(S, n) : g[T] = IF T = {} THEN 0 ELSE f[Chosen(T)] + g[T \ {Chosen(T)}]
      BY <2>1 DEF AddsUp
    <3> QED BY <3>1, <3>2
  <2>3. \A T \in UpTo(S, n + 1) : T # {} => T \ {Chosen(T)} \in UpTo(S, n)
    BY <1>1, <1>2 DEF UpTo
  <2>4. h = [T \in UpTo(S, n + 1) |-> IF T = {} THEN 0 ELSE f[Chosen(T)] + h[T \ {Chosen(T)}]]
    BY <2>2, <2>3
  <2> HIDE DEF h
  <2>5. AddsUp(h, f, UpTo(S, n + 1))
    BY <2>4 DEF AddsUp
  <2> QED BY <2>5
<1>5. Good = Nat
  <2> HIDE DEF Good
  <2>1. Good \in SUBSET Nat
    BY DEF Good
  <2> QED BY <1>3, <1>4, <2>1, InductionOnNat
<1>6. UpTo(S, Cardinality(S)) = SUBSET S
  BY <1>1 DEF UpTo
<1>7. PICK g : AddsUp(g, f, UpTo(S, Cardinality(S)))
  <2>1. Cardinality(S) \in Good
    BY <1>1, <1>5
  <2> QED BY <2>1
<1> QED BY <1>6, <1>7

\* It is the only one, on the subsets of any set.
LEMMA AddsUpOnce ==
  ASSUME NEW f, NEW S, IsFiniteSet(S), NEW R \in SUBSET S
  PROVE  \A g, h : AddsUp(g, f, SUBSET S) /\ AddsUp(h, f, SUBSET R) => g[R] = h[R]
<1> SUFFICES ASSUME NEW g, AddsUp(g, f, SUBSET S), NEW h, AddsUp(h, f, SUBSET R)
             PROVE  g[R] = h[R]
  OBVIOUS
<1> DEFINE Good == {n \in Nat : \A T \in SUBSET R : Cardinality(T) = n => g[T] = h[T]}
<1>1. \A T \in SUBSET R : IsFiniteSet(T) /\ Cardinality(T) \in Nat
  BY FS_Subset, FS_CardinalityType
<1>2. \A T \in SUBSET R :
        /\ g[T] = IF T = {} THEN 0 ELSE f[Chosen(T)] + g[T \ {Chosen(T)}]
        /\ h[T] = IF T = {} THEN 0 ELSE f[Chosen(T)] + h[T \ {Chosen(T)}]
  BY DEF AddsUp
<1>3. 0 \in Good
  <2>1. \A T \in SUBSET R : Cardinality(T) = 0 => T = {}
    BY <1>1, FS_EmptySet
  <2> QED BY <1>2, <2>1
<1>4. ASSUME NEW n \in Good PROVE n + 1 \in Good
  <2> SUFFICES ASSUME NEW T \in SUBSET R, Cardinality(T) = n + 1 PROVE g[T] = h[T]
    OBVIOUS
  <2>1. T # {} /\ \A x \in T : Cardinality(T \ {x}) = n
    BY <1>1, OneLess
  <2>2. Chosen(T) \in T
    BY <2>1 DEF Chosen
  <2>3. T \ {Chosen(T)} \in SUBSET R /\ Cardinality(T \ {Chosen(T)}) = n
    BY <2>1, <2>2
  <2>4. g[T \ {Chosen(T)}] = h[T \ {Chosen(T)}]
    BY <1>4, <2>3
  <2> QED BY <1>2, <2>1, <2>4
<1>5. Good = Nat
  <2> HIDE DEF Good
  <2>1. Good \in SUBSET Nat
    BY DEF Good
  <2> QED BY <1>3, <1>4, <2>1, InductionOnNat
<1> QED BY <1>1, <1>5

\* The recursion, of sums.
LEMMA SumRecursive ==
  ASSUME NEW f, NEW S, IsFiniteSet(S)
  PROVE  /\ SumFunctionOnSet(f, {}) = 0
         /\ S # {} => /\ Chosen(S) \in S
                      /\ SumFunctionOnSet(f, S) =
                           f[Chosen(S)] + SumFunctionOnSet(f, S \ {Chosen(S)})
<1> DEFINE adder(T) == CHOOSE g : AddsUp(g, f, SUBSET T)
<1>1. ASSUME NEW T, IsFiniteSet(T)
      PROVE  AddsUp(adder(T), f, SUBSET T) /\ SumFunctionOnSet(f, T) = adder(T)[T]
  BY <1>1, SomeAddsUp, SumUnfolded
<1> HIDE DEF adder
<1>2. SumFunctionOnSet(f, {}) = 0
  <2>1. AddsUp(adder({}), f, SUBSET {}) /\ SumFunctionOnSet(f, {}) = adder({})[{}]
    BY <1>1, FS_EmptySet
  <2> QED BY <2>1 DEF AddsUp
<1>3. ASSUME S # {}
      PROVE  /\ Chosen(S) \in S
             /\ SumFunctionOnSet(f, S) = f[Chosen(S)] + SumFunctionOnSet(f, S \ {Chosen(S)})
  <2> DEFINE R == S \ {Chosen(S)}
  <2>1. Chosen(S) \in S
    BY <1>3 DEF Chosen
  <2>2. R \in SUBSET S /\ IsFiniteSet(R)
    BY FS_Subset
  <2>3. adder(S)[S] = f[Chosen(S)] + adder(S)[R]
    BY <1>1, <1>3 DEF AddsUp
  <2>4. adder(S)[R] = adder(R)[R]
    <3> HIDE DEF R
    <3>1. AddsUp(adder(S), f, SUBSET S) /\ AddsUp(adder(R), f, SUBSET R)
      BY <1>1, <2>2
    <3>2. \A g, h : AddsUp(g, f, SUBSET S) /\ AddsUp(h, f, SUBSET R) => g[R] = h[R]
      BY <2>2, AddsUpOnce
    <3> QED BY <3>1, <3>2
  <2>5. SumFunctionOnSet(f, R) = adder(R)[R]
    <3> HIDE DEF R
    <3> QED BY <1>1, <2>2
  <2> QED BY <1>1, <2>1, <2>3, <2>4, <2>5
<1> QED BY <1>2, <1>3

\* A sum of integers is one.
LEMMA SumType ==
  ASSUME NEW S, IsFiniteSet(S), NEW f, \A x \in S : f[x] \in Int
  PROVE  SumFunctionOnSet(f, S) \in Int
<1> DEFINE Sizes == {n \in Nat : \A T \in SUBSET S : Cardinality(T) = n => SumFunctionOnSet(f, T) \in Int}
<1>1. \A T \in SUBSET S : IsFiniteSet(T) /\ Cardinality(T) \in Nat
  BY FS_Subset, FS_CardinalityType
<1>2. 0 \in Sizes
  <2>1. \A T \in SUBSET S : Cardinality(T) = 0 => T = {}
    BY <1>1, FS_EmptySet
  <2>2. SumFunctionOnSet(f, {}) = 0
    BY SumRecursive
  <2> QED BY <2>1, <2>2
<1>3. ASSUME NEW n \in Sizes PROVE n + 1 \in Sizes
  <2> SUFFICES ASSUME NEW T \in SUBSET S, Cardinality(T) = n + 1
               PROVE  SumFunctionOnSet(f, T) \in Int
    OBVIOUS
  <2>1. T # {} /\ IsFiniteSet(T) /\ \A x \in T : Cardinality(T \ {x}) = n
    BY <1>1, OneLess
  <2>2. /\ Chosen(T) \in T
        /\ SumFunctionOnSet(f, T) = f[Chosen(T)] + SumFunctionOnSet(f, T \ {Chosen(T)})
    BY <2>1, SumRecursive
  <2>3. T \ {Chosen(T)} \in SUBSET S /\ Cardinality(T \ {Chosen(T)}) = n
    BY <2>1, <2>2
  <2>4. SumFunctionOnSet(f, T \ {Chosen(T)}) \in Int
    BY <1>3, <2>3
  <2> QED BY <2>2, <2>4
<1>4. Sizes = Nat
  <2> HIDE DEF Sizes
  <2>1. Sizes \in SUBSET Nat
    BY DEF Sizes
  <2> QED BY <1>2, <1>3, <2>1, InductionOnNat
<1> QED BY <1>1, <1>4

\* Any element may be added first.
LEMMA SumRemove ==
  ASSUME NEW S, IsFiniteSet(S), NEW f, \A x \in S : f[x] \in Int, NEW x \in S
  PROVE  SumFunctionOnSet(f, S) = f[x] + SumFunctionOnSet(f, S \ {x})
<1> DEFINE Any(T) == \A y \in T : SumFunctionOnSet(f, T) = f[y] + SumFunctionOnSet(f, T \ {y})
           Sizes == {n \in Nat : \A T \in SUBSET S : Cardinality(T) = n => Any(T)}
<1>1. \A T \in SUBSET S :
        IsFiniteSet(T) /\ Cardinality(T) \in Nat /\ SumFunctionOnSet(f, T) \in Int
  BY FS_Subset, FS_CardinalityType, SumType
<1>2. 0 \in Sizes
  <2>1. \A T \in SUBSET S : Cardinality(T) = 0 => T = {}
    BY <1>1, FS_EmptySet
  <2> QED BY <2>1
<1>3. ASSUME NEW n \in Sizes PROVE n + 1 \in Sizes
  <2> SUFFICES ASSUME NEW T \in SUBSET S, Cardinality(T) = n + 1, NEW y \in T
               PROVE  SumFunctionOnSet(f, T) = f[y] + SumFunctionOnSet(f, T \ {y})
    OBVIOUS
  <2> DEFINE c == Chosen(T)
  <2>1. IsFiniteSet(T) /\ \A z \in T : Cardinality(T \ {z}) = n
    BY <1>1, OneLess
  <2>2. c \in T /\ SumFunctionOnSet(f, T) = f[c] + SumFunctionOnSet(f, T \ {c})
    BY <2>1, SumRecursive
  <2>3. CASE y # c
    <3> HIDE DEF c
    <3>1. /\ T \ {c} \in SUBSET S /\ Cardinality(T \ {c}) = n /\ y \in T \ {c}
          /\ T \ {y} \in SUBSET S /\ Cardinality(T \ {y}) = n /\ c \in T \ {y}
      BY <2>1, <2>2, <2>3
    <3>2. Any(T \ {c}) /\ Any(T \ {y})
      BY <1>3, <3>1
    <3>3. SumFunctionOnSet(f, T \ {c}) = f[y] + SumFunctionOnSet(f, (T \ {c}) \ {y})
      BY <3>1, <3>2
    <3>4. SumFunctionOnSet(f, T \ {y}) = f[c] + SumFunctionOnSet(f, (T \ {y}) \ {c})
      BY <3>1, <3>2
    <3> DEFINE rest == (T \ {c}) \ {y}
    <3>5. (T \ {y}) \ {c} = rest /\ rest \in SUBSET S
      OBVIOUS
    <3> HIDE DEF rest
    <3>6. SumFunctionOnSet(f, rest) \in Int /\ f[c] \in Int /\ f[y] \in Int
      BY <1>1, <2>2, <3>5
    <3>7. /\ SumFunctionOnSet(f, T \ {c}) = f[y] + SumFunctionOnSet(f, rest)
          /\ SumFunctionOnSet(f, T \ {y}) = f[c] + SumFunctionOnSet(f, rest)
      BY <3>3, <3>4, <3>5 DEF rest
    <3> QED BY <2>2, <3>6, <3>7
  <2> QED BY <2>2, <2>3
<1>4. Sizes = Nat
  <2> HIDE DEF Sizes
  <2>1. Sizes \in SUBSET Nat
    BY DEF Sizes
  <2> QED BY <1>2, <1>3, <2>1, InductionOnNat
<1>5. Cardinality(S) \in Nat /\ S \in SUBSET S
  BY <1>1
<1>6. Any(S)
  BY <1>4, <1>5
<1> QED BY <1>6

\* Another element adds its own.
LEMMA SumAdd ==
  ASSUME NEW S, IsFiniteSet(S), NEW f, NEW x, x \notin S, \A y \in S \cup {x} : f[y] \in Int
  PROVE  SumFunctionOnSet(f, S \cup {x}) = f[x] + SumFunctionOnSet(f, S)
<1>1. IsFiniteSet(S \cup {x})
  BY FS_AddElement
<1>2. (S \cup {x}) \ {x} = S
  OBVIOUS
<1> QED BY <1>1, <1>2, SumRemove

\* Functions that agree have the same sum, and a greater one has a greater sum.
LEMMA SumMonotone ==
  ASSUME NEW S, IsFiniteSet(S), NEW f, NEW g,
         \A x \in S : f[x] \in Int /\ g[x] \in Int /\ f[x] <= g[x]
  PROVE  SumFunctionOnSet(f, S) <= SumFunctionOnSet(g, S)
<1> DEFINE F == {T \in SUBSET S : SumFunctionOnSet(f, T) <= SumFunctionOnSet(g, T)}
<1>1. {} \in F
  <2>1. SumFunctionOnSet(f, {}) = 0 /\ SumFunctionOnSet(g, {}) = 0
    BY SumRecursive
  <2> QED BY <2>1
<1>2. ASSUME NEW T \in F, NEW x \in S, x \notin T PROVE T \cup {x} \in F
  <2>1. T \in SUBSET S /\ IsFiniteSet(T) /\ T \cup {x} \in SUBSET S
    BY FS_Subset
  <2>2. /\ SumFunctionOnSet(f, T \cup {x}) = f[x] + SumFunctionOnSet(f, T)
        /\ SumFunctionOnSet(g, T \cup {x}) = g[x] + SumFunctionOnSet(g, T)
    BY <1>2, <2>1, SumAdd
  <2>3. SumFunctionOnSet(f, T) \in Int /\ SumFunctionOnSet(g, T) \in Int
    BY <2>1, SumType
  <2>4. SumFunctionOnSet(f, T) <= SumFunctionOnSet(g, T) /\ f[x] <= g[x]
    BY <1>2
  <2>5. SumFunctionOnSet(f, T \cup {x}) <= SumFunctionOnSet(g, T \cup {x})
    BY <2>2, <2>3, <2>4
  <2> QED BY <2>1, <2>5
<1>3. F = SUBSET S
  <2> HIDE DEF F
  <2>1. F \in SUBSET (SUBSET S)
    BY DEF F
  <2> QED BY <1>1, <1>2, <2>1, InductionOnSubsets
<1> QED BY <1>3

\* Functions that agree on a set have one sum there.
LEMMA SumSame ==
  ASSUME NEW S, IsFiniteSet(S), NEW f, NEW g, \A x \in S : f[x] \in Int /\ g[x] = f[x]
  PROVE  SumFunctionOnSet(g, S) = SumFunctionOnSet(f, S)
<1>1. SumFunctionOnSet(f, S) <= SumFunctionOnSet(g, S)
  BY SumMonotone
<1>2. SumFunctionOnSet(g, S) <= SumFunctionOnSet(f, S)
  BY SumMonotone
<1>3. SumFunctionOnSet(f, S) \in Int /\ SumFunctionOnSet(g, S) \in Int
  BY SumType
<1> QED BY <1>1, <1>2, <1>3

\* Where one element changes, the sum changes as much.
LEMMA SumChange ==
  ASSUME NEW S, IsFiniteSet(S), NEW f, NEW g, NEW x \in S,
         \A y \in S : f[y] \in Int /\ g[y] \in Int,
         \A y \in S \ {x} : g[y] = f[y]
  PROVE  SumFunctionOnSet(g, S) = SumFunctionOnSet(f, S) + (g[x] - f[x])
<1>1. IsFiniteSet(S \ {x}) /\ S \ {x} \in SUBSET S
  BY FS_Subset
<1>2. SumFunctionOnSet(g, S \ {x}) = SumFunctionOnSet(f, S \ {x})
  BY <1>1, SumSame
<1>3. SumFunctionOnSet(f, S \ {x}) \in Int
  BY <1>1, SumType
<1>4. /\ SumFunctionOnSet(f, S) = f[x] + SumFunctionOnSet(f, S \ {x})
      /\ SumFunctionOnSet(g, S) = g[x] + SumFunctionOnSet(g, S \ {x})
  BY SumRemove
<1> QED BY <1>2, <1>3, <1>4

\* A sum of natural numbers is one, and none of them is more.
LEMMA SumNatural ==
  ASSUME NEW S, IsFiniteSet(S), NEW f, \A x \in S : f[x] \in Nat
  PROVE  SumFunctionOnSet(f, S) \in Nat /\ \A x \in S : f[x] <= SumFunctionOnSet(f, S)
<1>1. ASSUME NEW T \in SUBSET S PROVE SumFunctionOnSet(f, T) \in Nat
  <2> DEFINE zero == [x \in S |-> 0]
             F == {R \in SUBSET S : SumFunctionOnSet(zero, R) = 0}
  <2>1. IsFiniteSet(T)
    BY FS_Subset
  <2>2. {} \in F
    BY SumRecursive
  <2>3. ASSUME NEW R \in F, NEW x \in S, x \notin R PROVE R \cup {x} \in F
    <3>1. R \in SUBSET S /\ IsFiniteSet(R)
      BY FS_Subset
    <3>2. SumFunctionOnSet(zero, R \cup {x}) = zero[x] + SumFunctionOnSet(zero, R)
      BY <2>3, <3>1, SumAdd
    <3> QED BY <2>3, <3>1, <3>2
  <2>4. F = SUBSET S
    <3> HIDE DEF F
    <3>1. F \in SUBSET (SUBSET S)
      BY DEF F
    <3> QED BY <2>2, <2>3, <3>1, InductionOnSubsets
  <2>5. SumFunctionOnSet(zero, T) = 0
    BY <2>4
  <2>6. SumFunctionOnSet(zero, T) <= SumFunctionOnSet(f, T)
    BY <2>1, SumMonotone
  <2>7. SumFunctionOnSet(f, T) \in Int
    BY <2>1, SumType
  <2> QED BY <2>5, <2>6, <2>7
<1>2. ASSUME NEW x \in S PROVE f[x] <= SumFunctionOnSet(f, S)
  <2>1. SumFunctionOnSet(f, S) = f[x] + SumFunctionOnSet(f, S \ {x})
    BY SumRemove
  <2>2. SumFunctionOnSet(f, S \ {x}) \in Nat
    BY <1>1
  <2> QED BY <2>1, <2>2
<1> QED BY <1>1, <1>2

\* Nothing adds up to nothing.
LEMMA SumZero ==
  ASSUME NEW S, IsFiniteSet(S), NEW f, \A x \in S : f[x] = 0
  PROVE  SumFunctionOnSet(f, S) = 0
<1> DEFINE F == {T \in SUBSET S : SumFunctionOnSet(f, T) = 0}
<1>1. {} \in F
  BY SumRecursive
<1>2. ASSUME NEW T \in F, NEW x \in S, x \notin T PROVE T \cup {x} \in F
  <2>1. T \in SUBSET S /\ IsFiniteSet(T) /\ T \cup {x} \in SUBSET S
    BY FS_Subset
  <2>2. SumFunctionOnSet(f, T \cup {x}) = f[x] + SumFunctionOnSet(f, T)
    <3>1. \A y \in T \cup {x} : f[y] \in Int
      BY <2>1
    <3> QED BY <1>2, <2>1, <3>1, SumAdd
  <2>3. SumFunctionOnSet(f, T) = 0 /\ f[x] = 0
    BY <1>2
  <2> QED BY <2>1, <2>2, <2>3
<1>3. F = SUBSET S
  <2> HIDE DEF F
  <2>1. F \in SUBSET (SUBSET S)
    BY DEF F
  <2> QED BY <1>1, <1>2, <2>1, InductionOnSubsets
<1> QED BY <1>3

\* What is at most m each adds up to at most m times the number.
LEMMA SumBounded ==
  ASSUME NEW S, IsFiniteSet(S), NEW m \in Nat, NEW f, \A x \in S : f[x] \in Int /\ f[x] <= m
  PROVE  SumFunctionOnSet(f, S) <= Cardinality(S) * m
<1> DEFINE F == {T \in SUBSET S : SumFunctionOnSet(f, T) <= Cardinality(T) * m}
<1>1. {} \in F
  <2>1. SumFunctionOnSet(f, {}) = 0 /\ Cardinality({}) = 0
    BY SumRecursive, FS_EmptySet
  <2> QED BY <2>1
<1>2. ASSUME NEW T \in F, NEW x \in S, x \notin T PROVE T \cup {x} \in F
  <2>1. T \in SUBSET S /\ IsFiniteSet(T) /\ T \cup {x} \in SUBSET S
    BY FS_Subset
  <2>2. SumFunctionOnSet(f, T \cup {x}) = f[x] + SumFunctionOnSet(f, T)
    <3>1. \A y \in T \cup {x} : f[y] \in Int
      BY <2>1
    <3> QED BY <1>2, <2>1, <3>1, SumAdd
  <2>3. Cardinality(T) \in Nat /\ Cardinality(T \cup {x}) = Cardinality(T) + 1
    BY <1>2, <2>1, FS_AddElement, FS_CardinalityType
  <2>4. SumFunctionOnSet(f, T) \in Int
    BY <2>1, SumType
  <2>5. f[x] \in Int /\ f[x] <= m /\ SumFunctionOnSet(f, T) <= Cardinality(T) * m
    BY <1>2
  <2>6. (Cardinality(T) + 1) * m = Cardinality(T) * m + m /\ Cardinality(T) * m \in Int
    BY <2>3
  <2>7. SumFunctionOnSet(f, T \cup {x}) <= Cardinality(T \cup {x}) * m
    BY <2>2, <2>3, <2>4, <2>5, <2>6
  <2> QED BY <2>1, <2>7
<1>3. F = SUBSET S
  <2> HIDE DEF F
  <2>1. F \in SUBSET (SUBSET S)
    BY DEF F
  <2> QED BY <1>1, <1>2, <2>1, InductionOnSubsets
<1> QED BY <1>3

\* A finite set of numbers that is not empty has a largest.
LEMMA SomeLargest ==
  ASSUME NEW S \in SUBSET Nat, IsFiniteSet(S), S # {}
  PROVE  \E x \in S : \A y \in S : y <= x
<1> DEFINE F == {T \in SUBSET S : T # {} => \E x \in T : \A y \in T : y <= x}
<1>1. {} \in F
  OBVIOUS
<1>2. ASSUME NEW T \in F, NEW z \in S, z \notin T PROVE T \cup {z} \in F
  <2>1. CASE T = {}
    BY <2>1
  <2>2. CASE T # {}
    <3>1. PICK x \in T : \A y \in T : y <= x
      BY <2>2
    <3>2. CASE z <= x
      BY <3>1, <3>2
    <3>3. CASE ~(z <= x)
      <4>1. \A y \in T \cup {z} : y <= z
        BY <3>1, <3>3
      <4> QED BY <4>1
    <3> QED BY <3>2, <3>3
  <2> QED BY <2>1, <2>2
<1>3. F = SUBSET S
  <2> HIDE DEF F
  <2>1. F \in SUBSET (SUBSET S)
    BY DEF F
  <2> QED BY <1>1, <1>2, <2>1, InductionOnSubsets
<1> QED BY <1>3

\* Two sums over one set add up element by element.
LEMMA SumPlus ==
  ASSUME NEW S, IsFiniteSet(S), NEW f, NEW g, NEW h,
         \A x \in S : f[x] \in Int /\ g[x] \in Int,
         \A x \in S : h[x] = f[x] + g[x]
  PROVE  SumFunctionOnSet(h, S) = SumFunctionOnSet(f, S) + SumFunctionOnSet(g, S)
<1> DEFINE F == {T \in SUBSET S : SumFunctionOnSet(h, T) = SumFunctionOnSet(f, T) + SumFunctionOnSet(g, T)}
<1>1. {} \in F
  <2>1. SumFunctionOnSet(f, {}) = 0 /\ SumFunctionOnSet(g, {}) = 0 /\ SumFunctionOnSet(h, {}) = 0
    BY SumRecursive
  <2> QED BY <2>1
<1>2. ASSUME NEW T \in F, NEW x \in S, x \notin T PROVE T \cup {x} \in F
  <2>1. T \in SUBSET S /\ IsFiniteSet(T) /\ T \cup {x} \in SUBSET S
    BY FS_Subset
  <2>2. \A y \in T \cup {x} : f[y] \in Int /\ g[y] \in Int /\ h[y] \in Int
    BY <2>1
  <2>3. SumFunctionOnSet(f, T \cup {x}) = f[x] + SumFunctionOnSet(f, T)
    BY <1>2, <2>1, <2>2, SumAdd
  <2>4. SumFunctionOnSet(g, T \cup {x}) = g[x] + SumFunctionOnSet(g, T)
    BY <1>2, <2>1, <2>2, SumAdd
  <2>5. SumFunctionOnSet(h, T \cup {x}) = h[x] + SumFunctionOnSet(h, T)
    BY <1>2, <2>1, <2>2, SumAdd
  <2>6. SumFunctionOnSet(f, T) \in Int /\ SumFunctionOnSet(g, T) \in Int
    BY <2>1, <2>2, SumType
  <2>7. SumFunctionOnSet(h, T) = SumFunctionOnSet(f, T) + SumFunctionOnSet(g, T) /\ h[x] = f[x] + g[x]
    BY <1>2
  <2>8. f[x] \in Int /\ g[x] \in Int
    BY <1>2
  <2>9. SumFunctionOnSet(h, T \cup {x}) = SumFunctionOnSet(f, T \cup {x}) + SumFunctionOnSet(g, T \cup {x})
    BY <2>3, <2>4, <2>5, <2>6, <2>7, <2>8
  <2> QED BY <2>1, <2>9
<1>3. F = SUBSET S
  <2> HIDE DEF F
  <2>1. F \in SUBSET (SUBSET S)
    BY DEF F
  <2> QED BY <1>1, <1>2, <2>1, InductionOnSubsets
<1> QED BY <1>3

\* Elements that are nothing may be left out.
LEMMA SumRestrict ==
  ASSUME NEW S, IsFiniteSet(S), NEW R \in SUBSET S, NEW f, \A x \in R : f[x] \in Int,
         \A x \in S \ R : f[x] = 0
  PROVE  SumFunctionOnSet(f, S) = SumFunctionOnSet(f, R)
<1> DEFINE F == {T \in SUBSET (S \ R) : SumFunctionOnSet(f, R \cup T) = SumFunctionOnSet(f, R)}
<1>1. {} \in F
  <2>1. R \cup {} = R
    OBVIOUS
  <2> QED BY <2>1
<1>2. IsFiniteSet(S \ R) /\ IsFiniteSet(R) /\ \A x \in S : f[x] \in Int
  BY FS_Subset
<1>3. ASSUME NEW T \in F, NEW x \in S \ R, x \notin T PROVE T \cup {x} \in F
  <2>1. T \in SUBSET (S \ R) /\ T \cup {x} \in SUBSET (S \ R) /\ R \cup T \in SUBSET S /\ x \notin R \cup T
    BY <1>3
  <2>2. IsFiniteSet(R \cup T) /\ \A y \in (R \cup T) \cup {x} : f[y] \in Int
    BY <1>2, <2>1, FS_Subset
  <2>3. SumFunctionOnSet(f, (R \cup T) \cup {x}) = f[x] + SumFunctionOnSet(f, R \cup T)
    BY <2>1, <2>2, SumAdd
  <2>4. SumFunctionOnSet(f, R) \in Int /\ SumFunctionOnSet(f, R \cup T) = SumFunctionOnSet(f, R) /\ f[x] = 0
    BY <1>2, <1>3, SumType
  <2>5. (R \cup T) \cup {x} = R \cup (T \cup {x})
    BY Zenon
  <2>6. SumFunctionOnSet(f, R \cup (T \cup {x})) = SumFunctionOnSet(f, R)
    <3>1. SumFunctionOnSet(f, (R \cup T) \cup {x}) = SumFunctionOnSet(f, R)
      BY <2>3, <2>4
    <3> HIDE DEF F
    <3> QED BY <2>5, <3>1, Zenon
  <2> QED BY <2>1, <2>6
<1>4. F = SUBSET (S \ R)
  <2> HIDE DEF F
  <2>1. F \in SUBSET (SUBSET (S \ R))
    BY DEF F
  <2> QED BY <1>1, <1>2, <1>3, <2>1, InductionOnSubsets
<1>5. S \ R \in F /\ R \cup (S \ R) = S
  BY <1>4
<1> QED BY <1>5

\* Two elements change.
LEMMA SumChangeTwo ==
  ASSUME NEW S, IsFiniteSet(S), NEW f, NEW g, NEW x \in S, NEW y \in S, x # y,
         \A z \in S : f[z] \in Int /\ g[z] \in Int,
         \A z \in S \ {x, y} : g[z] = f[z]
  PROVE  SumFunctionOnSet(g, S) = SumFunctionOnSet(f, S) + (g[x] - f[x]) + (g[y] - f[y])
<1> DEFINE h == [z \in S |-> IF z = x THEN g[x] ELSE f[z]]
<1>1. \A z \in S : f[z] \in Int /\ h[z] \in Int /\ g[z] \in Int
  OBVIOUS
<1>2. (\A z \in S \ {x} : h[z] = f[z]) /\ (\A z \in S \ {y} : g[z] = h[z])
  OBVIOUS
<1>3. h[x] = g[x] /\ h[y] = f[y]
  OBVIOUS
<1> HIDE DEF h
<1>4. SumFunctionOnSet(h, S) = SumFunctionOnSet(f, S) + (h[x] - f[x])
  BY <1>1, <1>2, SumChange, SMTT(30)
<1>5. SumFunctionOnSet(g, S) = SumFunctionOnSet(h, S) + (g[y] - h[y])
  BY <1>1, <1>2, SumChange, SMTT(30)
<1>6. SumFunctionOnSet(f, S) \in Int
  BY SumType
<1> QED BY <1>1, <1>3, <1>4, <1>5, <1>6

\* Rows first or columns first.
LEMMA SumSwap ==
  ASSUME NEW S, IsFiniteSet(S), NEW R, IsFiniteSet(R), NEW f,
         \A x \in S, y \in R : f[x][y] \in Int
  PROVE  SumFunctionOnSet([x \in S |-> SumFunctionOnSet([y \in R |-> f[x][y]], R)], S)
           = SumFunctionOnSet([y \in R |-> SumFunctionOnSet([x \in S |-> f[x][y]], S)], R)
<1> DEFINE row == [x \in S |-> SumFunctionOnSet([y \in R |-> f[x][y]], R)]
           column(T) == [y \in R |-> SumFunctionOnSet([x \in S |-> f[x][y]], T)]
           F == {T \in SUBSET S : SumFunctionOnSet(row, T) = SumFunctionOnSet(column(T), R)}
<1>1. ASSUME NEW x \in S PROVE row[x] = SumFunctionOnSet([y \in R |-> f[x][y]], R) /\ row[x] \in Int
  <2> DEFINE g == [y \in R |-> f[x][y]]
  <2>1. \A y \in R : g[y] \in Int
    OBVIOUS
  <2> HIDE DEF g
  <2>2. SumFunctionOnSet(g, R) \in Int
    BY <2>1, SumType
  <2> QED BY <2>2 DEF g
<1>2. ASSUME NEW T \in SUBSET S, NEW y \in R
      PROVE  /\ column(T)[y] = SumFunctionOnSet([x \in S |-> f[x][y]], T) /\ column(T)[y] \in Int
             /\ T = {} => column(T)[y] = 0
             /\ \A x \in S : x \notin T => column(T \cup {x})[y] = f[x][y] + column(T)[y]
  <2> DEFINE g == [x \in S |-> f[x][y]]
  <2>1. \A x \in S : g[x] \in Int /\ g[x] = f[x][y]
    OBVIOUS
  <2>2. /\ column(T)[y] = SumFunctionOnSet(g, T)
        /\ \A x \in S : column(T \cup {x})[y] = SumFunctionOnSet(g, T \cup {x})
    OBVIOUS
  <2>3. IsFiniteSet(T)
    BY FS_Subset
  <2> HIDE DEF g, column
  <2>4. SumFunctionOnSet(g, T) \in Int /\ (T = {} => SumFunctionOnSet(g, T) = 0)
    BY <2>1, <2>3, SumType, SumRecursive
  <2>5. ASSUME NEW x \in S, x \notin T PROVE SumFunctionOnSet(g, T \cup {x}) = g[x] + SumFunctionOnSet(g, T)
    BY <2>1, <2>3, <2>5, SumAdd
  <2> QED BY <2>1, <2>2, <2>4, <2>5 DEF g
<1> HIDE DEF row, column
<1>3. {} \in F
  <2>1. \A y \in R : column({})[y] = 0
    BY <1>2
  <2>2. SumFunctionOnSet(column({}), R) = 0
    BY <2>1, SumZero
  <2>3. SumFunctionOnSet(row, {}) = 0
    BY SumRecursive
  <2> QED BY <2>2, <2>3
<1>4. ASSUME NEW T \in F, NEW x \in S, x \notin T PROVE T \cup {x} \in F
  <2>1. T \in SUBSET S /\ IsFiniteSet(T) /\ T \cup {x} \in SUBSET S
    BY FS_Subset
  <2>2. \A z \in T \cup {x} : row[z] \in Int
    BY <1>1, <2>1
  <2>3. SumFunctionOnSet(row, T \cup {x}) = row[x] + SumFunctionOnSet(row, T)
    BY <1>4, <2>1, <2>2, SumAdd
  <2> DEFINE g == [y \in R |-> f[x][y]]
             before == column(T)
             after == column(T \cup {x})
  <2>4. \A y \in R : g[y] \in Int /\ before[y] \in Int
    BY <1>2, <2>1
  <2>5. \A y \in R : after[y] = g[y] + before[y]
    BY <1>2, <1>4, <2>1
  <2>6. row[x] = SumFunctionOnSet(g, R)
    BY <1>1
  <2>7. SumFunctionOnSet(row, T) = SumFunctionOnSet(before, R)
    BY <1>4
  <2> HIDE DEF g, before, after
  <2>8. SumFunctionOnSet(after, R) = SumFunctionOnSet(g, R) + SumFunctionOnSet(before, R)
    BY <2>4, <2>5, SumPlus
  <2>9. SumFunctionOnSet(row, T \cup {x}) = SumFunctionOnSet(after, R)
    BY <2>3, <2>6, <2>7, <2>8
  <2> QED BY <2>1, <2>9 DEF after
<1>5. F = SUBSET S
  <2> HIDE DEF F
  <2>1. F \in SUBSET (SUBSET S)
    BY DEF F
  <2> QED BY <1>3, <1>4, <2>1, InductionOnSubsets
<1>6. SumFunctionOnSet(row, S) = SumFunctionOnSet(column(S), R)
  BY <1>5
<1> QED BY <1>6 DEF row, column

\* What is appended is added.
LEMMA SumAppended ==
  ASSUME NEW n \in Nat, NEW f, NEW g, \A k \in 1..(n + 1) : g[k] \in Int, \A k \in 1..n : f[k] = g[k]
  PROVE  SumFunctionOnSet(g, 1..(n + 1)) = SumFunctionOnSet(f, 1..n) + g[n + 1]
<1>1. IsFiniteSet(1..n) /\ 1..(n + 1) = (1..n) \cup {n + 1} /\ n + 1 \notin 1..n
  BY FS_Interval
<1>2. \A k \in (1..n) \cup {n + 1} : g[k] \in Int
  BY <1>1
<1>3. SumFunctionOnSet(g, (1..n) \cup {n + 1}) = g[n + 1] + SumFunctionOnSet(g, 1..n)
  BY <1>1, <1>2, SumAdd
<1>4. \A k \in 1..n : g[k] \in Int /\ f[k] = g[k]
  BY <1>2
<1>5. SumFunctionOnSet(f, 1..n) = SumFunctionOnSet(g, 1..n)
  BY <1>1, <1>4, SumSame
<1>6. SumFunctionOnSet(g, 1..n) \in Int
  BY <1>1, <1>4, SumType
<1>7. n + 1 \in 1..(n + 1) /\ g[n + 1] \in Int
  OBVIOUS
<1>8. SumFunctionOnSet(g, 1..(n + 1)) = g[n + 1] + SumFunctionOnSet(g, 1..n)
  BY <1>1, <1>3, Zenon
<1> QED BY <1>5, <1>6, <1>7, <1>8

\* A sum over a sequence is its head and the sum over its tail.
LEMMA SumShifted ==
  ASSUME NEW n \in Nat, NEW f, NEW g,
         \A k \in 1..(n + 1) : f[k] \in Int, \A k \in 1..n : g[k] = f[k + 1]
  PROVE  SumFunctionOnSet(f, 1..(n + 1)) = f[1] + SumFunctionOnSet(g, 1..n)
<1> DEFINE Good == {m \in Nat : m <= n => SumFunctionOnSet(f, 1..(m + 1)) = f[1] + SumFunctionOnSet(g, 1..m)}
<1>1. 0 \in Good
  <2>1. 1..(0 + 1) = {} \cup {1} /\ 1..0 = {}
    OBVIOUS
  <2>2. IsFiniteSet({}) /\ 1 \notin {} /\ \A k \in {} \cup {1} : f[k] \in Int
    BY FS_EmptySet
  <2>3. SumFunctionOnSet(f, {} \cup {1}) = f[1] + SumFunctionOnSet(f, {})
    BY <2>2, SumAdd
  <2>4. SumFunctionOnSet(f, {}) = 0 /\ SumFunctionOnSet(g, {}) = 0
    BY <2>2, SumRecursive
  <2>5. SumFunctionOnSet(f, 1..(0 + 1)) = f[1] + SumFunctionOnSet(g, 1..0)
    BY <2>1, <2>3, <2>4
  <2> QED BY <2>5
<1>2. ASSUME NEW m \in Good PROVE m + 1 \in Good
  <2>1. SUFFICES ASSUME m + 1 <= n
                 PROVE  SumFunctionOnSet(f, 1..((m + 1) + 1)) = f[1] + SumFunctionOnSet(g, 1..(m + 1))
    OBVIOUS
  <2>2. m \in Nat /\ m + 1 \in Nat /\ m <= n /\ m + 2 \in 1..(n + 1) /\ m + 1 \in 1..n /\ 1 \in 1..(n + 1)
    BY <2>1
  <2>3. SumFunctionOnSet(f, 1..(m + 1)) = f[1] + SumFunctionOnSet(g, 1..m)
    BY <1>2, <2>2
  <2>4. (\A k \in 1..((m + 1) + 1) : f[k] \in Int) /\ (\A k \in 1..(m + 1) : f[k] = f[k])
    BY <2>1, <2>2
  <2>5. SumFunctionOnSet(f, 1..((m + 1) + 1)) = SumFunctionOnSet(f, 1..(m + 1)) + f[(m + 1) + 1]
    BY <2>2, <2>4, SumAppended
  <2>6. \A k \in 1..(m + 1) : g[k] \in Int /\ g[k] = f[k + 1]
    <3>1. \A k \in 1..(m + 1) : k \in 1..n /\ k + 1 \in 1..(n + 1)
      BY <2>1, <2>2
    <3> QED BY <3>1
  <2>7. SumFunctionOnSet(g, 1..(m + 1)) = SumFunctionOnSet(g, 1..m) + g[m + 1]
    <3>1. \A k \in 1..m : g[k] = g[k]
      OBVIOUS
    <3> QED BY <2>2, <2>6, <3>1, SumAppended
  <2>8. SumFunctionOnSet(g, 1..m) \in Int /\ f[1] \in Int /\ g[m + 1] \in Int /\ g[m + 1] = f[(m + 1) + 1]
    <3>1. IsFiniteSet(1..m) /\ \A k \in 1..m : k \in 1..(m + 1)
      BY <2>2, FS_Interval
    <3> QED BY <2>2, <2>6, <3>1, SumType
  <2> QED BY <2>3, <2>5, <2>7, <2>8
<1>3. Good = Nat
  <2> HIDE DEF Good
  <2>1. Good \in SUBSET Nat
    BY DEF Good
  <2> QED BY <1>1, <1>2, <2>1, InductionOnNat
<1> QED BY <1>3

\* g is f but for one place.
DiffersAt(g, f, x, S) ==
  /\ IsFiniteSet(S) /\ x \in S
  /\ \A y \in S : f[y] \in Int /\ g[y] \in Int
  /\ \A y \in S \ {x} : g[y] = f[y]

\* Then the sums differ by what they differ there.
LEMMA SumDiffers ==
  ASSUME NEW S, NEW x, NEW f, NEW g, DiffersAt(g, f, x, S)
  PROVE  SumFunctionOnSet(g, S) = SumFunctionOnSet(f, S) + (g[x] - f[x])
<1>1. \A y \in S : f[y] \in Int /\ g[y] \in Int
  BY DEF DiffersAt
<1>2. \A y \in S \ {x} : g[y] = f[y]
  BY DEF DiffersAt
<1>3. IsFiniteSet(S) /\ x \in S
  BY DEF DiffersAt
<1> QED BY <1>1, <1>2, <1>3, SumChange, SMTT(30)

\* g is f but for two places.
DiffersTwice(g, f, x, y, S) ==
  /\ IsFiniteSet(S) /\ x \in S /\ y \in S /\ x # y
  /\ \A z \in S : f[z] \in Int /\ g[z] \in Int
  /\ \A z \in S \ {x, y} : g[z] = f[z]

\* Then the sums differ by what they differ at the two.
LEMMA SumDiffersTwice ==
  ASSUME NEW S, NEW x, NEW y, NEW f, NEW g, DiffersTwice(g, f, x, y, S)
  PROVE  SumFunctionOnSet(g, S) = SumFunctionOnSet(f, S) + (g[x] - f[x]) + (g[y] - f[y])
<1> DEFINE h == [z \in S |-> IF z = x THEN g[x] ELSE f[z]]
<1>1. DiffersAt(h, f, x, S) /\ DiffersAt(g, h, y, S)
  BY DEF DiffersTwice, DiffersAt
<1>2. h[x] = g[x] /\ h[y] = f[y]
  BY DEF DiffersTwice
<1>3. f[x] \in Int /\ f[y] \in Int /\ g[x] \in Int /\ g[y] \in Int /\ SumFunctionOnSet(f, S) \in Int
  BY SumType DEF DiffersTwice
<1> HIDE DEF h
<1>4. SumFunctionOnSet(h, S) = SumFunctionOnSet(f, S) + (h[x] - f[x])
  BY <1>1, SumDiffers
<1>5. SumFunctionOnSet(g, S) = SumFunctionOnSet(h, S) + (g[y] - h[y])
  BY <1>1, SumDiffers
<1> QED BY <1>2, <1>3, <1>4, <1>5

\* A sum with one term.
LEMMA SumOne ==
  ASSUME NEW S, IsFiniteSet(S), NEW x \in S, NEW c \in Int, NEW g,
         \A y \in S : g[y] = IF y = x THEN c ELSE 0
  PROVE  SumFunctionOnSet(g, S) = c
<1> DEFINE zero == [y \in S |-> 0]
<1>1. DiffersAt(g, zero, x, S) /\ zero[x] = 0 /\ g[x] = c /\ \A y \in S : zero[y] = 0
  BY DEF DiffersAt
<1> HIDE DEF zero
<1>2. SumFunctionOnSet(zero, S) = 0
  BY <1>1, SumZero
<1>3. SumFunctionOnSet(g, S) = SumFunctionOnSet(zero, S) + (g[x] - zero[x])
  BY <1>1, SumDiffers
<1> QED BY <1>1, <1>2, <1>3

\* The sum over the orders of one player, and over those being refunded, is one sum
\* over all orders.
Joins(h, f, g, A, R, S) ==
  /\ IsFiniteSet(S) /\ A \in SUBSET S /\ R \in SUBSET S
  /\ \A i \in S : f[i] \in Int /\ g[i] \in Int
  /\ \A i \in S : h[i] = IF i \in A THEN f[i] + (IF i \in R THEN g[i] ELSE 0) ELSE 0

\* Then two sums over parts are one sum over the whole.
LEMMA OneSum ==
  ASSUME NEW S, NEW A, NEW R, NEW f, NEW g, NEW h, Joins(h, f, g, A, R, S)
  PROVE  SumFunctionOnSet(f, A) + SumFunctionOnSet(g, R \cap A) = SumFunctionOnSet(h, S)
<1> DEFINE fA == [i \in S |-> IF i \in A THEN f[i] ELSE 0]
           gA == [i \in S |-> IF i \in R \cap A THEN g[i] ELSE 0]
<1> USE DEF Joins
<1>1. /\ R \cap A \in SUBSET S /\ A \in SUBSET S /\ IsFiniteSet(S)
      /\ IsFiniteSet(A) /\ IsFiniteSet(R \cap A)
  BY FS_Subset
<1>2. /\ \A i \in S : fA[i] \in Int /\ gA[i] \in Int
      /\ \A i \in S : h[i] = fA[i] + gA[i]
      /\ \A i \in A : fA[i] = f[i] /\ f[i] \in Int
      /\ \A i \in R \cap A : gA[i] = g[i] /\ g[i] \in Int
      /\ \A i \in S \ A : fA[i] = 0
      /\ \A i \in S \ (R \cap A) : gA[i] = 0
  OBVIOUS
<1> HIDE DEF fA, gA, Joins
<1>3. SumFunctionOnSet(h, S) = SumFunctionOnSet(fA, S) + SumFunctionOnSet(gA, S)
  BY <1>1, <1>2, SumPlus
<1>4. SumFunctionOnSet(fA, S) = SumFunctionOnSet(fA, A)
  BY <1>1, <1>2, SumRestrict
<1>5. SumFunctionOnSet(gA, S) = SumFunctionOnSet(gA, R \cap A)
  <2> DEFINE Q == R \cap A
  <2>1. Q \in SUBSET S /\ (\A i \in Q : gA[i] \in Int) /\ \A i \in S \ Q : gA[i] = 0
    BY <1>1, <1>2
  <2> HIDE DEF Q
  <2>2. SumFunctionOnSet(gA, S) = SumFunctionOnSet(gA, Q)
    BY <1>1, <2>1, SumRestrict
  <2> QED BY <2>2 DEF Q
<1>6. SumFunctionOnSet(fA, A) = SumFunctionOnSet(f, A)
  BY <1>1, <1>2, SumSame
<1>7. SumFunctionOnSet(gA, R \cap A) = SumFunctionOnSet(g, R \cap A)
  <2> DEFINE Q == R \cap A
  <2>1. IsFiniteSet(Q) /\ \A i \in Q : g[i] \in Int /\ gA[i] = g[i]
    BY <1>1, <1>2
  <2> HIDE DEF Q
  <2>2. SumFunctionOnSet(gA, Q) = SumFunctionOnSet(g, Q)
    BY <2>1, SumSame
  <2> QED BY <2>2 DEF Q
<1> QED BY <1>3, <1>4, <1>5, <1>6, <1>7

\* A table with the sums of its rows.
Rows(row, f, S, R) ==
  /\ IsFiniteSet(S) /\ IsFiniteSet(R)
  /\ \A x \in S, y \in R : f[x][y] \in Int
  /\ \A x \in S : row[x] = SumFunctionOnSet(f[x], R)

\* When no column is negative, the rows together are not.
LEMMA SumRows ==
  ASSUME NEW S, NEW R, NEW f, NEW row, Rows(row, f, S, R),
         \A y \in R : SumFunctionOnSet([x \in S |-> f[x][y]], S) >= 0
  PROVE  SumFunctionOnSet(row, S) >= 0
<1> DEFINE line == [x \in S |-> SumFunctionOnSet([y \in R |-> f[x][y]], R)]
           column == [y \in R |-> SumFunctionOnSet([x \in S |-> f[x][y]], S)]
<1>1. IsFiniteSet(S) /\ IsFiniteSet(R) /\ \A x \in S, y \in R : f[x][y] \in Int
  BY DEF Rows
<1>2. SumFunctionOnSet(line, S) = SumFunctionOnSet(column, R)
  BY <1>1, SumSwap
<1>3. ASSUME NEW x \in S PROVE line[x] = row[x] /\ row[x] \in Int
  <2> DEFINE g == [y \in R |-> f[x][y]]
             h == f[x]
  <2>1. \A y \in R : h[y] \in Int /\ g[y] = h[y]
    BY <1>1
  <2>2. line[x] = SumFunctionOnSet(g, R) /\ row[x] = SumFunctionOnSet(h, R)
    BY DEF Rows
  <2> HIDE DEF g, h, line
  <2>3. SumFunctionOnSet(g, R) = SumFunctionOnSet(h, R) /\ SumFunctionOnSet(h, R) \in Int
    BY <1>1, <2>1, SumSame, SumType
  <2> QED BY <2>2, <2>3
<1>4. \A y \in R : column[y] \in Nat
  <2> SUFFICES ASSUME NEW y \in R PROVE column[y] \in Nat
    OBVIOUS
  <2> DEFINE g == [x \in S |-> f[x][y]]
  <2>1. column[y] = SumFunctionOnSet(g, S) /\ \A x \in S : g[x] \in Int
    BY <1>1
  <2>2. SumFunctionOnSet(g, S) >= 0
    OBVIOUS
  <2> HIDE DEF g, column
  <2>3. SumFunctionOnSet(g, S) \in Int
    BY <1>1, <2>1, SumType
  <2> QED BY <2>1, <2>2, <2>3
<1> HIDE DEF line, column
<1>5. SumFunctionOnSet(line, S) = SumFunctionOnSet(row, S)
  BY <1>1, <1>3, SumSame
<1>6. SumFunctionOnSet(column, R) \in Nat
  BY <1>1, <1>4, SumNatural
<1> QED BY <1>2, <1>5, <1>6

\* One place gets c, one place gives e.
Moves(g, f, a, c, b, e, S) ==
  /\ IsFiniteSet(S) /\ a \in S /\ b \in S /\ c \in Int /\ e \in Int
  /\ \A x \in S : f[x] \in Int
  /\ \A x \in S : g[x] = f[x] + (IF x = a THEN c ELSE 0) - (IF x = b THEN e ELSE 0)

\* Then the sum grows by the one and shrinks by the other.
LEMMA SumMoves ==
  ASSUME NEW S, NEW f, NEW g, NEW a, NEW b, NEW c, NEW e, Moves(g, f, a, c, b, e, S)
  PROVE  SumFunctionOnSet(g, S) = SumFunctionOnSet(f, S) + c - e
<1> DEFINE in == [x \in S |-> IF x = a THEN c ELSE 0]
           out == [x \in S |-> IF x = b THEN -e ELSE 0]
           mid == [x \in S |-> f[x] + in[x]]
<1>1. /\ IsFiniteSet(S) /\ a \in S /\ b \in S /\ c \in Int /\ e \in Int /\ -e \in Int
      /\ \A x \in S : f[x] \in Int
      /\ \A x \in S : g[x] = f[x] + (IF x = a THEN c ELSE 0) - (IF x = b THEN e ELSE 0)
  BY DEF Moves
<1>2. /\ \A x \in S : in[x] = IF x = a THEN c ELSE 0
      /\ \A x \in S : out[x] = IF x = b THEN -e ELSE 0
      /\ \A x \in S : mid[x] = f[x] + in[x]
  OBVIOUS
<1> HIDE DEF in, out, mid
<1>3. \A x \in S : in[x] \in Int /\ out[x] \in Int /\ mid[x] \in Int
  BY <1>1, <1>2
<1>4. \A x \in S : g[x] = mid[x] + out[x]
  BY <1>1, <1>2
<1>5. SumFunctionOnSet(mid, S) = SumFunctionOnSet(f, S) + SumFunctionOnSet(in, S)
  BY <1>1, <1>2, <1>3, SumPlus
<1>6. SumFunctionOnSet(g, S) = SumFunctionOnSet(mid, S) + SumFunctionOnSet(out, S)
  BY <1>1, <1>3, <1>4, SumPlus
<1>7. SumFunctionOnSet(in, S) = c
  BY <1>1, <1>2, SumOne
<1>8. SumFunctionOnSet(out, S) = -e
  BY <1>1, <1>2, SumOne
<1>9. SumFunctionOnSet(f, S) \in Int
  BY <1>1, SumType
<1> QED BY <1>1, <1>5, <1>6, <1>7, <1>8, <1>9

-----------------------------------------------------------------------------
(* Queues *)

\* One turn of the loop over a queue: what is kept of its first m entries.
Turn(queue, ids, g, m) ==
  IF m = 0 THEN <<>>
  ELSE IF queue[m] \in ids THEN Append(g[m - 1], queue[m]) ELSE g[m - 1]

\* g holds what is kept of each of the first n entries of the queue.
KeepsUpTo(queue, ids, g, n) == g = [m \in 0..n |-> Turn(queue, ids, g, m)]

\* There is such a g for every n.
LEMMA SomeKeeps ==
  ASSUME NEW queue, NEW ids, NEW n \in Nat
  PROVE  \E g : KeepsUpTo(queue, ids, g, n)
<1> DEFINE Good == {k \in Nat : \E g : KeepsUpTo(queue, ids, g, k)}
<1>1. 0 \in Good
  <2> DEFINE g == [m \in 0..0 |-> <<>>]
  <2>1. KeepsUpTo(queue, ids, g, 0)
    <3>1. g = [m \in 0..0 |-> Turn(queue, ids, g, m)]
      BY DEF Turn
    <3> QED BY <3>1 DEF KeepsUpTo
  <2> QED BY <2>1
<1>2. ASSUME NEW k \in Good PROVE k + 1 \in Good
  <2>1. PICK g : g = [m \in 0..k |-> Turn(queue, ids, g, m)]
    BY <1>2 DEF KeepsUpTo
  <2>2. k \in Nat
    BY <1>2
  <2> DEFINE h == [m \in 0..(k + 1) |-> IF m = k + 1 THEN Turn(queue, ids, g, m) ELSE g[m]]
  <2>3. ASSUME NEW m \in 0..(k + 1) PROVE h[m] = Turn(queue, ids, h, m)
    <3>1. m # 0 => m - 1 \in 0..k /\ h[m - 1] = g[m - 1]
      BY <2>2
    <3>2. Turn(queue, ids, h, m) = Turn(queue, ids, g, m)
      BY <3>1 DEF Turn
    <3>3. m # k + 1 => h[m] = g[m] /\ g[m] = Turn(queue, ids, g, m)
      <4>1. m # k + 1 => m \in 0..k
        BY <2>2
      <4> QED BY <2>1, <4>1
    <3> QED BY <3>2, <3>3
  <2>4. h = [m \in 0..(k + 1) |-> Turn(queue, ids, h, m)]
    <3> DEFINE turns == [m \in 0..(k + 1) |-> Turn(queue, ids, h, m)]
    <3>1. \A m \in 0..(k + 1) : h[m] = turns[m]
      BY <2>3
    <3>2. h = [m \in 0..(k + 1) |-> h[m]] /\ turns = [m \in 0..(k + 1) |-> turns[m]]
      OBVIOUS
    <3> HIDE DEF h, turns
    <3>3. h = turns
      BY <3>1, <3>2
    <3> QED BY <3>3 DEF turns
  <2> HIDE DEF h
  <2>5. KeepsUpTo(queue, ids, h, k + 1)
    BY <2>4 DEF KeepsUpTo
  <2>6. k + 1 \in Nat /\ \E f : KeepsUpTo(queue, ids, f, k + 1)
    BY <2>2, <2>5
  <2> QED BY <2>6
<1> HIDE DEF Good
<1>3. Good = Nat
  <2>1. Good \in SUBSET Nat
    BY DEF Good
  <2> QED BY <1>1, <1>2, <2>1, InductionOnNat
<1> QED BY <1>3 DEF Good

\* r keeps, in order, the entries of queue up to n that are in ids.
Picks(queue, ids, r, n) ==
  \E pos \in [1..Len(r) -> 1..n] :
    /\ \A k \in 1..Len(r) : r[k] = queue[pos[k]] /\ r[k] \in ids
    /\ \A k, l \in 1..Len(r) : k < l => pos[k] < pos[l]
    /\ \A m \in 1..n : queue[m] \in ids => \E k \in 1..Len(r) : pos[k] = m

\* Picking goes on with one more entry.
LEMMA PicksMore ==
  ASSUME NEW T, NEW queue \in Seq(T), NEW ids, NEW n \in Nat, n < Len(queue),
         NEW r \in Seq(T), Picks(queue, ids, r, n), queue[n + 1] \in ids
  PROVE  Append(r, queue[n + 1]) \in Seq(T)
         /\ Picks(queue, ids, Append(r, queue[n + 1]), n + 1)
<1> DEFINE x == queue[n + 1]
           more == Append(r, x)
<1>1. x \in T
  BY ElementOfSeq
<1>2. PICK pos \in [1..Len(r) -> 1..n] :
        /\ \A k \in 1..Len(r) : r[k] = queue[pos[k]] /\ r[k] \in ids
        /\ \A k, l \in 1..Len(r) : k < l => pos[k] < pos[l]
        /\ \A m \in 1..n : queue[m] \in ids => \E k \in 1..Len(r) : pos[k] = m
  BY DEF Picks
<1> HIDE DEF x
<1>3. more \in Seq(T) /\ Len(more) = Len(r) + 1 /\ more[Len(r) + 1] = x
      /\ \A k \in 1..Len(r) : more[k] = r[k]
  BY <1>1
<1> HIDE DEF more
<1> DEFINE at == [k \in 1..Len(more) |-> IF k = Len(r) + 1 THEN n + 1 ELSE pos[k]]
<1>4. Len(r) \in Nat
  OBVIOUS
<1>5. at \in [1..Len(more) -> 1..(n + 1)]
  <2>1. ASSUME NEW k \in 1..Len(more) PROVE at[k] \in 1..(n + 1)
    <3>1. k = Len(r) + 1 \/ k \in 1..Len(r)
      BY <1>3, <1>4
    <3>2. k \in 1..Len(r) => pos[k] \in 1..n
      BY <1>2
    <3> QED BY <3>1, <3>2, <1>4
  <2> QED BY <2>1
<1>6. \A k \in 1..Len(more) : more[k] = queue[at[k]] /\ more[k] \in ids
  <2>1. TAKE k \in 1..Len(more)
  <2>2. CASE k = Len(r) + 1
    BY <2>2, <1>3 DEF x
  <2>3. CASE k \in 1..Len(r)
    <3>1. k # Len(r) + 1
      BY <2>3, <1>4
    <3>2. at[k] = pos[k]
      BY <3>1
    <3>3. more[k] = r[k] /\ r[k] = queue[pos[k]] /\ r[k] \in ids
      BY <2>3, <1>2, <1>3
    <3> QED BY <3>2, <3>3
  <2> QED BY <2>2, <2>3, <1>3, <1>4
<1>7. \A k, l \in 1..Len(more) : k < l => at[k] < at[l]
  <2>1. TAKE k, l \in 1..Len(more)
  <2>2. HAVE k < l
  <2>3. k \in 1..Len(r) /\ at[k] = pos[k] /\ pos[k] \in 1..n
    <3>1. k \in 1..Len(r) /\ k # Len(r) + 1
      BY <2>2, <1>3, <1>4
    <3>2. pos[k] \in 1..n
      BY <3>1, <1>2
    <3> QED BY <3>1, <3>2
  <2>4. CASE l = Len(r) + 1
    BY <2>3, <2>4
  <2>5. CASE l \in 1..Len(r)
    BY <2>2, <2>3, <2>5, <1>2, <1>4
  <2> QED BY <2>4, <2>5, <1>3, <1>4
<1>8. \A m \in 1..(n + 1) : queue[m] \in ids => \E k \in 1..Len(more) : at[k] = m
  <2>1. TAKE m \in 1..(n + 1)
  <2>2. HAVE queue[m] \in ids
  <2>3. CASE m = n + 1
    <3>1. Len(r) + 1 \in 1..Len(more) /\ at[Len(r) + 1] = n + 1
      BY <1>3, <1>4
    <3> QED BY <2>3, <3>1
  <2>4. CASE m \in 1..n
    <3>1. PICK k \in 1..Len(r) : pos[k] = m
      BY <1>2, <2>2, <2>4
    <3>2. k \in 1..Len(more) /\ at[k] = m
      BY <3>1, <1>3, <1>4
    <3> QED BY <3>2
  <2> QED BY <2>3, <2>4
<1> HIDE DEF at
<1> QED BY <1>3, <1>5, <1>6, <1>7, <1>8 DEF Picks, more, x

\* Picking passes over an entry that is not in ids.
LEMMA PicksSame ==
  ASSUME NEW T, NEW queue \in Seq(T), NEW ids, NEW n \in Nat,
         NEW r \in Seq(T), Picks(queue, ids, r, n), queue[n + 1] \notin ids
  PROVE  Picks(queue, ids, r, n + 1)
<1>1. PICK pos \in [1..Len(r) -> 1..n] :
        /\ \A k \in 1..Len(r) : r[k] = queue[pos[k]] /\ r[k] \in ids
        /\ \A k, l \in 1..Len(r) : k < l => pos[k] < pos[l]
        /\ \A m \in 1..n : queue[m] \in ids => \E k \in 1..Len(r) : pos[k] = m
  BY DEF Picks
<1>2. pos \in [1..Len(r) -> 1..(n + 1)]
  BY <1>1
<1>3. \A m \in 1..(n + 1) : queue[m] \in ids => \E k \in 1..Len(r) : pos[k] = m
  <2>1. \A m \in 1..(n + 1) : m = n + 1 \/ m \in 1..n
    OBVIOUS
  <2> QED BY <1>1, <2>1
<1> QED BY <1>1, <1>2, <1>3 DEF Picks

\* The entries of a queue; whether they ascend, or are at least all different.
Ids(queue) == {queue[k] : k \in 1..Len(queue)}

Ordered(queue, ascending) ==
  \A k, l \in 1..Len(queue) :
    k < l => IF ascending THEN queue[k] < queue[l] ELSE queue[k] # queue[l]

\* Taking the head of a queue.
LEMMA TailQueue ==
  ASSUME NEW T, NEW queue \in Seq(T), queue # <<>>
  PROVE  /\ Tail(queue) \in Seq(T) /\ Head(queue) \in Ids(queue)
         /\ Ids(queue) = Ids(Tail(queue)) \cup {Head(queue)}
         /\ \A ascending : Ordered(queue, ascending) => Ordered(Tail(queue), ascending)
<1>1. /\ Tail(queue) \in Seq(T) /\ Len(Tail(queue)) = Len(queue) - 1 /\ Len(queue) \in Nat \ {0}
      /\ \A k \in 1..Len(Tail(queue)) : Tail(queue)[k] = queue[k + 1]
      /\ Head(queue) = queue[1]
  OBVIOUS
<1>2. Ids(queue) = Ids(Tail(queue)) \cup {Head(queue)}
  <2>1. ASSUME NEW k \in 1..Len(queue) PROVE queue[k] \in Ids(Tail(queue)) \cup {Head(queue)}
    <3>1. CASE k = 1
      BY <1>1, <3>1
    <3>2. CASE k # 1
      <4>1. k - 1 \in 1..Len(Tail(queue)) /\ Tail(queue)[k - 1] = queue[k]
        BY <1>1, <3>2
      <4> QED BY <4>1 DEF Ids
    <3> QED BY <3>1, <3>2
  <2>2. ASSUME NEW k \in 1..Len(Tail(queue)) PROVE Tail(queue)[k] \in Ids(queue)
    <3>1. k + 1 \in 1..Len(queue) /\ Tail(queue)[k] = queue[k + 1]
      BY <1>1
    <3> QED BY <3>1 DEF Ids
  <2>3. Head(queue) \in Ids(queue)
    <3>1. 1 \in 1..Len(queue)
      BY <1>1
    <3> QED BY <1>1, <3>1 DEF Ids
  <2> QED BY <2>1, <2>2, <2>3 DEF Ids
<1>3. ASSUME NEW ascending, Ordered(queue, ascending) PROVE Ordered(Tail(queue), ascending)
  <2> SUFFICES ASSUME NEW k \in 1..Len(Tail(queue)), NEW l \in 1..Len(Tail(queue)), k < l
               PROVE  IF ascending THEN Tail(queue)[k] < Tail(queue)[l]
                                   ELSE Tail(queue)[k] # Tail(queue)[l]
    BY DEF Ordered
  <2>1. k + 1 \in 1..Len(queue) /\ l + 1 \in 1..Len(queue) /\ k + 1 < l + 1
    BY <1>1
  <2>2. Tail(queue)[k] = queue[k + 1] /\ Tail(queue)[l] = queue[l + 1]
    BY <1>1
  <2> QED BY <1>3, <2>1, <2>2 DEF Ordered
<1> QED BY <1>1, <1>2, <1>3

\* The head of an ordered queue comes before the others, and is none of them.
LEMMA HeadFirst ==
  ASSUME NEW queue \in Seq(Nat), queue # <<>>, NEW ascending \in BOOLEAN, Ordered(queue, ascending)
  PROVE  /\ Head(queue) \notin Ids(Tail(queue))
         /\ ascending => \A x \in Ids(Tail(queue)) : Head(queue) < x
<1>1. /\ Len(Tail(queue)) = Len(queue) - 1 /\ Len(queue) \in Nat \ {0}
      /\ \A k \in 1..Len(Tail(queue)) : Tail(queue)[k] = queue[k + 1]
      /\ Head(queue) = queue[1]
  OBVIOUS
<1>2. ASSUME NEW k \in 1..Len(Tail(queue))
      PROVE  Head(queue) # Tail(queue)[k] /\ (ascending => Head(queue) < Tail(queue)[k])
  <2>1. 1 \in 1..Len(queue) /\ k + 1 \in 1..Len(queue) /\ 1 < k + 1
    BY <1>1
  <2>2. queue[1] \in Nat /\ queue[k + 1] \in Nat
    BY <2>1, ElementOfSeq
  <2> QED BY <1>1, <2>1, <2>2 DEF Ordered
<1> QED BY <1>2 DEF Ids

\* A number above all entries of a queue is appended.
LEMMA AppendQueue ==
  ASSUME NEW T \in SUBSET Nat, NEW queue \in Seq(T), NEW x \in T, \A y \in Ids(queue) : y < x
  PROVE  /\ Append(queue, x) \in Seq(T)
         /\ Ids(Append(queue, x)) = Ids(queue) \cup {x}
         /\ \A ascending \in BOOLEAN :
              Ordered(queue, ascending) => Ordered(Append(queue, x), ascending)
<1> DEFINE more == Append(queue, x)
<1>1. /\ more \in Seq(T) /\ Len(more) = Len(queue) + 1 /\ more[Len(queue) + 1] = x
      /\ \A k \in 1..Len(queue) : more[k] = queue[k]
      /\ Len(queue) \in Nat
  OBVIOUS
<1> HIDE DEF more
<1>2. \A k \in 1..Len(more) : k = Len(queue) + 1 \/ k \in 1..Len(queue)
  BY <1>1
<1>3. Ids(more) = Ids(queue) \cup {x}
  <2>1. Ids(more) \subseteq Ids(queue) \cup {x}
    BY <1>1, <1>2 DEF Ids
  <2>2. Ids(queue) \subseteq Ids(more) /\ x \in Ids(more)
    <3>1. 1..Len(queue) \subseteq 1..Len(more) /\ Len(queue) + 1 \in 1..Len(more)
      BY <1>1
    <3> QED BY <1>1, <3>1 DEF Ids
  <2> QED BY <2>1, <2>2
<1>4. ASSUME NEW ascending \in BOOLEAN, Ordered(queue, ascending) PROVE Ordered(more, ascending)
  <2> SUFFICES ASSUME NEW k \in 1..Len(more), NEW l \in 1..Len(more), k < l
               PROVE  IF ascending THEN more[k] < more[l] ELSE more[k] # more[l]
    BY DEF Ordered
  <2>1. k \in 1..Len(queue)
    BY <1>1
  <2>2. CASE l \in 1..Len(queue)
    BY <1>1, <1>4, <2>1, <2>2 DEF Ordered
  <2>3. CASE l = Len(queue) + 1
    <3>1. queue[k] \in Ids(queue) /\ queue[k] \in Nat
      BY <2>1, ElementOfSeq DEF Ids
    <3>2. queue[k] < x /\ more[k] = queue[k] /\ more[l] = x /\ x \in Nat
      BY <1>1, <2>1, <2>3, <3>1
    <3>3. more[k] < more[l] /\ more[k] # more[l]
      BY <3>1, <3>2
    <3> QED BY <3>3
  <2> QED BY <1>2, <2>2, <2>3
<1> QED BY <1>1, <1>3, <1>4 DEF more
=============================================================================
