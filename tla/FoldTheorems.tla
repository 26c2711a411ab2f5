---------------------------- MODULE FoldTheorems ----------------------------
(***************************************************************************)
(* The community modules define a fold as the value CHOOSEn among the      *)
(* functions that satisfy its recursion.  Here: there is such a function,  *)
(* whatever operation Op is folded and whatever chooses the next element,  *)
(* so that a fold over a finite set, or over a sequence, is computed step  *)
(* by step.  A proof module takes the lemmas by INSTANCE ... WITH Op <-    *)
(* the operation of its own fold.                                          *)
(***************************************************************************)
EXTENDS Integers, FiniteSets, FiniteSetTheorems, WellFoundedInduction, TLAPS

CONSTANT Op(_, _)  \* the operation, on the accumulated value and an argument

\* f folds the arguments arg[x] for the elements x of every subset of S.
IsFold(f, S, pick, arg, base) ==
    f = [s \in SUBSET S |->
            IF s = {} THEN base ELSE Op(f[s \ {pick[s]}], arg[pick[s]])]

\* h[k] is what the first k arguments are folded to.
IsChain(h, n, arg, base) ==
    h[0] = base /\ \A k \in 1 .. n : h[k] = Op(h[k - 1], arg[k])

Largest(S) == CHOOSE x \in S : \A y \in S : x >= y
-----------------------------------------------------------------------------
(***************************************************************************)
(* Induction, for the elements of a set instead of a predicate.            *)
(***************************************************************************)
LEMMA NaturalInduction ==
    ASSUME NEW T, 0 \in T, \A n \in Nat : n \in T => n + 1 \in T
    PROVE  \A n \in Nat : n \in T
<1> SUFFICES ASSUME NEW n \in Nat, n \notin T PROVE FALSE
    OBVIOUS
<1> DEFINE U == {1 .. m : m \in Nat \ T}
<1>1. U \subseteq FiniteSubsetsOf(Nat) /\ U # {}
    <2>1. \A m \in Nat : IsFiniteSet(1 .. m) /\ 1 .. m \in SUBSET Nat
        BY FS_Interval
    <2> QED BY <2>1 DEF FiniteSubsetsOf
<1>2. PICK u \in U : \A v \in U : ~(<<v, u>> \in StrictSubsetOrdering(Nat))
    BY <1>1, FS_StrictSubsetOrderingWellFounded, WFMin
<1>3. PICK m \in Nat \ T : u = 1 .. m
    OBVIOUS
<1>4. m # 0 /\ m - 1 \in Nat \ T
    BY <1>3
<1>5. 1 .. (m - 1) \in U
    BY <1>4
<1>6. <<1 .. (m - 1), 1 .. m>> \in StrictSubsetOrdering(Nat)
    <2>1. 1 .. (m - 1) \subseteq 1 .. m /\ m \in 1 .. m /\ m \notin 1 .. (m - 1)
        BY <1>4
    <2>2. 1 .. (m - 1) \in SUBSET Nat /\ 1 .. m \in SUBSET Nat
        BY <1>4
    <2> QED BY <2>1, <2>2 DEF StrictSubsetOrdering
<1> QED BY <1>2, <1>3, <1>5, <1>6

LEMMA FiniteInduction ==
    ASSUME NEW S, IsFiniteSet(S), NEW T, {} \in T,
           \A s \in SUBSET S : \A x \in S \ s : s \in T => s \cup {x} \in T
    PROVE  S \in T
<1> DEFINE N == {n \in Nat : \A s \in SUBSET S : Cardinality(s) = n => s \in T}
<1>1. 0 \in N
    BY FS_EmptySet, FS_Subset
<1>2. \A n \in Nat : n \in N => n + 1 \in N
    <2> SUFFICES ASSUME NEW n \in Nat, n \in N, NEW s \in SUBSET S, Cardinality(s) = n + 1
                 PROVE  s \in T
        OBVIOUS
    <2>1. IsFiniteSet(s) /\ s # {}
        BY FS_Subset, FS_EmptySet
    <2>2. PICK x \in s : TRUE
        BY <2>1
    <2>3. Cardinality(s \ {x}) = n
        <3>1. Cardinality(s \ {x}) = Cardinality(s) - 1
            BY <2>1, <2>2, FS_RemoveElement
        <3> QED BY <3>1
    <2>4. s \ {x} \in T /\ x \in S \ (s \ {x}) /\ s = (s \ {x}) \cup {x}
        BY <2>3
    <2> QED BY <2>4
<1> HIDE DEF N
<1>3. \A n \in Nat : n \in N
    BY <1>1, <1>2, NaturalInduction
<1>4. Cardinality(S) \in N
    BY <1>3, FS_CardinalityType
<1> QED BY <1>4 DEF N

LEMMA LargestOfRange ==
    ASSUME NEW n \in Nat, NEW k \in 1 .. n
    PROVE  Largest(1 .. k) = k /\ (1 .. k) \ {k} = 1 .. k - 1
BY DEF Largest

\* Sets of numbers from 1 to n have a largest element.
LEMMA LargestExists ==
    ASSUME NEW n \in Nat, NEW s \in SUBSET (1 .. n), s # {}
    PROVE  Largest(s) \in s
<1> DEFINE T == {m \in Nat : \A r \in SUBSET (1 .. m) :
                     r # {} => \E x \in r : \A y \in r : x >= y}
<1>1. 0 \in T
    <2>1. 1 .. 0 = {}
        OBVIOUS
    <2> QED BY <2>1
<1>2. \A m \in Nat : m \in T => m + 1 \in T
    <2> SUFFICES ASSUME NEW m \in Nat, m \in T, NEW r \in SUBSET (1 .. m + 1), r # {}
                 PROVE  \E x \in r : \A y \in r : x >= y
        OBVIOUS
    <2>1. CASE m + 1 \in r
        BY <2>1
    <2>2. CASE m + 1 \notin r
        <3>1. r \in SUBSET (1 .. m)
            BY <2>2
        <3> QED BY <3>1
    <2> QED BY <2>1, <2>2
<1> HIDE DEF T
<1>3. n \in T
    BY <1>1, <1>2, NaturalInduction
<1>4. \E x \in s : \A y \in s : x >= y
    BY <1>3 DEF T
<1> QED BY <1>4 DEF Largest

-----------------------------------------------------------------------------
(***************************************************************************)
(* There is a fold over every finite set.                                  *)
(***************************************************************************)
LEMMA FoldExists ==
    ASSUME NEW S, IsFiniteSet(S), NEW pick, \A s \in SUBSET S : s # {} => pick[s] \in s,
           NEW arg, NEW base
    PROVE  \E f : IsFold(f, S, pick, arg, base)
<1> DEFINE Small(n) == {s \in SUBSET S : Cardinality(s) <= n}
           Value(f, s) == IF s = {} THEN base ELSE Op(f[s \ {pick[s]}], arg[pick[s]])
           Has(n) == \E f : f = [s \in Small(n) |-> Value(f, s)]
           N == {n \in Nat : Has(n)}
<1>1. \A s \in SUBSET S : IsFiniteSet(s) /\ Cardinality(s) \in Nat /\ Cardinality(s) <= Cardinality(S)
    BY FS_Subset, FS_CardinalityType
<1>2. \A s \in SUBSET S : s # {} =>
          s \ {pick[s]} \in SUBSET S /\ Cardinality(s \ {pick[s]}) = Cardinality(s) - 1
    BY <1>1, FS_RemoveElement
<1>3. 0 \in N
    <2> DEFINE f == [s \in Small(0) |-> base]
    <2>1. \A s \in Small(0) : s = {}
        BY <1>1, FS_EmptySet
    <2>2. f = [s \in Small(0) |-> Value(f, s)]
        BY <2>1
    <2> QED BY <2>2
<1>4. \A n \in Nat : n \in N => n + 1 \in N
    <2> SUFFICES ASSUME NEW n \in Nat, Has(n) PROVE Has(n + 1)
        <3> HIDE DEF Has
        <3> QED OBVIOUS
    <2>1. PICK f : f = [s \in Small(n) |-> Value(f, s)]
        OBVIOUS
    <2> DEFINE g == [s \in Small(n + 1) |-> Value(f, s)]
    <2>2. ASSUME NEW s \in Small(n + 1), s # {}
          PROVE  g[s \ {pick[s]}] = f[s \ {pick[s]}]
        <3> DEFINE t == s \ {pick[s]}
        <3>1. t \in Small(n) /\ t \in Small(n + 1)
            BY <1>1, <1>2, <2>2
        <3> HIDE DEF t, Value, Small
        <3>2. f[t] = Value(f, t)
            BY <2>1, <3>1
        <3>3. g[t] = Value(f, t)
            BY <3>1
        <3> QED BY <3>2, <3>3 DEF t
    <2>3. ASSUME NEW s \in Small(n + 1) PROVE Value(g, s) = Value(f, s)
        <3>1. CASE s = {}
            BY <3>1
        <3>2. CASE s # {}
            <4>1. g[s \ {pick[s]}] = f[s \ {pick[s]}]
                BY <2>2, <3>2
            <4> HIDE DEF g
            <4> QED BY <3>2, <4>1
        <3> QED BY <3>1, <3>2
    <2>4. g = [s \in Small(n + 1) |-> Value(g, s)]
        <3> HIDE DEF Value, Small
        <3> QED BY <2>3
    <2> HIDE DEF g
    <2> QED BY <2>4
<1> HIDE DEF N
<1>5. \A n \in Nat : n \in N
    BY <1>3, <1>4, NaturalInduction
<1>6. Cardinality(S) \in N
    BY <1>1, <1>5
<1>7. Small(Cardinality(S)) = SUBSET S
    BY <1>1
<1> QED BY <1>6, <1>7 DEF N, IsFold

(***************************************************************************)
(* The fold that is chosen is one: it is computed by the recursion.        *)
(***************************************************************************)
LEMMA FoldComputes ==
    ASSUME NEW S, IsFiniteSet(S), NEW pick, \A s \in SUBSET S : s # {} => pick[s] \in s,
           NEW arg, NEW base
    PROVE  LET f == CHOOSE g : IsFold(g, S, pick, arg, base)
           IN  /\ f[{}] = base
               /\ \A s \in SUBSET S : s # {} => f[s] = Op(f[s \ {pick[s]}], arg[pick[s]])
<1> DEFINE f == CHOOSE g : IsFold(g, S, pick, arg, base)
<1>1. IsFold(f, S, pick, arg, base)
    BY FoldExists
<1> HIDE DEF f
<1>2. /\ f[{}] = base
      /\ \A s \in SUBSET S : s # {} => f[s] = Op(f[s \ {pick[s]}], arg[pick[s]])
    BY <1>1 DEF IsFold
<1> QED BY <1>2 DEF f

(***************************************************************************)
(* Over the indices of a sequence, where FoldLeft takes the largest first, *)
(* a fold has the values of a chain: one step for each argument, in their  *)
(* order.                                                                  *)
(***************************************************************************)
IsIndexFold(f, S, arg, base) ==
    f = [s \in SUBSET S |->
        IF s = {} THEN base ELSE Op(f[s \ {Largest(s)}], arg[Largest(s)])]

FoldOver(S, arg, base) ==
    CHOOSE f : f = [s \in SUBSET S |->
        IF s = {} THEN base ELSE Op(f[s \ {Largest(s)}], arg[Largest(s)])]

\* There is a fold over the indices of a sequence, the last one first, as FoldLeft and
\* FoldSeq have it.
LEMMA IndexFoldExists ==
    ASSUME NEW n \in Nat, NEW arg, NEW base
    PROVE  \E f : IsIndexFold(f, 1 .. n, arg, base)
<1> DEFINE S == 1 .. n
           pick == [s \in SUBSET S |-> Largest(s)]
<1>1. IsFiniteSet(S)
    BY FS_Interval
<1>2. \A s \in SUBSET S : s # {} => Largest(s) \in s
    BY LargestExists
<1> HIDE DEF S
<1>3. \A s \in SUBSET S : s # {} => pick[s] \in s
    BY <1>2
<1>4. \A s \in SUBSET S : pick[s] = Largest(s)
    OBVIOUS
<1> HIDE DEF pick
<1>5. PICK g : IsFold(g, S, pick, arg, base)
    BY <1>1, <1>3, FoldExists
<1>6. IsIndexFold(g, S, arg, base)
    BY <1>4, <1>5 DEF IsFold, IsIndexFold
<1> QED BY <1>6 DEF S

LEMMA IndexFoldIsChain ==
    ASSUME NEW n \in Nat, NEW arg, NEW base, NEW f, IsIndexFold(f, 1 .. n, arg, base)
    PROVE  IsChain([k \in 0 .. n |-> f[1 .. k]], n, arg, base)
<1> DEFINE S == 1 .. n
           h == [k \in 0 .. n |-> f[1 .. k]]
<1>1. h[0] = base
    <2>1. 1 .. 0 = {} /\ {} \in SUBSET S
        OBVIOUS
    <2>2. f[{}] = base
        BY <2>1 DEF IsIndexFold
    <2> QED BY <2>1, <2>2
<1>2. ASSUME NEW k \in 1 .. n PROVE h[k] = Op(h[k - 1], arg[k])
    <2>1. 1 .. k \in SUBSET S /\ 1 .. k # {}
        <3>1. k \in 1 .. k /\ 1 .. k \subseteq 1 .. n
            OBVIOUS
        <3> QED BY <3>1
    <2>2. f[1 .. k] = Op(f[(1 .. k) \ {Largest(1 .. k)}], arg[Largest(1 .. k)])
        <3> HIDE DEF S
        <3> QED BY <2>1 DEF IsIndexFold, S
    <2>3. f[1 .. k] = Op(f[1 .. k - 1], arg[k])
        BY <2>2, LargestOfRange
    <2>4. k \in 0 .. n /\ k - 1 \in 0 .. n
        OBVIOUS
    <2> QED BY <2>3, <2>4
<1> HIDE DEF h
<1> QED BY <1>1, <1>2 DEF IsChain, h

\* A fold over the indices 1 .. n is computed from the first argument to the last.
LEMMA FoldIsChain ==
    ASSUME NEW n \in Nat, NEW arg, NEW base
    PROVE  \E h : IsChain(h, n, arg, base) /\ FoldOver(1 .. n, arg, base)[1 .. n] = h[n]
<1> DEFINE f == FoldOver(1 .. n, arg, base)
           Is(g) == IsIndexFold(g, 1 .. n, arg, base)
<1>1. \E g : Is(g)
    BY IndexFoldExists
<1>2. Is(CHOOSE g : Is(g))
    <2> HIDE DEF Is
    <2> QED BY <1>1
<1>3. f = CHOOSE g : Is(g)
    BY DEF FoldOver, IsIndexFold
<1>4. IsIndexFold(f, 1 .. n, arg, base)
    BY <1>2, <1>3
<1> HIDE DEF f
<1>5. IsChain([k \in 0 .. n |-> f[1 .. k]], n, arg, base)
    BY <1>4, IndexFoldIsChain
<1>6. [k \in 0 .. n |-> f[1 .. k]][n] = f[1 .. n]
    OBVIOUS
<1> QED BY <1>5, <1>6 DEF f

\* Chains agree as long as their arguments do.
LEMMA ChainsAgree ==
    ASSUME NEW n \in Nat, NEW g, NEW h, NEW a, NEW b, NEW base,
           IsChain(g, n, a, base), IsChain(h, n, b, base), \A k \in 1 .. n : a[k] = b[k]
    PROVE  \A k \in 0 .. n : g[k] = h[k]
<1> DEFINE T == {k \in Nat : k <= n => g[k] = h[k]}
<1>1. 0 \in T
    BY DEF IsChain
<1>2. \A k \in Nat : k \in T => k + 1 \in T
    <2> SUFFICES ASSUME NEW k \in Nat, k \in T, k + 1 <= n PROVE g[k + 1] = h[k + 1]
        OBVIOUS
    <2>1. k + 1 \in 1 .. n /\ (k + 1) - 1 = k /\ g[k] = h[k]
        OBVIOUS
    <2> QED BY <2>1 DEF IsChain
<1> HIDE DEF T
<1>3. \A k \in Nat : k \in T
    BY <1>1, <1>2, NaturalInduction
<1> QED BY <1>3 DEF T

\* One argument more: one step more.
LEMMA FoldOneMore ==
    ASSUME NEW n \in Nat, NEW a, NEW b, NEW base, \A k \in 1 .. n : a[k] = b[k]
    PROVE  FoldOver(1 .. n + 1, b, base)[1 .. n + 1]
               = Op(FoldOver(1 .. n, a, base)[1 .. n], b[n + 1])
<1>1. PICK g : IsChain(g, n, a, base) /\ FoldOver(1 .. n, a, base)[1 .. n] = g[n]
    BY FoldIsChain
<1>2. PICK h : IsChain(h, n + 1, b, base) /\ FoldOver(1 .. n + 1, b, base)[1 .. n + 1] = h[n + 1]
    BY n + 1 \in Nat, FoldIsChain
<1>3. IsChain(h, n, b, base) /\ n + 1 \in 1 .. n + 1 /\ (n + 1) - 1 = n
    BY <1>2 DEF IsChain
<1>4. h[n] = g[n]
    BY <1>1, <1>3, ChainsAgree
<1>5. h[n + 1] = Op(h[n], b[n + 1])
    BY <1>2, <1>3 DEF IsChain
<1> QED BY <1>1, <1>2, <1>4, <1>5

\* The fold over no index is the base.
LEMMA FoldOfNothing ==
    ASSUME NEW a, NEW base PROVE FoldOver({}, a, base)[{}] = base
<1>1. PICK g : IsChain(g, 0, a, base) /\ FoldOver(1 .. 0, a, base)[1 .. 0] = g[0]
    BY FoldIsChain
<1>2. 1 .. 0 = {}
    OBVIOUS
<1> QED BY <1>1, <1>2 DEF IsChain

(***************************************************************************)
(* A fold stays in a set that its operation does not leave.                *)
(***************************************************************************)
LEMMA FoldStays ==
    ASSUME NEW n \in Nat, NEW arg, NEW base, NEW V, base \in V,
           \A v \in V, k \in 1 .. n : Op(v, arg[k]) \in V
    PROVE  FoldOver(1 .. n, arg, base)[1 .. n] \in V
<1>1. PICK h : IsChain(h, n, arg, base) /\ FoldOver(1 .. n, arg, base)[1 .. n] = h[n]
    BY FoldIsChain
<1> DEFINE T == {k \in Nat : k <= n => h[k] \in V}
<1>2. 0 \in T
    BY <1>1 DEF IsChain
<1>3. \A k \in Nat : k \in T => k + 1 \in T
    <2> SUFFICES ASSUME NEW k \in Nat, k \in T, k + 1 <= n PROVE h[k + 1] \in V
        OBVIOUS
    <2>1. k + 1 \in 1 .. n /\ (k + 1) - 1 = k /\ h[k] \in V
        OBVIOUS
    <2> QED BY <1>1, <2>1 DEF IsChain
<1> HIDE DEF T
<1>4. \A k \in Nat : k \in T
    BY <1>2, <1>3, NaturalInduction
<1> QED BY <1>1, <1>4 DEF T
-----------------------------------------------------------------------------
(***************************************************************************)
(* FlattenSeq starts with the first argument instead of a base: f[i] is    *)
(* what the first i arguments are folded to.                               *)
(***************************************************************************)
IsRunning(f, n, arg) ==
    f = [i \in 1 .. n |-> IF i = 1 THEN arg[i] ELSE Op(f[i - 1], arg[i])]

\* There is a sequence of running results: what the first i arguments are folded to.
LEMMA RunningExists ==
    ASSUME NEW n \in Nat \ {0}, NEW arg PROVE \E f : IsRunning(f, n, arg)
<1> DEFINE rest == [k \in 1 .. n - 1 |-> arg[k + 1]]
<1>1. PICK h : IsChain(h, n - 1, rest, arg[1])
    BY n - 1 \in Nat, FoldIsChain
<1> DEFINE f == [i \in 1 .. n |-> h[i - 1]]
<1>2. ASSUME NEW i \in 1 .. n
      PROVE  f[i] = IF i = 1 THEN arg[i] ELSE Op(f[i - 1], arg[i])
    <2>1. CASE i = 1
        BY <1>1, <2>1 DEF IsChain
    <2>2. CASE i # 1
        <3>1. i - 1 \in 1 .. n - 1 /\ i - 1 \in 1 .. n /\ (i - 1) + 1 = i
            BY <2>2
        <3>2. rest[i - 1] = arg[i] /\ f[i] = h[i - 1] /\ f[i - 1] = h[(i - 1) - 1]
            BY <3>1
        <3>3. h[i - 1] = Op(h[(i - 1) - 1], rest[i - 1])
            <4> HIDE DEF rest
            <4> QED BY <1>1, <3>1 DEF IsChain
        <3> HIDE DEF f, rest
        <3> QED BY <2>2, <3>2, <3>3
    <2> QED BY <2>1, <2>2
<1>3. f = [i \in 1 .. n |-> IF i = 1 THEN arg[i] ELSE Op(f[i - 1], arg[i])]
    BY <1>2
<1> HIDE DEF f
<1> QED BY <1>3 DEF IsRunning

\* It stays in a set like any fold.
LEMMA RunningStays ==
    ASSUME NEW n \in Nat \ {0}, NEW arg, NEW f, IsRunning(f, n, arg), NEW V, arg[1] \in V,
           \A v \in V, k \in 2 .. n : Op(v, arg[k]) \in V
    PROVE  \A i \in 1 .. n : f[i] \in V
<1> DEFINE T == {k \in Nat : k + 1 <= n => f[k + 1] \in V}
<1>1. 0 \in T
    BY DEF IsRunning
<1>2. \A k \in Nat : k \in T => k + 1 \in T
    <2> SUFFICES ASSUME NEW k \in Nat, k \in T, (k + 1) + 1 <= n PROVE f[(k + 1) + 1] \in V
        OBVIOUS
    <2> DEFINE i == k + 2
    <2>1. i \in 2 .. n /\ i \in 1 .. n /\ i # 1 /\ i - 1 = k + 1 /\ (k + 1) + 1 = i /\ f[k + 1] \in V
        OBVIOUS
    <2> HIDE DEF i
    <2> QED BY <2>1 DEF IsRunning
<1> HIDE DEF T
<1>3. \A k \in Nat : k \in T
    BY <1>1, <1>2, NaturalInduction
<1>4. ASSUME NEW i \in 1 .. n PROVE f[i] \in V
    <2>1. i - 1 \in T /\ (i - 1) + 1 = i
        BY <1>3
    <2> QED BY <2>1 DEF T
<1> QED BY <1>4
-----------------------------------------------------------------------------
(***************************************************************************)
(* Over a set, elements are taken in an order that is not known.  Where    *)
(* the order does not matter the value is the same whichever is taken.     *)
(***************************************************************************)
Any(s) == CHOOSE x \in s : TRUE

SetFold(S, arg, base) ==
    CHOOSE f : f = [s \in SUBSET S |->
        IF s = {} THEN base ELSE Op(f[s \ {Any(s)}], arg[Any(s)])]

SetValue(S, arg, base) == SetFold(S, arg, base)[S]

Computes(f, S, arg, base) ==
    /\ f[{}] = base
    /\ \A s \in SUBSET S : s # {} => f[s] = Op(f[s \ {Any(s)}], arg[Any(s)])

LEMMA SetFoldComputes ==
    ASSUME NEW S, IsFiniteSet(S), NEW arg, NEW base
    PROVE  Computes(SetFold(S, arg, base), S, arg, base)
<1> DEFINE pick == [s \in SUBSET S |-> Any(s)]
           Is(g) == g = [s \in SUBSET S |->
                             IF s = {} THEN base ELSE Op(g[s \ {Any(s)}], arg[Any(s)])]
           f == SetFold(S, arg, base)
<1>1. \A s \in SUBSET S : pick[s] = Any(s) /\ (s # {} => pick[s] \in s)
    BY DEF Any
<1>2. \E g : Is(g)
    <2> HIDE DEF pick
    <2>1. PICK g : IsFold(g, S, pick, arg, base)
        BY <1>1, FoldExists
    <2>2. Is(g)
        BY <1>1, <2>1 DEF IsFold
    <2> HIDE DEF Is
    <2> QED BY <2>2
<1>3. Is(f)
    <2>1. f = CHOOSE g : Is(g)
        BY DEF SetFold
    <2> HIDE DEF Is, f
    <2> QED BY <1>2, <2>1
<1> HIDE DEF f
<1>4. /\ f[{}] = base
      /\ \A s \in SUBSET S : s # {} => f[s] = Op(f[s \ {Any(s)}], arg[Any(s)])
    BY <1>3
<1> QED BY <1>4 DEF f, Computes

\* The value over a part of the set does not depend on the rest of it.
LEMMA SetFoldOfPart ==
    ASSUME NEW S, IsFiniteSet(S), NEW U \in SUBSET S, NEW a, NEW b, NEW base,
           \A x \in U : a[x] = b[x]
    PROVE  \A s \in SUBSET U : SetFold(S, a, base)[s] = SetFold(U, b, base)[s]
<1> DEFINE f == SetFold(S, a, base)
           g == SetFold(U, b, base)
           T == {n \in Nat : \A s \in SUBSET U : Cardinality(s) = n => f[s] = g[s]}
<1>1. IsFiniteSet(U) /\ \A s \in SUBSET U : IsFiniteSet(s) /\ Cardinality(s) \in Nat
    BY FS_Subset, FS_CardinalityType
<1>2. /\ f[{}] = base
      /\ \A s \in SUBSET S : s # {} => f[s] = Op(f[s \ {Any(s)}], a[Any(s)])
    BY SetFoldComputes DEF Computes
<1>3. /\ g[{}] = base
      /\ \A s \in SUBSET U : s # {} => g[s] = Op(g[s \ {Any(s)}], b[Any(s)])
    <2>1. Computes(g, U, b, base)
        BY <1>1, SetFoldComputes
    <2> HIDE DEF g
    <2> QED BY <2>1 DEF Computes
<1> HIDE DEF f, g
<1>4. 0 \in T
    <2>1. \A s \in SUBSET U : Cardinality(s) = 0 => s = {}
        BY <1>1, FS_EmptySet
    <2> QED BY <1>2, <1>3, <2>1
<1>5. \A n \in Nat : n \in T => n + 1 \in T
    <2> SUFFICES ASSUME NEW n \in Nat, n \in T, NEW s \in SUBSET U, Cardinality(s) = n + 1
                 PROVE  f[s] = g[s]
        OBVIOUS
    <2>1. s # {}
        BY FS_EmptySet
    <2> DEFINE x == Any(s)
    <2>2. x \in s
        BY <2>1 DEF Any
    <2>3. f[s] = Op(f[s \ {x}], a[x]) /\ g[s] = Op(g[s \ {x}], b[x])
        BY <1>2, <1>3, <2>1
    <2> HIDE DEF x
    <2>4. Cardinality(s \ {x}) = n /\ s \ {x} \in SUBSET U
        <3>1. Cardinality(s \ {x}) = Cardinality(s) - 1
            BY <1>1, <2>2, FS_RemoveElement
        <3> QED BY <3>1
    <2> QED BY <2>2, <2>3, <2>4
<1> HIDE DEF T
<1>6. \A n \in Nat : n \in T
    BY <1>4, <1>5, NaturalInduction
<1>7. ASSUME NEW s \in SUBSET U PROVE f[s] = g[s]
    <2>1. Cardinality(s) \in T
        BY <1>1, <1>6
    <2> QED BY <2>1 DEF T
<1> QED BY <1>7 DEF f, g

\* The operation, on values in V, may be applied to two arguments in either order.
Commutes(V, S, arg) ==
    \A v \in V, x \in S :
        /\ Op(v, arg[x]) \in V
        /\ \A y \in S : Op(Op(v, arg[x]), arg[y]) = Op(Op(v, arg[y]), arg[x])

LEMMA SetFoldAnyOrder ==
    ASSUME NEW S, IsFiniteSet(S), NEW arg, NEW V, NEW base \in V, Commutes(V, S, arg)
    PROVE  LET f == SetFold(S, arg, base)
           IN  \A s \in SUBSET S : f[s] \in V /\ \A x \in s : f[s] = Op(f[s \ {x}], arg[x])
<1> DEFINE f == SetFold(S, arg, base)
           Good(s) == f[s] \in V /\ \A x \in s : f[s] = Op(f[s \ {x}], arg[x])
           T == {n \in Nat : \A s \in SUBSET S : Cardinality(s) <= n => Good(s)}
<1>1. \A s \in SUBSET S : IsFiniteSet(s) /\ Cardinality(s) \in Nat
    BY FS_Subset, FS_CardinalityType
<1>2. /\ f[{}] = base
      /\ \A s \in SUBSET S : s # {} => f[s] = Op(f[s \ {Any(s)}], arg[Any(s)])
    <2>1. Computes(f, S, arg, base)
        BY SetFoldComputes
    <2> HIDE DEF f
    <2> QED BY <2>1 DEF Computes
<1> HIDE DEF f
<1>3. 0 \in T
    <2>1. \A s \in SUBSET S : Cardinality(s) <= 0 => s = {}
        BY <1>1, FS_EmptySet
    <2>2. Good({})
        BY <1>2
    <2> HIDE DEF Good
    <2>3. \A s \in SUBSET S : Cardinality(s) <= 0 => Good(s)
        BY <2>1, <2>2
    <2> DEFINE All(n) == \A s \in SUBSET S : Cardinality(s) <= n => Good(s)
    <2>4. All(0)
        BY <2>3
    <2>5. T = {n \in Nat : All(n)}
        OBVIOUS
    <2> HIDE DEF All, T
    <2> QED BY <2>4, <2>5
<1>4. ASSUME NEW n \in Nat, n \in T, NEW s \in SUBSET S, Cardinality(s) = n + 1 PROVE Good(s)
    <2>1. s # {}
        <3>1. Cardinality(s) # 0
            BY <1>4
        <3> HIDE DEF T, Good
        <3> QED BY <3>1, FS_EmptySet
    <2>0. \A r \in SUBSET S : Cardinality(r) <= n => Good(r)
        BY <1>4
    <2> HIDE DEF T
    <2> DEFINE y == Any(s)
    <2>2. y \in s
        BY <2>1 DEF Any
    <2>3. f[s] = Op(f[s \ {y}], arg[y])
        BY <1>2, <2>1
    <2> HIDE DEF y
    <2>4. ASSUME NEW x \in s PROVE Good(s \ {x})
        <3>1. Cardinality(s \ {x}) = Cardinality(s) - 1
            BY <1>1, <2>4, FS_RemoveElement
        <3>2. Cardinality(s \ {x}) <= n /\ s \ {x} \in SUBSET S
            BY <1>4, <3>1
        <3> HIDE DEF Good
        <3> QED BY <2>0, <3>2
    <2>5. f[s] \in V
        BY <2>2, <2>3, <2>4 DEF Commutes
    <2>6. ASSUME NEW x \in s, x # y PROVE f[s] = Op(f[s \ {x}], arg[x])
        <3> DEFINE r == (s \ {x}) \ {y}
        <3>1. r = (s \ {y}) \ {x} /\ x \in s \ {y} /\ y \in s \ {x}
            BY <2>2, <2>6
        <3>2. f[s \ {y}] = Op(f[r], arg[x]) /\ f[s \ {x}] = Op(f[r], arg[y])
            BY <2>2, <2>4, <2>6, <3>1
        <3> HIDE DEF r
        <3>3. f[r] \in V
            <4>1. Cardinality((s \ {x}) \ {y}) = Cardinality(s \ {x}) - 1
                BY <1>1, <3>1, FS_RemoveElement
            <4>2. Cardinality(s \ {x}) = Cardinality(s) - 1
                BY <1>1, <2>6, FS_RemoveElement
            <4>3. r \in SUBSET S /\ Cardinality(r) \in Nat
                BY <1>1 DEF r
            <4>4. Cardinality(r) <= n
                BY <1>4, <4>1, <4>2 DEF r
            <4> QED BY <2>0, <4>3, <4>4
        <3> QED BY <2>2, <2>3, <2>6, <3>2, <3>3 DEF Commutes
    <2> QED BY <2>3, <2>5, <2>6
<1>5. \A n \in Nat : n \in T => n + 1 \in T
    <2> HIDE DEF Good
    <2> SUFFICES ASSUME NEW n \in Nat, n \in T, NEW s \in SUBSET S, Cardinality(s) <= n + 1
                 PROVE  Good(s)
        OBVIOUS
    <2>1. CASE Cardinality(s) = n + 1
        BY <1>4, <2>1
    <2>2. CASE Cardinality(s) # n + 1
        <3>1. Cardinality(s) <= n
            BY <1>1, <2>2
        <3> QED BY <3>1
    <2> QED BY <2>1, <2>2
<1> HIDE DEF T, Good
<1>6. \A n \in Nat : n \in T
    BY <1>3, <1>5, NaturalInduction
<1>7. ASSUME NEW s \in SUBSET S PROVE Good(s)
    <2>1. Cardinality(s) \in T
        BY <1>1, <1>6
    <2>2. Cardinality(s) <= Cardinality(s)
        BY <1>1
    <2> QED BY <2>1, <2>2 DEF T
<1> QED BY <1>7 DEF Good, f

\* An operation that commutes can be applied to one chosen element last; the rest of the
\* value does not depend on what belongs to that element.
LEMMA SetValueEmpty == ASSUME NEW a, NEW base PROVE SetValue({}, a, base) = base
<1>1. Computes(SetFold({}, a, base), {}, a, base)
    <2>1. IsFiniteSet({})
        BY FS_EmptySet
    <2> QED BY <2>1, SetFoldComputes
<1> QED BY <1>1 DEF Computes, SetValue

LEMMA SetValueCongruent ==
    ASSUME NEW S, IsFiniteSet(S), NEW a, NEW b, NEW base, \A x \in S : a[x] = b[x]
    PROVE  SetValue(S, a, base) = SetValue(S, b, base)
<1>1. \A s \in SUBSET S : SetFold(S, a, base)[s] = SetFold(S, b, base)[s]
    <2>1. S \in SUBSET S
        OBVIOUS
    <2> QED BY <2>1, SetFoldOfPart
<1> QED BY <1>1 DEF SetValue

LEMMA SetValueType ==
    ASSUME NEW S, IsFiniteSet(S), NEW a, NEW V, NEW base \in V, Commutes(V, S, a)
    PROVE  SetValue(S, a, base) \in V
<1>1. \A s \in SUBSET S : SetFold(S, a, base)[s] \in V
    BY SetFoldAnyOrder
<1> QED BY <1>1 DEF SetValue

LEMMA SetValueWithElement ==
    ASSUME NEW S, IsFiniteSet(S), NEW x, x \notin S, NEW a, NEW b, NEW V, NEW base \in V,
           Commutes(V, S \cup {x}, a), \A y \in S : a[y] = b[y]
    PROVE  SetValue(S \cup {x}, a, base) = Op(SetValue(S, b, base), a[x])
<1> DEFINE U == S \cup {x}
<1>1. IsFiniteSet(U)
    BY FS_AddElement
<1>2. \A s \in SUBSET U : \A y \in s :
          SetFold(U, a, base)[s] = Op(SetFold(U, a, base)[s \ {y}], a[y])
    <2>1. Commutes(V, U, a)
        OBVIOUS
    <2> HIDE DEF U
    <2> DEFINE f == SetFold(U, a, base)
    <2>2. \A s \in SUBSET U : f[s] \in V /\ \A y \in s : f[s] = Op(f[s \ {y}], a[y])
        BY <1>1, <2>1, SetFoldAnyOrder
    <2> QED BY <2>2
<1>3. U \ {x} = S /\ U \in SUBSET U /\ x \in U /\ S \in SUBSET U
    OBVIOUS
<1>4. SetFold(U, a, base)[U] = Op(SetFold(U, a, base)[S], a[x])
    <2> HIDE DEF U
    <2> QED BY <1>2, <1>3
<1>5. SetFold(U, a, base)[S] = SetFold(S, b, base)[S]
    <2> HIDE DEF U
    <2>1. S \in SUBSET S
        OBVIOUS
    <2> QED BY <1>1, <1>3, <2>1, SetFoldOfPart
<1> QED BY <1>4, <1>5 DEF SetValue
=============================================================================
