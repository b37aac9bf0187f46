--------------------------- MODULE RecursionProof ---------------------------
(***************************************************************************)
(* Facts that other proofs need and that take induction: recursive         *)
(* functions on an initial segment of the natural numbers have values, and *)
(* what SumFunction and SumFunctionOnSet of the community module Functions *)
(* compute, which are folds: the value is that of a recursive function on  *)
(* the subsets of the index set.  Induction is written as an argument      *)
(* about a smallest counterexample, LeastNat and LeastSubset.              *)
(***************************************************************************)
EXTENDS Functions, Sequences, FiniteSets, WellFoundedInduction, TLAPS

(* A set of natural numbers has a least member.                            *)
LEMMA LeastNat ==
    ASSUME NEW Bad, Bad \subseteq Nat, Bad # {}
    PROVE  \E m \in Bad : \A k \in Bad : m <= k
<1> DEFINE LT == OpToRel(<, Nat)
<1>1. IsWellFoundedOn(LT, Nat)
  BY NatLessThanWellFounded, Zenon
<1>2. \A a, b \in Nat : <<a, b>> \in LT <=> a < b
  BY DEF OpToRel
<1> HIDE DEF LT
<1>3. PICK m \in Bad : \A k \in Bad : ~(<<k, m>> \in LT)
  BY <1>1, WFMin, Zenon
<1>4. \A k \in Bad : ~(k < m)
  BY <1>2, <1>3, Zenon
<1> QED BY <1>4

(* Induction up to n, over a set.                                          *)
LEMMA UpToInduction ==
    ASSUME NEW n \in Nat, NEW H, 0 \in H, \A k \in 1 .. n : k - 1 \in H => k \in H
    PROVE  \A k \in 0 .. n : k \in H
<1> DEFINE Bad == {k \in 0 .. n : k \notin H}
<1>1. Bad \subseteq Nat
  OBVIOUS
<1>2. ASSUME Bad # {} PROVE FALSE
  <2>1. PICK m \in Bad : \A k \in Bad : m <= k
    <3> HIDE DEF Bad
    <3> QED BY <1>1, <1>2, LeastNat, ZenonT(30)
  <2>2. m \in 1 .. n /\ m - 1 \in 0 .. n /\ ~(m <= m - 1)
    OBVIOUS
  <2> QED BY <2>1, <2>2
<1> QED BY <1>2

(* f starts with base and goes from each value to the next with step.      *)
Iterates(f, base, step, n) == f[0] = base /\ \A i \in 1 .. n : f[i] = step[i][f[i - 1]]

(* There is such a function, as long as step does not leave a set.         *)
LEMMA IterationExists ==
    ASSUME NEW X, NEW base \in X, NEW n \in Nat, NEW step,
           \A i \in 1 .. n : \A x \in X : step[i][x] \in X
    PROVE  \E f \in [0 .. n -> X] : Iterates(f, base, step, n)
<1> DEFINE Has(k) == \E f \in [0 .. k -> X] : Iterates(f, base, step, k)
           Bad == {k \in 0 .. n : ~Has(k)}
<1> SUFFICES ASSUME Bad # {} PROVE FALSE
  OBVIOUS
<1>1. PICK m \in Bad : \A k \in Bad : m <= k
  <2>1. Bad \subseteq Nat
    OBVIOUS
  <2> HIDE DEF Bad
  <2> QED BY <2>1, LeastNat, Zenon
<1>2. m # 0
  <2>1. [i \in 0 .. 0 |-> base] \in [0 .. 0 -> X] /\ Iterates([i \in 0 .. 0 |-> base], base, step, 0)
    BY DEF Iterates
  <2> QED BY <2>1, Zenon
<1>3. m - 1 \in 0 .. n /\ m \in 1 .. n /\ Has(m - 1)
  BY <1>1, <1>2
<1>4. PICK f \in [0 .. m - 1 -> X] : Iterates(f, base, step, m - 1)
  BY <1>3
<1> DEFINE g == [i \in 0 .. m |-> IF i = m THEN step[m][f[m - 1]] ELSE f[i]]
<1>5. g \in [0 .. m -> X]
  <2>1. f[m - 1] \in X
    BY <1>3
  <2>2. step[m][f[m - 1]] \in X
    BY <1>3, <2>1
  <2> QED BY <1>3, <2>2
<1>6. Iterates(g, base, step, m)
  <2>1. g[0] = base
    BY <1>3, <1>4 DEF Iterates
  <2>2. ASSUME NEW i \in 1 .. m PROVE g[i] = step[i][g[i - 1]]
    <3>1. CASE i = m
      BY <1>3, <3>1
    <3>2. CASE i # m
      BY <1>3, <1>4, <3>2 DEF Iterates
    <3> QED BY <3>1, <3>2
  <2> HIDE DEF g
  <2> QED BY <2>1, <2>2 DEF Iterates
<1> HIDE DEF g
<1> QED BY <1>1, <1>5, <1>6

-----------------------------------------------------------------------------
(* Finite sets, by the sequence that lists them.                           *)
LEMMA FiniteSubset ==
    ASSUME NEW S, IsFiniteSet(S), NEW T, T \subseteq S
    PROVE  IsFiniteSet(T)
<1>1. PICK s \in Seq(S) : \A x \in S : \E n \in 1 .. Len(s) : s[n] = x
  BY DEF IsFiniteSet
<1>2. CASE T = {}
  <2>1. << >> \in Seq(T)
    OBVIOUS
  <2> QED BY <1>2, <2>1, Zenon DEF IsFiniteSet
<1>3. CASE T # {}
  <2>1. PICK t \in T : TRUE
    BY <1>3
  <2> DEFINE r == [n \in 1 .. Len(s) |-> IF s[n] \in T THEN s[n] ELSE t]
  <2>2. r \in Seq(T) /\ Len(r) = Len(s)
    <3>1. Len(s) \in Nat /\ r \in [1 .. Len(s) -> T]
      BY <1>1
    <3> QED BY <3>1
  <2>3. \A x \in T : \E n \in 1 .. Len(r) : r[n] = x
    BY <1>1, <2>2
  <2> HIDE DEF r
  <2> QED BY <2>2, <2>3 DEF IsFiniteSet
<1> QED BY <1>2, <1>3

LEMMA FinitePair ==
    ASSUME NEW x, NEW y
    PROVE  IsFiniteSet({x, y})
<1>1. <<x, y>> \in Seq({x, y}) /\ Len(<<x, y>>) = 2 /\ <<x, y>>[1] = x /\ <<x, y>>[2] = y
  OBVIOUS
<1>2. \A z \in {x, y} : \E n \in 1 .. Len(<<x, y>>) : <<x, y>>[n] = z
  BY <1>1
<1> QED BY <1>1, <1>2, Zenon DEF IsFiniteSet

LEMMA FiniteUpTo ==
    ASSUME NEW k \in Nat
    PROVE  IsFiniteSet(1 .. k)
<1> DEFINE s == [n \in 1 .. k |-> n]
<1>1. s \in Seq(1 .. k) /\ Len(s) = k
  OBVIOUS
<1>2. \A x \in 1 .. k : \E n \in 1 .. Len(s) : s[n] = x
  BY <1>1
<1> HIDE DEF s
<1> QED BY <1>1, <1>2 DEF IsFiniteSet

(* A set of subsets of a finite set has a member without a smaller one.    *)
LEMMA LeastSubset ==
    ASSUME NEW S, IsFiniteSet(S), NEW Bad, Bad \subseteq SUBSET S, Bad # {}
    PROVE  \E T \in Bad : \A U \in Bad : U \subseteq T => U = T
<1>1. PICK s \in Seq(S) : \A x \in S : \E n \in 1 .. Len(s) : s[n] = x
  BY DEF IsFiniteSet
<1> DEFINE n == Len(s)
           First(k) == {s[i] : i \in 1 .. k}
           Least(B) == \E T \in B : \A U \in B : U \subseteq T => U = T
           Same(B, k) == \A T, U \in B : \A x \in S \ First(k) : x \in T <=> x \in U
           H == {k \in 0 .. n : \A B \in SUBSET SUBSET S : B # {} /\ Same(B, k) => Least(B)}
<1>2. n \in Nat
  BY <1>1
<1>3. 0 \in H
  <2>1. First(0) = {}
    OBVIOUS
  <2> HIDE DEF First
  <2>2. ASSUME NEW B \in SUBSET SUBSET S, B # {}, Same(B, 0) PROVE Least(B)
    <3>1. PICK T \in B : TRUE
      BY <2>2
    <3>2. ASSUME NEW U \in B PROVE U = T
      <4>1. U \subseteq S /\ T \subseteq S
        OBVIOUS
      <4>2. \A x \in S : x \in T <=> x \in U
        BY <2>1, <2>2
      <4> QED BY <4>1, <4>2
    <3> QED BY <3>1, <3>2
  <2> QED BY <1>2, <2>2
<1>4. ASSUME NEW k \in 1 .. n, k - 1 \in H PROVE k \in H
  <2>1. \A x : x \in First(k) <=> x = s[k] \/ x \in First(k - 1)
    BY <1>2
  <2> HIDE DEF First
  <2>2. ASSUME NEW B \in SUBSET SUBSET S, B # {}, Same(B, k) PROVE Least(B)
    <3> DEFINE C == {T \in B : s[k] \notin T}
    <3>1. Same(C, k - 1)
      BY <2>1, <2>2
    <3>2. CASE C # {}
      <4>1. Least(C)
        <5>1. C \in SUBSET SUBSET S
          OBVIOUS
        <5> HIDE DEF C, Same, Least
        <5> QED BY <1>4, <3>1, <3>2, <5>1, Zenon
      <4>2. \A T \in C : \A U \in B : U \subseteq T => U \in C
        OBVIOUS
      <4> QED BY <4>1, <4>2
    <3>3. CASE C = {}
      <4>1. \A T \in B : s[k] \in T
        BY <3>3
      <4>2. Same(B, k - 1)
        BY <2>1, <2>2, <4>1
      <4> QED BY <1>4, <2>2, <4>2, Zenon
    <3> QED BY <3>2, <3>3
  <2> HIDE DEF Same, Least
  <2> QED BY <2>2
<1>5. n \in H
  <2> HIDE DEF H, n
  <2>1. \A k \in 0 .. n : k \in H
    BY <1>2, <1>3, <1>4, UpToInduction, ZenonT(30)
  <2> QED BY <1>2, <2>1
<1>6. Same(Bad, n)
  <2>1. S \ First(n) = {}
    BY <1>1
  <2> HIDE DEF First
  <2> QED BY <2>1
<1> HIDE DEF Same, Least
<1>7. Least(Bad)
  BY <1>5, <1>6, Zenon
<1> QED BY <1>7 DEF Least

-----------------------------------------------------------------------------
Pick(T) == CHOOSE x \in T : TRUE

(* g is the recursive function that the sum over S is taken from.          *)
Adds(g, f, S) ==
    g = [T \in SUBSET S |-> IF T = {} THEN 0 ELSE f[Pick(T)] + g[T \ {Pick(T)}]]

LEMMA PickIn == ASSUME NEW T, T # {} PROVE Pick(T) \in T
BY DEF Pick

(* The recursive functions of two sets agree on the common subsets.        *)
LEMMA AddsUnique ==
    ASSUME NEW S, IsFiniteSet(S), NEW R, NEW f, NEW g, NEW h, Adds(g, f, S), Adds(h, f, R),
           NEW T, T \subseteq S, T \subseteq R
    PROVE  g[T] = h[T]
<1> DEFINE Bad == {U \in SUBSET T : g[U] # h[U]}
<1> SUFFICES ASSUME Bad # {} PROVE FALSE
  OBVIOUS
<1>1. IsFiniteSet(T) /\ Bad \subseteq SUBSET T
  BY FiniteSubset
<1>2. PICK U \in Bad : \A V \in Bad : V \subseteq U => V = U
  <2> HIDE DEF Bad
  <2> QED BY <1>1, LeastSubset
<1> DEFINE p == Pick(U)
<1>3. /\ g[U] = IF U = {} THEN 0 ELSE f[p] + g[U \ {p}]
      /\ h[U] = IF U = {} THEN 0 ELSE f[p] + h[U \ {p}]
  BY Zenon DEF Adds
<1>4. U # {} => U \ {p} \in SUBSET T /\ U \ {p} \subseteq U /\ U \ {p} # U
  BY PickIn
<1>5. U # {} => g[U \ {p}] = h[U \ {p}]
  BY <1>2, <1>4
<1> QED BY <1>3, <1>5

(* There is such a function, and its values are integers.                  *)
LEMMA AddsExists ==
    ASSUME NEW S, IsFiniteSet(S), NEW f \in [S -> Int]
    PROVE  \E g \in [SUBSET S -> Int] : Adds(g, f, S)
<1> DEFINE Good(T) == \E g \in [SUBSET T -> Int] : Adds(g, f, T)
           Bad == {T \in SUBSET S : ~Good(T)}
<1> SUFFICES ASSUME Bad # {} PROVE FALSE
  BY S \in SUBSET S, Zenon
<1>1. PICK T \in Bad : \A U \in Bad : U \subseteq T => U = T
  <2>1. Bad \subseteq SUBSET S
    OBVIOUS
  <2> HIDE DEF Bad
  <2> QED BY <2>1, LeastSubset
<1>2. IsFiniteSet(T) /\ T \subseteq S
  BY FiniteSubset
<1> DEFINE G(U) == CHOOSE g \in [SUBSET U -> Int] : Adds(g, f, U)
<1>3. ASSUME NEW U \in SUBSET T, U # T
      PROVE  /\ G(U) \in [SUBSET U -> Int] /\ Adds(G(U), f, U)
             /\ IsFiniteSet(U)
  <2>1. Good(U)
    BY <1>1, <1>2, <1>3, Zenon
  <2>2. IsFiniteSet(U)
    BY <1>2, FiniteSubset
  <2> QED BY <2>1, <2>2, Zenon
<1> DEFINE p(U) == Pick(U)
           Top == IF T = {} THEN 0 ELSE f[p(T)] + G(T \ {p(T)})[T \ {p(T)}]
           h == [U \in SUBSET T |-> IF U = T THEN Top ELSE G(U)[U]]
<1>4. \A U \in SUBSET T : U # {} => /\ p(U) \in U /\ p(U) \in T /\ f[p(U)] \in Int
                                    /\ U \ {p(U)} \in SUBSET T /\ U \ {p(U)} # T
                                    /\ U \ {p(U)} \in SUBSET U
  BY <1>2, PickIn
<1> HIDE DEF G, p
<1>5. \A U \in SUBSET T : U # T => G(U)[U] \in Int
  BY <1>3, ZenonT(30)
<1>6. Top \in Int
  BY <1>4, <1>5
<1>7. h \in [SUBSET T -> Int]
  BY <1>5, <1>6
<1>8. ASSUME NEW U \in SUBSET T
      PROVE  h[U] = IF U = {} THEN 0 ELSE f[p(U)] + h[U \ {p(U)}]
  <2>1. CASE U = {}
    <3>1. U # T => G(U)[U] = 0
      BY <1>3, <2>1, Zenon DEF Adds
    <3> QED BY <2>1, <3>1
  <2>2. CASE U # {} /\ U = T
    BY <1>4, <2>2
  <2>3. CASE U # {} /\ U # T
    <3> DEFINE V == U \ {p(U)}
    <3>1. V \in SUBSET T /\ V # T /\ V \subseteq U
      BY <1>4, <2>3
    <3>2. h[U] = G(U)[U] /\ h[V] = G(V)[V]
      BY <2>3, <3>1
    <3>3. Adds(G(U), f, U) /\ IsFiniteSet(U) /\ Adds(G(V), f, V)
      BY <1>3, <2>3, <3>1, Zenon
    <3>4. G(U)[U] = f[p(U)] + G(U)[V]
      BY <2>3, <3>3, ZenonT(30) DEF Adds, p
    <3>5. G(U)[V] = G(V)[V]
      <4> HIDE DEF V
      <4> QED BY <3>1, <3>3, AddsUnique
    <3> QED BY <2>3, <3>2, <3>4, <3>5
  <2> QED BY <2>1, <2>2, <2>3
<1>9. Adds(h, f, T)
  <2> HIDE DEF h
  <2>1. h = [U \in SUBSET T |-> h[U]]
    BY <1>7
  <2> QED BY <1>8, <2>1, Zenon DEF Adds, p
<1> HIDE DEF h
<1> QED BY <1>7, <1>9

(* The sum over a set is the value of that function.                       *)
LEMMA SumIsAdds ==
    ASSUME NEW S, IsFiniteSet(S), NEW f, \A x \in S : f[x] \in Int
    PROVE  \E g \in [SUBSET S -> Int] : Adds(g, f, S) /\ SumFunctionOnSet(f, S) = g[S]
<1> DEFINE e == [x \in S |-> f[x]]
           h == CHOOSE g : Adds(g, f, S)
<1>1. PICK g \in [SUBSET S -> Int] : Adds(g, e, S)
  BY AddsExists, Zenon
<1>2. \A T \in SUBSET S : T # {} => e[Pick(T)] = f[Pick(T)]
  BY PickIn
<1>3. Adds(g, f, S)
  <2> HIDE DEF e
  <2> QED BY <1>1, <1>2, Zenon DEF Adds
<1>4. Adds(h, f, S)
  BY <1>3
<1>5. SumFunctionOnSet(f, S) = h[S]
  BY DEF SumFunctionOnSet, FoldFunctionOnSet, MapThenFoldSet, Adds, Pick
<1>6. h[S] = g[S]
  <2> HIDE DEF h
  <2> QED BY <1>3, <1>4, AddsUnique
<1> QED BY <1>3, <1>5, <1>6, Zenon

(* The sum of nothing, and the sum with one element taken out.             *)
LEMMA SumStep ==
    ASSUME NEW S, IsFiniteSet(S), NEW f, \A x \in S : f[x] \in Int
    PROVE  /\ SumFunctionOnSet(f, S) \in Int
           /\ S = {} => SumFunctionOnSet(f, S) = 0
           /\ S # {} => SumFunctionOnSet(f, S)
                           = f[Pick(S)] + SumFunctionOnSet(f, S \ {Pick(S)})
<1>1. PICK g \in [SUBSET S -> Int] : Adds(g, f, S) /\ SumFunctionOnSet(f, S) = g[S]
  BY SumIsAdds, Zenon
<1>2. g[S] = IF S = {} THEN 0 ELSE f[Pick(S)] + g[S \ {Pick(S)}]
  BY <1>1, Zenon DEF Adds
<1>3. ASSUME S # {}
      PROVE  g[S \ {Pick(S)}] = SumFunctionOnSet(f, S \ {Pick(S)})
  <2> DEFINE R == S \ {Pick(S)}
  <2>1. IsFiniteSet(R) /\ R \subseteq S
    BY FiniteSubset
  <2> HIDE DEF R
  <2>2. PICK h \in [SUBSET R -> Int] : Adds(h, f, R) /\ SumFunctionOnSet(f, R) = h[R]
    BY <2>1, SumIsAdds, Zenon
  <2>3. g[R] = h[R]
    BY <1>1, <2>1, <2>2, AddsUnique
  <2> QED BY <2>2, <2>3 DEF R
<1> QED BY <1>1, <1>2, <1>3

(* The order in which the fold takes the elements does not matter.         *)
LEMMA SumRemove ==
    ASSUME NEW S, IsFiniteSet(S), NEW f, \A x \in S : f[x] \in Int, NEW x \in S
    PROVE  SumFunctionOnSet(f, S) = f[x] + SumFunctionOnSet(f, S \ {x})
<1> DEFINE Sum(T) == SumFunctionOnSet(f, T)
           Bad == {T \in SUBSET S : \E y \in T : Sum(T) # f[y] + Sum(T \ {y})}
<1> SUFFICES ASSUME Bad # {} PROVE FALSE
  BY S \in SUBSET S, Zenon
<1>1. PICK T \in Bad : \A U \in Bad : U \subseteq T => U = T
  <2>1. Bad \subseteq SUBSET S
    OBVIOUS
  <2> HIDE DEF Bad
  <2> QED BY <2>1, LeastSubset
<1>2. PICK y \in T : Sum(T) # f[y] + Sum(T \ {y})
  OBVIOUS
<1>3. \A U \in SUBSET T : IsFiniteSet(U) /\ \A z \in U : f[z] \in Int
  BY FiniteSubset
<1> DEFINE p == Pick(T)
<1>4. p \in T /\ T # {}
  BY PickIn
<1>5. Sum(T) = f[p] + Sum(T \ {p})
  BY <1>3, <1>4, SumStep, Zenon
<1>6. \A U \in SUBSET T : Sum(U) \in Int
  BY <1>3, SumStep, Zenon
<1>7. p # y
  BY <1>2, <1>5, Zenon
<1>8. \A U \in SUBSET T : U # T => \A z \in U : Sum(U) = f[z] + Sum(U \ {z})
  BY <1>1, ZenonT(30)
<1> HIDE DEF Sum, p
<1> DEFINE R == (T \ {p}) \ {y}
<1>9. Sum(T \ {p}) = f[y] + Sum(R)
  BY <1>4, <1>7, <1>8
<1>10. Sum(T \ {y}) = f[p] + Sum(R)
  <2>1. R = (T \ {y}) \ {p}
    OBVIOUS
  <2> HIDE DEF R
  <2> QED BY <1>4, <1>7, <1>8, <2>1
<1>11. Sum(R) \in Int /\ f[p] \in Int /\ f[y] \in Int
  BY <1>3, <1>4, <1>6
<1> HIDE DEF Bad, R
<1> QED BY <1>2, <1>5, <1>9, <1>10, <1>11

(* Functions that agree on a set have the same sum over it.                *)
LEMMA SumEqual ==
    ASSUME NEW S, IsFiniteSet(S), NEW f, NEW g, \A x \in S : f[x] \in Int /\ g[x] = f[x]
    PROVE  SumFunctionOnSet(g, S) = SumFunctionOnSet(f, S)
<1> DEFINE F(T) == SumFunctionOnSet(f, T)
           H(T) == SumFunctionOnSet(g, T)
           Bad == {T \in SUBSET S : F(T) # H(T)}
<1> SUFFICES ASSUME Bad # {} PROVE FALSE
  BY S \in SUBSET S
<1>1. PICK T \in Bad : \A U \in Bad : U \subseteq T => U = T
  <2>1. Bad \subseteq SUBSET S
    OBVIOUS
  <2> HIDE DEF Bad
  <2> QED BY <2>1, LeastSubset
<1>2. IsFiniteSet(T) /\ (\A x \in T : f[x] \in Int) /\ (\A x \in T : g[x] \in Int)
  BY FiniteSubset
<1> DEFINE p == Pick(T)
<1>3. /\ T = {} => F(T) = 0 /\ H(T) = 0
      /\ T # {} => F(T) = f[p] + F(T \ {p}) /\ H(T) = g[p] + H(T \ {p})
  BY <1>2, SumStep, Zenon
<1>4. T # {} => p \in T /\ T \ {p} \in SUBSET S /\ T \ {p} # T
  BY PickIn
<1> HIDE DEF F, H, p
<1>5. T # {} => F(T \ {p}) = H(T \ {p}) /\ g[p] = f[p]
  BY <1>1, <1>4
<1> QED BY <1>3, <1>5

(* One summand changes.                                                    *)
LEMMA SumChange ==
    ASSUME NEW S, IsFiniteSet(S), NEW f \in [S -> Int], NEW g \in [S -> Int], NEW x \in S,
           \A y \in S : y # x => g[y] = f[y]
    PROVE  SumFunction(g) = SumFunction(f) + g[x] - f[x]
<1> DEFINE R == S \ {x}
<1>1. IsFiniteSet(R) /\ \A y \in R : f[y] \in Int /\ g[y] = f[y]
  BY FiniteSubset
<1>2. SumFunctionOnSet(g, R) = SumFunctionOnSet(f, R)
  <2> HIDE DEF R
  <2> QED BY <1>1, SumEqual
<1>3. SumFunctionOnSet(f, R) \in Int
  <2> HIDE DEF R
  <2> QED BY <1>1, SumStep, Zenon
<1>4. /\ SumFunctionOnSet(f, S) = f[x] + SumFunctionOnSet(f, R)
      /\ SumFunctionOnSet(g, S) = g[x] + SumFunctionOnSet(g, R)
  BY SumRemove
<1>5. SumFunction(f) = SumFunctionOnSet(f, S) /\ SumFunction(g) = SumFunctionOnSet(g, S)
  BY DEF SumFunction
<1> HIDE DEF R
<1> QED BY <1>2, <1>3, <1>4, <1>5

(* A sum of natural numbers is one, and none of them exceeds it.           *)
LEMMA SumNat ==
    ASSUME NEW S, IsFiniteSet(S), NEW f, \A x \in S : f[x] \in Nat
    PROVE  SumFunctionOnSet(f, S) \in Nat
<1> DEFINE F(T) == SumFunctionOnSet(f, T)
           Bad == {T \in SUBSET S : F(T) \notin Nat}
<1> SUFFICES ASSUME Bad # {} PROVE FALSE
  BY S \in SUBSET S
<1>1. PICK T \in Bad : \A U \in Bad : U \subseteq T => U = T
  <2>1. Bad \subseteq SUBSET S
    OBVIOUS
  <2> HIDE DEF Bad
  <2> QED BY <2>1, LeastSubset
<1>2. IsFiniteSet(T) /\ \A x \in T : f[x] \in Int
  BY FiniteSubset
<1> DEFINE p == Pick(T)
<1>3. IF T = {} THEN F(T) = 0 ELSE F(T) = f[p] + F(T \ {p})
  BY <1>2, SumStep, Zenon
<1>4. T # {} => p \in T /\ T \ {p} \in SUBSET S /\ T \ {p} # T
  BY PickIn
<1> HIDE DEF F, p
<1>5. T # {} => F(T \ {p}) \in Nat /\ f[p] \in Nat
  BY <1>1, <1>4
<1> QED BY <1>3, <1>5

LEMMA SumBounds ==
    ASSUME NEW S, IsFiniteSet(S), NEW f \in [S -> Nat]
    PROVE  /\ SumFunction(f) \in Nat
           /\ \A x \in S : f[x] <= SumFunction(f)
<1>1. SumFunction(f) = SumFunctionOnSet(f, S)
  BY DEF SumFunction
<1>2. SumFunctionOnSet(f, S) \in Nat
  BY SumNat
<1>3. ASSUME NEW x \in S
      PROVE  f[x] <= SumFunctionOnSet(f, S)
  <2> DEFINE R == S \ {x}
  <2>1. IsFiniteSet(R) /\ \A y \in R : f[y] \in Nat
    BY FiniteSubset
  <2>2. SumFunctionOnSet(f, S) = f[x] + SumFunctionOnSet(f, R)
    BY SumRemove
  <2> HIDE DEF R
  <2>3. SumFunctionOnSet(f, R) \in Nat
    BY <2>1, SumNat
  <2> QED BY <2>2, <2>3
<1> QED BY <1>1, <1>2, <1>3

LEMMA SumZero ==
    ASSUME NEW S, IsFiniteSet(S), NEW f \in [S -> Nat], \A x \in S : f[x] = 0
    PROVE  SumFunction(f) = 0
<1> DEFINE F(T) == SumFunctionOnSet(f, T)
           Bad == {T \in SUBSET S : F(T) # 0}
<1> SUFFICES ASSUME Bad # {} PROVE FALSE
  BY S \in SUBSET S DEF SumFunction
<1>1. PICK T \in Bad : \A U \in Bad : U \subseteq T => U = T
  <2>1. Bad \subseteq SUBSET S
    OBVIOUS
  <2> HIDE DEF Bad
  <2> QED BY <2>1, LeastSubset
<1>2. IsFiniteSet(T) /\ \A x \in T : f[x] \in Int
  BY FiniteSubset
<1> DEFINE p == Pick(T)
<1>3. IF T = {} THEN F(T) = 0 ELSE F(T) = f[p] + F(T \ {p})
  BY <1>2, SumStep, ZenonT(30)
<1>4. T # {} => p \in T /\ T \ {p} \in SUBSET S /\ T \ {p} # T
  BY PickIn
<1> HIDE DEF F, p
<1>5. T # {} => F(T \ {p}) = 0 /\ f[p] = 0
  BY <1>1, <1>4
<1> QED BY <1>3, <1>5

(* A sum of positive numbers over more elements is larger.                 *)
LEMMA SumMore ==
    ASSUME NEW S, IsFiniteSet(S), NEW f, \A x \in S : f[x] \in Nat \ {0},
           NEW T, T \subseteq S, T # S
    PROVE  SumFunctionOnSet(f, T) < SumFunctionOnSet(f, S)
<1> DEFINE F(U) == SumFunctionOnSet(f, U)
           Bad == {U \in SUBSET S : T \subseteq U /\ T # U /\ ~(F(T) < F(U))}
<1> SUFFICES ASSUME Bad # {} PROVE FALSE
  BY S \in SUBSET S
<1>1. PICK U \in Bad : \A V \in Bad : V \subseteq U => V = U
  <2>1. Bad \subseteq SUBSET S
    OBVIOUS
  <2> HIDE DEF Bad
  <2> QED BY <2>1, LeastSubset
<1>2. \A V \in SUBSET S : F(V) \in Nat
  <2> TAKE V \in SUBSET S
  <2>1. IsFiniteSet(V) /\ \A x \in V : f[x] \in Nat
    BY FiniteSubset
  <2> QED BY <2>1, SumNat
<1>3. PICK x \in U : x \notin T
  OBVIOUS
<1>4. F(U) = f[x] + F(U \ {x})
  <2>1. IsFiniteSet(U) /\ \A y \in U : f[y] \in Int
    BY FiniteSubset
  <2> QED BY <2>1, SumRemove
<1>5. U \ {x} \in SUBSET S /\ T \subseteq U \ {x} /\ U \ {x} # U /\ U \ {x} \subseteq U
  BY <1>3
<1>6. T = U \ {x} \/ F(T) < F(U \ {x})
  BY <1>1, <1>5
<1>7. F(T) \in Nat /\ F(U \ {x}) \in Nat /\ f[x] \in Nat \ {0} /\ ~(F(T) < F(U))
  BY <1>2, <1>5
<1> HIDE DEF F
<1> QED BY <1>4, <1>6, <1>7

LEMMA SumPair ==
    ASSUME NEW x, NEW y, x # y, NEW f, f[x] \in Int, f[y] \in Int
    PROVE  SumFunctionOnSet(f, {x, y}) = f[x] + f[y]
<1> DEFINE Sum(T) == SumFunctionOnSet(f, T)
<1>1. /\ IsFiniteSet({x, y}) /\ IsFiniteSet({y}) /\ IsFiniteSet({})
      /\ {x, y} \ {x} = {y} /\ {y} \ {y} = {}
  <2>1. {y} \subseteq {x, y} /\ {} \subseteq {x, y} /\ {x, y} \ {x} = {y} /\ {y} \ {y} = {}
    OBVIOUS
  <2> QED BY <2>1, FinitePair, FiniteSubset, Zenon
<1>2. Sum({x, y}) = f[x] + Sum({x, y} \ {x})
  BY <1>1, SumRemove
<1>3. Sum({y}) = f[y] + Sum({y} \ {y})
  BY <1>1, SumRemove
<1>4. Sum({}) = 0
  BY <1>1, SumStep, Zenon
<1>5. Sum({x, y}) = f[x] + Sum({y}) /\ Sum({y}) = f[y] + 0
  BY <1>1, <1>2, <1>3, <1>4, Zenon
<1> HIDE DEF Sum
<1>6. Sum({x, y}) = f[x] + f[y]
  BY <1>5
<1> QED BY <1>6 DEF Sum

-----------------------------------------------------------------------------
(* Cardinality, also a fold, with one for each element.                    *)
LEMMA SamePick == ASSUME NEW T PROVE (CHOOSE x : x \in T) = Pick(T)
<1>1. \A x : x \in T <=> (x \in T /\ TRUE)
  OBVIOUS
<1> QED BY <1>1, Zenon DEF Pick

(* Cardinality counts.                                                     *)
LEMMA CardinalityIsSum ==
    ASSUME NEW S, IsFiniteSet(S)
    PROVE  Cardinality(S) = SumFunctionOnSet([x \in S |-> 1], S)
<1> DEFINE one == [x \in S |-> 1]
           Counts(g) == g = [T \in SUBSET S |-> IF T = {} THEN 0 ELSE 1 + g[T \ {CHOOSE x : x \in T}]]
           h == CHOOSE g : Counts(g)
<1>1. PICK g \in [SUBSET S -> Int] : Adds(g, one, S) /\ SumFunctionOnSet(one, S) = g[S]
  <2>1. \A x \in S : one[x] \in Int
    OBVIOUS
  <2> HIDE DEF one
  <2> QED BY <2>1, SumIsAdds, Zenon
<1>2. \A T \in SUBSET S : T # {} => one[Pick(T)] = 1
  BY PickIn
<1> HIDE DEF one
<1>3. ASSUME NEW k PROVE Counts(k) <=> Adds(k, one, S)
  <2> DEFINE a == [T \in SUBSET S |-> IF T = {} THEN 0 ELSE 1 + k[T \ {CHOOSE x : x \in T}]]
             b == [T \in SUBSET S |-> IF T = {} THEN 0 ELSE one[Pick(T)] + k[T \ {Pick(T)}]]
  <2>1. \A T \in SUBSET S : a[T] = b[T]
    <3> TAKE T \in SUBSET S
    <3>1. (CHOOSE x : x \in T) = Pick(T)
      BY SamePick
    <3> QED BY <1>2, <3>1, Zenon
  <2>2. a = b
    BY <2>1, Zenon
  <2> QED BY <2>2, Zenon DEF Adds
<1>4. Counts(h)
  <2>1. Counts(g)
    BY <1>1, <1>3, Zenon
  <2> HIDE DEF Counts
  <2> QED BY <2>1, Zenon
<1>5. Cardinality(S) = h[S]
  BY DEF Cardinality
<1>6. h[S] = g[S]
  <2>1. Adds(h, one, S)
    BY <1>3, <1>4, Zenon
  <2> HIDE DEF h
  <2> QED BY <1>1, <2>1, AddsUnique
<1> QED BY <1>1, <1>5, <1>6, Zenon DEF one

(* One element more, or less.                                              *)
LEMMA CardinalityRemove ==
    ASSUME NEW S, IsFiniteSet(S), NEW x \in S
    PROVE  Cardinality(S) = 1 + Cardinality(S \ {x})
<1> DEFINE R == S \ {x}
           f == [y \in S |-> 1]
           h == [y \in R |-> 1]
<1>1. IsFiniteSet(R)
  BY FiniteSubset
<1>2. (\A y \in S : f[y] \in Int) /\ f[x] = 1 /\ (\A y \in R : f[y] \in Int /\ h[y] = f[y])
  OBVIOUS
<1>3. Cardinality(S) = SumFunctionOnSet(f, S)
  BY CardinalityIsSum
<1>4. Cardinality(R) = SumFunctionOnSet(h, R)
  BY <1>1, CardinalityIsSum
<1> HIDE DEF f, h
<1>5. SumFunctionOnSet(f, S) = 1 + SumFunctionOnSet(f, R)
  BY <1>2, SumRemove
<1>6. SumFunctionOnSet(h, R) = SumFunctionOnSet(f, R)
  <2> HIDE DEF R
  <2> QED BY <1>1, <1>2, SumEqual
<1> QED BY <1>3, <1>4, <1>5, <1>6

LEMMA CardinalityNat ==
    ASSUME NEW S, IsFiniteSet(S)
    PROVE  Cardinality(S) \in Nat /\ (Cardinality(S) = 0 <=> S = {})
<1> DEFINE f == [y \in S |-> 1]
<1>1. Cardinality(S) = SumFunctionOnSet(f, S)
  BY CardinalityIsSum
<1>2. f \in [S -> Nat] /\ \A y \in S : f[y] = 1
  OBVIOUS
<1> HIDE DEF f
<1>3. SumFunctionOnSet(f, S) \in Nat
  BY <1>2, SumNat
<1>4. S = {} => SumFunctionOnSet(f, S) = 0
  BY <1>2, SumStep
<1>5. ASSUME NEW x \in S PROVE Cardinality(S) # 0
  <2>1. IsFiniteSet(S \ {x})
    BY FiniteSubset
  <2>2. SumFunctionOnSet(f, S \ {x}) \in Nat
    BY <1>2, <2>1, SumNat
  <2>3. SumFunctionOnSet(f, S) = 1 + SumFunctionOnSet(f, S \ {x})
    BY <1>2, SumRemove
  <2> QED BY <1>1, <2>2, <2>3
<1> QED BY <1>1, <1>3, <1>4, <1>5

LEMMA CardinalityOne ==
    ASSUME NEW S, IsFiniteSet(S), Cardinality(S) = 1
    PROVE  \E x : S = {x}
<1>1. PICK x \in S : TRUE
  BY CardinalityNat
<1>2. IsFiniteSet(S \ {x}) /\ 1 = 1 + Cardinality(S \ {x})
  BY CardinalityRemove, FiniteSubset
<1>3. S \ {x} = {}
  <2> DEFINE R == S \ {x}
  <2>1. IsFiniteSet(R) /\ 1 = 1 + Cardinality(R)
    BY <1>2
  <2> HIDE DEF R
  <2>2. R = {}
    BY <2>1, CardinalityNat
  <2> QED BY <2>2 DEF R
<1> QED BY <1>3

-----------------------------------------------------------------------------
(* Loops over values of which no set is known.                             *)

(* A function up to k - 1, with the value v at k.                          *)
Extends(h, k, f, v) == h[k] = v /\ \A i \in 0 .. k - 1 : h[i] = f[i]

LEMMA Extended == \A k \in Nat : \A f, v : \E h : Extends(h, k, f, v)
<1> TAKE k \in Nat
<1> TAKE f, v
<1> DEFINE h == [i \in 0 .. k |-> IF i = k THEN v ELSE f[i]]
<1>1. Extends(h, k, f, v)
  BY DEF Extends
<1> QED BY <1>1
=============================================================================
