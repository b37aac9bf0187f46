--------------------------- MODULE PoEQueriesProof ---------------------------
(***************************************************************************)
(* Proofs about PoEQueries for every number of operators, every size of    *)
(* the contract's pages and every limit that clients ask for.              *)
(*                                                                         *)
(* All listings rest on one fact about the contract's pages, PageLists: a  *)
(* page is the next stretch of the list in the order of addresses, its     *)
(* cursor is where the stretch ends, and there is no cursor only when the  *)
(* list is used up.  The inductive invariant says how far a client has     *)
(* come: what it has got, and that all it is still to get lies behind its  *)
(* key.                                                                    *)
(***************************************************************************)
EXTENDS PoEQueries, RecursionProof, TLAPS

(* The prover of every leaf that names no other.                            *)
USE SMTT(30)

(* Sequences.                                                              *)
LEMMA ListShape ==
    ASSUME NEW S, NEW s \in Seq(S)
    PROVE  Len(s) \in Nat /\ DOMAIN s = 1 .. Len(s) /\ s \in [1 .. Len(s) -> S]
OBVIOUS

LEMMA EmptyList ==
    ASSUME NEW S
    PROVE  << >> \in Seq(S) /\ Len(<< >>) = 0 /\ \A s \in Seq(S) : s = << >> \/ Len(s) \in Nat \ {0}
OBVIOUS

LEMMA SameList ==
    ASSUME NEW S, NEW s \in Seq(S), NEW t \in Seq(S), Len(t) = Len(s), \A i \in 1 .. Len(s) : t[i] = s[i]
    PROVE  t = s
<1>1. Len(s) \in Nat /\ s \in [1 .. Len(s) -> S] /\ t \in [1 .. Len(s) -> S]
  BY ListShape
<1> QED BY <1>1

LEMMA Appended ==
    ASSUME NEW S, NEW s \in Seq(S), NEW x \in S
    PROVE  /\ Append(s, x) \in Seq(S) /\ Len(Append(s, x)) = Len(s) + 1
           /\ Append(s, x)[Len(s) + 1] = x
           /\ \A i \in 1 .. Len(s) : Append(s, x)[i] = s[i]
OBVIOUS

LEMMA Joined ==
    ASSUME NEW S, NEW s \in Seq(S), NEW t \in Seq(S)
    PROVE  /\ s \o t \in Seq(S) /\ Len(s \o t) = Len(s) + Len(t)
           /\ \A i \in 1 .. Len(s) : (s \o t)[i] = s[i]
           /\ \A i \in 1 .. Len(t) : (s \o t)[Len(s) + i] = t[i]
OBVIOUS

LEMMA JoinedNone ==
    ASSUME NEW S, NEW s \in Seq(S)
    PROVE  s \o << >> = s /\ << >> \o s = s
OBVIOUS

LEMMA Cut ==
    ASSUME NEW S, NEW s, NEW m \in Int, NEW n \in Int, \A i \in m .. n : s[i] \in S
    PROVE  /\ SubSeq(s, m, n) \in Seq(S)
           /\ Len(SubSeq(s, m, n)) = IF m <= n THEN n - m + 1 ELSE 0
           /\ \A i \in 1 .. n - m + 1 : SubSeq(s, m, n)[i] = s[m + i - 1]
OBVIOUS

LEMMA CutNone ==
    ASSUME NEW s, NEW m \in Int, NEW n \in Int, n < m
    PROVE  SubSeq(s, m, n) = << >>
OBVIOUS

LEMMA CutAll ==
    ASSUME NEW S, NEW s \in Seq(S)
    PROVE  SubSeq(s, 1, Len(s)) = s
<1>1. Len(s) \in Nat /\ s \in [1 .. Len(s) -> S]
  BY ListShape
<1> QED BY <1>1

Ascending(s) == \A i, j \in 1 .. Len(s) : i < j => s[i] < s[j]

(* s is the list of S in the order of addresses.                           *)
Lists(s, S) ==
    /\ s \in Seq(Operators)
    /\ \A i \in 1 .. Len(s) : s[i] \in S
    /\ \A o \in S : \E i \in 1 .. Len(s) : s[i] = o
    /\ Ascending(s)

(* Positions and entries have the same order.                              *)
LEMMA ListsOrder ==
    ASSUME NEW S, NEW s, Lists(s, S)
    PROVE  /\ s \in Seq(Operators) /\ Len(s) \in Nat
           /\ \A i \in 1 .. Len(s) : s[i] \in Operators /\ s[i] \in Int /\ s[i] \in S
           /\ \A i, j \in 1 .. Len(s) : s[i] < s[j] <=> i < j
<1>1. s \in Seq(Operators) /\ Len(s) \in Nat
  BY DEF Lists
<1>2. \A i \in 1 .. Len(s) : s[i] \in Operators /\ s[i] \in S
  BY <1>1, ListShape DEF Lists
<1>3. \A o \in Operators : o \in Int
  BY DEF Operators
<1>4. ASSUME NEW i \in 1 .. Len(s), NEW j \in 1 .. Len(s)
      PROVE  s[i] < s[j] <=> i < j
  <2>1. s[i] \in Int /\ s[j] \in Int
    BY <1>2, <1>3
  <2>2. (i < j => s[i] < s[j]) /\ (j < i => s[j] < s[i])
    BY DEF Lists, Ascending
  <2> QED BY <2>1, <2>2
<1> QED BY <1>1, <1>2, <1>3, <1>4

(* The order leaves one list for each set.                                 *)
LEMMA ListsUnique ==
    ASSUME NEW S, NEW s, NEW t, Lists(s, S), Lists(t, S)
    PROVE  s = t
<1>0. /\ s \in Seq(Operators) /\ Len(s) \in Nat
      /\ t \in Seq(Operators) /\ Len(t) \in Nat
      /\ \A i \in 1 .. Len(s) : s[i] \in Int
      /\ \A i \in 1 .. Len(t) : t[i] \in Int
      /\ \A i, j \in 1 .. Len(s) : s[i] < s[j] <=> i < j
      /\ \A i, j \in 1 .. Len(t) : t[i] < t[j] <=> i < j
  BY ListsOrder, Zenon
<1> DEFINE Bad == {i \in 1 .. Len(s) : i \in 1 .. Len(t) /\ s[i] # t[i]}
<1>1. Bad = {}
  <2> SUFFICES ASSUME Bad # {} PROVE FALSE
    OBVIOUS
  <2>1. PICK i \in Bad : \A k \in Bad : i <= k
    <3>1. Bad \subseteq Nat
      OBVIOUS
    <3> HIDE DEF Bad
    <3> QED BY <3>1, LeastNat, Zenon
  <2>2. \A k \in 1 .. i - 1 : s[k] = t[k]
    BY <1>0, <2>1
  <2>3. PICK j \in 1 .. Len(t) : t[j] = s[i]
    BY ZenonT(30) DEF Lists
  <2>4. PICK h \in 1 .. Len(s) : s[h] = t[i]
    BY Zenon DEF Lists
  <2>5. CASE s[i] < t[i]
    <3>1. j < i
      BY <1>0, <2>3, <2>5
    <3>2. s[j] = s[i] /\ j \in 1 .. Len(s)
      BY <1>0, <2>2, <2>3, <3>1
    <3> QED BY <1>0, <3>1, <3>2
  <2>6. CASE t[i] < s[i]
    <3>1. h < i
      BY <1>0, <2>4, <2>6
    <3>2. t[h] = t[i] /\ h \in 1 .. Len(t)
      BY <1>0, <2>2, <2>4, <3>1
    <3> QED BY <1>0, <3>1, <3>2
  <2> QED BY <1>0, <2>5, <2>6
<1>2. ~(Len(s) < Len(t))
  <2> SUFFICES ASSUME Len(s) < Len(t) PROVE FALSE
    OBVIOUS
  <2>1. Len(s) + 1 \in 1 .. Len(t)
    BY <1>0
  <2>2. PICK j \in 1 .. Len(s) : s[j] = t[Len(s) + 1]
    BY <2>1 DEF Lists
  <2>3. t[j] = t[Len(s) + 1] /\ j \in 1 .. Len(t) /\ j < Len(s) + 1
    BY <1>0, <1>1, <2>2
  <2> QED BY <1>0, <2>1, <2>3
<1>3. ~(Len(t) < Len(s))
  <2> SUFFICES ASSUME Len(t) < Len(s) PROVE FALSE
    OBVIOUS
  <2>1. Len(t) + 1 \in 1 .. Len(s)
    BY <1>0
  <2>2. PICK j \in 1 .. Len(t) : t[j] = s[Len(t) + 1]
    BY <2>1, Zenon DEF Lists
  <2>3. s[j] = s[Len(t) + 1] /\ j \in 1 .. Len(s) /\ j < Len(t) + 1
    BY <1>0, <1>1, <2>2
  <2> QED BY <1>0, <2>1, <2>3
<1>4. Len(s) = Len(t)
  BY <1>0, <1>2, <1>3
<1>5. \A i \in 1 .. Len(s) : s[i] = t[i]
  BY <1>1, <1>4
<1> QED BY <1>0, <1>4, <1>5, SameList

(* The beginning of a list.                                                *)
LEMMA ListsPrefix ==
    ASSUME NEW S, NEW s, Lists(s, S), NEW k \in 1 .. Len(s)
    PROVE  /\ Lists(SubSeq(s, 1, k), {o \in S : o <= s[k]})
           /\ SubSeq(s, 1, k) # <<>>
           /\ LET p == SubSeq(s, 1, k) IN p[Len(p)] = s[k]
<1> DEFINE p == SubSeq(s, 1, k)
<1>1. /\ s \in Seq(Operators) /\ Len(s) \in Nat
      /\ \A i \in 1 .. Len(s) : s[i] \in Int /\ s[i] \in S
      /\ \A i, j \in 1 .. Len(s) : s[i] < s[j] <=> i < j
  BY ListsOrder
<1>2. /\ p \in Seq(Operators) /\ Len(p) = k /\ \A i \in 1 .. k : p[i] = s[i]
  BY <1>1, Cut
<1> HIDE DEF p
<1>3. \A i \in 1 .. k : i \in 1 .. Len(s) /\ s[i] <= s[k] /\ s[i] \in S
  BY <1>1
<1>4. \A i \in 1 .. Len(p) : p[i] \in {o \in S : o <= s[k]}
  BY <1>2, <1>3
<1>5. ASSUME NEW o \in S, o <= s[k] PROVE \E i \in 1 .. Len(p) : p[i] = o
  <2>1. PICK i \in 1 .. Len(s) : s[i] = o
    BY DEF Lists
  <2>2. i <= k
    BY <1>1, <1>5, <2>1
  <2> QED BY <1>1, <1>2, <2>1, <2>2
<1>6. Ascending(p)
  BY <1>1, <1>2 DEF Ascending
<1>7. Lists(p, {o \in S : o <= s[k]})
  BY <1>2, <1>4, <1>5, <1>6 DEF Lists
<1>8. p # <<>> /\ p[Len(p)] = s[k]
  BY <1>1, <1>2
<1> QED BY <1>7, <1>8 DEF p

(* A list and the list of what comes after it.                             *)
LEMMA ListsConcat ==
    ASSUME NEW S, NEW T, NEW s, NEW t, Lists(s, S), Lists(t, T), \A a \in S, b \in T : a < b
    PROVE  Lists(s \o t, S \cup T)
<1> DEFINE u == s \o t
<1>1. /\ s \in Seq(Operators) /\ Len(s) \in Nat
      /\ t \in Seq(Operators) /\ Len(t) \in Nat
      /\ \A i \in 1 .. Len(s) : s[i] \in Int /\ s[i] \in S
      /\ \A i \in 1 .. Len(t) : t[i] \in Int /\ t[i] \in T
      /\ \A i, j \in 1 .. Len(s) : s[i] < s[j] <=> i < j
      /\ \A i, j \in 1 .. Len(t) : t[i] < t[j] <=> i < j
  BY ListsOrder
<1>2. /\ u \in Seq(Operators) /\ Len(u) = Len(s) + Len(t)
      /\ \A i \in 1 .. Len(s) + Len(t) : u[i] = IF i <= Len(s) THEN s[i] ELSE t[i - Len(s)]
  BY <1>1, Joined
<1> HIDE DEF u
<1>3. \A i \in 1 .. Len(u) : u[i] \in S \cup T
  BY <1>1, <1>2
<1>4. ASSUME NEW o \in S PROVE \E i \in 1 .. Len(u) : u[i] = o
  <2>1. PICK i \in 1 .. Len(s) : s[i] = o
    BY DEF Lists
  <2>2. i \in 1 .. Len(u) /\ u[i] = o
    BY <1>1, <1>2, <2>1
  <2> QED BY <2>2
<1>5. ASSUME NEW o \in T PROVE \E i \in 1 .. Len(u) : u[i] = o
  <2>1. PICK i \in 1 .. Len(t) : t[i] = o
    BY DEF Lists
  <2> DEFINE k == i + Len(s)
  <2>2. k \in 1 .. Len(s) + Len(t) /\ ~(k <= Len(s)) /\ k - Len(s) = i
    BY <1>1
  <2> HIDE DEF k
  <2>3. k \in 1 .. Len(u) /\ u[k] = o
    BY <1>2, <2>1, <2>2
  <2> QED BY <2>3
<1>6. ASSUME NEW i \in 1 .. Len(u), NEW j \in 1 .. Len(u), i < j
      PROVE  u[i] < u[j]
  <2>1. CASE j <= Len(s)
    <3>1. i \in 1 .. Len(s) /\ j \in 1 .. Len(s) /\ i \in 1 .. Len(s) + Len(t)
          /\ j \in 1 .. Len(s) + Len(t) /\ i <= Len(s)
      BY <1>1, <1>2, <1>6, <2>1
    <3>2. u[i] = s[i] /\ u[j] = s[j]
      BY <1>2, <2>1, <3>1
    <3> QED BY <1>1, <1>6, <3>1, <3>2
  <2>2. CASE i <= Len(s) /\ j > Len(s)
    <3>1. j - Len(s) \in 1 .. Len(t) /\ i \in 1 .. Len(s)
      BY <1>1, <1>2, <2>2
    <3>2. u[i] = s[i] /\ u[j] = t[j - Len(s)]
      BY <1>1, <1>2, <2>2
    <3> QED BY <1>1, <3>1, <3>2, ZenonT(30)
  <2>3. CASE i > Len(s)
    <3>1. /\ i - Len(s) \in 1 .. Len(t) /\ j - Len(s) \in 1 .. Len(t)
          /\ i - Len(s) < j - Len(s)
      BY <1>1, <1>2, <1>6, <2>3
    <3>2. u[i] = t[i - Len(s)] /\ u[j] = t[j - Len(s)]
      BY <1>1, <1>2, <1>6, <2>3
    <3> QED BY <1>1, <3>1, <3>2, ZenonT(30)
  <2> QED BY <1>1, <1>2, <1>6, <2>1, <2>2, <2>3
<1>7. Lists(u, S \cup T)
  BY <1>2, <1>3, <1>4, <1>5, <1>6 DEF Lists, Ascending
<1> QED BY <1>7 DEF u

(* InOrder goes through all operators and appends those of the set.        *)
LEMMA InOrderLists ==
    ASSUME NEW S, S \subseteq Operators
    PROVE  Lists(InOrder(S), S)
<1> DEFINE Add(n, s) == IF n \in S THEN Append(s, n) ELSE s
           Rec(f) == f = [n \in 0 .. N |-> IF n = 0 THEN <<>>
                                           ELSE IF n \in S THEN Append(f[n - 1], n) ELSE f[n - 1]]
           step == [n \in 1 .. N |-> [s \in Seq(Operators) |-> Add(n, s)]]
<1>0. N \in Nat /\ Operators = 1 .. N
  BY QueriesAssumption DEF Operators
<1>1. \E f : Rec(f)
  <2>1. \A n \in 1 .. N : \A s \in Seq(Operators) : Add(n, s) \in Seq(Operators)
    BY <1>0, Appended, Zenon
  <2>2. <<>> \in Seq(Operators) /\ \A n \in 1 .. N : \A s \in Seq(Operators) :
                                      step[n][s] \in Seq(Operators)
    BY <2>1
  <2>3. PICK f \in [0 .. N -> Seq(Operators)] : Iterates(f, <<>>, step, N)
    <3> HIDE DEF step
    <3> QED BY <1>0, <2>2, IterationExists, Zenon
  <2>4. \A n \in 0 .. N : f[n] = IF n = 0 THEN <<>>
                                 ELSE IF n \in S THEN Append(f[n - 1], n) ELSE f[n - 1]
    <3> SUFFICES ASSUME NEW n \in 0 .. N, n # 0
                 PROVE  f[n] = Add(n, f[n - 1])
      BY <2>3 DEF Iterates
    <3>1. n \in 1 .. N /\ f[n - 1] \in Seq(Operators)
      BY <1>0
    <3>2. f[n] = step[n][f[n - 1]]
      BY <2>3, <3>1, Zenon DEF Iterates
    <3> QED BY <3>1, <3>2
  <2> HIDE DEF step
  <2>5. f = [n \in 0 .. N |-> f[n]]
    OBVIOUS
  <2> QED BY <2>4, <2>5, Zenon
<1> DEFINE F == CHOOSE f : Rec(f)
<1>2. Rec(F) /\ InOrder(S) = F[N]
  BY <1>1, Zenon DEF InOrder
<1> HIDE DEF F
<1>3. F[0] = <<>> /\ \A n \in 1 .. N : F[n] = Add(n, F[n - 1])
  <2>1. \A n \in 0 .. N : F[n] = IF n = 0 THEN <<>>
                                 ELSE IF n \in S THEN Append(F[n - 1], n) ELSE F[n - 1]
    BY <1>2, Zenon
  <2> QED BY <1>0, <2>1
<1> HIDE DEF Rec
<1> DEFINE Bad == {n \in 0 .. N : ~Lists(F[n], S \cap (1 .. n))}
<1>4. Bad = {}
  <2> SUFFICES ASSUME Bad # {} PROVE FALSE
    BY Zenon
  <2>1. PICK n \in Bad : \A k \in Bad : n <= k
    <3>1. Bad \subseteq Nat
      OBVIOUS
    <3> HIDE DEF Bad
    <3> QED BY <3>1, LeastNat, ZenonT(30)
  <2>2. CASE n = 0
    <3>1. S \cap (1 .. n) = {} /\ F[n] = <<>>
      BY <1>3, <2>2
    <3>2. Lists(<<>>, {})
      BY DEF Lists, Ascending
    <3> QED BY <3>1, <3>2, ZenonT(30)
  <2>3. CASE n # 0
    <3>1. n \in 1 .. N /\ n - 1 \in 0 .. N /\ n \in Operators
      BY <1>0, <2>3
    <3>2. Lists(F[n - 1], S \cap (1 .. n - 1))
      BY <2>1, <3>1
    <3>3. CASE n \in S
      <4>1. F[n] = F[n - 1] \o <<n>>
        <5>1. F[n] = Append(F[n - 1], n) /\ F[n - 1] \in Seq(Operators)
          BY <1>3, <3>1, <3>2, <3>3, ZenonT(30) DEF Lists
        <5> QED BY <3>1, <5>1
      <4>2. Lists(<<n>>, {n})
        BY <3>1 DEF Lists, Ascending
      <4>3. S \cap (1 .. n) = (S \cap (1 .. n - 1)) \cup {n}
        BY <3>1, <3>3
      <4>4. Lists(F[n - 1] \o <<n>>, (S \cap (1 .. n - 1)) \cup {n})
        BY <3>1, <3>2, <4>2, ListsConcat
      <4> QED BY <4>1, <4>3, <4>4, ZenonT(30)
    <3>4. CASE n \notin S
      <4>1. S \cap (1 .. n) = S \cap (1 .. n - 1) /\ F[n] = F[n - 1]
        BY <1>3, <3>1, <3>4
      <4> QED BY <3>2, <4>1
    <3> QED BY <3>3, <3>4
  <2> QED BY <2>2, <2>3
<1>5. Lists(F[N], S \cap (1 .. N)) /\ S \cap (1 .. N) = S
  <2>1. N \in 0 .. N
    BY <1>0
  <2>2. S \cap (1 .. N) = S
    BY <1>0, Zenon
  <2> QED BY <1>4, <2>1, <2>2
<1> QED BY <1>2, <1>5

(* The entries after a, up to c.                                           *)
Stretch(S, a, c) == {o \in S : a < o /\ o <= c}

(* The next page: it lists the entries up to its cursor, and it is empty   *)
(* only at the end.                                                        *)
LEMMA PageLists ==
    ASSUME NEW S, S \subseteq Operators, NEW a \in 0 .. N, NEW limit \in Nat,
           NEW page, page = ContractPage(S, a, limit),
           NEW c, c = PaginationCursor(page)
    PROVE  /\ c \in 0 .. N
           /\ Lists(page, Stretch(S, a, c))
           /\ page = <<>> <=> c = 0
           /\ c = 0 => \A o \in S : o <= a
           /\ c # 0 => a < c /\ c \in S
<1> DEFINE R == {o \in S : o > a}
           rest == InOrder(R)
           size == IF limit = 0 THEN PageDefault ELSE Smaller(limit, PageMax)
           k == Smaller(size, Len(rest))
<1>0. N \in Nat /\ Operators = 1 .. N /\ \A o \in Operators : o \in Int
  BY QueriesAssumption DEF Operators
<1>1. Lists(rest, R)
  BY InOrderLists
<1>2. size \in Nat \ {0}
  BY QueriesAssumption DEF Smaller
<1>3. page = SubSeq(rest, 1, k)
  BY DEF ContractPage
<1> HIDE DEF R, rest, size
<1>4. /\ rest \in Seq(Operators) /\ Len(rest) \in Nat
      /\ \A i \in 1 .. Len(rest) : rest[i] \in Operators /\ rest[i] \in R
  BY <1>1, ListsOrder
<1>5. CASE Len(rest) = 0
  <2>1. page = <<>> /\ c = 0
    <3>1. k = 0
      BY <1>2, <1>5 DEF Smaller
    <3>2. page = <<>>
      BY <1>3, <1>4, <3>1, CutNone
    <3> QED BY <3>2 DEF PaginationCursor
  <2>2. R = {}
    BY <1>1, <1>5 DEF Lists
  <2>3. \A o \in S : o <= a
    BY <1>0, <2>2 DEF R
  <2>4. Stretch(S, a, c) = {}
    <3>1. \A o \in S : o \in Int /\ ~(a < o /\ o <= c)
      BY <1>0, <2>1
    <3> QED BY <3>1, Zenon DEF Stretch
  <2>5. Lists(<<>>, {})
    BY DEF Lists, Ascending
  <2>6. c \in 0 .. N
    BY <1>0, <2>1
  <2> QED BY <2>1, <2>3, <2>4, <2>5, <2>6, Zenon
<1>6. CASE Len(rest) # 0
  <2>1. k \in 1 .. Len(rest)
    BY <1>2, <1>4, <1>6 DEF Smaller
  <2> HIDE DEF k
  <2>2. Lists(page, {o \in R : o <= rest[k]}) /\ page # <<>> /\ page[Len(page)] = rest[k]
    BY <1>1, <1>3, <2>1, ListsPrefix
  <2>3. c = rest[k] /\ c \in Operators /\ c \in R
    BY <1>4, <2>1, <2>2 DEF PaginationCursor
  <2>4. {o \in R : o <= rest[k]} = Stretch(S, a, c)
    BY <1>0, <2>3 DEF R, Stretch
  <2>5. c \in 1 .. N /\ a < c /\ c \in S
    BY <1>0, <2>3 DEF R
  <2>6. c \in 0 .. N /\ c # 0
    BY <1>0, <2>5
  <2> QED BY <2>2, <2>4, <2>5, <2>6, Zenon
<1> QED BY <1>5, <1>6

-----------------------------------------------------------------------------
(* The client that lists the validators page by page.                      *)

KeyTypes == {"ed25519", "secp256k1"}
Entries == {Unregistered} \cup [key : KeyTypes, active : BOOLEAN, jailed : BOOLEAN]
Sessions == [open : BOOLEAN, key : 0 .. N, limit : Nat, got : SUBSET Operators,
             twice : BOOLEAN, start : SUBSET Operators]

QType ==
    /\ ready \in BOOLEAN
    /\ vals \in [Operators -> Entries]
    /\ stake \in [Operators -> [liquid : Nat, vesting : Nat]]
    /\ claims \in [Operators -> Seq(Nat \ {0})]
    /\ reward \in [Operators -> {0, 1}]
    /\ session \in Sessions

(* A client whose last answer had the key k has what it has to get of the  *)
(* addresses up to k and nothing beyond; without a key it has everything.  *)
Progress(s, registered) ==
    /\ ~s.twice
    /\ s.got \subseteq registered
    /\ s.start \subseteq registered
    /\ s.open => /\ s.key # 0
                 /\ \A o \in s.got : o <= s.key
                 /\ \A o \in s.start : o <= s.key => o \in s.got
    /\ ~s.open => s.start \subseteq s.got

QInv == QType /\ Progress(session, Registered)

(* An entry is registered when it has a key.                               *)
LEMMA RegisteredKey ==
    ASSUME QType
    PROVE  /\ Registered \subseteq Operators
           /\ Active \subseteq Operators
           /\ \A o \in Operators : o \in Registered <=> vals[o].key \in KeyTypes
           /\ \A o \in Registered : vals[o] \in [key : KeyTypes, active : BOOLEAN, jailed : BOOLEAN]
           /\ \A o \in Registered : toCosmosPubKey(o) = OK(<<vals[o].key, o>>)
<1>1. Registered \subseteq Operators /\ Active \subseteq Operators
  BY DEF Registered, Active
<1>2. ASSUME NEW o \in Operators
      PROVE  o \in Registered <=> vals[o].key \in KeyTypes
  <2>1. vals[o] \in Entries
    BY DEF QType
  <2>2. o \in Registered <=> vals[o] # Unregistered
    BY DEF Registered
  <2>3. Unregistered.key \notin KeyTypes
    BY DEF Unregistered, KeyTypes
  <2>4. vals[o] # Unregistered => vals[o].key \in KeyTypes
    BY <2>1 DEF Entries
  <2> QED BY <2>2, <2>3, <2>4
<1>3. \A o \in Registered : vals[o] \in [key : KeyTypes, active : BOOLEAN, jailed : BOOLEAN]
  BY DEF QType, Entries, Registered
<1>4. \A o \in Registered : toCosmosPubKey(o) = OK(<<vals[o].key, o>>)
  BY <1>3 DEF toCosmosPubKey, KeyTypes
<1> QED BY <1>1, <1>2, <1>3, <1>4

(* Answers and errors are told apart by their code.                        *)
LEMMA Answers == \A v : OK(v).code = "OK" /\ OK(v).value = v /\ Err(v).code = v
BY DEF OK, Err

(* The next page of the validators.                                        *)
LEMMA RegisteredPage ==
    ASSUME QType, NEW key \in 0 .. N, NEW limit \in Nat,
           NEW page, page = ContractPage(Registered, key, limit),
           NEW c, c = PaginationCursor(page)
    PROVE  /\ c \in 0 .. N
           /\ Lists(page, Stretch(Registered, key, c))
           /\ c = 0 => \A o \in Registered : o <= key
           /\ c # 0 => key < c
<1>1. Registered \subseteq Operators
  BY RegisteredKey
<1> HIDE DEF Registered
<1> QED BY <1>1, PageLists

Request(key, limit) == [key |-> key, limit |-> limit, offset |-> 0, countTotal |-> FALSE]
Shown(answer) == {answer.value.validators[i].operator : i \in DOMAIN answer.value.validators}

(* What the server answers is the page of the contract.                    *)
LEMMA AnswerLists ==
    ASSUME QType, NEW key \in 0 .. N, NEW limit \in Nat, NEW answer,
           answer = Validators("", Request(key, limit)), answer.code = "OK"
    PROVE  /\ answer.value.cursor \in 0 .. N
           /\ Shown(answer) = Stretch(Registered, key, answer.value.cursor)
           /\ answer.value.cursor = 0 => \A o \in Registered : o <= key
           /\ answer.value.cursor # 0 => key < answer.value.cursor
<1> DEFINE page == ContractPage(Registered, key, limit)
           c == PaginationCursor(page)
           shown == [i \in DOMAIN page |-> ToValidator(page[i])]
<1>1. answer = OK([validators |-> shown, cursor |-> c])
  <2>1. NewPaginator(Request(key, limit)) = OK([startAfter |-> key, limit |-> limit])
    BY Zenon DEF NewPaginator, Request
  <2> DEFINE r == ListValidators([startAfter |-> key, limit |-> limit])
             good == OK([validators |-> shown, cursor |-> c])
  <2>2. answer = IF r.code # "OK" THEN Err("Internal") ELSE r
    BY <2>1, Answers, Zenon DEF Validators
  <2>3. r = Err("error") \/ r = good
    BY Zenon DEF ListValidators
  <2> HIDE DEF r, good
  <2>4. "error" # "OK" /\ "Internal" # "OK"
    BY Zenon
  <2>5. answer = good
    BY <2>2, <2>3, <2>4, Answers, ZenonT(30)
  <2> QED BY <2>5, Zenon DEF good
<1> HIDE DEF page, c, shown
<1>2. answer.value.validators = shown /\ answer.value.cursor = c
  <2>1. answer.value = [validators |-> shown, cursor |-> c]
    BY <1>1, Answers, ZenonT(30)
  <2>2. /\ [validators |-> shown, cursor |-> c].validators = shown
        /\ [validators |-> shown, cursor |-> c].cursor = c
    BY Zenon
  <2> QED BY <2>1, <2>2, Zenon
<1>3. /\ c \in 0 .. N
      /\ Lists(page, Stretch(Registered, key, c))
      /\ c = 0 => \A o \in Registered : o <= key
      /\ c # 0 => key < c
  <2>1. page = ContractPage(Registered, key, limit) /\ c = PaginationCursor(page)
    BY Zenon DEF page, c
  <2> QED BY <2>1, RegisteredPage, Zenon
<1> DEFINE T == Stretch(Registered, key, c)
<1>4. {shown[i].operator : i \in DOMAIN shown} = T
  <2>1. DOMAIN page = 1 .. Len(page) /\ DOMAIN shown = DOMAIN page
    BY <1>3, ListShape, Zenon DEF Lists, shown
  <2>2. \A i \in DOMAIN page : shown[i].operator = page[i]
    BY Zenon DEF ToValidator, shown
  <2>3. (\A i \in 1 .. Len(page) : page[i] \in T) /\ \A o \in T : \E i \in 1 .. Len(page) : page[i] = o
    BY <1>3, Zenon DEF Lists
  <2> HIDE DEF T
  <2> HIDE DEF shown
  <2>4. \A i \in DOMAIN shown : shown[i].operator \in T
    BY <2>1, <2>2, <2>3, Zenon
  <2>5. \A o \in T : \E i \in DOMAIN shown : shown[i].operator = o
    BY <2>1, <2>2, <2>3, Zenon
  <2> QED BY <2>4, <2>5, Zenon
<1> QED BY <1>2, <1>3, <1>4, Zenon DEF Shown

(* An answer brings the client forward.                                    *)
LEMMA AfterProgress ==
    ASSUME QType, NEW s \in Sessions, NEW c \in 0 .. N, NEW page, NEW r,
           page = Stretch(Registered, s.key, c),
           c = 0 => \A o \in Registered : o <= s.key,
           c # 0 => s.key < c,
           r = [s EXCEPT !.open = c # 0, !.key = c, !.got = @ \cup page,
                         !.twice = @ \/ page \cap s.got # {}],
           ~s.twice, s.got \subseteq Registered, s.start \subseteq Registered,
           \A o \in s.got : o <= s.key,
           \A o \in s.start : o <= s.key => o \in s.got
    PROVE  r \in Sessions /\ Progress(r, Registered)
<1>0. s.key \in 0 .. N /\ s.limit \in Nat /\ Registered \subseteq Operators
  BY RegisteredKey DEF Sessions
<1>1. /\ page \subseteq Registered
      /\ \A o \in Registered : o \in page <=> s.key < o /\ o <= c
  BY DEF Stretch
<1>2. /\ r.open = (c # 0) /\ r.key = c /\ r.got = s.got \cup page
      /\ r.twice = (s.twice \/ page \cap s.got # {})
      /\ r.start = s.start /\ r.limit = s.limit
  BY Zenon DEF Sessions
<1>3. r \in Sessions
  <2>1. (c # 0) \in BOOLEAN /\ (s.twice \/ page \cap s.got # {}) \in BOOLEAN
    OBVIOUS
  <2>2. s.got \cup page \in SUBSET Operators /\ c \in 0 .. N
    BY <1>0, <1>1
  <2> QED BY <2>1, <2>2, Zenon DEF Sessions
<1>4. \A o \in Registered : o \in Int
  BY <1>0, QueriesAssumption DEF Operators
<1>5. page \cap s.got = {}
  <2>1. \A o \in page : o \in Registered /\ s.key < o
    BY <1>1
  <2>2. \A o \in page : o \notin s.got
    BY <1>0, <1>4, <2>1
  <2> QED BY <2>2
<1>6. r.got \subseteq Registered
  BY <1>1, <1>2
<1>7. ASSUME c # 0
      PROVE  (\A o \in r.got : o <= c) /\ \A o \in r.start : o <= c => o \in r.got
  <2>1. \A o \in s.got : o <= c
    BY <1>0, <1>4, <1>7
  <2>2. \A o \in page : o <= c
    BY <1>1
  <2>3. ASSUME NEW o \in s.start, o <= c PROVE o \in r.got
    <3>1. CASE o <= s.key
      BY <1>2, <3>1
    <3>2. CASE s.key < o
      BY <1>1, <1>2, <2>3, <3>2
    <3> QED BY <1>0, <1>4, <3>1, <3>2
  <2> QED BY <1>2, <2>1, <2>2, <2>3
<1>8. c = 0 => r.start \subseteq r.got
  BY <1>2
<1>9. Progress(r, Registered)
  BY <1>2, <1>5, <1>6, <1>7, <1>8, ZenonT(30) DEF Progress
<1> QED BY <1>3, <1>9


(* No session.                                                             *)
LEMMA ClosedSession ==
    /\ Closed \in Sessions /\ Closed.key = 0 /\ ~Closed.open /\ ~Closed.twice
    /\ Closed.got = {} /\ Closed.start = {}
<1>1. 0 \in 0 .. N /\ 0 \in Nat
  BY QueriesAssumption
<1>2. Closed \in Sessions
  BY <1>1 DEF Closed, Sessions
<1> QED BY <1>2 DEF Closed

(* Registration is for ever, and a change of the contracts leaves a client *)
(* where it was.                                                           *)
LEMMA FrameProgress ==
    ASSUME QInv, session' = session, Registered \subseteq Registered'
    PROVE  Progress(session, Registered)'
BY DEF QInv, Progress

(* One step keeps the inductive invariant.                                 *)
LEMMA QueryStep == QInv /\ [Next]_vars => QInv'
<1> SUFFICES ASSUME QInv, [Next]_vars PROVE QInv'
  OBVIOUS
<1>0. QType /\ Registered \subseteq Operators /\ Stakers \subseteq Operators
      /\ Amounts \subseteq Nat /\ Limits \subseteq Nat
  BY RegisteredKey, QueriesAssumption DEF QInv, Operators
<1>1. ASSUME vals' = vals PROVE Registered' = Registered
  BY <1>1 DEF Registered
<1>2. ASSUME vals' = vals, session' = session, QType' PROVE QInv'
  BY <1>1, <1>2, FrameProgress DEF QInv
<1>3. ASSUME vals' \in [Operators -> Entries], \A o \in Registered : vals'[o].key \in KeyTypes,
             UNCHANGED <<ready, stake, claims, reward, session>>
      PROVE  QInv'
  <2>1. QType'
    BY <1>0, <1>3 DEF QType
  <2>2. Registered \subseteq Registered'
    <3>1. \A o \in Registered : o \in Operators /\ vals'[o] # Unregistered
      BY <1>0, <1>3 DEF Unregistered, KeyTypes
    <3> QED BY <3>1 DEF Registered
  <2> QED BY <1>3, <2>1, <2>2, FrameProgress DEF QInv
<1>4. CASE SetUp
  BY <1>0, <1>2, <1>4 DEF SetUp, QType
<1>5. ASSUME NEW o \in Operators, NEW type, Register(o, type)
      PROVE  QInv'
  <2> DEFINE new == [key |-> type, active |-> FALSE, jailed |-> FALSE]
  <2>1. new \in Entries /\ new.key \in KeyTypes
    BY <1>5 DEF Register, Entries, KeyTypes
  <2>2. vals' = [vals EXCEPT ![o] = new] /\ UNCHANGED <<ready, stake, claims, reward, session>>
    BY <1>5 DEF Register
  <2> HIDE DEF new
  <2>3. vals' \in [Operators -> Entries]
    BY <1>0, <2>1, <2>2 DEF QType
  <2>4. \A p \in Registered : vals'[p].key \in KeyTypes
    BY <1>0, <2>1, <2>2, RegisteredKey DEF QType
  <2> QED BY <1>3, <2>2, <2>3, <2>4
<1>6. ASSUME NEW o \in Operators, Jail(o)
      PROVE  QInv'
  <2> DEFINE old == vals[o]
             new == [key |-> old.key, active |-> FALSE, jailed |-> ~old.jailed]
  <2>1. old \in [key : KeyTypes, active : BOOLEAN, jailed : BOOLEAN]
    BY <1>0, <1>6, RegisteredKey DEF Jail
  <2>2. vals' = [vals EXCEPT ![o] = new] /\ UNCHANGED <<ready, stake, claims, reward, session>>
    BY <1>0, <1>6, <2>1 DEF Jail, QType
  <2>3. new \in Entries /\ new.key \in KeyTypes
    BY <2>1 DEF Entries
  <2> HIDE DEF old, new
  <2>4. vals' \in [Operators -> Entries]
    BY <1>0, <2>2, <2>3 DEF QType
  <2>5. \A p \in Registered : vals'[p].key \in KeyTypes
    BY <1>0, <2>2, <2>3, RegisteredKey DEF QType
  <2> QED BY <1>3, <2>2, <2>4, <2>5
<1>7. ASSUME NEW S, UpdateActive(S)
      PROVE  QInv'
  <2>1. /\ vals' = [o \in Operators |-> IF o \in Registered THEN [vals[o] EXCEPT !.active = o \in S]
                                        ELSE vals[o]]
        /\ UNCHANGED <<ready, stake, claims, reward, session>>
    BY <1>7 DEF UpdateActive
  <2>2. ASSUME NEW o \in Registered
        PROVE  /\ [vals[o] EXCEPT !.active = o \in S] \in Entries
               /\ [vals[o] EXCEPT !.active = o \in S].key \in KeyTypes
    <3>1. vals[o] \in [key : KeyTypes, active : BOOLEAN, jailed : BOOLEAN] /\ (o \in S) \in BOOLEAN
      BY <1>0, RegisteredKey
    <3> QED BY <3>1, ZenonT(30) DEF Entries
  <2>3. vals' \in [Operators -> Entries]
    BY <1>0, <2>1, <2>2 DEF QType
  <2>4. \A p \in Registered : vals'[p].key \in KeyTypes
    BY <1>0, <2>1, <2>2
  <2> QED BY <1>3, <2>1, <2>3, <2>4
<1>8. ASSUME NEW o \in Stakers, NEW l \in Amounts, NEW v \in Amounts, Bond(o, l, v)
      PROVE  QInv'
  <2>1. /\ o \in Operators /\ l \in Nat /\ v \in Nat
        /\ stake[o].liquid \in Nat /\ stake[o].vesting \in Nat
    BY <1>0 DEF QType
  <2>2. [liquid |-> stake[o].liquid + l, vesting |-> stake[o].vesting + v]
          \in [liquid : Nat, vesting : Nat]
    BY <2>1
  <2>3. stake' \in [Operators -> [liquid : Nat, vesting : Nat]]
    BY <1>0, <1>8, <2>1, <2>2 DEF Bond, QType
  <2> QED BY <1>0, <1>2, <1>8, <2>3, ZenonT(30) DEF Bond, QType
<1>9. ASSUME NEW o \in Stakers, NEW n \in Amounts, Unbond(o, n)
      PROVE  QInv'
  <2> DEFINE l == Smaller(n, stake[o].liquid)
             new == [liquid |-> stake[o].liquid - l, vesting |-> stake[o].vesting - (n - l)]
  <2>1. /\ o \in Operators /\ n \in 1 .. stake[o].liquid + stake[o].vesting
        /\ stake[o].liquid \in Nat /\ stake[o].vesting \in Nat
    BY <1>0, <1>9 DEF QType, Unbond
  <2>2. new \in [liquid : Nat, vesting : Nat] /\ n \in Nat \ {0}
    BY <2>1 DEF Smaller
  <2>3. /\ stake' = [stake EXCEPT ![o] = new] /\ claims' = [claims EXCEPT ![o] = Append(@, n)]
        /\ UNCHANGED <<ready, vals, reward, session>>
    BY <1>9 DEF Unbond
  <2> HIDE DEF new
  <2>4. stake' \in [Operators -> [liquid : Nat, vesting : Nat]]
    BY <1>0, <2>1, <2>2, <2>3 DEF QType
  <2>5. claims' \in [Operators -> Seq(Nat \ {0})]
    <3>1. claims[o] \in Seq(Nat \ {0})
      BY <1>0, <2>1 DEF QType
    <3>2. Append(claims[o], n) \in Seq(Nat \ {0})
      BY <2>2, <3>1, Appended
    <3> QED BY <1>0, <2>1, <2>3, <3>2 DEF QType
  <2> QED BY <1>0, <1>2, <2>3, <2>4, <2>5 DEF QType
<1>10. ASSUME NEW o \in Stakers, Release(o)
      PROVE  QInv'
  <2>1. claims' = [claims EXCEPT ![o] = Tail(@)] /\ UNCHANGED <<ready, vals, stake, reward, session>>
    BY <1>10 DEF Release
  <2>2. claims' \in [Operators -> Seq(Nat \ {0})]
    <3>1. o \in Operators /\ claims[o] \in Seq(Nat \ {0}) /\ claims[o] # <<>>
      BY <1>0, <1>10 DEF QType, Release
    <3>2. Tail(claims[o]) \in Seq(Nat \ {0})
      BY <3>1
    <3> QED BY <1>0, <2>1, <3>1, <3>2 DEF QType
  <2> QED BY <1>0, <1>2, <2>1, <2>2 DEF QType
<1>11. ASSUME NEW o \in Stakers, Distribute(o)
      PROVE  QInv'
  <2>1. reward' = [reward EXCEPT ![o] = 1 - @] /\ UNCHANGED <<ready, vals, stake, claims, session>>
    BY <1>11 DEF Distribute
  <2>2. reward' \in [Operators -> {0, 1}]
    BY <1>0, <2>1 DEF QType
  <2> QED BY <1>0, <1>2, <2>1, <2>2 DEF QType
<1>12. ASSUME NEW s \in Sessions, NEW answer,
              answer = Validators("", Request(s.key, s.limit)),
              answer.code = "OK",
              ~s.twice, s.got \subseteq Registered, s.start \subseteq Registered,
              \A o \in s.got : o <= s.key,
              \A o \in s.start : o <= s.key => o \in s.got,
              session' = After(s, answer), UNCHANGED <<ready, vals, stake, claims, reward>>
      PROVE  QInv'
  <2> DEFINE c == answer.value.cursor
             page == Shown(answer)
  <2>1. s.key \in 0 .. N /\ s.limit \in Nat
    BY <1>12, ZenonT(30) DEF Sessions
  <2>2. /\ c \in 0 .. N
        /\ page = Stretch(Registered, s.key, c)
        /\ c = 0 => \A o \in Registered : o <= s.key
        /\ c # 0 => s.key < c
    BY <1>0, <1>12, <2>1, AnswerLists, Zenon
  <2>3. session' = [s EXCEPT !.open = c # 0, !.key = c, !.got = @ \cup page,
                             !.twice = @ \/ page \cap s.got # {}]
    BY <1>12, ZenonT(30) DEF After, Shown
  <2> HIDE DEF c, page
  <2>4. session' \in Sessions /\ Progress(session', Registered)
    BY <1>0, <1>12, <2>2, <2>3, AfterProgress, ZenonT(30)
  <2>5. Registered' = Registered /\ QType'
    BY <1>0, <1>1, <1>12, <2>4, ZenonT(30) DEF QType
  <2> QED BY <2>4, <2>5 DEF QInv, Progress
<1>13. ASSUME NEW limit \in Limits, FirstPage(limit)
      PROVE  QInv'
  <2> DEFINE s == [Closed EXCEPT !.limit = limit, !.start = Registered]
             answer == Validators("", Request(0, limit))
  <2>1. Closed \in Sessions /\ limit \in Nat /\ Registered \in SUBSET Operators
    BY <1>0, ClosedSession
  <2>2. /\ session' = After(s, answer) /\ answer.code = "OK"
        /\ UNCHANGED <<ready, vals, stake, claims, reward>>
    BY <1>13, ZenonT(30) DEF FirstPage, Request
  <2>3. /\ s.key = Closed.key /\ s.limit = limit /\ s.got = Closed.got
        /\ s.twice = Closed.twice /\ s.start = Registered /\ s \in Sessions
    BY <2>1, Zenon DEF Sessions
  <2> HIDE DEF s
  <2>4. s.key = 0 /\ s.got = {} /\ ~s.twice
    BY <2>3, ClosedSession
  <2>5. answer = Validators("", Request(s.key, s.limit))
    BY <2>3, <2>4, Zenon
  <2>6. \A o \in s.start : ~(o <= s.key)
    <3>1. \A o \in Operators : ~(o <= 0)
      BY QueriesAssumption DEF Operators
    <3> QED BY <2>1, <2>3, <2>4, <3>1
  <2> HIDE DEF answer
  <2> QED BY <1>12, <2>2, <2>3, <2>4, <2>5, <2>6, ZenonT(30)
<1>14. CASE NextPage
  <2> DEFINE answer == Validators("", Request(session.key, session.limit))
  <2>1. /\ session.open /\ session' = After(session, answer) /\ answer.code = "OK"
        /\ UNCHANGED <<ready, vals, stake, claims, reward>>
    BY <1>14, Zenon DEF NextPage, Request
  <2>2. session \in Sessions /\ Progress(session, Registered)
    BY DEF QInv, QType
  <2> HIDE DEF answer
  <2>3. answer = Validators("", Request(session.key, session.limit))
    BY DEF answer
  <2> QED BY <1>12, <2>1, <2>2, <2>3, ZenonT(30) DEF Progress
<1>15. CASE UNCHANGED vars
  BY <1>0, <1>2, <1>15 DEF vars, QType
<1> QED
  BY <1>4, <1>5, <1>6, <1>7, <1>8, <1>9, <1>10, <1>11, <1>13, <1>14, <1>15, ZenonT(30) DEF Next

(* No contract is set up and no client has begun.                          *)
LEMMA QueryInit == Init => QInv
<1> SUFFICES ASSUME Init PROVE QInv
  OBVIOUS
<1>1. session = Closed
  BY DEF Init
<1>2. QType
  <2>1. vals \in [Operators -> Entries] /\ ready \in BOOLEAN
    BY ZenonT(30) DEF Init, Entries
  <2>2. stake \in [Operators -> [liquid : Nat, vesting : Nat]] /\ reward \in [Operators -> {0, 1}]
    BY DEF Init
  <2>3. claims \in [Operators -> Seq(Nat \ {0})]
    <3>1. <<>> \in Seq(Nat \ {0})
      BY EmptyList
    <3> QED BY <3>1 DEF Init
  <2> QED BY <1>1, <2>1, <2>2, <2>3, ClosedSession DEF QType
<1> QED BY <1>1, <1>2, ClosedSession DEF QInv, Progress

(* The inductive invariant holds in every reachable state.                 *)
THEOREM QueryInvariance == Spec => []QInv
BY QueryInit, QueryStep, PTL DEF Spec

(* For any number of validators, any page size of the contract and any     *)
(* limit of the client: following the keys of the Validators query gets    *)
(* every validator that was registered at the beginning, and none twice,   *)
(* whatever registers between the pages.                                   *)
THEOREM PagesCover == Spec => []PagesCoverAll
<1>1. QInv => PagesCoverAll
  BY DEF QInv, Progress, PagesCoverAll
<1> QED BY <1>1, QueryInvariance, PTL
-----------------------------------------------------------------------------
(* The servers answer alike.                                               *)

Bonded(o) == stake[o].liquid + stake[o].vesting
Record(o) == [delegator |-> o, validator |-> o, balance |-> Bonded(o)]

(* The codes are different.                                                *)
LEMMA Codes ==
    /\ \A c \in {"error", "Internal", "NotFound", "InvalidArgument", "panic"} : c # "OK"
    /\ "NotFound" \notin {"Internal", "InvalidArgument", "error"}
    /\ "panic" \notin {"error"}
OBVIOUS

(* The arguments that are no operators.                                    *)
LEMMA OtherAddresses ==
    /\ NoText \notin Operators /\ Malformed \notin Operators /\ NoText # Malformed
    /\ \A d \in Addresses : d \in Operators \/ d = NoText \/ d = Malformed
BY QueriesAssumption DEF Operators, Addresses

(* The stake contract's answer, as the adapter passes it on.               *)
LEMMA StakedAnswer ==
    ASSUME QType, NEW o \in Operators
    PROVE  /\ Bonded(o) \in Nat
           /\ ~ready => QueryStakedAmount(o) = Err("error")
           /\ ready /\ Bonded(o) = 0 => QueryStakedAmount(o) = OK(<<>>)
           /\ ready /\ Bonded(o) # 0 => QueryStakedAmount(o) = OK(<<Bonded(o)>>)
<1>1. stake[o].liquid \in Nat /\ stake[o].vesting \in Nat
  BY DEF QType
<1>2. Bonded(o) \in Nat /\ (Bonded(o) = 0 <=> stake[o].liquid = 0 /\ stake[o].vesting = 0)
  BY <1>1 DEF Bonded
<1> QED BY <1>2 DEF QueryStakedAmount, Bonded

(* The delegation of an operator to itself, by each of the servers.        *)
LEMMA DelegationAnswers ==
    ASSUME QType, NEW o \in Operators
    PROVE  /\ ~ready => /\ ValidatorDelegation(o) = Err("Internal")
                        /\ ValidatorDelegations(o) = Err("Internal")
                        /\ AllDelegations(o) = Err("error")
           /\ ready /\ Bonded(o) = 0 => /\ ValidatorDelegation(o) = Err("NotFound")
                                        /\ ValidatorDelegations(o) = OK(<<>>)
                                        /\ AllDelegations(o) = OK(<<>>)
           /\ ready /\ Bonded(o) # 0 =>
                 /\ ValidatorDelegation(o) = OK(Bonded(o))
                 /\ ValidatorDelegations(o) = OK(<<Record(o)>>)
                 /\ AllDelegations(o) = IF Bonded(o) >= Uint64 THEN Err("panic")
                                        ELSE OK(<<Bonded(o)>>)
<1> DEFINE r == QueryStakedAmount(o)
<1>0. /\ ~ready => r = Err("error")
      /\ ready /\ Bonded(o) = 0 => r = OK(<<>>)
      /\ ready /\ Bonded(o) # 0 => r = OK(<<Bonded(o)>>)
      /\ <<Bonded(o)>> # <<>> /\ <<Bonded(o)>>[1] = Bonded(o)
  BY StakedAnswer
<1>1. /\ ValidatorDelegation(o) = IF r.code # "OK" THEN Err("Internal")
                                  ELSE IF r.value = <<>> THEN Err("NotFound") ELSE OK(r.value[1])
      /\ AllDelegations(o) = IF r.code # "OK" \/ r.value = <<>> THEN r
                             ELSE IF r.value[1] >= Uint64 THEN Err("panic") ELSE r
  BY DEF ValidatorDelegation, AllDelegations
<1> HIDE DEF r
<1> DEFINE w == ValidatorDelegation(o)
<1>2. ValidatorDelegations(o)
        = IF w.code = "NotFound" THEN OK(<<>>) ELSE IF w.code # "OK" THEN w
          ELSE OK(<<[delegator |-> o, validator |-> o, balance |-> w.value]>>)
  BY DEF ValidatorDelegations
<1> HIDE DEF w
<1>3. CASE ~ready
  <2>1. w = Err("Internal") /\ AllDelegations(o) = Err("error")
    BY <1>0, <1>1, <1>3, Answers, Codes, Zenon DEF w
  <2>2. ValidatorDelegations(o) = w
    BY <1>2, <2>1, Answers, Codes, Zenon
  <2> QED BY <1>3, <2>1, <2>2, Zenon DEF w
<1>4. CASE ready /\ Bonded(o) = 0
  <2>1. w = Err("NotFound") /\ AllDelegations(o) = OK(<<>>)
    BY <1>0, <1>1, <1>4, Answers, Codes, Zenon DEF w
  <2>2. ValidatorDelegations(o) = OK(<<>>)
    BY <1>2, <2>1, Answers, Codes, Zenon
  <2> QED BY <1>4, <2>1, <2>2, Zenon DEF w
<1>5. CASE ready /\ Bonded(o) # 0
  <2>0. r.code = "OK" /\ r.value = <<Bonded(o)>> /\ r = OK(<<Bonded(o)>>)
    BY <1>0, <1>5, Answers, Zenon
  <2>1. w = OK(Bonded(o)) /\ AllDelegations(o) = IF Bonded(o) >= Uint64 THEN Err("panic")
                                                 ELSE OK(<<Bonded(o)>>)
    BY <1>0, <1>1, <2>0, Zenon DEF w
  <2>2. w.code = "OK" /\ w.value = Bonded(o) /\ "OK" # "NotFound"
    BY <2>1, Answers, Zenon
  <2>3. ValidatorDelegations(o) = OK(<<Record(o)>>)
    BY <1>2, <2>2, Zenon DEF Record
  <2> QED BY <1>5, <2>1, <2>3, Zenon DEF w
<1> QED BY <1>3, <1>4, <1>5

(* Of an address that is no operator's they say nothing.                   *)
LEMMA NoDelegation ==
    ASSUME NEW d, d \notin Operators
    PROVE  /\ ValidatorDelegation(d) = Err("InvalidArgument")
           /\ ValidatorDelegations(d) = Err("InvalidArgument")
           /\ AllDelegations(d) = Err("error")
<1>1. ValidatorDelegation(d) = Err("InvalidArgument") /\ AllDelegations(d) = Err("error")
  BY DEF ValidatorDelegation, AllDelegations
<1>2. "InvalidArgument" # "NotFound" /\ "InvalidArgument" # "OK"
  OBVIOUS
<1> QED BY <1>1, <1>2, Answers, Zenon DEF ValidatorDelegations

(* The validator of an address.                                            *)
LEMMA ValidatorAnswers ==
    ASSUME QType, NEW d \in Addresses
    PROVE  /\ d = NoText => Validator(d) = Err("InvalidArgument")
           /\ d = Malformed => Validator(d) = Err("error")
           /\ d \in Operators /\ ~ready => Validator(d) = Err("Internal")
           /\ d \in Operators /\ ready /\ d \notin Registered => Validator(d) = Err("NotFound")
           /\ d \in Registered /\ ready => Validator(d) = OK(ToValidator(d))
<1>0. d \in Operators => d # NoText /\ d # Malformed
  BY OtherAddresses
<1>1. (d = NoText => Validator(d) = Err("InvalidArgument"))
      /\ (d = Malformed => Validator(d) = Err("error"))
  BY OtherAddresses DEF Validator
<1> DEFINE r == QueryValidator(d)
<1>2. d \in Operators => Validator(d) = IF r.code # "OK" THEN Err("Internal")
                                        ELSE IF r.value = <<>> THEN Err("NotFound")
                                        ELSE OK(r.value[1])
  BY <1>0 DEF Validator
<1>3. /\ ~ready => r = Err("error")
      /\ ready /\ d \notin Registered => r = OK(<<>>)
  BY DEF QueryValidator
<1>4. d \in Registered => toCosmosPubKey(d).code = "OK" /\ d \in Operators
  BY RegisteredKey, Answers, ZenonT(30)
<1>5. d \in Registered /\ ready => r = OK(<<ToValidator(d)>>)
  BY <1>4, Zenon DEF QueryValidator
<1> HIDE DEF r
<1>6. <<ToValidator(d)>> # <<>> /\ <<ToValidator(d)>>[1] = ToValidator(d)
  OBVIOUS
<1>7. d \in Operators /\ ~ready => Validator(d) = Err("Internal")
  BY <1>2, <1>3, Answers, Codes, Zenon
<1>8. d \in Operators /\ ready /\ d \notin Registered => Validator(d) = Err("NotFound")
  BY <1>2, <1>3, Answers, Codes, Zenon
<1>9. d \in Registered /\ ready => Validator(d) = OK(ToValidator(d))
  BY <1>2, <1>4, <1>5, <1>6, Answers, Codes, Zenon
<1> QED BY <1>1, <1>7, <1>8, <1>9

(* The staking server's single delegation.                                 *)
LEMMA SingleAnswer ==
    ASSUME NEW d, NEW v
    PROVE  /\ d = NoText \/ v = NoText => Delegation(d, v) = Err("InvalidArgument")
           /\ d # NoText /\ v # NoText /\ d # v => Delegation(d, v) = Err("NotFound")
           /\ d # NoText /\ d = v =>
                 LET r == ValidatorDelegations(d) IN
                 Delegation(d, v) = IF r.code # "OK" THEN r
                                    ELSE IF r.value = <<>> THEN Err("NotFound") ELSE OK(r.value[1])
BY DEF Delegation

(* What ServersAgree says of the answers about a delegation.               *)
Alike(d, v, native, list, single, asked) ==
    /\ single.code = "OK" <=> d = v /\ native.code = "OK"
    /\ single.code = "OK" => single.value.balance = native.value /\ list = OK(<<single.value>>)
    /\ list = OK(<<>>) <=> native.code = "NotFound"
    /\ d \in Operators /\ ready =>
          /\ list.code = "OK" /\ Len(list.value) <= 1
          /\ asked.code = "panic" \/ asked = OK([i \in DOMAIN list.value |-> list.value[i].balance])
          /\ asked.code = "panic" => native.value >= Uint64
    /\ ~ready => "OK" \notin {native.code, list.code, single.code, asked.code}

LEMMA DelegationsAgree ==
    ASSUME QType, NEW d \in Addresses, NEW v \in Addresses
    PROVE  Alike(d, v, ValidatorDelegation(d), DelegatorDelegations(d), Delegation(d, v),
                 AllDelegations(d))
<1> DEFINE native == ValidatorDelegation(d)
           list   == DelegatorDelegations(d)
           single == Delegation(d, v)
           asked  == AllDelegations(d)
<1>a. /\ native = ValidatorDelegation(d) /\ list = DelegatorDelegations(d)
      /\ single = Delegation(d, v) /\ asked = AllDelegations(d)
  OBVIOUS
<1> SUFFICES Alike(d, v, native, list, single, asked)
  OBVIOUS
<1> HIDE DEF native, list, single, asked
<1>0. /\ OK(<<>>).code = "OK" /\ Err("NotFound").code = "NotFound"
      /\ Err("InvalidArgument").code = "InvalidArgument" /\ Err("Internal").code = "Internal"
      /\ Err("error").code = "error" /\ Err("panic").code = "panic"
  BY Answers
<1>1. d # NoText => list = ValidatorDelegations(d)
  BY <1>a DEF DelegatorDelegations
<1>2. ASSUME d # v \/ d = NoText \/ v = NoText
      PROVE  single.code # "OK"
  <2>1. single = Err("InvalidArgument") \/ single = Err("NotFound")
    BY <1>a, <1>2, SingleAnswer, Zenon
  <2> QED BY <1>0, <2>1, Codes
<1>3. CASE d \notin Operators
  <2>1. native = Err("InvalidArgument") /\ asked = Err("error") /\ list = Err("InvalidArgument")
    BY <1>a, <1>1, <1>3, NoDelegation, ZenonT(30) DEF DelegatorDelegations
  <2>2. d # NoText /\ d = v => single = Err("InvalidArgument")
    <3>1. ValidatorDelegations(d) = Err("InvalidArgument")
      BY <1>3, NoDelegation
    <3> QED BY <1>a, <1>0, <3>1, SingleAnswer, Codes, <1>a, ZenonT(30)
  <2>3. single.code # "OK"
    BY <1>0, <1>2, <2>2, Codes
  <2> QED BY <1>0, <1>3, <2>1, <2>3, Codes, ZenonT(30) DEF Alike
<1>4. ASSUME d \in Operators PROVE d # NoText /\ list = ValidatorDelegations(d)
  BY <1>1, <1>4, OtherAddresses
<1>5. CASE d \in Operators /\ ~ready
  <2>1. native = Err("Internal") /\ asked = Err("error") /\ list = Err("Internal")
    BY <1>4, <1>5, DelegationAnswers, <1>a, Zenon
  <2>2. d = v => single = Err("Internal")
    BY <1>0, <1>4, <1>5, <2>1, SingleAnswer, Codes, <1>a, ZenonT(30)
  <2>3. single.code # "OK"
    BY <1>0, <1>2, <2>2, Codes
  <2> QED BY <1>0, <1>5, <2>1, <2>3, Codes DEF Alike
<1>6. CASE d \in Operators /\ ready /\ Bonded(d) = 0
  <2>1. native = Err("NotFound") /\ asked = OK(<<>>) /\ list = OK(<<>>) /\ list.value = <<>>
    BY <1>4, <1>6, DelegationAnswers, Answers, <1>a, Zenon
  <2>2. d = v => single = Err("NotFound")
    BY <1>0, <1>4, <1>6, <2>1, SingleAnswer, <1>a
  <2>3. single.code # "OK"
    BY <1>0, <1>2, <2>2, Codes
  <2>4. [i \in DOMAIN list.value |-> list.value[i].balance] = <<>>
    BY <2>1
  <2>5. native.code = "NotFound" /\ asked.code # "panic" /\ list.code = "OK" /\ Len(list.value) <= 1
    BY <1>0, <2>1, Codes
  <2> QED BY <1>6, <2>1, <2>3, <2>4, <2>5, Codes, Zenon DEF Alike
<1>7. CASE d \in Operators /\ ready /\ Bonded(d) # 0
  <2> DEFINE b == Record(d)
  <2>0. b.balance = Bonded(d)
    BY DEF Record
  <2>1. /\ native = OK(Bonded(d)) /\ list = OK(<<b>>)
        /\ asked = IF Bonded(d) >= Uint64 THEN Err("panic") ELSE OK(<<Bonded(d)>>)
    BY <1>4, <1>7, DelegationAnswers, <1>a
  <2> HIDE DEF b
  <2>2. /\ native.code = "OK" /\ native.value = Bonded(d)
        /\ list.code = "OK" /\ list.value = <<b>>
    BY <2>1, Answers
  <2>3. /\ <<b>> # <<>> /\ <<b>>[1] = b /\ Len(<<b>>) = 1
    OBVIOUS
  <2>4. d = v => single = OK(b)
    BY <1>4, <1>7, <2>2, <2>3, SingleAnswer, <1>a, ZenonT(30)
  <2>5. d = v => single.code = "OK" /\ single.value = b
    BY <2>4, Answers
  <2>6. [i \in DOMAIN list.value |-> list.value[i].balance] = <<Bonded(d)>>
    BY <2>0, <2>2
  <2>7. list # OK(<<>>)
    <3>1. OK(<<>>).value = <<>>
      BY Answers
    <3> QED BY <2>2, <2>3, <3>1, ZenonT(30)
  <2>8. asked.code = "panic" \/ asked = OK(<<Bonded(d)>>)
    BY <1>0, <2>1
  <2>9. asked.code = "panic" => native.value >= Uint64
    <3>1. OK(<<Bonded(d)>>).code = "OK"
      BY Answers
    <3> QED BY <2>1, <2>2, <3>1, Codes
  <2>10. /\ single.code = "OK" <=> d = v /\ native.code = "OK"
         /\ single.code = "OK" => single.value.balance = native.value /\ list = OK(<<single.value>>)
    BY <1>2, <2>0, <2>1, <2>2, <2>5
  <2>11. native.code # "NotFound" /\ Len(list.value) <= 1
    BY <2>2, <2>3
  <2> QED BY <1>7, <2>2, <2>6, <2>7, <2>8, <2>9, <2>10, <2>11, Zenon DEF Alike
<1> QED BY <1>3, <1>5, <1>6, <1>7, Zenon

(* The other answers of ServersAgree.                                      *)
LEMMA ValidatorsAgree ==
    ASSUME QType, NEW d \in Addresses
    PROVE  /\ d \in Operators => (DelegatorValidators(d).code = "NotFound"
                                    <=> DistributionDelegatorValidators(d) = OK(<<>>))
           /\ DelegatorValidators(d).code = "OK" =>
                 DistributionDelegatorValidators(d) = OK(<<DelegatorValidator(d).value.operator>>)
           /\ ~ready => Validator(d).code # "OK"
<1> DEFINE r == Validator(d)
           x == r.value
<1>1. /\ DelegatorValidators(d) = IF r.code # "OK" THEN r ELSE OK(<<r.value>>)
      /\ DistributionDelegatorValidators(d)
           = IF d = NoText THEN Err("InvalidArgument")
             ELSE IF r.code = "OK" THEN OK(<<r.value.operator>>)
             ELSE IF r.code = "NotFound" THEN OK(<<>>) ELSE r
      /\ DelegatorValidator(d) = r
  BY DEF DelegatorValidators, DistributionDelegatorValidators, DelegatorValidator
<1>2. /\ d = NoText => r = Err("InvalidArgument")
      /\ d = Malformed => r = Err("error")
      /\ d \in Operators /\ ~ready => r = Err("Internal")
      /\ d \in Operators /\ ready => r = Err("NotFound") \/ r = OK(ToValidator(d))
      /\ d \in Operators \/ d = NoText \/ d = Malformed
      /\ d \in Operators => d # NoText
  <2>1. d \in Operators /\ ready => r = Err("NotFound") \/ r = OK(ToValidator(d))
    BY ValidatorAnswers
  <2> QED BY <2>1, ValidatorAnswers, OtherAddresses
<1> HIDE DEF r
<1>3. ~ready => r.code # "OK"
  BY <1>2, Answers, Codes
<1>4. DelegatorValidators(d).code = "OK" => r.code = "OK" /\ d # NoText
  BY <1>1, <1>2, Answers, Codes
<1>5. ASSUME d \in Operators
      PROVE  DelegatorValidators(d).code = "NotFound"
               <=> DistributionDelegatorValidators(d) = OK(<<>>)
  <2>1. CASE r.code = "OK"
    <3>1. DelegatorValidators(d).code = "OK" /\ "OK" # "NotFound"
      BY <1>1, <2>1, Answers
    <3>2. OK(<<r.value.operator>>).value = <<r.value.operator>> /\ OK(<<>>).value = <<>>
      BY Answers
    <3>3. <<r.value.operator>> # <<>>
      OBVIOUS
    <3>4. DistributionDelegatorValidators(d) = OK(<<r.value.operator>>)
      BY <1>1, <1>2, <1>5, <2>1
    <3> QED BY <3>1, <3>2, <3>3, <3>4, Zenon
  <2>2. CASE r.code = "NotFound"
    BY <1>1, <1>2, <1>5, <2>2, Zenon
  <2>3. CASE r.code # "OK" /\ r.code # "NotFound"
    <3>1. DelegatorValidators(d) = r /\ DistributionDelegatorValidators(d) = r
      BY <1>1, <1>2, <1>5, <2>3, Zenon
    <3> QED BY <2>3, <3>1, Answers, Zenon
  <2> QED BY <2>1, <2>2, <2>3
<1> QED BY <1>1, <1>3, <1>4, <1>5 DEF r

(* Before the bootstrap no server has an answer.                           *)
LEMMA NoAnswers ==
    ASSUME ~ready, NEW d \in Addresses, NEW v \in Addresses
    PROVE  /\ UnbondingDelegation(d, v).code # "OK"
           /\ OutstandingRewards(d).code # "OK"
           /\ AllValidators.code # "OK"
           /\ d = v => ContractDelegation(d, v).code = "error"
<1>0. /\ \A c \in {"error", "Internal", "NotFound", "InvalidArgument"} :
            Err(c).code = c /\ Err(c).code # "OK"
  BY Answers, Codes
<1>1. ASSUME NEW a
      PROVE  /\ QueryStakingUnbonding(a) = Err("error")
             /\ QueryReward(a) = Err("error")
             /\ QueryStakedAmount(a) = Err("error")
  BY DEF QueryStakingUnbonding, QueryReward, QueryStakedAmount
<1>2. UnbondingDelegation(d, v).code # "OK"
  <2>1. ValidatorUnbondingDelegations(v) \in {Err("InvalidArgument"), Err("Internal")}
    BY <1>0, <1>1 DEF ValidatorUnbondingDelegations
  <2>2. StakingUnbondingDelegations(v) \in {Err("InvalidArgument"), Err("Internal")}
    BY <1>0, <2>1 DEF StakingUnbondingDelegations
  <2>3. UnbondingDelegation(d, v)
          \in {Err("InvalidArgument"), Err("Internal"), Err("NotFound")}
    BY <1>0, <2>2 DEF UnbondingDelegation
  <2> QED BY <1>0, <2>3
<1>3. OutstandingRewards(d).code # "OK"
  <2>1. ValidatorOutstandingReward(d) \in {Err("InvalidArgument"), Err("Internal")}
    BY <1>0, <1>1 DEF ValidatorOutstandingReward
  <2>2. OutstandingRewards(d) \in {Err("InvalidArgument"), Err("Internal")}
    BY <1>0, <2>1 DEF OutstandingRewards
  <2> QED BY <1>0, <2>2
<1>4. AllValidators.code # "OK"
  <2> DEFINE first == ListValidators([startAfter |-> 0, limit |-> 0])
  <2>1. first = Err("error")
    BY DEF ListValidators
  <2> HIDE DEF first
  <2>2. first.code # "OK"
    BY <1>0, <2>1
  <2>3. AllValidators = first
    BY <2>2 DEF AllValidators, first
  <2> QED BY <2>2, <2>3
<1>5. ContractDelegation(d, d).code = "error"
  <2>1. ContractDelegation(d, d) = Err("error")
    BY <1>0, <1>1 DEF ContractDelegation
  <2> QED BY <1>0, <2>1
<1> QED BY <1>2, <1>3, <1>4, <1>5

(* For any number of validators, any amounts and in every state: the       *)
(* module's own server, the ones that answer the staking and distribution  *)
(* queries of the SDK and the one for contracts agree on who delegates how *)
(* much and on who is a validator, and none answers before the bootstrap.  *)
THEOREM ServersAgreement == Spec => []ServersAgree
<1>1. QType => ServersAgree
  <2> SUFFICES ASSUME QType, NEW d \in Addresses, NEW v \in Addresses
               PROVE  ServersAgree!(d, v)
    BY Zenon DEF ServersAgree
  <2> DEFINE native == ValidatorDelegation(d)
             list   == DelegatorDelegations(d)
             single == Delegation(d, v)
             asked  == AllDelegations(d)
  <2>1. Alike(d, v, native, list, single, asked)
    BY DelegationsAgree, Zenon
  <2> HIDE DEF native, list, single, asked
  <2>2. ~ready => "OK" \notin {native.code, list.code, single.code, asked.code,
                               UnbondingDelegation(d, v).code, OutstandingRewards(d).code,
                               Validator(d).code, AllValidators.code}
    BY <2>1, ValidatorsAgree, NoAnswers, Zenon DEF Alike
  <2>3. ~ready /\ d = v => ContractDelegation(d, v).code = "error"
    BY NoAnswers, Zenon
  <2> QED BY <2>1, <2>2, <2>3, ValidatorsAgree, Zenon DEF native, list, single, asked, Alike
<1>2. QInv => ServersAgree
  BY <1>1 DEF QInv
<1> QED BY <1>2, QueryInvariance, PTL

-----------------------------------------------------------------------------
(* What an operator owns is reported.                                      *)

(* The claims of a page, and that the rest of them is missing in the sum.  *)
LEMMA ClaimsOnPage ==
    ASSUME NEW c \in Seq(Nat \ {0}), NEW k \in 0 .. Len(c)
    PROVE  /\ SumFunction(SubSeq(c, 1, k)) \in Nat
           /\ SumFunction(c) \in Nat
           /\ k = Len(c) => SubSeq(c, 1, k) = c
           /\ k < Len(c) => SumFunction(SubSeq(c, 1, k)) < SumFunction(c)
<1> DEFINE e == SubSeq(c, 1, k)
           n == Len(c)
<1>1. e \in Seq(Nat \ {0}) /\ Len(e) = k /\ \A i \in 1 .. k : e[i] = c[i]
  <2>1. k \in Nat /\ n \in Nat /\ k <= n
    OBVIOUS
  <2>2. CASE k = 0
    BY <2>2, CutNone
  <2>3. CASE k # 0
    BY <2>1, <2>3, Cut
  <2> QED BY <2>2, <2>3
<1>2. DOMAIN c = 1 .. n /\ DOMAIN e = 1 .. k /\ n \in Nat /\ k \in Nat /\ k <= n
  BY <1>1
<1>3. IsFiniteSet(1 .. n) /\ IsFiniteSet(1 .. k)
  BY <1>2, FiniteUpTo
<1>4. \A i \in 1 .. n : c[i] \in Nat \ {0}
  BY <1>2
<1>5. 1 .. k \subseteq 1 .. n /\ (k < n => 1 .. k # 1 .. n)
  <2> HIDE DEF n
  <2>1. 1 .. k \subseteq 1 .. n
    BY <1>2
  <2>2. k < n => n \in 1 .. n /\ n \notin 1 .. k
    BY <1>2
  <2> QED BY <2>1, <2>2, Zenon
<1>6. SumFunction(c) = SumFunctionOnSet(c, 1 .. n) /\ SumFunction(e) = SumFunctionOnSet(e, 1 .. k)
  BY <1>2 DEF SumFunction
<1> HIDE DEF e, n
<1>7. SumFunctionOnSet(e, 1 .. k) = SumFunctionOnSet(c, 1 .. k)
  <2>1. \A i \in 1 .. k : c[i] \in Int /\ e[i] = c[i]
    BY <1>1, <1>4, <1>5
  <2> QED BY <1>3, <2>1, SumEqual, Zenon
<1>8. SumFunctionOnSet(c, 1 .. k) \in Nat /\ SumFunctionOnSet(c, 1 .. n) \in Nat
  <2>1. (\A i \in 1 .. k : c[i] \in Nat) /\ (\A i \in 1 .. n : c[i] \in Nat)
    BY <1>4, <1>5
  <2> QED BY <1>3, <2>1, SumNat, Zenon
<1>9. k < n => SumFunctionOnSet(c, 1 .. k) < SumFunctionOnSet(c, 1 .. n)
  BY <1>3, <1>4, <1>5, SumMore, ZenonT(30)
<1>10. k = n => e = c
  BY CutAll DEF e, n
<1> QED BY <1>6, <1>7, <1>8, <1>9, <1>10 DEF e, n

(* The unbonding entries of an operator, and its rewards.                  *)
LEMMA UnbondingAnswers ==
    ASSUME QType, ready, NEW o \in Operators
    PROVE  /\ DelegatorUnbondingDelegations(o).value[1].entries
                = SubSeq(claims[o], 1, Smaller(PageDefault, Len(claims[o])))
           /\ OutstandingRewards(o) = OK(<<>>) <=> reward[o] = 0
<1> DEFINE e == SubSeq(claims[o], 1, Smaller(PageDefault, Len(claims[o])))
           w == reward[o]
<1>0. o # NoText
  BY OtherAddresses
<1>1. QueryStakingUnbonding(o) = OK(e) /\ QueryReward(o) = OK(w)
  BY DEF QueryStakingUnbonding, QueryReward
<1> HIDE DEF e, w
<1>2. ValidatorUnbondingDelegations(o) = OK(e) /\ ValidatorOutstandingReward(o) = OK(w)
  BY <1>1, Answers, Zenon DEF ValidatorUnbondingDelegations, ValidatorOutstandingReward
<1>3. StakingUnbondingDelegations(o) = OK(<<[delegator |-> o, validator |-> o, entries |-> e]>>)
  BY <1>2, Answers, Zenon DEF StakingUnbondingDelegations
<1>4. DelegatorUnbondingDelegations(o).value = <<[delegator |-> o, validator |-> o, entries |-> e]>>
  BY <1>0, <1>3, Answers, Zenon DEF DelegatorUnbondingDelegations
<1>5. DelegatorUnbondingDelegations(o).value[1].entries = e
  BY <1>4
<1>6. OutstandingRewards(o) = OK(IF w = 0 THEN <<>> ELSE <<w>>)
  BY <1>2, Answers, Zenon DEF OutstandingRewards
<1>7. OutstandingRewards(o).value = IF w = 0 THEN <<>> ELSE <<w>>
  BY <1>6, Answers, Zenon
<1>8. <<w>> # <<>> /\ OK(<<>>).value = <<>>
  BY Answers
<1>9. OutstandingRewards(o) = OK(<<>>) <=> w = 0
  BY <1>6, <1>7, <1>8, Zenon
<1> QED BY <1>5, <1>9 DEF e, w

(* A contract's view of the delegation.                                    *)
LEMMA ContractAnswer ==
    ASSUME QType, ready, NEW o \in Operators
    PROVE  ContractDelegation(o, o) = OK(<<>>) <=> Bonded(o) = 0 /\ reward[o] = 0
<1> DEFINE r == QueryStakedAmount(o)
           w == QueryReward(o)
           n == IF r.value = <<>> THEN 0 ELSE r.value[1]
           a == [amount |-> n, rewards |-> w.value]
<1>0. {o, o} \cap {NoText, Malformed} = {}
  BY OtherAddresses
<1>1. ContractDelegation(o, o)
        = IF r.code # "OK" \/ w.code # "OK" THEN Err("error")
          ELSE IF n = 0 /\ w.value = 0 THEN OK(<<>>)
          ELSE IF n >= Uint64 \/ w.value >= Uint64 THEN Err("panic")
          ELSE OK(<<a>>)
  BY <1>0, Zenon DEF ContractDelegation
<1>2. w.code = "OK" /\ w.value = reward[o]
  BY Answers DEF QueryReward
<1>3. r.code = "OK" /\ r.value = IF Bonded(o) = 0 THEN <<>> ELSE <<Bonded(o)>>
  BY StakedAnswer, Answers
<1>4. n = Bonded(o)
  <2>1. <<Bonded(o)>> # <<>> /\ <<Bonded(o)>>[1] = Bonded(o)
    OBVIOUS
  <2> HIDE DEF r
  <2> QED BY <1>3, <2>1
<1> HIDE DEF r, w, n, a
<1>5. OK(<<>>) # OK(<<a>>) /\ Err("panic") # OK(<<>>)
  <2>1. <<a>> # <<>>
    OBVIOUS
  <2>2. OK(<<>>).value = <<>> /\ OK(<<a>>).value = <<a>>
    BY Answers
  <2>3. Err("panic").code = "panic" /\ OK(<<>>).code = "OK" /\ "panic" # "OK"
    BY Answers
  <2> QED BY <2>1, <2>2, <2>3, Zenon
<1> QED BY <1>1, <1>2, <1>3, <1>4, <1>5, Zenon

(* For any amounts, any number of claims and any page size: the bonded and *)
(* the unbonding tokens the queries report are those the stake contract    *)
(* holds for the operator, or fewer when its claims do not fit a page; a   *)
(* contract is told of no delegation exactly when there is no stake and no *)
(* reward left.                                                            *)
THEOREM HoldingsReported == Spec => []HoldingsAreReported
<1>1. QType => HoldingsAreReported
  <2> SUFFICES ASSUME QType, ready, NEW o \in Operators
               PROVE  HoldingsAreReported!2!(o)
    BY Zenon DEF HoldingsAreReported
  <2> DEFINE c == claims[o]
             k == Smaller(PageDefault, Len(c))
             bonded == ValidatorDelegation(o)
             entries == DelegatorUnbondingDelegations(o).value[1].entries
             told == (IF bonded.code = "OK" THEN bonded.value ELSE 0) + SumFunction(entries)
             held == stake[o].liquid + stake[o].vesting + SumFunction(c)
  <2>1. entries = SubSeq(c, 1, k)
    BY UnbondingAnswers
  <2>2. c \in Seq(Nat \ {0}) /\ Len(c) \in Nat
    BY DEF QType
  <2>3. k \in 0 .. Len(c) /\ (k < Len(c) => Len(c) > PageDefault)
    BY <2>2, QueriesAssumption DEF Smaller
  <2>4. Bonded(o) \in Nat /\ (IF bonded.code = "OK" THEN bonded.value ELSE 0) = Bonded(o)
                          /\ (bonded.code = "NotFound" <=> Bonded(o) = 0)
    <3>1. bonded = IF Bonded(o) = 0 THEN Err("NotFound") ELSE OK(Bonded(o))
      BY DelegationAnswers, Zenon
    <3> HIDE DEF bonded
    <3>2. Bonded(o) \in Nat
      BY StakedAnswer, Zenon
    <3> QED BY <3>1, <3>2, Answers, Codes
  <2>5. told = held \/ (told < held /\ Len(c) > PageDefault)
    <3>1. held = Bonded(o) + SumFunction(c) /\ told = Bonded(o) + SumFunction(entries)
      BY <2>4 DEF Bonded
    <3> HIDE DEF c, k, entries, told, held
    <3>2. /\ SumFunction(entries) \in Nat /\ SumFunction(c) \in Nat
          /\ k = Len(c) => SumFunction(entries) = SumFunction(c)
          /\ k < Len(c) => SumFunction(entries) < SumFunction(c)
      BY <2>1, <2>2, <2>3, ClaimsOnPage, Zenon
    <3> QED BY <2>2, <2>3, <2>4, <3>1, <3>2
  <2>6. ContractDelegation(o, o) = OK(<<>>) <=>
          bonded.code = "NotFound" /\ OutstandingRewards(o) = OK(<<>>)
    BY <2>4, ContractAnswer, UnbondingAnswers, Zenon
  <2> QED BY <2>5, <2>6, Zenon
<1>2. QInv => HoldingsAreReported
  BY <1>1 DEF QInv
<1> QED BY <1>2, QueryInvariance, PTL

-----------------------------------------------------------------------------
(* The loops over all pages.                                               *)

UpTo(S, a) == {o \in S : o <= a}
Ops(s) == [i \in DOMAIN s |-> s[i].operator]

(* What is left after the page with the cursor c: nothing when it is 0.    *)
Reached(S, c) == IF c = 0 THEN S ELSE UpTo(S, c)

(* The page goes on where the list ends.                                   *)
LEMMA PagesJoin ==
    ASSUME NEW S, S \subseteq Operators, NEW a \in 0 .. N, NEW s, Lists(s, UpTo(S, a)),
           NEW page, page = ContractPage(S, a, 0), NEW c, c = PaginationCursor(page)
    PROVE  /\ c \in 0 .. N
           /\ c # 0 => a < c
           /\ page \in Seq(Operators)
           /\ \A i \in 1 .. Len(page) : page[i] \in S
           /\ Lists(s \o page, Reached(S, c))
<1>1. /\ c \in 0 .. N
      /\ Lists(page, Stretch(S, a, c))
      /\ c = 0 => \A o \in S : o <= a
      /\ c # 0 => a < c
  BY PageLists
<1>2. \A o \in S : o \in Int /\ 0 < o
  BY DEF Operators
<1>3. \A x \in UpTo(S, a), y \in Stretch(S, a, c) : x < y
  BY <1>2 DEF UpTo, Stretch
<1>4. UpTo(S, a) \cup Stretch(S, a, c) = Reached(S, c)
  <2>1. \A o \in S : (o <= a \/ (a < o /\ o <= c)) <=> (c = 0 \/ o <= c)
    BY <1>1, <1>2
  <2> QED BY <2>1, Zenon DEF UpTo, Stretch, Reached
<1>5. Lists(s \o page, UpTo(S, a) \cup Stretch(S, a, c))
  BY <1>1, <1>3, ListsConcat
<1>6. page \in Seq(Operators) /\ \A i \in 1 .. Len(page) : page[i] \in S
  <2>1. \A o \in Stretch(S, a, c) : o \in S
    BY DEF Stretch
  <2> QED BY <1>1, <2>1 DEF Lists
<1> QED BY <1>1, <1>4, <1>5, <1>6, ZenonT(30)

LEMMA NothingYet ==
    ASSUME NEW S, S \subseteq Operators
    PROVE  Lists(<<>>, UpTo(S, 0))
<1>1. \A o \in S : o \in Int /\ ~(o <= 0)
  BY DEF Operators
<1>2. UpTo(S, 0) = {}
  BY <1>1, Zenon DEF UpTo
<1>3. Lists(<<>>, {})
  BY DEF Lists, Ascending
<1> QED BY <1>2, <1>3, ZenonT(30)

(* The operators of a sequence of records.                                 *)
LEMMA OpsConcat ==
    ASSUME NEW X, NEW s \in Seq(X), NEW t \in Seq(X)
    PROVE  Ops(s \o t) = Ops(s) \o Ops(t)
<1> DEFINE u == s \o t
           v == Ops(s) \o Ops(t)
<1>1. /\ u \in Seq(X) /\ Len(u) = Len(s) + Len(t)
      /\ \A i \in 1 .. Len(u) : u[i] = IF i <= Len(s) THEN s[i] ELSE t[i - Len(s)]
  BY Joined
<1>2. DOMAIN s = 1 .. Len(s) /\ DOMAIN t = 1 .. Len(t) /\ DOMAIN u = 1 .. Len(u)
      /\ Len(s) \in Nat /\ Len(t) \in Nat
  BY <1>1
<1> DEFINE Y == {s[i].operator : i \in DOMAIN s} \cup {t[i].operator : i \in DOMAIN t}
<1>3. /\ Ops(s) \in Seq(Y) /\ Len(Ops(s)) = Len(s)
      /\ Ops(t) \in Seq(Y) /\ Len(Ops(t)) = Len(t)
  <2>1. Ops(s) \in [1 .. Len(s) -> Y] /\ Ops(t) \in [1 .. Len(t) -> Y]
    BY <1>2 DEF Ops
  <2> HIDE DEF Y
  <2> QED BY <1>2, <2>1
<1> HIDE DEF Y
<1>4. /\ v \in Seq(Y) /\ Len(v) = Len(s) + Len(t)
      /\ \A i \in 1 .. Len(v) : v[i] = IF i <= Len(s) THEN Ops(s)[i] ELSE Ops(t)[i - Len(s)]
  <2> DEFINE p == Ops(s)
             q == Ops(t)
  <2>1. p \in Seq(Y) /\ Len(p) = Len(s) /\ q \in Seq(Y) /\ Len(q) = Len(t)
    BY <1>3
  <2> HIDE DEF p, q
  <2>2. /\ p \o q \in Seq(Y) /\ Len(p \o q) = Len(p) + Len(q)
        /\ \A i \in 1 .. Len(p) + Len(q) : (p \o q)[i] = IF i <= Len(p) THEN p[i] ELSE q[i - Len(p)]
    BY <2>1
  <2>3. v = p \o q
    BY DEF p, q
  <2> HIDE DEF v
  <2>4. /\ v \in Seq(Y) /\ Len(v) = Len(s) + Len(t)
        /\ \A i \in 1 .. Len(v) : v[i] = IF i <= Len(s) THEN p[i] ELSE q[i - Len(s)]
    BY <2>1, <2>2, <2>3
  <2> QED BY <2>4 DEF p, q
<1> HIDE DEF u, v
<1>5. \A i \in 1 .. Len(u) : u[i].operator = v[i]
  <2> TAKE i \in 1 .. Len(u)
  <2>1. i <= Len(s) => i \in DOMAIN s
    BY <1>2
  <2>2. ~(i <= Len(s)) => i - Len(s) \in DOMAIN t
    BY <1>1, <1>2
  <2>3. i \in 1 .. Len(v) /\ Len(v) = Len(u)
    BY <1>1, <1>4
  <2> QED BY <1>1, <1>4, <2>1, <2>2, <2>3, ZenonT(30) DEF Ops
<1>6. v = [i \in 1 .. Len(u) |-> v[i]]
  BY <1>1, <1>4
<1>7. Ops(u) = [i \in 1 .. Len(u) |-> u[i].operator]
  BY <1>2 DEF Ops
<1> QED BY <1>5, <1>6, <1>7 DEF u, v

(* Elements of the responses with active validators.                       *)
Info == [operator : Operators, ed25519 : 0 .. N, secp256k1 : 0 .. N]
Its == [memory : Seq(Info), cursor : 0 .. N, seen : Seq(Info)]

(* The active validators have keys of the type T.                          *)
OneType(T) == T \in KeyTypes /\ \A o \in Active : vals[o].key = T

(* Elements with the operator's key of type T and no other.                *)
Right(e, T) ==
    IF T = "ed25519" THEN e.ed25519 = e.operator /\ e.secp256k1 = 0
    ELSE e.ed25519 = 0 /\ e.secp256k1 = e.operator
AllRight(s, T) == \A i \in 1 .. Len(s) : Right(s[i], T)

LEMMA InfoRight ==
    ASSUME QType, NEW o \in Active, NEW T
    PROVE  ValidatorInfo(o) \in Info /\ ValidatorInfo(o).operator = o
           /\ (OneType(T) => Right(ValidatorInfo(o), T))
<1>1. N \in Nat /\ o \in 0 .. N /\ 0 \in 0 .. N /\ o \in Operators
  <2>1. o \in Operators
    BY RegisteredKey
  <2> QED BY <2>1, QueriesAssumption DEF Operators
<1>2. ValidatorInfo(o) \in Info /\ ValidatorInfo(o).operator = o
  BY <1>1, ZenonT(30) DEF ValidatorInfo, Info
<1>3. OneType(T) => Right(ValidatorInfo(o), T)
  BY DEF OneType, Right, ValidatorInfo, KeyTypes
<1> QED BY <1>2, <1>3

(* A response read over the elements of the one before.                    *)
LEMMA UnmarshalPage ==
    ASSUME QType, NEW memory \in Seq(Info), NEW page \in Seq(Operators), NEW T,
           \A i \in 1 .. Len(page) : page[i] \in Active,
           NEW rsp, rsp = Unmarshal(memory, page)
    PROVE  /\ rsp \in Seq(Info)
           /\ Len(rsp) >= Len(page)
           /\ \A i \in 1 .. Len(page) : rsp[i].operator = page[i]
           /\ OneType(T) /\ AllRight(memory, T) => AllRight(rsp, T)
<1> DEFINE m == IF Len(memory) > Len(page) THEN Len(memory) ELSE Len(page)
           Elem(i) == IF i > Len(page) THEN memory[i]
                      ELSE LET e == ValidatorInfo(page[i]) IN
                           IF i > Len(memory) THEN e
                           ELSE [operator  |-> e.operator,
                                 ed25519   |-> IF e.ed25519 # 0 THEN e.ed25519 ELSE memory[i].ed25519,
                                 secp256k1 |-> IF e.secp256k1 # 0 THEN e.secp256k1
                                               ELSE memory[i].secp256k1]
<1>1. rsp = [i \in 1 .. m |-> Elem(i)]
  BY DEF Unmarshal
<1>2. /\ Len(memory) \in Nat /\ Len(page) \in Nat /\ m \in Nat
      /\ m >= Len(page) /\ (m > Len(page) => m = Len(memory))
      /\ \A i \in 1 .. Len(memory) : memory[i] \in Info
  OBVIOUS
<1>3. ASSUME NEW i \in 1 .. m
      PROVE  /\ Elem(i) \in Info
             /\ i <= Len(page) => Elem(i).operator = page[i]
             /\ OneType(T) /\ AllRight(memory, T) => Right(Elem(i), T)
  <2> HIDE DEF m
  <2>1. CASE i > Len(page)
    <3>1. i \in 1 .. Len(memory) /\ ~(i <= Len(page))
      BY <1>2, <2>1
    <3>2. Elem(i) = memory[i]
      BY <2>1, ZenonT(30)
    <3> HIDE DEF Elem
    <3> QED BY <1>2, <3>1, <3>2 DEF AllRight
  <2>2. CASE ~(i > Len(page))
    <3> DEFINE e == ValidatorInfo(page[i])
    <3>1. i \in 1 .. Len(page)
      BY <1>2, <2>2
    <3>2. e \in Info /\ e.operator = page[i] /\ (OneType(T) => Right(e, T))
      BY <3>1, InfoRight
    <3>3. CASE i > Len(memory)
      <4>1. Elem(i) = e
        BY <2>2, <3>3, ZenonT(30)
      <4> HIDE DEF Elem, e
      <4> QED BY <3>2, <4>1
    <3>4. CASE ~(i > Len(memory))
      <4>1. i \in 1 .. Len(memory)
        BY <1>2, <3>4
      <4> DEFINE old == memory[i]
                 new == [operator  |-> e.operator,
                         ed25519   |-> IF e.ed25519 # 0 THEN e.ed25519 ELSE old.ed25519,
                         secp256k1 |-> IF e.secp256k1 # 0 THEN e.secp256k1 ELSE old.secp256k1]
      <4>2. Elem(i) = new
        BY <2>2, <3>4
      <4>3. old \in Info /\ (AllRight(memory, T) => Right(old, T))
        BY <1>2, <4>1 DEF AllRight
      <4> HIDE DEF Elem, e, old
      <4>4. new \in Info /\ new.operator = e.operator
        BY <3>2, <4>3, ZenonT(30) DEF Info
      <4>5. Right(e, T) /\ Right(old, T) => Right(new, T)
        BY <3>2, <4>3 DEF Right, Info, Operators
      <4> HIDE DEF new
      <4> QED BY <3>2, <4>2, <4>3, <4>4, <4>5
    <3> QED BY <3>3, <3>4
  <2> QED BY <2>1, <2>2, ZenonT(30)
<1> HIDE DEF Elem, m
<1>4. rsp \in Seq(Info) /\ Len(rsp) = m
  BY <1>1, <1>2, <1>3
<1>5. \A i \in 1 .. m : rsp[i] = Elem(i)
  BY <1>1
<1>6. \A i \in 1 .. Len(page) : i \in 1 .. m /\ i <= Len(page)
  BY <1>2
<1>7. \A i \in 1 .. Len(page) : rsp[i].operator = page[i]
  BY <1>3, <1>5, <1>6, ZenonT(30)
<1>8. OneType(T) /\ AllRight(memory, T) => AllRight(rsp, T)
  BY <1>3, <1>4, <1>5 DEF AllRight
<1> QED BY <1>2, <1>4, <1>7, <1>8

(* A step of the loop of IterateActiveValidators.                          *)
LEMMA ActivePage ==
    ASSUME QType, NEW memory \in Seq(Info), NEW seen \in Seq(Info), NEW a \in 0 .. N, NEW T,
           NEW it, it = NextActivePage(memory, seen, a)
    PROVE  /\ it \in Its
           /\ Lists(Ops(seen), UpTo(Active, a)) =>
                 /\ it.cursor # 0 => a < it.cursor
                 /\ Lists(Ops(it.seen), Reached(Active, it.cursor))
           /\ OneType(T) /\ AllRight(memory, T) /\ AllRight(seen, T) =>
                 AllRight(it.memory, T) /\ AllRight(it.seen, T)
<1> DEFINE page == ContractPage(Active, a, 0)
           c == PaginationCursor(page)
           rsp == Unmarshal(memory, page)
           now == SubSeq(rsp, 1, Len(page))
<1>1. it = [memory |-> rsp, cursor |-> c, seen |-> seen \o now]
  BY DEF NextActivePage
<1>2. Active \subseteq Operators /\ 0 \in Nat
  BY RegisteredKey
<1>3. /\ c \in 0 .. N /\ page \in Seq(Operators) /\ \A i \in 1 .. Len(page) : page[i] \in Active
  <2>1. page = ContractPage(Active, a, 0) /\ c = PaginationCursor(page)
    OBVIOUS
  <2> HIDE DEF page, c
  <2>2. c \in 0 .. N /\ Lists(page, Stretch(Active, a, c))
    BY <1>2, <2>1, PageLists
  <2>3. \A o \in Stretch(Active, a, c) : o \in Active
    BY DEF Stretch
  <2> QED BY <2>2, <2>3 DEF Lists
<1>4. /\ rsp \in Seq(Info) /\ Len(rsp) >= Len(page)
      /\ \A i \in 1 .. Len(page) : rsp[i].operator = page[i]
      /\ OneType(T) /\ AllRight(memory, T) => AllRight(rsp, T)
  <2>1. rsp = Unmarshal(memory, page)
    OBVIOUS
  <2> HIDE DEF page, rsp
  <2> QED BY <1>3, <2>1, UnmarshalPage
<1>5. /\ now \in Seq(Info) /\ Len(now) = Len(page) /\ \A i \in 1 .. Len(page) : now[i] = rsp[i]
  <2> HIDE DEF page, rsp
  <2>1. Len(page) \in Nat /\ Len(rsp) \in Nat
    BY <1>3, <1>4
  <2>2. CASE Len(page) = 0
    BY <1>4, <2>2, CutNone
  <2>3. CASE Len(page) # 0
    BY <1>4, <2>1, <2>3, Cut
  <2> QED BY <2>2, <2>3
<1>6. Lists(Ops(seen), UpTo(Active, a)) =>
        /\ c # 0 => a < c
        /\ Lists(Ops(seen) \o page, Reached(Active, c))
  <2>1. page = ContractPage(Active, a, 0) /\ c = PaginationCursor(page)
    OBVIOUS
  <2> HIDE DEF page, c
  <2> QED BY <1>2, <2>1, PagesJoin, ZenonT(30)
<1> HIDE DEF page, c, rsp, now
<1>7. Ops(now) = page
  <2>1. DOMAIN now = 1 .. Len(page) /\ page = [i \in 1 .. Len(page) |-> page[i]]
    BY <1>3, <1>5
  <2> QED BY <1>4, <1>5, <2>1 DEF Ops
<1>8. seen \o now \in Seq(Info) /\ Ops(seen \o now) = Ops(seen) \o page
  <2>1. seen \o now \in Seq(Info)
    BY <1>5, Joined
  <2> QED BY <1>5, <1>7, <2>1, OpsConcat, ZenonT(30)
<1>9. it \in Its /\ it.cursor = c /\ it.memory = rsp /\ it.seen = seen \o now
  BY <1>1, <1>3, <1>4, <1>8 DEF Its
<1>10. OneType(T) /\ AllRight(memory, T) /\ AllRight(seen, T) => AllRight(seen \o now, T)
  <2> SUFFICES ASSUME AllRight(rsp, T), AllRight(seen, T), NEW i \in 1 .. Len(seen \o now)
               PROVE  Right((seen \o now)[i], T)
    BY <1>4, ZenonT(30) DEF AllRight
  <2>1. /\ Len(seen \o now) = Len(seen) + Len(now)
        /\ (seen \o now)[i] = IF i <= Len(seen) THEN seen[i] ELSE now[i - Len(seen)]
    <3>1. /\ Len(seen \o now) = Len(seen) + Len(now)
          /\ \A j \in 1 .. Len(seen) + Len(now) :
                (seen \o now)[j] = IF j <= Len(seen) THEN seen[j] ELSE now[j - Len(seen)]
      BY <1>5
    <3> QED BY <3>1, Zenon
  <2>2. Len(seen) \in Nat /\ Len(now) \in Nat /\ Len(rsp) \in Nat
    BY <1>4, <1>5
  <2>3. i <= Len(seen) => i \in 1 .. Len(seen)
    BY <2>2
  <2>4. ~(i <= Len(seen)) => i - Len(seen) \in 1 .. Len(page) /\ i - Len(seen) \in 1 .. Len(rsp)
    BY <1>4, <1>5, <2>1, <2>2
  <2>5. CASE i <= Len(seen)
    BY <2>1, <2>3, <2>5, ZenonT(30) DEF AllRight
  <2>6. CASE ~(i <= Len(seen))
    BY <1>5, <2>1, <2>4, <2>6, ZenonT(30) DEF AllRight
  <2> QED BY <2>5, <2>6, ZenonT(30)
<1> QED BY <1>4, <1>6, <1>8, <1>9, <1>10, Zenon

(* The loop ends, with the active validators in the order of addresses.    *)
LEMMA ActiveLoop ==
    ASSUME QType, NEW T
    PROVE  LET it == IterateActiveValidators IN
           /\ it.cursor = 0
           /\ it.seen \in Seq(Info)
           /\ Lists(Ops(it.seen), Active)
           /\ OneType(T) => AllRight(it.seen, T)
<1> DEFINE M == N + 1
           first == NextActivePage(<<>>, <<>>, 0)
           Rec(f) == f = [n \in 0 .. M |-> IF n = 0 THEN first ELSE MoreActive(f[n - 1])]
           step == [n \in 1 .. M |-> [x \in Its |-> MoreActive(x)]]
<1>0. N \in Nat /\ M \in Nat /\ 0 \in 0 .. N
  BY QueriesAssumption
<1>1. first \in Its /\ \A x \in Its : MoreActive(x) \in Its
  <2>1. <<>> \in Seq(Info) /\ first = NextActivePage(<<>>, <<>>, 0)
    OBVIOUS
  <2>2. first \in Its
    <3> HIDE DEF first
    <3> QED BY <1>0, <2>1, ActivePage, Zenon
  <2>3. ASSUME NEW x \in Its PROVE MoreActive(x) \in Its
    <3>1. x.memory \in Seq(Info) /\ x.seen \in Seq(Info) /\ x.cursor \in 0 .. N
      BY DEF Its
    <3>2. NextActivePage(x.memory, x.seen, x.cursor) \in Its
      BY <3>1, ActivePage, Zenon
    <3> QED BY <3>2 DEF MoreActive
  <2> QED BY <2>2, <2>3
<1>2. \E f : Rec(f)
  <2> HIDE DEF first, M
  <2>1. \A n \in 1 .. M : \A x \in Its : step[n][x] \in Its
    BY <1>1
  <2>2. PICK f \in [0 .. M -> Its] : Iterates(f, first, step, M)
    <3> HIDE DEF step
    <3> QED BY <1>0, <1>1, <2>1, IterationExists, ZenonT(30)
  <2>3. \A n \in 0 .. M : f[n] = IF n = 0 THEN first ELSE MoreActive(f[n - 1])
    <3> SUFFICES ASSUME NEW n \in 0 .. M, n # 0
                 PROVE  f[n] = MoreActive(f[n - 1])
      BY <2>2 DEF Iterates
    <3>1. n \in 1 .. M /\ f[n - 1] \in Its
      BY <1>0
    <3>2. f[n] = step[n][f[n - 1]]
      BY <2>2, <3>1 DEF Iterates
    <3> QED BY <3>1, <3>2
  <2> HIDE DEF step
  <2>4. f = [n \in 0 .. M |-> f[n]]
    OBVIOUS
  <2> QED BY <2>3, <2>4, ZenonT(30)
<1> DEFINE F == CHOOSE f : Rec(f)
<1>3. Rec(F) /\ IterateActiveValidators = F[M]
  BY <1>2, ZenonT(30) DEF IterateActiveValidators
<1> HIDE DEF F
<1>4. F[0] = first /\ \A n \in 1 .. M : F[n] = MoreActive(F[n - 1])
  <2> HIDE DEF first, M
  <2>1. \A n \in 0 .. M : F[n] = IF n = 0 THEN first ELSE MoreActive(F[n - 1])
    BY <1>3, Zenon
  <2> QED BY <1>0, <2>1
<1> HIDE DEF Rec
<1> DEFINE Good(it, n) == /\ it \in Its /\ (it.cursor # 0 => it.cursor > n)
                          /\ Lists(Ops(it.seen), Reached(Active, it.cursor))
                          /\ OneType(T) => AllRight(it.memory, T) /\ AllRight(it.seen, T)
           Bad == {n \in 0 .. M : ~Good(F[n], n)}
<1>5. Good(first, 0)
  <2>1. <<>> \in Seq(Info) /\ first = NextActivePage(<<>>, <<>>, 0) /\ AllRight(<<>>, T)
        /\ Ops(<<>>) = <<>>
    BY DEF AllRight, Ops
  <2>2. Lists(<<>>, UpTo(Active, 0))
    <3>1. Active \subseteq Operators
      BY RegisteredKey
    <3> QED BY <3>1, NothingYet
  <2> HIDE DEF first
  <2>3. /\ first \in Its
        /\ first.cursor # 0 => 0 < first.cursor
        /\ Lists(Ops(first.seen), Reached(Active, first.cursor))
        /\ OneType(T) => AllRight(first.memory, T) /\ AllRight(first.seen, T)
    BY <1>0, <2>1, <2>2, ActivePage, ZenonT(30)
  <2>4. first.cursor \in Int
    BY <2>3 DEF Its
  <2> QED BY <2>3, <2>4, ZenonT(30)
<1>6. ASSUME NEW n \in 1 .. M, NEW it, Good(it, n - 1) PROVE Good(MoreActive(it), n)
  <2>1. it.memory \in Seq(Info) /\ it.seen \in Seq(Info) /\ it.cursor \in 0 .. N
    BY <1>6, ZenonT(30) DEF Its
  <2>2. CASE it.cursor = 0
    <3>1. MoreActive(it) = it
      BY <2>2, ZenonT(30) DEF MoreActive
    <3> QED BY <1>6, <2>2, <3>1, ZenonT(30)
  <2>3. CASE it.cursor # 0
    <3> DEFINE a == it.cursor
               memory == it.memory
               seen == it.seen
               next == NextActivePage(memory, seen, a)
    <3>1. MoreActive(it) = next
      BY <2>3 DEF MoreActive
    <3>2. Reached(Active, a) = UpTo(Active, a) /\ a > n - 1
      BY <1>6, <2>3 DEF Reached
    <3>3. Lists(Ops(seen), UpTo(Active, a))
      BY <1>6, <3>2
    <3>4. OneType(T) => AllRight(memory, T) /\ AllRight(seen, T)
      BY <1>6
    <3>5. memory \in Seq(Info) /\ seen \in Seq(Info) /\ a \in 0 .. N /\ next = NextActivePage(memory, seen, a)
      BY <2>1
    <3> HIDE DEF next, memory, seen, a
    <3>6. /\ next \in Its
          /\ next.cursor # 0 => a < next.cursor
          /\ Lists(Ops(next.seen), Reached(Active, next.cursor))
          /\ OneType(T) => AllRight(next.memory, T) /\ AllRight(next.seen, T)
      BY <3>3, <3>4, <3>5, ActivePage, ZenonT(30)
    <3>7. next.cursor \in Int
      BY <3>6 DEF Its
    <3>8. next.cursor # 0 => next.cursor > n
      BY <3>2, <3>5, <3>6, <3>7
    <3> QED BY <3>1, <3>6, <3>8, ZenonT(30)
  <2> QED BY <2>2, <2>3, ZenonT(30)
<1> HIDE DEF first
<1>7. Bad = {}
  <2> SUFFICES ASSUME Bad # {} PROVE FALSE
    BY ZenonT(30)
  <2>1. PICK n \in Bad : \A k \in Bad : n <= k
    <3>1. Bad \subseteq Nat
      BY <1>0
    <3> HIDE DEF Bad
    <3> QED BY <3>1, LeastNat, ZenonT(30)
  <2> HIDE DEF Good, M
  <2>2. n # 0
    BY <1>4, <1>5
  <2>3. n \in 1 .. M /\ n - 1 \in 0 .. M /\ ~(n <= n - 1)
    BY <1>0, <2>2
  <2>4. Good(F[n - 1], n - 1)
    BY <2>1, <2>3
  <2> QED BY <1>4, <1>6, <2>3, <2>4
<1>8. Good(F[M], M)
  <2> HIDE DEF Good
  <2>1. M \in 0 .. M
    BY <1>0
  <2> QED BY <1>7, <2>1
<1> DEFINE it == IterateActiveValidators
<1>9. Good(it, M)
  BY <1>3, <1>8, ZenonT(30)
<1> HIDE DEF it
<1>10. it.cursor = 0
  <2>1. it.cursor \in 0 .. N
    BY <1>9 DEF Its
  <2> QED BY <1>0, <1>9, <2>1
<1>11. it.seen \in Seq(Info)
  BY <1>9, ZenonT(30) DEF Its
<1>12. Lists(Ops(it.seen), Active)
  BY <1>9, <1>10, ZenonT(30) DEF Reached
<1> QED BY <1>9, <1>10, <1>11, <1>12 DEF it

(* The validators that the loop of the contracts' query collects.          *)
Found == {ToValidator(o) : o \in Operators}
Batches == [found : Seq(Found), cursor : 0 .. N, failed : BOOLEAN]
Batch(a) == ListValidators([startAfter |-> a, limit |-> 0])
AsShown(s) == \A i \in 1 .. Len(s) : s[i].operator \in Registered /\ s[i] = ToValidator(s[i].operator)

(* A page of registered validators is answered without an error.           *)
LEMMA BatchAnswer ==
    ASSUME QType, ready, NEW a \in 0 .. N
    PROVE  /\ Batch(a).code = "OK"
           /\ Batch(a).value.cursor \in 0 .. N
           /\ Batch(a).value.validators \in Seq(Found)
           /\ AsShown(Batch(a).value.validators)
           /\ Batch(a).value.cursor = PaginationCursor(ContractPage(Registered, a, 0))
           /\ Ops(Batch(a).value.validators) = ContractPage(Registered, a, 0)
<1> DEFINE page == ContractPage(Registered, a, 0)
           c == PaginationCursor(page)
           shown == [i \in DOMAIN page |-> ToValidator(page[i])]
           answer == [validators |-> shown, cursor |-> c]
<1>1. Registered \subseteq Operators /\ \A o \in Registered : toCosmosPubKey(o).code = "OK"
  BY RegisteredKey, Answers, ZenonT(30)
<1>2. c \in 0 .. N /\ page \in Seq(Operators) /\ \A i \in 1 .. Len(page) : page[i] \in Registered
  <2>1. page = ContractPage(Registered, a, 0) /\ c = PaginationCursor(page) /\ 0 \in Nat
    OBVIOUS
  <2> HIDE DEF page, c, Registered
  <2>2. c \in 0 .. N /\ Lists(page, Stretch(Registered, a, c))
    BY <1>1, <2>1, PageLists
  <2>3. \A o \in Stretch(Registered, a, c) : o \in Registered
    BY DEF Stretch
  <2> QED BY <2>2, <2>3 DEF Lists
<1>3. ~\E o \in Range(page) : toCosmosPubKey(o).code # "OK"
  <2> HIDE DEF page
  <2>1. \A o \in Range(page) : o \in Registered
    BY <1>2 DEF Range
  <2> QED BY <1>1, <2>1
<1>4. Batch(a) = OK(answer)
  BY <1>3 DEF Batch, ListValidators
<1> HIDE DEF page, c
<1>5. Batch(a).code = "OK" /\ Batch(a).value = answer
  BY <1>4, Answers, Zenon
<1>6. Batch(a).value.cursor = c /\ Batch(a).value.validators = shown
  BY <1>5
<1>7. /\ DOMAIN page = 1 .. Len(page) /\ Len(page) \in Nat
      /\ page = [i \in 1 .. Len(page) |-> page[i]]
  BY <1>2
<1>8. \A o : ToValidator(o).operator = o
  BY DEF ToValidator
<1>9. shown \in Seq(Found) /\ Len(shown) = Len(page) /\ \A i \in 1 .. Len(page) : shown[i] = ToValidator(page[i])
  <2>1. \A i \in 1 .. Len(page) : ToValidator(page[i]) \in Found
    BY <1>2 DEF Found
  <2> QED BY <1>7, <2>1
<1>10. DOMAIN shown = 1 .. Len(page)
  BY <1>7
<1> HIDE DEF shown
<1>11. AsShown(shown)
  BY <1>2, <1>8, <1>9 DEF AsShown
<1>12. Ops(shown) = page
  BY <1>7, <1>8, <1>9, <1>10 DEF Ops
<1> QED BY <1>2, <1>5, <1>6, <1>9, <1>11, <1>12, ZenonT(30) DEF page, c

(* A turn of the loop: nothing fails and the list goes on.                 *)
LEMMA NextBatchStep ==
    ASSUME QType, ready, NEW all \in Batches
    PROVE  /\ NextBatch(all) \in Batches
           /\ ~all.failed /\ all.cursor # 0 /\ AsShown(all.found)
                  /\ Lists(Ops(all.found), UpTo(Registered, all.cursor)) =>
                 /\ ~NextBatch(all).failed
                 /\ NextBatch(all).cursor # 0 => all.cursor < NextBatch(all).cursor
                 /\ AsShown(NextBatch(all).found)
                 /\ Lists(Ops(NextBatch(all).found), Reached(Registered, NextBatch(all).cursor))
<1> DEFINE a == all.cursor
           b == Batch(a).value
           next == [found |-> all.found \o b.validators, cursor |-> b.cursor, failed |-> FALSE]
<1>1. a \in 0 .. N /\ all.found \in Seq(Found) /\ all.failed \in BOOLEAN
  BY ZenonT(30) DEF Batches
<1>2. /\ Batch(a).code = "OK" /\ b.cursor \in 0 .. N /\ b.validators \in Seq(Found)
      /\ AsShown(b.validators)
      /\ b.cursor = PaginationCursor(ContractPage(Registered, a, 0))
      /\ Ops(b.validators) = ContractPage(Registered, a, 0)
  BY <1>1, BatchAnswer, ZenonT(30)
<1>3. NextBatch(all) = IF all.cursor = 0 \/ all.failed THEN all ELSE next
  BY <1>2, Zenon DEF NextBatch, Batch
<1> HIDE DEF b
<1>4. /\ all.found \o b.validators \in Seq(Found)
      /\ Len(all.found \o b.validators) = Len(all.found) + Len(b.validators)
      /\ \A i \in 1 .. Len(all.found) + Len(b.validators) :
            (all.found \o b.validators)[i] = IF i <= Len(all.found) THEN all.found[i]
                                             ELSE b.validators[i - Len(all.found)]
  <2> DEFINE s == all.found
             t == b.validators
  <2>1. s \in Seq(Found) /\ t \in Seq(Found)
    BY <1>1, <1>2, ZenonT(30)
  <2> HIDE DEF s, t
  <2>2. /\ s \o t \in Seq(Found) /\ Len(s \o t) = Len(s) + Len(t)
        /\ \A i \in 1 .. Len(s) + Len(t) : (s \o t)[i] = IF i <= Len(s) THEN s[i] ELSE t[i - Len(s)]
    BY <2>1, Joined
  <2> QED BY <2>2, Zenon DEF s, t
<1>5. next \in Batches /\ next.found = all.found \o b.validators /\ next.cursor = b.cursor
      /\ next.failed = FALSE
  BY <1>2, <1>4, ZenonT(30) DEF Batches
<1>6. NextBatch(all) \in Batches
  BY <1>3, <1>5, ZenonT(30)
<1> HIDE DEF next
<1>7. ASSUME ~all.failed, a # 0, AsShown(all.found), Lists(Ops(all.found), UpTo(Registered, a))
      PROVE  /\ ~next.failed /\ (next.cursor # 0 => a < next.cursor)
             /\ AsShown(next.found)
             /\ Lists(Ops(next.found), Reached(Registered, next.cursor))
  <2>1. Ops(next.found) = Ops(all.found) \o Ops(b.validators)
    BY <1>1, <1>2, <1>5, OpsConcat, ZenonT(30)
  <2>2. /\ b.cursor # 0 => a < b.cursor
        /\ Lists(Ops(all.found) \o Ops(b.validators), Reached(Registered, b.cursor))
    <3>1. Registered \subseteq Operators
      BY RegisteredKey, ZenonT(30)
    <3> DEFINE page == ContractPage(Registered, a, 0)
               s == Ops(all.found)
    <3>2. page = ContractPage(Registered, a, 0) /\ b.cursor = PaginationCursor(page)
          /\ page = Ops(b.validators) /\ Lists(s, UpTo(Registered, a))
      BY <1>2, <1>7, ZenonT(30)
    <3> HIDE DEF page, s, a, Registered
    <3>3. /\ b.cursor # 0 => a < b.cursor
          /\ Lists(s \o page, Reached(Registered, b.cursor))
      BY <1>1, <3>1, <3>2, PagesJoin, ZenonT(30)
    <3> QED BY <3>2, <3>3, ZenonT(30) DEF s
  <2>3. AsShown(next.found)
    <3> DEFINE s == all.found
               t == b.validators
               u == next.found
    <3>1. /\ Len(s) \in Nat /\ Len(t) \in Nat /\ Len(u) = Len(s) + Len(t)
          /\ \A i \in 1 .. Len(u) : u[i] = IF i <= Len(s) THEN s[i] ELSE t[i - Len(s)]
      <4>1. s \in Seq(Found) /\ t \in Seq(Found) /\ u = s \o t
        BY <1>1, <1>2, <1>5, ZenonT(30)
      <4> HIDE DEF s, t, u
      <4>2. /\ Len(s) \in Nat /\ Len(t) \in Nat /\ Len(s \o t) = Len(s) + Len(t)
            /\ \A i \in 1 .. Len(s) + Len(t) :
                  (s \o t)[i] = IF i <= Len(s) THEN s[i] ELSE t[i - Len(s)]
        BY <4>1, Joined
      <4> QED BY <4>1, <4>2, ZenonT(30)
    <3>2. AsShown(s) /\ AsShown(t)
      BY <1>2, <1>7, ZenonT(30)
    <3> HIDE DEF s, t, u
    <3>3. ASSUME NEW i \in 1 .. Len(u)
          PROVE  u[i].operator \in Registered /\ u[i] = ToValidator(u[i].operator)
      <4>1. (i <= Len(s) => i \in 1 .. Len(s)) /\ (~(i <= Len(s)) => i - Len(s) \in 1 .. Len(t))
        BY <3>1
      <4> QED BY <3>1, <3>2, <4>1, ZenonT(30) DEF AsShown
    <3>4. AsShown(u)
      BY <3>3, ZenonT(30) DEF AsShown
    <3> QED BY <3>4, ZenonT(30) DEF u
  <2> QED BY <1>5, <2>1, <2>2, <2>3, ZenonT(30)
<1> QED BY <1>3, <1>6, <1>7, Zenon

(* The loop ends without an error, with the validators in order.           *)
LEMMA AllLoop ==
    ASSUME QType, ready
    PROVE  \E s \in Seq(Found) : /\ AllValidators = OK(s) /\ AsShown(s)
                                 /\ Lists(Ops(s), Registered)
<1> DEFINE M == N + 1
           b == Batch(0)
           first == [found |-> b.value.validators, cursor |-> b.value.cursor, failed |-> FALSE]
           Rec(f) == f = [n \in 0 .. M |-> IF n = 0 THEN first ELSE NextBatch(f[n - 1])]
           step == [n \in 1 .. M |-> [x \in Batches |-> NextBatch(x)]]
<1>0. N \in Nat /\ M \in Nat /\ 0 \in 0 .. N
  BY QueriesAssumption
<1>1. /\ b.code = "OK" /\ first \in Batches /\ AsShown(first.found)
      /\ Lists(Ops(first.found), Reached(Registered, first.cursor))
      /\ first.cursor # 0 => first.cursor > 0
  <2>1. /\ b.code = "OK" /\ b.value.cursor \in 0 .. N /\ b.value.validators \in Seq(Found)
        /\ AsShown(b.value.validators)
        /\ b.value.cursor = PaginationCursor(ContractPage(Registered, 0, 0))
        /\ Ops(b.value.validators) = ContractPage(Registered, 0, 0)
    BY <1>0, BatchAnswer, ZenonT(30)
  <2> DEFINE c == b.value.cursor
             s == b.value.validators
             page == ContractPage(Registered, 0, 0)
  <2>2. c = PaginationCursor(page) /\ Ops(s) = page /\ page = ContractPage(Registered, 0, 0)
    BY <2>1
  <2>3. Registered \subseteq Operators
    BY RegisteredKey
  <2>4. Lists(<<>>, UpTo(Registered, 0))
    <3> HIDE DEF Registered
    <3> QED BY <2>3, NothingYet
  <2>5. page \in Seq(Operators) /\ Lists(<<>> \o page, Reached(Registered, c))
    <3> HIDE DEF c, s, page, Registered
    <3> QED BY <1>0, <2>2, <2>3, <2>4, PagesJoin, ZenonT(30)
  <2>6. <<>> \o page = page
    <3> HIDE DEF page
    <3> QED BY <2>5, JoinedNone, ZenonT(30)
  <2>7. first \in Batches /\ first.found = s /\ first.cursor = c
    <3> HIDE DEF b
    <3> QED BY <2>1 DEF Batches
  <2>8. c # 0 => c > 0
    <3>1. c \in 0 .. N
      BY <2>1, ZenonT(30)
    <3> HIDE DEF c
    <3> QED BY <1>0, <3>1
  <2> HIDE DEF first, c, s, page
  <2>9. AsShown(first.found) /\ Lists(Ops(first.found), Reached(Registered, first.cursor))
    BY <2>1, <2>2, <2>5, <2>6, <2>7, ZenonT(30) DEF s
  <2> QED BY <2>1, <2>7, <2>8, <2>9, ZenonT(30)
<1>2. \A x \in Batches : NextBatch(x) \in Batches
  BY NextBatchStep
<1>f. first.failed = FALSE
  OBVIOUS
<1>3. \E f : Rec(f)
  <2> HIDE DEF first, M
  <2>1. \A n \in 1 .. M : \A x \in Batches : step[n][x] \in Batches
    BY <1>2
  <2>2. PICK f \in [0 .. M -> Batches] : Iterates(f, first, step, M)
    <3> HIDE DEF step
    <3> QED BY <1>0, <1>1, <2>1, IterationExists, ZenonT(30)
  <2>3. \A n \in 0 .. M : f[n] = IF n = 0 THEN first ELSE NextBatch(f[n - 1])
    <3> SUFFICES ASSUME NEW n \in 0 .. M, n # 0
                 PROVE  f[n] = NextBatch(f[n - 1])
      BY <2>2 DEF Iterates
    <3>1. n \in 1 .. M /\ f[n - 1] \in Batches
      BY <1>0
    <3>2. f[n] = step[n][f[n - 1]]
      BY <2>2, <3>1 DEF Iterates
    <3> QED BY <3>1, <3>2
  <2> HIDE DEF step
  <2>4. f = [n \in 0 .. M |-> f[n]]
    OBVIOUS
  <2> QED BY <2>3, <2>4, Zenon
<1> DEFINE F == CHOOSE f : Rec(f)
<1>4. Rec(F)
  BY <1>3, ZenonT(30)
<1>5. AllValidators = IF F[M].failed THEN Err("error") ELSE OK(F[M].found)
  BY <1>1, ZenonT(30) DEF AllValidators, Batch
<1> HIDE DEF F
<1>6. F[0] = first /\ \A n \in 1 .. M : F[n] = NextBatch(F[n - 1])
  <2> HIDE DEF first, M
  <2>1. \A n \in 0 .. M : F[n] = IF n = 0 THEN first ELSE NextBatch(F[n - 1])
    BY <1>4, Zenon
  <2> QED BY <1>0, <2>1
<1> HIDE DEF Rec, first, b
<1> DEFINE Good(all, n) == /\ all \in Batches /\ (all.cursor # 0 => all.cursor > n)
                           /\ ~all.failed /\ AsShown(all.found)
                           /\ Lists(Ops(all.found), Reached(Registered, all.cursor))
           Bad == {n \in 0 .. M : ~Good(F[n], n)}
<1>7. Good(first, 0)
  BY <1>1, <1>f, ZenonT(30)
<1>8. ASSUME NEW n \in 1 .. M, NEW all, Good(all, n - 1) PROVE Good(NextBatch(all), n)
  <2>1. all \in Batches /\ all.cursor \in 0 .. N
    BY <1>8 DEF Batches
  <2>2. CASE all.cursor = 0
    <3>1. NextBatch(all) = all
      BY <2>2, ZenonT(30) DEF NextBatch
    <3> QED BY <1>8, <2>2, <3>1
  <2>3. CASE all.cursor # 0
    <3> DEFINE a == all.cursor
               next == NextBatch(all)
    <3>1. Reached(Registered, a) = UpTo(Registered, a) /\ a > n - 1
      BY <1>8, <2>3, ZenonT(30) DEF Reached
    <3>2. Lists(Ops(all.found), UpTo(Registered, a))
      BY <1>8, <3>1, ZenonT(30)
    <3>3. /\ next \in Batches /\ ~next.failed
          /\ next.cursor # 0 => a < next.cursor
          /\ AsShown(next.found)
          /\ Lists(Ops(next.found), Reached(Registered, next.cursor))
      BY <1>8, <2>1, <2>3, <3>2, NextBatchStep, ZenonT(30)
    <3> HIDE DEF next
    <3>4. next.cursor \in Int
      BY <3>3 DEF Batches
    <3>5. next.cursor # 0 => next.cursor > n
      BY <2>1, <3>1, <3>3, <3>4
    <3> QED BY <3>3, <3>5, ZenonT(30) DEF next
  <2> QED BY <2>2, <2>3, ZenonT(30)
<1>9. Bad = {}
  <2> SUFFICES ASSUME Bad # {} PROVE FALSE
    OBVIOUS
  <2>1. PICK n \in Bad : \A k \in Bad : n <= k
    <3>1. Bad \subseteq Nat
      BY <1>0
    <3> HIDE DEF Bad
    <3> QED BY <3>1, LeastNat, ZenonT(30)
  <2> HIDE DEF Good, M
  <2>2. n # 0
    BY <1>6, <1>7
  <2>3. n \in 1 .. M /\ n - 1 \in 0 .. M /\ ~(n <= n - 1)
    BY <1>0, <2>2
  <2>4. Good(F[n - 1], n - 1)
    BY <2>1, <2>3
  <2> QED BY <1>6, <1>8, <2>3, <2>4, ZenonT(30)
<1> DEFINE last == F[M]
<1>10. Good(last, M)
  <2> HIDE DEF Good
  <2>1. M \in 0 .. M
    BY <1>0
  <2> QED BY <1>9, <2>1
<1> HIDE DEF last
<1>11. last.cursor = 0 /\ last.found \in Seq(Found)
  <2>1. last.cursor \in 0 .. N /\ last.found \in Seq(Found)
    BY <1>10 DEF Batches
  <2> QED BY <1>0, <1>10, <2>1
<1>12. AsShown(last.found) /\ Lists(Ops(last.found), Registered) /\ ~last.failed
  BY <1>10, <1>11 DEF Reached
<1>13. AllValidators = OK(last.found)
  BY <1>5, <1>12, ZenonT(30) DEF last
<1> QED BY <1>11, <1>12, <1>13, ZenonT(30)

(* For any number of validators and any page size of the contracts: the    *)
(* loop over the pages of active validators calls back once for each, in   *)
(* the order of addresses, with the right key as long as they all have one *)
(* type of key, and the contracts' query for all validators ends with each *)
(* of them once and as the single query shows it.                          *)
THEOREM ListingsComplete == Spec => []ListingsAreComplete
<1>1. ASSUME QType PROVE ListingsAreComplete
  <2> DEFINE it == IterateActiveValidators
             all == AllValidators
             keys == {vals[o].key : o \in Active}
  <2>1. Registered \subseteq Operators /\ Active \subseteq Operators /\ Active \subseteq Registered
    BY <1>1, RegisteredKey DEF Active
  <2>2. it.cursor = 0 /\ it.seen \in Seq(Info) /\ Lists(Ops(it.seen), Active)
    BY <1>1, ActiveLoop
  <2>3. Ops(it.seen) = InOrder(Active)
    <3>1. Lists(InOrder(Active), Active)
      BY <2>1, InOrderLists, ZenonT(30)
    <3> HIDE DEF it
    <3> QED BY <2>2, <3>1, ListsUnique, ZenonT(30)
  <2>4. ASSUME Cardinality(keys) = 1, NEW i \in DOMAIN it.seen
        PROVE  ConvertToTendermintPubKey(it.seen[i])
                 = <<vals[it.seen[i].operator].key, it.seen[i].operator>>
    <3>1. IsFiniteSet(keys)
      <4>1. keys \subseteq KeyTypes
        BY <1>1, <2>1, RegisteredKey
      <4>2. IsFiniteSet(KeyTypes)
        BY FinitePair, Zenon DEF KeyTypes
      <4> HIDE DEF keys
      <4> QED BY <4>1, <4>2, FiniteSubset, ZenonT(30)
    <3>2. PICK T : keys = {T}
      <4> HIDE DEF keys
      <4> QED BY <2>4, <3>1, CardinalityOne, Zenon
    <3>3. OneType(T)
      <4>1. T \in keys /\ \A o \in Active : vals[o].key \in keys
        BY <3>2, ZenonT(30)
      <4>2. keys \subseteq KeyTypes
        BY <1>1, <2>1, RegisteredKey
      <4> HIDE DEF keys
      <4> QED BY <3>2, <4>1, <4>2, ZenonT(30) DEF OneType
    <3>4. AllRight(it.seen, T)
      BY <1>1, <3>3, ActiveLoop, ZenonT(30)
    <3> DEFINE e == it.seen[i]
               o == e.operator
    <3> HIDE DEF it
    <3>5. i \in 1 .. Len(it.seen) /\ e \in Info
      BY <2>2
    <3>6. Right(e, T)
      BY <3>4, <3>5, ZenonT(30) DEF AllRight
    <3>7. o \in Active
      <4>1. Ops(it.seen)[i] = o /\ Len(Ops(it.seen)) = Len(it.seen)
        BY <2>2, <3>5 DEF Ops
      <4> QED BY <2>2, <3>5, <4>1, ZenonT(30) DEF Lists
    <3> HIDE DEF e
    <3>8. vals[o].key = T /\ T \in KeyTypes /\ o \in Operators /\ o # 0
      <4>1. \A x \in Operators : x # 0
        BY DEF Operators
      <4> QED BY <2>1, <3>3, <3>7, <4>1, Zenon DEF OneType
    <3>9. ConvertToTendermintPubKey(e) = <<T, o>>
      BY <3>6, <3>8 DEF ConvertToTendermintPubKey, Right, KeyTypes
    <3> QED BY <3>8, <3>9 DEF e
  <2>5. ASSUME ready
        PROVE  /\ all.code = "OK" /\ Ops(all.value) = InOrder(Registered)
               /\ \A i \in DOMAIN all.value : OK(all.value[i]) = Validator(all.value[i].operator)
    <3>1. PICK s \in Seq(Found) : all = OK(s) /\ AsShown(s) /\ Lists(Ops(s), Registered)
      BY <1>1, <2>5, AllLoop, ZenonT(30)
    <3>2. all.code = "OK" /\ all.value = s
      BY <3>1, Answers, ZenonT(30)
    <3>3. Ops(s) = InOrder(Registered)
      <4>1. Lists(InOrder(Registered), Registered)
        BY <2>1, InOrderLists, ZenonT(30)
      <4> QED BY <3>1, <4>1, ListsUnique, ZenonT(30)
    <3>4. ASSUME NEW i \in DOMAIN s PROVE OK(s[i]) = Validator(s[i].operator)
      <4>1. s[i].operator \in Registered /\ s[i] = ToValidator(s[i].operator)
        BY <3>1 DEF AsShown
      <4>2. s[i].operator \in Addresses
        BY <2>1, <4>1, ZenonT(30) DEF Addresses
      <4>3. Validator(s[i].operator) = OK(ToValidator(s[i].operator))
        BY <1>1, <2>5, <4>1, <4>2, ValidatorAnswers, ZenonT(30)
      <4> QED BY <4>1, <4>3, ZenonT(30)
    <3> HIDE DEF all
    <3> QED BY <3>2, <3>3, <3>4, ZenonT(30)
  <2> HIDE DEF it, all
  <2> QED BY <2>2, <2>3, <2>4, <2>5, Zenon DEF ListingsAreComplete, it, all, Ops
<1>2. QInv => ListingsAreComplete
  BY <1>1 DEF QInv
<1> QED BY <1>2, QueryInvariance, PTL

=============================================================================
