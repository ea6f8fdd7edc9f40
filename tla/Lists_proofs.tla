---------------------------- MODULE Lists_proofs ----------------------------
(***************************************************************************)
(* What the list operators return, and the induction over the natural      *)
(* numbers that it takes.  A set of numbers that has 0 and the successor   *)
(* of each of its members has them all: stated for a set, induction needs  *)
(* no predicate as a parameter.                                            *)
(***************************************************************************)
EXTENDS Lists, SequenceTheorems, WellFoundedInduction, TLAPS

\* Any nonempty set of numbers has a least element.
LEMMA LeastNat ==
  ASSUME NEW T \in SUBSET Nat, T # {}
  PROVE  \E x \in T : \A y \in T : x <= y
<1> DEFINE R == OpToRel(<, Nat)
<1>1. \E x \in T : \A y \in T : ~ (<<y, x>> \in R)
  BY NatLessThanWellFounded, WFMin
<1>2. \A x, y \in Nat : y < x => <<y, x>> \in R
  BY DEF OpToRel
<1> HIDE DEF R
<1>3. PICK x \in T : \A y \in T : ~ (<<y, x>> \in R)
  BY <1>1
<1>4. \A y \in T : ~(y < x)
  BY <1>2, <1>3
<1>5. \A y \in T : x \in Nat /\ y \in Nat
  OBVIOUS
<1>6. QED
  BY <1>4, <1>5

LEMMA Induction ==
  ASSUME NEW T \in SUBSET Nat, 0 \in T, \A n \in T : n + 1 \in T
  PROVE  T = Nat
<1> SUFFICES ASSUME Nat \ T # {} PROVE FALSE
  OBVIOUS
<1>1. PICK x \in Nat \ T : \A y \in Nat \ T : x <= y
  BY LeastNat
<1>2. x # 0 /\ x - 1 \in Nat
  BY <1>1
<1>3. ~(x <= x - 1)
  BY <1>1
<1>4. x - 1 \in T
  BY <1>1, <1>2, <1>3
<1>5. (x - 1) + 1 = x
  BY <1>1
<1>6. QED
  BY <1>1, <1>4, <1>5

-----------------------------------------------------------------------------
(***************************************************************************)
(* Appending, and changing every element.                                  *)
(***************************************************************************)

LEMMA AppendIsFunction ==
  ASSUME NEW S, NEW q \in Seq(S), NEW e \in S
  PROVE  Append(q, e) = [k \in 1..(Len(q) + 1) |-> IF k = Len(q) + 1 THEN e ELSE q[k]]
<1> DEFINE new == Append(q, e)
<1> DEFINE len == Len(q)
<1>1. /\ new \in Seq(S)
      /\ Len(new) = len + 1
      /\ new[len + 1] = e
      /\ \A k \in 1..len : new[k] = q[k]
  BY AppendProperties
<1>2. len \in Nat
  OBVIOUS
<1> HIDE DEF new, len
<1>3. DOMAIN new = 1..(len + 1) /\ new = [k \in DOMAIN new |-> new[k]]
  <2>1. new \in [1..Len(new) -> S]
    BY <1>1, LenProperties
  <2>2. QED
    BY <1>1, <2>1
<1>4. \A k \in 1..(len + 1) : new[k] = IF k = len + 1 THEN e ELSE q[k]
  <2> SUFFICES ASSUME NEW k \in 1..(len + 1)
               PROVE  new[k] = IF k = len + 1 THEN e ELSE q[k]
    OBVIOUS
  <2>1. k = len + 1 \/ k \in 1..len
    BY <1>2
  <2>2. QED
    BY <1>1, <2>1
<1>5. new = [k \in 1..(len + 1) |-> IF k = len + 1 THEN e ELSE q[k]]
  BY <1>3, <1>4
<1>6. QED
  BY <1>5 DEF new, len

LEMMA MappedAppend ==
  ASSUME NEW S, NEW q \in Seq(S), NEW e \in S, NEW F
  PROVE  Mapped(F, Append(q, e)) = Append(Mapped(F, q), F[e])
<1> DEFINE V == {F[x] : x \in S}
<1> DEFINE len == Len(q)
<1>1. DOMAIN q = 1..len /\ len \in Nat /\ \A k \in 1..len : q[k] \in S
  OBVIOUS
<1>2. Mapped(F, q) \in [1..len -> V]
  BY <1>1 DEF Mapped
<1>3. Mapped(F, q) \in Seq(V) /\ Len(Mapped(F, q)) = len
  <2>1. Mapped(F, q) \in Seq(V)
    BY <1>1, <1>2, SeqDef
  <2>2. DOMAIN Mapped(F, q) = 1..len
    BY <1>2
  <2> HIDE DEF V, len
  <2>3. QED
    BY <1>1, <2>1, <2>2, LenProperties
<1>4. F[e] \in V
  OBVIOUS
<1> DEFINE left == Mapped(F, Append(q, e))
<1> DEFINE right == Append(Mapped(F, q), F[e])
<1> HIDE DEF V
<1>5. right = [k \in 1..(len + 1) |-> IF k = len + 1 THEN F[e] ELSE Mapped(F, q)[k]]
  BY <1>3, <1>4, AppendIsFunction
<1>6. Append(q, e) = [k \in 1..(len + 1) |-> IF k = len + 1 THEN e ELSE q[k]]
  BY AppendIsFunction
<1> HIDE DEF len
<1>7. left = [k \in 1..(len + 1) |-> F[IF k = len + 1 THEN e ELSE q[k]]]
  BY <1>6 DEF Mapped
<1> HIDE DEF left, right
<1>8. ASSUME NEW k \in 1..(len + 1)
      PROVE  F[IF k = len + 1 THEN e ELSE q[k]] = IF k = len + 1 THEN F[e] ELSE Mapped(F, q)[k]
  <2>1. k = len + 1 \/ k \in 1..len
    BY <1>1
  <2>2. k \in 1..len => Mapped(F, q)[k] = F[q[k]]
    BY <1>1 DEF Mapped
  <2>3. QED
    BY <2>1, <2>2
<1>9. left = right
  BY <1>5, <1>7, <1>8
<1>10. QED
  BY <1>9 DEF left, right

-----------------------------------------------------------------------------
(***************************************************************************)
(* The comprehension.                                                      *)
(***************************************************************************)

\* One element more.
Grown(f, s, keep, n) == IF n \in keep THEN Append(f[n - 1], s[n]) ELSE f[n - 1]

IsGrowing(f, s, keep, m) ==
  f = [n \in 0..m |-> IF n = 0 THEN <<>> ELSE Grown(f, s, keep, n)]

\* A function that satisfies the recursion exists, up to any length.
LEMMA GrowingExists ==
  ASSUME NEW s, NEW keep
  PROVE  \A m \in Nat : \E f : IsGrowing(f, s, keep, m)
<1> DEFINE T == {m \in Nat : \E f : IsGrowing(f, s, keep, m)}
<1>1. 0 \in T
  <2> DEFINE g == [n \in 0..0 |-> <<>>]
  <2>1. IsGrowing(g, s, keep, 0)
    BY DEF IsGrowing
  <2>2. QED
    BY <2>1
<1>2. ASSUME NEW m \in T PROVE m + 1 \in T
  <2>1. PICK f : IsGrowing(f, s, keep, m)
    OBVIOUS
  <2> DEFINE next == Grown(f, s, keep, m + 1)
  <2> DEFINE g == [n \in 0..(m + 1) |-> IF n = m + 1 THEN next ELSE f[n]]
  <2>2. \A n \in 0..m : f[n] = IF n = 0 THEN <<>> ELSE Grown(f, s, keep, n)
    BY <2>1 DEF IsGrowing
  <2>3. \A n \in 0..(m + 1) : g[n] = IF n = 0 THEN <<>> ELSE Grown(g, s, keep, n)
    <3> SUFFICES ASSUME NEW n \in 0..(m + 1)
                 PROVE  g[n] = IF n = 0 THEN <<>> ELSE Grown(g, s, keep, n)
      OBVIOUS
    <3>1. CASE n = m + 1
      <4>1. (m + 1) - 1 = m /\ m \in 0..(m + 1) /\ m # m + 1 /\ n # 0
        BY <3>1
      <4>2. g[m] = f[m] /\ g[m + 1] = next
        BY <4>1
      <4> HIDE DEF g
      <4>3. QED
        BY <3>1, <4>1, <4>2 DEF Grown
    <3>2. CASE n \in 0..m
      <4>1. n # m + 1 /\ (n # 0 => n - 1 \in 0..(m + 1) /\ n - 1 # m + 1)
        BY <3>2
      <4>2. g[n] = f[n] /\ (n # 0 => g[n - 1] = f[n - 1])
        BY <4>1
      <4> HIDE DEF g
      <4>3. QED
        BY <2>2, <3>2, <4>2 DEF Grown
    <3>3. QED
      BY <3>1, <3>2
  <2>4. IsGrowing(g, s, keep, m + 1)
    <3> DEFINE h == [n \in 0..(m + 1) |-> IF n = 0 THEN <<>> ELSE Grown(g, s, keep, n)]
    <3> HIDE DEF next
    <3>1. g = h
      BY <2>3
    <3>2. QED
      BY <3>1 DEF IsGrowing
  <2>5. QED
    BY <2>4
<1> HIDE DEF T
<1>3. T = Nat
  BY <1>1, <1>2, Induction DEF T
<1>4. QED
  BY <1>3 DEF T

\* Hence the recursion equation.
LEMMA GrowingEquation ==
  ASSUME NEW s, NEW keep, Len(s) \in Nat
  PROVE  /\ Growing(s, keep)[0] = <<>>
         /\ \A n \in 1..Len(s) :
              Growing(s, keep)[n] = Grown(Growing(s, keep), s, keep, n)
<1> DEFINE f == Growing(s, keep)
<1>1. \E g : IsGrowing(g, s, keep, Len(s))
  BY GrowingExists
<1>2. f = CHOOSE g : IsGrowing(g, s, keep, Len(s))
  BY DEF Growing, IsGrowing, Grown
<1>3. IsGrowing(f, s, keep, Len(s))
  BY <1>1, <1>2
<1> HIDE DEF f
<1>4. f[0] = <<>> /\ \A n \in 1..Len(s) : f[n] = Grown(f, s, keep, n)
  BY <1>3 DEF IsGrowing
<1>5. QED
  BY <1>4 DEF f

\* t has the elements of s at the kept positions up to m, all and in order.
Picks(place, t, s, kept) ==
  /\ place \in [1..Len(t) -> kept]
  /\ \A a \in 1..Len(t) : t[a] = s[place[a]]
  /\ \A a, b \in 1..Len(t) : a < b => place[a] < place[b]
  /\ \A i \in kept : \E a \in 1..Len(t) : place[a] = i

LEMMA PicksOneMore ==
  ASSUME NEW S, NEW s \in Seq(S), NEW m \in Nat, m + 1 \in 1..Len(s),
         NEW kept \in SUBSET (1..m), NEW t \in Seq(S), NEW place, Picks(place, t, s, kept),
         NEW new, new = Append(t, s[m + 1])
  PROVE  new \in Seq(S) /\ \E more : Picks(more, new, s, kept \union {m + 1})
<1> DEFINE len == Len(t)
<1> DEFINE more == [a \in 1..(len + 1) |-> IF a = len + 1 THEN m + 1 ELSE place[a]]
<1>1. /\ len \in Nat
      /\ new \in Seq(S)
      /\ Len(new) = len + 1
      /\ new[len + 1] = s[m + 1]
      /\ \A a \in 1..len : new[a] = t[a]
  BY AppendProperties
<1>2. /\ place \in [1..len -> kept]
      /\ \A a \in 1..len : t[a] = s[place[a]]
      /\ \A a, b \in 1..len : a < b => place[a] < place[b]
      /\ \A i \in kept : \E a \in 1..len : place[a] = i
  BY DEF Picks
<1> HIDE DEF len
<1>3. more[len + 1] = m + 1 /\ \A a \in 1..len : more[a] = place[a]
  BY <1>1
<1>4. more \in [1..(len + 1) -> kept \union {m + 1}]
  BY <1>1, <1>2
<1> HIDE DEF more
<1>5. \A a \in 1..(len + 1) : a = len + 1 \/ a \in 1..len
  BY <1>1
<1>6. \A a \in 1..(len + 1) : new[a] = s[more[a]]
  BY <1>1, <1>2, <1>3, <1>5
<1>7. ASSUME NEW a \in 1..(len + 1), NEW b \in 1..(len + 1), a < b
      PROVE  more[a] < more[b]
  <2>1. a \in 1..len
    BY <1>1, <1>7
  <2>2. more[a] = place[a] /\ place[a] \in 1..m
    BY <1>2, <1>3, <2>1
  <2>3. CASE b = len + 1
    BY <1>3, <2>2, <2>3
  <2>4. CASE b \in 1..len
    BY <1>2, <1>3, <1>7, <2>1, <2>4
  <2>5. QED
    BY <1>5, <2>3, <2>4
<1>8. ASSUME NEW i \in kept \union {m + 1}
      PROVE  \E a \in 1..(len + 1) : more[a] = i
  <2>1. CASE i = m + 1
    BY <1>1, <1>3, <2>1
  <2>2. CASE i \in kept
    <3>1. PICK a \in 1..len : place[a] = i
      BY <1>2, <2>2
    <3>2. a \in 1..(len + 1)
      BY <1>1
    <3>3. QED
      BY <1>3, <3>1, <3>2
  <2>3. QED
    BY <2>1, <2>2
<1>9. Picks(more, new, s, kept \union {m + 1})
  BY <1>1, <1>4, <1>6, <1>7, <1>8 DEF Picks
<1>10. QED
  BY <1>1, <1>9

\* The comprehension returns the elements at the kept positions, in order.
LEMMA SelectedProperties ==
  ASSUME NEW S, NEW s \in Seq(S), NEW keep
  PROVE  /\ Selected(s, keep) \in Seq(S)
         /\ \E place : Picks(place, Selected(s, keep), s, (1..Len(s)) \intersect keep)
<1> DEFINE f == Growing(s, keep)
<1> DEFINE Kept(m) == (1..m) \intersect keep
<1> DEFINE Good(m) == f[m] \in Seq(S) /\ \E place : Picks(place, f[m], s, Kept(m))
<1>1. Len(s) \in Nat
  OBVIOUS
<1>2. f[0] = <<>> /\ \A n \in 1..Len(s) : f[n] = Grown(f, s, keep, n)
  BY <1>1, GrowingEquation
<1> HIDE DEF f
<1>3. Good(0)
  <2>1. <<>> \in Seq(S) /\ Len(<<>>) = 0 /\ Kept(0) = {}
    OBVIOUS
  <2>2. Picks(<<>>, <<>>, s, {})
    BY DEF Picks
  <2>3. QED
    BY <1>2, <2>1, <2>2
<1>4. ASSUME NEW m \in Nat, m + 1 \in 0..Len(s), Good(m) PROVE Good(m + 1)
  <2>1. m \in 0..Len(s) /\ m + 1 \in 1..Len(s) /\ (m + 1) - 1 = m
    BY <1>1, <1>4
  <2>2. f[m] \in Seq(S)
    BY <1>4
  <2>3. PICK place : Picks(place, f[m], s, Kept(m))
    BY <1>4
  <2>4. f[m + 1] = IF m + 1 \in keep THEN Append(f[m], s[m + 1]) ELSE f[m]
    BY <1>2, <2>1 DEF Grown
  <2>5. Kept(m + 1) = IF m + 1 \in keep THEN Kept(m) \union {m + 1} ELSE Kept(m)
    BY <2>1
  <2>6. Kept(m) \in SUBSET (1..m)
    OBVIOUS
  <2> HIDE DEF Kept
  <2>7. CASE m + 1 \in keep
    <3>1. f[m + 1] = Append(f[m], s[m + 1]) /\ Kept(m + 1) = Kept(m) \union {m + 1}
      BY <2>4, <2>5, <2>7
    <3>2. f[m + 1] \in Seq(S)
      BY <2>1, <2>2, <2>3, <2>6, <3>1, PicksOneMore
    <3>3. \E more : Picks(more, f[m + 1], s, Kept(m) \union {m + 1})
      BY <2>1, <2>2, <2>3, <2>6, <3>1, PicksOneMore
    <3>4. QED
      BY <3>1, <3>2, <3>3
  <2>8. CASE m + 1 \notin keep
    BY <2>2, <2>3, <2>4, <2>5, <2>8
  <2>9. QED
    BY <2>7, <2>8
<1> HIDE DEF Good
<1>5. Good(Len(s))
  <2> DEFINE T == {m \in Nat : m \in 0..Len(s) => Good(m)}
  <2>1. ASSUME NEW m \in T PROVE m + 1 \in T
    BY <1>1, <1>4
  <2>2. 0 \in T /\ T \in SUBSET Nat
    BY <1>3
  <2> HIDE DEF T
  <2>3. T = Nat
    BY <2>1, <2>2, Induction
  <2>4. QED
    BY <1>1, <2>3 DEF T
<1>6. QED
  BY <1>5 DEF Good, f, Selected
-----------------------------------------------------------------------------
(***************************************************************************)
(* The sort.                                                               *)
(***************************************************************************)

\* There is one way to put N positions in ascending order.
LEMMA AscendingIsIdentity ==
  ASSUME NEW N \in Nat, NEW p \in [1..N -> 1..N],
         \A m, n \in 1..N : m < n => p[m] < p[n]
  PROVE  \A n \in 1..N : p[n] = n
<1>1. \A n \in 1..N : p[n] >= n
  <2> DEFINE T == {n \in Nat : n \in 1..N => p[n] >= n}
  <2>1. 0 \in T /\ T \in SUBSET Nat
    OBVIOUS
  <2>2. ASSUME NEW n \in T PROVE n + 1 \in T
    <3> SUFFICES ASSUME n + 1 \in 1..N PROVE p[n + 1] >= n + 1
      OBVIOUS
    <3>1. p[n + 1] \in 1..N
      OBVIOUS
    <3>2. CASE n = 0
      BY <3>1, <3>2
    <3>3. CASE n # 0
      <4>1. n \in 1..N /\ n < n + 1
        BY <3>3
      <4>2. p[n] < p[n + 1] /\ p[n] >= n /\ p[n] \in 1..N
        BY <4>1
      <4>3. n \in Nat
        OBVIOUS
      <4>4. QED
        BY ONLY <3>1, <4>2, <4>3, N \in Nat
    <3>4. QED
      BY <3>2, <3>3
  <2> HIDE DEF T
  <2>3. T = Nat
    BY <2>1, <2>2, Induction
  <2>4. QED
    BY <2>3 DEF T
<1>2. \A n \in 1..N : p[n] <= n
  <2> DEFINE T == {k \in Nat : N - k \in 1..N => p[N - k] <= N - k}
  <2>1. 0 \in T /\ T \in SUBSET Nat
    OBVIOUS
  <2>2. ASSUME NEW k \in T PROVE k + 1 \in T
    <3> DEFINE n == N - (k + 1)
    <3> SUFFICES ASSUME n \in 1..N PROVE p[n] <= n
      OBVIOUS
    <3>1. k \in Nat /\ n + 1 = N - k /\ n + 1 \in 1..N /\ n < n + 1
      OBVIOUS
    <3>2. p[N - k] <= N - k
      BY <3>1
    <3>3. p[n] < p[n + 1] /\ p[n] \in 1..N /\ p[n + 1] \in 1..N
      BY <3>1
    <3>4. p[n + 1] <= n + 1
      BY <3>1, <3>2
    <3>5. n \in 1..N
      OBVIOUS
    <3> HIDE DEF n
    <3>6. QED
      BY ONLY <3>3, <3>4, <3>5, N \in Nat
  <2> HIDE DEF T
  <2>3. T = Nat
    BY <2>1, <2>2, Induction
  <2>4. ASSUME NEW n \in 1..N PROVE p[n] <= n
    <3>1. N - n \in Nat /\ N - (N - n) = n
      OBVIOUS
    <3>2. N - n \in T
      BY <2>3, <3>1
    <3>3. QED
      BY <3>1, <3>2 DEF T
  <2>5. QED
    BY <2>4
<1>3. QED
  BY <1>1, <1>2

\* Sorting does not touch a list whose keys ascend already.
LEMMA SortedAlready ==
  ASSUME NEW S, NEW s \in Seq(S), NEW key \in [DOMAIN s -> Nat],
         \A m, n \in DOMAIN s : m < n => key[m] < key[n]
  PROVE  Sorted(s, key) = s
<1> DEFINE N == Len(s)
<1>1. N \in Nat /\ DOMAIN s = 1..N
  OBVIOUS
<1> DEFINE id == [n \in 1..N |-> n]
<1> DEFINE p == CHOOSE q \in [DOMAIN s -> DOMAIN s] : Orders(q, s, key)
<1>2. id \in [DOMAIN s -> DOMAIN s] /\ Orders(id, s, key)
  BY <1>1 DEF Orders
<1>3. p \in [DOMAIN s -> DOMAIN s] /\ Orders(p, s, key)
  BY <1>2
<1> HIDE DEF N, p
<1>4. ASSUME NEW m \in 1..N, NEW n \in 1..N, m < n PROVE p[m] < p[n]
  <2>1. /\ p[m] \in DOMAIN s /\ p[n] \in DOMAIN s
        /\ p[m] \in Nat /\ p[n] \in Nat
    BY <1>1, <1>3
  <2>2. key[p[m]] < key[p[n]] \/ p[m] < p[n]
    BY <1>1, <1>3, <1>4 DEF Orders
  <2>3. p[n] < p[m] => key[p[n]] < key[p[m]]
    BY <2>1
  <2>4. p[n] = p[m] => key[p[n]] = key[p[m]]
    OBVIOUS
  <2>5. key[p[m]] \in Nat /\ key[p[n]] \in Nat
    BY <2>1
  <2>6. QED
    BY ONLY <2>1, <2>2, <2>3, <2>4, <2>5
<1>5. \A n \in 1..N : p[n] = n
  BY <1>1, <1>3, <1>4, AscendingIsIdentity
<1>6. Sorted(s, key) = [n \in DOMAIN s |-> s[p[n]]]
  BY DEF Sorted, p
<1>7. s = [n \in DOMAIN s |-> s[n]]
  OBVIOUS
<1>8. QED
  BY <1>1, <1>5, <1>6, <1>7
=============================================================================
