------------------------------- MODULE Lists -------------------------------
(***************************************************************************)
(* The list idioms of the code: a comprehension, with a condition or a     *)
(* function of the elements, and list.sort with a key.                     *)
(* SelectSeq and SortSeq compute the same on the lists in use, but neither *)
(* can be reasoned about, and SortSeq promises nothing about equal keys.   *)
(***************************************************************************)
EXTENDS Naturals, Sequences

\* The comprehension after its first n elements, for every n.
Growing(s, keep) ==
  LET grown[n \in 0..Len(s)] ==
        IF n = 0 THEN <<>>
        ELSE IF n \in keep THEN Append(grown[n - 1], s[n]) ELSE grown[n - 1]
  IN grown

\* [x for x in s if ...], where keep has the positions that satisfy the condition
Selected(s, keep) == Growing(s, keep)[Len(s)]

\* [F[x] for x in s]
Mapped(F, s) == [n \in DOMAIN s |-> F[s[n]]]

\* Position p[n] of the list goes to position n; equal keys keep their order.
Orders(p, s, key) ==
  \A m, n \in DOMAIN s : m < n =>
    \/ key[p[m]] < key[p[n]]
    \/ key[p[m]] = key[p[n]] /\ p[m] < p[n]

\* s.sort(key=...), where key has the key of every position
Sorted(s, key) ==
  LET p == CHOOSE p \in [DOMAIN s -> DOMAIN s] : Orders(p, s, key) IN
  [n \in DOMAIN s |-> s[p[n]]]
=============================================================================
