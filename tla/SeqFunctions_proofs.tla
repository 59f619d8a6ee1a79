----------------------- MODULE SeqFunctions_proofs -----------------------
(***************************************************************************)
(* Induction on the natural numbers, functions defined by it, and what the *)
(* operators of SeqFunctions return for every sequence.  The library's     *)
(* induction theorems take a predicate as a parameter; here the predicate  *)
(* is the set of the numbers it fails for, and induction the fact that a   *)
(* set of naturals that is not empty has a least member.                   *)
(***************************************************************************)
EXTENDS SeqFunctions, SequencesExt, WellFoundedInduction, TLAPS

LEMMA LeastNumber ==
  ASSUME NEW T, T \subseteq Nat, T # {}
  PROVE  \E m \in T : \A k \in T : m <= k
<1>1. OpToRel(<, Nat) = {ss \in Nat \X Nat : ss[1] < ss[2]}
  BY Zenon DEF OpToRel
<1>2. \E x \in T : \A y \in T : <<y, x>> \notin OpToRel(<, Nat)
  BY WFMin, NatLessThanWellFounded, Zenon
<1>3. \E x \in T : \A y \in T : <<y, x>> \notin {ss \in Nat \X Nat : ss[1] < ss[2]}
  BY <1>1, <1>2, Zenon
<1>4. PICK x \in T : \A y \in T : <<y, x>> \notin {ss \in Nat \X Nat : ss[1] < ss[2]}
  BY <1>3, Zenon
<1>5. ASSUME NEW y \in T
      PROVE  x <= y
  <2>1. <<y, x>> \notin {ss \in Nat \X Nat : ss[1] < ss[2]}
    BY <1>4
  <2>2. ~ (y < x)
    BY <2>1
  <2> QED
    BY <2>2
<1> QED
  BY <1>5

\* Induction from 0 to N: a set with 0 and with the successor of each member
\* below N has them all.
LEMMA Induction ==
  ASSUME NEW N \in Nat, NEW P, 0 \in P,
         \A n \in 1..N : n - 1 \in P => n \in P
  PROVE  0..N \subseteq P
<1> DEFINE T == (0..N) \ P
<1>1. SUFFICES ASSUME T # {}
               PROVE  FALSE
  OBVIOUS
<1>t. T \subseteq Nat
  OBVIOUS
<1>2. PICK m \in T : \A k \in T : m <= k
  <2> HIDE DEF T
  <2> QED
    BY <1>1, <1>t, LeastNumber
<1>3. m \in 1..N /\ m - 1 \in 0..N
  BY <1>2
<1>4. m - 1 \in P
  BY <1>2, <1>3
<1> QED
  BY <1>2, <1>3, <1>4

\* A function that starts with v and goes on by the steps of G.
Iterates(f, v, G, N) ==
  f[0] = v /\ \A n \in 1..N : f[n] = G[<<f[n - 1], n>>]

LEMMA IterationExists ==
  ASSUME NEW V, NEW v \in V, NEW N \in Nat, NEW G \in [V \X (1..N) -> V]
  PROVE  \E f \in [0..N -> V] : Iterates(f, v, G, N)
<1> DEFINE P == {n \in 0..N : \E f \in [0..n -> V] : Iterates(f, v, G, n)}
<1>1. 0 \in P
  <2>1. [k \in 0..0 |-> v] \in [0..0 -> V] /\ Iterates([k \in 0..0 |-> v], v, G, 0)
    BY DEF Iterates
  <2> QED
    BY <2>1
<1>2. ASSUME NEW n \in 1..N, n - 1 \in P
      PROVE  n \in P
  <2>1. PICK f \in [0..(n - 1) -> V] : Iterates(f, v, G, n - 1)
    BY <1>2
  <2> DEFINE g == [k \in 0..n |-> IF k = n THEN G[<<f[n - 1], n>>] ELSE f[k]]
  <2>2. n - 1 \in 0..(n - 1) /\ <<f[n - 1], n>> \in V \X (1..N)
    BY <2>1
  <2>3. g \in [0..n -> V]
    BY <2>1, <2>2
  <2>4. g[0] = v
    BY <2>1 DEF Iterates
  <2>5. \A k \in 1..n : g[k] = G[<<g[k - 1], k>>]
    <3>1. TAKE k \in 1..n
    <3>2. CASE k = n
      BY <3>2
    <3>3. CASE k # n
      <4>1. k \in 1..(n - 1) /\ k \in 0..n /\ k - 1 \in 0..n /\ k - 1 # n
        BY <3>3
      <4>2. f[k] = G[<<f[k - 1], k>>]
        BY <2>1, <4>1 DEF Iterates
      <4> QED
        BY <4>1, <4>2, <3>3
    <3> QED
      BY <3>2, <3>3
  <2> HIDE DEF g
  <2>6. n \in 0..N
    OBVIOUS
  <2> QED
    BY <2>3, <2>4, <2>5, <2>6 DEF Iterates
<1>3. 0..N \subseteq P
  BY <1>1, <1>2, Induction
<1> QED
  BY <1>3

-----------------------------------------------------------------------------
(***************************************************************************)
(* Kept.  r is a selection of s by T: at says where each element of r was. *)
(***************************************************************************)
Embeds(at, r, s, T, n) ==
  /\ at \in [1..Len(r) -> 1..n]
  /\ \A i, j \in 1..Len(r) : i < j => at[i] < at[j]
  /\ \A i \in 1..Len(r) : r[i] = s[at[i]] /\ s[at[i]] \in T
  /\ \A m \in 1..n : s[m] \in T => \E i \in 1..Len(r) : at[i] = m

\* f obeys the equation of the recursive function in Kept.
Selects(f, s, T) ==
  /\ f[0] = <<>>
  /\ \A n \in 1..Len(s) : f[n] = IF s[n] \in T THEN Append(f[n - 1], s[n]) ELSE f[n - 1]

\* The recursive function in Kept is defined: it obeys its own equation.
LEMMA KeptDefined ==
  ASSUME NEW S, NEW s \in Seq(S), NEW T
  PROVE  \E f \in [0..Len(s) -> Seq(S)] : Selects(f, s, T) /\ Kept(s, T) = f[Len(s)]
<1> DEFINE N == Len(s)
           G == [p \in Seq(S) \X (1..N) |->
                   IF s[p[2]] \in T THEN Append(p[1], s[p[2]]) ELSE p[1]]
           Body(f, n) == IF n = 0 THEN <<>>
                         ELSE IF s[n] \in T THEN Append(f[n - 1], s[n]) ELSE f[n - 1]
           Good(f) == f = [n \in 0..N |-> Body(f, n)]
           h == CHOOSE g : Good(g)
<1>1. N \in Nat /\ <<>> \in Seq(S)
  OBVIOUS
<1>2. G \in [Seq(S) \X (1..N) -> Seq(S)]
  <2>1. \A p \in Seq(S) \X (1..N) : p[1] \in Seq(S) /\ s[p[2]] \in S
    OBVIOUS
  <2> QED
    BY <2>1
<1>3. PICK f \in [0..N -> Seq(S)] : Iterates(f, <<>>, G, N)
  <2> HIDE DEF G, N
  <2> QED
    BY <1>1, <1>2, IterationExists
<1>4. \A n \in 1..N : f[n] = Body(f, n)
  <2>1. TAKE n \in 1..N
  <2>1a. n - 1 \in 0..N
    BY <1>1
  <2>2. <<f[n - 1], n>> \in Seq(S) \X (1..N)
    BY <1>3, <2>1a
  <2>3. f[n] = G[<<f[n - 1], n>>]
    BY <1>3 DEF Iterates
  <2> QED
    BY <2>2, <2>3
<1>4b. \A g : g[0] = <<>> => g[0] = Body(g, 0)
  OBVIOUS
<1>5. f[0] = <<>>
  BY <1>3 DEF Iterates
<1>6. Good(f)
  <2>1. \A n \in 0..N : n = 0 \/ n \in 1..N
    BY <1>1
  <2> HIDE DEF Body
  <2>2. \A n \in 0..N : f[n] = Body(f, n)
    BY <1>4, <1>4b, <1>5, <2>1
  <2> QED
    BY <1>3, <2>2
<1>7. Good(h)
  <2> HIDE DEF Good
  <2> QED
    BY <1>6, Zenon
<1>8. DOMAIN h = 0..N /\ \A n \in 0..N : h[n] = Body(h, n)
  <2> HIDE DEF h, Body, N
  <2> QED
    BY <1>7, Zenon
<1> HIDE DEF h
<1>9. h[0] = <<>>
  BY <1>1, <1>8
<1>10. h = f
  <2> DEFINE P == {n \in 0..N : h[n] = f[n]}
  <2>1. 0 \in P
    BY <1>1, <1>5, <1>9
  <2>2. ASSUME NEW n \in 1..N, n - 1 \in P
        PROVE  n \in P
    <3>1. h[n - 1] = f[n - 1] /\ n # 0 /\ n \in 0..N
      BY <2>2
    <3>2. Body(h, n) = Body(f, n)
      BY <3>1, Zenon
    <3> HIDE DEF Body
    <3> QED
      BY <1>4, <1>8, <3>1, <3>2
  <2>3. 0..N \subseteq P
    <3> HIDE DEF P, N
    <3> QED
      BY <1>1, <2>1, <2>2, Induction
  <2>4. \A n \in 0..N : h[n] = f[n]
    BY <2>3
  <2>5. h = [n \in 0..N |-> h[n]]
    <3> HIDE DEF Body
    <3>1. h = [n \in 0..N |-> Body(h, n)]
      BY <1>7
    <3> QED
      BY <1>8, <3>1
  <2> QED
    BY <2>4, <2>5
<1>11. Kept(s, T) = h[N]
  BY Zenon DEF Kept, h
<1>12. Selects(f, s, T)
  BY <1>4, <1>5 DEF Selects
<1> QED
  BY <1>3, <1>10, <1>11, <1>12

LEMMA KeptEmbeds ==
  ASSUME NEW S, NEW s \in Seq(S), NEW T
  PROVE  /\ Kept(s, T) \in Seq(S)
         /\ \E at : Embeds(at, Kept(s, T), s, T, Len(s))
<1> DEFINE N == Len(s)
<1>p. PICK f \in [0..N -> Seq(S)] : Selects(f, s, T) /\ Kept(s, T) = f[N]
  BY KeptDefined
<1>1. /\ f[0] = <<>>
      /\ \A n \in 1..N : f[n] = IF s[n] \in T THEN Append(f[n - 1], s[n]) ELSE f[n - 1]
  BY <1>p, Zenon DEF Selects
<1> DEFINE P == {n \in 0..N : \E at : Embeds(at, f[n], s, T, n)}
<1>2. 0 \in P
  <2>1. Embeds([i \in {} |-> 0], f[0], s, T, 0)
    BY <1>1 DEF Embeds
  <2> QED
    BY <2>1
<1>3. ASSUME NEW n \in 1..N, n - 1 \in P
      PROVE  n \in P
  <2>1. PICK at : Embeds(at, f[n - 1], s, T, n - 1)
    BY <1>3
  <2>2. f[n - 1] \in Seq(S) /\ n \in 0..N /\ s[n] \in S
    BY <1>1
  <2>3. CASE s[n] \notin T
    <3>1. f[n] = f[n - 1]
      BY <1>1, <2>3
    <3>2. Embeds(at, f[n], s, T, n)
      BY <2>1, <2>2, <2>3, <3>1 DEF Embeds
    <3> QED
      BY <2>2, <3>2
  <2>4. CASE s[n] \in T
    <3> DEFINE L == Len(f[n - 1])
               to == [i \in 1..(L + 1) |-> IF i = L + 1 THEN n ELSE at[i]]
    <3>1. f[n] = Append(f[n - 1], s[n])
      BY <1>1, <2>4
    <3>2. /\ L \in Nat /\ Len(f[n]) = L + 1 /\ f[n][L + 1] = s[n]
          /\ \A i \in 1..L : f[n][i] = f[n - 1][i]
      BY <2>2, <3>1
    <3>3. to \in [1..(L + 1) -> 1..n]
      BY <2>1, <3>2 DEF Embeds
    <3>4. \A i, j \in 1..(L + 1) : i < j => to[i] < to[j]
      <4>1. TAKE i, j \in 1..(L + 1)
      <4>2. CASE j = L + 1
        <5>1. i < j => i \in 1..L /\ at[i] \in 1..(n - 1)
          BY <2>1, <3>2, <4>2 DEF Embeds
        <5> QED
          BY <3>2, <4>2, <5>1
      <4>3. CASE j # L + 1 /\ i < j
        <5>1. i \in 1..L /\ j \in 1..L
          BY <3>2, <4>3
        <5>2. at[i] < at[j]
          BY <2>1, <4>3, <5>1 DEF Embeds
        <5> QED
          BY <3>2, <5>1, <5>2
      <4> QED
        BY <4>2, <4>3
    <3>5. \A i \in 1..(L + 1) : f[n][i] = s[to[i]] /\ s[to[i]] \in T
      BY <2>1, <2>4, <3>2 DEF Embeds
    <3>6. \A m \in 1..n : s[m] \in T => \E i \in 1..(L + 1) : to[i] = m
      <4>1. to[L + 1] = n /\ \A i \in 1..L : to[i] = at[i] /\ i \in 1..(L + 1)
        BY <3>2
      <4>2. L + 1 \in 1..(L + 1)
        BY <3>2
      <4> HIDE DEF to
      <4>3. \A m \in 1..(n - 1) : s[m] \in T => \E i \in 1..L : at[i] = m
        BY <2>1 DEF Embeds
      <4>4. \A m \in 1..n : m = n \/ m \in 1..(n - 1)
        OBVIOUS
      <4> QED
        BY <4>1, <4>2, <4>3, <4>4
    <3> HIDE DEF to
    <3>7. Embeds(to, f[n], s, T, n)
      BY <3>2, <3>3, <3>4, <3>5, <3>6 DEF Embeds
    <3> QED
      BY <2>2, <3>7
  <2> QED
    BY <2>3, <2>4
<1>4. N \in 0..N /\ N \in Nat
  OBVIOUS
<1>5. 0..N \subseteq P
  <2> HIDE DEF P, N
  <2> QED
    BY <1>2, <1>3, <1>4, Induction
<1> QED
  BY <1>p, <1>4, <1>5

(***************************************************************************)
(* What the proofs about the models cite.                                  *)
(***************************************************************************)
LEMMA KeptSeq ==
  ASSUME NEW S, NEW s \in Seq(S), NEW T
  PROVE  Kept(s, T) \in Seq(S)
BY KeptEmbeds

\* A selection is made of the sequence's elements in T, and of all of them.
LEMMA KeptElements ==
  ASSUME NEW S, NEW s \in Seq(S), NEW T
  PROVE  ToSet(Kept(s, T)) = ToSet(s) \cap T
<1> DEFINE r == Kept(s, T)
<1>1. PICK at : Embeds(at, r, s, T, Len(s))
  BY KeptEmbeds
<1>2. r \in Seq(S)
  BY KeptEmbeds
<1> HIDE DEF r
<1>3. DOMAIN r = 1..Len(r) /\ DOMAIN s = 1..Len(s)
  BY <1>2
<1>4. \A i \in DOMAIN r : r[i] \in ToSet(s) \cap T
  BY <1>1, <1>3 DEF Embeds, ToSet
<1>5. \A m \in DOMAIN s : s[m] \in T => \E i \in DOMAIN r : r[i] = s[m]
  BY <1>1, <1>3 DEF Embeds
<1>6. ToSet(r) = ToSet(s) \cap T
  BY <1>4, <1>5 DEF ToSet
<1> QED
  BY <1>6 DEF r

\* Distinct places of a selection are distinct places of the sequence, in order.
LEMMA KeptPlaces ==
  ASSUME NEW S, NEW s \in Seq(S), NEW T
  PROVE  \E at \in [DOMAIN Kept(s, T) -> DOMAIN s] :
           /\ \A i, j \in DOMAIN Kept(s, T) : i < j => at[i] < at[j]
           /\ \A i \in DOMAIN Kept(s, T) : Kept(s, T)[i] = s[at[i]]
<1> DEFINE r == Kept(s, T)
<1>1. PICK at : Embeds(at, r, s, T, Len(s))
  BY KeptEmbeds
<1>2. r \in Seq(S)
  BY KeptEmbeds
<1> HIDE DEF r
<1>3. DOMAIN r = 1..Len(r) /\ DOMAIN s = 1..Len(s)
  BY <1>2
<1>4. \E to \in [DOMAIN r -> DOMAIN s] : /\ \A i, j \in DOMAIN r : i < j => to[i] < to[j]
                                        /\ \A i \in DOMAIN r : r[i] = s[to[i]]
  BY <1>1, <1>3 DEF Embeds
<1> QED
  BY <1>4 DEF r

-----------------------------------------------------------------------------
(***************************************************************************)
(* The elements of a sequence, and sequences without repetition.           *)
(***************************************************************************)
LEMMA EmptyElements == ToSet(<<>>) = {} /\ IsInjective(<<>>)
BY DEF ToSet, IsInjective

LEMMA SeqElements ==
  ASSUME NEW S, NEW s \in Seq(S)
  PROVE  ToSet(s) \subseteq S
BY DEF ToSet

LEMMA AppendElements ==
  ASSUME NEW S, NEW s \in Seq(S), NEW e \in S
  PROVE  /\ ToSet(Append(s, e)) = ToSet(s) \cup {e}
         /\ IsInjective(s) /\ e \notin ToSet(s) => IsInjective(Append(s, e))
<1> DEFINE r == Append(s, e)
<1>1. /\ Len(s) \in Nat /\ DOMAIN s = 1..Len(s)
      /\ DOMAIN r = 1..(Len(s) + 1) /\ r[Len(s) + 1] = e
      /\ \A n \in 1..Len(s) : r[n] = s[n]
  OBVIOUS
<1> HIDE DEF r
<1>2. ToSet(r) = ToSet(s) \cup {e}
  BY <1>1 DEF ToSet
<1>3. ASSUME IsInjective(s), e \notin ToSet(s)
      PROVE  IsInjective(r)
  <2>1. \A n \in 1..Len(s) : r[n] # e
    BY <1>1, <1>3 DEF ToSet
  <2> SUFFICES ASSUME NEW a \in DOMAIN r, NEW b \in DOMAIN r, r[a] = r[b]
               PROVE  a = b
    BY DEF IsInjective
  <2>2. (a = Len(s) + 1 \/ a \in 1..Len(s)) /\ (b = Len(s) + 1 \/ b \in 1..Len(s))
    BY <1>1
  <2> QED
    BY <1>1, <1>3, <2>1, <2>2 DEF IsInjective
<1> QED
  BY <1>2, <1>3 DEF r

LEMMA ConcatElements ==
  ASSUME NEW S, NEW s \in Seq(S), NEW t \in Seq(S)
  PROVE  /\ ToSet(s \o t) = ToSet(s) \cup ToSet(t)
         /\ IsInjective(s) /\ IsInjective(t) /\ ToSet(s) \cap ToSet(t) = {}
              => IsInjective(s \o t)
<1> DEFINE r == s \o t
           m == Len(s)
           k == Len(t)
<1>1. /\ m \in Nat /\ k \in Nat /\ DOMAIN s = 1..m /\ DOMAIN t = 1..k /\ DOMAIN r = 1..(m + k)
      /\ \A n \in 1..m : r[n] = s[n]
      /\ \A n \in (m + 1)..(m + k) : r[n] = t[n - m]
  OBVIOUS
<1> HIDE DEF r, m, k
<1>2. \A n \in 1..k : n + m \in DOMAIN r /\ r[n + m] = t[n]
  BY <1>1
<1>3. \A n \in DOMAIN r : n \in 1..m \/ (n \in (m + 1)..(m + k) /\ n - m \in 1..k)
  BY <1>1
<1>4. 1..m \subseteq DOMAIN r
  BY <1>1
<1>5. ToSet(r) = ToSet(s) \cup ToSet(t)
  <2>1. \A n \in DOMAIN r : r[n] \in ToSet(s) \cup ToSet(t)
    BY <1>1, <1>3 DEF ToSet
  <2>2. (\A n \in DOMAIN s : s[n] \in ToSet(r)) /\ \A n \in DOMAIN t : t[n] \in ToSet(r)
    BY <1>1, <1>2, <1>4 DEF ToSet
  <2> QED
    BY <2>1, <2>2 DEF ToSet
<1>6. ASSUME IsInjective(s), IsInjective(t), ToSet(s) \cap ToSet(t) = {}
      PROVE  IsInjective(r)
  <2>1. \A i \in 1..m, j \in 1..k : s[i] # t[j]
    BY <1>1, <1>6 DEF ToSet
  <2> SUFFICES ASSUME NEW a \in DOMAIN r, NEW b \in DOMAIN r, r[a] = r[b]
               PROVE  a = b
    BY DEF IsInjective
  <2>2. CASE a \in 1..m /\ b \in 1..m
    BY <1>1, <1>6, <2>2 DEF IsInjective
  <2>3. CASE a \notin 1..m /\ b \notin 1..m
    <3>1. a - m \in 1..k /\ b - m \in 1..k /\ t[a - m] = t[b - m]
      BY <1>1, <1>3, <2>3
    <3>2. a - m = b - m
      BY <1>1, <1>6, <3>1 DEF IsInjective
    <3> QED
      BY <1>1, <3>2
  <2>4. CASE a \in 1..m /\ b \notin 1..m
    BY <1>1, <1>3, <2>1, <2>4
  <2>5. CASE a \notin 1..m /\ b \in 1..m
    BY <1>1, <1>3, <2>1, <2>5
  <2> QED
    BY <2>2, <2>3, <2>4, <2>5
<1> QED
  BY <1>5, <1>6 DEF r

\* A selection of a sequence without repetition has none.
LEMMA KeptInjective ==
  ASSUME NEW S, NEW s \in Seq(S), NEW T, IsInjective(s)
  PROVE  IsInjective(Kept(s, T))
<1> DEFINE r == Kept(s, T)
<1>1. PICK at \in [DOMAIN r -> DOMAIN s] :
         /\ \A i, j \in DOMAIN r : i < j => at[i] < at[j]
         /\ \A i \in DOMAIN r : r[i] = s[at[i]]
  BY KeptPlaces
<1>2. r \in Seq(S)
  BY KeptSeq
<1> HIDE DEF r
<1>3. DOMAIN r \subseteq Nat /\ DOMAIN s \subseteq Nat
  BY <1>2
<1>4. ASSUME NEW i \in DOMAIN r, NEW j \in DOMAIN r, r[i] = r[j]
      PROVE  i = j
  <2>1. at[i] = at[j]
    BY <1>1, <1>4 DEF IsInjective
  <2> QED
    BY <1>1, <1>3, <2>1
<1> QED
  BY <1>4 DEF IsInjective, r

-----------------------------------------------------------------------------
(***************************************************************************)
(* Total.                                                                  *)
(***************************************************************************)

\* f has the sums of the beginnings of w.
Sums(f, w) == f[0] = 0 /\ \A n \in 1..Len(w) : f[n] = f[n - 1] + w[n]

\* The recursive function in Total is defined: it obeys its own equation.
LEMMA TotalDefined ==
  ASSUME NEW w \in Seq(Int)
  PROVE  \E f \in [0..Len(w) -> Int] : Sums(f, w) /\ Total(w) = f[Len(w)]
<1> DEFINE N == Len(w)
           G == [p \in Int \X (1..N) |-> p[1] + w[p[2]]]
           Body(f, n) == IF n = 0 THEN 0 ELSE f[n - 1] + w[n]
           Good(f) == f = [n \in 0..N |-> Body(f, n)]
           h == CHOOSE g : Good(g)
<1>1. N \in Nat /\ 0 \in Int
  OBVIOUS
<1>2. G \in [Int \X (1..N) -> Int]
  <2>1. \A p \in Int \X (1..N) : p[1] + w[p[2]] \in Int
    OBVIOUS
  <2> QED
    BY <2>1
<1>3. PICK f \in [0..N -> Int] : Iterates(f, 0, G, N)
  <2> HIDE DEF G, N
  <2> QED
    BY <1>1, <1>2, IterationExists
<1>4. \A n \in 1..N : f[n] = Body(f, n)
  <2>1. TAKE n \in 1..N
  <2>1a. n - 1 \in 0..N
    BY <1>1
  <2>2. <<f[n - 1], n>> \in Int \X (1..N)
    BY <1>3, <2>1a
  <2>3. f[n] = G[<<f[n - 1], n>>]
    BY <1>3 DEF Iterates
  <2> QED
    BY <2>2, <2>3
<1>4b. \A g : g[0] = 0 => g[0] = Body(g, 0)
  OBVIOUS
<1>5. f[0] = 0
  BY <1>3 DEF Iterates
<1>6. Good(f)
  <2>1. \A n \in 0..N : n = 0 \/ n \in 1..N
    BY <1>1
  <2> HIDE DEF Body
  <2>2. \A n \in 0..N : f[n] = Body(f, n)
    BY <1>4, <1>4b, <1>5, <2>1
  <2> QED
    BY <1>3, <2>2
<1>7. Good(h)
  <2> HIDE DEF Good
  <2> QED
    BY <1>6, Zenon
<1>8. DOMAIN h = 0..N /\ \A n \in 0..N : h[n] = Body(h, n)
  <2> HIDE DEF h, Body, N
  <2> QED
    BY <1>7, Zenon
<1> HIDE DEF h
<1>9. h[0] = 0
  BY <1>1, <1>8
<1>10. h = f
  <2> DEFINE P == {n \in 0..N : h[n] = f[n]}
  <2>1. 0 \in P
    BY <1>1, <1>5, <1>9
  <2>2. ASSUME NEW n \in 1..N, n - 1 \in P
        PROVE  n \in P
    <3>1. h[n - 1] = f[n - 1] /\ n # 0 /\ n \in 0..N
      BY <2>2
    <3>2. Body(h, n) = Body(f, n)
      BY <3>1, Zenon
    <3> HIDE DEF Body
    <3> QED
      BY <1>4, <1>8, <3>1, <3>2
  <2>3. 0..N \subseteq P
    <3> HIDE DEF P, N
    <3> QED
      BY <1>1, <2>1, <2>2, Induction
  <2>4. \A n \in 0..N : h[n] = f[n]
    BY <2>3
  <2>5. h = [n \in 0..N |-> h[n]]
    <3> HIDE DEF Body
    <3>1. h = [n \in 0..N |-> Body(h, n)]
      BY <1>7
    <3> QED
      BY <1>8, <3>1
  <2> QED
    BY <2>4, <2>5
<1>11. Total(w) = h[N]
  BY Zenon DEF Total, h
<1>12. Sums(f, w)
  BY <1>4, <1>5 DEF Sums
<1> QED
  BY <1>3, <1>10, <1>11, <1>12

LEMMA TotalType ==
  ASSUME NEW w \in Seq(Int)
  PROVE  Total(w) \in Int
<1>1. PICK f \in [0..Len(w) -> Int] : Sums(f, w) /\ Total(w) = f[Len(w)]
  BY TotalDefined
<1> QED
  BY <1>1

LEMMA TotalEmpty == Total(<<>>) = 0
<1>1. <<>> \in Seq(Int) /\ Len(<<>>) = 0
  OBVIOUS
<1>2. PICK f \in [0..0 -> Int] : Sums(f, <<>>) /\ Total(<<>>) = f[0]
  BY <1>1, TotalDefined
<1> QED
  BY <1>2 DEF Sums

\* A longer sequence by one element.
LEMMA TotalAppend ==
  ASSUME NEW w \in Seq(Int), NEW x \in Int
  PROVE  Total(Append(w, x)) = Total(w) + x
<1> DEFINE N == Len(w)
           v == Append(w, x)
<1>1. /\ v \in Seq(Int) /\ Len(v) = N + 1 /\ v[N + 1] = x /\ N \in Nat
      /\ \A n \in 1..N : v[n] = w[n]
  OBVIOUS
<1> HIDE DEF v
<1>2. PICK f \in [0..N -> Int] : Sums(f, w) /\ Total(w) = f[N]
  BY TotalDefined
<1>3. PICK g \in [0..(N + 1) -> Int] : Sums(g, v) /\ Total(v) = g[N + 1]
  BY <1>1, TotalDefined
<1> HIDE DEF N
<1> DEFINE P == {n \in 0..N : g[n] = f[n]}
<1>4. 0 \in P
  BY <1>1, <1>2, <1>3 DEF Sums
<1>5. ASSUME NEW n \in 1..N, n - 1 \in P
      PROVE  n \in P
  <2>1. g[n] = g[n - 1] + v[n] /\ f[n] = f[n - 1] + w[n] /\ v[n] = w[n]
    <3>1. n \in 1..(N + 1) /\ n \in 1..Len(w) /\ n \in 1..Len(v)
      BY <1>1 DEF N
    <3> QED
      BY <1>1, <1>2, <1>3, <3>1 DEF Sums
  <2> QED
    BY <1>5, <2>1
<1>6. 0..N \subseteq P
  <2> HIDE DEF P
  <2> QED
    BY <1>1, <1>4, <1>5, Induction
<1>7. g[N] = f[N]
  BY <1>1, <1>6
<1>8. g[N + 1] = g[(N + 1) - 1] + v[N + 1]
  <2>1. N + 1 \in 1..Len(v)
    BY <1>1
  <2> QED
    BY <1>3, <2>1 DEF Sums
<1>9. (N + 1) - 1 = N
  BY <1>1
<1> QED
  BY <1>1, <1>2, <1>3, <1>7, <1>8, <1>9 DEF v

\* One element changes.
LEMMA TotalUpdate ==
  ASSUME NEW w \in Seq(Int), NEW v \in Seq(Int), Len(v) = Len(w), NEW i \in 1..Len(w),
         \A n \in 1..Len(w) : n # i => v[n] = w[n]
  PROVE  Total(v) = Total(w) + (v[i] - w[i])
<1> DEFINE N == Len(w)
<1>1. N \in Nat /\ i \in 1..N /\ \A n \in 1..N : v[n] \in Int /\ w[n] \in Int
  OBVIOUS
<1>2. PICK f \in [0..N -> Int] : Sums(f, w) /\ Total(w) = f[N]
  BY TotalDefined
<1>3. PICK g \in [0..N -> Int] : Sums(g, v) /\ Total(v) = g[N]
  BY TotalDefined
<1>f. f[0] = 0 /\ g[0] = 0
      /\ \A n \in 1..N : /\ f[n] = f[n - 1] + w[n] /\ g[n] = g[n - 1] + v[n]
                         /\ n # i => v[n] = w[n]
  BY <1>2, <1>3 DEF Sums
<1> HIDE DEF N
<1> DEFINE d == v[i] - w[i]
           P == {n \in 0..N : g[n] = IF n < i THEN f[n] ELSE f[n] + d}
<1>d. d \in Int
  BY <1>1
<1>4. 0 \in P
  BY <1>1, <1>f
<1>5. ASSUME NEW n \in 1..N, n - 1 \in P
      PROVE  n \in P
  <2>0. n - 1 \in 0..N /\ n \in 0..N /\ n \in Int /\ i \in Int
    BY <1>1
  <2>1. /\ f[n] = f[n - 1] + w[n] /\ g[n] = g[n - 1] + v[n] /\ (n # i => v[n] = w[n])
        /\ f[n] \in Int /\ g[n] \in Int /\ f[n - 1] \in Int /\ g[n - 1] \in Int
        /\ v[n] \in Int /\ w[n] \in Int
    BY <1>1, <1>2, <1>3, <1>f, <2>0
  <2> HIDE DEF d
  <2>r. g[n - 1] = IF n - 1 < i THEN f[n - 1] ELSE f[n - 1] + d
    BY <1>5
  <2>2. CASE n = i
    <3>1. g[n - 1] = f[n - 1] /\ ~(n < i)
      BY <2>0, <2>2, <2>r
    <3>2. g[n] = f[n] + d
      BY <2>1, <2>2, <3>1 DEF d
    <3> QED
      BY <2>0, <3>1, <3>2
  <2>3. CASE n < i
    <3>1. g[n - 1] = f[n - 1] /\ n # i
      BY <2>0, <2>3, <2>r
    <3>2. g[n] = f[n]
      BY <2>1, <3>1
    <3> QED
      BY <2>0, <2>3, <3>2
  <2>4. CASE n > i
    <3>1. g[n - 1] = f[n - 1] + d /\ n # i /\ ~(n < i)
      BY <2>0, <2>4, <2>r
    <3>2. g[n] = f[n] + d
      <4>1. g[n] = (f[n - 1] + d) + w[n] /\ f[n] = f[n - 1] + w[n]
        BY <2>1, <3>1
      <4>2. d \in Int /\ f[n - 1] \in Int /\ w[n] \in Int
        BY <1>d, <2>1
      <4> HIDE <1>d
      <4> QED
        BY <4>1, <4>2
    <3> QED
      BY <2>0, <3>1, <3>2
  <2> QED
    BY <2>0, <2>2, <2>3, <2>4
<1>6. 0..N \subseteq P
  <2> HIDE DEF P
  <2> QED
    BY <1>1, <1>4, <1>5, Induction
<1>7. g[N] = f[N] + d
  BY <1>1, <1>6
<1> QED
  BY <1>2, <1>3, <1>7

\* Larger elements have a larger sum.
LEMMA TotalMonotone ==
  ASSUME NEW w \in Seq(Int), NEW v \in Seq(Int), Len(v) = Len(w),
         \A n \in 1..Len(w) : w[n] <= v[n]
  PROVE  Total(w) <= Total(v)
<1> DEFINE N == Len(w)
<1>1. N \in Nat /\ \A n \in 1..N : v[n] \in Int /\ w[n] \in Int
  OBVIOUS
<1>2. PICK f \in [0..N -> Int] : Sums(f, w) /\ Total(w) = f[N]
  BY TotalDefined
<1>3. PICK g \in [0..N -> Int] : Sums(g, v) /\ Total(v) = g[N]
  BY TotalDefined
<1>f. f[0] = 0 /\ g[0] = 0
      /\ \A n \in 1..N : /\ f[n] = f[n - 1] + w[n] /\ g[n] = g[n - 1] + v[n]
                         /\ w[n] <= v[n]
  BY <1>2, <1>3 DEF Sums
<1> HIDE DEF N
<1> DEFINE P == {n \in 0..N : f[n] <= g[n]}
<1>4. 0 \in P
  BY <1>1, <1>f
<1>5. ASSUME NEW n \in 1..N, n - 1 \in P
      PROVE  n \in P
  <2>1. {f[n], g[n], f[n - 1], g[n - 1], v[n], w[n]} \subseteq Int /\ n \in 0..N
    BY <1>1, <1>2, <1>3
  <2> QED
    BY <1>5, <1>f, <2>1
<1>6. 0..N \subseteq P
  <2> HIDE DEF P
  <2> QED
    BY <1>1, <1>4, <1>5, Induction
<1>7. f[N] <= g[N]
  BY <1>1, <1>6
<1> QED
  BY <1>2, <1>3, <1>7

LEMMA TotalZero ==
  ASSUME NEW w \in Seq(Int), \A n \in 1..Len(w) : w[n] = 0
  PROVE  Total(w) = 0
<1> DEFINE N == Len(w)
<1>1. N \in Nat
  OBVIOUS
<1>2. PICK f \in [0..N -> Int] : Sums(f, w) /\ Total(w) = f[N]
  BY TotalDefined
<1>f. f[0] = 0 /\ \A n \in 1..N : f[n] = f[n - 1] + w[n] /\ w[n] = 0
  BY <1>2 DEF Sums
<1> HIDE DEF N
<1> DEFINE P == {n \in 0..N : f[n] = 0}
<1>4. 0 \in P
  BY <1>1, <1>f
<1>5. ASSUME NEW n \in 1..N, n - 1 \in P
      PROVE  n \in P
  BY <1>5, <1>f
<1>6. 0..N \subseteq P
  <2> HIDE DEF P
  <2> QED
    BY <1>1, <1>4, <1>5, Induction
<1> QED
  BY <1>1, <1>2, <1>6

\* A zero more, or none, adds nothing.
LEMMA TotalPadded ==
  ASSUME NEW w \in Seq(Int), NEW v \in Seq(Int), Len(v) \in {Len(w), Len(w) + 1},
         \A n \in 1..Len(w) : v[n] = w[n],
         Len(v) = Len(w) + 1 => v[Len(w) + 1] = 0
  PROVE  Total(v) = Total(w)
<1>1. ASSUME NEW r \in Seq(Int), Len(v) = Len(r), \A n \in 1..Len(r) : v[n] = r[n]
      PROVE  Total(v) = Total(r)
  <2>1. /\ \A n \in 1..Len(r) : r[n] \in Int /\ r[n] <= v[n]
        /\ \A n \in 1..Len(v) : v[n] <= r[n]
    BY <1>1
  <2>2. Total(r) <= Total(v) /\ Total(v) <= Total(r)
    BY <1>1, <2>1, TotalMonotone
  <2>3. Total(r) \in Int /\ Total(v) \in Int
    BY TotalType
  <2> QED
    BY <2>2, <2>3
<1>2. CASE Len(v) = Len(w)
  BY <1>1, <1>2
<1>3. CASE Len(v) = Len(w) + 1
  <2> DEFINE r == Append(w, 0)
  <2>1. r \in Seq(Int) /\ Len(r) = Len(w) + 1 /\ r[Len(w) + 1] = 0
        /\ \A n \in 1..Len(w) : r[n] = w[n]
    OBVIOUS
  <2>2. Total(r) = Total(w) + 0 /\ Total(w) \in Int
    BY TotalAppend, TotalType
  <2> HIDE DEF r
  <2>3. ASSUME NEW n \in 1..Len(r) PROVE v[n] = r[n]
    <3>1. n \in 1..Len(w) \/ n = Len(w) + 1
      BY <2>1
    <3> QED
      BY <1>3, <2>1, <3>1
  <2>4. Total(v) = Total(r)
    BY <1>1, <1>3, <2>1, <2>3
  <2> QED
    BY <2>2, <2>4
<1> QED
  BY <1>2, <1>3

\* An element of a sequence without negative ones is at most the sum.
LEMMA TotalCovers ==
  ASSUME NEW w \in Seq(Int), \A n \in 1..Len(w) : 0 <= w[n], NEW i \in 1..Len(w)
  PROVE  0 <= Total(w) /\ w[i] <= Total(w)
<1> DEFINE z == [n \in 1..Len(w) |-> 0]
           u == [n \in 1..Len(w) |-> IF n = i THEN w[n] ELSE 0]
<1>1. z \in Seq(Int) /\ Len(z) = Len(w) /\ \A n \in 1..Len(w) : z[n] = 0
  OBVIOUS
<1>2. /\ u \in Seq(Int) /\ Len(u) = Len(w)
      /\ \A n \in 1..Len(w) : u[n] = IF n = i THEN w[n] ELSE 0
  OBVIOUS
<1> HIDE DEF z, u
<1>3. Total(z) = 0
  BY <1>1, TotalZero
<1>4. w[i] \in Int
  OBVIOUS
<1>5. Total(u) = w[i]
  <2>1. Total(u) = Total(z) + (u[i] - z[i])
    <3>1. Len(u) = Len(z) /\ i \in 1..Len(z) /\ \A n \in 1..Len(z) : n # i => u[n] = z[n]
      BY <1>1, <1>2
    <3> QED
      BY <1>1, <1>2, <3>1, TotalUpdate
  <2>2. u[i] = w[i] /\ z[i] = 0
    BY <1>1, <1>2
  <2> QED
    BY <1>3, <1>4, <2>1, <2>2
<1>6. Total(u) <= Total(w)
  BY <1>2, TotalMonotone
<1>7. Total(z) <= Total(w)
  BY <1>1, TotalMonotone
<1> QED
  BY <1>3, <1>5, <1>6, <1>7

=============================================================================
