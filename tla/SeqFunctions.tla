---------------------------- MODULE SeqFunctions -----------------------------
(***************************************************************************)
(* Two operators on sequences, as recursive functions that proofs can      *)
(* reason about: the elements that pass a test, in their order, and the    *)
(* sum of a sequence of integers.                                          *)
(***************************************************************************)
EXTENDS Integers, Sequences

\* The elements of s that are in T.
Kept(s, T) ==
  LET kept[n \in 0..Len(s)] ==
        IF n = 0 THEN <<>>
        ELSE IF s[n] \in T THEN Append(kept[n - 1], s[n]) ELSE kept[n - 1]
  IN  kept[Len(s)]

\* The sum of w.
Total(w) ==
  LET sum[n \in 0..Len(w)] == IF n = 0 THEN 0 ELSE sum[n - 1] + w[n]
  IN  sum[Len(w)]

=============================================================================
