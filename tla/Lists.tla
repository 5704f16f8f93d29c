-------------------------------- MODULE Lists --------------------------------
(***************************************************************************)
(* The members of a list that are in a set, in their order (SelectSeq for  *)
(* a set), and the sum of a list of integers, as recursive functions the   *)
(* proofs can look into (ListsProofs).                                     *)
(***************************************************************************)
EXTENDS Integers, Sequences

\* How far the filter has come after n members of s.
Kept(s, K) ==
  LET f[n \in 0..Len(s)] == IF n = 0 THEN <<>>
                            ELSE IF s[n] \in K THEN Append(f[n - 1], s[n]) ELSE f[n - 1]
  IN f

Filter(s, K) == Kept(s, K)[Len(s)]

\* The sum of a list of integers, and of its first n members.
Sums(s)  == LET f[n \in 0..Len(s)] == IF n = 0 THEN 0 ELSE f[n - 1] + s[n] IN f
Total(s) == Sums(s)[Len(s)]
=============================================================================
