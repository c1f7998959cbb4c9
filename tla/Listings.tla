------------------------------ MODULE Listings ------------------------------
(***************************************************************************)
(* What lists are made of in the services around the game servers: rows in *)
(* the order of an index, the elements that are kept, and sums.  They are  *)
(* written as choices and recursive functions, which can be proved about.  *)
(***************************************************************************)
EXTENDS Integers, Sequences, FiniteSets, Functions

\* The elements of S in the order whose pairs are those of `before`.
Ordered(S, before) ==
    CHOOSE f \in Bijection(1 .. Cardinality(S), S) : \A i, j \in DOMAIN f : i < j => <<f[i], f[j]>> \in before

\* The elements of s that are in K, in the order of s.
Kept(s, K) ==
    LET kept[n \in 0 .. Len(s)] ==
            IF n = 0 THEN <<>> ELSE IF s[n] \in K THEN Append(kept[n - 1], s[n]) ELSE kept[n - 1]
    IN  kept[Len(s)]

SumOf(s) ==
    LET sum[n \in 0 .. Len(s)] == IF n = 0 THEN 0 ELSE sum[n - 1] + s[n]
    IN  sum[Len(s)]

=============================================================================
