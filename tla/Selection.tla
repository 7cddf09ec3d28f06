------------------------------ MODULE Selection ------------------------------
(***************************************************************************)
(* Parts of sequences, for the loops that keep some elements of a slice in *)
(* their order.  What is kept is a set of positions, and an element is     *)
(* found by counting: no definition is recursive but the concatenation, so *)
(* that what they return can be proved and not only evaluated.             *)
(***************************************************************************)
EXTENDS Naturals, Sequences, FiniteSets

\* The k-th of a set of positions.
Nth(S, k) == CHOOSE i \in S : Cardinality({j \in S : j <= i}) = k

\* The elements of seq at the positions in S, in their order.
Pick(seq, S) == [k \in 1..Cardinality(S) |-> seq[Nth(S, k)]]

\* A sequence of sequences, one after the other.
Concat(seqs) ==
    LET first[n \in 0..Len(seqs)] == IF n = 0 THEN <<>> ELSE first[n - 1] \o seqs[n]
    IN first[Len(seqs)]
==============================================================================
