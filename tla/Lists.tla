--------------------------------- MODULE Lists ---------------------------------
(***************************************************************************)
(* What JavaScript's lists do that the front end relies on.                *)
(***************************************************************************)
EXTENDS Naturals, FiniteSets

\* The n-th of a set of numbers, by size.
Nth(K, n) == CHOOSE k \in K : Cardinality({j \in K : j <= k}) = n

\* Array.prototype.filter, and a loop that splices out what it does not keep:
\* the elements of s at the places in K, in their order.
Kept(s, K) == [n \in 1 .. Cardinality(K) |-> s[Nth(K, n)]]
=============================================================================
