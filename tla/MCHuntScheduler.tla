--------------------------- MODULE MCHuntScheduler ---------------------------
(* Instances of HuntScheduler for TLC.                                        *)
EXTENDS HuntScheduler, TLC

CONSTANTS t1, t2, a1, a2, w1, w2

\* Both tasks belong to one account.
SameAccount == [t \in Tasks |-> a1]

\* Two accounts with a task each.
TwoAccounts == (t1 :> a1) @@ (t2 :> a2)

Interchangeable == Permutations(Workers)
=============================================================================
