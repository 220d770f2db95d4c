---------------------------- MODULE MCJobService ----------------------------
(* Instances of JobService for TLC.                                        *)
EXTENDS JobService, TLC

CONSTANTS j1, j2, j3, i1

\* Two jobs on one instance and one with no instance, as a launch has.
MixedKeys == (j1 :> i1) @@ (j2 :> i1) @@ (j3 :> NoKey)

\* Three jobs on one instance: one may hold the lock while one waits for it and
\* one looks it up.
OneKey == [j \in Jobs |-> i1]

\* Two jobs on one instance.
PairKey == (j1 :> i1) @@ (j2 :> i1)
=============================================================================
