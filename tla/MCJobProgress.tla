---------------------------- MODULE MCJobProgress ----------------------------
(* Instances of JobProgress for TLC.                                          *)
EXTENDS JobProgress, TLC

CONSTANTS r1, r2, r3

\* Each goroutine of a bulk action reports its instance, then sets progress.
BulkScript == [r \in Reporters |-> <<"step", "set">>]

\* The body of a launch reports by itself, in this order: checks, network,
\* the new instance, the wait for it.
LaunchCalls == <<"step", "set", "step", "set", "instance", "step", "set", "step", "set">>
LaunchScripts ==
    {[r \in Reporters |-> IF r = a THEN LaunchCalls ELSE <<>>] : a \in Reporters}

BulkOrLaunch == {BulkScript} \cup LaunchScripts

Alike == Permutations(Reporters)
=============================================================================
