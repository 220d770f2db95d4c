----------------------------- MODULE JobPromise -----------------------------
(***************************************************************************)
(* What the job list promises its reader, in terms of the status column    *)
(* alone: a job waits, runs at most once, and ends for good; at most       *)
(* MaxConcurrent rows say "running", never two of one instance; rows leave *)
(* the list only when they are finished; a restart turns what was under    *)
(* way into "interrupted".  JobService implements it while no write fails. *)
(***************************************************************************)
EXTENDS Naturals, FiniteSets

CONSTANTS Jobs, NoKey, KeyOf, MaxConcurrent

VARIABLE row

Finished   == {"succeeded", "failed", "canceled", "interrupted"}
Unfinished == {"queued", "running"}

Init == row = [j \in Jobs |-> "none"]

Become(j, from, to) == row[j] = from /\ row' = [row EXCEPT ![j] = to]

Accept(j) == Become(j, "none", "queued")

RunningRows == {j \in Jobs : row[j] = "running"}

Begin(j) ==
    /\ Become(j, "queued", "running")
    /\ Cardinality(RunningRows) < MaxConcurrent
    /\ KeyOf[j] # NoKey => \A i \in RunningRows : KeyOf[i] # KeyOf[j]

End(j) == \E status \in {"succeeded", "failed"} : Become(j, "running", status)

Withdraw(j) == Become(j, "queued", "canceled")

\* Some finished rows are removed from the list.
Tidy ==
    \E gone \in SUBSET {j \in Jobs : row[j] \in Finished} :
        row' = [j \in Jobs |-> IF j \in gone THEN "deleted" ELSE row[j]]

\* Everything under way is interrupted at once; the list may be pruned too.
Restart ==
    \E gone \in SUBSET {j \in Jobs : row[j] \in Finished \cup Unfinished} :
        row' = [j \in Jobs |-> IF j \in gone THEN "deleted"
                               ELSE IF row[j] \in Unfinished THEN "interrupted"
                               ELSE row[j]]

Next ==
    \/ \E j \in Jobs : Accept(j) \/ Begin(j) \/ End(j) \/ Withdraw(j)
    \/ Tidy
    \/ Restart

Spec == Init /\ [][Next]_row
=============================================================================
