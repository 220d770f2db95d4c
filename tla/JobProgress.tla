---------------------------- MODULE JobProgress ----------------------------
(***************************************************************************)
(* What the body of one running job reports (Progress in                   *)
(* internal/jobsvc/service.go).  The body of a bulk action lets several    *)
(* goroutines report at once (internal/httpapi/console.go), the body of a  *)
(* launch reports from one.  Every report changes the job in memory under  *)
(* p.mu, then saves it outside the lock: a snapshot under p.mu, SaveJob of *)
(* the snapshot, and onChange with the snapshot for the open pages.        *)
(***************************************************************************)
EXTENDS Naturals, Sequences, FiniteSets

CONSTANTS
    Reporters,    \* the goroutines of the body that report
    Body,         \* the goroutine of run, which calls finish
    Scripts,      \* the bodies of jobs: each maps a reporter to the calls it makes
    Share,        \* percentage reached when every reporter has called Set
    MaxActive,    \* capacity of the semaphore of the bulk action
    NoInstance, NewInstance,  \* InstanceID before and after SetInstance
    MaxFaults     \* bound: SaveJob calls that fail

Calls == {"step", "set", "instance"}
Threads == Reporters \cup {Body}

ASSUME ReportersAssumption == IsFiniteSet(Reporters) /\ Reporters # {} /\ Body \notin Reporters
ASSUME ScriptsAssumption == Scripts \subseteq [Reporters -> Seq(Calls)]
ASSUME NumbersAssumption == Share \in 0..99 /\ MaxActive \in Nat \ {0} /\ MaxFaults \in Nat

VARIABLES
    script,  \* the body of this job
    job,     \* *p.job: what memory holds
    row,     \* the row in the jobs table
    shown,   \* the last job published to the open pages
    snap,    \* the snapshot each goroutine has taken in save
    pc,      \* where each goroutine stands
    at,      \* how many calls each reporter has completed
    done,    \* the atomic counter of finished instances
    percent, \* the argument of each reporter's call of Set
    lost,    \* goroutines whose last SaveJob failed
    faults   \* SaveJob calls that failed so far

vars == <<script, job, row, shown, snap, pc, at, done, percent, lost, faults>>

Reporting == {"call", "set", "snapshot", "write", "publish"}
Places == Reporting \cup {"waiting", "end"}

\* run has saved the job as running when it calls the body.
Started == [status |-> "running", progress |-> 0, steps |-> {}, instance |-> NoInstance]

Init ==
    /\ script \in Scripts
    /\ job = Started /\ row = Started /\ shown = Started
    /\ snap = [t \in Threads |-> Started]
    /\ pc = [t \in Threads |-> "waiting"]
    /\ at = [r \in Reporters |-> 0]
    /\ done = 0
    /\ percent = [r \in Reporters |-> 0]
    /\ lost = {}
    /\ faults = 0

Goto(t, place) == pc' = [pc EXCEPT ![t] = place]

Active == {r \in Reporters : pc[r] \in Reporting}

\* sem <- struct{}{} of the bulk action, which bounds the goroutines at work.
Enter(r) ==
    /\ pc[r] = "waiting"
    /\ Cardinality(Active) < MaxActive
    /\ Goto(r, IF script[r] = <<>> THEN "end" ELSE "call")
    /\ UNCHANGED <<script, job, row, shown, snap, at, done, percent, lost, faults>>

Calling(r, call) == pc[r] = "call" /\ script[r][at[r] + 1] = call

\* The call returns; after its last call the goroutine frees its slot and ends.
CallReturns(r) ==
    /\ at' = [at EXCEPT ![r] = @ + 1]
    /\ Goto(r, IF at[r] + 1 = Len(script[r]) THEN "end" ELSE "call")

\* Step: append under p.mu.
Step(r) ==
    /\ Calling(r, "step")
    /\ job' = [job EXCEPT !.steps = @ \cup {<<r, at[r]>>}]
    /\ Goto(r, "snapshot")
    /\ UNCHANGED <<script, row, shown, snap, at, done, percent, lost, faults>>

\* done.Add(1), from which the argument of Set is computed outside p.mu.
Draw(r) ==
    /\ Calling(r, "set")
    /\ done' = done + 1
    /\ percent' = [percent EXCEPT ![r] = (Share * (done + 1)) \div Cardinality(Reporters)]
    /\ Goto(r, "set")
    /\ UNCHANGED <<script, job, row, shown, snap, at, lost, faults>>

\* Mutant: Set stores whatever it is given.
SetAlways(r) ==
    /\ pc[r] = "set"
    /\ job' = [job EXCEPT !.progress = percent[r]]
    /\ Goto(r, "snapshot")
    /\ UNCHANGED <<script, row, shown, snap, at, done, percent, lost, faults>>

\* Set: 100 is left to finish, and a smaller value is ignored without a save.
Set(r) ==
    LET p == IF percent[r] > 99 THEN 99 ELSE percent[r]
    IN  /\ pc[r] = "set"
        /\ IF p > job.progress
           THEN /\ job' = [job EXCEPT !.progress = p]
                /\ Goto(r, "snapshot")
                /\ UNCHANGED at
           ELSE CallReturns(r) /\ UNCHANGED job
        /\ UNCHANGED <<script, row, shown, snap, done, percent, lost, faults>>

SetInstance(r) ==
    /\ Calling(r, "instance")
    /\ job' = [job EXCEPT !.instance = NewInstance]
    /\ Goto(r, "snapshot")
    /\ UNCHANGED <<script, row, shown, snap, at, done, percent, lost, faults>>

\* Mutant: the copy is taken before the report it should contain.
SnapshotEarly(t) ==
    /\ pc[t] = "snapshot"
    /\ snap' = [snap EXCEPT ![t] = shown]
    /\ Goto(t, "write")
    /\ UNCHANGED <<script, job, row, shown, at, done, percent, lost, faults>>

\* save, first part: the copy under p.mu.
Snapshot(t) ==
    /\ pc[t] = "snapshot"
    /\ snap' = [snap EXCEPT ![t] = job]
    /\ Goto(t, "write")
    /\ UNCHANGED <<script, job, row, shown, at, done, percent, lost, faults>>

\* The ON CONFLICT clause of SaveJob has no instance_id.
Saved(s) == [s EXCEPT !.instance = row.instance]

\* save, second part: SaveJob of the copy; its error is only logged.
Write(t) ==
    /\ pc[t] = "write"
    /\ \/ row' = Saved(snap[t]) /\ lost' = lost \ {t} /\ UNCHANGED faults
       \/ faults < MaxFaults /\ faults' = faults + 1 /\ lost' = lost \cup {t} /\ UNCHANGED row
    /\ Goto(t, "publish")
    /\ UNCHANGED <<script, job, shown, snap, at, done, percent>>

\* save, third part: onChange with the copy, whether it was saved or not.
Publish(t) ==
    /\ pc[t] = "publish"
    /\ shown' = snap[t]
    /\ IF t = Body THEN Goto(t, "end") /\ UNCHANGED at ELSE CallReturns(t)
    /\ UNCHANGED <<script, job, row, snap, done, percent, lost, faults>>

\* Mutant: the body returns without waiting for its goroutines.
FinishUnwaited(status) ==
    /\ pc[Body] = "waiting"
    /\ job' = [job EXCEPT !.status = status,
                          !.progress = IF status = "succeeded" THEN 100 ELSE @]
    /\ Goto(Body, "snapshot")
    /\ UNCHANGED <<script, row, shown, snap, at, done, percent, lost, faults>>

\* The body returns after wg.Wait, and finish sets the final status.
Finish(status) ==
    /\ pc[Body] = "waiting"
    /\ \A r \in Reporters : pc[r] = "end"
    /\ job' = [job EXCEPT !.status = status,
                          !.progress = IF status = "succeeded" THEN 100 ELSE @]
    /\ Goto(Body, "snapshot")
    /\ UNCHANGED <<script, row, shown, snap, at, done, percent, lost, faults>>

Report(r) == Enter(r) \/ Step(r) \/ Draw(r) \/ Set(r) \/ SetInstance(r)
Save(t) == Snapshot(t) \/ Write(t) \/ Publish(t)

Next ==
    \/ \E r \in Reporters : Report(r)
    \/ \E t \in Threads : Save(t)
    \/ \E status \in {"succeeded", "failed"} : Finish(status)

Spec == Init /\ [][Next]_vars

-----------------------------------------------------------------------------
(* Properties *)

Percent == 0..100
JobRecords ==
    [status : {"running", "succeeded", "failed"}, progress : Percent,
     steps : SUBSET (Reporters \X Nat), instance : {NoInstance, NewInstance}]

TypeOK ==
    /\ script \in Scripts
    /\ job \in JobRecords /\ row \in JobRecords /\ shown \in JobRecords
    /\ snap \in [Threads -> JobRecords]
    /\ pc \in [Threads -> Places]
    /\ at \in [Reporters -> Nat]
    /\ done \in Nat
    /\ percent \in [Reporters -> Nat]
    /\ lost \subseteq Threads
    /\ faults \in 0..MaxFaults

\* When the job is over, what its row and the open pages say is everything
\* that was ever reported, although the saves of the reporters overtake each
\* other and intermediate ones may fail; only the last save must succeed.
FinalSaveIsComplete ==
    pc[Body] = "end" =>
        /\ shown = job
        /\ Body \notin lost => row = [job EXCEPT !.instance = row.instance]

\* Every step of every reporter is in the final row.
EveryStepIsKept ==
    pc[Body] = "end" /\ Body \notin lost =>
        \A r \in Reporters : \A i \in DOMAIN script[r] :
            script[r][i] = "step" => <<r, i - 1>> \in row.steps

\* Progress in memory never falls, although the arguments of Set are computed
\* before the lock is taken and arrive out of order.
ProgressOnlyGrows == [][job'.progress >= job.progress]_vars

\* A saved row holds every field of the job (comment on SaveJob): after the last
\* save the row names the instance that the body reported.
RowNamesInstance == pc[Body] = "end" /\ Body \notin lost => row.instance = job.instance

\* What FinalSaveIsComplete rests on: nothing is reported once finish has been
\* called, and the goroutine of run saves what it finds then.
FinalInv ==
    /\ pc[Body] \in {"waiting", "snapshot", "write", "publish", "end"}
    /\ pc[Body] # "waiting" => \A r \in Reporters : pc[r] = "end"
    /\ pc[Body] \in {"write", "publish", "end"} => snap[Body] = job
    /\ pc[Body] = "end" => shown = job
    /\ pc[Body] \in {"publish", "end"} /\ Body \notin lost =>
           row = [job EXCEPT !.instance = row.instance]
=============================================================================
