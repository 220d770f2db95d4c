----------------------------- MODULE JobService -----------------------------
(***************************************************************************)
(* The background job service of internal/jobsvc with the jobs table of    *)
(* internal/store/job.go under it.  Submit inserts a "queued" row and      *)
(* starts a goroutine; the goroutine takes the lock of the job's instance, *)
(* then one of MaxConcurrent slots, runs the body, writes the final row    *)
(* and gives slot and lock back in the order of its deferred calls.        *)
(* Cancel, the deletions of the job list, a crash of the process and the   *)
(* recovery at the next start interleave with all of it.                   *)
(*                                                                         *)
(* One step is one critical section, one channel operation or one SQL      *)
(* statement.  What a body reports while it runs is module JobProgress.    *)
(***************************************************************************)
EXTENDS Naturals, FiniteSets

CONSTANTS
    Jobs,           \* the submissions of a behaviour; an id is never used twice
    Keys,           \* instance ids, the keys of keyLocks
    NoKey,          \* the empty InstanceID of a Spec
    KeyOf,          \* Spec.InstanceID of each submission
    NoLock,         \* "this goroutine holds no reference to a key lock"
    MaxConcurrent,  \* capacity of the channel sem
    KeepFinished,   \* finished rows that survive the start-up pruning
    CancelTargets,  \* bound: the jobs that Cancel requests are about
    MaxFaults,      \* bound: SQL writes that fail in one behaviour
    MaxCrashes      \* bound: times the process dies in one behaviour

ASSUME JobsFinite == IsFiniteSet(Jobs)
ASSUME KeysAssumption == KeyOf \in [Jobs -> Keys \cup {NoKey}] /\ NoKey \notin Keys
ASSUME NoLockAssumption == NoLock \notin Jobs
ASSUME MaxConcurrentAssumption == MaxConcurrent \in Nat \ {0}
ASSUME BoundsAssumption ==
    /\ KeepFinished \in Nat /\ MaxFaults \in Nat /\ MaxCrashes \in Nat
    /\ CancelTargets \subseteq Jobs

VARIABLES
    up,        \* the process is alive
    pc,        \* where the submitter, then the goroutine, of each job stands
    row,       \* status column of the job's row, "none" before and "deleted" after
    pending,   \* keys of s.pending
    canceled,  \* jobs whose cancel function has been called
    caller,    \* the Cancel request about each job
    keyLocks,  \* s.keyLocks: the lock object of a key, named by the job that made it
    lockOf,    \* local variable l of lockKey, kept by the deferred unlock
    refs,      \* l.refs of each lock object
    full,      \* l.ch of each lock object holds its one element
    sem,       \* len(s.sem)
    ran,       \* history: jobs whose body has been called
    faults,    \* failed SQL writes so far
    crashes    \* process deaths so far

memory == <<pending, canceled, caller, keyLocks, lockOf, refs, full, sem>>
vars == <<up, pc, row, memory, ran, faults, crashes>>

\* The places of a goroutine that owns the element of its lock's channel, if
\* it has a lock at all.
Owning == {"waitSlot", "admitted", "refused", "starting", "running",
           "canceling", "releaseSlot", "releaseKey"}
\* The places of a goroutine that has put an element into sem.
InSlot == {"admitted", "starting", "running", "releaseSlot"}
Asleep == {"none", "saved", "spawned"}
Over   == {"done", "gone"}
Places == Owning \cup Asleep \cup Over \cup {"waitKey", "unref"}

JobFinished == {"succeeded", "failed", "canceled", "interrupted"}
Unfinished  == {"queued", "running"}
Statuses    == JobFinished \cup Unfinished \cup {"none", "deleted"}

CallerStates == {"idle", "found", "missed", "accepted", "tooLate", "ended"}

Init ==
    /\ up = TRUE
    /\ pc = [j \in Jobs |-> "none"]
    /\ row = [j \in Jobs |-> "none"]
    /\ pending = {}
    /\ canceled = {}
    /\ caller = [j \in Jobs |-> "idle"]
    /\ keyLocks = [k \in Keys |-> NoLock]
    /\ lockOf = [j \in Jobs |-> NoLock]
    /\ refs = [j \in Jobs |-> 0]
    /\ full = [j \in Jobs |-> FALSE]
    /\ sem = 0
    /\ ran = {}
    /\ faults = 0
    /\ crashes = 0

Goto(j, place) == pc' = [pc EXCEPT ![j] = place]

\* p.save() with an error from SaveJob that is only logged: the row keeps its
\* old status.
SaveLost == faults < MaxFaults /\ faults' = faults + 1 /\ row' = row

\* p.save(): INSERT ... ON CONFLICT DO UPDATE, so a deleted row would come back.
SaveRow(j, status) ==
    \/ row' = [row EXCEPT ![j] = status] /\ faults' = faults
    \/ SaveLost

-----------------------------------------------------------------------------
(* Submit *)

\* The first SaveJob of Submit.  When it fails Submit returns the error and
\* the id is never heard of again, so only the success is a step.
Submit(j) ==
    /\ up /\ pc[j] = "none"
    /\ Goto(j, "saved")
    /\ row' = [row EXCEPT ![j] = "queued"]
    /\ UNCHANGED <<up, memory, ran, faults, crashes>>

\* s.pending[job.ID] = cancel, then the goroutine is started.
Register(j) ==
    /\ up /\ pc[j] = "saved"
    /\ pending' = pending \cup {j}
    /\ Goto(j, "spawned")
    /\ UNCHANGED <<up, row, canceled, caller, keyLocks, lockOf, refs, full, sem,
                   ran, faults, crashes>>

-----------------------------------------------------------------------------
(* run: queueing *)

\* First critical section of lockKey: look the lock up or make it, refs++.
TakeRef(j) ==
    LET k == KeyOf[j]
        l == IF keyLocks[k] = NoLock THEN j ELSE keyLocks[k]
    IN  /\ keyLocks' = [keyLocks EXCEPT ![k] = l]
        /\ lockOf' = [lockOf EXCEPT ![j] = l]
        /\ refs' = [refs EXCEPT ![l] = @ + 1]

EnterQueue(j) ==
    /\ up /\ pc[j] = "spawned"
    /\ \/ /\ KeyOf[j] # NoKey
          /\ TakeRef(j)
          /\ Goto(j, "waitKey")
       \/ /\ KeyOf[j] = NoKey
          /\ Goto(j, "waitSlot")
          /\ UNCHANGED <<keyLocks, lockOf, refs>>
    /\ UNCHANGED <<up, row, pending, canceled, caller, full, sem, ran, faults, crashes>>

\* case l.ch <- struct{}{}
AcquireKey(j) ==
    /\ up /\ pc[j] = "waitKey"
    /\ ~full[lockOf[j]]
    /\ full' = [full EXCEPT ![lockOf[j]] = TRUE]
    /\ Goto(j, "waitSlot")
    /\ UNCHANGED <<up, row, pending, canceled, caller, keyLocks, lockOf, refs, sem,
                   ran, faults, crashes>>

\* Mutant: every user that leaves removes the lock from the map.
DropRefUnconditionally(j) ==
    LET l == lockOf[j]
    IN  /\ refs' = [refs EXCEPT ![l] = @ - 1]
        /\ keyLocks' = [keyLocks EXCEPT ![KeyOf[j]] = NoLock]
        /\ lockOf' = [lockOf EXCEPT ![j] = NoLock]

\* release(): refs--, and the last one out removes the lock from the map.
DropRef(j) ==
    LET l == lockOf[j]
    IN  /\ refs' = [refs EXCEPT ![l] = @ - 1]
        /\ keyLocks' = [keyLocks EXCEPT ![KeyOf[j]] = IF refs[l] = 1 THEN NoLock ELSE @]
        /\ lockOf' = [lockOf EXCEPT ![j] = NoLock]

\* case <-ctx.Done() of lockKey, with the release() that follows it.
AbandonKey(j) ==
    /\ up /\ pc[j] = "waitKey"
    /\ j \in canceled
    /\ DropRef(j)
    /\ Goto(j, "refused")
    /\ UNCHANGED <<up, row, pending, canceled, caller, full, sem, ran, faults, crashes>>

\* Mutant: one element too many fits in.
SlotFreeOffByOne == sem <= MaxConcurrent

\* The buffered channel takes an element only while it is not full.
SlotFree == sem < MaxConcurrent

\* case s.sem <- struct{}{}
AcquireSlot(j) ==
    /\ up /\ pc[j] = "waitSlot"
    /\ SlotFree
    /\ sem' = sem + 1
    /\ Goto(j, "admitted")
    /\ UNCHANGED <<up, row, pending, canceled, caller, keyLocks, lockOf, refs, full,
                   ran, faults, crashes>>

\* Mutant: the context is looked at only once a slot has been won.
AbandonSlotLate(j) ==
    /\ up /\ pc[j] = "waitSlot"
    /\ j \in canceled /\ SlotFree
    /\ Goto(j, "refused")
    /\ UNCHANGED <<up, row, memory, ran, faults, crashes>>

\* case <-ctx.Done() of run's select.
AbandonSlot(j) ==
    /\ up /\ pc[j] = "waitSlot"
    /\ j \in canceled
    /\ Goto(j, "refused")
    /\ UNCHANGED <<up, row, memory, ran, faults, crashes>>

\* delete(s.pending, job.ID), on both ways out of the queue.
Dequeue(j) ==
    /\ up /\ pc[j] \in {"admitted", "refused"}
    /\ pending' = pending \ {j}
    /\ Goto(j, IF pc[j] = "admitted" THEN "starting" ELSE "canceling")
    /\ UNCHANGED <<up, row, canceled, caller, keyLocks, lockOf, refs, full, sem,
                   ran, faults, crashes>>

-----------------------------------------------------------------------------
(* run: the body and the way out *)

\* Status and StartedAt are set and saved, then the body is called.
Start(j) ==
    /\ up /\ pc[j] = "starting"
    /\ SaveRow(j, "running")
    /\ ran' = ran \cup {j}
    /\ Goto(j, "running")
    /\ UNCHANGED <<up, memory, crashes>>

\* Mutant: a body whose context was canceled is recorded as canceled.
FinishByContext(j, status) ==
    /\ up /\ pc[j] = "running"
    /\ SaveRow(j, IF j \in canceled THEN "canceled" ELSE status)
    /\ Goto(j, "releaseSlot")
    /\ UNCHANGED <<up, memory, ran, crashes>>

\* The body returns (a value, an error, a timeout or a recovered panic) and
\* finish saves the result.
Finish(j, status) ==
    /\ up /\ pc[j] = "running"
    /\ SaveRow(j, status)
    /\ Goto(j, "releaseSlot")
    /\ UNCHANGED <<up, memory, ran, crashes>>

\* The deferred unlock exists only if lockKey returned one for a real key.
Exit(j) == IF lockOf[j] = NoLock THEN "done" ELSE "releaseKey"

\* finish(JobCanceled): the goroutine never got a slot, it may own its key.
FinishCanceled(j) ==
    /\ up /\ pc[j] = "canceling"
    /\ SaveRow(j, "canceled")
    /\ Goto(j, Exit(j))
    /\ UNCHANGED <<up, memory, ran, crashes>>

\* Mutant: the slot of a finished job is never given back.
ReleaseSlotLeaky(j) ==
    /\ up /\ pc[j] = "releaseSlot"
    /\ Goto(j, Exit(j))
    /\ UNCHANGED <<up, row, memory, ran, faults, crashes>>

\* defer func() { <-s.sem }(), the first deferred call to run.
ReleaseSlot(j) ==
    /\ up /\ pc[j] = "releaseSlot"
    /\ sem' = sem - 1
    /\ Goto(j, Exit(j))
    /\ UNCHANGED <<up, row, pending, canceled, caller, keyLocks, lockOf, refs, full,
                   ran, faults, crashes>>

\* unlock(): <-l.ch first ...
ReleaseKey(j) ==
    /\ up /\ pc[j] = "releaseKey"
    /\ full' = [full EXCEPT ![lockOf[j]] = FALSE]
    /\ Goto(j, "unref")
    /\ UNCHANGED <<up, row, pending, canceled, caller, keyLocks, lockOf, refs, sem,
                   ran, faults, crashes>>

\* ... then release().
Unref(j) ==
    /\ up /\ pc[j] = "unref"
    /\ DropRef(j)
    /\ Goto(j, "done")
    /\ UNCHANGED <<up, row, pending, canceled, caller, full, sem, ran, faults, crashes>>

-----------------------------------------------------------------------------
(* Cancel *)

Answer(j, state) == caller' = [caller EXCEPT ![j] = state]

CancelUnchanged == UNCHANGED <<up, pc, row, pending, keyLocks, lockOf, refs, full, sem,
                               ran, faults, crashes>>

\* The lookup of s.pending under the lock.  A new request may follow an
\* answered one.
CancelLookup(j) ==
    /\ up /\ row[j] # "none" /\ j \in CancelTargets
    /\ caller[j] \notin {"found", "missed"}
    /\ Answer(j, IF j \in pending THEN "found" ELSE "missed")
    /\ UNCHANGED canceled
    /\ CancelUnchanged

\* cancel() outside the lock; the request is answered with success.
CancelFire(j) ==
    /\ up /\ caller[j] = "found"
    /\ canceled' = canceled \cup {j}
    /\ Answer(j, "accepted")
    /\ CancelUnchanged

\* Not pending: GetJob decides between success for an ended job,
\* ErrNotCancelable and ErrJobNotFound.
CancelReadRow(j) ==
    /\ up /\ caller[j] = "missed"
    /\ Answer(j, IF row[j] \in Unfinished THEN "tooLate" ELSE "ended")
    /\ UNCHANGED canceled
    /\ CancelUnchanged

-----------------------------------------------------------------------------
(* The job list: DeleteJob and DeleteFinishedJobs *)

\* Mutant: the status is not looked at.
DeleteJobUnchecked(j) ==
    /\ up /\ row[j] \notin {"none", "deleted"}
    /\ row' = [row EXCEPT ![j] = "deleted"]
    /\ UNCHANGED <<up, pc, memory, ran, faults, crashes>>

\* GetJob, the check of the status, DELETE.  A finished row never leaves that
\* status, so reading and deleting may be one step.
DeleteJob(j) ==
    /\ up /\ row[j] \in JobFinished
    /\ row' = [row EXCEPT ![j] = "deleted"]
    /\ UNCHANGED <<up, pc, memory, ran, faults, crashes>>

FinishedRows == {j \in Jobs : row[j] \in JobFinished}

DeleteFinishedJobs ==
    /\ up /\ FinishedRows # {}
    /\ row' = [j \in Jobs |-> IF j \in FinishedRows THEN "deleted" ELSE row[j]]
    /\ UNCHANGED <<up, pc, memory, ran, faults, crashes>>

-----------------------------------------------------------------------------
(* The process dies and starts again *)

\* A kill, a power cut, or SIGTERM: main never calls Wait, so an orderly
\* shutdown loses the goroutines just the same.
Crash ==
    /\ up /\ crashes < MaxCrashes
    /\ crashes' = crashes + 1
    /\ up' = FALSE
    /\ pc' = [j \in Jobs |-> IF pc[j] \in {"none", "done"} THEN pc[j] ELSE "gone"]
    /\ pending' = {}
    /\ canceled' = {}
    /\ caller' = [j \in Jobs |-> "idle"]
    /\ keyLocks' = [k \in Keys |-> NoLock]
    /\ lockOf' = [j \in Jobs |-> NoLock]
    /\ refs' = [j \in Jobs |-> 0]
    /\ full' = [j \in Jobs |-> FALSE]
    /\ sem' = 0
    /\ UNCHANGED <<row, ran, faults>>

\* Mutant: only the rows that say running.
InterruptedRunningOnly ==
    [j \in Jobs |-> IF row[j] = "running" THEN "interrupted" ELSE row[j]]

\* InterruptUnfinishedJobs; its error is only logged.
Interrupted ==
    [j \in Jobs |-> IF row[j] \in Unfinished THEN "interrupted" ELSE row[j]]

\* PruneJobs keeps the KeepFinished newest finished rows; which those are
\* depends on creation times that tie within a second, so any choice.
Pruned(rows, after) ==
    LET finished == {j \in Jobs : rows[j] \in JobFinished}
    IN  \E kept \in SUBSET finished :
            /\ Cardinality(kept) = KeepFinished \/ (kept = finished /\ Cardinality(finished) < KeepFinished)
            /\ after = [j \in Jobs |-> IF j \in finished \ kept THEN "deleted" ELSE rows[j]]

\* Recover runs before the first request is served.  Either statement may fail.
Recover ==
    /\ ~up
    /\ up' = TRUE
    /\ \/ Pruned(Interrupted, row') /\ faults' = faults
       \/ faults < MaxFaults /\ faults' = faults + 1 /\ Pruned(row, row')
       \/ faults < MaxFaults /\ faults' = faults + 1 /\ row' = Interrupted
    /\ UNCHANGED <<pc, memory, ran, crashes>>

-----------------------------------------------------------------------------
\* The steps a goroutine takes by itself, the end of the body apart.
Step(j) ==
    \/ Register(j)
    \/ EnterQueue(j)
    \/ AcquireKey(j)
    \/ AbandonKey(j)
    \/ AcquireSlot(j)
    \/ AbandonSlot(j)
    \/ Dequeue(j)
    \/ Start(j)
    \/ FinishCanceled(j)
    \/ ReleaseSlot(j)
    \/ ReleaseKey(j)
    \/ Unref(j)

Return(j) == \E status \in {"succeeded", "failed"} : Finish(j, status)

Request(j) ==
    \/ Submit(j)
    \/ CancelLookup(j)
    \/ CancelFire(j)
    \/ CancelReadRow(j)
    \/ DeleteJob(j)

Next ==
    \/ \E j \in Jobs : Step(j) \/ Return(j) \/ Request(j)
    \/ DeleteFinishedJobs
    \/ Crash
    \/ Recover

Spec == Init /\ [][Next]_vars

\* Goroutines are scheduled; the waiters of a channel are served in turn, which
\* a blocked send needs strong fairness to say; the process is restarted by its
\* supervisor.  Nothing is assumed of requests, and nothing of bodies.
StepFairness ==
    \A j \in Jobs :
        /\ WF_vars(Step(j))
        /\ SF_vars(AcquireKey(j))
        /\ SF_vars(AcquireSlot(j))
        /\ WF_vars(CancelFire(j))

\* Every body returns: run gives it a context with a timeout.
BodyFairness == \A j \in Jobs : WF_vars(Return(j))

LiveSpec == Spec /\ StepFairness /\ WF_vars(Recover)
FairSpec == LiveSpec /\ BodyFairness

-----------------------------------------------------------------------------
(* Properties *)

TypeOK ==
    /\ up \in BOOLEAN
    /\ pc \in [Jobs -> Places]
    /\ row \in [Jobs -> Statuses]
    /\ pending \subseteq Jobs
    /\ canceled \subseteq Jobs
    /\ caller \in [Jobs -> CallerStates]
    /\ keyLocks \in [Keys -> Jobs \cup {NoLock}]
    /\ lockOf \in [Jobs -> Jobs \cup {NoLock}]
    /\ refs \in [Jobs -> Nat]
    /\ full \in [Jobs -> BOOLEAN]
    /\ sem \in Nat
    /\ ran \subseteq Jobs
    /\ faults \in 0..MaxFaults
    /\ crashes \in 0..MaxCrashes

Running == {j \in Jobs : pc[j] = "running"}

Users(l) == {j \in Jobs : lockOf[j] = l}
SlotHolders == {j \in Jobs : pc[j] \in InSlot}
Owns(j) == lockOf[j] # NoLock /\ pc[j] \in Owning

\* Two bodies submitted for the same instance never run at the same time,
\* although the lock object is dropped from the map and made again while other
\* goroutines still hold references to old ones (keyLocks, lockKey).
SameInstanceRunsSerially ==
    \A i, j \in Running : KeyOf[i] = KeyOf[j] /\ KeyOf[i] # NoKey => i = j

\* No more than MaxConcurrent bodies run at once (sem).
AtMostMaxConcurrent == Cardinality(Running) <= MaxConcurrent

\* The reference count of a lock object is the number of goroutines that use
\* it, and they all find it in the map: no waiter is left on an orphaned lock
\* and no lock outlives its users (refs, release).
LockRefsAreUsers ==
    /\ \A j \in Jobs : lockOf[j] # NoLock => keyLocks[KeyOf[j]] = lockOf[j]
    /\ \A k \in Keys : keyLocks[k] # NoLock =>
          /\ refs[keyLocks[k]] = Cardinality(Users(keyLocks[k]))
          /\ refs[keyLocks[k]] > 0

\* What a goroutine's place says about its reference to a lock.
PlaceInv ==
    \A j \in Jobs :
        /\ pc[j] \in {"waitKey", "releaseKey", "unref"} => lockOf[j] # NoLock
        /\ pc[j] \in InSlot \cup {"waitSlot"} /\ KeyOf[j] # NoKey => lockOf[j] # NoLock
        /\ pc[j] \in Asleep \cup Over => lockOf[j] = NoLock
        /\ pc[j] \in Asleep => refs[j] = 0 /\ ~full[j]
        /\ lockOf[j] # NoLock => KeyOf[j] # NoKey

\* The lock objects: found in the map by whoever uses them, made by a job of
\* the same key, counted exactly, owned by one goroutine at most.
LockInv ==
    /\ \A j \in Jobs : lockOf[j] # NoLock => keyLocks[KeyOf[j]] = lockOf[j]
    /\ \A k \in Keys : keyLocks[k] # NoLock => KeyOf[keyLocks[k]] = k /\ refs[keyLocks[k]] > 0
    /\ \A l \in Jobs : refs[l] = Cardinality(Users(l))
    /\ \A j \in Jobs : Owns(j) => full[lockOf[j]]
    /\ \A i, j \in Jobs : Owns(i) /\ Owns(j) /\ lockOf[i] = lockOf[j] => i = j

SlotInv == sem = Cardinality(SlotHolders) /\ sem <= MaxConcurrent

\* The inductive invariant behind SameInstanceRunsSerially, AtMostMaxConcurrent
\* and LockRefsAreUsers: the places of the goroutines, the lock objects and
\* the slots they account for.
IInv == TypeOK /\ PlaceInv /\ LockInv /\ SlotInv

\* As long as every write succeeds, a row that says queued or running belongs
\* to a goroutine that will still write it, unless the process is down.
NoOrphanedRow ==
    up /\ faults = 0 =>
        \A j \in Jobs : row[j] \in Unfinished => pc[j] \notin Over \cup {"none"}

\* A job recorded as canceled never ran, one recorded as succeeded or failed did.
StatusTellsWhetherItRan ==
    \A j \in Jobs : /\ row[j] = "canceled" => j \notin ran
                    /\ row[j] \in {"succeeded", "failed"} => j \in ran

\* A final status never changes except by deletion, and a deleted row never
\* comes back: SaveJob is an upsert, so a save after the deletion would
\* resurrect it (DeleteJob refuses an unfinished job for that reason).
FinalMeansFinal ==
    [][\A j \in Jobs :
          /\ row[j] \in JobFinished => row'[j] \in {row[j], "deleted"}
          /\ row[j] = "deleted" => row'[j] = "deleted"]_vars

\* A job that is submitted ends, crashes and restarts included, if no write
\* fails: queueing for a key and a slot never deadlocks and never starves.
SubmittedJobEnds == \A j \in Jobs : (row[j] \in Unfinished) ~> (row[j] \notin Unfinished)

\* A canceled job leaves the queue even if the bodies in front of it never
\* return: it ends, or it wins the race and runs.
CancelNeedsNoSlot ==
    \A j \in Jobs : (j \in canceled) ~> (j \notin pending)

Promise == INSTANCE JobPromise

\* The rows a reader of the job list sees behave as JobPromise says, if no
\* write fails: in particular the final row is written before the key and the
\* slot are given back (order of the deferred calls in run).
KeepsPromise == Promise!Spec

\* An accepted Cancel means the body never runs (test TestCancelQueuedOnly).
AcceptedCancelNeverRuns == \A j \in Jobs : caller[j] = "accepted" => j \notin ran

Queued == {"saved", "spawned", "waitKey", "waitSlot", "admitted", "refused",
           "starting", "canceling"}

\* What the row of a job says about its goroutine: the inductive invariant
\* behind NoOrphanedRow, StatusTellsWhetherItRan, FinalMeansFinal and
\* KeepsPromise.  A lost write may leave a row behind, hence faults = 0.
RowInv ==
    \A j \in Jobs :
        /\ pc[j] = "none" <=> row[j] = "none"
        /\ pc[j] \in Queued => row[j] = "queued"
        /\ pc[j] = "running" => row[j] \in Unfinished
        /\ faults = 0 /\ pc[j] = "running" => row[j] = "running"
        /\ faults = 0 /\ up /\ row[j] \in Unfinished => pc[j] \in Queued \cup {"running"}
        /\ ~up => pc[j] \in Over \cup {"none"}
        /\ pc[j] \in Queued \cup {"none"} => j \notin ran
        /\ pc[j] = "running" => j \in ran
        /\ row[j] = "canceled" => j \notin ran
        /\ row[j] \in {"succeeded", "failed"} => j \in ran
=============================================================================
