--------------------------- MODULE HuntScheduler ---------------------------
(***************************************************************************)
(* The capacity hunter: internal/huntsvc with the hunt_tasks table of      *)
(* internal/store/hunt.go and the handlers of internal/httpapi/hunt.go.    *)
(* A tick reads the due tasks, claims those that are not in flight and     *)
(* starts one round for each.  A round looks for an instance that already  *)
(* carries the tag of the task, prepares, sends LaunchInstance through the *)
(* retrying client, and writes the result back with the time of the next   *)
(* round.  The user's requests, the four minute deadline of a round, lost  *)
(* responses and a crash of the process interleave with that.              *)
(*                                                                         *)
(* Time is abstract: due holds the tasks whose next_at has passed, ordered *)
(* by next_at in older; the others wait, and those in held wait for the    *)
(* end of their account's throttling.  Availability domains, network       *)
(* preparation and the capacity report are one step that may fail.         *)
(***************************************************************************)
EXTENDS Naturals, FiniteSets

CONSTANTS
    Tasks,         \* the hunt tasks of a behaviour
    Accounts,
    AccountOf,     \* the account of each task
    Workers,       \* bound: goroutines that run a round at the same time
    NoTask,
    Limit,         \* MaxConcurrentAttempts, the LIMIT of DueHuntTasks
    MaxAttempts,   \* max_attempts of every task, 0 for no maximum
    MaxRetries,    \* maxRetries of the OCI client
    MaxBuilt,      \* bound: instances created for one task
    MaxRequests,   \* bound: pause, resume and delete requests
    MaxLate,       \* bound: rounds that exceed their deadline
    MaxLost,       \* bound: responses lost after LaunchInstance took effect
    MaxFaults,     \* bound: failing SQL writes and list calls
    MaxCrashes     \* bound: deaths of the process

ASSUME TasksAssumption == IsFiniteSet(Tasks) /\ NoTask \notin Tasks
ASSUME AccountsAssumption == AccountOf \in [Tasks -> Accounts]
ASSUME NumbersAssumption ==
    /\ Limit \in Nat \ {0} /\ MaxAttempts \in Nat /\ MaxRetries \in Nat /\ MaxBuilt \in Nat \ {0}
    /\ MaxRequests \in Nat /\ MaxLate \in Nat /\ MaxLost \in Nat /\ MaxFaults \in Nat
    /\ MaxCrashes \in Nat

VARIABLES
    row,       \* the rows of hunt_tasks
    due,       \* tasks whose next_at has passed
    older,     \* pairs of due tasks, the first with the smaller next_at
    held,      \* tasks deferred to the end of a throttling
    counted,   \* create requests between CountActiveHuntTasks and the INSERT
    batch,     \* the rows the tick has read and not claimed yet
    inflight,  \* s.inflight
    round,     \* the goroutine of each round
    built,     \* instances that carry the tag of each task (at Oracle)
    used       \* how much of each bound has been used

vars == <<row, due, older, held, counted, batch, inflight, round, built, used>>

States == {"none", "running", "paused", "succeeded", "failed", "deleted"}
Stages == {"idle", "begin", "check", "prepare", "launch", "defer", "record", "release"}
Results == {"none", "later", "rest", "failed", "succeeded"}

\* The counter of attempts is compared with 0 and MaxAttempts only.
Enough == IF MaxAttempts = 0 THEN 1 ELSE MaxAttempts
OneMore(n) == IF n < Enough THEN n + 1 ELSE n

Idle == [at |-> "idle", task |-> NoTask, attempts |-> 0, checked |-> FALSE, tries |-> 0,
         late |-> FALSE, refusal |-> "none", result |-> "none"]

Budget == [requests |-> MaxRequests, late |-> MaxLate, lost |-> MaxLost,
           faults |-> MaxFaults, crashes |-> MaxCrashes]

Use(b) == used[b] < Budget[b] /\ used' = [used EXCEPT ![b] = @ + 1]

Init ==
    /\ row = [t \in Tasks |-> [state |-> "none", attempts |-> 0, named |-> FALSE]]
    /\ due = {} /\ older = {}
    /\ held = {}
    /\ counted = {}
    /\ batch = {}
    /\ inflight = {}
    /\ round = [w \in Workers |-> Idle]
    /\ built = [t \in Tasks |-> 0]
    /\ used = [b \in DOMAIN Budget |-> 0]

Exists(t) == row[t].state \notin {"none", "deleted"}
Active(a) == {t \in Tasks : AccountOf[t] = a /\ row[t].state = "running"}

\* next_at of some tasks moves into the future, or to the present.
Leave(ts) ==
    /\ due' = due \ ts
    /\ older' = {p \in older : p[1] \notin ts /\ p[2] \notin ts}

Arrive(t) ==
    /\ due' = due \cup {t}
    /\ older' = {p \in older : p[1] # t /\ p[2] # t} \cup ((due \ {t}) \X {t})

-----------------------------------------------------------------------------
(* Requests *)

\* The first half of handleCreateHuntTask: no active task on the account.
CountActive(t) ==
    /\ row[t].state = "none" /\ t \notin counted
    /\ Active(AccountOf[t]) = {}
    /\ counted' = counted \cup {t}
    /\ UNCHANGED <<row, due, older, held, batch, inflight, round, built, used>>

\* The second half, after the calls to Oracle that validate the request.
Create(t) ==
    /\ t \in counted
    /\ counted' = counted \ {t}
    /\ row' = [row EXCEPT ![t].state = "running"]
    /\ Arrive(t)
    /\ UNCHANGED <<held, batch, inflight, round, built, used>>

\* SetHuntState looks at no state; next_at stays.
Pause(t) ==
    /\ Exists(t) /\ Use("requests")
    /\ row' = [row EXCEPT ![t].state = "paused"]
    /\ UNCHANGED <<due, older, held, counted, batch, inflight, round, built>>

\* Resuming sets next_at to now.
Resume(t) ==
    /\ Exists(t) /\ Use("requests")
    /\ row' = [row EXCEPT ![t].state = "running"]
    /\ Arrive(t)
    /\ held' = held \ {t}
    /\ UNCHANGED <<counted, batch, inflight, round, built>>

Delete(t) ==
    /\ Exists(t) /\ Use("requests")
    /\ row' = [row EXCEPT ![t].state = "deleted"]
    /\ Leave({t})
    /\ held' = held \ {t}
    /\ UNCHANGED <<counted, batch, inflight, round, built>>

-----------------------------------------------------------------------------
(* The tick *)

Startable == {t \in due : row[t].state = "running"}

\* Mutant: the newest due tasks first.
DueNewestFirst ==
    {t \in Startable : Cardinality({u \in Startable : <<t, u>> \in older}) < Limit}

\* DueHuntTasks: running, next_at passed, ORDER BY next_at, LIMIT.
Due == {t \in Startable : Cardinality({u \in Startable : <<u, t>> \in older}) < Limit}

\* The tick reads its tasks: each with its attempts as of now.
TickRead ==
    /\ batch = {} /\ Due # {}
    /\ batch' = {[task |-> t, attempts |-> row[t].attempts] : t \in Due}
    /\ UNCHANGED <<row, due, older, held, counted, inflight, round, built, used>>

\* Mutant: nobody looks who is in flight.
ClaimAlways(t) == TRUE

\* claim: one round per task at a time.
Claim(t) == t \notin inflight

TickStart(w, b) ==
    /\ b \in batch /\ round[w].at = "idle"
    /\ Claim(b.task)
    /\ round' = [round EXCEPT ![w] = [Idle EXCEPT !.at = "begin", !.task = b.task,
                                                  !.attempts = b.attempts]]
    /\ inflight' = inflight \cup {b.task}
    /\ batch' = batch \ {b}
    /\ UNCHANGED <<row, due, older, held, counted, built, used>>

TickSkip(b) ==
    /\ b \in batch /\ ~Claim(b.task)
    /\ batch' = batch \ {b}
    /\ UNCHANGED <<row, due, older, held, counted, inflight, round, built, used>>

-----------------------------------------------------------------------------
(* A round *)

Becomes(w, r) == round' = [round EXCEPT ![w] = r]

Ends(w, result) == Becomes(w, [round[w] EXCEPT !.at = "record", !.result = result])

\* The same after an answer that is not a 429.
Concludes(w, result) ==
    Becomes(w, [round[w] EXCEPT !.at = "record", !.refusal = "none", !.result = result])

\* shouldStop, the credentials, and whether to look for an instance first.
Begin(w) ==
    LET r == round[w]
    IN  /\ r.at = "begin"
        /\ \/ Ends(w, "failed")   \* the maximum, the expiry or no credentials
           \/ /\ MaxAttempts = 0 \/ r.attempts < MaxAttempts
              /\ Becomes(w, [r EXCEPT !.at = IF r.attempts > 0 THEN "check" ELSE "prepare"])
        /\ UNCHANGED <<row, due, older, held, counted, batch, inflight, built, used>>

\* findExisting: an error of the list call counts as "nothing found".
Check(w) ==
    LET r == round[w]
    IN  /\ r.at = "check"
        /\ \/ ~r.late /\ built[r.task] > 0 /\ Ends(w, "succeeded") /\ UNCHANGED used
           \/ /\ ~r.late /\ built[r.task] = 0
              /\ Becomes(w, [r EXCEPT !.at = "prepare", !.checked = TRUE])
              /\ UNCHANGED used
           \/ /\ IF r.late THEN UNCHANGED used ELSE Use("faults")
              /\ Becomes(w, [r EXCEPT !.at = "prepare"])
        /\ UNCHANGED <<row, due, older, held, counted, batch, inflight, built>>

\* Availability domain, network, IPv6 and the capacity report.
Prepare(w) ==
    LET r == round[w]
    IN  /\ r.at = "prepare"
        /\ \/ Ends(w, "later")
           \/ ~r.late /\ Becomes(w, [r EXCEPT !.at = "launch"])
        /\ UNCHANGED <<row, due, older, held, counted, batch, inflight, built, used>>

\* The client repeats a retryable request after a backoff, otherwise the round
\* goes on to next.
RetryOr(w, refusal, next) ==
    LET r == [round[w] EXCEPT !.refusal = refusal]
    IN  IF r.tries < MaxRetries THEN Becomes(w, [r EXCEPT !.tries = @ + 1])
        ELSE Becomes(w, [r EXCEPT !.at = next,
                                  !.result = IF next = "defer" THEN "rest" ELSE "later"])

\* LaunchInstance is created and the answer arrives.
LaunchOk(w) ==
    LET t == round[w].task
    IN  /\ round[w].at = "launch" /\ ~round[w].late
        /\ built[t] < MaxBuilt /\ built' = [built EXCEPT ![t] = @ + 1]
        /\ Concludes(w, "succeeded")
        /\ UNCHANGED <<row, due, older, held, counted, batch, inflight, used>>

\* It is created and the answer is lost: a network error, which is retryable.
LaunchLost(w) ==
    LET t == round[w].task
    IN  /\ round[w].at = "launch" /\ ~round[w].late
        /\ built[t] < MaxBuilt /\ built' = [built EXCEPT ![t] = @ + 1]
        /\ Use("lost")
        /\ RetryOr(w, "none", "record")
        /\ UNCHANGED <<row, due, older, held, counted, batch, inflight>>

\* It is refused: for good, by a 429, or for now.  Past the deadline every call
\* fails with the error of the context, which handleLaunchError takes for a
\* transient one.
LaunchRefused(w) ==
    /\ round[w].at = "launch"
    /\ IF round[w].late THEN Ends(w, "later")
       ELSE \/ Concludes(w, "failed")
            \/ RetryOr(w, "throttled", "defer")
            \/ RetryOr(w, "none", "record")
    /\ UNCHANGED <<row, due, older, held, counted, batch, inflight, built, used>>

\* The context of the round expires; a request under way may have taken effect.
Deadline(w) ==
    LET r == round[w]
    IN  /\ r.at \in Stages \ {"idle", "release"} /\ ~r.late /\ Use("late")
        /\ Becomes(w, [r EXCEPT !.late = TRUE])
        /\ \/ UNCHANGED built
           \/ r.at = "launch" /\ built[r.task] < MaxBuilt /\ built' = [built EXCEPT ![r.task] = @ + 1]
        /\ UNCHANGED <<row, due, older, held, counted, batch, inflight>>

\* A statement of the round fails because its context has expired, or else.
WriteFails(w) ==
    /\ IF round[w].late THEN UNCHANGED used ELSE Use("faults")
    /\ UNCHANGED <<row, due, older, held>>

\* DeferHuntTasksForAccount.
Defer(w) ==
    LET tasks == Active(AccountOf[round[w].task])
    IN  /\ round[w].at = "defer"
        /\ \/ /\ ~round[w].late
              /\ held' = held \cup tasks
              /\ Leave(tasks)
              /\ UNCHANGED <<row, used>>
           \/ WriteFails(w)
        /\ Becomes(w, [round[w] EXCEPT !.at = "record"])
        /\ UNCHANGED <<counted, batch, inflight, built>>

\* Mutant: the result is written as if the task were running.
UpdatedToRunning(t, result) ==
    [row EXCEPT ![t] =
        [state    |-> IF result \in {"failed", "succeeded"} THEN result ELSE "running",
         attempts |-> OneMore(@.attempts),
         named    |-> @.named \/ result = "succeeded"]]

\* Mutant: the instance is not written with the state.
UpdatedNameless(t, result) ==
    [row EXCEPT ![t] =
        [state    |-> IF result \in {"failed", "succeeded"} THEN result ELSE @.state,
         attempts |-> OneMore(@.attempts),
         named    |-> @.named]]

\* The SET list of RecordHuntAttempt: the state only when the round ends the hunt.
Updated(t, result) ==
    [row EXCEPT ![t] =
        [state    |-> IF result \in {"failed", "succeeded"} THEN result ELSE @.state,
         attempts |-> OneMore(@.attempts),
         named    |-> @.named \/ result = "succeeded"]]

\* RecordHuntAttempt; the row may be gone, an error is only logged.
Record(w) ==
    LET t == round[w].task
        result == round[w].result
    IN  /\ round[w].at = "record"
        /\ \/ /\ ~round[w].late /\ Exists(t)
              /\ row' = Updated(t, result)
              /\ Leave({t})
              /\ held' = IF result = "rest" THEN held \cup {t} ELSE held \ {t}
              /\ UNCHANGED used
           \/ ~round[w].late /\ ~Exists(t) /\ UNCHANGED <<row, due, older, held, used>>
           \/ WriteFails(w)
        /\ Becomes(w, [round[w] EXCEPT !.at = "release"])
        /\ UNCHANGED <<counted, batch, inflight, built>>

\* The deferred release, after the callbacks.
Release(w) ==
    /\ round[w].at = "release"
    /\ inflight' = inflight \ {round[w].task}
    /\ Becomes(w, Idle)
    /\ UNCHANGED <<row, due, older, held, counted, batch, built, used>>

-----------------------------------------------------------------------------
(* Time and crashes *)

\* next_at passes.
Elapse(t) ==
    /\ row[t].state \in {"running", "paused"}
    /\ t \notin held \cup due
    /\ Arrive(t)
    /\ UNCHANGED <<row, held, counted, batch, inflight, round, built, used>>

\* The throttling of an account is over; its tasks are an ordinary wait away.
ThrottleOver(a) ==
    /\ \E t \in held : AccountOf[t] = a
    /\ held' = {t \in held : AccountOf[t] # a}
    /\ UNCHANGED <<row, due, older, counted, batch, inflight, round, built, used>>

\* The process dies and starts again: only the table and Oracle remain.
Crash ==
    /\ Use("crashes")
    /\ counted' = {} /\ batch' = {} /\ inflight' = {}
    /\ round' = [w \in Workers |-> Idle]
    /\ UNCHANGED <<row, due, older, held, built>>

-----------------------------------------------------------------------------
RoundStep(w) ==
    \/ Begin(w)
    \/ Check(w)
    \/ Prepare(w)
    \/ LaunchOk(w)
    \/ LaunchLost(w)
    \/ LaunchRefused(w)
    \/ Defer(w)
    \/ Record(w)
    \/ Release(w)

Tick ==
    \/ TickRead
    \/ \E b \in batch : TickSkip(b) \/ \E w \in Workers : TickStart(w, b)

Request(t) == CountActive(t) \/ Create(t) \/ Pause(t) \/ Resume(t) \/ Delete(t)

Next ==
    \/ \E t \in Tasks : Request(t) \/ Elapse(t)
    \/ Tick
    \/ \E w \in Workers : RoundStep(w) \/ Deadline(w)
    \/ \E a \in Accounts : ThrottleOver(a)
    \/ Crash

Spec == Init /\ [][Next]_vars

\* The ticker fires, rounds end (their context has a deadline), time passes.
Fairness ==
    /\ WF_vars(Tick)
    /\ \A w \in Workers : WF_vars(RoundStep(w))
    /\ \A t \in Tasks : WF_vars(Elapse(t))
    /\ \A a \in Accounts : WF_vars(ThrottleOver(a))

FairSpec == Spec /\ Fairness

-----------------------------------------------------------------------------
(* Properties *)

Rounds == [at : Stages, task : Tasks \cup {NoTask}, attempts : 0..Enough, checked : BOOLEAN,
           tries : 0..MaxRetries, late : BOOLEAN, refusal : {"none", "throttled"},
           result : Results]

TypeOK ==
    /\ row \in [Tasks -> [state : States, attempts : 0..Enough, named : BOOLEAN]]
    /\ due \subseteq Tasks /\ older \subseteq due \X due
    /\ held \subseteq Tasks /\ counted \subseteq Tasks /\ inflight \subseteq Tasks
    /\ batch \subseteq [task : Tasks, attempts : 0..Enough]
    /\ round \in [Workers -> Rounds]
    /\ built \in [Tasks -> 0..MaxBuilt]
    /\ used \in [DOMAIN Budget -> Nat]

Working == {w \in Workers : round[w].at # "idle"}

\* Two rounds of one task never overlap, although a round outlives many ticks
\* and a crash forgets who is in flight (inflight).
OneRoundPerTask ==
    \A v, w \in Working : round[v].task = round[w].task => v = w

\* A round that has looked for an instance of its task and found none does not
\* create a second one: nobody else can have created one since.
CheckedLaunchIsSafe ==
    \A w \in Workers :
        round[w].at = "launch" /\ round[w].checked /\ round[w].tries = 0 /\ ~round[w].late =>
            built[round[w].task] = 0

\* What CheckedLaunchIsSafe and OneRoundPerTask rest on: a round under way is
\* in flight, and what it has found out about its task stays true until it
\* sends its request.
RoundInv ==
    /\ \A w \in Working : round[w].task \in inflight
    /\ OneRoundPerTask
    /\ \A w \in Workers :
          /\ round[w].at \in {"begin", "check"} => ~round[w].checked
          /\ round[w].at \in {"prepare", "launch"} /\ round[w].checked
             /\ round[w].tries = 0 /\ ~round[w].late => built[round[w].task] = 0

\* A task that is recorded as succeeded names an instance that was created.
SuccessNamesInstance ==
    \A t \in Tasks : row[t].state = "succeeded" => row[t].named /\ built[t] > 0

\* Only the user sets a paused task running again: the round that was under way
\* when it was paused writes its result without the state.
PauseHolds ==
    [][\A t \in Tasks : row[t].state = "paused" /\ row'[t].state = "running" => Resume(t)]_vars

\* A running task is tried again or stops: no task starves behind the LIMIT of
\* the tick, behind lost writes or behind a throttled account.
RunningTaskIsTried ==
    \A t \in Tasks : (row[t].state = "running") ~> (t \in inflight \/ row[t].state # "running")

\* At most one instance is created for a task: every retry looks for the tag
\* first (comment in attempt).
AtMostOneInstance == \A t \in Tasks : built[t] <= 1

\* Only one task runs on an account (comments on CountActiveHuntTasks and in
\* handleCreateHuntTask).
OneActivePerAccount == \A a \in Accounts : Cardinality(Active(a)) <= 1

\* A round whose last answer was a 429 leaves its task deferred (comment in
\* handleLaunchError: a 429 slows the whole account down).
ThrottledRoundRests ==
    \A w \in Workers :
        round[w].at = "release" /\ round[w].refusal = "throttled"
        /\ row[round[w].task].state = "running" => round[w].task \in held
=============================================================================
