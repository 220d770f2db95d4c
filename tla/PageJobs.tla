------------------------------ MODULE PageJobs ------------------------------
(***************************************************************************)
(* The list of background jobs an open page keeps (store/index.ts), and    *)
(* the three ways it learns of a job: the answer to the request that       *)
(* submitted it, the stream of events (api/events.ts, fed by the bounded   *)
(* buffer of instancesvc.Bus), and the whole list, read when the page is   *)
(* loaded and when the stream comes back.  None of them waits for another. *)
(*                                                                         *)
(* The server's side is what a page sees of jobsvc: a row is written and   *)
(* its snapshot published; here both are one step, in the order of the     *)
(* job's life.                                                             *)
(***************************************************************************)
EXTENDS Naturals, Sequences, FiniteSets

CONSTANTS Jobs,       \* the jobs this page submits
          Buffer,     \* capacity of the subscriber's channel (64 in the code)
          MaxLists,   \* bound on requests for the whole list
          MaxOutages  \* bound on breaks of the stream

ASSUME BoundsAssumption == Buffer \in Nat \ {0} /\ MaxLists \in Nat /\ MaxOutages \in Nat

VARIABLES
  row,        \* the server's row of each job, "none" before it is submitted
  deleted,    \* rows removed from the server's list
  stream,     \* events published for this page and not yet handled
  live,       \* "connecting", "open" or "down": the EventSource
  opened,     \* the stream was open before, so the next opening reloads
  outages,
  wanted,     \* requests for the list the server has not yet served
  lists,      \* requests for the list so far
  answers,    \* answers of the server the page has not yet handled
  jobs,       \* what the page shows of each job, "absent" if not in its list
  callbacks,  \* jobCallbacks: jobs with a registered onSuccess
  tracked,    \* jobs whose submission was answered: trackJob ran
  told,       \* how often finishJob announced each job
  called,     \* how often onSuccess ran for each job
  lapsed      \* jobs of which the page missed an event, whose shown state a
              \* list replaced, or that were removed before their answer came

serverVars == <<row, deleted>>
linkVars == <<live, opened, outages, wanted, lists>>
pageVars == <<jobs, callbacks, tracked, told, called>>
vars == <<row, deleted, stream, live, opened, outages, wanted, lists, answers, jobs,
          callbacks, tracked, told, called, lapsed>>

Final == {"succeeded", "failed", "canceled"}
Statuses == {"queued", "running"} \union Final
isJobDone(status) == status \in Final

Answers == [kind : {"submit", "removed"}, job : Jobs]
             \union [kind : {"list"}, jobs : [Jobs -> Statuses \union {"absent"}]]
             \union [kind : {"cleared"}]

TypeOK ==
  /\ row \in [Jobs -> Statuses \union {"none"}] /\ deleted \subseteq Jobs
  /\ stream \in Seq([job : Jobs, status : Statuses]) /\ Len(stream) <= Buffer
  /\ live \in {"connecting", "open", "down"} /\ opened \in BOOLEAN
  /\ outages \in 0 .. MaxOutages /\ wanted \in Nat /\ lists \in 0 .. MaxLists
  /\ answers \subseteq Answers
  /\ jobs \in [Jobs -> Statuses \union {"absent"}]
  /\ callbacks \subseteq Jobs /\ tracked \subseteq Jobs /\ lapsed \subseteq Jobs
  /\ told \in [Jobs -> Nat] /\ called \in [Jobs -> Nat]

\* loadAll asks for the list and startLiveUpdates opens the stream, at once.
Init ==
  /\ row = [j \in Jobs |-> "none"] /\ deleted = {}
  /\ stream = <<>> /\ live = "connecting" /\ opened = FALSE /\ outages = 0
  /\ wanted = 1 /\ lists = 0 /\ answers = {}
  /\ jobs = [j \in Jobs |-> "absent"]
  /\ callbacks = {} /\ tracked = {} /\ lapsed = {}
  /\ told = [j \in Jobs |-> 0] /\ called = [j \in Jobs |-> 0]

-----------------------------------------------------------------------------
(* The server *)

\* Bus.Publish: an event goes to the subscribers of this moment, and is
\* dropped for one whose buffer is full.
Publish(j, status) ==
  IF live = "open" /\ Len(stream) < Buffer
  THEN stream' = Append(stream, [job |-> j, status |-> status]) /\ UNCHANGED lapsed
  ELSE lapsed' = lapsed \union {j} /\ UNCHANGED stream

\* Submit: the row, the event of the queued job, and the answer to the page.
Submit(j) ==
  /\ row[j] = "none"
  /\ row' = [row EXCEPT ![j] = "queued"]
  /\ Publish(j, "queued")
  /\ answers' = answers \union {[kind |-> "submit", job |-> j]}
  /\ UNCHANGED <<deleted, linkVars, pageVars>>

\* run and finish: the states a job goes through, each saved and published.
Advance(j, status) ==
  /\ \/ row[j] = "queued" /\ status \in {"running", "canceled"}
     \/ row[j] = "running" /\ status \in {"succeeded", "failed"}
  /\ row' = [row EXCEPT ![j] = status]
  /\ Publish(j, status)
  /\ UNCHANGED <<deleted, linkVars, answers, pageVars>>

\* handleListJobs, to a request of loadJobs.
ServeList ==
  /\ wanted > 0
  /\ wanted' = wanted - 1
  /\ answers' = answers \union
       {[kind |-> "list",
         jobs |-> [j \in Jobs |-> IF row[j] = "none" \/ j \in deleted THEN "absent" ELSE row[j]]]}
  /\ UNCHANGED <<serverVars, stream, live, opened, outages, lists, pageVars, lapsed>>

\* removeJob asks for the deletion of a job the page shows as ended.
Remove(j) ==
  /\ isJobDone(jobs[j]) /\ isJobDone(row[j]) /\ j \notin deleted
  /\ deleted' = deleted \union {j}
  /\ answers' = answers \union {[kind |-> "removed", job |-> j]}
  /\ UNCHANGED <<row, stream, linkVars, pageVars, lapsed>>

\* clearFinishedJobs asks for the deletion of every ended job; the button
\* needs one the page knows of.
Clear ==
  /\ \E j \in Jobs : isJobDone(jobs[j])
  /\ deleted' = deleted \union {j \in Jobs : isJobDone(row[j])}
  /\ answers' = answers \union {[kind |-> "cleared"]}
  /\ UNCHANGED <<row, stream, linkVars, pageVars, lapsed>>

-----------------------------------------------------------------------------
(* The stream *)

Connect ==
  /\ live # "open"
  /\ lists < MaxLists \/ ~opened
  /\ live' = "open"
  /\ opened' = TRUE
  /\ wanted' = IF opened THEN wanted + 1 ELSE wanted
  /\ lists' = IF opened THEN lists + 1 ELSE lists
  /\ UNCHANGED <<serverVars, stream, outages, answers, pageVars, lapsed>>

\* A break loses what was published and not yet handled.
Break ==
  /\ live = "open" /\ outages < MaxOutages
  /\ live' = "down"
  /\ outages' = outages + 1
  /\ lapsed' = lapsed \union {stream[n].job : n \in DOMAIN stream}
  /\ stream' = <<>>
  /\ UNCHANGED <<serverVars, opened, wanted, lists, answers, pageVars>>

\* The page asks for the whole list again.
AskList ==
  /\ lists < MaxLists
  /\ lists' = lists + 1
  /\ wanted' = wanted + 1
  /\ UNCHANGED <<serverVars, stream, live, opened, outages, answers, pageVars, lapsed>>

-----------------------------------------------------------------------------
(* The page *)

\* Mutant: the last snapshot to arrive wins.
upsertJobAlways(j, status) == status

\* upsertJob: an ended job is never replaced by an older snapshot.
upsertJob(j, status) == IF isJobDone(jobs[j]) /\ ~isJobDone(status) THEN jobs[j] ELSE status

\* Mutant: the callback stays registered.
finishJobKeeping(j, status, registered) ==
  /\ callbacks' = registered
  /\ told' = [told EXCEPT ![j] = @ + 1]
  /\ called' = IF j \in registered /\ status = "succeeded"
               THEN [called EXCEPT ![j] = @ + 1]
               ELSE called

\* finishJob: the callback is taken out first; it runs if the job succeeded.
finishJob(j, status, registered) ==
  /\ callbacks' = registered \ {j}
  /\ told' = [told EXCEPT ![j] = @ + 1]
  /\ called' = IF j \in registered /\ status = "succeeded"
               THEN [called EXCEPT ![j] = @ + 1]
               ELSE called

\* applyEvent, job.updated: the end is announced only of a job the page has
\* seen unfinished.
ApplyEvent ==
  /\ stream # <<>>
  /\ LET e == Head(stream)
         prev == jobs[e.job]
     IN /\ jobs' = [jobs EXCEPT ![e.job] = upsertJob(e.job, e.status)]
        /\ IF isJobDone(e.status) /\ prev # "absent" /\ ~isJobDone(prev)
           THEN finishJob(e.job, e.status, callbacks)
           ELSE UNCHANGED <<callbacks, told, called>>
  /\ stream' = Tail(stream)
  /\ UNCHANGED <<serverVars, linkVars, answers, tracked, lapsed>>

\* trackJob: the answer to a submission, a snapshot of the queued job, may
\* come after the events of the whole life of the job.
TrackJob(j) ==
  /\ [kind |-> "submit", job |-> j] \in answers
  /\ answers' = answers \ {[kind |-> "submit", job |-> j]}
  /\ tracked' = tracked \union {j}
  /\ LET current == upsertJob(j, "queued")
     IN /\ jobs' = [jobs EXCEPT ![j] = current]
        /\ IF isJobDone(current)
           THEN finishJob(j, current, callbacks \union {j})
           ELSE callbacks' = callbacks \union {j} /\ UNCHANGED <<told, called>>
  /\ UNCHANGED <<serverVars, stream, linkVars, lapsed>>

\* loadJobs: the answer replaces the list, whatever the events said since.
LoadJobs(a) ==
  /\ a \in answers /\ a.kind = "list"
  /\ answers' = answers \ {a}
  /\ jobs' = a.jobs
  /\ lapsed' = lapsed \union {j \in Jobs : a.jobs[j] # jobs[j]}
  /\ UNCHANGED <<serverVars, stream, linkVars, callbacks, tracked, told, called>>

Unanswered == {j \in Jobs : [kind |-> "submit", job |-> j] \in answers}

\* removeJob and clearFinishedJobs, after the answer.
DropRemoved(j) ==
  /\ [kind |-> "removed", job |-> j] \in answers
  /\ answers' = answers \ {[kind |-> "removed", job |-> j]}
  /\ jobs' = [jobs EXCEPT ![j] = "absent"]
  /\ lapsed' = lapsed \union ({j} \intersect Unanswered)
  /\ UNCHANGED <<serverVars, stream, linkVars, callbacks, tracked, told, called>>

DropCleared ==
  /\ [kind |-> "cleared"] \in answers
  /\ answers' = answers \ {[kind |-> "cleared"]}
  /\ jobs' = [j \in Jobs |-> IF isJobDone(jobs[j]) THEN "absent" ELSE jobs[j]]
  /\ lapsed' = lapsed \union {j \in Unanswered : isJobDone(jobs[j])}
  /\ UNCHANGED <<serverVars, stream, linkVars, callbacks, tracked, told, called>>

\* A request fails: the page leaves everything as it was.
LoseAnswer(a) ==
  /\ a \in answers
  /\ answers' = answers \ {a}
  /\ UNCHANGED <<serverVars, stream, linkVars, pageVars, lapsed>>

Next ==
  \/ \E j \in Jobs : Submit(j) \/ Remove(j) \/ TrackJob(j) \/ DropRemoved(j)
  \/ \E j \in Jobs, status \in Statuses : Advance(j, status)
  \/ ServeList \/ Clear \/ Connect \/ Break \/ AskList \/ ApplyEvent \/ DropCleared
  \/ \E a \in answers : LoadJobs(a) \/ LoseAnswer(a)

Spec == Init /\ [][Next]_vars

\* What is published is handled, requests are served and answered, jobs end;
\* nobody has to ask for anything again.
FairSpec ==
  /\ Spec
  /\ WF_vars(ApplyEvent) /\ WF_vars(ServeList) /\ WF_vars(DropCleared)
  /\ WF_vars(\E a \in answers : LoadJobs(a))
  /\ WF_vars(\E j \in Jobs : TrackJob(j) \/ DropRemoved(j))
  /\ WF_vars(\E j \in Jobs, status \in Statuses : Advance(j, status))

-----------------------------------------------------------------------------
(* Properties *)

\* finishJob and trackJob: the callback of a submission runs at most once and
\* only for a job that succeeded, and is forgotten with it, although the end
\* of the job may be seen first through the answer or through an event.
CallbackRunsOnce ==
  \A j \in Jobs : called[j] > 0 =>
    called[j] = 1 /\ row[j] = "succeeded" /\ j \notin callbacks /\ j \in tracked

NothingOnTheWay(j) ==
  /\ \A n \in DOMAIN stream : stream[n].job # j
  /\ \A a \in answers : a.kind = "list" \/ (a.kind \in {"submit", "removed"} => a.job # j)

\* trackJob's promise that the user is told ("完成后会提示你"): when a job has
\* ended, its events and its answer are handled, and the page missed no event
\* of it and took no list that differed from what it showed, then the end was
\* announced, and the callback ran if the job succeeded.  The events may all
\* have come before the answer.
EndIsAnnounced ==
  \A j \in tracked \ lapsed :
    isJobDone(row[j]) /\ NothingOnTheWay(j) =>
      /\ told[j] > 0 /\ j \notin callbacks
      /\ called[j] = (IF row[j] = "succeeded" THEN 1 ELSE 0)
      /\ jobs[j] \in {row[j], "absent"}

\* events.go:81 says that an event dropped for a full buffer does no harm
\* because the page refreshes from time to time anyway: a job submitted by a
\* page that is loaded and connected does not stay unfinished on it after it
\* has ended, as long as the connection holds and nobody removes the job.
Loaded == live = "open" /\ wanted = 0 /\ answers = {}

DroppedEventsDoNoHarm ==
  \A j \in Jobs :
    [](row[j] = "none" /\ Loaded =>
         [](isJobDone(row[j]) => <>(isJobDone(jobs[j]) \/ j \in deleted \/ live = "down")))
=============================================================================
