------------------------------- MODULE DemoServer -------------------------------
(***************************************************************************)
(* The server of the demonstration site, src/web/src/demo/server.ts: every *)
(* endpoint is a handler over variables of the page, run to its end in one *)
(* step, and what takes long is a job that submit leaves to timers, with   *)
(* the same events as the real server.                                     *)
(*                                                                         *)
(* A job keeps the objects its request found; the timer that runs it looks *)
(* neither at the account nor at the list again.  The model keeps exactly  *)
(* that: which lists an object is still in when the job reaches it.        *)
(*                                                                         *)
(* Names, addresses, quotas, prices and series are not modelled.  MaxAsked *)
(* bounds the requests that change something.                              *)
(***************************************************************************)
EXTENDS Naturals, FiniteSets, SequencesExt, Lists

CONSTANTS
    Accounts,     \* the accounts, made by the script or by a request
    Machines,     \* the instances, made by the script or by a launch
    First,        \* the instances of the script, in their order
    OwnerOf(_),   \* the account of an instance
    Proxies,      \* the proxies of the pool
    Nothing,      \* no object
    MaxAsked      \* bound: requests that change something

VARIABLES
    authed,       \* somebody is signed in
    accounts,     \* the accounts that exist
    instances,    \* the instances that exist, in order
    state,        \* the lifecycle state of an instance
    vnics,        \* the cards of an instance: 1 is the primary card
    allowed,      \* settings.allowTerminate
    bindings,     \* the proxy of each account
    jobs,         \* the job list
    working,      \* the jobs whose timers have not run out
    timers,       \* the pending end of a transition
    asked         \* how many requests were made; also the uid of a job

world == <<accounts, instances, state, vnics>>
tables == <<allowed, bindings>>
vars == <<authed, world, tables, jobs, working, timers, asked>>

----------------------------------------------------------------------------
(* What the handlers share *)

\* ACTION of the source: the state an instance passes through and the one it ends in.
TRANSITIONS ==
    [START |-> <<"STARTING", "RUNNING">>,
     SOFTSTOP |-> <<"STOPPING", "STOPPED">>,
     STOP |-> <<"STOPPING", "STOPPED">>,
     SOFTRESET |-> <<"STOPPING", "RUNNING">>,
     RESET |-> <<"STOPPING", "RUNNING">>]

Settled == {"RUNNING", "STOPPED"}
States == Settled \cup {"STARTING", "STOPPING", "PROVISIONING"}
Cards == 1 .. 3

Job == [id : 1 .. MaxAsked, kind : {"terminate", "launch", "attach", "detach", "bulk"},
        on : SUBSET Machines, card : Cards, action : DOMAIN TRANSITIONS]

TypeOK ==
    /\ authed \in BOOLEAN
    /\ accounts \subseteq Accounts
    /\ instances \in Seq(Machines) /\ IsInjective(instances)
    /\ state \in [Machines -> States]
    /\ \A m \in Machines : vnics[m] \in Seq(Cards) /\ IsInjective(vnics[m])
    /\ allowed \in BOOLEAN
    /\ bindings \in [Accounts -> Proxies \cup {Nothing}]
    /\ jobs \in [1 .. MaxAsked -> {"none", "queued", "running", "succeeded", "failed"}]
    /\ working \subseteq Job
    /\ timers \subseteq [id : 1 .. MaxAsked, of : Machines, end : Settled]
    /\ asked \in 0 .. MaxAsked

\* list.indexOf(x), of what is there.
IndexOf(list, x) == CHOOSE n \in DOMAIN list : list[n] = x /\ \A k \in 1 .. n - 1 : list[k] # x

\* list.splice(list.indexOf(x), 1).  An index of -1 counts from the end: an
\* object that left the list before takes the last one with it.
SpliceOut(list, x) ==
    IF list = <<>> THEN list
    ELSE RemoveAt(list, IF x \in Range(list) THEN IndexOf(list, x) ELSE Len(list))

Listed == Range(instances)

\* A request that changes something: signed in, and counted.
Request ==
    /\ authed /\ asked < MaxAsked
    /\ asked' = asked + 1

\* submit: the job is listed at once and its timers start.
submit(kind, on, card, action) ==
    LET id == asked + 1 IN
    /\ jobs' = [jobs EXCEPT ![id] = "queued"]
    /\ working' = working \cup
        {[id |-> id, kind |-> kind, on |-> on, card |-> card, action |-> action]}
    /\ UNCHANGED <<authed, world, tables, timers>>

\* transition: every instance of on passes into the middle state, and a timer
\* of its own ends it.
Transit(on, id, action) ==
    /\ state' = [m \in Machines |-> IF m \in on THEN TRANSITIONS[action][1] ELSE state[m]]
    /\ timers' = timers \cup
        {[id |-> id, of |-> m, end |-> TRANSITIONS[action][2]] : m \in on}

Init ==
    /\ authed = TRUE
    /\ instances = First
    /\ accounts = {OwnerOf(m) : m \in Range(First)}
    /\ state \in [Machines -> Settled]
    /\ vnics = [m \in Machines |-> IF First # <<>> /\ m = First[1] THEN <<1, 2>> ELSE <<1>>]
    /\ allowed = TRUE
    /\ bindings = [a \in Accounts |-> Nothing]
    /\ jobs = [n \in 1 .. MaxAsked |-> "none"]
    /\ working = {} /\ timers = {} /\ asked = 0

----------------------------------------------------------------------------
(* The requests *)

Login == authed' = TRUE /\ UNCHANGED <<world, tables, jobs, working, timers, asked>>
Logout == authed' = FALSE /\ UNCHANGED <<world, tables, jobs, working, timers, asked>>

CreateAccount(a) ==
    /\ Request /\ a \notin accounts
    /\ accounts' = accounts \cup {a}
    /\ UNCHANGED <<authed, instances, state, vnics, tables, jobs, working, timers>>

\* Mutant: the rows of the account stay.
DeleteAccountUnswept(a) ==
    /\ Request /\ a \in accounts
    /\ accounts' = accounts \ {a}
    /\ UNCHANGED <<authed, instances, state, vnics, tables, jobs, working, timers>>

\* The rows of the account go with it; its jobs, timers and binding stay.
DeleteAccount(a) ==
    /\ Request /\ a \in accounts
    /\ accounts' = accounts \ {a}
    /\ instances' = Kept(instances, {n \in DOMAIN instances : OwnerOf(instances[n]) # a})
    /\ UNCHANGED <<authed, state, vnics, tables, jobs, working, timers>>

Power(m, action) ==
    /\ Request /\ m \in Listed
    /\ Transit({m}, asked + 1, action)
    /\ UNCHANGED <<authed, accounts, instances, vnics, tables, jobs, working>>

Terminate(m) ==
    /\ Request /\ m \in Listed /\ allowed
    /\ submit("terminate", {m}, 1, "STOP")

Launch(m) ==
    /\ Request /\ m \notin Listed /\ OwnerOf(m) \in accounts
    /\ \A w \in working : w.kind = "launch" => m \notin w.on
    /\ submit("launch", {m}, 1, "START")

AttachVnic(m) ==
    /\ Request /\ m \in Listed
    /\ submit("attach", {m}, 1, "START")

DetachVnic(m, card) ==
    /\ Request /\ m \in Listed
    /\ card # 1 /\ card \in Range(vnics[m])
    /\ submit("detach", {m}, card, "START")

Bulk(on, action) ==
    /\ Request /\ on # {} /\ on \subseteq Listed
    /\ submit("bulk", on, 1, action)

Settings ==
    /\ Request /\ allowed' = ~allowed
    /\ UNCHANGED <<authed, world, bindings, jobs, working, timers>>

Bind(a, p) ==
    /\ Request /\ a \in accounts
    /\ bindings' = [bindings EXCEPT ![a] = p]
    /\ UNCHANGED <<authed, world, allowed, jobs, working, timers>>

\* POST /api/jobs/clear: only what is no longer queued or running.
ClearJobs ==
    /\ authed
    /\ jobs' = [n \in DOMAIN jobs |-> IF jobs[n] \in {"queued", "running"} THEN jobs[n] ELSE "none"]
    /\ UNCHANGED <<authed, world, tables, working, timers, asked>>

----------------------------------------------------------------------------
(* The timers *)

StartJob(w) ==
    /\ jobs[w.id] = "queued"
    /\ jobs' = [jobs EXCEPT ![w.id] = "running"]
    /\ UNCHANGED <<authed, world, tables, working, timers, asked>>

Ends(w, status) ==
    /\ jobs[w.id] = "running"
    /\ jobs' = [jobs EXCEPT ![w.id] = status]
    /\ working' = working \ {w}
    /\ UNCHANGED <<authed, accounts, tables, asked>>

RunTerminate(w) ==
    /\ w.kind = "terminate" /\ Ends(w, "succeeded")
    /\ instances' = SpliceOut(instances, CHOOSE m \in w.on : TRUE)
    /\ UNCHANGED <<state, vnics, timers>>

\* makeInstance looks the account up again: a launch of a deleted account fails.
RunLaunch(w) ==
    LET m == CHOOSE x \in w.on : TRUE IN
    /\ w.kind = "launch" /\ UNCHANGED vnics
    /\ \/ /\ OwnerOf(m) \in accounts /\ Ends(w, "succeeded")
          /\ instances' = Append(instances, m)
          /\ state' = [state EXCEPT ![m] = "PROVISIONING"]
          /\ timers' = timers \cup {[id |-> w.id, of |-> m, end |-> "RUNNING"]}
       \/ /\ OwnerOf(m) \notin accounts /\ Ends(w, "failed")
          /\ UNCHANGED <<instances, state, timers>>

RunAttach(w) ==
    LET m == CHOOSE x \in w.on : TRUE
        free == Cards \ Range(vnics[m]) IN
    /\ w.kind = "attach" /\ Ends(w, "succeeded")
    /\ vnics' = IF free = {} THEN vnics
                ELSE [vnics EXCEPT ![m] = Append(@, CHOOSE c \in free : \A d \in free : c <= d)]
    /\ UNCHANGED <<instances, state, timers>>

RunDetach(w) ==
    LET m == CHOOSE x \in w.on : TRUE IN
    /\ w.kind = "detach" /\ Ends(w, "succeeded")
    /\ vnics' = [vnics EXCEPT ![m] = SpliceOut(@, w.card)]
    /\ UNCHANGED <<instances, state, timers>>

\* The only job that looks its instances up again when it runs.
RunBulk(w) ==
    /\ w.kind = "bulk" /\ Ends(w, "succeeded")
    /\ Transit(w.on \cap Listed, w.id, w.action)
    /\ UNCHANGED <<instances, vnics>>

\* Mutant: a timer ends only a transition that was asked for by name.
EndTransitionStarted(t) ==
    /\ timers' = timers \ {t}
    /\ state' = [state EXCEPT ![t.of] = IF @ = "PROVISIONING" THEN @ ELSE t.end]
    /\ UNCHANGED <<authed, accounts, instances, vnics, tables, jobs, working, asked>>

\* setState at the end of a transition, of whatever the timer was set for.
EndTransition(t) ==
    /\ timers' = timers \ {t}
    /\ state' = [state EXCEPT ![t.of] = t.end]
    /\ UNCHANGED <<authed, accounts, instances, vnics, tables, jobs, working, asked>>

Accounting == \E a \in Accounts : CreateAccount(a) \/ DeleteAccount(a)
                                  \/ \E p \in Proxies \cup {Nothing} : Bind(a, p)
Machine == \E m \in Machines :
    \/ \E action \in DOMAIN TRANSITIONS : Power(m, action)
    \/ Terminate(m) \/ Launch(m) \/ AttachVnic(m)
    \/ \E card \in Cards : DetachVnic(m, card)
RunJob(w) == RunTerminate(w) \/ RunLaunch(w) \/ RunAttach(w) \/ RunDetach(w) \/ RunBulk(w)
JobTimer == \E w \in working : StartJob(w) \/ RunJob(w)
StateTimer == \E t \in timers : EndTransition(t)

Next ==
    \/ Login \/ Logout \/ Settings \/ ClearJobs
    \/ Accounting \/ Machine
    \/ \E on \in SUBSET Machines, action \in DOMAIN TRANSITIONS : Bulk(on, action)
    \/ JobTimer \/ StateTimer

Spec == Init /\ [][Next]_vars

\* The browser fires every timer that is set.
FairSpec == Spec /\ WF_vars(JobTimer) /\ WF_vars(StateTimer)

----------------------------------------------------------------------------
(* Properties *)

\* An instance never outlives its account in the list, and no job brings one
\* back: the rows of a deleted account go with it, and a launch that was under
\* way when it was deleted fails (makeInstance asks acctById again).
InstancesHaveAccounts == \A m \in Listed : OwnerOf(m) \in accounts

\* No instance is left in a transitional state, whatever overlapped: a stop and
\* a start of one instance, a bulk action over an instance in transition, a
\* launch.  The page locks the buttons of an instance in transition, so one left
\* there could not be used any more.
StatesSettle == <>[](\A m \in Listed : state[m] \in Settled)

\* Doc: "the primary card cannot be detached" (the message of the handler that
\* detaches one).  Two detaches of the same card, confirmed before the first
\* job has run, take the primary card away.
PrimaryStays == \A m \in Machines : 1 \in Range(vnics[m])

\* An instance leaves the list by its own termination or with its account.  The
\* code breaks it: a job that finds its instance gone splices at -1.
OnlyNamedGoes ==
    [][\A m \in Listed \ Range(instances') :
          \/ OwnerOf(m) \notin accounts'
          \/ \E w \in working \ working' : w.kind = "terminate" /\ m \in w.on]_vars
=============================================================================
