--------------------------- MODULE InstanceCache ---------------------------
(***************************************************************************)
(* The cache of instances: the instances table (internal/store/instance.go)*)
(* and everything that writes it for one account in one region: the passes *)
(* of the synchronisation and the lifecycle requests and watch loops of    *)
(* internal/instancesvc, and the jobs of internal/httpapi that launch an   *)
(* instance or wait for one.                                               *)
(*                                                                         *)
(* Oracle moves the instances by itself, the user may do so in Oracle's    *)
(* own console.  One step is one call to Oracle or one SQL statement, so   *)
(* that what was read may be old when it is written.  Of a row only the    *)
(* lifecycle state is kept; CREATING_IMAGE, which behaves like the other   *)
(* transitional states, is left out.  The account is enabled throughout.   *)
(***************************************************************************)
EXTENDS Naturals, FiniteSets

CONSTANTS
    Instances,    \* the instance ids of a behaviour
    Syncs,        \* goroutines in syncAccountRegion
    All,          \* the one of SyncAll; the others are calls of SyncAccount
    Callers,      \* bound: lifecycle requests under way at the same time
    MaxRequests,  \* bound: requests, those in Oracle's console included
    MaxFaults,    \* bound: failing SQL writes, answers that do not arrive, timeouts of a pass
    MaxCrashes    \* bound: deaths of the process

ASSUME SyncsAssumption == All \in Syncs
ASSUME NumbersAssumption == MaxRequests \in Nat /\ MaxFaults \in Nat /\ MaxCrashes \in Nat

VARIABLES
    oracle,    \* the state of each instance at Oracle
    row,       \* lifecycle_state of each row
    stale,     \* rows whose synced_at is before startedAt of each pass under way
    sync,      \* each pass of the synchronisation
    op,        \* each lifecycle request
    watching,  \* s.watching
    loop,      \* the watch loops
    used       \* how much of each bound has been used

vars == <<oracle, row, stale, sync, op, watching, loop, used>>

Transitional == {"PROVISIONING", "STARTING", "STOPPING", "TERMINATING"}

\* What the watch loop takes for the end of an instance; "gone" is a 404.
Dead == {"TERMINATED", "gone"}

Stored == Transitional \cup {"RUNNING", "STOPPED", "TERMINATED"}
OracleStates == Stored \cup {"none", "gone"}
RowStates    == Stored \cup {"absent"}
Kinds == {"launch", "action", "terminate", "rename", "reshape"}

\* A second loop of an instance exists only if watching fails to prevent it.
Loops == Instances \X {1, 2}

NoPass == [at |-> "idle", seen |-> [i \in Instances |-> "absent"], todo |-> {}]
NoOp == [at |-> "idle", kind |-> "none", inst |-> "none", answer |-> "absent"]
NoLoop == [at |-> "off", cached |-> "absent", got |-> "none", left |-> 0]

Budget == [requests |-> MaxRequests, faults |-> MaxFaults, crashes |-> MaxCrashes]
Use(b) == used[b] < Budget[b] /\ used' = [used EXCEPT ![b] = @ + 1]

\* Some instances run already; an account just imported has no rows yet.
Init ==
    /\ oracle \in [Instances -> {"none", "RUNNING"}]
    /\ row \in [Instances -> {"absent", "RUNNING"}]
    /\ \A i \in Instances : row[i] = "RUNNING" => oracle[i] = "RUNNING"
    /\ stale = [s \in Syncs |-> {}]
    /\ sync = [s \in Syncs |-> NoPass]
    /\ op = [c \in Callers |-> NoOp]
    /\ watching = {}
    /\ loop = [g \in Loops |-> NoLoop]
    /\ used = [requests |-> 0, faults |-> 0, crashes |-> 0]

-----------------------------------------------------------------------------
(* The statements *)

\* Mutant: lifecycle_state is missing from the SET list, as instance_id is
\* from that of SaveJob.
UpsertKeepsState(i, state) ==
    /\ row' = [row EXCEPT ![i] = IF @ = "absent" THEN state ELSE @]
    /\ stale' = [s \in Syncs |-> stale[s] \ {i}]

\* Mutant: synced_at is missing from it.
UpsertKeepsStamp(i, state) ==
    /\ row' = [row EXCEPT ![i] = state]
    /\ stale' = IF row[i] = "absent" THEN [s \in Syncs |-> stale[s] \ {i}] ELSE stale

\* UpsertInstance: inserts a missing row, and synced_at becomes now.
Upsert(i, state) ==
    /\ row' = [row EXCEPT ![i] = state]
    /\ stale' = [s \in Syncs |-> stale[s] \ {i}]

\* SetInstanceState: an UPDATE, which finds nothing if the row is gone.
SetInstanceState(i, state) ==
    IF row[i] = "absent" THEN UNCHANGED <<row, stale>> ELSE Upsert(i, state)

\* DeleteInstance.
DeleteInstance(i) == row' = [row EXCEPT ![i] = "absent"] /\ UNCHANGED stale

\* A statement that fails; every caller logs or returns the error.
StatementFails == Use("faults") /\ UNCHANGED <<row, stale>>

-----------------------------------------------------------------------------
(* Oracle *)

\* Where an instance goes by itself.  A restart passes through STOPPING, a
\* launch may fail, and a terminated instance is listed for a while.
Onward(state) ==
    CASE state = "PROVISIONING" -> {"RUNNING", "TERMINATED"}
      [] state = "STARTING"     -> {"RUNNING"}
      [] state = "STOPPING"     -> {"STOPPED", "STARTING"}
      [] state = "TERMINATING"  -> {"TERMINATED"}
      [] state = "TERMINATED"   -> {"gone"}
      [] OTHER                  -> {}

\* Where a request takes an instance that is in the given state; none if
\* Oracle refuses it.
Effect(kind, state) ==
    CASE kind = "launch" /\ state = "none"       -> {"PROVISIONING"}
      [] kind = "action" /\ state = "RUNNING"    -> {"STOPPING"}
      [] kind = "action" /\ state = "STOPPED"    -> {"STARTING"}
      [] kind = "terminate" /\ state \notin Dead \cup {"none"} -> {"TERMINATING"}
      [] kind = "rename" /\ state \notin Dead \cup {"none"}    -> {state}
      [] kind = "reshape" /\ state = "RUNNING"   -> {"STOPPING"}
      [] kind = "reshape" /\ state = "STOPPED"   -> {"STOPPED"}
      [] OTHER                                   -> {}

Settle(i) ==
    /\ \E to \in Onward(oracle[i]) : oracle' = [oracle EXCEPT ![i] = to]
    /\ UNCHANGED <<row, stale, sync, op, watching, loop, used>>

\* A request in Oracle's own console.
Console(i) ==
    /\ Use("requests")
    /\ \E kind \in Kinds : \E to \in Effect(kind, oracle[i]) :
           oracle' = [oracle EXCEPT ![i] = to]
    /\ UNCHANGED <<row, stale, sync, op, watching, loop>>

-----------------------------------------------------------------------------
(* A pass of the synchronisation *)

\* startedAt.  SyncAll repeats by itself, SyncAccount is a request.  synced_at
\* counts seconds: a row written in the very second of startedAt is spared until
\* the next pass; here it counts as stale, which deletes more.
PassBegins(s) ==
    /\ sync[s].at = "idle"
    /\ sync' = [sync EXCEPT ![s].at = "list"]
    /\ stale' = [stale EXCEPT ![s] = {i \in Instances : row[i] # "absent"}]
    /\ IF s = All THEN UNCHANGED used ELSE Use("requests")
    /\ UNCHANGED <<oracle, row, op, watching, loop>>

Listed == {i \in Instances : oracle[i] \in Stored}

\* ListInstances; network, boot volume and image are looked up after it.
PassLists(s) ==
    /\ sync[s].at = "list"
    /\ sync' = [sync EXCEPT ![s] =
           [at |-> "write", todo |-> Listed,
            seen |-> [i \in Instances |-> IF i \in Listed THEN oracle[i] ELSE "absent"]]]
    /\ UNCHANGED <<oracle, row, stale, op, watching, loop, used>>

\* UpsertInstance of one listed instance; one that fails is skipped.
PassWrites(s, i) ==
    /\ i \in sync[s].todo
    /\ sync' = [sync EXCEPT ![s].todo = @ \ {i}, ![s].seen[i] = "absent"]
    /\ \/ Upsert(i, sync[s].seen[i]) /\ UNCHANGED used
       \/ StatementFails
    /\ UNCHANGED <<oracle, op, watching, loop>>

PassEnds(s) ==
    /\ sync' = [sync EXCEPT ![s] = NoPass]
    /\ stale' = [stale EXCEPT ![s] = {}]

\* PruneStaleInstances ends the pass.
PassPrunes(s) ==
    /\ sync[s].at = "write" /\ sync[s].todo = {}
    /\ \/ /\ row' = [i \in Instances |-> IF i \in stale[s] THEN "absent" ELSE row[i]]
          /\ UNCHANGED used
       \/ Use("faults") /\ UNCHANGED row
    /\ PassEnds(s)
    /\ UNCHANGED <<oracle, op, watching, loop>>

\* The list fails, or the context of the pass expires, after which no statement
\* of the pass succeeds, the pruning included.
PassAborts(s) ==
    /\ sync[s].at # "idle" /\ Use("faults")
    /\ PassEnds(s)
    /\ UNCHANGED <<oracle, row, op, watching, loop>>

-----------------------------------------------------------------------------
(* Watch *)

\* go s.watchLoop, in the first of the two places that is free.
StartLoop(i) ==
    LET n == IF loop[<<i, 1>>].at = "off" THEN 1 ELSE 2
    IN  loop' = [loop EXCEPT ![<<i, n>>] = [NoLoop EXCEPT !.at = "tick"]]

\* Mutant: the map is filled but not looked at.
WatchUnchecked(i) == watching' = watching \cup {i} /\ StartLoop(i)

\* Watch: nothing happens if the instance is being watched.
Watch(i) ==
    IF i \in watching THEN UNCHANGED <<watching, loop>>
    ELSE watching' = watching \cup {i} /\ StartLoop(i)

Loop(g, at, cached, got, left) ==
    loop' = [loop EXCEPT ![g] = [at |-> at, cached |-> cached, got |-> got, left |-> left]]

\* The ticker: the cached row is read; a missing one ends the loop.
LoopReads(g) ==
    /\ loop[g].at = "tick"
    /\ Loop(g, IF row[g[1]] = "absent" THEN "exit" ELSE "ask", row[g[1]], "none", 0)
    /\ UNCHANGED <<oracle, row, stale, sync, op, watching, used>>

\* No connection to the account, or fifteen minutes are over.
LoopGivesUp(g) ==
    /\ loop[g].at = "tick"
    /\ Loop(g, "exit", "absent", "none", 0)
    /\ UNCHANGED <<oracle, row, stale, sync, op, watching, used>>

\* GetInstance at Oracle; "gone" is a 404.
LoopAsks(g) ==
    /\ loop[g].at = "ask"
    /\ Loop(g, "apply", loop[g].cached, oracle[g[1]], 0)
    /\ UNCHANGED <<oracle, row, stale, sync, op, watching, used>>

\* Any other error: the next tick asks again.
LoopGetsNoAnswer(g) ==
    /\ loop[g].at = "ask"
    /\ Loop(g, "tick", "absent", "none", 0)
    /\ UNCHANGED <<oracle, row, stale, sync, op, watching, used>>

\* An answer that differs from the cached row is written, a dead instance loses
\* its row, and a settled one is refreshed.  A failing statement is logged.
LoopApplies(g) ==
    LET i == g[1]
        l == loop[g]
    IN  /\ l.at = "apply"
        /\ IF l.got = l.cached THEN
               /\ Loop(g, "tick", "absent", "none", 0)
               /\ UNCHANGED <<row, stale, used>>
           ELSE
               /\ CASE l.got \in Dead         -> Loop(g, "exit", "absent", "none", 0)
                    [] l.got \in Transitional -> Loop(g, "tick", "absent", "none", 0)
                    [] OTHER                  -> Loop(g, "refresh", "absent", "none", 2)
               /\ \/ /\ IF l.got \in Dead THEN DeleteInstance(i) ELSE SetInstanceState(i, l.got)
                     /\ UNCHANGED used
                  \/ StatementFails
        /\ UNCHANGED <<oracle, sync, op, watching>>

\* refreshNetwork, then refreshBootVolume: after its calls to Oracle each reads
\* the row once more; there may be nothing to write.
RefreshReads(g) ==
    /\ loop[g].at = "refresh"
    /\ IF loop[g].left = 0 \/ row[g[1]] = "absent" THEN Loop(g, "exit", "absent", "none", 0)
       ELSE Loop(g, "upsert", row[g[1]], "none", loop[g].left - 1)
    /\ UNCHANGED <<oracle, row, stale, sync, op, watching, used>>

RefreshSkips(g) ==
    /\ loop[g].at = "refresh" /\ loop[g].left > 0
    /\ Loop(g, "refresh", "absent", "none", loop[g].left - 1)
    /\ UNCHANGED <<oracle, row, stale, sync, op, watching, used>>

\* The row that was read is written back whole.
RefreshWrites(g) ==
    /\ loop[g].at = "upsert"
    /\ Loop(g, "refresh", "absent", "none", loop[g].left)
    /\ \/ Upsert(g[1], loop[g].cached) /\ UNCHANGED used
       \/ StatementFails
    /\ UNCHANGED <<oracle, sync, op, watching>>

\* The deferred delete(s.watching, instanceID).
LoopEnds(g) ==
    /\ loop[g].at = "exit"
    /\ loop' = [loop EXCEPT ![g] = NoLoop]
    /\ watching' = watching \ {g[1]}
    /\ UNCHANGED <<oracle, row, stale, sync, op, used>>

-----------------------------------------------------------------------------
(* Lifecycle requests *)

\* The cached row is read and checked.  A launch has none yet.
OpBegins(c, kind, i) ==
    /\ op[c].at = "idle" /\ Use("requests")
    /\ IF kind = "launch" THEN oracle[i] = "none" ELSE row[i] # "absent"
    /\ kind \in {"action", "reshape"} => row[i] \notin Transitional
    /\ op' = [op EXCEPT ![c] = [at |-> "call", kind |-> kind, inst |-> i,
                                answer |-> IF kind = "rename" THEN row[i] ELSE "absent"]]
    /\ UNCHANGED <<oracle, row, stale, sync, watching, loop>>

\* What the row is to say: Terminate does not look at the answer, Rename keeps
\* the state it has read, the others take the answer, which for a restarting
\* instance may still be the old state.
Answers(c, to) ==
    CASE op[c].kind = "rename"  -> {op[c].answer}
      [] op[c].kind = "reshape" -> {to, oracle[op[c].inst]}
      [] OTHER                  -> {to}

\* The call to Oracle takes effect; its answer may get lost.
OpCalls(c) ==
    LET i == op[c].inst
    IN  /\ op[c].at = "call"
        /\ \E to \in Effect(op[c].kind, oracle[i]) :
              /\ oracle' = [oracle EXCEPT ![i] = to]
              /\ \/ /\ \E answer \in Answers(c, to) :
                           op' = [op EXCEPT ![c].at = "write", ![c].answer = answer]
                    /\ UNCHANGED used
                 \/ op' = [op EXCEPT ![c] = NoOp] /\ Use("faults")
        /\ UNCHANGED <<row, stale, sync, watching, loop>>

\* Oracle refuses: recordFailure writes last_error only.
OpRefused(c) ==
    /\ op[c].at = "call"
    /\ op' = [op EXCEPT ![c] = NoOp]
    /\ UNCHANGED <<oracle, row, stale, sync, watching, loop, used>>

\* Action and Terminate set the state and go on if that fails; the others
\* upsert the row they have read and return if it fails.
OpWrites(c) ==
    LET i == op[c].inst
        next == IF op[c].kind = "rename" THEN NoOp
                ELSE [op[c] EXCEPT !.at = "watch", !.answer = "absent"]
    IN  /\ op[c].at = "write"
        /\ IF op[c].kind \in {"action", "terminate"}
           THEN /\ op' = [op EXCEPT ![c] = next]
                /\ \/ SetInstanceState(i, op[c].answer) /\ UNCHANGED used
                   \/ StatementFails
           ELSE \/ Upsert(i, op[c].answer) /\ UNCHANGED used /\ op' = [op EXCEPT ![c] = next]
                \/ StatementFails /\ op' = [op EXCEPT ![c] = NoOp]
        /\ UNCHANGED <<oracle, sync, watching, loop>>

\* Watch; a job then waits for the instance to settle, others end at once.
OpWatches(c) ==
    /\ op[c].at = "watch"
    /\ Watch(op[c].inst)
    /\ op' = [op EXCEPT ![c].at = "wait"]
    /\ UNCHANGED <<oracle, row, stale, sync, used>>

\* waitInstanceSettled calls Watch again every three seconds ...
OpWatchesAgain(c) ==
    /\ op[c].at = "wait"
    /\ Watch(op[c].inst)
    /\ UNCHANGED <<oracle, row, stale, sync, op, used>>

\* ... until the row is settled or gone, or the job's time is over.
OpEnds(c) ==
    /\ op[c].at = "wait"
    /\ op' = [op EXCEPT ![c] = NoOp]
    /\ UNCHANGED <<oracle, row, stale, sync, watching, loop, used>>

-----------------------------------------------------------------------------
\* The process dies; at the next start ResumeWatches starts a loop for every
\* row in a transitional state, before the first request is served.
Restart ==
    /\ Use("crashes")
    /\ sync' = [s \in Syncs |-> NoPass]
    /\ op' = [c \in Callers |-> NoOp]
    /\ watching' = {i \in Instances : row[i] \in Transitional}
    /\ loop' = [g \in Loops |-> IF g[2] = 1 /\ row[g[1]] \in Transitional
                                THEN [NoLoop EXCEPT !.at = "tick"] ELSE NoLoop]
    /\ stale' = [s \in Syncs |-> {}]
    /\ UNCHANGED <<oracle, row>>

PassStep(s) ==
    \/ PassLists(s)
    \/ \E i \in Instances : PassWrites(s, i)
    \/ PassPrunes(s)

LoopStep(g) ==
    \/ LoopReads(g)
    \/ LoopAsks(g)
    \/ LoopApplies(g)
    \/ RefreshReads(g)
    \/ RefreshWrites(g)
    \/ LoopEnds(g)

OpStep(c) == OpCalls(c) \/ OpRefused(c) \/ OpWrites(c) \/ OpWatches(c) \/ OpEnds(c)

Next ==
    \/ \E i \in Instances : Settle(i) \/ Console(i)
    \/ \E s \in Syncs : PassBegins(s) \/ PassStep(s) \/ PassAborts(s)
    \/ \E g \in Loops : LoopStep(g) \/ LoopGivesUp(g) \/ LoopGetsNoAnswer(g) \/ RefreshSkips(g)
    \/ \E c \in Callers :
          \/ \E kind \in Kinds, i \in Instances : OpBegins(c, kind, i)
          \/ OpStep(c) \/ OpWatchesAgain(c)
    \/ Restart

Spec == Init /\ [][Next]_vars

\* StartBackgroundSync repeats SyncAll for ever, goroutines are scheduled, calls
\* return, and Oracle finishes what it has begun.  SyncAccount runs on request.
Fairness ==
    /\ WF_vars(PassBegins(All))
    /\ \A s \in Syncs : WF_vars(PassStep(s))
    /\ \A g \in Loops : WF_vars(LoopStep(g))
    /\ \A c \in Callers : WF_vars(OpStep(c))
    /\ \A i \in Instances : WF_vars(Settle(i))

FairSpec == Spec /\ Fairness

-----------------------------------------------------------------------------
(* Properties *)

Passes == [at : {"idle", "list", "write"}, seen : [Instances -> RowStates], todo : SUBSET Instances]
Ops == [at : {"idle", "call", "write", "watch", "wait"}, kind : Kinds \cup {"none"},
        inst : Instances \cup {"none"}, answer : RowStates]
LoopRecords == [at : {"off", "tick", "ask", "apply", "refresh", "upsert", "exit"},
                cached : RowStates, got : OracleStates, left : 0..2]

TypeOK ==
    /\ oracle \in [Instances -> OracleStates]
    /\ row \in [Instances -> RowStates]
    /\ stale \in [Syncs -> SUBSET Instances]
    /\ sync \in [Syncs -> Passes]
    /\ op \in [Callers -> Ops]
    /\ \A c \in Callers : op[c].at # "idle" => op[c].kind \in Kinds /\ op[c].inst \in Instances
    /\ watching \subseteq Instances
    /\ loop \in [Loops -> LoopRecords]
    /\ used \in [requests : Nat, faults : Nat, crashes : Nat]

\* An instance is polled by one loop at a time, and the map names exactly the
\* instances that have one (comment on Watch).
OneLoopPerInstance ==
    /\ \A i \in watching : \E n \in {1, 2} : loop[<<i, n>>].at # "off"
    /\ \A g, h \in Loops : loop[g].at # "off" /\ loop[h].at # "off" /\ g[1] = h[1] => g = h
    /\ \A g \in Loops : loop[g].at # "off" => g[1] \in watching

\* The row of an instance that lives at Oracle, and with it the user's note, is
\* never deleted unless a statement has failed: overlapping passes do not prune
\* each other's rows, nor that of a launch they have not listed.
LiveRowIsKept ==
    [][\A i \in Instances :
          row[i] # "absent" /\ row'[i] = "absent" /\ used.faults = 0 => oracle[i] \in Dead]_vars

\* Every writer of a row has heard of the instance, from Oracle or from a row.
RowsKnown  == \A i \in Instances : row[i] # "absent" => oracle[i] # "none"
PassKnows  == \A s \in Syncs : \A i \in sync[s].todo : oracle[i] # "none"
OpKnows    == \A c \in Callers : op[c].at \in {"write", "watch", "wait"} => oracle[op[c].inst] # "none"
LoopKnows  == \A g \in Loops :
    /\ loop[g].at # "off" => oracle[g[1]] # "none"
    /\ loop[g].at = "apply" => loop[g].got # "none"

\* What a loop takes for dead is dead for good.
DeadIsDead == \A g \in Loops : loop[g].at = "apply" /\ loop[g].got \in Dead => oracle[g[1]] \in Dead

\* A live instance whose row is stale was there when the pass listed.
LiveIsListed == \A s \in Syncs, i \in Instances :
    used.faults = 0 /\ sync[s].at = "write" /\ i \in stale[s] /\ row[i] # "absent"
        => i \in sync[s].todo \/ oracle[i] \in Dead

\* Why LiveRowIsKept holds (syncAccountRegion, watchLoop): what was read may be
\* old when it is written, but what is deleted is dead or was never listed.
CacheInv == RowsKnown /\ PassKnows /\ OpKnows /\ LoopKnows /\ DeadIsDead /\ LiveIsListed

Agrees(i) ==
    IF oracle[i] \in {"none", "gone"} THEN row[i] = "absent" ELSE row[i] = oracle[i]

\* When the requests have ended the cache agrees with Oracle for good, although
\* every writer may write something old and loops are lost.
CacheConverges == <>[](\A i \in Instances : Agrees(i))
=============================================================================
