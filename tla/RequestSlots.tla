---------------------------- MODULE RequestSlots -----------------------------
(***************************************************************************)
(* The limits on requests to Oracle (ociclient/limiter.go and the retry    *)
(* loop of client.go): a request takes a slot of all accounts, then one of *)
(* its client, holds both while it is at Oracle, and gives both back before*)
(* it waits for its retry.  Its context may end at any moment.             *)
(*                                                                         *)
(* A client is built for an account and built again after its key was      *)
(* changed (ociconn/factory.go), with slots of its own; requests under way *)
(* keep the client they began with.  A client is its account and a number. *)
(***************************************************************************)
EXTENDS Naturals, FiniteSets

CONSTANTS Requests, Accounts,
          NoClient,
          Global, PerTenancy,    \* the capacities of the two channels
          MaxRetries,
          MaxBuilds              \* bound on the clients built again

VARIABLES
  built,     \* how often the client of an account was built again
  via,       \* the client a request uses
  place,     \* where a request stands
  attempt,
  canceled,  \* requests whose context has ended
  global,    \* how full limiter.global is
  tenancy    \* how full the tenancySlots of each client are

vars == <<built, via, place, attempt, canceled, global, tenancy>>

Clients == Accounts \X (0 .. MaxBuilds)
Places == {"new", "global", "tenancy", "sent", "freeing", "backoff", "ended"}

TypeOK ==
  /\ built \in [Accounts -> 0 .. MaxBuilds] /\ via \in [Requests -> Clients \union {NoClient}]
  /\ place \in [Requests -> Places] /\ attempt \in [Requests -> 0 .. MaxRetries]
  /\ canceled \subseteq Requests
  /\ global \in 0 .. Global /\ tenancy \in [Clients -> 0 .. PerTenancy]

Init ==
  /\ built = [a \in Accounts |-> 0] /\ via = [r \in Requests |-> NoClient]
  /\ place = [r \in Requests |-> "new"] /\ attempt = [r \in Requests |-> 0]
  /\ canceled = {}
  /\ global = 0 /\ tenancy = [c \in Clients |-> 0]

Goto(r, where) == place' = [place EXCEPT ![r] = where]

\* For: a request gets the client of the moment.
Do(r, a) ==
  /\ place[r] = "new"
  /\ Goto(r, "global") /\ via' = [via EXCEPT ![r] = <<a, built[a]>>]
  /\ UNCHANGED <<built, attempt, canceled, global, tenancy>>

\* After a failed attempt: no retry is left, the context has ended, or backoff.
FailedGoesTo(r) ==
  IF attempt[r] = MaxRetries \/ r \in canceled THEN "ended" ELSE "backoff"

\* acquireSlots.  A channel with room may win against a context that has ended.
TakeGlobal(r) ==
  /\ place[r] = "global" /\ global < Global
  /\ global' = global + 1 /\ Goto(r, "tenancy")
  /\ UNCHANGED <<built, via, attempt, canceled, tenancy>>

TakeTenancy(r) ==
  /\ place[r] = "tenancy" /\ tenancy[via[r]] < PerTenancy
  /\ tenancy' = [tenancy EXCEPT ![via[r]] = @ + 1] /\ Goto(r, "sent")
  /\ UNCHANGED <<built, via, attempt, canceled, global>>

LeaveGlobalQueue(r) ==
  /\ place[r] = "global" /\ r \in canceled
  /\ Goto(r, FailedGoesTo(r))
  /\ UNCHANGED <<built, via, attempt, canceled, global, tenancy>>

\* Mutant: the slot of all accounts is kept when the second one is not taken.
LeaveTenancyQueueHolding(r) ==
  /\ place[r] = "tenancy" /\ r \in canceled
  /\ Goto(r, FailedGoesTo(r))
  /\ UNCHANGED <<built, via, attempt, canceled, global, tenancy>>

LeaveTenancyQueue(r) ==
  /\ place[r] = "tenancy" /\ r \in canceled
  /\ global' = global - 1 /\ Goto(r, FailedGoesTo(r))
  /\ UNCHANGED <<built, via, attempt, canceled, tenancy>>

\* The deferred release, in its two receives; the answer may call for a retry.
FreeTenancy(r) ==
  /\ place[r] = "sent"
  /\ tenancy' = [tenancy EXCEPT ![via[r]] = @ - 1] /\ Goto(r, "freeing")
  /\ UNCHANGED <<built, via, attempt, canceled, global>>

FreeGlobal(r) ==
  /\ place[r] = "freeing"
  /\ global' = global - 1
  /\ \E next \in {"ended", FailedGoesTo(r)} : Goto(r, next)
  /\ UNCHANGED <<built, via, attempt, canceled, tenancy>>

\* doTarget: the wait is over, or the context.
Retry(r) ==
  /\ place[r] = "backoff"
  /\ attempt' = [attempt EXCEPT ![r] = @ + 1] /\ Goto(r, "global")
  /\ UNCHANGED <<built, via, canceled, global, tenancy>>

StopWaiting(r) ==
  /\ place[r] = "backoff" /\ r \in canceled
  /\ Goto(r, "ended")
  /\ UNCHANGED <<built, via, attempt, canceled, global, tenancy>>

ContextEnds(r) ==
  /\ place[r] \notin {"new", "ended"} /\ r \notin canceled
  /\ canceled' = canceled \union {r}
  /\ UNCHANGED <<built, via, place, attempt, global, tenancy>>

\* The key of an account was changed, and somebody asks for its client.
Rebuild(a) ==
  /\ built[a] < MaxBuilds
  /\ built' = [built EXCEPT ![a] = @ + 1]
  /\ UNCHANGED <<via, place, attempt, canceled, global, tenancy>>

Next ==
  \/ \E r \in Requests :
       \/ \E a \in Accounts : Do(r, a)
       \/ TakeGlobal(r) \/ TakeTenancy(r) \/ LeaveGlobalQueue(r) \/ LeaveTenancyQueue(r)
       \/ FreeTenancy(r) \/ FreeGlobal(r) \/ Retry(r) \/ StopWaiting(r) \/ ContextEnds(r)
  \/ \E a \in Accounts : Rebuild(a)

Spec == Init /\ [][Next]_vars

-----------------------------------------------------------------------------
At(places) == {r \in Requests : place[r] \in places}
AtOracle(c) == {r \in At({"sent"}) : via[r] = c}
MayTake == {r \in At({"tenancy"}) : tenancy[via[r]] < PerTenancy}

\* "更要紧的是两级顺序不一致时会形成环路等待": nobody waits in a circle or for a
\* slot that was lost.  Who finds a channel full waits, in the end, for a request
\* that is at Oracle, gives its slots back or may go on, whatever was canceled,
\* repeated or rebuilt meanwhile; and Oracle sees no more requests than allowed.
WaitersAwaitOracle ==
  /\ Cardinality(At({"sent"})) <= Global
  /\ \A r \in At({"global"}) :
       global = Global => At({"sent", "freeing"}) # {} \/ MayTake # {}
  /\ \A r \in At({"tenancy"}) : r \in MayTake \/ AtOracle(via[r]) # {}

\* "每租户 6": the limit of a tenancy.  The code breaks it for as long as requests
\* of the client before the change of the key are under way.
TenancyIsLimited ==
  \A a \in Accounts :
    Cardinality({r \in At({"sent"}) : via[r][1] = a}) <= PerTenancy
==============================================================================
