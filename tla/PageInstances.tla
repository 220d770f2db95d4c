---------------------------- MODULE PageInstances ----------------------------
(***************************************************************************)
(* The rows of the instance list on an open page (store/index.ts): what    *)
(* the stream of events does to them, the answers to a row's own requests, *)
(* and loadInstances, which replaces every row by a new object and copies  *)
(* only the marks of the moment (busy, settledAt) over.                    *)
(*                                                                         *)
(* A request that captured a row before its await holds an object that a   *)
(* reload detaches from the list: what it writes afterwards is seen by     *)
(* nobody.  Texts, error marks and the network of a row are left out but   *)
(* for its address, a version number that the server raises.  Events are   *)
(* not lost here: PageJobs is about that.                                  *)
(***************************************************************************)
EXTENDS Naturals, Sequences, FiniteSets

CONSTANTS Instances,
          MaxChanges,   \* bound on what happens at the server
          MaxReads,     \* bound on reads of the list that nothing forces
          MaxRequests   \* bound on requests of the user

VARIABLES
  cached,     \* the server's rows: state and address, or Absent
  syncJob,    \* the server synchronises
  changes,    \* what happened at the server so far
  stream,     \* events published and not yet handled
  handled,    \* number of events handled (history)
  reads,      \* reads of the list asked for and not yet served
  extra,      \* reads so far that nothing forced
  requests,   \* requests of the user so far
  answers,    \* answers the page has not yet handled
  rows,       \* state.instances
  syncing,    \* state.syncing
  soon,       \* refreshSoonTimer is set
  timers,     \* instances with a pending timer that ends the highlight
  late        \* a list was applied that an event had overtaken, a refused
              \* action rolled back over one, an accepted one wrote over the
              \* start of a termination, or a read failed (history)

serverVars == <<cached, syncJob, changes>>
vars == <<cached, syncJob, changes, stream, handled, reads, extra, requests, answers,
          rows, syncing, soon, timers, late>>

Stable == {"RUNNING", "STOPPED"}
Transitional == {"PROVISIONING", "STARTING", "STOPPING", "TERMINATING"}
isTransitional(s) == s \in Transitional

\* A row that is not there, at the server and on the page.
Absent == [state |-> "absent", ip |-> 0]
NoRow == [state |-> "absent", ip |-> 0, busy |-> FALSE, settled |-> FALSE]

CachedRow == [state : Stable \union Transitional, ip : Nat]
Row == [state : Stable \union Transitional, ip : Nat, busy : BOOLEAN, settled : BOOLEAN]

Event == [type : {"updated"}, id : Instances, state : Stable \union Transitional \union {""}]
           \union [type : {"removed", "error"}, id : Instances]
           \union [type : {"changedIp"}, id : Instances, ip : Nat]
           \union [type : {"syncStarted", "syncFinished", "syncFailed"}]

Answer == [kind : {"list"}, rows : [Instances -> CachedRow \union {Absent}], syncing : BOOLEAN,
           at : Nat]
            \union [kind : {"action"}, id : Instances, attached : BOOLEAN, failed : BOOLEAN,
                    previous : Stable, state : Transitional]
            \union [kind : {"terminate"}, id : Instances, attached : BOOLEAN]

TypeOK ==
  /\ cached \in [Instances -> CachedRow \union {Absent}] /\ syncJob \in BOOLEAN
  /\ stream \in Seq(Event) /\ {changes, handled, reads, extra, requests} \subseteq Nat
  /\ answers \subseteq Answer
  /\ rows \in [Instances -> Row \union {NoRow}]
  /\ {syncing, soon, late} \subseteq BOOLEAN /\ timers \subseteq Instances

\* A page that has loaded its list and opened its stream.
Init ==
  /\ cached \in [Instances -> {Absent} \union [state : Stable, ip : {0}]]
  /\ rows = [i \in Instances |->
               IF cached[i] = Absent THEN NoRow
               ELSE [state |-> cached[i].state, ip |-> 0, busy |-> FALSE, settled |-> FALSE]]
  /\ syncJob = FALSE /\ syncing = FALSE /\ stream = <<>> /\ answers = {}
  /\ changes = 0 /\ handled = 0 /\ reads = 0 /\ extra = 0 /\ requests = 0
  /\ soon = FALSE /\ timers = {} /\ late = FALSE

-----------------------------------------------------------------------------
(* The server: instancesvc writes the cached row, then publishes. *)

Change(event) ==
  /\ changes < MaxChanges
  /\ changes' = changes + 1
  /\ stream' = Append(stream, event)

Updated(i, s) == [type |-> "updated", id |-> i, state |-> s]

\* launch, and the passes that find an instance of the cloud.
Appear(i) ==
  /\ cached[i] = Absent
  /\ cached' = [cached EXCEPT ![i] = [state |-> "PROVISIONING", ip |-> 0]]
  /\ Change(Updated(i, "PROVISIONING"))
  /\ UNCHANGED <<syncJob, handled, reads, extra, requests, answers, rows, syncing, soon,
                 timers, late>>

\* Another page, or a bulk action, starts an operation.  A termination is
\* accepted in any state; its job may have waited while others went on.
ElsewhereActs(i) ==
  /\ cached[i] # Absent
  /\ \E s \in {"STOPPING", "STARTING", "TERMINATING"} :
       /\ \/ s = "STOPPING" /\ cached[i].state = "RUNNING"
          \/ s = "STARTING" /\ cached[i].state = "STOPPED"
          \/ s = "TERMINATING" /\ cached[i].state # "TERMINATING"
       /\ cached' = [cached EXCEPT ![i].state = s]
       /\ Change(Updated(i, s))
  /\ UNCHANGED <<syncJob, handled, reads, extra, requests, answers, rows, syncing, soon,
                 timers, late>>

\* The watch loop sees the operation settle.
Settle(i) ==
  /\ cached[i] # Absent /\ isTransitional(cached[i].state)
  /\ IF cached[i].state = "TERMINATING"
     THEN cached' = [cached EXCEPT ![i] = Absent] /\ Change([type |-> "removed", id |-> i])
     ELSE LET s == IF cached[i].state = "STOPPING" THEN "STOPPED" ELSE "RUNNING"
          IN cached' = [cached EXCEPT ![i].state = s] /\ Change(Updated(i, s))
  /\ UNCHANGED <<syncJob, handled, reads, extra, requests, answers, rows, syncing, soon,
                 timers, late>>

\* refreshNetwork and its like: another column of the row is completed, and
\* an event follows, with the row's state or with none.
Complete(i) ==
  /\ cached[i] # Absent
  /\ cached' = [cached EXCEPT ![i].ip = @ + 1]
  /\ \E s \in {"", cached[i].state} : Change(Updated(i, s))
  /\ UNCHANGED <<syncJob, handled, reads, extra, requests, answers, rows, syncing, soon,
                 timers, late>>

\* The job that changes the address of an instance ends.
ChangeIpEnds(i) ==
  /\ cached[i] # Absent
  /\ cached' = [cached EXCEPT ![i].ip = @ + 1]
  /\ Change([type |-> "changedIp", id |-> i, ip |-> cached[i].ip + 1])
  /\ UNCHANGED <<syncJob, handled, reads, extra, requests, answers, rows, syncing, soon,
                 timers, late>>

\* recordFailure: Oracle refused an operation, or the watch gave up.
RecordFailure(i) ==
  /\ cached[i] # Absent
  /\ Change([type |-> "error", id |-> i])
  /\ UNCHANGED <<cached, syncJob, handled, reads, extra, requests, answers, rows, syncing,
                 soon, timers, late>>

\* A pass of synchronisation, and its end; a job that fails before the pass
\* ends publishes no end of the pass, only its own.
SyncBegins ==
  /\ ~syncJob
  /\ syncJob' = TRUE
  /\ Change([type |-> "syncStarted"])
  /\ UNCHANGED <<cached, handled, reads, extra, requests, answers, rows, syncing, soon,
                 timers, late>>

SyncEnds ==
  /\ syncJob
  /\ syncJob' = FALSE
  /\ \E t \in {"syncFinished", "syncFailed"} : stream' = Append(stream, [type |-> t])
  /\ UNCHANGED <<cached, changes, handled, reads, extra, requests, answers, rows, syncing,
                 soon, timers, late>>

ServeList ==
  /\ reads > 0
  /\ reads' = reads - 1
  /\ answers' = answers \union {[kind |-> "list", rows |-> cached, syncing |-> syncJob,
                                 at |-> handled + Len(stream)]}
  /\ UNCHANGED <<serverVars, stream, handled, extra, requests, rows, syncing, soon, timers, late>>

-----------------------------------------------------------------------------
(* Requests of the user *)

\* A row's buttons are disabled while it is in transition; busy only spins.
Offered(i) ==
  /\ rows[i] # NoRow /\ ~isTransitional(rows[i].state)
  /\ requests < MaxRequests

\* runAction up to its await; the server accepts the operation and answers
\* with the transitional state, or refuses it.
RunAction(i) ==
  /\ Offered(i)
  /\ requests' = requests + 1
  /\ rows' = [rows EXCEPT ![i].busy = TRUE]
  /\ LET s == IF rows[i].state = "RUNNING" THEN "STOPPING" ELSE "STARTING"
         answer(failed) == [kind |-> "action", id |-> i, attached |-> TRUE, failed |-> failed,
                            previous |-> rows[i].state, state |-> s]
     IN \/ /\ cached[i] # Absent /\ ~isTransitional(cached[i].state)
           /\ cached' = [cached EXCEPT ![i].state = s]
           /\ stream' = Append(stream, Updated(i, s))
           /\ answers' = answers \union {answer(FALSE)}
        \/ /\ answers' = answers \union {answer(TRUE)}
           /\ UNCHANGED <<cached, stream>>
  /\ UNCHANGED <<syncJob, changes, handled, reads, extra, syncing, soon, timers, late>>

\* terminate: a job is accepted, the page writes no state of its own.
Terminate(i) ==
  /\ Offered(i)
  /\ requests' = requests + 1
  /\ rows' = [rows EXCEPT ![i].busy = TRUE]
  /\ answers' = answers \union {[kind |-> "terminate", id |-> i, attached |-> TRUE]}
  /\ \/ /\ cached[i] # Absent
        /\ cached' = [cached EXCEPT ![i].state = "TERMINATING"]
        /\ stream' = Append(stream, Updated(i, "TERMINATING"))
     \/ UNCHANGED <<cached, stream>>
  /\ UNCHANGED <<syncJob, changes, handled, reads, extra, syncing, soon, timers, late>>

\* The end of runAction: it writes to the row it captured.
EndAction(a) ==
  /\ a \in answers /\ a.kind = "action"
  /\ answers' = answers \ {a}
  /\ rows' = IF a.attached
             THEN [rows EXCEPT ![a.id].busy = FALSE,
                               ![a.id].state = IF a.failed THEN a.previous ELSE a.state]
             ELSE rows
  /\ late' = (late \/ (a.attached /\ IF a.failed THEN rows[a.id].state # a.previous
                                     ELSE rows[a.id].state = "TERMINATING"))
  /\ UNCHANGED <<serverVars, stream, handled, reads, extra, requests, syncing, soon, timers>>

EndTerminate(a) ==
  /\ a \in answers /\ a.kind = "terminate"
  /\ answers' = answers \ {a}
  /\ rows' = IF a.attached THEN [rows EXCEPT ![a.id].busy = FALSE] ELSE rows
  /\ UNCHANGED <<serverVars, stream, handled, reads, extra, requests, syncing, soon, timers, late>>

\* syncNow: nothing while a synchronisation is shown; the job begins, or the
\* request is refused and the mark taken back.
SyncNow ==
  /\ ~syncing /\ requests < MaxRequests
  /\ requests' = requests + 1
  /\ \/ ~syncJob /\ syncing' = TRUE /\ syncJob' = TRUE
           /\ stream' = Append(stream, [type |-> "syncStarted"])
     \/ UNCHANGED <<syncing, syncJob, stream>>
  /\ UNCHANGED <<cached, changes, handled, reads, extra, answers, rows, soon, timers, late>>

\* refreshInstances, asked for by a view.
Refresh ==
  /\ extra < MaxReads
  /\ extra' = extra + 1
  /\ reads' = reads + 1
  /\ UNCHANGED <<serverVars, stream, handled, requests, answers, rows, syncing, soon, timers, late>>

-----------------------------------------------------------------------------
(* What the page does with answers, events and timers *)

\* The requests in flight hold rows that are no longer in the list.
Detach(set, ids) ==
  {IF a.kind # "list" /\ a.id \in ids THEN [a EXCEPT !.attached = FALSE] ELSE a : a \in set}

\* Mutant: a row that is new to the list is highlighted without a timer.
ReloadedSettled(i, row) ==
  IF row = Absent THEN NoRow
  ELSE [state |-> row.state, ip |-> row.ip,
        busy |-> rows[i] # NoRow /\ rows[i].busy,
        settled |-> rows[i] = NoRow \/ rows[i].settled]

\* loadInstances: new objects, with the marks of the old ones.
Reloaded(i, row) ==
  IF row = Absent THEN NoRow
  ELSE [state |-> row.state, ip |-> row.ip,
        busy |-> rows[i] # NoRow /\ rows[i].busy,
        settled |-> rows[i] # NoRow /\ rows[i].settled]

LoadInstances(a) ==
  /\ a \in answers /\ a.kind = "list"
  /\ answers' = Detach(answers \ {a}, Instances)
  /\ rows' = [i \in Instances |-> Reloaded(i, a.rows[i])]
  /\ syncing' = a.syncing
  /\ late' = (late \/ a.at < handled)
  /\ UNCHANGED <<serverVars, stream, handled, reads, extra, requests, soon, timers>>

ListFails(a) ==
  /\ a \in answers /\ a.kind = "list"
  /\ answers' = answers \ {a}
  /\ late' = TRUE
  /\ UNCHANGED <<serverVars, stream, handled, reads, extra, requests, rows, syncing, soon, timers>>

\* Mutant: an event that changes no state asks for nothing.
ApplyUpdateOnly(i, s) ==
  LET previous == rows[i].state
      next == IF s = "" THEN previous ELSE s
      lands == isTransitional(previous) /\ ~isTransitional(next)
  IN /\ rows' = [rows EXCEPT ![i].state = next, ![i].busy = FALSE,
                             ![i].settled = @ \/ lands]
     /\ timers' = IF lands THEN timers \union {i} ELSE timers
     /\ reads' = IF lands THEN reads + 1 ELSE reads
     /\ UNCHANGED soon

\* instance.updated for a row of the list.
ApplyUpdate(i, s) ==
  LET previous == rows[i].state
      next == IF s = "" THEN previous ELSE s
      lands == isTransitional(previous) /\ ~isTransitional(next)
  IN /\ rows' = [rows EXCEPT ![i].state = next, ![i].busy = FALSE,
                             ![i].settled = @ \/ lands]
     /\ timers' = IF lands THEN timers \union {i} ELSE timers
     /\ reads' = IF lands THEN reads + 1 ELSE reads
     /\ soon' = (soon \/ (~lands /\ previous = next))

\* applyEvent, for everything but job.updated and the notices of a network.
ApplyEvent ==
  /\ stream # <<>>
  /\ stream' = Tail(stream)
  /\ handled' = handled + 1
  /\ LET e == Head(stream) IN
     \/ /\ e.type = "updated" /\ rows[e.id] = NoRow
        /\ reads' = reads + 1
        /\ UNCHANGED <<answers, rows, syncing, soon, timers>>
     \/ /\ e.type = "updated" /\ rows[e.id] # NoRow
        /\ ApplyUpdate(e.id, e.state)
        /\ UNCHANGED <<answers, syncing>>
     \/ /\ e.type = "removed"
        /\ rows' = [rows EXCEPT ![e.id] = NoRow]
        /\ answers' = Detach(answers, {e.id})
        /\ UNCHANGED <<reads, syncing, soon, timers>>
     \/ /\ e.type = "error"
        /\ rows' = IF rows[e.id] = NoRow THEN rows ELSE [rows EXCEPT ![e.id].busy = FALSE]
        /\ UNCHANGED <<answers, reads, syncing, soon, timers>>
     \/ \* finishJob: refreshInstances, then markIpChanged
        /\ e.type = "changedIp"
        /\ reads' = reads + 1
        /\ rows' = IF rows[e.id] = NoRow THEN rows ELSE [rows EXCEPT ![e.id].ip = e.ip]
        /\ UNCHANGED <<answers, syncing, soon, timers>>
     \/ /\ e.type = "syncStarted"
        /\ syncing' = TRUE
        /\ UNCHANGED <<answers, reads, rows, soon, timers>>
     \/ /\ e.type = "syncFinished"
        /\ syncing' = FALSE
        /\ reads' = reads + 1
        /\ UNCHANGED <<answers, rows, soon, timers>>
     \/ \* finishJob of a synchronisation that failed
        /\ e.type = "syncFailed"
        /\ reads' = reads + 1
        /\ UNCHANGED <<answers, rows, syncing, soon, timers>>
  /\ UNCHANGED <<serverVars, extra, requests, late>>

\* The timer of a highlight looks the row up by its id.
EndHighlight(i) ==
  /\ i \in timers
  /\ timers' = timers \ {i}
  /\ rows' = IF rows[i] = NoRow THEN rows ELSE [rows EXCEPT ![i].settled = FALSE]
  /\ UNCHANGED <<serverVars, stream, handled, reads, extra, requests, answers, syncing, soon, late>>

\* refreshInstancesSoon, when its timer fires.
RefreshSoon ==
  /\ soon
  /\ soon' = FALSE
  /\ reads' = reads + 1
  /\ UNCHANGED <<serverVars, stream, handled, extra, requests, answers, rows, syncing, timers, late>>

Next ==
  \/ \E i \in Instances : \/ Appear(i) \/ ElsewhereActs(i) \/ Settle(i) \/ Complete(i) \/ ChangeIpEnds(i)
                          \/ RecordFailure(i) \/ RunAction(i) \/ Terminate(i) \/ EndHighlight(i)
  \/ SyncBegins \/ SyncEnds \/ ServeList \/ SyncNow \/ Refresh \/ ApplyEvent \/ RefreshSoon
  \/ \E a \in answers : EndAction(a) \/ EndTerminate(a) \/ LoadInstances(a) \/ ListFails(a)

Spec == Init /\ [][Next]_vars

-----------------------------------------------------------------------------
(* Properties *)

\* A row is highlighted when it settles, and only until its timer fires,
\* whatever reloads, removals and other rows do in between: no highlight is
\* left without a timer that will find it.
HighlightEnds == \A i \in Instances : rows[i] # NoRow /\ rows[i].settled => i \in timers

\* Nothing is on its way to the page.
Quiet == stream = <<>> /\ answers = {} /\ reads = 0 /\ ~soon

\* The page asks for the list again whenever an event does not carry all that
\* changed: when everything is handled and no list and no refusal came that an
\* event had overtaken, its rows, their addresses and the mark of synchronisation are
\* the server's.  An action that was refused is rolled back to the state the
\* row had before it.
PageCatchesUp ==
  Quiet /\ ~late =>
    /\ syncing = syncJob
    /\ \A i \in Instances :
         IF cached[i] = Absent THEN rows[i] = NoRow
         ELSE rows[i] # NoRow /\ rows[i].state = cached[i].state /\ rows[i].ip = cached[i].ip

\* runAction's "后端受理后按钮 loading 结束": a row is busy only while a request
\* of its own is in flight.  The code breaks it: a reload copies the mark to a new
\* object, and the answer clears it on the old one.
BusyEnds ==
  \A i \in Instances : rows[i] # NoRow /\ rows[i].busy =>
    \E a \in answers : a.kind # "list" /\ a.id = i
=============================================================================
