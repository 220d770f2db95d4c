------------------------------- MODULE Panels -------------------------------
(***************************************************************************)
(* The panels of the console that load the data of whatever is selected:   *)
(* the monitoring tab of an instance, the billing detail and the egress    *)
(* of an account, the manual capacity probe, the network page, the list of *)
(* block volumes and the resources of an account.  Each counts its         *)
(* requests and drops an answer that is not to the latest one; they differ *)
(* in what a new selection clears, what asks again, and what a failure     *)
(* leaves on the screen.  A panel is the set of its traits:                *)
(*                                                                         *)
(*   selects      another account (or another filter) can be selected      *)
(*   toggles      selecting what is selected closes the panel              *)
(*   empties      the selection can be empty                               *)
(*   asksAtOnce   a selection asks for its data                            *)
(*   clears       a selection takes the old data off the panel             *)
(*   ranges       a second choice: hours, days, sizes, a region            *)
(*   asksOnRange  that choice asks again                                   *)
(*   resetsRange  a selection puts it back                                 *)
(*   clearsOnAsk  asking takes the old data off the panel                  *)
(*   clearsOnFail a failure takes the old data off the panel               *)
(*   showsPart    what failed is left out, the rest is shown               *)
(*   asksOnMount  the panel asks when its page appears                     *)
(*   tab          the panel can be hidden and asks when it comes back;     *)
(*   tabIfEmpty   only when it has no data yet                             *)
(***************************************************************************)
EXTENDS Naturals, FiniteSets

CONSTANTS Whos,       \* accounts, or the non-empty choices of the filters
          Ranges, FirstRange,
          Nothing,    \* no selection, no data
          MaxAsked    \* bound on the requests of a panel

ASSUME RangeAssumption == FirstRange \in Ranges
ASSUME NothingAssumption == Nothing \notin Whos /\ Nothing \notin Whos \X Ranges
ASSUME AskedAssumption == MaxAsked \in Nat

VARIABLES
  panel,    \* the traits of the panel at hand
  mounted,  \* the page has appeared and its first request was made
  open,     \* the tab of the panel is the one shown
  who,      \* the selection
  range,    \* the second choice
  seq,      \* number of the latest request
  asked,    \* requests without an answer
  latest,   \* what was selected or asked for last
  shown,    \* the key of the data on the panel
  loading,  \* the panel says that it loads
  failed    \* the latest request failed, or a part of it

vars == <<panel, mounted, open, who, range, seq, asked, latest, shown, loading, failed>>

Metrics   == {"ranges", "asksOnRange", "tabIfEmpty"}
Detail    == {"selects", "toggles", "asksAtOnce", "clears", "ranges", "asksOnRange",
              "clearsOnFail"}
Egress    == {"selects", "toggles", "asksAtOnce", "clears", "clearsOnFail"}
Probe     == {"selects", "clears", "ranges", "clearsOnAsk", "clearsOnFail"}
Network   == {"selects", "empties", "asksAtOnce", "showsPart", "asksOnMount"}
Volumes   == {"selects", "empties", "asksAtOnce", "showsPart", "asksOnMount", "tab"}
Resources == {"selects", "asksAtOnce", "clears", "ranges", "asksOnRange", "resetsRange",
              "clearsOnFail", "asksOnMount"}

AllPanels == {Metrics, Detail, Egress, Probe, Network, Volumes, Resources}
Keys == Whos \X Ranges
Has(trait) == trait \in panel

TypeOK ==
  /\ panel \in AllPanels /\ mounted \in BOOLEAN /\ open \in BOOLEAN
  /\ who \in Whos \union {Nothing} /\ range \in Ranges
  /\ seq \in Nat
  /\ asked \subseteq [seq : 1 .. seq, key : Keys]
  /\ latest \in Keys \union {Nothing}
  /\ shown \in Keys \union {Nothing}
  /\ loading \in BOOLEAN /\ failed \in BOOLEAN

Init ==
  /\ panel \in AllPanels
  /\ mounted = ~Has("asksOnMount")
  /\ open = ~Has("tabIfEmpty")
  /\ who \in IF Has("toggles") THEN {Nothing}
             ELSE IF Has("empties") THEN Whos \union {Nothing} ELSE Whos
  /\ range = FirstRange
  /\ seq = 0
  /\ asked = {}
  /\ latest = Nothing
  /\ shown = Nothing
  /\ loading = FALSE
  /\ failed = FALSE

-----------------------------------------------------------------------------
\* A request for what is selected: it overtakes every request before it.
Ask(w, r) ==
  /\ seq < MaxAsked
  /\ seq' = seq + 1
  /\ asked' = asked \union {[seq |-> seq + 1, key |-> <<w, r>>]}
  /\ latest' = <<w, r>>
  /\ loading' = TRUE
  /\ failed' = FALSE

\* An empty selection: what is under way is overtaken, nothing is asked.
Close ==
  /\ seq < MaxAsked
  /\ seq' = seq + 1
  /\ latest' = Nothing
  /\ loading' = FALSE
  /\ failed' = FALSE
  /\ shown' = Nothing
  /\ UNCHANGED asked

\* BillingView's rows: another account, or the same one to close the detail.
\* Elsewhere a change of the account or of the filters of the top bar.
Select ==
  /\ Has("selects")
  /\ \E w \in Whos \union {Nothing} :
       /\ w = Nothing => Has("empties") \/ Has("toggles")
       /\ w # who
       /\ who' = w
       /\ range' = IF Has("resetsRange") THEN FirstRange ELSE range
       /\ IF ~open THEN UNCHANGED <<seq, asked, latest, shown, loading, failed>>
          ELSE IF w = Nothing THEN Close
          ELSE /\ shown' = IF Has("clears") THEN Nothing ELSE shown
               /\ IF Has("asksAtOnce") THEN Ask(w, range')
                  ELSE /\ seq < MaxAsked
                       /\ seq' = seq + 1
                       /\ latest' = Nothing
                       /\ loading' = FALSE
                       /\ failed' = FALSE
                       /\ UNCHANGED asked
  /\ UNCHANGED <<panel, mounted, open>>

ChangeRange ==
  /\ Has("ranges") /\ open /\ who # Nothing
  /\ range' \in Ranges \ {range}
  /\ IF Has("asksOnRange") THEN Ask(who, range')
     ELSE UNCHANGED <<seq, asked, latest, loading, failed>>
  /\ UNCHANGED <<panel, mounted, open, who, shown>>

\* A load that asks whatever is selected now: the button, or the page itself.
Load ==
  /\ IF who = Nothing THEN Close
     ELSE /\ Ask(who, range)
          /\ shown' = IF Has("clearsOnAsk") THEN Nothing ELSE shown
  /\ UNCHANGED <<panel, who, range>>

Refresh ==
  /\ open /\ ~loading
  /\ who = Nothing => Has("empties")
  /\ Load
  /\ UNCHANGED <<mounted, open>>

Mounted ==
  /\ ~mounted /\ mounted' = TRUE
  /\ Load
  /\ UNCHANGED open

\* The tab of the panel is left, or shown again.
SwitchTab ==
  /\ Has("tab") \/ Has("tabIfEmpty")
  /\ open' = ~open
  /\ IF open' /\ (Has("tab") \/ shown = Nothing) THEN Load
     ELSE UNCHANGED <<panel, who, range, seq, asked, latest, shown, loading, failed>>
  /\ UNCHANGED mounted

\* Mutant: the answer that comes last is shown.
AnswerAny(q) ==
  /\ shown' = q.key
  /\ failed' \in {FALSE, Has("showsPart")}
  /\ loading' = FALSE
  /\ asked' = asked \ {q}
  /\ UNCHANGED <<panel, mounted, open, who, range, seq, latest>>

\* An answer: seq === metricsSeq, and so on.
Answer(q) ==
  /\ IF q.seq = seq
     THEN /\ shown' = q.key
          /\ failed' \in {FALSE, Has("showsPart")}
          /\ loading' = FALSE
     ELSE UNCHANGED <<shown, failed, loading>>
  /\ asked' = asked \ {q}
  /\ UNCHANGED <<panel, mounted, open, who, range, seq, latest>>

Fail(q) ==
  /\ ~Has("showsPart")
  /\ IF q.seq = seq
     THEN /\ shown' = IF Has("clearsOnFail") THEN Nothing ELSE shown
          /\ failed' = TRUE
          /\ loading' = FALSE
     ELSE UNCHANGED <<shown, failed, loading>>
  /\ asked' = asked \ {q}
  /\ UNCHANGED <<panel, mounted, open, who, range, seq, latest>>

Next ==
  \/ Select \/ ChangeRange \/ Refresh \/ Mounted \/ SwitchTab
  \/ \E q \in asked : Answer(q) \/ Fail(q)

Spec == Init /\ [][Next]_vars

-----------------------------------------------------------------------------
\* A panel that is not loading shows the data of what is selected, and of the
\* range chosen where a choice asks again and did not fail, however the
\* requests overtook each other ("卡片标题写着 B，数字却是 A 的").
SettledIsCurrent ==
  open /\ ~loading /\ shown # Nothing
    => /\ shown[1] = who
       /\ Has("asksOnRange") /\ ~failed => shown[2] = range

\* Where data are acted upon (resources are deleted, a watch is created from
\* a probe) or stand under a title of their own, they are never those of an
\* account that is no longer selected, not even while the new ones load; and
\* what stands there when nothing loads is current.
OwnAccount == /\ Has("clears") /\ shown # Nothing => shown[1] = who
              /\ SettledIsCurrent

\* The panel keeps the promise of LatestAnswer.
Promise == INSTANCE LatestAnswer WITH wanted <- latest
ShowsLatest == Promise!Spec
=============================================================================
