----------------------------- MODULE PolledList -----------------------------
(***************************************************************************)
(* The pages that read their list again on a timer and change single rows  *)
(* themselves: the capacity hunts (HuntView.vue, every 15 seconds) and the *)
(* capacity watches (CapacityView.vue, every 30).  A reading is not        *)
(* numbered: an answer on its way while a row is switched or deleted puts  *)
(* the row back as it was, until the next reading.                         *)
(***************************************************************************)
EXTENDS Naturals, FiniteSets

CONSTANTS Rows,
          MaxChanges,  \* bound on what the scheduler and others change
          MaxClicks    \* bound on switches and deletions of this page

VARIABLES
  stored,   \* "on", "off" or "gone": each row at the server
  changes, clicks,
  shown,    \* each row as the page shows it
  hidden,   \* the browser tab is in the background
  mounted,  \* the first load was asked for
  asked,    \* readings and row requests the server has not handled
  answers   \* what is on its way back

vars == <<stored, changes, clicks, shown, hidden, mounted, asked, answers>>

States == {"on", "off", "gone"}
Lists == [Rows -> States]
Requests == [kind : {"list"}] \union [kind : {"pause", "resume", "remove"}, row : Rows]
Answers == [kind : {"list"}, rows : Lists] \union [kind : {"row"}, row : Rows, state : States]

TypeOK ==
  /\ stored \in Lists /\ shown \in Lists
  /\ changes \in 0 .. MaxChanges /\ clicks \in 0 .. MaxClicks
  /\ hidden \in BOOLEAN /\ mounted \in BOOLEAN
  /\ asked \subseteq Requests /\ answers \subseteq Answers

Init ==
  /\ stored \in Lists /\ changes = 0 /\ clicks = 0
  /\ shown = [r \in Rows |-> "gone"]
  /\ hidden = FALSE /\ mounted = FALSE /\ asked = {} /\ answers = {}

\* A hunt ends or the server stops one; another page adds a row.
Change(r) ==
  /\ changes < MaxChanges
  /\ changes' = changes + 1
  /\ \E s \in States : stored' = [stored EXCEPT ![r] = s]
  /\ UNCHANGED <<clicks, shown, hidden, mounted, asked, answers>>

\* Mutant: the list is read once.
PollOnce ==
  /\ ~mounted
  /\ mounted' = TRUE
  /\ asked' = asked \union {[kind |-> "list"]}
  /\ UNCHANGED <<stored, changes, clicks, shown, hidden, answers>>

\* onMounted, and the timer while the tab is visible.
Poll ==
  /\ ~mounted \/ ~hidden
  /\ mounted' = TRUE
  /\ asked' = asked \union {[kind |-> "list"]}
  /\ UNCHANGED <<stored, changes, clicks, shown, hidden, answers>>

SwitchTab ==
  /\ clicks < MaxClicks
  /\ hidden' = ~hidden
  /\ clicks' = IF hidden THEN clicks ELSE clicks + 1
  /\ UNCHANGED <<stored, changes, shown, mounted, asked, answers>>

\* The button of a row sends what its shown state calls for.
toggle(r) ==
  /\ shown[r] # "gone" /\ clicks < MaxClicks
  /\ clicks' = clicks + 1
  /\ asked' = asked \union {[kind |-> IF shown[r] = "on" THEN "pause" ELSE "resume", row |-> r]}
  /\ UNCHANGED <<stored, changes, shown, hidden, mounted, answers>>

remove(r) ==
  /\ shown[r] # "gone" /\ clicks < MaxClicks
  /\ clicks' = clicks + 1
  /\ asked' = asked \union {[kind |-> "remove", row |-> r]}
  /\ UNCHANGED <<stored, changes, shown, hidden, mounted, answers>>

ServeList ==
  /\ [kind |-> "list"] \in asked
  /\ asked' = asked \ {[kind |-> "list"]}
  /\ answers' = answers \union {[kind |-> "list", rows |-> stored]}
  /\ UNCHANGED <<stored, changes, clicks, shown, hidden, mounted>>

\* A row that is gone refuses; the page says so and changes nothing.
ServeRow(q) ==
  /\ q.kind # "list"
  /\ asked' = asked \ {q}
  /\ IF stored[q.row] = "gone" THEN UNCHANGED <<stored, answers>>
     ELSE LET s == IF q.kind = "remove" THEN "gone" ELSE IF q.kind = "resume" THEN "on" ELSE "off"
          IN  /\ stored' = [stored EXCEPT ![q.row] = s]
              /\ answers' = answers \union {[kind |-> "row", row |-> q.row, state |-> s]}
  /\ UNCHANGED <<changes, clicks, shown, hidden, mounted>>

LoadFails ==
  /\ [kind |-> "list"] \in asked /\ changes < MaxChanges
  /\ changes' = changes + 1
  /\ asked' = asked \ {[kind |-> "list"]}
  /\ UNCHANGED <<stored, clicks, shown, hidden, mounted, answers>>

ShowList(a) ==
  /\ a.kind = "list"
  /\ shown' = a.rows
  /\ answers' = answers \ {a}
  /\ UNCHANGED <<stored, changes, clicks, hidden, mounted, asked>>

\* The row of the answer replaces the one shown, or takes it away.
ShowRow(a) ==
  /\ a.kind = "row"
  /\ shown' = IF shown[a.row] = "gone" THEN shown ELSE [shown EXCEPT ![a.row] = a.state]
  /\ answers' = answers \ {a}
  /\ UNCHANGED <<stored, changes, clicks, hidden, mounted, asked>>

Next ==
  \/ \E r \in Rows : Change(r) \/ toggle(r) \/ remove(r)
  \/ Poll \/ SwitchTab \/ ServeList \/ LoadFails
  \/ \E q \in asked : ServeRow(q)
  \/ \E a \in answers : ShowList(a) \/ ShowRow(a)

\* The timer goes on, the server answers, and an answer arrives.
Fairness ==
  /\ WF_vars(Poll) /\ WF_vars(ServeList)
  /\ \A q \in Requests : WF_vars(q \in asked /\ ServeRow(q))
  /\ \A a \in Answers : WF_vars(a \in answers /\ (ShowList(a) \/ ShowRow(a)))

FairSpec == Init /\ [][Next]_vars /\ Fairness

-----------------------------------------------------------------------------
\* Whatever late answers put back, a page that is looked at ends up showing
\* what the server has: rows switched and deleted here, hunts that ended
\* behind its back.
ListCatchesUp == <>[]~hidden => <>[](shown = stored)
=============================================================================
