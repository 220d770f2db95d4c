-------------------------------- MODULE MCPage --------------------------------
(***************************************************************************)
(* The page as TLC runs it: one world for each part of the front end that  *)
(* keeps a copy of the server's state.  The initial state chooses a part;  *)
(* it moves, the others stand still.                                       *)
(***************************************************************************)
EXTENDS PageJobs, TLC

CONSTANTS Instances, MaxChanges, MaxReads, MaxRequests, MaxClicks, MaxLost, Rows,
          Accounts, Machines, First, OwnerOf(_), Proxies, NoProxy, MaxAsked

VARIABLES
  view,
  cached, syncJob, changes, bus, handled, reads, extra, requests, replies, rows, syncing,
  soon, timers, late,
  cookie, twoFactor, fresh, authed, flags, route, mode, busy, updates, held, calls, clicks,
  losses,
  stored, edits, switches, shown, hidden, mounted, asked, letters,
  signedIn, accounts, machines, state, vnics, allowed, bindings, tasks, working, ends, orders

I == INSTANCE PageInstances WITH stream <- bus, answers <- replies
S == INSTANCE PageSession WITH stream <- updates
L == INSTANCE PolledList WITH changes <- edits, clicks <- switches, answers <- letters,
                              MaxChanges <- 2, MaxClicks <- 2

\* The script makes its instances once each.
ASSUME FirstAssumption == First \in Seq(Machines)

\* Two instances of the script, of two accounts, and a third to launch.
MCFirst == <<"i", "j">>
MCOwner(m) == IF m = "i" THEN "a" ELSE "b"

D == INSTANCE DemoServer WITH
       Nothing <- NoProxy,
       authed <- signedIn, instances <- machines, jobs <- tasks, timers <- ends, asked <- orders

instancesVars == <<cached, syncJob, changes, bus, handled, reads, extra, requests, replies, rows,
                   syncing, soon, timers, late>>
sessionVars == <<cookie, twoFactor, fresh, authed, flags, route, mode, busy, updates, held, calls,
                 clicks, losses>>
listVars == <<stored, edits, switches, shown, hidden, mounted, asked, letters>>
demoVars == <<signedIn, accounts, machines, state, vnics, allowed, bindings, tasks, working, ends,
              orders>>
all == <<view, vars, instancesVars, sessionVars, listVars, demoVars>>

InstancesIdle ==
  /\ cached = 0 /\ syncJob = 0 /\ changes = 0 /\ bus = 0 /\ handled = 0 /\ reads = 0
  /\ extra = 0 /\ requests = 0 /\ replies = 0 /\ rows = 0 /\ syncing = 0 /\ soon = 0
  /\ timers = 0 /\ late = 0

SessionIdle ==
  /\ cookie = 0 /\ twoFactor = 0 /\ fresh = 0 /\ authed = 0 /\ flags = 0 /\ route = 0
  /\ mode = 0 /\ busy = 0 /\ updates = 0 /\ held = 0 /\ calls = 0 /\ clicks = 0 /\ losses = 0

ListIdle ==
  /\ stored = 0 /\ edits = 0 /\ switches = 0 /\ shown = 0 /\ hidden = 0 /\ mounted = 0
  /\ asked = 0 /\ letters = 0

DemoIdle ==
  /\ signedIn = 0 /\ accounts = 0 /\ machines = 0 /\ state = 0 /\ vnics = 0 /\ allowed = 0
  /\ bindings = 0 /\ tasks = 0 /\ working = 0 /\ ends = 0 /\ orders = 0

PageInit ==
  /\ Init
  /\ \/ view = "jobs" /\ InstancesIdle /\ SessionIdle /\ ListIdle /\ DemoIdle
     \/ view = "instances" /\ I!Init /\ SessionIdle /\ ListIdle /\ DemoIdle
     \/ view = "session" /\ S!Init /\ InstancesIdle /\ ListIdle /\ DemoIdle
     \/ view = "list" /\ L!Init /\ InstancesIdle /\ SessionIdle /\ DemoIdle
     \/ view = "demo" /\ D!Init /\ InstancesIdle /\ SessionIdle /\ ListIdle

PageNext ==
  \/ view = "jobs" /\ Next
     /\ UNCHANGED <<view, instancesVars, sessionVars, listVars, demoVars>>
  \/ view = "instances" /\ I!Next
     /\ UNCHANGED <<view, vars, sessionVars, listVars, demoVars>>
  \/ view = "session" /\ S!Next
     /\ UNCHANGED <<view, vars, instancesVars, listVars, demoVars>>
  \/ view = "list" /\ L!Next
     /\ UNCHANGED <<view, vars, instancesVars, sessionVars, demoVars>>
  \/ view = "demo" /\ D!Next
     /\ UNCHANGED <<view, vars, instancesVars, sessionVars, listVars>>

\* The fairness of PolledList, in the world of the list.
ListFairness ==
  /\ WF_listVars(view = "list" /\ L!Poll) /\ WF_listVars(view = "list" /\ L!ServeList)
  /\ \A q \in L!Requests : WF_listVars(view = "list" /\ q \in asked /\ L!ServeRow(q))
  /\ \A a \in L!Answers :
       WF_listVars(view = "list" /\ a \in letters /\ (L!ShowList(a) \/ L!ShowRow(a)))

\* The browser fires every timer the demonstration sets.
DemoFairness == WF_demoVars(view = "demo" /\ D!JobTimer) /\ WF_demoVars(view = "demo" /\ D!StateTimer)

PageSpec == PageInit /\ [][PageNext]_all /\ ListFairness /\ DemoFairness

\* The rows and the mark of synchronisation catch up with the server's, and every
\* highlight has a timer that ends it.
PageCatchesUp == view = "instances" => I!PageCatchesUp /\ I!HighlightEnds

\* The page is where its session says, and its forms come back.
PlacedBySession == view = "session" => S!PlacedBySession /\ S!FormsComeBack

\* A polled list ends up showing what the server has.
ListCatchesUp == <>[](view = "list" /\ ~hidden) => <>[](shown = stored)

\* In the demonstration, instances have accounts, and transitions end.
InstancesHaveAccounts == view = "demo" => D!InstancesHaveAccounts
StatesSettle == <>[](view = "demo" => \A m \in D!Listed : state[m] \in D!Settled)
===============================================================================
