------------------------------- MODULE Channels -------------------------------
(***************************************************************************)
(* The notification channels: the page (NotificationsView.vue), which      *)
(* shows them, edits one in a form and subscribes each to events in a      *)
(* matrix, and the handlers behind it (httpapi/notifications.go), which    *)
(* hand out a channel's secret only masked and take a mask for "as it is". *)
(*                                                                         *)
(* A channel is its secret, the events it gets and whether it is enabled;  *)
(* its name, its kind and the fields that are no secret are left out.  The *)
(* page holds the list of its last load; every request but the one of the  *)
(* matrix is followed by a new load, and loads are not numbered.           *)
(***************************************************************************)
EXTENDS Naturals

CONSTANTS Ids,      \* names the server gives to channels
          Events,   \* what a channel may be told of
          Secrets,  \* what a user may type as a secret
          Masked,   \* the dots shown in place of one
          Nothing,
          MaxCalls  \* bound on the requests of the page

VARIABLES
  stored,   \* the channels of the server, Nothing where there is none
  shown,    \* channels.value: what the page holds of them
  turn,     \* how often shown was replaced: objects of an older turn are detached
  editing,  \* the form: Nothing when closed, else the id edited or "new", and its content
  saving,
  testing,  \* the channel whose test is on its way, or Nothing
  asked,    \* requests the server has not served
  answers,  \* and those it has, the answer on its way
  loads,    \* lists on their way, and Nothing for one not read yet
  calls,
  blurred   \* history: a request was made while another one was under way, the answer
            \* to one that was served was lost, or a list did not come

page == <<shown, turn, editing, saving, testing>>
vars == <<stored, page, asked, answers, loads, calls, blurred>>

Channel == [secret : Secrets \union {Masked}, events : SUBSET Events, enabled : BOOLEAN]
Lists == [Ids -> Channel \union {Nothing}]

TypeOK ==
  /\ stored \in Lists /\ shown \in Lists /\ turn \in Nat
  /\ saving \in BOOLEAN /\ testing \in Ids \union {Nothing}
  /\ \A l \in loads : l.list \in Lists \union {Nothing}
  /\ calls \in 0 .. MaxCalls /\ blurred \in BOOLEAN

Quiet == asked = {} /\ answers = {} /\ loads = {}

-----------------------------------------------------------------------------
(* The server *)

\* maskChannel: what leaves the server has no secret in it.
maskChannel(c) == IF c = Nothing THEN Nothing ELSE [c EXCEPT !.secret = Masked]

\* Mutant: what is sent replaces what is stored.
mergedAnyway(old, sent) == sent

\* handleUpdateChannel: a secret that still is a mask keeps the stored one.
merged(old, sent) == IF sent = Masked THEN old ELSE sent

\* UpdateChannel: what the request leaves out (Nothing) stays.
Updated(c, up) ==
  [secret |-> IF up.secret = Nothing THEN c.secret ELSE merged(c.secret, up.secret),
   events |-> IF up.events = Nothing THEN c.events ELSE up.events,
   enabled |-> IF up.enabled = Nothing THEN c.enabled ELSE up.enabled]

Init ==
  /\ stored \in [Ids -> [secret : Secrets, events : {Events}, enabled : {TRUE}] \union {Nothing}]
  /\ shown = [i \in Ids |-> Nothing] /\ turn = 0
  /\ editing = Nothing /\ saving = FALSE /\ testing = Nothing
  /\ asked = {} /\ answers = {} /\ loads = {[n |-> 0, list |-> Nothing]}
  /\ calls = 0 /\ blurred = FALSE

\* What a request does to the channels, if it can be served.
Effect(q) ==
  \/ /\ q.op = "create"
     /\ \E i \in Ids : /\ stored[i] = Nothing
                       /\ stored' = [stored EXCEPT ![i] = [secret |-> q.up.secret,
                                       events |-> q.up.events, enabled |-> TRUE]]
  \/ /\ q.op \in {"save", "enable", "subscribe"} /\ stored[q.id] # Nothing
     /\ stored' = [stored EXCEPT ![q.id] = Updated(@, q.up)]
  \/ /\ q.op = "remove" /\ stored[q.id] # Nothing
     /\ stored' = [stored EXCEPT ![q.id] = Nothing]
  \/ /\ q.op = "test" /\ stored[q.id] # Nothing
     /\ UNCHANGED stored

\* A request is refused, or served, and then its answer may be lost.
Serve(q) ==
  /\ asked' = asked \ {q}
  /\ \/ /\ answers' = answers \union {[q EXCEPT !.ok = FALSE]}
        /\ UNCHANGED <<stored, blurred>>
     \/ /\ Effect(q)
        /\ \E ok \in BOOLEAN : /\ answers' = answers \union {[q EXCEPT !.ok = ok]}
                               /\ blurred' = (blurred \/ ~ok)
  /\ UNCHANGED <<page, loads, calls>>

ReadList(l) ==
  /\ l.list = Nothing
  /\ loads' = (loads \ {l}) \union {[l EXCEPT !.list = [i \in Ids |-> maskChannel(stored[i])]]}
  /\ UNCHANGED <<stored, page, asked, answers, calls, blurred>>

-----------------------------------------------------------------------------
(* The page *)

Change(secret, events, enabled) == [secret |-> secret, events |-> events, enabled |-> enabled]
NoChange == Change(Nothing, Nothing, Nothing)

Call(op, id, up) ==
  /\ calls < MaxCalls
  /\ calls' = calls + 1
  /\ asked' = asked \union {[op |-> op, id |-> id, up |-> up, turn |-> turn, n |-> calls,
                             ok |-> TRUE]}
  /\ blurred' = (blurred \/ ~Quiet)

\* load, after a request: one more list is read.
load(n) == loads' = loads \union {[n |-> n + 1, list |-> Nothing]}

ListComes(l) ==
  /\ l.list # Nothing
  /\ loads' = loads \ {l} /\ shown' = l.list /\ turn' = turn + 1
  /\ UNCHANGED <<stored, editing, saving, testing, asked, answers, calls, blurred>>

ListFails(l) ==
  /\ loads' = loads \ {l} /\ blurred' = TRUE
  /\ UNCHANGED <<stored, page, asked, answers, calls>>

\* The form is filled from the channel shown: with the mask as its secret.
openCreate ==
  /\ editing' = [id |-> "new", secret |-> Nothing, events |-> Events]
  /\ UNCHANGED <<stored, shown, turn, saving, testing, asked, answers, loads, calls, blurred>>

openEdit(i) ==
  /\ shown[i] # Nothing
  /\ editing' = [id |-> i, secret |-> shown[i].secret, events |-> shown[i].events]
  /\ UNCHANGED <<stored, shown, turn, saving, testing, asked, answers, loads, calls, blurred>>

TypeSecret(s) ==
  /\ editing # Nothing /\ editing.secret # s
  /\ editing' = [editing EXCEPT !.secret = s]
  /\ UNCHANGED <<stored, shown, turn, saving, testing, asked, answers, loads, calls, blurred>>

CheckEvent(e) ==
  /\ editing # Nothing
  /\ editing' = [editing EXCEPT !.events = (@ \ {e}) \union ({e} \ @)]
  /\ UNCHANGED <<stored, shown, turn, saving, testing, asked, answers, loads, calls, blurred>>

Cancel ==
  /\ editing # Nothing
  /\ editing' = Nothing
  /\ UNCHANGED <<stored, shown, turn, saving, testing, asked, answers, loads, calls, blurred>>

\* save, up to its request; validateChannelConfig refuses a new channel without
\* its secret.
save ==
  /\ editing # Nothing /\ editing.secret # Nothing /\ ~saving
  /\ saving' = TRUE
  /\ IF editing.id = "new"
     THEN Call("create", Nothing, Change(editing.secret, editing.events, Nothing))
     ELSE Call("save", editing.id, Change(editing.secret, editing.events, Nothing))
  /\ UNCHANGED <<stored, shown, turn, editing, testing, answers, loads>>

\* toggleEnabled, toggleSubscription: the new value is worked out from what is
\* shown at the click.
toggleEnabled(i) ==
  /\ shown[i] # Nothing
  /\ Call("enable", i, [NoChange EXCEPT !.enabled = ~shown[i].enabled])
  /\ UNCHANGED <<stored, page, answers, loads>>

toggleSubscription(i, e) ==
  /\ shown[i] # Nothing /\ shown[i].enabled
  /\ Call("subscribe", i, [NoChange EXCEPT !.events =
            IF e \in shown[i].events THEN shown[i].events \ {e} ELSE shown[i].events \union {e}])
  /\ UNCHANGED <<stored, page, answers, loads>>

removeChannel(i) ==
  /\ shown[i] # Nothing
  /\ Call("remove", i, NoChange)
  /\ UNCHANGED <<stored, page, answers, loads>>

sendTest(i) ==
  /\ shown[i] # Nothing /\ testing # i
  /\ testing' = i
  /\ Call("test", i, NoChange)
  /\ UNCHANGED <<stored, shown, turn, editing, saving, answers, loads>>

-----------------------------------------------------------------------------
(* Answers *)

\* Mutant: the matrix shows the click, whatever becomes of the request.
SubscriptionShownAnyway(q) ==
  IF q.turn = turn THEN shown' = [shown EXCEPT ![q.id].events = q.up.events]
  ELSE UNCHANGED shown

\* A success is written into the object clicked on, if it still is on the page.
SubscriptionShown(q) ==
  IF q.ok /\ q.turn = turn THEN shown' = [shown EXCEPT ![q.id].events = q.up.events]
  ELSE UNCHANGED shown

Subscribed(q) ==
  /\ q.op = "subscribe"
  /\ answers' = answers \ {q}
  /\ SubscriptionShown(q)
  /\ UNCHANGED <<stored, turn, editing, saving, testing, asked, loads, calls, blurred>>

\* The other requests load the list again if they succeeded.  A save closes the
\* form, whichever is open by then.
Done(q) ==
  /\ q.op # "subscribe"
  /\ answers' = answers \ {q}
  /\ IF q.ok THEN load(q.n) ELSE UNCHANGED loads
  /\ editing' = IF q.op \in {"create", "save"} /\ q.ok THEN Nothing ELSE editing
  /\ saving' = IF q.op \in {"create", "save"} THEN FALSE ELSE saving
  /\ testing' = IF q.op = "test" THEN Nothing ELSE testing
  /\ UNCHANGED <<stored, shown, turn, asked, calls, blurred>>

Next ==
  \/ \E q \in asked : Serve(q)
  \/ \E l \in loads : ReadList(l) \/ ListComes(l) \/ ListFails(l)
  \/ openCreate \/ Cancel \/ save
  \/ \E s \in Secrets : TypeSecret(s)
  \/ \E e \in Events : CheckEvent(e)
  \/ \E i \in Ids : \/ openEdit(i) \/ toggleEnabled(i) \/ removeChannel(i) \/ sendTest(i)
                    \/ \E e \in Events : toggleSubscription(i, e)
  \/ \E q \in answers : Subscribed(q) \/ Done(q)

Spec == Init /\ [][Next]_vars

-----------------------------------------------------------------------------
\* "原样提交回来会把真实配置覆盖成一串圆点": no sequence of edits, in whatever
\* order their requests and loads come, replaces a secret by the dots shown in
\* its place; and no secret reaches the page, which may be edited in a form
\* opened on any list.
SecretKept ==
  \A i \in Ids : /\ stored[i] # Nothing => stored[i].secret \in Secrets
                 /\ shown[i] # Nothing => shown[i].secret = Masked

\* One request at a time, the matrix shows what is stored once nothing is
\* under way.  Two clicks in a row lose one: each sends all of the events, as
\* they were shown before the other (MatrixIsStored, which the code breaks).
Loaded == Quiet /\ turn > 0
MatrixAgrees ==
  Loaded /\ ~blurred =>
    \A i \in Ids : stored[i] # Nothing /\ shown[i] # Nothing => shown[i].events = stored[i].events
MatrixIsStored ==
  Loaded => \A i \in Ids : stored[i] # Nothing /\ shown[i] # Nothing =>
                             shown[i].events = stored[i].events
=============================================================================
