------------------------------ MODULE PageSession -------------------------------
(***************************************************************************)
(* Signing in and out in the browser: the router's guard, the listener of  *)
(* main.ts for a 401, the session part of store/index.ts, LoginView and    *)
(* the account part of SettingsView, over the session the server keeps.    *)
(*                                                                         *)
(* Every request is a call in flight: the server serves it at some moment, *)
(* its answer comes back at a later one, and what the page does next       *)
(* (call.next) runs then, whatever happened meanwhile.  The session may end at  *)
(* any time: another browser ends all sessions, or it expires.             *)
(*                                                                         *)
(* Names, passwords and codes are right or wrong by choice of the server.  *)
(* MaxClicks and MaxLost bound what the user does and how often a session  *)
(* ends.                                                                   *)
(***************************************************************************)
EXTENDS Naturals, FiniteSets

CONSTANTS MaxClicks, MaxLost

VARIABLES
    cookie,      \* the server's session of this browser: none, half, full
    twoFactor,   \* the server: two-factor authentication is on
    fresh,       \* the server: nobody is set up yet
    authed,      \* state.authed: unknown before the first answer
    flags,       \* state.setupRequired and state.totpRequired
    route,       \* where the router is: login, app, or nowhere yet
    mode,        \* the form of the login page
    busy,        \* the buttons of the form are disabled
    stream,      \* the live updates: none, open, or dead (refused)
    held,        \* the page holds accounts and instances
    calls,       \* the calls in flight
    clicks, losses

server == <<cookie, twoFactor, fresh>>
page == <<authed, flags, route, mode, busy, stream, held>>
vars == <<server, page, calls, clicks, losses>>

Modes == {"setup", "login", "totp", "enroll"}
Kinds == {"status", "setup", "login", "totpSetup", "enable", "disable", "verify",
          "password", "revoke", "logout", "load"}
Pending == "pending"
Answers == {Pending, "ok", "half", "none", "fresh", "401", "error"}
Nexts == {"place", "enter", "leave", "mount", "stay", "wizard"}

TypeOK ==
    /\ cookie \in {"none", "half", "full"} /\ {twoFactor, fresh} \subseteq BOOLEAN
    /\ authed \in {"unknown", "yes", "no"}
    /\ flags \in [setup : BOOLEAN, totp : BOOLEAN]
    /\ route \in {"nowhere", "login", "app"} /\ mode \in Modes
    /\ {busy, held} \subseteq BOOLEAN /\ stream \in {"none", "open", "dead"}
    /\ calls \subseteq [kind : Kinds, next : Nexts, answer : Answers]
    /\ clicks \in 0 .. MaxClicks /\ losses \in 0 .. MaxLost

Call(kind, next) == [kind |-> kind, next |-> next, answer |-> Pending]

Init ==
    /\ cookie \in {"none", "half", "full"} /\ twoFactor \in BOOLEAN
    /\ fresh \in BOOLEAN /\ (fresh => cookie = "none" /\ ~twoFactor)
    /\ cookie = "half" => twoFactor
    /\ authed = "unknown" /\ flags = [setup |-> FALSE, totp |-> FALSE]
    /\ route = "nowhere" /\ mode = "login" /\ busy = FALSE
    /\ stream = "none" /\ held = FALSE
    \* The guard's probe.
    /\ calls = {Call("status", "place")}
    /\ clicks = 0 /\ losses = 0

----------------------------------------------------------------------------
(* The server *)

\* What the server makes of a call: its answer and the session after it.
Outcomes(kind) ==
    LET same == <<cookie, twoFactor, fresh>>
        in(answer) == IF cookie = "full" THEN answer ELSE <<"401", same>> IN
    {<<"error", same>>} \cup
    CASE kind = "status" ->
            {<<IF fresh THEN "fresh" ELSE IF cookie = "full" THEN "ok"
               ELSE IF cookie = "half" THEN "half" ELSE "none", same>>}
      [] kind = "setup" -> IF fresh THEN {<<"ok", <<cookie, twoFactor, FALSE>>>>} ELSE {}
      [] kind = "login" ->
            IF fresh THEN {}
            ELSE IF twoFactor THEN {<<"half", <<"half", twoFactor, fresh>>>>}
            ELSE {<<"ok", <<"full", twoFactor, fresh>>>>}
      [] kind = "verify" ->
            IF cookie = "none" THEN {<<"401", same>>}
            ELSE {<<"ok", <<"full", twoFactor, fresh>>>>}
      [] kind \in {"load", "totpSetup"} -> {in(<<"ok", same>>)}
      [] kind = "enable" -> {in(<<"ok", <<"full", TRUE, fresh>>>>)}
      [] kind = "disable" -> {in(<<"ok", <<"full", FALSE, fresh>>>>)}
      [] kind \in {"password", "revoke"} -> {in(<<"ok", <<"none", twoFactor, fresh>>>>)}
      [] kind = "logout" -> {<<"ok", <<"none", twoFactor, fresh>>>>}

\* A request that fails may have taken effect all the same.
Serve(c) ==
    /\ c.answer = Pending
    /\ \E outcome \in Outcomes(c.kind), lost \in BOOLEAN :
          /\ cookie' = outcome[2][1] /\ twoFactor' = outcome[2][2] /\ fresh' = outcome[2][3]
          /\ calls' = (calls \ {c}) \cup
                {[c EXCEPT !.answer = IF lost /\ outcome[2] # server THEN "error" ELSE outcome[1]]}
    /\ UNCHANGED <<page, clicks, losses>>

\* Revoked by another browser, or expired.
SessionEnds ==
    /\ cookie # "none" /\ losses < MaxLost
    /\ cookie' = "none" /\ losses' = losses + 1
    /\ UNCHANGED <<twoFactor, fresh, page, calls, clicks>>

\* The connection of the events breaks and the browser opens it again.
StreamBreaks ==
    /\ stream = "open" /\ cookie # "full"
    /\ stream' = "dead"
    /\ UNCHANGED <<server, authed, flags, route, mode, busy, held, calls, clicks, losses>>

----------------------------------------------------------------------------
(* What the page does when an answer comes *)

\* startLiveUpdates: nothing when a connection was made before and not closed.
startLiveUpdates ==
    stream' = IF stream # "none" THEN stream ELSE IF cookie = "full" THEN "open" ELSE "dead"

\* The guard: wherever the navigation goes, the session decides where it ends.
\* Entering the login page mounts it, with the form the flags ask for.
Guarded(known) == IF known = "yes" THEN "app" ELSE "login"
Placed ==
    /\ route' = Guarded(authed')
    /\ mode' = IF route' = "login" /\ route # "login"
               THEN IF flags'.setup THEN "setup" ELSE IF flags'.totp THEN "totp" ELSE "login"
               ELSE mode

\* loadStatus: an answer that does not come signs the page out.
StatusKnown(c) ==
    /\ authed' = IF c.answer = "ok" THEN "yes" ELSE "no"
    /\ flags' = IF c.answer = "error" THEN flags
                ELSE [setup |-> c.answer = "fresh", totp |-> c.answer = "half"]

\* The probe of the guard, the first navigation.
Probed(c) ==
    /\ c.kind = "status" /\ c.next = "place"
    /\ StatusKnown(c) /\ Placed
    /\ IF authed' = "yes"
       THEN /\ calls' = (calls \ {c}) \cup {Call("load", "stay")}
            /\ startLiveUpdates
       ELSE calls' = calls \ {c} /\ UNCHANGED stream
    /\ UNCHANGED <<busy, held>>

\* afterLogin: signed in at once, then the status, then everything, then the
\* live updates, and at last the navigation of enter.
Enter(c) ==
    /\ authed' = "yes"
    /\ calls' = (calls \ {c}) \cup {Call("status", "enter")}
    /\ UNCHANGED <<flags, route, mode, busy, stream, held>>

StatusOfEnter(c) ==
    /\ c.kind = "status" /\ c.next = "enter"
    /\ StatusKnown(c)
    /\ calls' = (calls \ {c}) \cup {Call("load", "enter")}
    /\ UNCHANGED <<route, mode, busy, stream, held>>

\* onSessionLost, run by the 401 itself before the code that waits for it.
\* Mutant: the page stays where it is.
LostInPlace ==
    IF authed = "no" THEN UNCHANGED <<authed, stream, route, mode>>
    ELSE authed' = "no" /\ stream' = "none" /\ UNCHANGED <<route, mode>>

Lost ==
    IF authed = "no" THEN UNCHANGED <<authed, stream, route, mode>>
    ELSE authed' = "no" /\ stream' = "none" /\ Placed

\* loadAll: its errors are swallowed.
Loads(c) == held' = (held \/ c.answer = "ok")

LoadComes(c) ==
    /\ c.kind = "load" /\ c.next = "stay"
    /\ Loads(c) /\ calls' = calls \ {c} /\ UNCHANGED <<flags, busy>>
    /\ IF c.answer = "401" THEN Lost ELSE UNCHANGED <<authed, stream, route, mode>>

\* The end of afterLogin and enter, the session lost on the way or not.
LoadOfEnter(c) ==
    /\ c.kind = "load" /\ c.next = "enter"
    /\ Loads(c) /\ calls' = calls \ {c} /\ busy' = FALSE /\ UNCHANGED flags
    /\ authed' = IF c.answer = "401" THEN "no" ELSE authed
    /\ IF c.answer = "401" /\ authed # "no"
       THEN stream' = IF cookie = "full" THEN "open" ELSE "dead"
       ELSE startLiveUpdates
    /\ Placed

\* doLogin, submitCode and skipEnroll end in Enter; a failure gives the form back.
SignsIn(c) ==
    \/ /\ c.kind \in {"login", "verify", "enable"} /\ c.next = "enter" /\ c.answer = "ok"
       /\ Enter(c)
    \/ /\ c.kind = "login" /\ c.next = "enter" /\ c.answer = "half"
       /\ mode' = "totp" /\ busy' = FALSE /\ calls' = calls \ {c}
       /\ UNCHANGED <<authed, flags, route, stream, held>>

\* doSetup: set up, sign in, fetch a secret, and offer to enroll.
SetsUp(c) ==
    /\ c.next = "wizard" /\ c.answer = "ok"
    /\ \/ /\ c.kind = "setup" /\ calls' = (calls \ {c}) \cup {Call("login", "wizard")}
          /\ UNCHANGED <<mode, busy>>
       \/ /\ c.kind = "login" /\ calls' = (calls \ {c}) \cup {Call("totpSetup", "wizard")}
          /\ UNCHANGED <<mode, busy>>
       \/ /\ c.kind = "totpSetup" /\ calls' = calls \ {c}
          /\ mode' = "enroll" /\ busy' = FALSE
    /\ UNCHANGED <<authed, flags, route, stream, held>>

\* A call of the login page or the settings that failed, or that only ends.
Ends(c) ==
    /\ c.kind \notin {"status", "load", "logout"}
    /\ c.answer \in {"error", "401"} \/ (c.next = "stay" /\ c.answer = "ok")
    /\ calls' = calls \ {c} /\ busy' = FALSE /\ UNCHANGED <<flags, held>>
    /\ IF c.answer = "401" THEN Lost ELSE UNCHANGED <<authed, stream, route, mode>>

\* logout, also after a changed password and after revoking every session: a
\* request that fails is taken as done.
Leaves(c) ==
    \/ /\ c.kind \in {"password", "revoke"} /\ c.next = "leave" /\ c.answer = "ok"
       /\ stream' = "none"
       /\ calls' = (calls \ {c}) \cup {Call("logout", "leave")}
       /\ UNCHANGED <<authed, flags, route, mode, busy, held>>
    \/ /\ c.kind = "logout"
       /\ held' = FALSE /\ busy' = FALSE
       /\ calls' = (calls \ {c}) \cup {Call("status", "leave")}
       /\ authed' = "no" /\ UNCHANGED <<flags, route, mode, stream>>
    \/ /\ c.kind = "status" /\ c.next = "leave"
       /\ StatusKnown(c) /\ Placed
       /\ calls' = calls \ {c} /\ UNCHANGED <<busy, stream, held>>

Comes(c) ==
    /\ c.answer # Pending
    /\ Probed(c) \/ StatusOfEnter(c) \/ LoadComes(c) \/ LoadOfEnter(c)
       \/ SignsIn(c) \/ SetsUp(c) \/ Ends(c) \/ Leaves(c)
    /\ UNCHANGED <<server, clicks, losses>>

----------------------------------------------------------------------------
(* The user *)

Click(kind, next, working) ==
    /\ clicks < MaxClicks /\ clicks' = clicks + 1 /\ ~busy
    /\ calls' = calls \cup {Call(kind, next)}
    /\ busy' = working
    /\ UNCHANGED <<server, authed, flags, route, mode, held, losses>>

doSetup == route = "login" /\ mode = "setup" /\ Click("setup", "wizard", TRUE) /\ UNCHANGED stream
doLogin == route = "login" /\ mode = "login" /\ Click("login", "enter", TRUE) /\ UNCHANGED stream
submitCode ==
    /\ route = "login" /\ UNCHANGED stream
    /\ \/ mode = "totp" /\ Click("verify", "enter", TRUE)
       \/ mode = "enroll" /\ Click("enable", "enter", TRUE)
skipEnroll ==
    /\ route = "login" /\ mode = "enroll" /\ clicks < MaxClicks
    /\ Enter(Call("login", "enter"))
    /\ clicks' = clicks + 1
    /\ UNCHANGED <<server, losses>>

Settings ==
    /\ route = "app" /\ UNCHANGED stream
    /\ \/ ~twoFactor /\ Click("enable", "stay", TRUE)
       \/ twoFactor /\ Click("disable", "stay", TRUE)
       \/ Click("password", "leave", TRUE)
       \/ Click("revoke", "leave", TRUE)

\* The menu: the live updates stop before the request is sent.
logout == route = "app" /\ Click("logout", "leave", TRUE) /\ stream' = "none"

\* Any view that asks the server for something.
Browse == route = "app" /\ Click("load", "stay", FALSE) /\ UNCHANGED stream

User == doSetup \/ doLogin \/ submitCode \/ skipEnroll \/ Settings \/ logout \/ Browse

Next ==
    \/ \E c \in calls : Serve(c) \/ Comes(c)
    \/ SessionEnds \/ StreamBreaks \/ User

Spec == Init /\ [][Next]_vars
FairSpec == Spec /\ WF_vars(\E c \in calls : Serve(c) \/ Comes(c))

----------------------------------------------------------------------------
(* Properties *)

\* When everything has been answered the page is where its session says: no view
\* of the panel is left open after the session ended, and nobody who is signed
\* in is left on the login page, in whatever order the answers came.
PlacedBySession ==
    calls = {} => (route = "app" <=> authed = "yes") /\ authed # "unknown"

\* The forms come back: the login page and the settings are never left disabled.
FormsComeBack == (calls = {}) => ~busy

\* A page that is signed in gets live updates (store/index.ts, "called once
\* after signing in").  A session that ends while afterLogin loads leaves a dead
\* connection in place, which the next login does not replace; a logout whose
\* request failed leaves a signed-in page without any.
SignedInIsLive == (calls = {} /\ authed = "yes" /\ cookie = "full") => stream = "open"
=============================================================================
