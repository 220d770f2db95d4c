-------------------------------- MODULE Accounts --------------------------------
(***************************************************************************)
(* The accounts: the page that lists them and the drawer that checks one,  *)
(* changes its key, disables or removes it (AccountsView.vue,              *)
(* AccountDrawer.vue, loadAccounts and loadQuota of the store), and behind *)
(* them the handlers (httpapi/accounts.go), the sweep that checks them now *)
(* and then (httpapi/accountcheck.go) and the cache of clients built from  *)
(* their keys (ociconn/factory.go), which is as fresh as updated_at, a     *)
(* time in whole seconds.                                                  *)
(*                                                                         *)
(* A task is a request of the page with the ones that follow it, or a      *)
(* check of the sweep; its step says where it is.                          *)
(***************************************************************************)
EXTENDS Naturals, FiniteSets

CONSTANTS Ids,       \* the accounts
          Keys,      \* API keys
          Accepted,  \* those that Oracle accepts
          Nothing,
          MaxTasks,  \* bound on the tasks
          MaxClock   \* bound on the seconds

VARIABLES
  stored,   \* the accounts of the database, Nothing where there is none
  cached,   \* Factory.cache: a client's key and the updated_at it was built for
  clock,    \* the second
  shown,    \* state.accounts
  filter,   \* state.accountFilter
  rows,     \* the accounts whose instances the page holds
  drawer,   \* the account whose drawer is open, or Nothing
  question, \* the confirmation that is open, or Nothing
  tasks,
  count,    \* tasks so far
  crossed,  \* history: a key was changed while a check was under way
  blurred   \* history: tasks overlapped, an account was changed elsewhere or a list did not come

server == <<stored, cached, clock>>
page == <<shown, filter, rows, drawer, question>>
vars == <<server, page, tasks, count, crossed, blurred>>

Statuses == {"unchecked", "ok", "error"}
Account == [key : Keys, enabled : BOOLEAN, status : Statuses, known : BOOLEAN, at : 0 .. MaxClock]

\* toAccount: a disabled account is never shown as a good one, and what kind of
\* subscription it has is known from its checks only.
accountStatus(a) == CASE ~a.enabled -> "disabled"
                      [] a.enabled /\ a.status = "unchecked" -> "checking"
                      [] OTHER -> a.status
toAccount(a) == [status |-> accountStatus(a), fingerprint |-> a.key,
                 tier |-> IF a.known THEN "known" ELSE "unknown", quota |-> FALSE]
Cards == [status : {"ok", "error", "checking", "disabled"}, fingerprint : Keys,
          tier : {"known", "unknown"}, quota : BOOLEAN]

Present(list) == {i \in Ids : list[i] # Nothing}

TypeOK ==
  /\ stored \in [Ids -> Account \union {Nothing}]
  /\ \A i \in Ids : cached[i] = Nothing \/ cached[i] \in [key : Keys, at : 0 .. MaxClock]
  /\ shown \in [Ids -> Cards \union {Nothing}]
  /\ filter \subseteq Ids /\ rows \subseteq Ids /\ drawer \in Ids \union {Nothing}
  /\ crossed \in BOOLEAN /\ blurred \in BOOLEAN

-----------------------------------------------------------------------------
(* Tasks *)

\* What a task is when it starts; here: by the drawer that is open now.
Task(of, step, i) ==
  [n |-> count, of |-> of, step |-> step, id |-> i, key |-> Nothing, enable |-> FALSE,
   before |-> Nothing, built |-> Nothing, ok |-> FALSE, list |-> Nothing, here |-> TRUE]

\* Only the quota may be on its way with nothing said of the accounts.
Apart == \A t \in tasks : t.of = "quota"

Start(t) ==
  /\ count < MaxTasks
  /\ tasks' = tasks \union {t} /\ count' = count + 1
  /\ blurred' = (blurred \/ ~Apart)

Move(t, next) == tasks' = (tasks \ {t}) \union {next}
Checking(t) == t.step \in {"connected", "built", "called"}

\* Ends without its effect on the page: refused, or its answer was lost.
Lost(t) == /\ tasks' = tasks \ {t} /\ blurred' = (blurred \/ t.of # "quota")

-----------------------------------------------------------------------------
(* The server *)

\* Factory.For: the cached client serves while the account was not updated since.
Cached(i) == cached[i] # Nothing /\ cached[i].at = stored[i].at

\* handleCheckAccount, recheckAccount: the account and its client.
Connect(t) ==
  /\ t.step = "check" /\ stored[t.id] # Nothing
  /\ LET hit == Cached(t.id)
         key == IF hit THEN cached[t.id].key ELSE stored[t.id].key
     IN Move(t, [t EXCEPT !.step = IF hit THEN "called" ELSE "built", !.before = stored[t.id].status,
                          !.built = [key |-> key, at |-> stored[t.id].at]])
  /\ UNCHANGED <<server, page, count, crossed, blurred>>

\* The new client goes into the cache.
StoreClient(t) ==
  /\ t.step = "built"
  /\ cached' = [cached EXCEPT ![t.id] = t.built]
  /\ Move(t, [t EXCEPT !.step = "called"])
  /\ UNCHANGED <<stored, clock, page, count, crossed, blurred>>

\* checkAccount: the verdict is written, and with a good one what was learnt of
\* the tenancy.  The sweep tells the pages when the status changed.
Verdict(t) ==
  /\ t.step = "called"
  /\ LET good == t.built.key \in Accepted
         status == IF good THEN "ok" ELSE "error"
     IN /\ stored' = IF stored[t.id] = Nothing THEN stored
                     ELSE [stored EXCEPT ![t.id].status = status, ![t.id].at = clock,
                                         ![t.id].known = @ \/ good]
        /\ IF t.of # "sweep" THEN Move(t, [t EXCEPT !.step = "answered", !.ok = good])
           ELSE IF t.before # status THEN Move(t, [t EXCEPT !.step = "told"])
           ELSE tasks' = tasks \ {t}
  /\ UNCHANGED <<cached, clock, page, count, crossed, blurred>>

\* Mutant: the clients of the old key stay.
cachedStill(i) == cached

\* handleUpdateAccount: a changed key makes the verdict on the old one void and
\* drops the client built from it.
Invalidated(i) == [cached EXCEPT ![i] = Nothing]
Update(t) ==
  /\ t.step = "ask" /\ t.of \in {"rotate", "enable"} /\ stored[t.id] # Nothing
  /\ IF t.of = "rotate"
     THEN /\ stored' = [stored EXCEPT ![t.id].key = t.key, ![t.id].status = "unchecked",
                                      ![t.id].at = clock]
          /\ cached' = Invalidated(t.id)
          /\ crossed' = (crossed \/ \E u \in tasks : u.id = t.id /\ Checking(u))
     ELSE /\ stored' = [stored EXCEPT ![t.id].enabled = t.enable, ![t.id].at = clock]
          /\ UNCHANGED <<cached, crossed>>
  /\ Move(t, [t EXCEPT !.step = "answered", !.ok = TRUE])
  /\ UNCHANGED <<clock, page, count, blurred>>

\* handleDeleteAccount.
Remove(t) ==
  /\ t.step = "ask" /\ t.of = "remove" /\ stored[t.id] # Nothing
  /\ stored' = [stored EXCEPT ![t.id] = Nothing] /\ cached' = Invalidated(t.id)
  /\ Move(t, [t EXCEPT !.step = "answered", !.ok = TRUE])
  /\ UNCHANGED <<clock, page, count, crossed, blurred>>

\* handleListAccounts.
List(t) ==
  /\ t.step = "list" /\ t.list = Nothing
  /\ Move(t, [t EXCEPT !.list = stored])
  /\ UNCHANGED <<server, page, count, crossed, blurred>>

\* sweepAccountChecks: an enabled account that is due.
Sweep(i) ==
  /\ stored[i] # Nothing /\ stored[i].enabled
  /\ Start([Task("sweep", "check", i) EXCEPT !.here = FALSE])
  /\ UNCHANGED <<server, page, crossed>>

Tick ==
  /\ clock < MaxClock
  /\ clock' = clock + 1
  /\ UNCHANGED <<stored, cached, page, tasks, count, crossed, blurred>>

-----------------------------------------------------------------------------
(* The page *)

\* What the buttons of the drawer look at.
checking == \E t \in tasks : t.here /\ t.of \in {"check", "rotate"} /\ t.step \notin {"ask", "answered", "quota"}
rotating == \E t \in tasks : t.here /\ t.of = "rotate"

Init ==
  /\ stored \in [Ids -> [key : Keys, enabled : {TRUE}, status : {"unchecked"}, known : {FALSE},
                         at : {0}]]
  /\ cached = [i \in Ids |-> Nothing] /\ clock = 0
  /\ shown = [i \in Ids |-> Nothing] /\ filter = {} /\ rows = Ids
  /\ drawer = Nothing /\ question = Nothing
  /\ tasks = {[n |-> 0, of |-> "open", step |-> "list", id |-> Nothing, key |-> Nothing,
               enable |-> FALSE, before |-> Nothing, built |-> Nothing, ok |-> FALSE,
               list |-> Nothing, here |-> FALSE]}
  /\ count = 1 /\ crossed = FALSE /\ blurred = FALSE

Free == question = Nothing

\* A card or a row of the list; the drawer of another account replaces the one open.
openDrawer(i) ==
  /\ Free /\ shown[i] # Nothing /\ drawer # i
  /\ drawer' = i
  /\ tasks' = {[t EXCEPT !.here = FALSE] : t \in tasks}
  /\ UNCHANGED <<server, shown, filter, rows, question, count, crossed, blurred>>

recheck ==
  /\ Free /\ drawer # Nothing /\ shown[drawer] # Nothing /\ ~checking
  /\ Start(Task("check", "check", drawer))
  /\ UNCHANGED <<server, page, crossed>>

\* rotateKeyNow, toggleDisabled, askDelete: each asks first.
Ask(of) ==
  /\ Free /\ drawer # Nothing /\ shown[drawer] # Nothing
  /\ of = "rotate" => ~rotating
  /\ question' = [of |-> of, id |-> drawer, enable |-> shown[drawer].status = "disabled"]
  /\ UNCHANGED <<server, shown, filter, rows, drawer, tasks, count, crossed, blurred>>

Confirm ==
  /\ question # Nothing
  /\ \E k \in Keys :
       /\ question.of # "rotate" => k = CHOOSE first \in Keys : TRUE
       /\ Start([Task(question.of, "ask", question.id) EXCEPT !.key = k, !.enable = question.enable])
  /\ question' = Nothing
  /\ UNCHANGED <<server, shown, filter, rows, drawer, crossed>>

Dismiss ==
  /\ question # Nothing
  /\ question' = Nothing
  /\ UNCHANGED <<server, shown, filter, rows, drawer, tasks, count, crossed, blurred>>

\* The answer to what was asked: a changed key is checked at once, everything
\* else is followed by the list.
Answered(t) ==
  /\ t.step = "answered"
  /\ IF t.of = "remove"
     THEN /\ filter' = filter \ {t.id} /\ rows' = rows \ {t.id}
     ELSE UNCHANGED <<filter, rows>>
  /\ Move(t, [t EXCEPT !.step = IF t.of = "rotate" /\ t.built = Nothing THEN "check" ELSE "list"])
  /\ UNCHANGED <<server, shown, drawer, question, count, crossed, blurred>>

\* loadAccounts: every account is replaced, without its quota; the filter forgets
\* what is gone, and an empty one becomes all of them.
Listed(t) ==
  /\ t.step = "list" /\ t.list # Nothing
  /\ shown' = [i \in Ids |-> IF t.list[i] = Nothing THEN Nothing ELSE toAccount(t.list[i])]
  /\ filter' = IF filter = {} THEN Present(t.list) ELSE filter \intersect Present(t.list)
  /\ drawer' = IF t.of = "remove" THEN Nothing ELSE drawer
  /\ Move(t, [t EXCEPT !.of = "quota", !.step = "quota", !.list = Nothing, !.here = FALSE])
  /\ UNCHANGED <<server, rows, question, count, crossed, blurred>>

\* loadQuota: for those shown by then.
QuotaComes(t) ==
  /\ t.of = "quota"
  /\ shown' = [i \in Ids |-> IF shown[i] # Nothing /\ stored[i] # Nothing
                             THEN [shown[i] EXCEPT !.quota = TRUE] ELSE shown[i]]
  /\ tasks' = tasks \ {t}
  /\ UNCHANGED <<server, filter, rows, drawer, question, count, crossed, blurred>>

\* account.status: the page loads the list.
Told(t) ==
  /\ t.step = "told"
  /\ Move(t, [t EXCEPT !.step = "list"])
  /\ UNCHANGED <<server, page, count, crossed, blurred>>

\* A task ends without its effect on the page: it was refused, its answer was
\* lost, its event was dropped, or its account is gone.
Fail(t) ==
  /\ t.step \notin {"built", "called"}
  /\ Lost(t)
  /\ UNCHANGED <<server, page, count, crossed>>

toggleAccountFilter(i) ==
  /\ Free /\ shown[i] # Nothing
  /\ LET next == IF i \in filter THEN filter \ {i} ELSE filter \union {i}
     IN filter' = IF next = {} THEN Present(shown) ELSE next
  /\ UNCHANGED <<server, shown, rows, drawer, question, tasks, count, crossed, blurred>>

Next ==
  \/ \E t \in tasks : \/ Connect(t) \/ StoreClient(t) \/ Verdict(t) \/ Update(t) \/ Remove(t)
                      \/ List(t) \/ Answered(t) \/ Listed(t) \/ QuotaComes(t) \/ Told(t) \/ Fail(t)
  \/ \E i \in Ids : Sweep(i) \/ openDrawer(i) \/ toggleAccountFilter(i)
  \/ \E of \in {"rotate", "enable", "remove"} : Ask(of)
  \/ recheck \/ Confirm \/ Dismiss \/ Tick

Spec == Init /\ [][Next]_vars

-----------------------------------------------------------------------------
Judged(a) == a.status = "unchecked" \/ (a.status = "ok") = (a.key \in Accepted)

\* The status of an account is the verdict on the key it has, whatever client
\* was cached, unless its key was changed during a check; and with one task at a
\* time the page shows it.
StatusAgrees ==
  /\ ~crossed => \A i \in Present(stored) : Judged(stored[i])
  /\ ~blurred /\ Apart /\ shown # [i \in Ids |-> Nothing] =>
       \A i \in Ids : IF stored[i] = Nothing THEN shown[i] = Nothing
                      ELSE shown[i] \in {[toAccount(stored[i]) EXCEPT !.quota = q] : q \in BOOLEAN}

\* Without the provisos, which the code breaks: a check that began with the old
\* key writes its verdict after the change (accounts.go:244).
StatusIsOfKey == \A i \in Present(stored) : Judged(stored[i])
=================================================================================
