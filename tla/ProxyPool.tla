----------------------------- MODULE ProxyPool -----------------------------
(***************************************************************************)
(* The proxies and the accounts that go out through them: the server's     *)
(* binding rules (store/proxy.go, store/account.go), the page that binds,  *)
(* switches, deletes and imports proxies (ProxiesView.vue), and the drawer *)
(* that tests and saves a new account through a chosen egress              *)
(* (AddAccountDrawer.vue).                                                 *)
(*                                                                         *)
(* A handler of the server reads the bindings in one statement and writes  *)
(* in another; the single database connection orders statements, not       *)
(* handlers, so calls interleave between the two.                          *)
(***************************************************************************)
EXTENDS Naturals, FiniteSets

CONSTANTS Proxies, Accounts,
          NewAccount,  \* the account the drawer is about to add
          Direct,      \* the machine's own address: no proxy
          Unset,       \* nothing chosen, nothing shown
          Texts,       \* lists of proxies one may paste; Unset is an empty box
          MaxCalls     \* bound on the changes asked of the server

VARIABLES
  known,     \* proxies of the pool
  enabled,   \* those not switched off
  joined,    \* accounts of the server
  bound,     \* the proxy of each account, or Direct
  calls,     \* bind, create and delete calls the server works on
  made,      \* how many calls were made
  contested, \* proxies on which the check of one call fell between the
             \* check and the write of another
  list,      \* the pool as ProxiesView shows it
  pending,   \* requests for the list the server has not read yet
  answers,   \* lists on their way to the page
  text,      \* the text box of the import
  preview,   \* the text the shown preview is of
  parsing,   \* the texts of the dry runs under way
  pool,      \* the free proxies as the drawer read them, Unset before
  egress,    \* form.egress
  testing,   \* the egress of the test under way
  tested,    \* the egress of the test whose result is shown
  chose,     \* the user chose the egress
  saving

serverVars == <<known, enabled, joined, bound, calls, made, contested>>
pageVars == <<list, pending, answers, text, preview, parsing>>
drawerVars == <<pool, egress, testing, tested, chose, saving>>
vars == <<known, enabled, joined, bound, calls, made, contested, list, pending, answers,
          text, preview, parsing, pool, egress, testing, tested, chose, saving>>

Everyone == Accounts \union {NewAccount}
Egresses == Proxies \union {Direct}
Calls == [kind : {"bind", "create", "delete"}, account : Everyone \union {Unset},
          proxy : Egresses, checked : BOOLEAN]
Lists == [known : SUBSET Proxies, enabled : SUBSET Proxies, bound : [Everyone -> Egresses]]

TypeOK ==
  /\ known \subseteq Proxies /\ enabled \subseteq known
  /\ joined \subseteq Everyone /\ bound \in [Everyone -> Egresses]
  /\ calls \subseteq Calls /\ made \in 0 .. MaxCalls /\ contested \subseteq Proxies
  /\ list \in Lists /\ pending \in Nat /\ answers \subseteq Lists
  /\ text \in Texts \union {Unset} /\ preview \in Texts \union {Unset}
  /\ parsing \in Texts \union {Unset}
  /\ pool \in (SUBSET Proxies) \union {Unset}
  /\ egress \in Egresses \union {Unset}
  /\ testing \in Egresses \union {Unset} /\ tested \in Egresses \union {Unset}
  /\ chose \in BOOLEAN /\ saving \in BOOLEAN

\* What ListProxies and ProxyBindings return.
Pool == [known |-> known, enabled |-> enabled, bound |-> bound]

Init ==
  /\ known = Proxies /\ enabled = Proxies
  /\ joined = Accounts
  /\ bound = [a \in Everyone |-> Direct]
  /\ calls = {} /\ made = 0 /\ contested = {}
  /\ list = Pool /\ pending = 0 /\ answers = {}
  /\ text = Unset /\ preview = Unset /\ parsing = Unset
  /\ pool = Unset /\ egress = Unset /\ testing = Unset /\ tested = Unset
  /\ chose = FALSE /\ saving = FALSE

-----------------------------------------------------------------------------
(* The server                                                              *)

Call(kind, a, p) ==
  /\ made < MaxCalls
  /\ made' = made + 1
  /\ calls' = calls \union {[kind |-> kind, account |-> a, proxy |-> p, checked |-> FALSE]}

\* Every answer makes the page read the list again; the drawer stops waiting.
Finish(c) ==
  /\ calls' = calls \ {c}
  /\ pending' = IF c.kind = "create" THEN pending ELSE pending + 1
  /\ saving' = IF c.kind = "create" THEN FALSE ELSE saving

\* Mutant: a proxy in use is only warned of.
DuplicateOfNobody(p, a) == FALSE

\* proxypool.DuplicateOf: the proxy is some other account's.
DuplicateOf(p, a) == \E b \in joined \ {a} : bound[b] = p

Refused(c) ==
  /\ c.proxy # Direct
  /\ IF c.kind = "delete" THEN \E a \in joined : bound[a] = c.proxy
     ELSE c.proxy \notin known \/ DuplicateOf(c.proxy, c.account)

\* The first half of BindProxy, CreateAccount and DeleteProxy: the bindings.
Check(c) ==
  /\ ~c.checked
  /\ IF Refused(c) THEN Finish(c) /\ UNCHANGED contested
     ELSE /\ calls' = (calls \ {c}) \union {[c EXCEPT !.checked = TRUE]}
          /\ contested' = contested \union
               {p \in {c.proxy} \ {Direct} : \E d \in calls : d.checked /\ d.proxy = p}
          /\ UNCHANGED <<pending, saving>>
  /\ UNCHANGED <<known, enabled, joined, bound, made>>

\* The write of BindProxy. An account deleted meanwhile is not modelled.
BindWrites(c) ==
  /\ c.checked /\ c.kind = "bind"
  /\ bound' = [bound EXCEPT ![c.account] = c.proxy]
  /\ Finish(c)
  /\ UNCHANGED <<known, enabled, joined, made, contested>>

\* The INSERT of CreateAccount; a tenancy or code in use refuses it.
CreateWrites(c) ==
  /\ c.checked /\ c.kind = "create"
  /\ \/ /\ joined' = joined \union {c.account}
        /\ bound' = [bound EXCEPT ![c.account] = c.proxy]
     \/ UNCHANGED <<joined, bound>>
  /\ Finish(c)
  /\ UNCHANGED <<known, enabled, made, contested>>

DeleteWrites(c) ==
  /\ c.checked /\ c.kind = "delete"
  /\ known' = known \ {c.proxy}
  /\ enabled' = enabled \ {c.proxy}
  /\ Finish(c)
  /\ UNCHANGED <<joined, bound, made, contested>>

Server == \E c \in calls : Check(c) \/ BindWrites(c) \/ CreateWrites(c) \/ DeleteWrites(c)

-----------------------------------------------------------------------------
(* ProxiesView                                                             *)

load == pending' = pending + 1

ReadList ==
  /\ pending > 0
  /\ pending' = pending - 1
  /\ answers' = answers \union {Pool}
  /\ UNCHANGED <<serverVars, list, text, preview, parsing, drawerVars>>

\* The latest answer to arrive is shown, whichever it is.
ShowList(l) ==
  /\ list' = l
  /\ answers' = answers \ {l}
  /\ UNCHANGED <<serverVars, pending, text, preview, parsing, drawerVars>>

\* proxyId -> accountId, over the bindings the page has.
boundTo(p) == {a \in Everyone : list.bound[a] = p}

optionsFor(a) == {Direct} \union {p \in list.enabled : boundTo(p) \subseteq {a}}

bind(a, p) ==
  /\ a \in joined /\ p \in optionsFor(a)
  /\ Call("bind", a, p)
  /\ UNCHANGED <<known, enabled, joined, bound, contested, pageVars, drawerVars>>

remove(p) ==
  /\ p \in list.known
  /\ Call("delete", Unset, p)
  /\ UNCHANGED <<known, enabled, joined, bound, contested, pageVars, drawerVars>>

\* The switch of a row: one statement of the server, then the list again.
toggle(p) ==
  /\ p \in list.known /\ made < MaxCalls
  /\ made' = made + 1
  /\ enabled' = IF p \in list.enabled THEN enabled \ {p} ELSE enabled \union ({p} \cap known)
  /\ load
  /\ UNCHANGED <<known, joined, bound, calls, contested, list, answers, text, preview,
                 parsing, drawerVars>>

\* watch(importText): another text, and the preview is taken down.
EditText ==
  /\ text' \in (Texts \union {Unset}) \ {text}
  /\ preview' = Unset
  /\ UNCHANGED <<serverVars, list, pending, answers, parsing, drawerVars>>

parsePreview ==
  /\ text # Unset /\ parsing = Unset
  /\ parsing' = text
  /\ UNCHANGED <<serverVars, list, pending, answers, text, preview, drawerVars>>

Parsed ==
  /\ parsing # Unset
  /\ preview' = IF parsing = text THEN parsing ELSE preview
  /\ parsing' = Unset
  /\ UNCHANGED <<serverVars, list, pending, answers, text, drawerVars>>

\* The imported proxies are further ones, that no account has yet.
confirmImport ==
  /\ preview # Unset /\ parsing = Unset /\ made < MaxCalls
  /\ made' = made + 1
  /\ text' = Unset /\ preview' = Unset
  /\ load
  /\ UNCHANGED <<known, enabled, joined, bound, calls, contested, list, answers, parsing,
                 drawerVars>>

Page ==
  \/ ReadList \/ \E l \in answers : ShowList(l)
  \/ \E a \in Everyone, p \in Egresses : bind(a, p)
  \/ \E p \in Proxies : remove(p) \/ toggle(p)
  \/ EditText \/ parsePreview \/ Parsed \/ confirmImport

-----------------------------------------------------------------------------
(* AddAccountDrawer                                                        *)

\* The free proxies are read when the drawer opens; with none free, or if
\* they cannot be read, the egress is the machine's own.
loadProxies ==
  /\ pool = Unset
  /\ pool' \in {{}, {p \in enabled : ~DuplicateOf(p, NewAccount)}}
  /\ egress' = IF pool' = {} THEN Direct ELSE egress
  /\ UNCHANGED <<serverVars, pageVars, testing, tested, chose, saving>>

\* watch(form.egress): another way out, and the result of the test goes.
ChooseEgress ==
  /\ pool # Unset
  /\ egress' \in (pool \union {Direct}) \ {egress}
  /\ chose' = TRUE
  /\ tested' = Unset
  /\ UNCHANGED <<serverVars, pageVars, pool, testing, saving>>

\* canTest: an egress is set.
runTest ==
  /\ testing = Unset /\ egress # Unset
  /\ testing' = egress
  /\ tested' = Unset
  /\ UNCHANGED <<serverVars, pageVars, pool, egress, chose, saving>>

TestEnds ==
  /\ testing # Unset
  /\ tested' = testing
  /\ testing' = Unset
  /\ UNCHANGED <<serverVars, pageVars, pool, egress, chose, saving>>

save ==
  /\ egress # Unset /\ ~saving /\ NewAccount \notin joined
  /\ Call("create", NewAccount, egress)
  /\ saving' = TRUE
  /\ UNCHANGED <<known, enabled, joined, bound, contested, pageVars, pool, egress, testing,
                 tested, chose>>

Drawer == loadProxies \/ ChooseEgress \/ runTest \/ TestEnds \/ save

Next ==
  \/ Server /\ UNCHANGED <<list, answers, text, preview, parsing, pool, egress, testing,
                           tested, chose>>
  \/ Page
  \/ Drawer

Spec == Init /\ [][Next]_vars

-----------------------------------------------------------------------------
\* "一条代理只能绑一个账号，重复绑定直接拒绝" (store/proxy.go): no two
\* accounts go out through one proxy.  Two overlapping calls break it.
OneAccountPerProxy ==
  \A a, b \in joined : a # b /\ bound[a] = bound[b] => bound[a] = Direct

\* Apart from calls on one proxy whose checks and writes overlap, the rule
\* holds however bindings, deletions, new accounts and stale lists mix, and
\* the proxy of an account is one of the pool: an account never ends up on an
\* egress that is gone.
SharingNeedsOverlap ==
  \A a \in joined : bound[a] # Direct /\ bound[a] \notin contested
    => bound[a] \in known /\ \A b \in joined \ {a} : bound[b] # bound[a]

\* "确认导入 N 条" counts the text that will be imported: the shown preview is
\* of the text in the box, however late the dry run answered.
PreviewIsOfText == preview # Unset => preview = text

\* "换了出口，之前那次测试走的是另一条路，结果作废" (AddAccountDrawer.vue):
\* the result on the screen is of a test through the egress chosen now.  A test
\* that ends after the choice breaks it.
ResultIsOfEgress == tested # Unset => tested = egress

\* A tenancy is never reached from the machine's own address while a free
\* proxy was on offer and the user did not ask for it.
NeverDirectUnasked == testing = Direct => chose \/ pool = {}
=============================================================================
