------------------------------ MODULE Cleanup ------------------------------
(***************************************************************************)
(* Deleting unused volumes, addresses and console connections from the     *)
(* page of an account's resources (ResourcesView.vue).  OCI deletes        *)
(* asynchronously and goes on listing what it deletes for a while; the     *)
(* page remembers what it deleted in "removed" and leaves it out.          *)
(***************************************************************************)
EXTENDS FiniteSets, Naturals

CONSTANTS Accounts, Resources,
          Owner(_),  \* the account of a resource
          Nothing,   \* no data on the page
          MaxLoads   \* bound on the requests of the page

VARIABLES
  oci,        \* "there", "deleting" or "gone", as OCI has each resource
  accountId,  \* the account the page is about
  seq, asked, answers,  \* requests for the resources, and answers under way
  data,       \* the resources shown, or Nothing
  removed,    \* what this page deleted and OCI may still list
  acting,     \* resources with a deletion under way
  deletions,  \* the deletions: resource, and the account they were sent to
  deleted,    \* resources whose deletion was answered
  forgot      \* dropped from removed while OCI still listed them

vars == <<oci, accountId, seq, asked, answers, data, removed, acting, deletions, deleted,
          forgot>>

TypeOK ==
  /\ oci \in [Resources -> {"there", "deleting", "gone"}] /\ accountId \in Accounts
  /\ seq \in 0 .. MaxLoads
  /\ asked \subseteq [seq : 1 .. MaxLoads, account : Accounts]
  /\ answers \subseteq [seq : 1 .. MaxLoads, ids : SUBSET Resources]
  /\ data \in (SUBSET Resources) \union {Nothing}
  /\ removed \subseteq Resources /\ acting \subseteq Resources
  /\ deletions \subseteq [id : Resources, account : Accounts, accepted : BOOLEAN]
  /\ deleted \subseteq Resources /\ forgot \subseteq Resources

Listed(a) == {r \in Resources : Owner(r) = a /\ oci[r] # "gone"}

Init ==
  /\ oci = [r \in Resources |-> "there"] /\ accountId \in Accounts
  /\ seq = 1 /\ asked = {[seq |-> 1, account |-> accountId]} /\ answers = {}
  /\ data = Nothing /\ removed = {} /\ acting = {} /\ deletions = {} /\ deleted = {}
  /\ forgot = {}

load(a) ==
  /\ seq < MaxLoads
  /\ seq' = seq + 1
  /\ asked' = asked \union {[seq |-> seq + 1, account |-> a]}

\* Mutant: what is still in the data is shown again.
withRemoved(ids, gone) == ids

\* withoutRemoved: what the data no longer contain leaves "removed", and what
\* is still in it is left out of the data.
stillRemoved(ids, gone) == gone \intersect ids
withoutRemoved(ids, gone) == ids \ stillRemoved(ids, gone)

SelectAccount(a) ==
  /\ a # accountId
  /\ accountId' = a
  /\ data' = Nothing
  /\ load(a)
  /\ UNCHANGED <<oci, answers, removed, acting, deletions, deleted, forgot>>

Refresh ==
  /\ ~\E q \in asked \union answers : q.seq = seq
  /\ load(accountId)
  /\ UNCHANGED <<oci, accountId, answers, data, removed, acting, deletions, deleted, forgot>>

Serve(q) ==
  /\ asked' = asked \ {q}
  /\ answers' = answers \union {[seq |-> q.seq, ids |-> Listed(q.account)]}
  /\ UNCHANGED <<oci, accountId, seq, data, removed, acting, deletions, deleted, forgot>>

LoadFails(q) ==
  /\ asked' = asked \ {q}
  /\ data' = IF q.seq = seq THEN Nothing ELSE data
  /\ UNCHANGED <<oci, accountId, seq, answers, removed, acting, deletions, deleted, forgot>>

\* The data replaced by new ones: removed is checked against them.
Take(ids, gone) ==
  /\ data' = withoutRemoved(ids, gone)
  /\ removed' = stillRemoved(ids, gone)
  /\ forgot' = forgot \union {r \in gone \ ids : oci[r] # "gone"}

Loaded(p) ==
  /\ answers' = answers \ {p}
  /\ IF p.seq = seq THEN Take(p.ids, removed) ELSE UNCHANGED <<data, removed, forgot>>
  /\ UNCHANGED <<oci, accountId, seq, asked, acting, deletions, deleted>>

\* A button of the list and its confirmation; the request names the account
\* the page is about at that moment.
Delete(r) ==
  /\ data # Nothing /\ r \in data /\ r \notin acting
  /\ acting' = acting \union {r}
  /\ deletions' = deletions \union {[id |-> r, account |-> accountId, accepted |-> FALSE]}
  /\ UNCHANGED <<oci, accountId, seq, asked, answers, data, removed, deleted, forgot>>

Accept(d) ==
  /\ ~d.accepted /\ oci[d.id] = "there" /\ d.account = Owner(d.id)
  /\ oci' = [oci EXCEPT ![d.id] = "deleting"]
  /\ deletions' = (deletions \ {d}) \union {[d EXCEPT !.accepted = TRUE]}
  /\ UNCHANGED <<accountId, seq, asked, answers, data, removed, acting, deleted, forgot>>

OciForgets(r) ==
  /\ oci[r] = "deleting"
  /\ oci' = [oci EXCEPT ![r] = "gone"]
  /\ UNCHANGED <<accountId, seq, asked, answers, data, removed, acting, deletions, deleted,
                 forgot>>

\* run(): the entry goes at once, then the page reads the resources again.
Deleted(d) ==
  /\ d.accepted
  /\ deletions' = deletions \ {d}
  /\ acting' = acting \ {d.id}
  /\ deleted' = deleted \union {d.id}
  /\ IF data # Nothing THEN Take(data, removed \union {d.id})
     ELSE removed' = removed \union {d.id} /\ UNCHANGED <<data, forgot>>
  /\ load(accountId)
  /\ UNCHANGED <<oci, accountId, answers>>

DeleteFails(d) ==
  /\ ~d.accepted
  /\ deletions' = deletions \ {d}
  /\ acting' = acting \ {d.id}
  /\ UNCHANGED <<oci, accountId, seq, asked, answers, data, removed, deleted, forgot>>

Next ==
  \/ \E a \in Accounts : SelectAccount(a)
  \/ Refresh
  \/ \E q \in asked : Serve(q) \/ LoadFails(q)
  \/ \E p \in answers : Loaded(p)
  \/ \E r \in Resources : Delete(r) \/ OciForgets(r)
  \/ \E d \in deletions : Accept(d) \/ Deleted(d) \/ DeleteFails(d)

Spec == Init /\ [][Next]_vars

-----------------------------------------------------------------------------
\* "不挡住的话，它会随着刷新又出现、还带着删除按钮——用户以为没删掉，再点一次":
\* what was deleted and is still listed by OCI does not come back.  The code
\* breaks it.
RemovedStaysHidden == data # Nothing => deleted \intersect data = {}

\* It comes back, and only after it was forgotten too early: by a second deletion,
\* which checks "removed" against a list that already leaves the first one
\* out, or by the list of another account.  One deletion at a time stays
\* hidden through any number of overlapping reloads.
HiddenUnlessForgotten == data # Nothing => deleted \intersect data \subseteq forgot

\* A deletion goes to the account that owns the resource: the list of one
\* account is never shown, and never acted on, as that of another.
DeletesInOwnAccount == \A d \in deletions : d.account = Owner(d.id)
=============================================================================
