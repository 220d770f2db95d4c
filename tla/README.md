# TLA+ models of oci-core

oci-core is a self-hosted panel for Oracle Cloud accounts: a Go server
(`src/internal`, entry `src/cmd/server/main.go`) over one SQLite file, with a
Vue front end (`src/web/src`). The server keeps a cache of what exists at Oracle,
runs long operations as background jobs, hunts for scarce capacity, and talks to
Oracle through a rate-limited client per account. The front end keeps a copy of
the server's state, refreshed by answers, by a stream of events and by timers.
Almost every part is a handful of goroutines or pending answers around a mutex, a
table or a reactive object, and slow calls; what can go wrong lies between those.
This directory holds models of these parts in TLA+, their TLC configurations, and
proofs checked by TLAPS.

Contents: [1 inventory](#1-inventory), [2 the modules](#2-the-modules-and-the-code),
[3 runs](#3-runs), [4 fairness](#4-fairness), [5 proofs](#5-proofs),
[6 where code and comments disagree](#6-where-code-and-comments-disagree),
[7 not modelled](#7-not-modelled), [8 plan](#8-plan). To run:
`tlc -config X.cfg <module>` with the module of section 3, and `tlapm <module>.tla`
for the modules named `*Proofs`.

## 1 Inventory

The server:

| part | state | operations | hard behaviour | correct when |
|---|---|---|---|---|
| Jobs: queue (`jobsvc/service.go`, `store/job.go`) | rows of `jobs`; `pending`, `keyLocks`, the channel `sem` | Submit, run, Cancel, Delete, Recover | lock objects dropped while others use them, a cancel racing the start, crash between two saves | one body per instance, four at most, rows say what happened, every job ends |
| Jobs: progress (`jobsvc.Progress`) | the job in memory, its row, events | Step, Set, SetInstance, finish | several goroutines save snapshots outside the lock | the final row is complete |
| Capacity hunter (`huntsvc`, `store/hunt.go`, `httpapi/hunt.go`) | rows of `hunt_tasks`; `inflight` | tick, attempt, create, pause, resume, delete | stale rows in a tick, retried launches, deadline, throttling, crash | one round and one instance per task, no task starves |
| Instance cache (`instancesvc`, `store/instance.go`) | rows of `instances`; `watching`; `syncMu` | SyncAll, SyncAccount, Action, Terminate, Rename, Reshape, Watch, ResumeWatches; launches of jobs and hunter | every writer writes what it read seconds ago | live rows are kept, cache converges to Oracle, one poller per instance |
| Event bus (`instancesvc/events.go`) | subscribers with buffers of 64 | Subscribe, Publish, unsubscribe | a full buffer drops | a page ends up with what the server has |
| OCI client (`ociclient/client.go`, `limiter.go`) | a pool of slots per client and a global one | one HTTP call per function, retries | nested pools, contexts that end in a queue, retries of requests that took effect | bounded concurrency, no circle of waiting, no lost slot |
| Connection factory (`ociconn`) | clients by account, keyed by `updated_at` | For, ForID, Invalidate | building a client races an update of the key | a client never outlives the key it was made from |
| Proxies (`store/proxy.go`, `httpapi/proxy.go`) | proxies and their bindings | import, check, bind, delete | check and update are two statements | an exclusive proxy is bound once, no account is bound to a deleted one |
| Accounts (`httpapi/accounts.go`, `accountcheck.go`, `passwordpolicy.go`) | the account's row; the policy of its domain at Oracle | check, sweep, change of key, switch, remove, quota | a verdict about an old key, an answer read before a change | the status is of the key |
| Notification channels (`httpapi/notifications.go`) | channels with secrets | list, create, change, delete, test | masked secrets come back | a secret is never replaced by its mask |
| Login and sessions (`store/session.go`, `httpapi/auth.go`) | users, sessions, failed attempts | login, second factor, promotion, logout | promotion races a reset | no session outlives what it was granted on |
| Capacity monitor (`capacitysvc`, `store/capacity.go`) | watches, last result | probe, notify | - (one goroutine, one watch after another) | one notification for each change |
| Network preparation (`netsvc`) | Oracle's network objects | find or create, change of an address | a failure between two calls | repeated preparation ends in the same network |
| Store (`store/store.go`) | one SQLite connection | statements | serialises everything | a statement is atomic |

The front end (each is a page or a drawer over the store `store/index.ts`):

| part | state | operations | hard behaviour | correct when |
|---|---|---|---|---|
| Jobs on the page | `jobs`, `jobCallbacks`, the event stream | trackJob, upsertJob, finishJob, loadJobs | the end of a job may come before the answer to its submission, or be dropped | its end is announced once, its callback runs once |
| Instances on the page | `instances`, `syncing`, highlights | loadInstances, onEvent, runAction, terminate | a reload replaces every row while requests hold old ones | rows are the server's when all is handled |
| Session | `authed`, route, the login form | guard, login, second factor, settings, 401 listener | the session ends while a chain of requests is under way | the page is where its session says |
| Polled pages (HuntView, CapacityView) | the list, a timer | poll, toggle, remove | late readings put rows back | the list catches up |
| Panels (billing, egress, metrics, probe, network, volumes, resources) | what is selected, what is shown, a counter | select, ask, answer | late answers of another selection | what is shown is of what is wanted |
| Launch wizard | the form and six lists | pick, next, back, submit | lists depend on each other | the form fits together |
| Instance drawer, boot volume editor | detail, rescue, sliders, open questions | read, submit jobs, confirm | the instance changes under an open question | what is named is what is done |
| Security rules | lists of the last load, an open question | add, delete, replace, save | a save replaces the whole list | what is sent is what was seen |
| Resources clean-up | list, `removed` | delete, reload | Oracle still lists what is deleted | a deleted resource stays hidden |
| Audit log, columns, instance table | pages; stored choices; notes, names, selection | load more, reorder, edit in place | the log moves; choices of older versions; failed saves | pages join; every column once; notes are stored |
| Demonstration server (`demo/server.ts`) | all of the server's state, in the page | handlers and timers | jobs hold objects that are removed | instances have accounts, transitions end |

How they interact: handlers of `httpapi` submit jobs; a job's body calls the
instance service, which writes the cache, starts a watch loop and publishes on
the bus; the hunter launches through the client and writes the same cache; all
of them obtain clients from the connection factory and slots from the limiter. The
page submits, reads lists and hears events, three channels that wait for nobody.
The store is the only state that survives a crash. Since it has one connection,
one SQL statement is one step in every module here, and what the code does with the
result of a statement is another step. In the browser one callback runs to its end,
so everything between two awaits, watchers included, is one step.

`PROJECT.json` lists the parts with their files, the hazards with their lines and
the properties that cover them, and for every definition the code it stands for.

## 2 The modules and the code

### The server

**JobService** - `jobsvc.Service`. Each submission is a model value; ids are not
reused. `pc[j]` is the line where the submitter, then the goroutine of `run`,
stands; `row` the status column; `pending`, `keyLocks`, `sem` the fields of the
service; `refs` and `full` the fields of each lock object (an object is named by
the job that made it, so that a dropped lock and its successor differ); `lockOf`
the local variable the deferred unlock uses. Submit is two steps (the row, then
registration and `go`), `lockKey` three (reference, channel or cancellation,
release), the slot select two (a canceled context may still lose the `select`),
the final save and the deferred releases one each, in the code's order. Cancel is
a request of its own with its three statements. `Crash` loses everything but the
rows, `Recover` is `InterruptUnfinishedJobs` and `PruneJobs`.

**JobPromise** - what a reader of the job list may rely on, stated on the status
column alone: queued, running (at most `MaxConcurrent`, never two of one
instance), one final status, deletion. `KeepsPromise` in JobService says that
JobService implements it; the mapping is the identity on `row`, everything else
is hidden.

**JobProgress** - one running job. A body is a map from goroutines to sequences of
calls; the bulk action has several reporters behind a semaphore and an atomic
counter, a launch has one. `save` is three steps (snapshot under the lock,
`SaveJob`, publication), and steps of different goroutines interleave. Steps are
kept as a set of (reporter, number), percentages as numbers.

**HuntScheduler** - `huntsvc`. `row` is a hunt task's row, `batch` what a tick has
read, `inflight` the map, `round[w]` the local state of a goroutine in `attempt`,
`built` the instances at Oracle that carry the task's tag. A round begins (reads
the task anew), checks for the tag if `attempts > 0`, prepares, launches through the
client's retry loop (`RetryOr`, `LaunchLost`: the request took effect but its answer is
gone), and records. `Deadline` may fall anywhere in a round. Time is abstract: a
task's `next_at` has passed (`due`, ordered by `older`), has not, or waits for the
end of a throttling (`held`).

**InstanceCache** - the rows of one account in one region; of a row the lifecycle
state, and per pass whether its `synced_at` is older than `startedAt` (`stale`).
Oracle moves instances by itself (`Settle`) and for the console's user
(`Console`). A pass is `PassBegins` (the time is taken), `PassLists`,
`PassWrites` for each instance, `PassPrunes`. `All` is the background pass, which repeats,
and the other members of `Syncs` are calls of SyncAccount, which does not take
`syncMu`. A watch loop reads the row, asks Oracle, applies the answer, and after an
instance has settled refreshes network and boot volume, each of which reads the row and
writes it back whole. Requests read the row, call Oracle, and write either the state
(Action, Terminate) or the row they have read (Rename, Reshape, launch).

**RequestSlots** - `acquireSlots` and the retry loop around it. `place` is where a
request stands: in the queue of the global channel, in that of its client, at Oracle,
between the two receives of the deferred release, in backoff. `global` and `tenancy` are how
full the channels are. `ContextEnds` may come at every place; a request that is in a
queue then leaves it (or wins the `select` all the same). `Rebuild` gives an account a
new client, with a pool of its own, while requests of the old one are under way.

### The page and what is behind it

A request of the page is at least three steps everywhere: it is asked, the server
serves it, its answer comes; between any two anything else may happen, and the answer or
the request may be lost. What the code captured before an `await` is a field of the
request. History variables (`late`, `blurred`, `overlapped`, `lapsed`, `forgot`,
`contested`, `crossed`, `reshaped`, `behind`) record that a case occurred for which the code
makes no promise; properties with such a proviso say so in their comment, and the
same claim without it is listed in section 6.

**LatestAnswer** and **Panels** - LatestAnswer is the abstract specification of a panel: it
shows nothing or the data of one key, and data appear only if they belong to what is
wanted then. Panels models seven of them (the metrics of an instance, billing, egress, probe,
network, volumes, resources); each is a set of traits - what a selection clears, what asks again,
what a failure leaves - read off its code, and one set of actions serves all. `seq` is the request
counter of the code (`detailSeq`, `networkSeq` and so on). `ShowsLatest` says that Panels implements
LatestAnswer with `wanted` mapped to the key of the latest request.

**PageJobs** - `trackJob`, `upsertJob`, `finishJob`, `loadJobs` and `api/events.ts`. `Advance` moves a
job at the server and publishes into the bounded `stream`, which drops when it is full;
`TrackJob` is the answer to a submission; `LoadJobs` the answer to a list; `ApplyEvent` the
listener; `Connect` and `Break` the EventSource, whose second opening asks for the list.
**PageInstances** - the rows over the same stream: `ApplyEvent` with the events of an instance and of a synchronisation,
`RunAction`/`EndAction` and `Terminate`/`EndTerminate` with the row they captured (a later reload
detaches it), `LoadInstances` with what it copies over, `RefreshSoon` the debounced reload,
`EndHighlight` the timer. **PageSession** - every call carries what the code does after it
(`call.next`): the guard's `ensureAuthed`, login, set-up, second factor, `afterLogin`'s loads, logout, settings, and the
401 listener; `cookie` is the server's session, which may end at any time. **PolledList** - a list on a timer
with row switches and deletions, as HuntView and CapacityView have it.

**LaunchWizard** - CreateInstanceDrawer: a list is represented by the key of the question it answers;
`PickAccount`, `PickRegion`, `PickDomain`, `PickShape` include the watchers they trigger, the `*Come` and
`*Fail` actions are the answers in any order. **InstanceDrawer** - the detail and its readings, network jobs with their
ends on the stream, the rescue of a boot volume over two instances; `confirm` is the open question with what
it names and what its answer would send. **ConfigEditor** - BootVolumeEditor: the sliders, the watcher that makes them follow the instance
(`Refresh`), what is asked about a shape, and the two requests with what was asked, what is sent and what the instance had then.
**NetworkRules** - NetworkView's rules with `handleUpdateSecurityRules` and a list at Oracle that others change;
`dialog` is an open question with the copy its answer will change; the two tests for "open to the world",
the page's and the server's, are modelled separately. **ProxyPool** - `BindProxyToAccount`, creation of accounts and
deletion as check and write; the pool as a page shows it, the dry run of an import, the test of a new account. **Cleanup** - resources
as Oracle has them ("there", "deleting", "gone"), `removed` and its pruning after each answer. **AuditLog** - pages by id, reloads by `auditSeq`, a log
that grows and is purged. **Channels** - `maskChannel` and `UpdateChannel`'s merge, the form, the matrix, whose
answers write into the object clicked on (`turn` tells objects of an older list). **PasswordPolicy** - reading and changing an expiry at
an Oracle that need not obey. **Accounts** - a task is a request with those that follow it, or a check of
the sweep; `Connect`/`StoreClient` are the two halves of `Factory.For`, `Verdict` the write of a check, `Tick` the second
that `updated_at` is measured in. **Columns** - `lib/columns.ts`, the menu and the drag of a width; what is found in the
browser's storage is any of `Found`. **InstanceTable** - notes and names edited in place, shown at once and taken back on failure; filters, groups,
selection, sorting as a relation. **DemoServer** - handlers of `demo/server.ts`; a job keeps the objects its request found, `JobTimer` and
`StateTimer` are the timers, and a launch or a removal changes the list in between. **Lists** - JavaScript's `filter` (`Kept`), as
both of these need it.

`MC*` give the constants values. `MCPage` and `MCViews` hold several worlds side by side: the initial state chooses one (`view`),
which moves while the others stand still, so that one run checks them all without multiplying their states; their
properties select the world's. Definitions with a comment "Mutant:" are not part
of the models: each is a plausible mistake in the code, which `PROJECT.json`
pairs with the property that must notice it.

## 3 Runs

| run | module | question | states |
|---|---|---|---|
| JobSafety | MCJobService | three jobs of one instance, two slots, one lost write, one crash: exclusion, honest rows, one final status | 804 516 |
| JobPromise | MCJobService | refinement of JobPromise and `SubmittedJobEnds`, with a crash | 12 450 |
| JobSlots | MCJobService | two jobs of one instance and one of none share one slot; a canceled job leaves the queue although no body returns | 55 754 |
| JobReports | MCJobProgress | three reporters of a bulk action, or one launch, with one failed save | 14 305 |
| HuntRounds | MCHuntScheduler | one task, two round goroutines, every kind of fault once, two requests | 107 505 |
| HuntLive | MCHuntScheduler | two accounts behind a LIMIT of one: nobody starves | 48 598 |
| InstanceCache | MCInstanceCache | two passes, one request at a time, the console, one fault and one crash: rows of live instances are kept and the cache converges | 697 330 |
| Page | MCPage | jobs, instances, session, a polled list, the demonstration server: what an open page keeps | 734 938 |
| Views | MCViews | panels, wizard, drawer, rules, clean-up, audit log, proxies, channels, policy, accounts, columns, editor, table; and the limits on requests | 684 945 |
| JobCancelRace, HuntRetry, PageMissesEnd | | statements of comments and tests that the code does not keep (section 6): TLC is expected to find a counterexample | |

Bounds, and why they are enough. Jobs: three jobs of one instance let one hold the
lock, one wait and one look the object up while it is dropped, with a slot to spare so
that only the lock keeps them apart; two slots instead of four, because a slot has no
identity. Reporters: the overtaking of a save needs two, the third makes
a save that is neither first nor last; `Share` is small, only its division matters. Hunter: a second round
of a task would need a second goroutine, starvation a second task; one retry is enough
to launch twice. Cache: instances meet only inside a pass, which writes them one by one,
so one instance exhibits all races of its row; two passes are what may overlap (SyncAll
excludes itself); one request at a time with two in all, because requests interact through the row
and the watch loop, which the console and the passes disturb at any moment. Faults are
bounded by one: each property that excludes faults counts them, and
those that include them are about a single loss. Requests to Oracle: three of them, two slots of all accounts and one of
each client: one at Oracle, one in each queue. Page: one job suffices because jobs of a page meet only in the
buffer and in lists, which are bounded by two, so that one event is dropped, a list overtakes an event and an
event a list; one row, two changes and one more reading give every order of event, answer and
reload; three clicks and one lost session let each chain of requests be cut at each place; the demonstration has the two accounts and two instances of a script (`First`, `OwnerOf`), a third
instance to launch and two requests under way, so that a job and its object's removal cross. Panels: three subjects and two
ranges, three requests, so that an answer may be older than the last two. The pages that edit: two requests under way is what overlaps;
instances and accounts come in pairs where something could go to the wrong one. A world that would be too large with all its inputs is there two or three
times with different ones (`MaxPicks`, `MaxEdits`, tabs), which `MCViews` lists. The theorems of section 5 hold for all bounds.

`CHECK_DEADLOCK FALSE` stands where the system may stop: a job that has ended, a hunter
whose requests, attempts and faults are used up, a page whose bounds have run out.

What the properties are for:

- `SameInstanceRunsSerially`, `AtMostMaxConcurrent`: the reference-counted lock of `lockKey`
  is dropped from the map under `keyMu` when its count falls to zero; a count one too
  low yields two lock objects for one instance.
- `NoOrphanedRow`, `StatusTellsWhetherItRan`, `FinalMeansFinal`: `SaveJob` is an upsert that
  would bring a deleted row back, and a crash may leave "running" rows behind.
- `FinalSaveIsComplete`, `EveryStepIsKept`, `ProgressOnlyGrows`: older snapshots may be
  written after newer ones; what `finish` saves is nevertheless complete.
- `OneRoundPerTask`, `CheckedLaunchIsSafe`, `SuccessNamesInstance`, `PauseHolds`: a round outlives
  many ticks and the user's requests; its write must respect both.
- `OneLoopPerInstance`, `LiveRowIsKept`, `CacheConverges`: passes, loops and requests
  overwrite each other's rows with old states; no live row is deleted as long as
  statements succeed, and the state is right in the end.
- `WaitersAwaitOracle`: behind every full channel is a request that can go on; a context that ends in the
  second queue must give the first slot back.
- `CallbackRunsOnce`, `EndIsAnnounced`: the end of a job is heard of in three ways and in any order.
- `PageCatchesUp`, `ListCatchesUp`, `DrawerCatchesUp`, `AgreesAlone`: rows, lists, details and forms are the server's
  once everything is handled, with the provisos their comments name.
- `PlacedBySession`: wherever a chain of requests is cut, nobody sees the panel without a session nor is left at the login.
- `InstancesHaveAccounts`, `StatesSettle`: the timers of the demonstration run over objects that may be gone.
- `ShowsLatest`, `OwnAccount`, `FormFits`, `PagesJoin`: no late answer gets on a page that wants something else.
- `NamedIsActedOn`, `SentAsSeen`, `NoOpenRuleUnasked`: what was confirmed is what is done, although what it was copied from changes.
- `HiddenUnlessForgotten`, `SharingNeedsOverlap`: the exact condition under which a promise of the code fails.
- `SecretKept`, `TableWhole`: what comes back from a form, or from the browser's storage, never damages what is kept.

## 4 Fairness

- Weak fairness of the steps of goroutines: the Go scheduler runs what can run, and
  calls to Oracle and to SQLite return (HTTP timeouts, contexts).
- Strong fairness of the two channel sends of JobService (`AcquireKey`, `AcquireSlot`): the
  runtime queues the senders of a full channel first come, first served, which weak
  fairness does not express.
- Bodies return (`BodyFairness`, only for JobPromise): `run` gives each a context with
  a timeout. `CancelNeedsNoSlot` is checked without it.
- The process is started again after a crash (`Recover`): `docker-compose.yml` says
  `restart: unless-stopped`. Crashes themselves are bounded, otherwise nothing would ever finish.
- Hunter: the ticker fires, `next_at` passes, a throttling ends, rounds proceed (their context
  has a deadline). Requests are never fair.
- Cache: SyncAll repeats (`StartBackgroundSync`), passes, loops and requests proceed, Oracle
  finishes a transition. Nothing is assumed of SyncAccount, of the console, or of Oracle's
  answers: `LoopGetsNoAnswer`, `LoopGivesUp` may happen again and again, so convergence
  never rests on the watch loops. Failing statements are bounded; a store that never
  works again converges to nothing.
- Polled list: the interval fires while the page is mounted and visible, requests are served and answers arrive (or fail:
  the failure is a step of its own that is not assumed to happen, or not to).
- Demonstration: the browser fires every timer that was set. Its users are not fair.
- PageMissesEnd: the server, the stream, lists and answers all proceed, so the counterexample is no page that
  merely stops; what is missing is a reading that nobody asks for.

## 5 Proofs

All theorems are of the form "every behaviour of `Spec`" and hold for any values of
the constants that satisfy the named assumptions (finite sets of jobs, reporters, tasks, requests;
non-negative bounds; a capacity of at least one). The parts of PagesProofs are instances, so their theorems state
what they assume themselves, in operators named `...Limits`: that bounds are natural numbers, that the value for "nothing" or for
"a new channel" is none of the values it stands beside, that the data the world is given have their type.

**JobServiceProofs.** `SameInstanceRunsSerially` is not inductive: it says nothing of who
owns a lock. `IInv` adds what each place of a goroutine says about its reference
(`PlaceInv`), that lock objects are found in the map by all who use them, counted
exactly and owned by one (`LockInv`), and that `sem` counts the goroutines in a slot
(`SlotInv`). The cardinalities need that jobs are finite. Theorems: `Inductive`,
`TypeCorrect`, `InstanceExclusion`, `ConcurrencyBound`, `RefsExact`. `RowInv` then ties the row to the
goroutine: a queued row belongs to a place before the body, a final row to none that will save again. With it
`StatusHonest`, `RowsOwned`, `FinalStays`, and `Refinement`: every step of a behaviour
without lost writes is a step of JobPromise or leaves the rows alone. The premise
is necessary: a lost final save leaves "running" while another job of the instance starts.

**JobProgressProofs.** `FinalInv`: after `finish` has been called no reporter is active,
so the snapshot of the last save is the job itself. `StepsInv`: a reporter's steps up to where it stands are in
the job (`Appended`), and it stands within its sequence (`Standing`), whatever the others append. Theorems `ProgressTypes`,
`LastSaveComplete`, `StepsKept`, `MemoryProgressGrows` for any bodies and number of reporters.

**HuntSchedulerProofs.** `RoundInv`: rounds under way are in `inflight`, and a round that has
looked for the tag and has not sent its request knows that no instance exists, because only
a round of the same task could have made one. `SuccessInv`: a round only reports success when an instance
carries the tag, and a create request between its check and its INSERT has no row yet. Theorems `RoundsInductive`, `RoundsExclusive`, `CheckedLaunch`, `HuntTypes`,
`SuccessHasInstance`, `PausedUntilResumed`.

**InstanceCacheProofs.** `CacheInv`: whoever is about to write a row has heard of the instance
(so a row is never invented), a loop's answer "dead" is final, and, as long as no statement has
failed, a stale row of a live instance is still on the list of the pass that considers it stale.
The last part is where the order in `syncAccountRegion` matters: the time is taken
before the list is requested. Together with `WritesStates` (what is written is a state) it gives `RowKept`, that is
`LiveRowIsKept` for any instances, passes and requests; `OneLoop` for the watch loops; `WritersKnow`, `CacheTypes`.

**PanelsProofs.** `IInv`: an answer with the current number is for what is wanted now (`LatestIsWanted`), what is
wanted follows the selection unless the panel is hidden (`Follows`), what stands there is current when nothing loads
(`LatestIsShown`), and three facts about panels that clear or have one subject. `PanelFacts` is all that
is used of the seven sets of traits: any other panel with these traits is correct too. Theorems `PanelsInductive`,
`PanelsCurrent`, and `PanelsImplement`: Panels implements LatestAnswer.

**MCPageProofs.** Four of the five worlds of the run Page, in four parts, and each property under the name by which the run
checks it (`JobsOfPage`, `PageIsPlaced`, `PageIsCurrent`, `DemoIsConsistent`: in a world only its own part moves).

- *Jobs.* `SuccessIsOfRow`: a success known anywhere, in the stream, a list or on the page, is
  one of the row, which is final; `AnsweredOnce`: the answer to a submission comes before anything is registered for it;
  `RegisteredIsTracked`. Theorems `PageInductive`, `CallbacksRunOnce`. `EndIsAnnounced` speaks only of moments when nothing is on
  its way. `Followed` says what holds before: the event of an end is the last of its job; until it is
  handled a tracked job keeps its callback and is not done on the page; from then on the page has the row's status, and
  a job that is tracked was announced. It is claimed of jobs of which the page missed nothing (`lapsed` names the others). Theorem
  `EndsAreAnnounced`.
- *Session.* `PlacedBySession` speaks only of moments without a call in flight. `SessionInv` says what holds before: whenever the page is not
  where its session says, a call is in flight whose answer, or a call that follows it, will place it (`Placing`), and whenever a form is busy, one
  that will give it back (`Working`). So no chain of requests is cut where nobody takes up its end. Theorem `SessionPlaces`.
- *Instances.* `PageCatchesUp` speaks of moments when everything has been handled, and is far from inductive. The invariant `RowsInv` is about the
  events that are still on their way, by number (`Pending`). They tell what the server may do (`IsPath`) and end at its row (`EndsAt`).
  Whoever knows a state and an address after the event `lo` - the page after the last one handled, a list on its way after the last one published
  when it was served - `Knows` enough: either an event to come makes the page read again for certain (`SureToRead`), or the events to come change
  the state in a way the page recognises, and either one of them repeats what the page will have by then, which makes it read
  again too (`Repeats`), or they lead it to the stored state and the address needs no reading. A list that overtakes events has
  what they set (`Carries`), so handling them afterwards does no harm. And the answer to an action, which writes a state without having read it, is
  `Harmless`: what it writes hides no later state from the page. The arguments are by the first or the last event that
  sets a row's state, which exist because numbers are well-founded (`FirstExists`, `LastExists`). What a page missed, or an answer that came
  too late for this (`late`, section 6), is excluded by the property itself. `HasTimer`: a row that is highlighted has a timer. Theorem `RowsCatchUp`.
- *Demonstration.* `DemoInv`: the jobs are of instances and the list holds instances. Its lemmas say what splicing leaves (`RemoveAt`, `Kept`). The
  sweep of `DELETE /api/accounts` must leave exactly the others' instances, and a job that ends later must bring none back. Theorem `AccountsOfInstances`.

**PagesProofs.** The parts behind the pages and the limits on requests, each an instance with a letter of its own
over the variables of MCViews, each proved for any values of its constants by three lemmas: `...Start` (the
initial states have the invariant), `...Step` (a step keeps it), `...Show` (it yields the property).

| part | inductive invariant | theorem |
|---|---|---|
| Q RequestSlots | `SlotsAreHeld`: each channel is as full as there are requests at the places where one holds a slot of it; a request has its client from its beginning on; one in backoff has a retry left | `SlotsCounted`; `NoCircleOfWaiters`: a full global channel has a holder, which is at Oracle, or gives back, or waits for a client whose channel has room or a holder at Oracle |
| H Channels | `Proper`: what is on its way carries a typed secret or a mask of a channel that has a secret, lists are masked, the form too | `SecretsAreKept` |
| | `OneCall`, for as long as requests are alone: lists on their way are as stored, and a click in the matrix differs from the stored events in its own channel only | `MatrixIsStored` |
| A AuditLog | a page on its way is whole, and one that will be taken goes on below the last entry shown; a number has one request and one answer | `PagesAlwaysJoin` |
| C Cleanup | a deleted resource is gone at Oracle, hidden, or forgotten; each list on its way was served while that held (`AnswerIsCovered`) | `DeletedStaysHidden`, `DeletionsGoHome` |
| P ProxyPool | who has checked alone will find its proxy unbound when it writes (`CheckedAlone`); the direct way is offered only when asked for or no proxy is free | `PoolRules` |
| O PasswordPolicy | a read, a question and a change that do not overlap are of the expiry as it is (`AloneIsTrue`) | `PolicyShowsStored` |
| N NetworkRules | every rule anywhere is one of the forms, of the first rules, or was confirmed (`Allowed`); a question is about the list that is selected | `RulesAreAsked` |
| E ConfigEditor | one answer about the shape is awaited; the memory on the slider fits; under a question the sliders move only to what the instance has | `SendsNoMixture` |
| K Accounts | unless a key was changed under a check, every verdict and every client in the cache is of the stored key (`KeysAreCurrent`); a task that is alone has read what is stored (`OneTask`) | `StatusIsTheVerdict` |
| T InstanceTable | a save that is alone was made from the stored rows, and what is shown is the stored rows with it (`OneEditAtATime`) | `RowsAreStored`; it also proves that `compare` is an order of any rows, for any sort |
| D InstanceDrawer | every detail, shown or on its way, names its own volume (`DetailIsOwn`); unless behind, the detail is as it is, on its way, asked for, or the end of a job will make the drawer ask (`DetailIsComing`) | `DrawerActsOnItsOwn` |
| W LaunchWizard | of each list that something depends on: it is the one for what is chosen now, or the question for it is on its way (`DomainsFit`, `ShapesFit`, `ImageFits`, `SubnetFits`); the last question for domains is about the region shown, and none for shapes names a foreign domain (`QuestionsAreOwn`); from step 3 on no question changes the shape, unless step 2 was left hastily (`ShapeFits`) | `FormsFit` |
| V Columns | what is stored is what was chosen, but for a width that is being dragged, and nothing is dragged twice (`ColumnsInv`); the layout needs no invariant, it is right for any stored order | `ColumnsAreWhole` |

The layout of the columns is the one place where a proof is about a computation: `ordered` filters twice and `arranged` counts. `Kept(s, K)`
is therefore written with `Nth`, the inverse of counting, instead of `SelectSeq`, which would need induction: `NthFacts` and `KeptFacts` (it
grows, it hits every element of `K` once) follow from cardinalities alone. Then `ToggleableOnce`, `JoinedOnce` and `OrderedOnce`: every movable column stands in
`ordered` once, whatever was stored; `PlacesFilled`: so there are as many as there are gaps between the fixed ones; `ArrangedOnce`, `ShownOnce` follow.

Where a property has the proviso "nothing overlaps", the flag that records the overlap is set by the step that causes it, and the
proofs show that no other step is to blame: the proviso is the exact extent to which the code is right.

**ViewsProofs.** What the run Views checks, for its worlds: each world is PagesProofs with the constants that MCViews
chooses. `WorldsMove`: in a world only its part moves. `<World>Same`: its definitions in MCViews and in PagesProofs are
the same formulas. `<World>Limits`: the chosen constants satisfy the assumption (with `NothingIsApart`, which TLC evaluates in
every run of MCViews). So `<World>Stays`: the part's invariant holds in its world from the beginning, and the invariants of the run follow, for
any `Nothing`, `Ranges` and the other constants that are still open there. Theorems `NoCircleOfRequests`, `MasksReplaceNothing`, `DeletedStayAway`,
`LogHasNoGap`, `SharedByOverlapOnly`, `NoOpenRules`, `SendsAsSeen`, `PagesAgreeAlone`, `DrawersActOnTheirOwn`, `DrawersCatchUp`,
`FormsFitTogether`, `TableIsWhole`. They tie the names that TLC checks to
the proofs; the strength is in PagesProofs.

Every safety invariant, action property and refinement that a passing run checks is the statement of one of these theorems,
`KeepsPromise` for behaviours without lost writes, which is how the run JobPromise has them.
Model-checked only, on the instances of section 3, are the liveness properties (`SubmittedJobEnds`, `CancelNeedsNoSlot`, `RunningTaskIsTried`,
`CacheConverges`, `ListCatchesUp`, `StatesSettle`): they rest on fairness, whose `ENABLED` is out of the prover's reach. For the same reason the polled list
is the one world of Page without a theorem.

## 6 Where code and comments disagree

Each has a run whose counterexample shows it; `findings` in `PROJECT.json` quotes the line.

1. *JobCancelRace*: Cancel may answer success for a job that then runs; the test
   says a canceled job is not executed (`service_test.go:152`).
2. *HuntRetry*: the client repeats a `LaunchInstance` whose answer was lost, without a retry
   token and without the look for the tag the comment promises before every retry.
3. *PageMissesEnd*: an event dropped for a full buffer, the last one of a job included, is never made up for while
   the stream holds: the job stays running on the page and its callback never runs. The comment says it does
   no harm because the page refreshes regularly; the list of jobs is not among what it refreshes.

The models state further promises that the code does not keep. They are definitions of the modules, with the
comment they quote; TLC refutes each when it is made an INVARIANT of the module's run, and no run
lists them.

| definition | what happens |
|---|---|
| `JobProgress.RowNamesInstance` | `SaveJob`'s ON CONFLICT clause does not list `instance_id`: the row of a launch never names its instance |
| `HuntScheduler.ThrottledRoundRests` | backoffs after a 429 outlast the round's deadline; the context's error hides the 429 and the account is not slowed down |
| `HuntScheduler.OneActivePerAccount` | two create requests both count no active task and both insert one; resuming does not count at all |
| `RequestSlots.TenancyIsLimited` | a client built again has a pool of its own: for as long as old requests last, a tenancy sees up to twice its limit |
| `ProxyPool.OneAccountPerProxy` | two binds of one proxy both check before either writes (`SharingNeedsOverlap` says this is the only way) |
| `ProxyPool.ResultIsOfEgress` | the result of a test comes after another egress was chosen |
| `Accounts.StatusIsOfKey` | a check that began with the old key writes its verdict after the change |
| `Channels.MatrixIsStored` | two clicks in a row each send all events as they were shown before the other: one is lost |
| `PasswordPolicy.PolicyIsStored`, `DaysAreAsked` | a reading served before a change comes after it; one that comes under an open question changes the number that is sent |
| `PageInstances.BusyEnds` | a reload copies the mark "busy" to a new object, the answer clears it on the old one |
| `PageSession.SignedInIsLive` | a session that ends while `afterLogin` loads leaves a dead stream that the next login does not replace |
| `NetworkRules.AddingKeepsRules` | an added rule is sent with a list that was read before an earlier save: that save is undone |
| `Cleanup.RemovedStaysHidden` | a second deletion, or the list of another account, prunes `removed` too early (`HiddenUnlessForgotten` says this is the only way) |
| `ConfigEditor.AskedIsSent`, `BaselineIsOwn` | a refresh moves the sliders under an open question; a baseline changed elsewhere is sent back as the user's |
| `InstanceTable.NotesAreStored`, `BulkIsOfSeen` | a failed save takes back what a later one wrote; a selection outlives the filter it was made under |
| `DemoServer.PrimaryStays`, `OnlyNamedGoes` | two detaches of one card take the primary one; a job that finds its instance gone splices at -1 and removes another |

Seen in the models, without a definition of their own: the double launch through a crash or
a deadline in the first round (the tag is only looked for when `attempts > 0`), and
through a stale batch of the tick; a round that ends while its account is deferred overwrites the deferral
with its own `next_at`; an open page's progress bar may go back when an older snapshot is
published last (`service.go:342`); bulk actions and launches have no instance key, so they run beside a job of
the same instance. In the wizard: `canNext` and `subnetConflict` let a missing list of subnets pass
(`CreateInstanceDrawer.vue:278`, `:474`), so step 4 can be left with a subnet that prohibits public addresses after its list
failed; the list that comes at step 5 is not looked at again and the form asks for an address the subnet refuses. The
proof of `FormsFit` found it, beyond the bounds of the worlds; `FormFits` therefore names the forms that got there
otherwise (`unchecked`). On the page: `runAction` writes the state it is answered (`store/index.ts:744`) over whatever the row
has become; when another page has terminated the instance meanwhile and that event came first, the row goes back from "terminating" to
"stopping" and stays there until the next event or reading. The proof of `PageCatchesUp` found it; `late` names the pages to which it happened. In the cache: a loop that is refreshing after its instance has settled
swallows the `Watch` of the next action, which is then seen only by the next SyncAll; when a
pass writes the settled state first, the loop sees no difference, polls until its 15 minutes are
over, and no "instance ready" notification is sent; a failing upsert is skipped and the pruning of
the same pass deletes the row with the user's note. On the other hand the comment on SyncAll fears
that two passes prune each other's rows: they do not (`LiveRowIsKept`), and SyncAccount
relies on that. A busy tenancy can fill the global pool with requests that wait for its own slots: nothing locks, but the
other accounts wait as long as they last.

## 7 Not modelled

- Within the modelled parts: listing, filtering and JSON at the server; texts, alerts and audit entries; the
  columns of an instance other than its state; the choice of availability domain and the
  capacity report of a round (one step that may fail); exact delays; the 404 Oracle
  gives for missing rights; several subscribers of the bus and the goroutine that writes to a socket.
- Drawing in the front end: charts, labels, menus, formatting and the masking of what is shown are functions of the
  state. Plain fields of forms (names, passwords, cloud-init) and copying to the clipboard.
- The server side of login: passwords, one-time codes, the limits of attempts, promotion of a session. PageSession has the server
  answer by its session, whatever that rests on.
- `netsvc`: sequences of calls to Oracle that find or create. Their jobs are single steps of InstanceDrawer and
  HuntScheduler that may fail; what a failure in between leaves at Oracle (an address deleted before the new one exists) is
  listed as a hazard.
- The capacity monitor: one goroutine that probes one watch after another and writes each result in a transaction.
- Sending of notifications, the import of configuration files, cryptography, HTTP routing and middleware, migrations:
  computation or I/O without state that interleaves. Billing: arithmetic over Oracle's reports.
- Multi-process deployments: SQLite with one connection and one process is what the code supports.

`PROJECT.json` gives the status and the reason for each part.

## 8 Plan

Done: the server's jobs, hunter, cache and limits with their proofs; the connection factory, proxies, accounts,
channels and policies together with the pages that use them; the front end's state; the demonstration server; two
abstract specifications (JobPromise, LatestAnswer) with proved refinements. What is left, in this order:

1. **NetSaga**: find-or-create and the change of a public address with failures between two calls,
   refining "the network is prepared or the next attempt prepares it".
2. **AuthSession**: the server side of login, second factor, promotion, reset and logout, composed with PageSession, whose
   `cookie` would become its state. Abstract specification: a session has at most the rights last granted.
3. **InstanceCache** composed with PageInstances: the events of a watch loop instead of `Settle` at a server that
   has no cache; the "ready" notification; two instances in one pass.
4. Pure algorithms as functions over bounded inputs: `nextDelay` of the hunter, the aggregation of egress, the
   allocation of IPv6 prefixes.

The larger runs take a minute or more, so further pages become worlds of `MCPage` or `MCViews`.
