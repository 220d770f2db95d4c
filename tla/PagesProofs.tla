------------------------------ MODULE PagesProofs ------------------------------
(***************************************************************************)
(* Proofs about the parts behind the pages of the front end, each for any  *)
(* values of its constants.  A part is an instance with a letter of its    *)
(* own, its variables named as in MCViews: what is proved here of one part *)
(* holds in every world of MCViews where that part moves (ViewsProofs).    *)
(***************************************************************************)
EXTENDS Integers, Sequences, FiniteSets, FiniteSetTheorems, TLAPS

CONSTANTS Nothing,
  Requests, Tenants, NoClient, Global, PerTenancy, MaxRetries, MaxBuilds,
  ChannelIds, Events, Secrets, Masked, MaxChannelCalls,
  MaxId, PageSize, MaxAuditLoads,
  Accounts, Resources, Owner(_), MaxCleanupLoads,
  Proxies, PoolAccounts, NewAccount, Direct, Unchosen, Texts, MaxPoolCalls,
  Days, FirstDays, Unset, NoDomain, MaxReads, MaxWrites,
  SecurityLists, ListOrder, RuleForms, Templates, OthersForms, FirstRules, MaxNetworkLoads, MaxRuleEdits,
  Configs, MetaOf, FlexByName, DefaultRatio, DefaultOcpu, Arm, Sizes, Vpus, Memories, Quotas, Unlimited,
  MaxMoves, MaxEditorChanges,
  AccountIds, Keys, Accepted, MaxTasks, MaxClock,
  TableIds, AccountOf, FromServer, Notes, TableNames, MaxTableEdits, MaxTableLoads, MaxChoices,
  DrawerInstances, Tabs, MaxVnics, MaxDrawerChanges,
  WizardAccounts, RegionsOf, DomainsOf, ShapesAt, ImagesOf, SubnetsOf, Prohibiting, Presets,
  FirstShape, MaxPicks, MaxFailures,
  ColumnDefs, FixedColumns, NeedsView, MinWidth, MaxWidth, UnknownKeys, StoredChoices, Pixels,
  ViewWidths, NoColumn, MaxColumnSteps

VARIABLES
  built, via, place, attempt, canceled, global, tenancy,
  stored, hShown, turn, editing, hSaving, hTesting, hAsked, hAnswers, hLoads, hCalls, blurred,
  oldest, newest, auditSeq, aAsked, aAnswers, audit, auditMore, auditLoading,
  oci, accountId, cSeq, cAsked, cAnswers, data, removed, acting, deletions, deleted, forgot,
  known, enabled, joined, bound, pCalls, made, contested, list, pending, pAnswers, text, preview,
  parsing, pool, egress, testing, tested, chose, pSaving,
  oStored, policy, policyDays, reading, question, change, reads, writes, overlapped,
  rules, lists, sel, nSeq, loads, saving, saves, dialog, confirmed, edits,
  instance, left, shapeMeta, asking, size, vpu, ocpu, mem, baseline, eQuestion, applyingVolume,
  applyingShape, moves, eChanges, reshaped,
  kStored, cached, clock, kShown, filter, rows, drawer, kQuestion, tasks, count, crossed, kBlurred,
  tStored, tShown, tTurn, tEditing, tSaves, tLoads, bulks, selection, stateFilter, accountFilter,
  groupByAccount, collapsedGroups, sort, savedSort, tEdits, sent, loaded, tChosen, tOverlapped,
  power, net, at, number, changes, jobs, ended, id, detail, dAsked, answers, adding, loose,
  looseAsked, chosen, confirm, calls, behind,
  step, submitting, closed, account, region, ad, shape, imageId, subnetId, publicIp, ads, shapes,
  images, subnets, optionSeq, shapesKey, loadingAds, wAsked, picks, failures, wFailed, hasty,
  unchecked,
  hidden, order, widths, saved, vw, resizing, dragging, steps

Q == INSTANCE RequestSlots WITH Accounts <- Tenants
H == INSTANCE Channels WITH
        Ids <- ChannelIds, MaxCalls <- MaxChannelCalls, shown <- hShown, saving <- hSaving,
        testing <- hTesting, asked <- hAsked, answers <- hAnswers, loads <- hLoads,
        calls <- hCalls
A == INSTANCE AuditLog WITH MaxLoads <- MaxAuditLoads, asked <- aAsked, answers <- aAnswers
C == INSTANCE Cleanup WITH
        MaxLoads <- MaxCleanupLoads, seq <- cSeq, asked <- cAsked, answers <- cAnswers
P == INSTANCE ProxyPool WITH
        Accounts <- PoolAccounts, Unset <- Unchosen, MaxCalls <- MaxPoolCalls, calls <- pCalls,
        answers <- pAnswers, saving <- pSaving
O == INSTANCE PasswordPolicy WITH stored <- oStored
N == INSTANCE NetworkRules WITH
        Lists <- SecurityLists, InOrder <- ListOrder, Forms <- RuleForms, Others <- OthersForms,
        Initially <- FirstRules, MaxLoads <- MaxNetworkLoads, MaxEdits <- MaxRuleEdits, seq <- nSeq
E == INSTANCE ConfigEditor WITH
        MaxChanges <- MaxEditorChanges, question <- eQuestion, changes <- eChanges
K == INSTANCE Accounts WITH
        Ids <- AccountIds, stored <- kStored, shown <- kShown, question <- kQuestion,
        blurred <- kBlurred
T == INSTANCE InstanceTable WITH
        Ids <- TableIds, Names <- TableNames, MaxEdits <- MaxTableEdits,
        MaxLoads <- MaxTableLoads, stored <- tStored, shown <- tShown, turn <- tTurn,
        editing <- tEditing, saves <- tSaves, loads <- tLoads, edits <- tEdits,
        chosen <- tChosen, overlapped <- tOverlapped
D == INSTANCE InstanceDrawer WITH
        Instances <- DrawerInstances, MaxChanges <- MaxDrawerChanges, asked <- dAsked
W == INSTANCE LaunchWizard WITH
        Accounts <- WizardAccounts, asked <- wAsked, failed <- wFailed
V == INSTANCE Columns WITH
        Defs <- ColumnDefs, Fixed <- FixedColumns, Unknown <- UnknownKeys, Found <- StoredChoices,
        Views <- ViewWidths, None <- NoColumn, MaxSteps <- MaxColumnSteps

-----------------------------------------------------------------------------
(* The limits on requests: no circle of waiting requests and no lost slot. *)

SlotLimits == /\ IsFiniteSet(Requests)
          /\ Global \in Nat \ {0} /\ PerTenancy \in Nat \ {0}
          /\ MaxRetries \in Nat /\ MaxBuilds \in Nat

\* The requests that hold a slot of all accounts.
Holders == Q!At({"tenancy", "sent", "freeing"})

\* A request has its client from its beginning on and waits only for a retry
\* that is left; each channel is as full as there are requests that hold a slot
\* of it.
RequestIsSound(r) ==
  /\ place[r] # "new" => via[r] \in Q!Clients
  /\ place[r] = "backoff" => attempt[r] < MaxRetries

SlotsAreHeld ==
  /\ \A r \in Requests : RequestIsSound(r)
  /\ global = Cardinality(Holders)
  /\ \A c \in Q!Clients : tenancy[c] = Cardinality(Q!AtOracle(c))

SlotsInv == Q!TypeOK /\ SlotsAreHeld

-----------------------------------------------------------------------------
\* One more request, or one less, in a set of requests.
LEMMA CountFacts ==
  ASSUME IsFiniteSet(Requests), NEW S \in SUBSET Requests, NEW r \in Requests
  PROVE  /\ Cardinality(S) \in Nat /\ (Cardinality(S) = 0 <=> S = {})
         /\ r \notin S => Cardinality(S \union {r}) = Cardinality(S) + 1
         /\ r \in S => Cardinality(S \ {r}) = Cardinality(S) - 1
<1>1. IsFiniteSet(S)
  BY FS_Subset
<1> QED BY <1>1, FS_CardinalityType, FS_EmptySet, FS_AddElement, FS_RemoveElement

LEMMA SetFacts == Holders \in SUBSET Requests /\ \A c \in Q!Clients : Q!AtOracle(c) \in SUBSET Requests
BY DEF Holders, Q!At, Q!AtOracle

\* A step of one request after which all hold the slots they held.
LEMMA SameSlots ==
  ASSUME SlotLimits, SlotsInv, Q!TypeOK', NEW r \in Requests, RequestIsSound(r)',
         UNCHANGED <<global, tenancy>>,
         \A q \in Requests : q # r => /\ place'[q] = place[q] /\ via'[q] = via[q]
                                    /\ attempt'[q] = attempt[q],
         place[r] \notin {"tenancy", "sent", "freeing"},
         place'[r] \notin {"tenancy", "sent", "freeing"}
  PROVE  SlotsInv'
<1>1. Holders' = Holders /\ \A c \in Q!Clients : Q!AtOracle(c)' = Q!AtOracle(c)
  BY DEF Holders, Q!AtOracle, Q!At
<1>2. \A q \in Requests : RequestIsSound(q)'
  BY DEF SlotsInv, SlotsAreHeld, RequestIsSound
<1> QED BY <1>1, <1>2 DEF SlotsInv, SlotsAreHeld

LEMMA BeginKeeps ==
  ASSUME SlotLimits, SlotsInv, NEW r \in Requests, NEW a \in Tenants, Q!Do(r, a)
  PROVE  SlotsInv'
<1>1. <<a, built[a]>> \in Q!Clients
  BY DEF SlotsInv, Q!TypeOK, Q!Clients
<1>2. Q!TypeOK'
  BY <1>1 DEF SlotsInv, Q!TypeOK, Q!Places, Q!Do, Q!Goto, Q!Clients
<1>3. RequestIsSound(r)'
  BY <1>1 DEF SlotsInv, Q!TypeOK, RequestIsSound, Q!Do, Q!Goto, Q!Clients
<1> QED BY <1>2, <1>3, SameSlots DEF SlotsInv, Q!TypeOK, Q!Do, Q!Goto

LEMMA RetryKeeps == ASSUME SlotLimits, SlotsInv, NEW r \in Requests, Q!Retry(r) PROVE SlotsInv'
<1>1. attempt[r] \in Nat /\ attempt[r] + 1 \in 0 .. MaxRetries
  BY DEF SlotLimits, SlotsInv, Q!TypeOK, SlotsAreHeld, RequestIsSound, Q!Retry
<1>2. Q!TypeOK'
  BY <1>1 DEF SlotsInv, Q!TypeOK, Q!Places, Q!Retry, Q!Goto, Q!Clients
<1>3. RequestIsSound(r)'
  BY DEF SlotsInv, Q!TypeOK, SlotsAreHeld, RequestIsSound, Q!Retry, Q!Goto, Q!Clients
<1> QED BY <1>2, <1>3, SameSlots DEF SlotsInv, Q!TypeOK, Q!Retry, Q!Goto

LEMMA LeaveKeeps ==
  ASSUME SlotLimits, SlotsInv, NEW r \in Requests, Q!LeaveGlobalQueue(r) \/ Q!StopWaiting(r)
  PROVE  SlotsInv'
<1>1. /\ UNCHANGED <<built, via, attempt, canceled, global, tenancy>>
      /\ place[r] \in {"global", "backoff"}
      /\ place' = [place EXCEPT ![r] = IF Q!StopWaiting(r) THEN "ended" ELSE Q!FailedGoesTo(r)]
  BY DEF Q!LeaveGlobalQueue, Q!StopWaiting, Q!Goto
<1>2. Q!TypeOK'
  BY <1>1 DEF SlotsInv, Q!TypeOK, Q!Places, Q!FailedGoesTo, Q!Clients
<1>3. RequestIsSound(r)'
  <2>1. place'[r] \in {"ended", "backoff"} /\ (place'[r] = "backoff" => attempt[r] # MaxRetries)
    BY <1>1 DEF SlotsInv, Q!TypeOK, Q!FailedGoesTo
  <2>2. attempt'[r] = attempt[r] /\ attempt[r] \in 0 .. MaxRetries
    BY <1>1 DEF SlotsInv, Q!TypeOK
  <2>3. via'[r] \in Q!Clients' /\ place'[r] # "new"
    BY <1>1, <2>1 DEF SlotsInv, SlotsAreHeld, RequestIsSound, Q!Clients
  <2> QED BY <2>1, <2>2, <2>3 DEF SlotLimits, RequestIsSound
<1>4. place'[r] \notin {"tenancy", "sent", "freeing"} /\ \A q \in Requests : q # r => place'[q] = place[q]
  BY <1>1 DEF SlotsInv, Q!TypeOK, Q!FailedGoesTo
<1> QED BY <1>1, <1>2, <1>3, <1>4, SameSlots

\* Two steps that move no request.
LEMMA StillKeeps ==
  ASSUME SlotLimits, SlotsInv,
         (\E a \in Tenants : Q!Rebuild(a)) \/ \E r \in Requests : Q!ContextEnds(r)
  PROVE  SlotsInv'
<1>1. Q!TypeOK' /\ UNCHANGED <<via, place, attempt, global, tenancy>>
  BY DEF SlotLimits, SlotsInv, Q!TypeOK, Q!Rebuild, Q!ContextEnds, Q!Clients
<1>2. Holders' = Holders /\ \A c \in Q!Clients : Q!AtOracle(c)' = Q!AtOracle(c)
  BY <1>1 DEF Holders, Q!AtOracle, Q!At
<1> QED BY <1>1, <1>2 DEF SlotsInv, SlotsAreHeld, RequestIsSound

LEMMA TakeKeeps == ASSUME SlotLimits, SlotsInv, NEW r \in Requests, Q!TakeGlobal(r) PROVE SlotsInv'
<1>1. Q!TypeOK'
  BY DEF SlotLimits, SlotsInv, Q!TypeOK, Q!Places, Q!TakeGlobal, Q!Goto
<1>2. /\ r \notin Holders /\ Holders' = Holders \union {r}
      /\ \A c \in Q!Clients : Q!AtOracle(c)' = Q!AtOracle(c)
  BY DEF SlotsInv, Q!TypeOK, Holders, Q!AtOracle, Q!At, Q!TakeGlobal, Q!Goto
<1>3. Cardinality(Holders') = Cardinality(Holders) + 1
  BY <1>2, SetFacts, CountFacts DEF SlotLimits
<1>4. \A q \in Requests : RequestIsSound(q)'
  BY DEF SlotsInv, SlotsAreHeld, RequestIsSound, Q!TypeOK, Q!TakeGlobal, Q!Goto
<1> QED BY <1>1, <1>2, <1>3, <1>4 DEF SlotsInv, SlotsAreHeld, Q!TakeGlobal

LEMMA GiveBackKeeps ==
  ASSUME SlotLimits, SlotsInv, NEW r \in Requests, Q!LeaveTenancyQueue(r) \/ Q!FreeGlobal(r)
  PROVE  SlotsInv'
<1>1. /\ UNCHANGED <<built, via, attempt, canceled, tenancy>> /\ global' = global - 1
      /\ place[r] \in {"tenancy", "freeing"}
      /\ \E next \in {"ended", Q!FailedGoesTo(r)} : place' = [place EXCEPT ![r] = next]
  BY DEF Q!LeaveTenancyQueue, Q!FreeGlobal, Q!Goto
<1>0. /\ place'[r] \in {"ended", "backoff"} /\ (place'[r] = "backoff" => attempt[r] # MaxRetries)
      /\ \A q \in Requests : q # r => place'[q] = place[q]
      /\ place' \in [Requests -> Q!Places]
  BY <1>1 DEF SlotsInv, Q!TypeOK, Q!FailedGoesTo, Q!Places
<1>2. /\ r \in Holders /\ Holders' = Holders \ {r}
      /\ \A c \in Q!Clients : Q!AtOracle(c)' = Q!AtOracle(c)
  BY <1>0, <1>1 DEF SlotsInv, Q!TypeOK, Holders, Q!AtOracle, Q!At
<1>3. Cardinality(Holders') = Cardinality(Holders) - 1 /\ Cardinality(Holders') \in Nat
  BY <1>2, SetFacts, CountFacts DEF SlotLimits
<1>4. Q!TypeOK'
  <2>1. global' \in 0 .. Global
    BY <1>1, <1>2, <1>3 DEF SlotLimits, SlotsInv, Q!TypeOK, SlotsAreHeld
  <2> QED BY <1>0, <1>1, <2>1 DEF SlotsInv, Q!TypeOK, Q!Clients
<1>5. \A q \in Requests : RequestIsSound(q)'
  BY <1>0, <1>1 DEF SlotLimits, SlotsInv, SlotsAreHeld, RequestIsSound, Q!TypeOK, Q!Clients
<1> QED BY <1>1, <1>2, <1>3, <1>4, <1>5 DEF SlotsInv, SlotsAreHeld

\* The second slot is taken, or given back first: one client's count changes.
LEMMA TenancyKeeps ==
  ASSUME SlotLimits, SlotsInv, NEW r \in Requests, Q!TakeTenancy(r) \/ Q!FreeTenancy(r)
  PROVE  SlotsInv'
<1>0. PICK d \in Q!Clients : d = via[r]
  BY DEF SlotsInv, SlotsAreHeld, RequestIsSound, Q!TakeTenancy, Q!FreeTenancy
<1>1. /\ d = via[r] /\ UNCHANGED <<built, via, attempt, canceled, global>>
      /\ place' = [place EXCEPT ![r] = IF Q!TakeTenancy(r) THEN "sent" ELSE "freeing"]
  BY <1>0 DEF Q!TakeTenancy, Q!FreeTenancy, Q!Goto
<1>2. Holders' = Holders /\ \A c \in Q!Clients : c # d => Q!AtOracle(c)' = Q!AtOracle(c)
  BY <1>1 DEF SlotsInv, Q!TypeOK, Holders, Q!AtOracle, Q!At, Q!TakeTenancy, Q!FreeTenancy
<1>3. tenancy'[d] = Cardinality(Q!AtOracle(d)') /\ tenancy'[d] \in 0 .. PerTenancy
  <2>1. CASE Q!TakeTenancy(r)
    <3>1. r \notin Q!AtOracle(d) /\ Q!AtOracle(d)' = Q!AtOracle(d) \union {r}
      BY <1>1, <2>1 DEF SlotsInv, Q!TypeOK, Q!AtOracle, Q!At, Q!TakeTenancy
    <3>2. Cardinality(Q!AtOracle(d)') = Cardinality(Q!AtOracle(d)) + 1
      BY <1>1, <3>1, SetFacts, CountFacts DEF SlotLimits
    <3>3. tenancy'[d] = tenancy[d] + 1 /\ tenancy[d] < PerTenancy /\ tenancy[d] \in 0 .. PerTenancy
      BY <1>1, <2>1 DEF SlotsInv, Q!TypeOK, Q!TakeTenancy
    <3> QED BY <1>1, <3>2, <3>3 DEF SlotLimits, SlotsInv, SlotsAreHeld
  <2>2. CASE Q!FreeTenancy(r)
    <3>1. r \in Q!AtOracle(d) /\ Q!AtOracle(d)' = Q!AtOracle(d) \ {r}
      BY <1>1, <2>2 DEF SlotsInv, Q!TypeOK, Q!AtOracle, Q!At, Q!FreeTenancy, Q!Goto
    <3>0. Q!AtOracle(d) \in SUBSET Requests /\ Q!AtOracle(d)' \in SUBSET Requests
      BY <3>1, SetFacts
    <3>2. /\ Cardinality(Q!AtOracle(d)') = Cardinality(Q!AtOracle(d)) - 1
          /\ Cardinality(Q!AtOracle(d)') \in Nat /\ Cardinality(Q!AtOracle(d)) \in Nat
      BY <3>0, <3>1, CountFacts DEF SlotLimits
    <3>3. tenancy'[d] = tenancy[d] - 1 /\ tenancy[d] \in 0 .. PerTenancy
      BY <1>1, <2>2 DEF SlotsInv, Q!TypeOK, Q!FreeTenancy
    <3>4. tenancy[d] = Cardinality(Q!AtOracle(d))
      BY DEF SlotsInv, SlotsAreHeld
    <3> QED BY <3>2, <3>3, <3>4 DEF SlotLimits
  <2> QED BY <2>1, <2>2
<1>4. \A c \in Q!Clients : c # d => tenancy'[c] = tenancy[c]
  BY <1>1 DEF SlotsInv, Q!TypeOK, Q!TakeTenancy, Q!FreeTenancy
<1>5. Q!TypeOK'
  <2>1. tenancy' \in [Q!Clients -> 0 .. PerTenancy]
    BY <1>1, <1>3 DEF SlotsInv, Q!TypeOK, Q!TakeTenancy, Q!FreeTenancy
  <2>2. place' \in [Requests -> Q!Places]
    BY <1>1 DEF SlotsInv, Q!TypeOK, Q!Places
  <2> QED BY <1>1, <2>1, <2>2 DEF SlotsInv, Q!TypeOK, Q!Clients
<1>6. \A q \in Requests : RequestIsSound(q)'
  BY <1>1 DEF SlotsInv, SlotsAreHeld, RequestIsSound, Q!TypeOK, Q!TakeTenancy, Q!FreeTenancy
<1>7. global' = Cardinality(Holders')
  BY <1>1, <1>2 DEF SlotsInv, SlotsAreHeld
<1>8. \A c \in Q!Clients : tenancy'[c] = Cardinality(Q!AtOracle(c)')
  <2> SUFFICES ASSUME NEW c \in Q!Clients PROVE tenancy'[c] = Cardinality(Q!AtOracle(c)')
    OBVIOUS
  <2>1. CASE c = d
    BY <1>3, <2>1
  <2>2. CASE c # d
    BY <1>2, <1>4, <2>2 DEF SlotsInv, SlotsAreHeld
  <2> QED BY <2>1, <2>2
<1> QED BY <1>5, <1>6, <1>7, <1>8 DEF SlotsInv, SlotsAreHeld

-----------------------------------------------------------------------------
LEMMA SlotsStart == ASSUME SlotLimits PROVE Q!Init => SlotsInv
<1> SUFFICES ASSUME Q!Init PROVE SlotsInv
  OBVIOUS
<1>1. Q!TypeOK
  BY DEF Q!Init, Q!TypeOK, SlotLimits, Q!Clients, Q!Places
<1>2. Holders = {} /\ \A c \in Q!Clients : Q!AtOracle(c) = {}
  BY DEF Q!Init, Holders, Q!AtOracle, Q!At
<1>3. Cardinality({}) = 0
  BY FS_EmptySet
<1>4. /\ global = 0 /\ \A c \in Q!Clients : tenancy[c] = 0
      /\ \A r \in Requests : place[r] = "new"
  BY DEF Q!Init
<1> QED BY <1>1, <1>2, <1>3, <1>4 DEF SlotsInv, SlotsAreHeld, RequestIsSound

LEMMA SlotsStep == ASSUME SlotLimits PROVE SlotsInv /\ [Q!Next]_(Q!vars) => SlotsInv'
<1> SUFFICES ASSUME SlotsInv, [Q!Next]_(Q!vars) PROVE SlotsInv'
  OBVIOUS
<1>1. CASE UNCHANGED Q!vars
  BY <1>1 DEF Q!vars, SlotsInv, Q!TypeOK, SlotsAreHeld, RequestIsSound, Holders, Q!AtOracle, Q!At, Q!Clients
<1>2. CASE Q!Next
  BY <1>2, BeginKeeps, RetryKeeps, LeaveKeeps, StillKeeps, TakeKeeps, GiveBackKeeps, TenancyKeeps DEF Q!Next
<1> QED BY <1>1, <1>2

LEMMA SlotsShow == ASSUME SlotLimits PROVE SlotsInv => Q!WaitersAwaitOracle
<1> SUFFICES ASSUME SlotsInv PROVE Q!WaitersAwaitOracle
  OBVIOUS
<1>1. ASSUME NEW r \in Q!At({"tenancy"}) PROVE r \in Q!MayTake \/ Q!AtOracle(via[r]) # {}
  <2>1. r \in Requests /\ via[r] \in Q!Clients /\ tenancy[via[r]] \in 0 .. PerTenancy
    BY <1>1 DEF SlotsInv, Q!TypeOK, SlotsAreHeld, RequestIsSound, Q!At
  <2>2. CASE tenancy[via[r]] < PerTenancy
    BY <1>1, <2>2 DEF Q!MayTake
  <2>3. CASE tenancy[via[r]] = PerTenancy
    <3>1. Cardinality(Q!AtOracle(via[r])) # 0
      BY <2>1, <2>3 DEF SlotsInv, SlotsAreHeld, SlotLimits
    <3> QED BY <3>1, FS_EmptySet
  <2> QED BY <2>1, <2>2, <2>3 DEF SlotLimits
<1>2. ASSUME NEW r \in Q!At({"global"}), global = Global
      PROVE  Q!At({"sent", "freeing"}) # {} \/ Q!MayTake # {}
  <2>1. Holders # {}
    BY <1>2, FS_EmptySet DEF SlotsInv, SlotsAreHeld, SlotLimits
  <2>2. PICK q \in Requests : place[q] \in {"tenancy", "sent", "freeing"}
    BY <2>1 DEF Holders, Q!At
  <2>3. CASE place[q] = "tenancy"
    <3>1. q \in Q!At({"tenancy"})
      BY <2>3 DEF Q!At
    <3>2. q \in Q!MayTake \/ Q!AtOracle(via[q]) # {}
      BY <3>1, <1>1
    <3> QED BY <3>2 DEF Q!AtOracle, Q!At
  <2> QED BY <2>2, <2>3 DEF Q!At
<1>3. Cardinality(Q!At({"sent"})) <= Global
  <2>1. Q!At({"sent"}) \subseteq Holders /\ IsFiniteSet(Holders)
    BY SetFacts, FS_Subset DEF Q!At, Holders, SlotLimits
  <2>2. /\ Cardinality(Q!At({"sent"})) <= Cardinality(Holders)
        /\ Cardinality(Q!At({"sent"})) \in Nat /\ Cardinality(Holders) \in Nat
    BY <2>1, FS_Subset, FS_CardinalityType
  <2> QED BY <2>2 DEF SlotsInv, Q!TypeOK, SlotsAreHeld, SlotLimits
<1>4. Q!Cardinality(Q!At({"sent"})) = Cardinality(Q!At({"sent"}))
  BY DEF Q!Cardinality, Cardinality
<1> QED BY <1>1, <1>2, <1>3, <1>4 DEF Q!WaitersAwaitOracle

\* Every slot is held by a request that is where it holds one: none is lost when
\* a context ends in a queue, a request is repeated or a client is built again.
THEOREM SlotsCounted == ASSUME SlotLimits PROVE Q!Spec => []SlotsInv
BY SlotsStart, SlotsStep, PTL DEF Q!Spec

\* Nobody waits in a circle (WaitersAwaitOracle), the promise of the comment on
\* acquireSlots: behind every full channel is a request that can go on.
THEOREM NoCircleOfWaiters == ASSUME SlotLimits PROVE Q!Spec => []Q!WaitersAwaitOracle
BY SlotsShow, SlotsCounted, PTL

-----------------------------------------------------------------------------
(* The notification channels: no sequence of edits writes a mask over a secret. *)

\* What a form, a request and a list may carry as a secret: typed, masked or
\* left out; never the stored one, but on its way to the server.
FormSecrets == Secrets \union {Masked, Nothing}
FormFlags == BOOLEAN \union {Nothing}
FormEvents == (SUBSET Events) \union {Nothing}
KeptRows == [secret : Secrets, events : SUBSET Events, enabled : BOOLEAN]
ShownRows == [secret : {Masked}, events : SUBSET Events, enabled : BOOLEAN]
Kept == [ChannelIds -> KeptRows \union {Nothing}]
Shown == [ChannelIds -> ShownRows \union {Nothing}]
ChannelForms == [id : ChannelIds \union {"new"}, secret : FormSecrets, events : SUBSET Events]
ChannelChanges == [secret : FormSecrets, events : FormEvents,
            enabled : FormFlags]
Ops == {"create", "save", "enable", "subscribe", "remove", "test"}
ChannelRequests == [op : Ops, id : ChannelIds \union {Nothing}, up : ChannelChanges, turn : Nat, n : Nat, ok : BOOLEAN]

\* A request for a new channel has a secret that was typed; every other one is
\* of a channel, and a click in the matrix was on a channel of its turn.
Proper(q) ==
  /\ q \in ChannelRequests
  /\ q.op = "create" => q.up.secret \in Secrets /\ q.up.events \in SUBSET Events
  /\ q.op # "create" => q.id \in ChannelIds
  /\ q.op = "subscribe" => /\ q.up.events \in SUBSET Events
                           /\ q.turn <= turn
                           /\ q.turn = turn => hShown[q.id] \in ShownRows

FormIsProper ==
  editing # Nothing => /\ editing \in ChannelForms
                       /\ editing.id = "new" => editing.secret \in Secrets \union {Nothing}

ListsAreMasked ==
  \A l \in hLoads : \E n \in Nat, L \in Shown \union {Nothing} : l = [n |-> n, list |-> L]

ChannelsInv ==
  /\ stored \in Kept /\ hShown \in Shown /\ turn \in Nat /\ hCalls \in Nat
  /\ ListsAreMasked /\ FormIsProper
  /\ \A q \in hAsked \union hAnswers : Proper(q)

-----------------------------------------------------------------------------
\* What maskChannel lets out.
LEMMA MaskFacts ==
  ASSUME stored \in Kept
  PROVE  [i \in ChannelIds |-> H!maskChannel(stored[i])] \in Shown
<1> SUFFICES ASSUME NEW i \in ChannelIds
             PROVE  H!maskChannel(stored[i]) \in
                      ShownRows \union {Nothing}
  BY DEF Shown
<1>1. CASE stored[i] = Nothing
  BY <1>1 DEF H!maskChannel
<1>2. CASE stored[i] # Nothing
  <2>1. stored[i] \in KeptRows
    BY <1>2 DEF Kept
  <2> QED BY <1>2, <2>1 DEF H!maskChannel, KeptRows, ShownRows
<1> QED BY <1>1, <1>2

\* An update never stores a mask: a mask that comes back means "as it is".
LEMMA UpdateFacts ==
  ASSUME NEW c \in KeptRows, NEW up \in ChannelChanges
  PROVE  H!Updated(c, up) \in KeptRows
<1>1. c.secret \in Secrets /\ c.events \in SUBSET Events /\ c.enabled \in BOOLEAN
  BY DEF KeptRows
<1>2. /\ up.secret \in Secrets \union {Masked, Nothing}
      /\ up.events \in FormEvents /\ up.enabled \in BOOLEAN \union {Nothing}
  BY DEF ChannelChanges, FormSecrets, FormFlags, FormEvents
<1>3. (IF up.secret = Nothing THEN c.secret ELSE H!merged(c.secret, up.secret)) \in Secrets
  BY <1>1, <1>2 DEF H!merged
<1>4. (IF up.events = Nothing THEN c.events ELSE up.events) \in SUBSET Events
  BY <1>1, <1>2 DEF FormEvents
<1>5. (IF up.enabled = Nothing THEN c.enabled ELSE up.enabled) \in BOOLEAN
  <2>1. CASE up.enabled = Nothing
    BY <1>1, <2>1
  <2>2. CASE up.enabled # Nothing
    BY <1>2, <2>2
  <2> QED BY <2>1, <2>2
<1> QED BY <1>3, <1>4, <1>5 DEF H!Updated, KeptRows

\* A request stays proper when its answer is marked and when the page goes on.
LEMMA ProperFacts ==
  ASSUME NEW q, Proper(q)
  PROVE  /\ \A ok \in BOOLEAN : Proper([q EXCEPT !.ok = ok])
         /\ turn \in Nat /\ turn' = turn + 1 => Proper(q)'
         /\ turn' = turn /\ hShown' = hShown => Proper(q)'
<1>1. q \in ChannelRequests /\ q.turn \in Nat
  BY DEF Proper, ChannelRequests
<1>2. ASSUME NEW ok \in BOOLEAN PROVE Proper([q EXCEPT !.ok = ok])
  <2> DEFINE r == [q EXCEPT !.ok = ok]
  <2>1. r \in ChannelRequests /\ r.op = q.op /\ r.id = q.id /\ r.up = q.up /\ r.turn = q.turn
    BY <1>1 DEF ChannelRequests
  <2> HIDE DEF r
  <2>2. Proper(r)
    BY <2>1 DEF Proper
  <2> QED BY <2>2 DEF r
<1>3. turn \in Nat /\ turn' = turn + 1 => Proper(q)'
  BY <1>1 DEF Proper
<1>4. turn' = turn /\ hShown' = hShown => Proper(q)'
  BY DEF Proper
<1> QED BY <1>2, <1>3, <1>4

LEMMA ServeKeeps == ASSUME ChannelsInv, NEW q \in hAsked, H!Serve(q) PROVE ChannelsInv'
<1>1. Proper(q) /\ q \in ChannelRequests /\ q.up \in ChannelChanges
  BY DEF ChannelsInv, Proper, ChannelRequests
<1>2. /\ UNCHANGED <<H!page, hLoads, hCalls>> /\ hAsked' \subseteq hAsked
      /\ \E ok \in BOOLEAN : hAnswers' = hAnswers \union {[q EXCEPT !.ok = ok]}
      /\ UNCHANGED stored \/ H!Effect(q)
  BY DEF H!Serve
<1>3. stored' \in Kept
  <2>1. CASE UNCHANGED stored
    BY <2>1 DEF ChannelsInv
  <2>2. CASE q.op = "create" /\ H!Effect(q)
    <3>1. q.up.secret \in Secrets /\ q.up.events \in SUBSET Events
      BY <1>1, <2>2 DEF Proper
    <3>2. PICK i \in ChannelIds : stored' = [stored EXCEPT ![i] =
                             [secret |-> q.up.secret, events |-> q.up.events, enabled |-> TRUE]]
      BY <2>2 DEF H!Effect
    <3> QED BY <3>1, <3>2 DEF ChannelsInv, Kept, KeptRows
  <2>3. CASE q.op \in {"save", "enable", "subscribe"} /\ H!Effect(q)
    <3>1. /\ stored[q.id] # Nothing /\ q.id \in ChannelIds
          /\ stored' = [stored EXCEPT ![q.id] = H!Updated(stored[q.id], q.up)]
      BY <1>1, <2>3 DEF H!Effect, Proper
    <3>2. stored[q.id] \in KeptRows
      BY <3>1 DEF ChannelsInv, Kept
    <3>3. H!Updated(stored[q.id], q.up) \in KeptRows
      BY <1>1, <3>2, UpdateFacts
    <3> QED BY <3>1, <3>3 DEF ChannelsInv, Kept
  <2>4. CASE q.op \in {"remove", "test"} /\ H!Effect(q)
    <3>1. stored' = stored \/ stored' = [stored EXCEPT ![q.id] = Nothing]
      BY <2>4 DEF H!Effect
    <3> QED BY <3>1 DEF ChannelsInv, Kept
  <2> QED BY <1>1, <1>2, <2>1, <2>2, <2>3, <2>4 DEF ChannelRequests, Ops
<1>4. ListsAreMasked' /\ FormIsProper'
  BY <1>2 DEF ChannelsInv, H!page, ListsAreMasked, FormIsProper
<1>5. \A r \in hAsked' \union hAnswers' : Proper(r)
  BY <1>1, <1>2, ProperFacts DEF ChannelsInv
<1>6. \A r \in hAsked' \union hAnswers' : Proper(r)'
  BY <1>2, <1>5, ProperFacts DEF H!page
<1> QED BY <1>2, <1>3, <1>4, <1>6 DEF ChannelsInv, H!page

LEMMA ListKeeps ==
  ASSUME ChannelsInv, NEW l \in hLoads, H!ReadList(l) \/ H!ListComes(l) \/ H!ListFails(l)
  PROVE  ChannelsInv'
<1>1. PICK n \in Nat, L \in Shown \union {Nothing} : l = [n |-> n, list |-> L]
  BY DEF ChannelsInv, ListsAreMasked
<1>2. UNCHANGED <<stored, editing, hAsked, hAnswers, hCalls>>
  BY DEF H!ReadList, H!ListComes, H!ListFails, H!page
<1>3. CASE H!ReadList(l)
  <2> DEFINE mask == [i \in ChannelIds |-> H!maskChannel(stored[i])]
  <2>1. mask \in Shown
    BY MaskFacts DEF ChannelsInv
  <2>2. hLoads' = (hLoads \ {l}) \union {[l EXCEPT !.list = mask]} /\ UNCHANGED <<hShown, turn>>
    BY <1>3 DEF H!ReadList, H!page
  <2> HIDE DEF mask
  <2>3. [l EXCEPT !.list = mask] = [n |-> n, list |-> mask]
    BY <1>1
  <2>4. ListsAreMasked'
    BY <2>1, <2>2, <2>3 DEF ChannelsInv, ListsAreMasked
  <2>5. \A r \in hAsked' \union hAnswers' : Proper(r)'
    BY <1>2, <2>2, ProperFacts DEF ChannelsInv
  <2> QED BY <1>2, <2>2, <2>4, <2>5 DEF ChannelsInv, FormIsProper
<1>4. CASE H!ListComes(l)
  <2>1. hShown' \in Shown /\ turn' = turn + 1 /\ turn' \in Nat /\ hLoads' \subseteq hLoads
    BY <1>1, <1>4 DEF H!ListComes, ChannelsInv
  <2>2. ListsAreMasked'
    BY <2>1 DEF ChannelsInv, ListsAreMasked
  <2>3. \A r \in hAsked' \union hAnswers' : Proper(r)'
    BY <1>2, <2>1, ProperFacts DEF ChannelsInv
  <2> QED BY <1>2, <2>1, <2>2, <2>3 DEF ChannelsInv, FormIsProper
<1>5. CASE H!ListFails(l)
  <2>1. UNCHANGED <<hShown, turn>> /\ hLoads' \subseteq hLoads
    BY <1>5 DEF H!ListFails, H!page
  <2>2. ListsAreMasked'
    BY <2>1 DEF ChannelsInv, ListsAreMasked
  <2>3. \A r \in hAsked' \union hAnswers' : Proper(r)'
    BY <1>2, <2>1, ProperFacts DEF ChannelsInv
  <2> QED BY <1>2, <2>1, <2>2, <2>3 DEF ChannelsInv, FormIsProper
<1> QED BY <1>3, <1>4, <1>5

\* A step of the form alone.
LEMMA FormKeeps ==
  ASSUME ChannelsInv, UNCHANGED <<stored, hShown, turn, hAsked, hAnswers, hLoads, hCalls>>, FormIsProper'
  PROVE  ChannelsInv'
<1>1. \A r \in hAsked' \union hAnswers' : Proper(r)'
  BY ProperFacts DEF ChannelsInv
<1> QED BY <1>1 DEF ChannelsInv, ListsAreMasked

LEMMA EditKeeps ==
  ASSUME ChannelsInv, "new" \notin ChannelIds,
         \/ H!openCreate \/ H!Cancel \/ (\E s \in Secrets : H!TypeSecret(s)) \/ (\E e \in Events : H!CheckEvent(e))
         \/ \E i \in ChannelIds : H!openEdit(i)
  PROVE  ChannelsInv'
<1>1. UNCHANGED <<stored, hShown, turn, hAsked, hAnswers, hLoads, hCalls>>
  BY DEF H!openCreate, H!Cancel, H!TypeSecret, H!CheckEvent, H!openEdit
<1>2. CASE H!openCreate
  <2>1. editing' = [id |-> "new", secret |-> Nothing, events |-> Events]
    BY <1>2 DEF H!openCreate
  <2>2. FormIsProper'
    BY <2>1 DEF FormIsProper, ChannelForms, FormSecrets
  <2> QED BY <1>1, <2>2, FormKeeps
<1>3. CASE H!Cancel
  <2>1. FormIsProper'
    BY <1>3 DEF H!Cancel, FormIsProper
  <2> QED BY <1>1, <2>1, FormKeeps
<1>4. ASSUME NEW s \in Secrets, H!TypeSecret(s) PROVE ChannelsInv'
  <2>1. editing \in ChannelForms /\ editing' = [editing EXCEPT !.secret = s]
    BY <1>4 DEF H!TypeSecret, ChannelsInv, FormIsProper
  <2>2. FormIsProper'
    BY <2>1 DEF FormIsProper, ChannelForms, FormSecrets
  <2> QED BY <1>1, <2>2, FormKeeps
<1>5. ASSUME NEW e \in Events, H!CheckEvent(e) PROVE ChannelsInv'
  <2>1. /\ editing \in ChannelForms /\ (editing.id = "new" => editing.secret \in Secrets \union {Nothing})
        /\ editing' = [editing EXCEPT !.events = (editing.events \ {e}) \union ({e} \ editing.events)]
    BY <1>5 DEF H!CheckEvent, ChannelsInv, FormIsProper, ChannelForms
  <2>2. (editing.events \ {e}) \union ({e} \ editing.events) \in SUBSET Events
    BY <2>1 DEF ChannelForms
  <2>3. editing' \in ChannelForms /\ editing'.id = editing.id /\ editing'.secret = editing.secret
    BY <2>1, <2>2 DEF ChannelForms
  <2>4. FormIsProper'
    BY <2>1, <2>3 DEF FormIsProper
  <2> QED BY <1>1, <2>4, FormKeeps
<1>6. ASSUME NEW i \in ChannelIds, H!openEdit(i) PROVE ChannelsInv'
  <2>1. /\ hShown[i] \in ShownRows
        /\ editing' = [id |-> i, secret |-> hShown[i].secret, events |-> hShown[i].events]
    BY <1>6 DEF H!openEdit, ChannelsInv, Shown
  <2>2. FormIsProper'
    BY <1>6, <2>1 DEF FormIsProper, ChannelForms, FormSecrets, ShownRows
  <2> QED BY <1>1, <2>2, FormKeeps
<1> QED BY <1>2, <1>3, <1>4, <1>5, <1>6

\* A request of the page, asked with the turn of the moment.
LEMMA CallKeeps ==
  ASSUME ChannelsInv, NEW op \in Ops, NEW on \in ChannelIds \union {Nothing}, NEW up \in ChannelChanges, H!Call(op, on, up),
         op = "create" => up.secret \in Secrets /\ up.events \in SUBSET Events,
         op # "create" => on \in ChannelIds,
         op = "subscribe" => up.events \in SUBSET Events /\ hShown[on] \in ShownRows,
         UNCHANGED <<stored, hShown, turn, editing, hAnswers, hLoads>>
  PROVE  ChannelsInv'
<1> DEFINE q == [op |-> op, id |-> on, up |-> up, turn |-> turn, n |-> hCalls, ok |-> TRUE]
<1>1. q \in ChannelRequests /\ q.op = op /\ q.id = on /\ q.up = up /\ q.turn = turn
  BY DEF ChannelsInv, ChannelRequests
<1>2. hCalls' = hCalls + 1 /\ hCalls' \in Nat /\ hAsked' = hAsked \union {q}
  BY DEF H!Call, ChannelsInv
<1> HIDE DEF q
<1>3. Proper(q)
  BY <1>1 DEF Proper, ChannelsInv
<1>4. \A r \in hAsked' \union hAnswers' : Proper(r)'
  BY <1>2, <1>3, ProperFacts DEF ChannelsInv
<1> QED BY <1>2, <1>4 DEF ChannelsInv, ListsAreMasked, FormIsProper

LEMMA ChangeFacts ==
  ASSUME NEW secret \in FormSecrets, NEW events \in FormEvents,
         NEW flag \in FormFlags
  PROVE  /\ H!Change(secret, events, flag) \in ChannelChanges
         /\ H!Change(secret, events, flag).secret = secret
         /\ H!Change(secret, events, flag).events = events
         /\ [H!NoChange EXCEPT !.enabled = flag] \in ChannelChanges
         /\ [H!NoChange EXCEPT !.events = events] \in ChannelChanges
         /\ [H!NoChange EXCEPT !.events = events].events = events
         /\ H!NoChange \in ChannelChanges
<1>1. Nothing \in FormSecrets /\ Nothing \in FormFlags /\ Nothing \in FormEvents
  BY DEF FormSecrets, FormFlags, FormEvents
<1> QED BY <1>1 DEF H!Change, H!NoChange, ChannelChanges

LEMMA AskKeeps ==
  ASSUME ChannelsInv,
         \/ H!save
         \/ \E i \in ChannelIds : \/ H!toggleEnabled(i) \/ H!removeChannel(i) \/ H!sendTest(i)
                           \/ \E e \in Events : H!toggleSubscription(i, e)
  PROVE  ChannelsInv'
<1>0. UNCHANGED <<stored, hShown, turn, editing, hAnswers, hLoads>>
  BY DEF H!save, H!toggleEnabled, H!removeChannel, H!sendTest, H!toggleSubscription, H!page
<1>1. CASE H!save
  <2>1. /\ editing \in ChannelForms /\ editing.secret # Nothing
        /\ editing.id = "new" => editing.secret \in Secrets \union {Nothing}
    BY <1>1 DEF H!save, ChannelsInv, FormIsProper
  <2>2. editing.secret \in FormSecrets /\ editing.events \in SUBSET Events /\ editing.id \in ChannelIds \union {"new"}
    BY <2>1 DEF ChannelForms
  <2> DEFINE up == H!Change(editing.secret, editing.events, Nothing)
  <2>3. up \in ChannelChanges /\ up.secret = editing.secret /\ up.events = editing.events
    <3>1. editing.events \in FormEvents /\ Nothing \in FormFlags
      BY <2>2 DEF FormFlags, FormEvents
    <3> QED BY <2>2, <3>1 DEF H!Change, ChannelChanges
  <2>4. \/ editing.id = "new" /\ H!Call("create", Nothing, up)
        \/ editing.id \in ChannelIds /\ H!Call("save", editing.id, up)
    BY <1>1, <2>2 DEF H!save
  <2> HIDE DEF up
  <2> QED BY <1>0, <2>1, <2>2, <2>3, <2>4, CallKeeps DEF Ops
<1>2. ASSUME NEW i \in ChannelIds, H!removeChannel(i) \/ H!sendTest(i) PROVE ChannelsInv'
  <2>1. H!Call("remove", i, H!NoChange) \/ H!Call("test", i, H!NoChange)
    BY <1>2 DEF H!removeChannel, H!sendTest
  <2>2. H!NoChange \in ChannelChanges
    <3>1. Nothing \in FormSecrets /\ Nothing \in FormFlags /\ Nothing \in FormEvents
      BY DEF FormSecrets, FormFlags, FormEvents
    <3> QED BY <3>1, ChangeFacts
  <2> QED BY <1>0, <2>1, <2>2, CallKeeps DEF Ops
<1>3. ASSUME NEW i \in ChannelIds, H!toggleEnabled(i) PROVE ChannelsInv'
  <2>1. hShown[i] \in ShownRows
    BY <1>3 DEF H!toggleEnabled, ChannelsInv, Shown
  <2>2. [H!NoChange EXCEPT !.enabled = ~hShown[i].enabled] \in ChannelChanges
    <3>1. Nothing \in FormSecrets /\ Nothing \in FormEvents
      BY DEF FormSecrets, FormEvents
    <3>2. (~hShown[i].enabled) \in BOOLEAN
      OBVIOUS
    <3>3. (~hShown[i].enabled) \in FormFlags
      BY <3>2, Zenon DEF FormFlags
    <3> QED BY <3>1, <3>3, ChangeFacts
  <2>3. H!Call("enable", i, [H!NoChange EXCEPT !.enabled = ~hShown[i].enabled])
    BY <1>3 DEF H!toggleEnabled
  <2> QED BY <1>0, <2>2, <2>3, CallKeeps DEF Ops
<1>4. ASSUME NEW i \in ChannelIds, NEW e \in Events, H!toggleSubscription(i, e) PROVE ChannelsInv'
  <2> DEFINE events == IF e \in hShown[i].events THEN hShown[i].events \ {e}
                       ELSE hShown[i].events \union {e}
             up == [H!NoChange EXCEPT !.events = events]
  <2>1. hShown[i] # Nothing /\ H!Call("subscribe", i, up)
    BY <1>4 DEF H!toggleSubscription
  <2>2. hShown[i] \in ShownRows
    BY <2>1 DEF ChannelsInv, Shown
  <2>3. events \in SUBSET Events
    BY <2>2 DEF ShownRows
  <2> HIDE DEF events
  <2>4. up \in ChannelChanges /\ up.events = events
    <3>1. Nothing \in FormSecrets /\ Nothing \in FormFlags /\ events \in FormEvents
      BY <2>3 DEF FormSecrets, FormFlags, FormEvents
    <3> QED BY <3>1, ChangeFacts
  <2> HIDE DEF up
  <2> QED BY <1>0, <2>1, <2>2, <2>3, <2>4, CallKeeps DEF Ops
<1> QED BY <1>1, <1>2, <1>3, <1>4

LEMMA SubscribedKeeps == ASSUME ChannelsInv, NEW q \in hAnswers, H!Subscribed(q) PROVE ChannelsInv'
<1>1. /\ UNCHANGED <<stored, turn, editing, hAsked, hLoads, hCalls>> /\ hAnswers' \subseteq hAnswers
      /\ q.op = "subscribe" /\ Proper(q)
      /\ hShown' = hShown \/ (q.turn = turn /\ hShown' = [hShown EXCEPT ![q.id].events = q.up.events])
  BY DEF H!Subscribed, H!SubscriptionShown, ChannelsInv
<1>2. CASE hShown' = hShown
  <2>1. \A r \in hAsked' \union hAnswers' : Proper(r)'
    BY <1>1, <1>2, ProperFacts DEF ChannelsInv
  <2> QED BY <1>1, <1>2, <2>1 DEF ChannelsInv, ListsAreMasked, FormIsProper
<1>3. CASE q.turn = turn /\ hShown' = [hShown EXCEPT ![q.id].events = q.up.events]
  <2>1. q.id \in ChannelIds /\ q.up.events \in SUBSET Events
    BY <1>1, <1>3 DEF Proper
  <2>2. hShown[q.id] \in ShownRows
    BY <1>1, <1>3 DEF Proper
  <2> DEFINE c == [hShown[q.id] EXCEPT !.events = q.up.events]
  <2>3. c \in ShownRows
    BY <2>1, <2>2 DEF ShownRows
  <2>4. hShown' = [hShown EXCEPT ![q.id] = c]
    BY <1>3
  <2> HIDE DEF c
  <2>5. hShown' \in Shown
    BY <2>1, <2>3, <2>4 DEF ChannelsInv, Shown
  <2>6. hShown'[q.id] \in ShownRows /\ \A i \in ChannelIds : i # q.id => hShown'[i] = hShown[i]
    BY <2>1, <2>3, <2>4 DEF ChannelsInv, Shown
  <2>7. \A r \in hAsked' \union hAnswers' : Proper(r)'
    BY <1>1, <2>6 DEF ChannelsInv, Proper
  <2> QED BY <1>1, <2>5, <2>7 DEF ChannelsInv, ListsAreMasked, FormIsProper
<1> QED BY <1>1, <1>2, <1>3

LEMMA DoneKeeps == ASSUME ChannelsInv, NEW q \in hAnswers, H!Done(q) PROVE ChannelsInv'
<1>1. /\ UNCHANGED <<stored, hShown, turn, hAsked, hCalls>> /\ hAnswers' \subseteq hAnswers
      /\ editing' \in {editing, Nothing}
      /\ hLoads' = hLoads \/ hLoads' = hLoads \union {[n |-> q.n + 1, list |-> Nothing]}
  BY DEF H!Done, H!load
<1>2. q.n + 1 \in Nat
  BY DEF ChannelsInv, Proper, ChannelRequests
<1>3. ListsAreMasked' /\ FormIsProper'
  BY <1>1, <1>2 DEF ChannelsInv, ListsAreMasked, FormIsProper
<1>4. \A r \in hAsked' \union hAnswers' : Proper(r)'
  BY <1>1, ProperFacts DEF ChannelsInv
<1> QED BY <1>1, <1>3, <1>4 DEF ChannelsInv

-----------------------------------------------------------------------------
LEMMA ChannelsStart == H!Init => ChannelsInv
<1> SUFFICES ASSUME H!Init PROVE ChannelsInv
  OBVIOUS
<1>1. stored \in Kept /\ hShown \in Shown
  BY DEF H!Init, Kept, Shown, KeptRows
<1>2. ListsAreMasked
  BY DEF H!Init, ListsAreMasked
<1> QED BY <1>1, <1>2 DEF H!Init, ChannelsInv, FormIsProper

LEMMA ChannelsStep == ASSUME "new" \notin ChannelIds PROVE ChannelsInv /\ [H!Next]_(H!vars) => ChannelsInv'
<1> SUFFICES ASSUME ChannelsInv, [H!Next]_(H!vars) PROVE ChannelsInv'
  OBVIOUS
<1>1. CASE UNCHANGED H!vars
  BY <1>1, ProperFacts DEF H!vars, H!page, ChannelsInv, ListsAreMasked, FormIsProper
<1>2. CASE H!Next
  BY <1>2, ServeKeeps, ListKeeps, EditKeeps, AskKeeps, SubscribedKeeps, DoneKeeps DEF H!Next
<1> QED BY <1>1, <1>2

LEMMA ChannelsShow == ChannelsInv => H!SecretKept
BY DEF ChannelsInv, H!SecretKept, Kept, Shown, KeptRows, ShownRows

\* Only masks leave the server and no mask is ever stored (SecretKept), whatever
\* is typed, clicked, served, lost and loaded again; the form for a new channel
\* needs a name of its own.
THEOREM SecretsAreKept == ASSUME "new" \notin ChannelIds PROVE H!Spec => []H!SecretKept
BY ChannelsStart, ChannelsStep, ChannelsShow, PTL DEF H!Spec

-----------------------------------------------------------------------------
(* The matrix of the channels: one request at a time, it shows what is stored. *)

Agree(held, kept) ==
  \A i \in ChannelIds : kept[i] # Nothing /\ held[i] # Nothing => held[i].events = kept[i].events

\* One request, or the list it is followed by; what it leaves on the page until
\* then: nothing of it when it was refused, and of the matrix but the click.
OneCall ==
  ~blurred =>
    /\ \A q, r \in hAsked \union hAnswers : q = r
    /\ hAsked = {} \/ hAnswers = {}
    /\ hAsked \union hAnswers # {} => hLoads = {}
    /\ \A k, l \in hLoads : k = l
    /\ \A l \in hLoads : l.list # Nothing => Agree(l.list, stored)
    /\ hLoads = {} /\ hAnswers = {} => Agree(hShown, stored)
    /\ \A q \in hAsked \union hAnswers :
         q.op = "subscribe" => q.turn = turn /\ hShown[q.id] # Nothing
    /\ \A q \in hAnswers :
         /\ ~q.ok => Agree(hShown, stored)
         /\ q.ok /\ q.op = "subscribe" =>
              \A i \in ChannelIds :
                stored[i] # Nothing /\ hShown[i] # Nothing =>
                  stored[i].events = IF i = q.id THEN q.up.events ELSE hShown[i].events

MatrixInv == ChannelsInv /\ OneCall

LEMMA MatrixServe ==
  ASSUME Nothing \notin SUBSET Events, MatrixInv, NEW q \in hAsked, H!Serve(q)
  PROVE  OneCall'
<1> SUFFICES ASSUME ~blurred' PROVE OneCall'
  BY DEF OneCall
<1>1. /\ ~blurred /\ hAsked' = hAsked \ {q} /\ UNCHANGED <<hShown, turn, hLoads>>
      /\ \/ hAnswers' = hAnswers \union {[q EXCEPT !.ok = FALSE]} /\ UNCHANGED stored
         \/ hAnswers' = hAnswers \union {[q EXCEPT !.ok = TRUE]} /\ H!Effect(q)
  <2>1. hAsked' = hAsked \ {q} /\ UNCHANGED <<hShown, turn, hLoads>>
    BY DEF H!Serve, H!page
  <2>2. CASE hAnswers' = hAnswers \union {[q EXCEPT !.ok = FALSE]} /\ UNCHANGED <<stored, blurred>>
    BY <2>1, <2>2
  <2>3. CASE H!Effect(q) /\ \E ok \in BOOLEAN : /\ hAnswers' = hAnswers \union {[q EXCEPT !.ok = ok]}
                                              /\ blurred' = (blurred \/ ~ok)
    <3>1. PICK ok \in BOOLEAN : /\ hAnswers' = hAnswers \union {[q EXCEPT !.ok = ok]}
                                /\ blurred' = (blurred \/ ~ok)
      BY <2>3
    <3>2. CASE ok
      <4>1. ok = TRUE
        BY <3>2
      <4>2. ~blurred
        BY <3>1
      <4> QED BY <2>1, <2>3, <3>1, <4>1, <4>2
    <3>3. CASE ~ok
      BY <3>1, <3>3
    <3> QED BY <3>2, <3>3
  <2> QED BY <2>2, <2>3 DEF H!Serve
<1>2. Proper(q) /\ q \in ChannelRequests
  BY DEF MatrixInv, ChannelsInv, Proper
<1>3. /\ hAsked = {q} /\ hAnswers = {} /\ hLoads = {} /\ Agree(hShown, stored)
      /\ q.op = "subscribe" => q.turn = turn /\ hShown[q.id] # Nothing
  BY <1>1 DEF MatrixInv, OneCall
<1>4. PICK ok \in BOOLEAN : /\ hAnswers' = {[q EXCEPT !.ok = ok]}
                            /\ ~ok => UNCHANGED stored
                            /\ ok => H!Effect(q)
  BY <1>1, <1>3
<1> DEFINE r == [q EXCEPT !.ok = ok]
<1>5. r.op = q.op /\ r.id = q.id /\ r.up = q.up /\ r.turn = q.turn /\ r.ok = ok
  BY <1>2 DEF ChannelRequests
<1> HIDE DEF r
<1>6. hAnswers' = {r} /\ hAsked' = {} /\ hLoads' = {}
  BY <1>1, <1>3, <1>4 DEF r
<1>7. ~ok => Agree(hShown', stored')
  BY <1>1, <1>3, <1>4
<1>8. ASSUME ok, q.op = "subscribe", NEW i \in ChannelIds, stored'[i] # Nothing, hShown'[i] # Nothing
      PROVE  stored'[i].events = IF i = q.id THEN q.up.events ELSE hShown'[i].events
  <2>1. stored[q.id] # Nothing /\ stored' = [stored EXCEPT ![q.id] = H!Updated(stored[q.id], q.up)]
    BY <1>4, <1>8 DEF H!Effect
  <2>2. q.up.events \in SUBSET Events /\ q.id \in ChannelIds
    BY <1>2, <1>8 DEF Proper
  <2>3. H!Updated(stored[q.id], q.up).events = q.up.events
    BY <2>2 DEF H!Updated
  <2>4. stored \in Kept
    BY DEF MatrixInv, ChannelsInv
  <2>5. i # q.id => stored'[i] = stored[i]
    BY <2>1, <2>2, <2>4 DEF Kept
  <2>6. i = q.id => stored'[i] = H!Updated(stored[q.id], q.up)
    BY <2>1, <2>2, <2>4 DEF Kept
  <2> QED BY <1>1, <1>3, <1>8, <2>3, <2>5, <2>6 DEF Agree
<1> QED BY <1>1, <1>3, <1>5, <1>6, <1>7, <1>8 DEF OneCall

LEMMA MatrixList ==
  ASSUME MatrixInv, NEW l \in hLoads, H!ReadList(l) \/ H!ListComes(l) \/ H!ListFails(l)
  PROVE  OneCall'
<1> SUFFICES ASSUME ~blurred' PROVE OneCall'
  BY DEF OneCall
<1>1. UNCHANGED <<stored, hAsked, hAnswers>> /\ ~blurred /\ ~H!ListFails(l)
  BY DEF H!ReadList, H!ListComes, H!ListFails, H!page
<1>2. /\ hLoads = {l} /\ hAsked = {} /\ hAnswers = {}
      /\ l.list # Nothing => Agree(l.list, stored)
  BY <1>1 DEF MatrixInv, OneCall
<1>3. CASE H!ReadList(l)
  <2> DEFINE mask == [i \in ChannelIds |-> H!maskChannel(stored[i])]
             m == [l EXCEPT !.list = mask]
  <2>1. hLoads' = (hLoads \ {l}) \union {m} /\ UNCHANGED <<hShown, turn>>
    BY <1>3 DEF H!ReadList, H!page
  <2>2. Agree(mask, stored)
    <3> SUFFICES ASSUME NEW i \in ChannelIds, stored[i] # Nothing
                 PROVE  mask[i].events = stored[i].events
      BY DEF Agree
    <3>1. stored[i] \in KeptRows
      BY DEF MatrixInv, ChannelsInv, Kept
    <3>2. mask[i] = [stored[i] EXCEPT !.secret = Masked]
      BY DEF H!maskChannel
    <3> HIDE DEF mask
    <3> QED BY <3>1, <3>2 DEF KeptRows
  <2> HIDE DEF mask
  <2>3. m.list = mask
    <3>1. PICK n \in Nat, L \in Shown \union {Nothing} : l = [n |-> n, list |-> L]
      BY DEF MatrixInv, ChannelsInv, ListsAreMasked
    <3> QED BY <3>1
  <2> HIDE DEF m
  <2>4. hLoads' = {m}
    BY <1>2, <2>1
  <2> QED BY <1>1, <1>2, <2>2, <2>3, <2>4 DEF OneCall
<1>4. CASE H!ListComes(l)
  <2>1. hLoads' = {} /\ hShown' = l.list /\ l.list # Nothing
    BY <1>2, <1>4 DEF H!ListComes
  <2> QED BY <1>1, <1>2, <2>1 DEF OneCall
<1> QED BY <1>1, <1>3, <1>4

\* A new request is alone, or blurs.
LEMMA MatrixCall ==
  ASSUME MatrixInv, NEW op, NEW on, NEW up, H!Call(op, on, up),
         op = "subscribe" => hShown[on] # Nothing,
         UNCHANGED <<stored, hShown, turn, hAnswers, hLoads>>
  PROVE  OneCall'
<1> SUFFICES ASSUME ~blurred' PROVE OneCall'
  BY DEF OneCall
<1>1. ~blurred /\ hAsked = {} /\ hAnswers = {} /\ hLoads = {}
  BY DEF H!Call, H!Quiet
<1> DEFINE q == [op |-> op, id |-> on, up |-> up, turn |-> turn, n |-> hCalls, ok |-> TRUE]
<1>2. hAsked' = {q}
  BY <1>1 DEF H!Call
<1>3. q.turn = turn /\ (q.op = "subscribe" => hShown[q.id] # Nothing)
  OBVIOUS
<1> HIDE DEF q
<1> QED BY <1>1, <1>2, <1>3 DEF MatrixInv, OneCall

LEMMA MatrixSubscribed ==
  ASSUME MatrixInv, NEW q \in hAnswers, H!Subscribed(q)
  PROVE  OneCall'
<1> SUFFICES ASSUME ~blurred PROVE OneCall'
  BY DEF OneCall, H!Subscribed
<1>1. /\ UNCHANGED <<stored, turn, hAsked, hLoads, blurred>> /\ hAnswers' = hAnswers \ {q}
      /\ q.op = "subscribe" /\ H!SubscriptionShown(q)
  BY DEF H!Subscribed
<1>2. /\ hAnswers = {q} /\ hAsked = {} /\ hLoads = {}
      /\ q.turn = turn /\ hShown[q.id] # Nothing
  BY <1>1 DEF MatrixInv, OneCall
<1>3. Agree(hShown', stored)
  <2>1. CASE ~q.ok
    BY <1>1, <2>1 DEF MatrixInv, OneCall, H!SubscriptionShown
  <2>2. CASE q.ok
    <3>1. hShown' = [hShown EXCEPT ![q.id] = [hShown[q.id] EXCEPT !.events = q.up.events]]
      BY <1>1, <1>2, <2>2 DEF H!SubscriptionShown
    <3>2. Proper(q) /\ hShown \in Shown
      BY DEF MatrixInv, ChannelsInv
    <3>3. q.id \in ChannelIds /\ hShown[q.id] \in ShownRows
      BY <1>1, <1>2, <3>2 DEF Proper
    <3>4. [hShown[q.id] EXCEPT !.events = q.up.events].events = q.up.events
      BY <3>3 DEF ShownRows
    <3> SUFFICES ASSUME NEW i \in ChannelIds, stored[i] # Nothing, hShown'[i] # Nothing
                 PROVE  hShown'[i].events = stored[i].events
      BY DEF Agree
    <3>5. stored[i] # Nothing /\ hShown[i] # Nothing =>
            stored[i].events = IF i = q.id THEN q.up.events ELSE hShown[i].events
      BY <1>1, <2>2 DEF MatrixInv, OneCall
    <3>6. CASE i = q.id
      <4>1. hShown'[i].events = q.up.events
        BY <3>1, <3>2, <3>3, <3>4, <3>6 DEF Shown
      <4>2. stored[i].events = q.up.events
        BY <1>2, <3>5, <3>6
      <4> QED BY <4>1, <4>2
    <3>7. CASE i # q.id
      BY <3>1, <3>2, <3>3, <3>5, <3>7 DEF Shown
    <3> QED BY <3>6, <3>7
  <2> QED BY <2>1, <2>2
<1>4. hAnswers' = {} /\ hAsked' = {} /\ hLoads' = {}
  BY <1>1, <1>2
<1> QED BY <1>1, <1>3, <1>4 DEF OneCall

LEMMA MatrixDone ==
  ASSUME MatrixInv, NEW q \in hAnswers, H!Done(q)
  PROVE  OneCall'
<1> SUFFICES ASSUME ~blurred PROVE OneCall'
  BY DEF OneCall, H!Done
<1>1. /\ UNCHANGED <<stored, hShown, turn, hAsked, blurred>> /\ hAnswers' = hAnswers \ {q}
      /\ IF q.ok THEN H!load(q.n) ELSE UNCHANGED hLoads
  BY DEF H!Done
<1>2. hAnswers = {q} /\ hAsked = {} /\ hLoads = {} /\ (~q.ok => Agree(hShown, stored))
  BY DEF MatrixInv, OneCall
<1>3. hAnswers' = {} /\ hAsked' = {}
  BY <1>1, <1>2
<1>4. CASE q.ok
  <2> DEFINE l == [n |-> q.n + 1, list |-> Nothing]
  <2>1. hLoads' = {l} /\ l.list = Nothing
    BY <1>1, <1>2, <1>4 DEF H!load
  <2> HIDE DEF l
  <2> QED BY <1>1, <1>3, <2>1 DEF OneCall
<1>5. CASE ~q.ok
  BY <1>1, <1>2, <1>3, <1>5 DEF OneCall
<1> QED BY <1>4, <1>5

LEMMA MatrixStart == H!Init => MatrixInv
<1> SUFFICES ASSUME H!Init PROVE MatrixInv
  OBVIOUS
<1>1. OneCall
  BY DEF H!Init, OneCall, Agree
<1> QED BY <1>1, ChannelsStart DEF MatrixInv

\* The names of the form and of what is not there are nobody's else.
ChannelLimits == "new" \notin ChannelIds /\ Nothing \notin SUBSET Events

LEMMA MatrixStep == ASSUME ChannelLimits PROVE MatrixInv /\ [H!Next]_(H!vars) => MatrixInv'
<1> SUFFICES ASSUME MatrixInv, [H!Next]_(H!vars) PROVE OneCall'
  BY ChannelsStep DEF MatrixInv, ChannelLimits
<1>1. ASSUME UNCHANGED <<stored, hShown, turn, hAsked, hAnswers, hLoads, blurred>> PROVE OneCall'
  BY <1>1 DEF MatrixInv, OneCall
<1>2. CASE UNCHANGED H!vars
  BY <1>1, <1>2 DEF H!vars, H!page
<1>3. ASSUME NEW q \in hAsked, H!Serve(q) PROVE OneCall'
  BY <1>3, MatrixServe DEF ChannelLimits
<1>4. ASSUME H!openCreate \/ H!Cancel \/ (\E s \in Secrets : H!TypeSecret(s))
             \/ (\E e \in Events : H!CheckEvent(e)) \/ (\E i \in ChannelIds : H!openEdit(i))
      PROVE  OneCall'
  BY <1>1, <1>4 DEF H!openCreate, H!Cancel, H!TypeSecret, H!CheckEvent, H!openEdit
<1>5. ASSUME H!save \/ (\E i \in ChannelIds : \/ H!toggleEnabled(i) \/ H!removeChannel(i) \/ H!sendTest(i)
                                              \/ \E e \in Events : H!toggleSubscription(i, e))
      PROVE  OneCall'
  <2>1. /\ \E op, on, up : H!Call(op, on, up) /\ (op = "subscribe" => hShown[on] # Nothing)
        /\ UNCHANGED <<stored, hShown, turn, hAnswers, hLoads>>
    <3>1. CASE H!save
      BY <3>1 DEF H!save
    <3>2. CASE \E i \in ChannelIds : H!toggleEnabled(i)
      BY <3>2 DEF H!toggleEnabled, H!page
    <3>3. CASE \E i \in ChannelIds : H!removeChannel(i) \/ H!sendTest(i)
      BY <3>3 DEF H!removeChannel, H!sendTest, H!page
    <3>4. CASE \E i \in ChannelIds, e \in Events : H!toggleSubscription(i, e)
      BY <3>4 DEF H!toggleSubscription, H!page
    <3> QED BY <1>5, <3>1, <3>2, <3>3, <3>4
  <2> QED BY <2>1, MatrixCall
<1> QED BY <1>2, <1>3, <1>4, <1>5, MatrixList, MatrixSubscribed, MatrixDone DEF H!Next

LEMMA MatrixShow == MatrixInv => H!MatrixAgrees
BY DEF MatrixInv, OneCall, H!MatrixAgrees, H!Loaded, H!Quiet, Agree

\* As long as the requests do not overlap, none is lost and the lists come, the
\* matrix of events is the stored one (MatrixAgrees): a click that is refused
\* leaves it, one that is served is written where it was clicked.
THEOREM MatrixIsStored ==
  ASSUME ChannelLimits
  PROVE  H!Spec => []H!MatrixAgrees
BY MatrixStart, MatrixStep, MatrixShow, PTL DEF H!Spec

-----------------------------------------------------------------------------
(* The audit log: its pages join.                                          *)

AuditLimits == PageSize \in Nat \ {0}

Last(s) == s[Len(s)]
Descends(s) == /\ s \in Seq(Nat \ {0})
               /\ \A i \in 1 .. Len(s) - 1 : s[i + 1] = s[i] - 1

\* A page is one stretch of the log, and one without more below it reaches the
\* end of the log.
PageIsWhole(p) ==
  /\ Descends(p.entries) /\ p.more \in BOOLEAN /\ p.append \in BOOLEAN
  /\ p.more => p.entries # <<>>
  /\ ~p.more /\ p.entries # <<>> => Last(p.entries) <= oldest

\* A next page that will be taken goes on where the pages shown end.
GoesOn(p) ==
  p.seq = auditSeq /\ p.append =>
    /\ audit # <<>>
    /\ IF p.entries = <<>> THEN Last(audit) <= oldest ELSE p.entries[1] = Last(audit) - 1

AskedBelow(q) ==
  /\ q.beforeId \in Nat /\ q.append \in BOOLEAN
  /\ q.seq = auditSeq /\ q.append => audit # <<>> /\ q.beforeId = Last(audit)

\* A number is that of one request, which has one answer.
OnePerNumber ==
  /\ \A q \in aAsked \union aAnswers : q.seq \in Nat /\ q.seq <= auditSeq
  /\ \A q \in aAsked, p \in aAnswers : q.seq # p.seq
  /\ \A q, r \in aAsked : q.seq = r.seq => q = r
  /\ \A p, r \in aAnswers : p.seq = r.seq => p = r

AuditInv ==
  /\ oldest \in Nat \ {0} /\ newest \in Nat /\ auditSeq \in Nat
  /\ Descends(audit) /\ auditMore \in BOOLEAN
  /\ auditMore => audit # <<>>
  /\ audit # <<>> /\ ~auditMore => Last(audit) <= oldest
  /\ \A q \in aAsked : AskedBelow(q)
  /\ \A p \in aAnswers : PageIsWhole(p) /\ GoesOn(p)
  /\ OnePerNumber

\* What the server answers.
LEMMA PageFacts ==
  ASSUME AuditLimits, oldest \in Nat \ {0}, newest \in Nat, NEW b \in Nat
  PROVE  /\ Descends(A!PageBelow(b).entries) /\ A!PageBelow(b).more \in BOOLEAN
         /\ A!PageBelow(b).more => A!PageBelow(b).entries # <<>>
         /\ ~A!PageBelow(b).more /\ A!PageBelow(b).entries # <<>>
              => Last(A!PageBelow(b).entries) <= oldest
         /\ b # 0 => IF A!PageBelow(b).entries = <<>> THEN b <= oldest
                     ELSE A!PageBelow(b).entries[1] = b - 1
<1> DEFINE top == IF b = 0 THEN newest ELSE b - 1
           length == IF top < oldest THEN 0
                     ELSE IF top - oldest + 1 > PageSize THEN PageSize ELSE top - oldest + 1
           e == [i \in 1 .. length |-> top - i + 1]
<1>1. A!PageBelow(b) = [entries |-> e, more |-> top >= oldest + length]
  BY DEF A!PageBelow
<1>2. top \in Nat /\ length \in Nat /\ (top >= oldest => length >= 1 /\ length <= top - oldest + 1)
      /\ (top < oldest => length = 0)
  BY DEF AuditLimits
<1>0. b # 0 => top = b - 1
  OBVIOUS
<1>7. top < oldest + length /\ length # 0 => length = top - oldest + 1
  BY DEF AuditLimits
<1> HIDE DEF top, length
<1>3. e \in Seq(Nat \ {0}) /\ Len(e) = length /\ \A i \in 1 .. length : e[i] = top - i + 1
  <2>1. \A i \in 1 .. length : top - i + 1 \in Nat \ {0}
    BY <1>2
  <2> QED BY <1>2, <2>1
<1>4. e = <<>> <=> length = 0
  BY <1>2, <1>3
<1> HIDE DEF e
<1>5. Descends(e)
  BY <1>2, <1>3 DEF Descends
<1>6. length # 0 => Last(e) = top - length + 1 /\ e[1] = top
  BY <1>2, <1>3 DEF Last
<1>8. A!PageBelow(b).entries = e /\ A!PageBelow(b).more = (top >= oldest + length)
  BY <1>1
<1>9. (top >= oldest + length) \in BOOLEAN /\ (top >= oldest + length => length # 0)
  BY <1>2
<1>10. ~(top >= oldest + length) /\ length # 0 => Last(e) <= oldest
  BY <1>2, <1>6, <1>7
<1>11. b # 0 /\ length = 0 => b <= oldest
  BY <1>0, <1>2
<1>12. b # 0 /\ length # 0 => e[1] = b - 1
  BY <1>0, <1>6
<1> QED BY <1>4, <1>5, <1>8, <1>9, <1>10, <1>11, <1>12

\* Two stretches of which the second goes on where the first ends.
LEMMA JoinFacts ==
  ASSUME NEW s, NEW t, Descends(s), Descends(t), s # <<>>, t # <<>>, t[1] = Last(s) - 1
  PROVE  Descends(s \o t) /\ s \o t # <<>> /\ Last(s \o t) = Last(t)
<1>1. /\ s \in Seq(Nat \ {0}) /\ t \in Seq(Nat \ {0}) /\ Len(s) \in Nat /\ Len(t) \in Nat
      /\ Len(s) > 0 /\ Len(t) > 0
      /\ s \o t \in Seq(Nat \ {0}) /\ Len(s \o t) = Len(s) + Len(t)
      /\ \A i \in 1 .. Len(s) : (s \o t)[i] = s[i]
      /\ \A i \in Len(s) + 1 .. Len(s) + Len(t) : (s \o t)[i] = t[i - Len(s)]
  BY DEF Descends
<1>2. ASSUME NEW i \in 1 .. Len(s \o t) - 1 PROVE (s \o t)[i + 1] = (s \o t)[i] - 1
  <2>1. CASE i < Len(s)
    BY <1>1, <2>1 DEF Descends
  <2>2. CASE i = Len(s)
    BY <1>1, <2>2 DEF Last
  <2>3. CASE i > Len(s)
    <3>1. i - Len(s) \in 1 .. Len(t) - 1 /\ (i + 1) - Len(s) = (i - Len(s)) + 1
      BY <1>1, <2>3
    <3>2. (s \o t)[i] = t[i - Len(s)] /\ (s \o t)[i + 1] = t[(i - Len(s)) + 1]
      BY <1>1, <2>3, <3>1
    <3> QED BY <3>1, <3>2 DEF Descends
  <2> QED BY <1>1, <2>1, <2>2, <2>3
<1>3. Last(s \o t) = Last(t)
  <2>1. Len(s) + Len(t) \in Len(s) + 1 .. Len(s) + Len(t) /\ Len(s) + Len(t) - Len(s) = Len(t)
    BY <1>1
  <2> QED BY <1>1, <2>1 DEF Last
<1> QED BY <1>1, <1>2, <1>3, SMTT(30) DEF Descends

\* The log goes on, or loses its oldest entry: what holds of an end still does.
LEMMA LogKeeps == ASSUME AuditInv, A!Write \/ A!Purge PROVE AuditInv'
<1>1. /\ UNCHANGED <<auditSeq, aAsked, aAnswers, audit, auditMore>>
      /\ oldest' \in Nat \ {0} /\ oldest' >= oldest /\ newest' \in Nat
  BY DEF AuditInv, A!Write, A!Purge
<1>2. audit # <<>> => Last(audit) \in Nat
  BY DEF AuditInv, Descends, Last
<1>3. \A p \in aAnswers : PageIsWhole(p)'
  <2> SUFFICES ASSUME NEW p \in aAnswers PROVE PageIsWhole(p)'
    OBVIOUS
  <2>1. PageIsWhole(p) /\ (p.entries # <<>> => Last(p.entries) \in Nat)
    BY DEF AuditInv, PageIsWhole, Descends, Last
  <2> QED BY <1>1, <2>1 DEF PageIsWhole, AuditInv
<1>4. \A p \in aAnswers : GoesOn(p)'
  BY <1>1, <1>2 DEF AuditInv, GoesOn
<1>5. OnePerNumber' /\ \A q \in aAsked : AskedBelow(q)'
  BY <1>1 DEF AuditInv, OnePerNumber, AskedBelow
<1>6. audit # <<>> /\ ~auditMore => Last(audit) <= oldest'
  BY <1>1, <1>2 DEF AuditInv
<1> QED BY <1>1, <1>3, <1>4, <1>5, <1>6 DEF AuditInv

LEMMA LoadKeeps == ASSUME AuditInv, NEW append \in BOOLEAN, A!loadAudit(append) PROVE AuditInv'
<1> DEFINE q == [seq |-> auditSeq + 1, append |-> append,
                 beforeId |-> IF append /\ audit # <<>> THEN audit[Len(audit)] ELSE 0]
<1>1. /\ UNCHANGED <<oldest, newest, aAnswers, audit, auditMore>>
      /\ auditSeq' = auditSeq + 1 /\ aAsked' = aAsked \union {q} /\ (append => auditMore)
  BY DEF A!loadAudit
<1>2. q.seq = auditSeq' /\ q.append = append /\ (append => audit # <<>> /\ q.beforeId = Last(audit))
      /\ q.beforeId \in Nat
  BY <1>1 DEF AuditInv, Descends, Last
<1> HIDE DEF q
<1>3. auditSeq' \in Nat /\ \A r \in aAsked \union aAnswers : r.seq < auditSeq' /\ r.seq \in Nat
  BY <1>1 DEF AuditInv, OnePerNumber
<1>4. OnePerNumber'
  BY <1>1, <1>2, <1>3 DEF AuditInv, OnePerNumber
<1>5. \A r \in aAsked' : AskedBelow(r)'
  BY <1>1, <1>2, <1>3 DEF AuditInv, AskedBelow
<1>6. \A p \in aAnswers' : PageIsWhole(p)' /\ GoesOn(p)'
  BY <1>1, <1>3 DEF AuditInv, PageIsWhole, GoesOn
<1> QED BY <1>1, <1>3, <1>4, <1>5, <1>6 DEF AuditInv

LEMMA PageServed == ASSUME AuditLimits, AuditInv, NEW q \in aAsked, A!Serve(q) PROVE AuditInv'
<1> DEFINE pg == A!PageBelow(q.beforeId)
           p == [seq |-> q.seq, append |-> q.append, entries |-> pg.entries, more |-> pg.more]
<1>1. /\ UNCHANGED <<oldest, newest, auditSeq, audit, auditMore>>
      /\ aAsked' = aAsked \ {q} /\ aAnswers' = aAnswers \union {p}
  BY DEF A!Serve
<1>2. AskedBelow(q) /\ oldest \in Nat \ {0} /\ newest \in Nat
  BY DEF AuditInv
<1>3. /\ p.seq = q.seq /\ p.append = q.append /\ p.entries = pg.entries /\ p.more = pg.more
  OBVIOUS
<1>4. /\ Descends(pg.entries) /\ pg.more \in BOOLEAN
      /\ pg.more => pg.entries # <<>>
      /\ ~pg.more /\ pg.entries # <<>> => Last(pg.entries) <= oldest
      /\ q.beforeId # 0 => IF pg.entries = <<>> THEN q.beforeId <= oldest ELSE pg.entries[1] = q.beforeId - 1
  BY <1>2, PageFacts DEF AskedBelow
<1> HIDE DEF pg, p
<1>5. PageIsWhole(p)
  BY <1>2, <1>3, <1>4 DEF PageIsWhole, AskedBelow
<1>6. GoesOn(p)
  <2>1. audit # <<>> => Last(audit) # 0
    BY DEF AuditInv, Descends, Last
  <2> QED BY <1>2, <1>3, <1>4, <2>1 DEF GoesOn, AskedBelow
<1>7. OnePerNumber'
  BY <1>1, <1>3 DEF AuditInv, OnePerNumber
<1>8. \A r \in aAnswers' : PageIsWhole(r)' /\ GoesOn(r)'
  BY <1>1, <1>5, <1>6 DEF AuditInv, PageIsWhole, GoesOn
<1>9. \A r \in aAsked' : AskedBelow(r)'
  BY <1>1 DEF AuditInv, AskedBelow
<1> QED BY <1>1, <1>7, <1>8, <1>9 DEF AuditInv

\* A request less, and nothing else that matters.
LEMMA FewerKeeps ==
  ASSUME AuditInv, UNCHANGED <<oldest, newest, auditSeq, audit, auditMore>>,
         aAsked' \subseteq aAsked, aAnswers' \subseteq aAnswers
  PROVE  AuditInv'
<1>1. OnePerNumber'
  BY DEF AuditInv, OnePerNumber
<1>2. \A r \in aAnswers' : PageIsWhole(r)' /\ GoesOn(r)'
  BY DEF AuditInv, PageIsWhole, GoesOn
<1>3. \A r \in aAsked' : AskedBelow(r)'
  BY DEF AuditInv, AskedBelow
<1> QED BY <1>1, <1>2, <1>3 DEF AuditInv

LEMMA PageComesKeeps == ASSUME AuditInv, NEW p \in aAnswers, A!PageComes(p) PROVE AuditInv'
<1>1. UNCHANGED <<oldest, newest, auditSeq, aAsked>> /\ aAnswers' = aAnswers \ {p}
  BY DEF A!PageComes
<1>2. CASE p.seq # auditSeq
  BY <1>1, <1>2, FewerKeeps DEF A!PageComes
<1>3. CASE p.seq = auditSeq
  <2>1. audit' = (IF p.append THEN audit \o p.entries ELSE p.entries) /\ auditMore' = p.more
    BY <1>3 DEF A!PageComes
  <2>2. PageIsWhole(p) /\ GoesOn(p) /\ Descends(audit)
    BY DEF AuditInv
  <2>3. Descends(audit') /\ (auditMore' => audit' # <<>>)
        /\ (audit' # <<>> /\ ~auditMore' => Last(audit') <= oldest)
    <3>1. CASE ~p.append
      BY <2>1, <2>2, <3>1 DEF PageIsWhole
    <3>2. CASE p.append /\ p.entries = <<>>
      <4>1. audit' = audit
        BY <2>1, <2>2, <3>2 DEF Descends
      <4> QED BY <1>3, <2>1, <2>2, <3>2, <4>1 DEF PageIsWhole, GoesOn
    <3>3. CASE p.append /\ p.entries # <<>>
      <4>1. Descends(p.entries) /\ audit # <<>> /\ p.entries[1] = Last(audit) - 1
        BY <1>3, <2>2, <3>3 DEF PageIsWhole, GoesOn
      <4>2. Descends(audit') /\ audit' # <<>> /\ Last(audit') = Last(p.entries)
        BY <2>1, <2>2, <3>3, <4>1, JoinFacts
      <4> QED BY <2>1, <2>2, <3>3, <4>2 DEF PageIsWhole
    <3> QED BY <2>2, <3>1, <3>2, <3>3 DEF PageIsWhole
  <2>4. \A r \in aAsked' \union aAnswers' : r.seq # auditSeq
    BY <1>1, <1>3 DEF AuditInv, OnePerNumber
  <2>5. OnePerNumber'
    BY <1>1 DEF AuditInv, OnePerNumber
  <2>6. \A r \in aAsked' : AskedBelow(r)'
    BY <1>1, <2>4 DEF AuditInv, AskedBelow
  <2>7. \A r \in aAnswers' : PageIsWhole(r)' /\ GoesOn(r)'
    BY <1>1, <2>4 DEF AuditInv, PageIsWhole, GoesOn
  <2>8. auditMore' \in BOOLEAN
    BY <2>1, <2>2 DEF PageIsWhole
  <2>9. Descends(audit)' /\ (auditMore => audit # <<>>)' /\ (audit # <<>> /\ ~auditMore => Last(audit) <= oldest)'
    BY <1>1, <2>3 DEF Descends, Last
  <2> QED BY <1>1, <2>5, <2>6, <2>7, <2>8, <2>9 DEF AuditInv
<1> QED BY <1>2, <1>3

LEMMA AuditStart == A!Init => AuditInv
<1> SUFFICES ASSUME A!Init PROVE AuditInv
  OBVIOUS
<1>1. <<>> \in Seq(Nat \ {0}) /\ Len(<<>>) = 0
  OBVIOUS
<1>2. newest \in Nat /\ oldest = 1 /\ auditSeq = 0
  BY DEF A!Init
<1>3. aAsked = {} /\ aAnswers = {} /\ audit = <<>> /\ auditMore = FALSE
  BY DEF A!Init
<1>4. Descends(<<>>)
  BY <1>1 DEF Descends
<1>5. OnePerNumber
  BY <1>3 DEF OnePerNumber
<1>6. Descends(audit) /\ auditMore \in BOOLEAN /\ ~auditMore /\ audit = <<>>
  BY <1>3, <1>4
<1> QED BY <1>2, <1>3, <1>5, <1>6 DEF AuditInv

LEMMA AuditStep == ASSUME AuditLimits PROVE AuditInv /\ [A!Next]_(A!vars) => AuditInv'
<1> SUFFICES ASSUME AuditInv, [A!Next]_(A!vars) PROVE AuditInv'
  OBVIOUS
<1>1. CASE UNCHANGED A!vars
  BY <1>1, FewerKeeps DEF A!vars
<1>2. ASSUME NEW q \in aAsked, A!PageFails(q) PROVE AuditInv'
  BY <1>2, FewerKeeps DEF A!PageFails
<1>3. CASE A!Next
  BY <1>2, <1>3, LogKeeps, LoadKeeps, PageServed, PageComesKeeps DEF A!Next
<1> QED BY <1>1, <1>3

LEMMA AuditShow == AuditInv => A!PagesJoin
BY DEF AuditInv, A!PagesJoin, Descends, Last

\* The pages of the audit log join (PagesJoin): no gap and no repetition, whatever
\* is written and purged between two pages and however a reload overtakes one,
\* for a log of any length and pages of any size.
THEOREM PagesAlwaysJoin == ASSUME AuditLimits PROVE A!Spec => []A!PagesJoin
BY AuditStart, AuditStep, AuditShow, PTL DEF A!Spec

-----------------------------------------------------------------------------
(* The unused resources: what was deleted stays hidden, and each deletion  *)
(* goes to the account of its resource.                                    *)

\* What a page was told was deleted is hidden by "removed", unless Oracle no
\* longer lists it or it was forgotten.
DeletedIsCovered == \A r \in deleted : oci[r] = "gone" \/ r \in removed \union forgot

\* The answer that will be taken is of the account on the page, and what it has of
\* the deleted ones is hidden or was forgotten.
AnswerIsCovered(p) ==
  p.seq = cSeq => /\ deleted \intersect p.ids \subseteq removed \union forgot
                 /\ \A r \in p.ids : Owner(r) = accountId

OneLoadPerNumber ==
  /\ \A q \in cAsked \union cAnswers : q.seq \in Nat /\ q.seq <= cSeq
  /\ \A q \in cAsked, p \in cAnswers : q.seq # p.seq
  /\ \A p, r \in cAnswers : p.seq = r.seq => p = r
  /\ \A q, r \in cAsked : q.seq = r.seq => q = r

CleanupInv ==
  /\ oci \in [Resources -> {"there", "deleting", "gone"}] /\ deleted \subseteq Resources
  /\ cSeq \in Nat /\ accountId \in Accounts
  /\ deletions \subseteq [id : Resources, account : Accounts, accepted : BOOLEAN]
  /\ OneLoadPerNumber /\ DeletedIsCovered
  /\ \A q \in cAsked : q.seq = cSeq => q.account = accountId
  /\ \A p \in cAnswers : AnswerIsCovered(p)
  /\ data # Nothing => \A r \in data : Owner(r) = accountId
  /\ C!HiddenUnlessForgotten /\ C!DeletesInOwnAccount

\* A new request is asked under a new number: the answers on their way will not
\* be taken.
LEMMA NewNumber ==
  ASSUME CleanupInv, NEW a, cSeq' = cSeq + 1, cAsked' = cAsked \union {[seq |-> cSeq + 1, account |-> a]},
         cAnswers' = cAnswers, accountId' = a
  PROVE  /\ cSeq' \in Nat /\ OneLoadPerNumber'
         /\ \A q \in cAsked' : q.seq = cSeq' => q.account = accountId'
         /\ \A p \in cAnswers' : AnswerIsCovered(p)'
<1> DEFINE q == [seq |-> cSeq + 1, account |-> a]
<1>1. q.seq = cSeq' /\ q.account = a /\ cAsked' = cAsked \union {q}
  OBVIOUS
<1> HIDE DEF q
<1>2. cSeq' \in Nat /\ \A r \in cAsked \union cAnswers : r.seq \in Nat /\ r.seq < cSeq'
  BY DEF CleanupInv, OneLoadPerNumber
<1>3. OneLoadPerNumber'
  BY <1>1, <1>2 DEF CleanupInv, OneLoadPerNumber
<1>4. \A p \in cAnswers' : AnswerIsCovered(p)'
  BY <1>1, <1>2 DEF AnswerIsCovered
<1> QED BY <1>1, <1>2, <1>3, <1>4

LEMMA SelectKeeps ==
  ASSUME CleanupInv, C!Refresh \/ \E a \in Accounts : C!SelectAccount(a)
  PROVE  CleanupInv'
<1>1. PICK a \in Accounts : /\ accountId' = a /\ cSeq' = cSeq + 1 /\ cAnswers' = cAnswers
                            /\ cAsked' = cAsked \union {[seq |-> cSeq + 1, account |-> a]}
                            /\ data' = Nothing \/ (data' = data /\ a = accountId)
                            /\ UNCHANGED <<oci, removed, acting, deletions, deleted, forgot>>
  BY DEF C!Refresh, C!SelectAccount, C!load, CleanupInv
<1>2. /\ cSeq' \in Nat /\ OneLoadPerNumber'
      /\ \A q \in cAsked' : q.seq = cSeq' => q.account = accountId'
      /\ \A p \in cAnswers' : AnswerIsCovered(p)'
  BY <1>1, NewNumber
<1>3. DeletedIsCovered' /\ C!HiddenUnlessForgotten' /\ C!DeletesInOwnAccount'
  BY <1>1 DEF CleanupInv, DeletedIsCovered, C!HiddenUnlessForgotten, C!DeletesInOwnAccount
<1> QED BY <1>1, <1>2, <1>3 DEF CleanupInv

LEMMA ListedServed == ASSUME CleanupInv, NEW q \in cAsked, C!Serve(q) PROVE CleanupInv'
<1> DEFINE p == [seq |-> q.seq, ids |-> C!Listed(q.account)]
<1>1. /\ cAsked' = cAsked \ {q} /\ cAnswers' = cAnswers \union {p}
      /\ UNCHANGED <<oci, accountId, cSeq, data, removed, acting, deletions, deleted, forgot>>
  BY DEF C!Serve
<1>2. p.seq = q.seq /\ p.ids = C!Listed(q.account)
  OBVIOUS
<1> HIDE DEF p
<1>3. AnswerIsCovered(p)
  BY <1>2 DEF CleanupInv, AnswerIsCovered, C!Listed, DeletedIsCovered
<1>4. OneLoadPerNumber'
  BY <1>1, <1>2 DEF CleanupInv, OneLoadPerNumber
<1>5. \A r \in cAnswers' : AnswerIsCovered(r)'
  BY <1>1, <1>3 DEF CleanupInv, AnswerIsCovered
<1>6. DeletedIsCovered' /\ C!HiddenUnlessForgotten' /\ C!DeletesInOwnAccount'
  BY <1>1 DEF CleanupInv, DeletedIsCovered, C!HiddenUnlessForgotten, C!DeletesInOwnAccount
<1> QED BY <1>1, <1>4, <1>5, <1>6 DEF CleanupInv

LEMMA LoadFailsKeeps == ASSUME CleanupInv, NEW q \in cAsked, C!LoadFails(q) PROVE CleanupInv'
<1>1. /\ cAsked' = cAsked \ {q} /\ data' \in {data, Nothing}
      /\ UNCHANGED <<oci, accountId, cSeq, cAnswers, removed, acting, deletions, deleted, forgot>>
  BY DEF C!LoadFails
<1>2. OneLoadPerNumber' /\ DeletedIsCovered' /\ C!HiddenUnlessForgotten' /\ C!DeletesInOwnAccount'
  BY <1>1 DEF CleanupInv, OneLoadPerNumber, DeletedIsCovered, C!HiddenUnlessForgotten, C!DeletesInOwnAccount
<1>3. \A r \in cAnswers' : AnswerIsCovered(r)'
  BY <1>1 DEF CleanupInv, AnswerIsCovered
<1> QED BY <1>1, <1>2, <1>3 DEF CleanupInv

LEMMA LoadedKeeps == ASSUME CleanupInv, NEW p \in cAnswers, C!Loaded(p) PROVE CleanupInv'
<1>1. /\ cAnswers' = cAnswers \ {p}
      /\ UNCHANGED <<oci, accountId, cSeq, cAsked, acting, deletions, deleted>>
  BY DEF C!Loaded
<1>2. OneLoadPerNumber' /\ C!DeletesInOwnAccount'
  BY <1>1 DEF CleanupInv, OneLoadPerNumber, C!DeletesInOwnAccount
<1>3. CASE p.seq # cSeq
  <2>1. UNCHANGED <<data, removed, forgot>>
    BY <1>3 DEF C!Loaded
  <2>2. DeletedIsCovered' /\ C!HiddenUnlessForgotten' /\ \A r \in cAnswers' : AnswerIsCovered(r)'
    BY <1>1, <2>1 DEF CleanupInv, DeletedIsCovered, C!HiddenUnlessForgotten, AnswerIsCovered
  <2> QED BY <1>1, <1>2, <2>1, <2>2 DEF CleanupInv
<1>4. CASE p.seq = cSeq
  <2>1. /\ data' = p.ids \ (removed \intersect p.ids) /\ removed' = removed \intersect p.ids
        /\ forgot' = forgot \union {r \in removed \ p.ids : oci[r] # "gone"}
    BY <1>4 DEF C!Loaded, C!Take, C!withoutRemoved, C!stillRemoved
  <2>2. AnswerIsCovered(p)
    BY DEF CleanupInv
  <2>3. DeletedIsCovered'
    BY <1>1, <2>1 DEF CleanupInv, DeletedIsCovered
  <2>4. C!HiddenUnlessForgotten' /\ \A r \in data' : Owner(r) = accountId'
    BY <1>1, <1>4, <2>1, <2>2 DEF AnswerIsCovered, C!HiddenUnlessForgotten
  <2>5. \A r \in cAnswers' : AnswerIsCovered(r)'
    BY <1>1, <1>4 DEF CleanupInv, AnswerIsCovered, OneLoadPerNumber
  <2> QED BY <1>1, <1>2, <2>3, <2>4, <2>5 DEF CleanupInv
<1> QED BY <1>3, <1>4

\* A button, a deletion that Oracle accepts or that fails, and a resource that goes.
LEMMA ActingKeeps ==
  ASSUME CleanupInv,
         \/ \E r \in Resources : C!Delete(r) \/ C!OciForgets(r)
         \/ \E d \in deletions : C!Accept(d) \/ C!DeleteFails(d)
  PROVE  CleanupInv'
<1>1. /\ UNCHANGED <<accountId, cSeq, cAsked, cAnswers, data, removed, deleted, forgot>>
      /\ \A r \in deleted : oci[r] = "gone" => oci'[r] = "gone"
      /\ oci' \in [Resources -> {"there", "deleting", "gone"}]
  BY DEF CleanupInv, C!Delete, C!OciForgets, C!Accept, C!DeleteFails
<1>2. /\ deletions' \subseteq [id : Resources, account : Accounts, accepted : BOOLEAN]
      /\ \A d \in deletions' : d.account = Owner(d.id)
  <2>1. ASSUME NEW r \in Resources, C!Delete(r)
        PROVE  /\ deletions' \subseteq [id : Resources, account : Accounts, accepted : BOOLEAN]
               /\ \A d \in deletions' : d.account = Owner(d.id)
    <3>1. accountId \in Accounts /\ Owner(r) = accountId
      BY <2>1 DEF CleanupInv, C!Delete
    <3> DEFINE c == [id |-> r, account |-> accountId, accepted |-> FALSE]
    <3>2. /\ c \in [id : Resources, account : Accounts, accepted : BOOLEAN]
          /\ c.account = Owner(c.id) /\ deletions' = deletions \union {c}
      BY <2>1, <3>1 DEF C!Delete
    <3> HIDE DEF c
    <3> QED BY <3>2 DEF CleanupInv, C!DeletesInOwnAccount
  <2>2. ASSUME NEW d \in deletions, C!Accept(d)
        PROVE  /\ deletions' \subseteq [id : Resources, account : Accounts, accepted : BOOLEAN]
               /\ \A c \in deletions' : c.account = Owner(c.id)
    <3> DEFINE c == [d EXCEPT !.accepted = TRUE]
    <3>1. /\ c \in [id : Resources, account : Accounts, accepted : BOOLEAN]
          /\ c.account = d.account /\ c.id = d.id
      BY DEF CleanupInv
    <3>2. deletions' \subseteq deletions \union {c}
      BY <2>2 DEF C!Accept
    <3> QED BY <3>1, <3>2 DEF CleanupInv, C!DeletesInOwnAccount
  <2>3. ASSUME deletions' \subseteq deletions
        PROVE  /\ deletions' \subseteq [id : Resources, account : Accounts, accepted : BOOLEAN]
               /\ \A d \in deletions' : d.account = Owner(d.id)
    BY <2>3 DEF CleanupInv, C!DeletesInOwnAccount
  <2> QED BY <2>1, <2>2, <2>3 DEF C!OciForgets, C!DeleteFails
<1>3. DeletedIsCovered' /\ OneLoadPerNumber' /\ C!HiddenUnlessForgotten'
  BY <1>1 DEF CleanupInv, DeletedIsCovered, OneLoadPerNumber, C!HiddenUnlessForgotten
<1>4. \A p \in cAnswers' : AnswerIsCovered(p)'
  BY <1>1 DEF CleanupInv, AnswerIsCovered
<1> QED BY <1>1, <1>2, <1>3, <1>4 DEF CleanupInv, C!DeletesInOwnAccount

LEMMA DeletedKeeps == ASSUME CleanupInv, NEW d \in deletions, C!Deleted(d) PROVE CleanupInv'
<1>1. /\ UNCHANGED <<oci, accountId, cAnswers>>
      /\ deletions' = deletions \ {d} /\ deleted' = deleted \union {d.id}
      /\ cSeq' = cSeq + 1 /\ cAsked' = cAsked \union {[seq |-> cSeq + 1, account |-> accountId]}
  BY DEF C!Deleted, C!load
<1>2. /\ cSeq' \in Nat /\ OneLoadPerNumber'
      /\ \A q \in cAsked' : q.seq = cSeq' => q.account = accountId'
      /\ \A p \in cAnswers' : AnswerIsCovered(p)'
  BY <1>1, NewNumber
<1>3. C!DeletesInOwnAccount' /\ deletions' \subseteq deletions /\ deleted' \subseteq Resources
  BY <1>1 DEF CleanupInv, C!DeletesInOwnAccount
<1>4. CASE data = Nothing
  <2>1. removed' = removed \union {d.id} /\ UNCHANGED <<data, forgot>>
    BY <1>4 DEF C!Deleted
  <2>2. DeletedIsCovered' /\ C!HiddenUnlessForgotten'
    BY <1>1, <1>4, <2>1 DEF CleanupInv, DeletedIsCovered, C!HiddenUnlessForgotten
  <2> QED BY <1>1, <1>2, <1>3, <1>4, <2>1, <2>2 DEF CleanupInv
<1>5. CASE data # Nothing
  <2> DEFINE gone == removed \union {d.id}
  <2>1. /\ data' = data \ (gone \intersect data) /\ removed' = gone \intersect data
        /\ forgot' = forgot \union {r \in gone \ data : oci[r] # "gone"}
    BY <1>5 DEF C!Deleted, C!Take, C!withoutRemoved, C!stillRemoved
  <2>2. DeletedIsCovered'
    BY <1>1, <2>1 DEF CleanupInv, DeletedIsCovered
  <2>3. C!HiddenUnlessForgotten'
    BY <1>1, <1>5, <2>1 DEF CleanupInv, C!HiddenUnlessForgotten
  <2>4. \A r \in data' : Owner(r) = accountId'
    BY <1>1, <1>5, <2>1 DEF CleanupInv
  <2> QED BY <1>1, <1>2, <1>3, <2>2, <2>3, <2>4 DEF CleanupInv
<1> QED BY <1>4, <1>5

LEMMA CleanupStart == C!Init => CleanupInv
<1> SUFFICES ASSUME C!Init PROVE CleanupInv
  OBVIOUS
<1> DEFINE q == [seq |-> 1, account |-> accountId]
<1>1. q.seq = 1 /\ q.account = accountId /\ cAsked = {q}
  BY DEF C!Init
<1> HIDE DEF q
<1>2. /\ oci \in [Resources -> {"there", "deleting", "gone"}]
      /\ cAnswers = {} /\ cSeq = 1 /\ accountId \in Accounts /\ deletions = {} /\ deleted = {}
      /\ data = Nothing
  BY DEF C!Init
<1>3. OneLoadPerNumber
  BY <1>1, <1>2 DEF OneLoadPerNumber
<1>4. DeletedIsCovered /\ C!HiddenUnlessForgotten /\ C!DeletesInOwnAccount
  BY <1>2 DEF DeletedIsCovered, C!HiddenUnlessForgotten, C!DeletesInOwnAccount
<1> QED BY <1>1, <1>2, <1>3, <1>4 DEF CleanupInv

LEMMA CleanupStep == CleanupInv /\ [C!Next]_(C!vars) => CleanupInv'
<1> SUFFICES ASSUME CleanupInv, [C!Next]_(C!vars) PROVE CleanupInv'
  OBVIOUS
<1>1. CASE UNCHANGED C!vars
  BY <1>1 DEF C!vars, CleanupInv, OneLoadPerNumber, DeletedIsCovered, AnswerIsCovered,
              C!HiddenUnlessForgotten, C!DeletesInOwnAccount
<1>2. CASE C!Next
  BY <1>2, SelectKeeps, ListedServed, LoadFailsKeeps, LoadedKeeps, ActingKeeps, DeletedKeeps DEF C!Next
<1> QED BY <1>1, <1>2

\* A deleted resource comes back only after the page forgot it too early
\* (HiddenUnlessForgotten), for any resources, accounts and number of loads, in
\* whatever order lists and deletions are answered.
THEOREM DeletedStaysHidden == C!Spec => []C!HiddenUnlessForgotten
<1>1. CleanupInv => C!HiddenUnlessForgotten
  BY DEF CleanupInv
<1> QED BY <1>1, CleanupStart, CleanupStep, PTL DEF C!Spec

\* No deletion is sent to another account than that of its resource
\* (DeletesInOwnAccount), though the page may show another account by then.
THEOREM DeletionsGoHome == C!Spec => []C!DeletesInOwnAccount
<1>1. CleanupInv => C!DeletesInOwnAccount
  BY DEF CleanupInv
<1> QED BY <1>1, CleanupStart, CleanupStep, PTL DEF C!Spec

-----------------------------------------------------------------------------
(* The proxies: a proxy is shared only after overlapping calls.             *)

PoolLimits == Unchosen # Direct /\ Unchosen \notin SUBSET Proxies

\* The check of a call still holds when it writes, if no other call was checked
\* for its proxy meanwhile.
StillHolds(c) ==
  IF c.kind = "delete" THEN \A a \in joined : bound[a] # c.proxy
  ELSE c.proxy \in known /\ \A a \in joined \ {c.account} : bound[a] # c.proxy

CheckedAlone(c) ==
  c.checked /\ c.proxy # Direct /\ c.proxy \notin contested =>
    StillHolds(c) /\ \A d \in pCalls : d.checked /\ d.proxy = c.proxy => d = c

\* The drawer offers the machine's own address only when it is asked for or no
\* proxy is free.
DirectIsMeant ==
  /\ pool \in (SUBSET Proxies) \union {Unchosen} /\ egress \in Proxies \union {Direct, Unchosen}
  /\ pool = Unchosen => ~chose /\ egress = Unchosen /\ testing = Unchosen
  /\ egress = Direct \/ testing = Direct => chose \/ pool = {}

PoolTypes ==
  /\ known \subseteq Proxies /\ enabled \subseteq Proxies
  /\ joined \subseteq P!Everyone /\ bound \in [P!Everyone -> P!Egresses]
  /\ pCalls \subseteq P!Calls
  /\ \A c \in pCalls : c.kind # "delete" => c.account \in P!Everyone

BindingsHold == P!SharingNeedsOverlap /\ \A c \in pCalls : CheckedAlone(c)

PoolInv == PoolTypes /\ BindingsHold /\ P!PreviewIsOfText /\ DirectIsMeant

\* A call as it is made, checked and written.
LEMMA CallFacts ==
  ASSUME PoolTypes, NEW c \in pCalls
  PROVE  /\ c.kind \in {"bind", "create", "delete"} /\ c.proxy \in P!Egresses
         /\ c.kind # "delete" => c.account \in P!Everyone
         /\ [c EXCEPT !.checked = TRUE] \in P!Calls
         /\ [c EXCEPT !.checked = TRUE].kind = c.kind
         /\ [c EXCEPT !.checked = TRUE].account = c.account
         /\ [c EXCEPT !.checked = TRUE].proxy = c.proxy
         /\ [c EXCEPT !.checked = TRUE].checked
<1>1. c \in P!Calls
  BY DEF PoolTypes
<1> QED BY <1>1 DEF PoolTypes, P!Calls

\* The bindings hold when nothing of them changes and no call is checked.
LEMMA BindingsRest ==
  ASSUME BindingsHold, UNCHANGED <<joined, bound, contested>>, known' = known,
         \A c \in pCalls' : c.checked => c \in pCalls
  PROVE  BindingsHold'
<1>1. P!SharingNeedsOverlap'
  BY DEF BindingsHold, P!SharingNeedsOverlap
<1>2. \A c \in pCalls' : CheckedAlone(c)'
  BY DEF BindingsHold, CheckedAlone, StillHolds
<1> QED BY <1>1, <1>2 DEF BindingsHold

LEMMA CheckHolds == ASSUME PoolTypes, BindingsHold, NEW c \in pCalls, P!Check(c) PROVE BindingsHold'
<1>1. UNCHANGED <<known, enabled, joined, bound>>
  BY DEF P!Check
<1>2. CASE P!Refused(c)
  BY <1>1, <1>2, BindingsRest DEF P!Check, P!Finish
<1>3. CASE ~P!Refused(c)
  <2> DEFINE d == [c EXCEPT !.checked = TRUE]
  <2>1. /\ pCalls' = (pCalls \ {c}) \union {d}
        /\ contested' = contested \union {p \in {c.proxy} \ {Direct} : \E e \in pCalls : e.checked /\ e.proxy = p}
    BY <1>3 DEF P!Check
  <2>2. d.kind = c.kind /\ d.account = c.account /\ d.proxy = c.proxy /\ d.checked
    BY CallFacts
  <2> HIDE DEF d
  <2>3. c.proxy # Direct => StillHolds(d)'
    BY <1>1, <1>3, <2>2 DEF P!Refused, P!DuplicateOf, StillHolds
  <2>4. CheckedAlone(d)'
    BY <2>1, <2>2, <2>3 DEF CheckedAlone
  <2>5. ASSUME NEW e \in pCalls \ {c} PROVE CheckedAlone(e)'
    <3>1. CheckedAlone(e) /\ (StillHolds(e) => StillHolds(e)')
      BY <1>1 DEF BindingsHold, StillHolds
    <3> QED BY <2>1, <2>2, <3>1 DEF CheckedAlone
  <2>6. P!SharingNeedsOverlap'
    BY <1>1, <2>1 DEF BindingsHold, P!SharingNeedsOverlap
  <2> QED BY <2>1, <2>4, <2>5, <2>6 DEF BindingsHold
<1> QED BY <1>2, <1>3

\* The write of a binding, or of an account with one.
LEMMA BindHolds ==
  ASSUME PoolTypes, BindingsHold, NEW c \in pCalls, P!BindWrites(c) \/ P!CreateWrites(c)
  PROVE  BindingsHold'
<1>1. /\ UNCHANGED <<known, contested>> /\ pCalls' = pCalls \ {c} /\ c.checked /\ c.kind # "delete"
      /\ \/ UNCHANGED <<joined, bound>>
         \/ /\ joined \subseteq joined' /\ joined' \subseteq joined \union {c.account}
            /\ bound' = [bound EXCEPT ![c.account] = c.proxy]
  BY DEF P!BindWrites, P!CreateWrites, P!Finish
<1>2. CASE UNCHANGED <<joined, bound>>
  BY <1>1, <1>2, BindingsRest
<1>3. CASE /\ joined \subseteq joined' /\ joined' \subseteq joined \union {c.account}
           /\ bound' = [bound EXCEPT ![c.account] = c.proxy]
  <2>1. /\ bound'[c.account] = c.proxy
        /\ \A a \in joined' : a # c.account => a \in joined /\ bound'[a] = bound[a]
    BY <1>1, <1>3 DEF PoolTypes
  <2>2. CheckedAlone(c)
    BY DEF BindingsHold
  <2>3. P!SharingNeedsOverlap'
    <3> SUFFICES ASSUME NEW a \in joined', bound'[a] # Direct, bound'[a] \notin contested
                 PROVE  bound'[a] \in known /\ \A b \in joined' \ {a} : bound'[b] # bound'[a]
      BY <1>1 DEF P!SharingNeedsOverlap
    <3>1. CASE a = c.account
      BY <1>1, <2>1, <2>2, <3>1 DEF CheckedAlone, StillHolds
    <3>2. CASE a # c.account
      <4>1. a \in joined /\ bound'[a] = bound[a] /\ bound[a] \in known
        BY <2>1, <3>2 DEF BindingsHold, P!SharingNeedsOverlap
      <4>2. ASSUME NEW b \in joined' \ {a} PROVE bound'[b] # bound'[a]
        <5>1. CASE b = c.account
          BY <1>1, <2>1, <2>2, <3>2, <4>1, <5>1 DEF CheckedAlone, StillHolds
        <5>2. CASE b # c.account
          BY <2>1, <4>1, <5>2 DEF BindingsHold, P!SharingNeedsOverlap
        <5> QED BY <5>1, <5>2
      <4> QED BY <4>1, <4>2
    <3> QED BY <3>1, <3>2
  <2>4. ASSUME NEW e \in pCalls' PROVE CheckedAlone(e)'
    <3> SUFFICES ASSUME e.checked, e.proxy # Direct, e.proxy \notin contested
                 PROVE  StillHolds(e)' /\ \A d \in pCalls' : d.checked /\ d.proxy = e.proxy => d = e
      BY <1>1 DEF CheckedAlone
    <3>1. e # c /\ CheckedAlone(e) /\ e \in pCalls
      BY <1>1 DEF BindingsHold
    <3>2. c.proxy # e.proxy
      BY <1>1, <3>1 DEF CheckedAlone
    <3>3. StillHolds(e)
      BY <3>1 DEF CheckedAlone
    <3>4. StillHolds(e)'
      BY <1>1, <2>1, <3>2, <3>3 DEF StillHolds
    <3> QED BY <1>1, <3>1, <3>4 DEF CheckedAlone
  <2> QED BY <2>3, <2>4 DEF BindingsHold
<1> QED BY <1>1, <1>2, <1>3

LEMMA DropHolds == ASSUME PoolTypes, BindingsHold, NEW c \in pCalls, P!DeleteWrites(c) PROVE BindingsHold'
<1>1. /\ UNCHANGED <<joined, bound, contested>> /\ pCalls' = pCalls \ {c} /\ c.checked
      /\ c.kind = "delete" /\ known' = known \ {c.proxy} /\ CheckedAlone(c)
  BY DEF P!DeleteWrites, P!Finish, BindingsHold
<1>2. P!SharingNeedsOverlap'
  BY <1>1 DEF BindingsHold, P!SharingNeedsOverlap, CheckedAlone, StillHolds
<1>3. ASSUME NEW e \in pCalls' PROVE CheckedAlone(e)'
  <2> SUFFICES ASSUME e.checked, e.proxy # Direct, e.proxy \notin contested
               PROVE  StillHolds(e)' /\ \A d \in pCalls' : d.checked /\ d.proxy = e.proxy => d = e
    BY <1>1 DEF CheckedAlone
  <2>1. e # c /\ CheckedAlone(e) /\ e \in pCalls
    BY <1>1 DEF BindingsHold
  <2>2. c.proxy # e.proxy /\ StillHolds(e)
    BY <1>1, <2>1 DEF CheckedAlone
  <2>3. StillHolds(e)'
    BY <1>1, <2>2 DEF StillHolds
  <2> QED BY <1>1, <2>1, <2>3 DEF CheckedAlone
<1> QED BY <1>2, <1>3 DEF BindingsHold

LEMMA ServerKeeps ==
  ASSUME PoolInv, P!Server, UNCHANGED <<list, pAnswers, text, preview, parsing, pool, egress, testing, tested, chose>>
  PROVE  PoolInv'
<1>1. PICK c \in pCalls : P!Check(c) \/ P!BindWrites(c) \/ P!CreateWrites(c) \/ P!DeleteWrites(c)
  BY DEF P!Server
<1>2. PoolTypes /\ BindingsHold
  BY DEF PoolInv
<1>3. BindingsHold'
  BY <1>1, <1>2, CheckHolds, BindHolds, DropHolds
<1>4. PoolTypes'
  <2>1. CASE P!Check(c)
    <3> DEFINE d == [c EXCEPT !.checked = TRUE]
    <3>1. d \in P!Calls /\ d.kind = c.kind /\ d.account = c.account
      BY <1>2, CallFacts
    <3>2. pCalls' \subseteq pCalls \union {d} /\ UNCHANGED <<known, enabled, joined, bound>>
      BY <2>1 DEF P!Check, P!Finish
    <3> HIDE DEF d
    <3> QED BY <1>2, <3>1, <3>2 DEF PoolTypes, P!Calls, P!Everyone, P!Egresses
  <2>2. CASE P!BindWrites(c) \/ P!CreateWrites(c)
    <3>1. /\ pCalls' \subseteq pCalls /\ UNCHANGED <<known, enabled>> /\ c.kind # "delete"
          /\ joined' \subseteq joined \union {c.account}
          /\ bound' \in {bound, [bound EXCEPT ![c.account] = c.proxy]}
      BY <2>2 DEF P!BindWrites, P!CreateWrites, P!Finish
    <3>2. c.proxy \in P!Egresses /\ c.account \in P!Everyone
      BY <1>2, <3>1, CallFacts
    <3>3. bound' \in [P!Everyone -> P!Egresses] /\ joined' \subseteq P!Everyone
      BY <1>2, <3>1, <3>2 DEF PoolTypes
    <3> QED BY <1>2, <3>1, <3>3 DEF PoolTypes, P!Calls, P!Everyone, P!Egresses
  <2>3. CASE P!DeleteWrites(c)
    <3>1. /\ pCalls' \subseteq pCalls /\ known' \subseteq known /\ enabled' \subseteq enabled
          /\ UNCHANGED <<joined, bound>>
      BY <2>3 DEF P!DeleteWrites, P!Finish
    <3> QED BY <1>2, <3>1 DEF PoolTypes, P!Calls, P!Everyone, P!Egresses
  <2> QED BY <1>1, <2>1, <2>2, <2>3
<1>5. P!PreviewIsOfText' /\ DirectIsMeant'
  BY DEF PoolInv, P!PreviewIsOfText, DirectIsMeant
<1> QED BY <1>3, <1>4, <1>5 DEF PoolInv

\* A call made by the page or the drawer.
LEMMA CallHolds ==
  ASSUME PoolTypes, BindingsHold, NEW kind \in {"bind", "create", "delete"},
         NEW a \in P!Everyone \union {Unchosen}, NEW p \in P!Egresses,
         kind # "delete" => a \in P!Everyone, P!Call(kind, a, p),
         UNCHANGED <<known, enabled, joined, bound, contested>>
  PROVE  PoolTypes' /\ BindingsHold'
<1> DEFINE c == [kind |-> kind, account |-> a, proxy |-> p, checked |-> FALSE]
<1>1. pCalls' = pCalls \union {c}
  BY DEF P!Call
<1>2. c \in P!Calls /\ c.kind = kind /\ c.account = a /\ ~c.checked
  BY DEF P!Calls
<1> HIDE DEF c
<1>3. BindingsHold'
  BY <1>1, <1>2, BindingsRest
<1>4. PoolTypes'
  BY <1>1, <1>2 DEF PoolTypes, P!Calls, P!Everyone, P!Egresses
<1> QED BY <1>3, <1>4

LEMMA PageKeeps == ASSUME PoolInv, P!Page PROVE PoolInv'
<1>0. PoolTypes /\ BindingsHold /\ P!PreviewIsOfText /\ DirectIsMeant
  BY DEF PoolInv
<1>1. UNCHANGED <<known, joined, bound, contested, pool, egress, testing, chose>>
  BY DEF P!Page, P!ReadList, P!ShowList, P!bind, P!remove, P!toggle, P!EditText, P!parsePreview, P!Parsed,
         P!confirmImport, P!serverVars, P!drawerVars
<1>2. DirectIsMeant'
  BY <1>0, <1>1 DEF DirectIsMeant
<1>3. P!PreviewIsOfText'
  BY <1>0 DEF P!PreviewIsOfText, P!Page, P!ReadList, P!ShowList, P!bind, P!remove, P!toggle, P!EditText,
         P!parsePreview, P!Parsed, P!confirmImport, P!pageVars
<1>4. PoolTypes' /\ BindingsHold'
  <2>1. ASSUME NEW a \in P!Everyone, NEW p \in P!Egresses, P!bind(a, p) PROVE PoolTypes' /\ BindingsHold'
    BY <1>0, <2>1, CallHolds DEF P!bind
  <2>2. ASSUME NEW p \in Proxies, P!remove(p) PROVE PoolTypes' /\ BindingsHold'
    <3>1. P!Call("delete", Unchosen, p) /\ UNCHANGED <<known, enabled, joined, bound, contested>>
      BY <2>2 DEF P!remove
    <3>2. p \in P!Egresses
      BY DEF P!Egresses
    <3> QED BY <1>0, <3>1, <3>2, CallHolds
  <2>3. ASSUME pCalls' = pCalls, enabled' \subseteq Proxies PROVE PoolTypes' /\ BindingsHold'
    <3>1. BindingsHold'
      BY <1>0, <1>1, <2>3, BindingsRest
    <3> QED BY <1>0, <1>1, <2>3, <3>1 DEF PoolTypes, P!Calls, P!Everyone, P!Egresses
  <2>4. ASSUME NEW p \in Proxies, P!toggle(p) PROVE pCalls' = pCalls /\ enabled' \subseteq Proxies
    BY <1>0, <2>4 DEF P!toggle, PoolTypes
  <2>5. \/ P!ReadList \/ (\E l \in pAnswers : P!ShowList(l)) \/ P!EditText \/ P!parsePreview \/ P!Parsed
           \/ P!confirmImport
        => pCalls' = pCalls /\ enabled' = enabled
    BY DEF P!ReadList, P!ShowList, P!EditText, P!parsePreview, P!Parsed, P!confirmImport, P!serverVars
  <2> QED BY <1>0, <2>1, <2>2, <2>3, <2>4, <2>5 DEF P!Page, PoolTypes
<1> QED BY <1>2, <1>3, <1>4 DEF PoolInv

LEMMA DrawerKeeps == ASSUME PoolLimits, PoolInv, P!Drawer PROVE PoolInv'
<1>0. PoolTypes /\ BindingsHold /\ P!PreviewIsOfText /\ DirectIsMeant
  BY DEF PoolInv
<1>1. UNCHANGED <<known, enabled, joined, bound, contested, text, preview>>
  BY DEF P!Drawer, P!loadProxies, P!ChooseEgress, P!runTest, P!TestEnds, P!save, P!serverVars, P!pageVars
<1>2. P!PreviewIsOfText'
  BY <1>0, <1>1 DEF P!PreviewIsOfText
<1>3. DirectIsMeant'
  <2>1. CASE P!loadProxies
    <3>1. pool' \in SUBSET Proxies
      BY <1>0, <2>1 DEF P!loadProxies, PoolTypes
    <3> QED BY <1>0, <2>1, <3>1 DEF P!loadProxies, DirectIsMeant, PoolLimits
  <2>2. CASE P!ChooseEgress \/ P!runTest \/ P!TestEnds \/ P!save
    BY <1>0, <2>2 DEF P!ChooseEgress, P!runTest, P!TestEnds, P!save, DirectIsMeant, PoolLimits
  <2> QED BY <2>1, <2>2 DEF P!Drawer
<1>4. PoolTypes' /\ BindingsHold'
  <2>1. CASE P!save
    <3>1. P!Call("create", NewAccount, egress) /\ NewAccount \in P!Everyone
      BY <2>1 DEF P!save, P!Everyone
    <3>2. egress \in P!Egresses
      BY <1>0, <2>1 DEF P!save, DirectIsMeant, P!Egresses
    <3> QED BY <1>0, <1>1, <3>1, <3>2, CallHolds
  <2>2. CASE ~P!save
    <3>1. pCalls' = pCalls
      BY <2>2 DEF P!Drawer, P!loadProxies, P!ChooseEgress, P!runTest, P!TestEnds, P!serverVars
    <3>2. BindingsHold'
      BY <1>0, <1>1, <3>1, BindingsRest
    <3> QED BY <1>0, <1>1, <3>1, <3>2 DEF PoolTypes, P!Calls, P!Everyone, P!Egresses
  <2> QED BY <2>1, <2>2
<1> QED BY <1>2, <1>3, <1>4 DEF PoolInv

LEMMA PoolStart == ASSUME PoolLimits PROVE P!Init => PoolInv
<1> SUFFICES ASSUME P!Init PROVE PoolInv
  OBVIOUS
<1>1. PoolTypes
  BY DEF P!Init, PoolTypes, P!Everyone, P!Egresses
<1>2. BindingsHold
  BY DEF P!Init, BindingsHold, P!SharingNeedsOverlap, P!Everyone
<1>3. P!PreviewIsOfText /\ DirectIsMeant
  BY DEF P!Init, P!PreviewIsOfText, DirectIsMeant, PoolLimits
<1> QED BY <1>1, <1>2, <1>3 DEF PoolInv

LEMMA PoolStep == ASSUME PoolLimits PROVE PoolInv /\ [P!Next]_(P!vars) => PoolInv'
<1> SUFFICES ASSUME PoolInv, [P!Next]_(P!vars) PROVE PoolInv'
  OBVIOUS
<1>1. CASE UNCHANGED P!vars
  <2>1. PoolTypes' /\ P!PreviewIsOfText' /\ DirectIsMeant'
    BY <1>1 DEF PoolInv, PoolTypes, P!PreviewIsOfText, DirectIsMeant, P!vars, P!Calls, P!Everyone, P!Egresses
  <2>2. BindingsHold'
    BY <1>1, BindingsRest DEF PoolInv, P!vars
  <2> QED BY <2>1, <2>2 DEF PoolInv
<1>2. CASE P!Next
  BY <1>2, ServerKeeps, PageKeeps, DrawerKeeps DEF P!Next
<1> QED BY <1>1, <1>2

LEMMA PoolShow == PoolInv => P!SharingNeedsOverlap /\ P!PreviewIsOfText /\ P!NeverDirectUnasked
BY DEF PoolInv, BindingsHold, DirectIsMeant, P!NeverDirectUnasked

\* Apart from calls on one proxy whose checks and writes overlap, a proxy is that
\* of one account and an account never goes out through one that is gone
\* (SharingNeedsOverlap); a preview is of the text that will be imported
\* (PreviewIsOfText); and no tenancy is tested from the machine's own address
\* unasked while a proxy was free (NeverDirectUnasked).  For any proxies, accounts
\* and number of calls.
THEOREM PoolRules ==
  ASSUME PoolLimits
  PROVE  P!Spec => [](P!SharingNeedsOverlap /\ P!PreviewIsOfText /\ P!NeverDirectUnasked)
BY PoolStart, PoolStep, PoolShow, PTL DEF P!Spec

-----------------------------------------------------------------------------
(* The password policy: what is shown is what Oracle has, and what is sent *)
(* is what was asked.                                                      *)

PolicyChanges == [asked : Days \union {Unset}, sent : Days \union {Unset},
                  result : Days \union {Unset, NoDomain, Nothing}, ok : BOOLEAN]

PolicyLimits == FirstDays \in Days /\ Nothing \notin O!Expiries /\ Nothing \notin PolicyChanges

\* One thing is under way at a time: a read, a question, or a change.
OneAtATime ==
  /\ question # Nothing => change = Nothing
  /\ ~overlapped => (reading # Nothing => change = Nothing /\ question = Nothing)

\* A read, a question and a change that are alone are of the expiry as it is.
AloneIsTrue ==
  ~overlapped =>
    /\ reading # Nothing /\ reading.value # Nothing => reading.value = oStored
    /\ question # Nothing => question \in {Unset, policyDays}
    /\ change # Nothing => change.sent = change.asked
    /\ change # Nothing /\ change.result # Nothing => change.ok /\ change.result = oStored
    /\ change = Nothing \/ change.result = Nothing => policy \in {Nothing, oStored}

PolicyInv ==
  /\ oStored \in O!Expiries /\ policyDays \in Days /\ overlapped \in BOOLEAN
  /\ change = Nothing \/ change \in PolicyChanges
  /\ question \in Days \union {Unset, Nothing}
  /\ OneAtATime /\ AloneIsTrue

LEMMA ReadingKeeps ==
  ASSUME PolicyLimits, PolicyInv, O!loadPolicy \/ O!ReadPolicy \/ O!PolicyComes \/ O!PolicyFails
  PROVE  PolicyInv'
<1>1. UNCHANGED <<oStored, question, change>>
  BY DEF O!loadPolicy, O!ReadPolicy, O!PolicyComes, O!PolicyFails, O!form
<1>2. policyDays' \in Days /\ overlapped' \in BOOLEAN /\ (~overlapped' => ~overlapped)
  BY DEF PolicyInv, O!loadPolicy, O!ReadPolicy, O!PolicyComes, O!PolicyFails, O!form
<1>3. OneAtATime'
  BY <1>1 DEF PolicyInv, OneAtATime, O!loadPolicy, O!ReadPolicy, O!PolicyComes, O!PolicyFails, O!form
<1>4. AloneIsTrue'
  <2>1. CASE O!loadPolicy
    BY <2>1 DEF PolicyInv, OneAtATime, AloneIsTrue, O!loadPolicy, O!form
  <2>2. CASE O!ReadPolicy
    BY <2>2 DEF PolicyInv, OneAtATime, AloneIsTrue, O!ReadPolicy, O!form
  <2>3. CASE O!PolicyComes
    BY <2>3 DEF PolicyInv, OneAtATime, AloneIsTrue, O!PolicyComes
  <2>4. CASE O!PolicyFails
    BY <2>4 DEF PolicyInv, OneAtATime, AloneIsTrue, O!PolicyFails, O!form
  <2> QED BY <2>1, <2>2, <2>3, <2>4
<1> QED BY <1>1, <1>2, <1>3, <1>4 DEF PolicyInv

LEMMA AskingKeeps ==
  ASSUME PolicyLimits, PolicyInv,
         \/ \E d \in Days : O!TypeDays(d)
         \/ \E disable \in BOOLEAN : O!applyPolicy(disable)
         \/ O!Confirm \/ O!Dismiss
  PROVE  PolicyInv'
<1>1. UNCHANGED <<oStored, policy, reading>>
  BY DEF O!TypeDays, O!applyPolicy, O!Confirm, O!Dismiss
<1>2. CASE \E d \in Days : O!TypeDays(d)
  BY <1>2 DEF PolicyInv, OneAtATime, AloneIsTrue, O!TypeDays, O!FormShown
<1>3. CASE \E disable \in BOOLEAN : O!applyPolicy(disable)
  BY <1>3 DEF PolicyInv, OneAtATime, AloneIsTrue, O!applyPolicy
<1>4. CASE O!Dismiss
  BY <1>4 DEF PolicyInv, OneAtATime, AloneIsTrue, O!Dismiss
<1>5. CASE O!Confirm
  <2> DEFINE outgoing == IF question = Unset THEN Unset ELSE policyDays
             c == [asked |-> question, sent |-> outgoing, result |-> Nothing, ok |-> TRUE]
  <2>1. /\ question # Nothing /\ question' = Nothing /\ change' = c
        /\ UNCHANGED <<oStored, policy, policyDays, reading, overlapped>>
    BY <1>5 DEF O!Confirm
  <2>2. outgoing \in Days \union {Unset} /\ question \in Days \union {Unset}
    BY <2>1 DEF PolicyInv
  <2>3. ~overlapped => outgoing = question
    BY <2>1 DEF PolicyInv, AloneIsTrue
  <2> HIDE DEF outgoing
  <2>4. c \in PolicyChanges /\ c.asked = question /\ c.sent = outgoing /\ c.result = Nothing /\ c.ok
    BY <2>2 DEF PolicyChanges
  <2> HIDE DEF c
  <2>5. change = Nothing /\ (~overlapped => reading = Nothing)
    BY <2>1 DEF PolicyInv, OneAtATime
  <2>6. OneAtATime'
    BY <2>1, <2>5 DEF OneAtATime
  <2>7. AloneIsTrue'
    BY <2>1, <2>3, <2>4, <2>5 DEF PolicyInv, AloneIsTrue
  <2> QED BY <2>1, <2>4, <2>6, <2>7 DEF PolicyInv
<1> QED BY <1>2, <1>3, <1>4, <1>5

LEMMA ChangingKeeps ==
  ASSUME PolicyLimits, PolicyInv, O!SetExpiry \/ O!Changed \/ O!ChangeFails
  PROVE  PolicyInv'
<1>1. UNCHANGED <<policyDays, question, reading>> /\ change # Nothing /\ change \in PolicyChanges
  BY DEF PolicyInv, O!SetExpiry, O!Changed, O!ChangeFails, O!form
<1>2. CASE O!Changed
  BY <1>1, <1>2 DEF PolicyInv, OneAtATime, AloneIsTrue, O!Changed, O!ShownAfter, O!form
<1>3. CASE O!ChangeFails
  BY <1>1, <1>3 DEF PolicyInv, OneAtATime, AloneIsTrue, O!ChangeFails, O!form
<1>4. CASE O!SetExpiry
  <2>1. /\ change.ok /\ change.result = Nothing /\ policy' = policy
        /\ question = Nothing /\ (~overlapped => reading = Nothing)
    BY <1>1, <1>4 DEF PolicyInv, OneAtATime, O!SetExpiry
  <2>2. CASE /\ oStored' \in IF change.sent = Unset THEN {Unset, oStored} ELSE {change.sent}
             /\ \E ok \in BOOLEAN : change' = [change EXCEPT !.result = oStored', !.ok = ok]
             /\ overlapped' = (overlapped \/ ~change'.ok)
    <3>1. PICK ok \in BOOLEAN : change' = [change EXCEPT !.result = oStored', !.ok = ok]
      BY <2>2
    <3>2. oStored' \in O!Expiries
      BY <1>1, <2>2 DEF PolicyInv, PolicyChanges, O!Expiries
    <3>3. /\ change' \in PolicyChanges /\ change'.result = oStored' /\ change'.ok = ok
          /\ change'.sent = change.sent /\ change'.asked = change.asked
      BY <1>1, <3>1, <3>2 DEF PolicyChanges, O!Expiries
    <3>4. overlapped' \in BOOLEAN /\ (~overlapped' => ~overlapped /\ ok)
      BY <2>2, <3>3 DEF PolicyInv
    <3>5. oStored' # Nothing /\ change' # Nothing
      BY <3>2, <3>3 DEF PolicyLimits
    <3>6. OneAtATime'
      BY <1>1, <2>1, <3>4 DEF OneAtATime
    <3>7. AloneIsTrue'
      BY <1>1, <2>1, <3>3, <3>4, <3>5 DEF PolicyInv, AloneIsTrue
    <3> QED BY <1>1, <3>2, <3>3, <3>4, <3>6, <3>7 DEF PolicyInv
  <2>3. CASE change' = [change EXCEPT !.ok = FALSE] /\ UNCHANGED <<oStored, overlapped>>
    <3>1. /\ change' \in PolicyChanges /\ change'.result = change.result
          /\ change'.sent = change.sent /\ change'.asked = change.asked
      BY <1>1, <2>3 DEF PolicyChanges
    <3>2. OneAtATime'
      BY <1>1, <2>1, <2>3 DEF OneAtATime
    <3>3. AloneIsTrue'
      BY <1>1, <2>1, <2>3, <3>1 DEF PolicyInv, AloneIsTrue
    <3> QED BY <1>1, <2>3, <3>1, <3>2, <3>3 DEF PolicyInv
  <2> QED BY <1>4, <2>2, <2>3 DEF O!SetExpiry
<1> QED BY <1>2, <1>3, <1>4

LEMMA PolicyStart == ASSUME PolicyLimits PROVE O!Init => PolicyInv
BY DEF O!Init, PolicyLimits, PolicyInv, OneAtATime, AloneIsTrue

LEMMA PolicyStep == ASSUME PolicyLimits PROVE PolicyInv /\ [O!Next]_(O!vars) => PolicyInv'
<1> SUFFICES ASSUME PolicyInv, [O!Next]_(O!vars) PROVE PolicyInv'
  OBVIOUS
<1>1. CASE UNCHANGED O!vars
  BY <1>1 DEF PolicyInv, OneAtATime, AloneIsTrue, O!vars, O!form
<1>2. CASE O!Next
  BY <1>2, ReadingKeeps, AskingKeeps, ChangingKeeps DEF O!Next
<1> QED BY <1>1, <1>2

LEMMA PolicyShow == PolicyInv => O!PolicyAgrees
BY DEF PolicyInv, AloneIsTrue, O!PolicyAgrees

\* The expiry shown is the one Oracle has, and the one sent is the one asked about
\* (PolicyAgrees), as long as no read overlaps a question or a change: for any
\* numbers of days, also when a domain does not do what it is told.
THEOREM PolicyShowsStored == ASSUME PolicyLimits PROVE O!Spec => []O!PolicyAgrees
BY PolicyStart, PolicyStep, PolicyShow, PTL DEF O!Spec

-----------------------------------------------------------------------------
(* The security rules: what is sent is what was seen and confirmed.        *)

Directions == {"ingress", "egress"}
AddedRules == {N!FromForm(f) : f \in RuleForms \union OthersForms}
                \union {N!FromTemplate(t) : t \in Templates}
                \union {N!Built("egress", "all", "any4", N!NoRange)}
Rules == AddedRules \union N!Range(FirstRules.ingress) \union N!Range(FirstRules.egress)

\* A template that opens every port is marked as dangerous; what somebody else
\* adds is not the page's doing, so it opens nothing here.
NetworkLimits ==
  /\ N!NoList \notin SecurityLists
  /\ \A f \in RuleForms \union OthersForms \union Templates : f.direction \in Directions
  /\ \A t \in Templates : t.direction = "ingress" /\ N!IsAllowAllRule(N!FromTemplate(t)) => t.dangerous
  /\ \A f \in OthersForms : f.direction = "ingress" => ~N!IsAllowAllRule(N!FromForm(f))
  /\ FirstRules \in [ingress : Seq(Rules), egress : Seq(Rules)]

\* The rules that may be in an ingress list, and the lists of rules there may be.
Allowed ==
  {r \in Rules : N!IsAllowAllRule(r) => r \in confirmed \union N!Range(FirstRules.ingress)}
RuleSets == [ingress : Seq(Allowed), egress : Seq(Rules)]

Edits == {N!Adding(r) : r \in AddedRules} \union {N!Removing(d, i) : d \in Directions, i \in Nat \ {0}}
Questions == [key : SecurityLists, list : RuleSets, edit : Edits]
Saves == [key : SecurityLists, rules : RuleSets, asked : Questions,
          phase : {"sent", "saved", "failed", "loading"}, attached : BOOLEAN, reload : Nat]
ListLoads == [seq : Nat, got : [SecurityLists -> RuleSets \union {N!NoList}], left : SUBSET SecurityLists]

NetworkInv ==
  /\ rules \in [SecurityLists -> RuleSets]
  /\ lists \in [SecurityLists -> RuleSets \union {N!NoList}]
  /\ nSeq \in Nat /\ loads \subseteq ListLoads /\ saves \subseteq Saves
  /\ dialog # N!NoList => dialog \in Questions /\ dialog.key = sel
  /\ N!SentAsSeen

\* The rules of the page are records with a direction.
LEMMA AddedFacts ==
  ASSUME NetworkLimits
  PROVE  /\ AddedRules \subseteq Rules
         /\ \A r \in AddedRules : r.direction \in Directions /\ r # N!NoRange
<1>1. ASSUME NEW d \in Directions, NEW p, NEW c, NEW g
      PROVE  N!Built(d, p, c, g).direction \in Directions /\ N!Built(d, p, c, g) # N!NoRange
  <2>1. "direction" \in DOMAIN N!Built(d, p, c, g) /\ "direction" \notin DOMAIN N!NoRange
    BY DEF N!Built, N!NoRange
  <2>2. N!Built(d, p, c, g).direction \in Directions
    BY DEF N!Built
  <2> QED BY <2>1, <2>2
<1>2. \A f \in RuleForms \union OthersForms \union Templates : f.direction \in Directions
  BY DEF NetworkLimits
<1>3. ASSUME NEW f \in RuleForms \union OthersForms
      PROVE  N!FromForm(f).direction \in Directions /\ N!FromForm(f) # N!NoRange
  <2>1. \E g : N!FromForm(f) = N!Built(f.direction, f.protocol, f.cidr, g)
    BY DEF N!FromForm
  <2> QED BY <1>1, <1>2, <2>1
<1>4. ASSUME NEW t \in Templates
      PROVE  N!FromTemplate(t).direction \in Directions /\ N!FromTemplate(t) # N!NoRange
  <2>1. \E g : N!FromTemplate(t) = N!Built(t.direction, t.protocol, "any4", g)
    BY DEF N!FromTemplate
  <2> QED BY <1>1, <1>2, <2>1
<1>5. LET r == N!Built("egress", "all", "any4", N!NoRange)
      IN  r.direction \in Directions /\ r # N!NoRange
  BY <1>1 DEF Directions
<1> QED BY <1>3, <1>4, <1>5 DEF AddedRules, Rules

\* What an edit does to a list of rules, when it adds nothing that is not allowed.
LEMMA RemoveFacts ==
  ASSUME NEW S, NEW s \in Seq(S), NEW i \in 1 .. Len(s)
  PROVE  N!RemoveAt(s, i) \in Seq(S)
<1>1. SubSeq(s, 1, i - 1) \in Seq(S) /\ SubSeq(s, i + 1, Len(s)) \in Seq(S)
  OBVIOUS
<1> QED BY <1>1 DEF N!RemoveAt

LEMMA EditFacts ==
  ASSUME NetworkLimits, NEW X, NEW set \in [ingress : Seq(X), egress : Seq(Rules)], NEW e \in Edits,
         e.op = "add" /\ e.direction = "ingress" => e.rule \in X
  PROVE  N!Edited(set, e) \in [ingress : Seq(X), egress : Seq(Rules)]
<1>1. set.ingress \in Seq(X) /\ set.egress \in Seq(Rules)
      /\ set = [ingress |-> set.ingress, egress |-> set.egress]
  OBVIOUS
<1>2. CASE \E r \in AddedRules : e = N!Adding(r)
  <2> PICK r \in AddedRules : e = N!Adding(r)
    BY <1>2
  <2>1. e.op = "add" /\ e.direction = r.direction /\ e.rule = r /\ r.direction \in Directions /\ r \in Rules
    BY AddedFacts DEF N!Adding
  <2>2. N!Edited(set, e) = [set EXCEPT ![r.direction] = Append(@, r)]
    BY <2>1 DEF N!Edited
  <2>3. CASE r.direction = "ingress"
    <3>1. Append(set.ingress, r) \in Seq(X)
      BY <1>1, <2>1, <2>3
    <3>2. N!Edited(set, e) = [ingress |-> Append(set.ingress, r), egress |-> set.egress]
      BY <1>1, <2>2, <2>3
    <3> QED BY <1>1, <3>1, <3>2
  <2>4. CASE r.direction = "egress"
    <3>1. Append(set.egress, r) \in Seq(Rules)
      BY <1>1, <2>1
    <3>2. N!Edited(set, e) = [ingress |-> set.ingress, egress |-> Append(set.egress, r)]
      BY <1>1, <2>2, <2>4
    <3> QED BY <1>1, <3>1, <3>2
  <2> QED BY <2>1, <2>3, <2>4 DEF Directions
<1>3. CASE \E d \in Directions, i \in Nat \ {0} : e = N!Removing(d, i)
  <2> PICK d \in Directions, i \in Nat \ {0} : e = N!Removing(d, i)
    BY <1>3
  <2>1. e.op = "remove" /\ e.direction = d /\ e.index = i
    BY DEF N!Removing
  <2>0. Len(set.ingress) \in Nat /\ Len(set.egress) \in Nat
    BY <1>1
  <2>2. CASE i > Len(set[d])
    BY <2>1, <2>2 DEF N!Edited
  <2>3. CASE d = "ingress" /\ i <= Len(set.ingress)
    <3>1. N!RemoveAt(set.ingress, i) \in Seq(X)
      BY <1>1, <2>3, RemoveFacts
    <3>2. N!Edited(set, e) = [set EXCEPT !.ingress = N!RemoveAt(set.ingress, i)]
      <4>1. ~(i > Len(set[d])) /\ e.op # "add"
        BY <2>0, <2>1, <2>3
      <4>2. N!Edited(set, e) = [set EXCEPT ![d] = N!RemoveAt(set[d], i)]
        BY <2>1, <4>1 DEF N!Edited
      <4> QED BY <2>3, <4>2
    <3> QED BY <1>1, <3>1, <3>2
  <2>4. CASE d = "egress" /\ i <= Len(set.egress)
    <3>1. N!RemoveAt(set.egress, i) \in Seq(Rules)
      BY <1>1, <2>4, RemoveFacts
    <3>2. N!Edited(set, e) = [set EXCEPT !.egress = N!RemoveAt(set.egress, i)]
      <4>1. ~(i > Len(set[d])) /\ e.op # "add"
        BY <2>0, <2>1, <2>4
      <4>2. N!Edited(set, e) = [set EXCEPT ![d] = N!RemoveAt(set[d], i)]
        BY <2>1, <4>1 DEF N!Edited
      <4> QED BY <2>4, <4>2
    <3> QED BY <1>1, <3>1, <3>2
  <2> QED BY <2>0, <2>2, <2>3, <2>4 DEF Directions
<1> QED BY <1>2, <1>3 DEF Edits

\* More rules are allowed when more were confirmed.
LEMMA MoreConfirmed ==
  ASSUME confirmed \subseteq confirmed'
  PROVE  /\ Allowed \subseteq Allowed' /\ RuleSets \subseteq RuleSets'
         /\ Questions \subseteq Questions' /\ Saves \subseteq Saves' /\ ListLoads \subseteq ListLoads'
<1>1. Allowed \subseteq Allowed'
  BY DEF Allowed
<1>2. Seq(Allowed) \subseteq Seq(Allowed')
  BY <1>1
<1>3. RuleSets \subseteq RuleSets'
  BY <1>2 DEF RuleSets
<1>4. Questions \subseteq Questions'
  BY <1>3 DEF Questions
<1> QED BY <1>1, <1>3, <1>4 DEF Saves, ListLoads

-----------------------------------------------------------------------------
\* Requests that only went on.
LEMMA SavesGoOn ==
  ASSUME NetworkInv, confirmed' = confirmed, rules' \in [SecurityLists -> RuleSets],
         lists' \in [SecurityLists -> RuleSets \union {N!NoList}],
         nSeq' \in Nat, loads' \subseteq ListLoads, saves' \subseteq Saves,
         dialog' # N!NoList => dialog' = dialog /\ sel' = sel,
         \A s \in saves' : \E o \in saves : s.key = o.key /\ s.rules = o.rules /\ s.asked = o.asked
  PROVE  NetworkInv'
<1>1. UNCHANGED <<Allowed, RuleSets, Questions, Saves, ListLoads>>
  BY DEF Allowed, RuleSets, Questions, Saves, ListLoads
<1>2. N!SentAsSeen'
  BY DEF NetworkInv, N!SentAsSeen, N!Mine
<1> QED BY <1>1, <1>2 DEF NetworkInv

LEMMA ListsLoad ==
  ASSUME NetworkLimits, NetworkInv, N!Loading
  PROVE  NetworkInv'
<1> USE DEF N!page
<1>1. CASE N!Refresh
  <2>1. [seq |-> nSeq + 1, got |-> N!Empty, left |-> SecurityLists] \in ListLoads
    BY DEF NetworkInv, ListLoads, N!Empty
  <2> QED BY <1>1, <2>1, SavesGoOn DEF NetworkInv, N!Refresh, N!loadNetwork
<1>2. ASSUME NEW q \in loads, NEW k \in SecurityLists, N!ReadList(q, k) PROVE NetworkInv'
  <2> PICK got \in {rules[k], N!NoList} :
        loads' = (loads \ {q}) \union {[q EXCEPT !.got[k] = got, !.left = @ \ {k}]}
    BY <1>2 DEF N!ReadList
  <2>1. q \in ListLoads /\ got \in RuleSets \union {N!NoList}
    BY DEF NetworkInv
  <2>2. [q EXCEPT !.got[k] = got, !.left = @ \ {k}] \in ListLoads
    BY <2>1 DEF ListLoads
  <2> QED BY <1>2, <2>2, SavesGoOn DEF NetworkInv, N!ReadList
<1>3. ASSUME NEW q \in loads, N!LoadEnds(q) PROVE NetworkInv'
  <2>1. q.got \in [SecurityLists -> RuleSets \union {N!NoList}]
    BY DEF NetworkInv, ListLoads
  <2>2. dialog # N!NoList => sel # N!NoList
    BY DEF NetworkInv, Questions, NetworkLimits
  <2>3. \A s \in saves : LET t == [s EXCEPT !.attached = FALSE]
                         IN  t \in Saves /\ t.key = s.key /\ t.rules = s.rules /\ t.asked = s.asked
    BY DEF NetworkInv, Saves
  <2>4. CASE q.seq # nSeq
    BY <1>3, <2>4, SavesGoOn DEF NetworkInv, N!LoadEnds
  <2>5. CASE q.seq = nSeq
    <3>1. /\ lists' = q.got /\ loads' \subseteq loads /\ UNCHANGED <<rules, confirmed, dialog, nSeq>>
          /\ saves' = {[s EXCEPT !.attached = FALSE] : s \in saves}
          /\ dialog # N!NoList => sel' = sel
      BY <1>3, <2>2, <2>5 DEF N!LoadEnds, N!SelectedAfter
    <3>2. /\ saves' \subseteq Saves
          /\ \A s \in saves' : \E o \in saves : s.key = o.key /\ s.rules = o.rules /\ s.asked = o.asked
      BY <2>3, <3>1
    <3> QED BY <2>1, <3>1, <3>2, SavesGoOn DEF NetworkInv
  <2> QED BY <2>4, <2>5
<1>4. ASSUME NEW k \in SecurityLists, N!SelectList(k) PROVE NetworkInv'
  BY <1>4, SavesGoOn DEF NetworkInv, N!SelectList
<1> QED BY <1>1, <1>2, <1>3, <1>4 DEF N!Loading

\* What a click, or its confirmation, sends.
LEMMA SendKeeps ==
  ASSUME NetworkLimits, NetworkInv, NEW asked \in Questions, asked.key = sel,
         confirmed \subseteq confirmed', dialog' = N!NoList, UNCHANGED <<rules, lists, nSeq, loads, sel>>,
         asked.edit.op = "add" /\ asked.edit.direction = "ingress" => asked.edit.rule \in Allowed',
         N!saveRules(N!Mine(asked), asked)
  PROVE  NetworkInv'
<1>1. /\ asked \in Questions' /\ asked.list \in RuleSets' /\ asked.edit \in Edits /\ asked.key \in SecurityLists
      /\ rules' \in [SecurityLists -> RuleSets'] /\ lists' \in [SecurityLists -> RuleSets' \union {N!NoList}]
      /\ loads' \subseteq ListLoads' /\ saves \subseteq Saves'
  BY MoreConfirmed DEF NetworkInv, Questions
<1>2. N!Mine(asked) \in RuleSets'
  <2>1. asked.list \in [ingress : Seq(Allowed'), egress : Seq(Rules)]
    BY <1>1 DEF RuleSets
  <2>2. N!Edited(asked.list, asked.edit) \in [ingress : Seq(Allowed'), egress : Seq(Rules)]
    BY <1>1, <2>1, EditFacts
  <2> QED BY <2>2 DEF N!Mine, RuleSets
<1> DEFINE s == [key |-> sel, rules |-> N!Mine(asked), asked |-> asked, phase |-> "sent",
                 attached |-> TRUE, reload |-> 0]
<1>3. s \in Saves' /\ s.key = s.asked.key /\ s.rules = N!Mine(s.asked)
  BY <1>1, <1>2 DEF Saves
<1>4. saves' \subseteq saves \union {s}
  BY DEF N!saveRules
<1> HIDE DEF s
<1>5. saves' \subseteq Saves' /\ N!SentAsSeen'
  BY <1>1, <1>3, <1>4 DEF NetworkInv, N!SentAsSeen, N!Mine
<1> QED BY <1>1, <1>5 DEF NetworkInv

\* What a click finds on the page.
LEMMA ClickKeeps ==
  ASSUME NetworkLimits, NetworkInv, NEW edit \in Edits, NEW ask \in BOOLEAN, N!Click(edit, ask),
         ~ask /\ edit.op = "add" /\ edit.direction = "ingress" => edit.rule \in Allowed
  PROVE  NetworkInv'
<1> DEFINE asked == [key |-> sel, list |-> N!selectedList, edit |-> edit]
<1>1. N!selectedList # N!NoList
  BY DEF N!Click
<1>2. sel \in SecurityLists /\ N!selectedList \in RuleSets
  BY <1>1 DEF N!selectedList, NetworkInv
<1>3. asked \in Questions /\ asked.key = sel /\ asked.edit = edit
  BY <1>2 DEF Questions
<1>4. /\ UNCHANGED <<rules, lists, sel, nSeq, loads, confirmed>>
      /\ \/ dialog' = asked /\ UNCHANGED saves
         \/ ~ask /\ N!saveRules(N!Mine(asked), asked) /\ dialog' = N!NoList
  BY DEF N!Click
<1> HIDE DEF asked
<1>5. UNCHANGED <<Allowed, RuleSets, Questions, Saves, ListLoads>>
  BY <1>4 DEF Allowed, RuleSets, Questions, Saves, ListLoads
<1>6. CASE dialog' = asked /\ UNCHANGED saves
  <2>1. N!SentAsSeen'
    BY <1>6 DEF NetworkInv, N!SentAsSeen, N!Mine
  <2> QED BY <1>3, <1>4, <1>5, <1>6, <2>1 DEF NetworkInv
<1>7. CASE ~ask /\ N!saveRules(N!Mine(asked), asked) /\ dialog' = N!NoList
  BY <1>3, <1>4, <1>5, <1>7, SendKeeps
<1> QED BY <1>4, <1>6, <1>7

LEMMA PageEdits ==
  ASSUME NetworkLimits, NetworkInv,
         \/ N!restoreEgress \/ \E t \in Templates : N!addTemplate(t)
         \/ \E form \in RuleForms : N!addManualRule(form)
         \/ \E d \in Directions, i \in 1 .. 3 : N!removeRule(d, i)
  PROVE  NetworkInv'
<1>1. ASSUME NEW r \in AddedRules
      PROVE  /\ N!Adding(r) \in Edits /\ N!Adding(r).op = "add" /\ N!Adding(r).rule = r
             /\ N!Adding(r).direction = r.direction /\ r \in Rules
  BY AddedFacts DEF Edits, N!Adding
<1>2. CASE N!restoreEgress
  <2> DEFINE r == N!Built("egress", "all", "any4", N!NoRange)
  <2>1. r \in AddedRules /\ r.direction = "egress"
    BY DEF AddedRules, N!Built
  <2>2. N!Click(N!Adding(r), FALSE)
    BY <1>2 DEF N!restoreEgress
  <2> HIDE DEF r
  <2> QED BY <1>1, <2>1, <2>2, ClickKeeps
<1>3. ASSUME NEW t \in Templates, N!addTemplate(t) PROVE NetworkInv'
  <2> DEFINE r == N!FromTemplate(t)
             ask == t.dangerous = TRUE
  <2>1. r \in AddedRules /\ r.direction = t.direction
    BY DEF AddedRules, N!FromTemplate, N!Built
  <2>2. N!Click(N!Adding(r), ask)
    BY <1>3 DEF N!addTemplate, N!Click
  <2>3. ~ask /\ r.direction = "ingress" => ~N!IsAllowAllRule(r)
    BY <2>1 DEF NetworkLimits
  <2>4. ask \in BOOLEAN
    OBVIOUS
  <2> HIDE DEF r, ask
  <2> QED BY <1>1, <2>1, <2>2, <2>3, <2>4, ClickKeeps DEF Allowed
<1>4. ASSUME NEW form \in RuleForms, N!addManualRule(form) PROVE NetworkInv'
  <2> DEFINE r == N!FromForm(form)
             ask == N!wideOpen(form)
  <2>1. r \in AddedRules /\ r.direction = form.direction
    BY DEF AddedRules, N!FromForm, N!Built
  <2>2. N!Click(N!Adding(r), ask)
    BY <1>4 DEF N!addManualRule
  <2>3. ~ask /\ r.direction = "ingress" => ~N!IsAllowAllRule(r)
    BY DEF N!wideOpen, N!IsAllowAllRule, N!FromForm, N!Built, N!hasPorts, N!allPorts, N!NoRange
  <2>4. ask \in BOOLEAN
    BY DEF N!wideOpen
  <2> HIDE DEF r, ask
  <2> QED BY <1>1, <2>1, <2>2, <2>3, <2>4, ClickKeeps DEF Allowed
<1>5. ASSUME NEW d \in Directions, NEW i \in 1 .. 3, N!removeRule(d, i) PROVE NetworkInv'
  <2>1. N!Removing(d, i) \in Edits /\ N!Removing(d, i).op = "remove"
    BY DEF Edits, N!Removing
  <2> QED BY <1>5, <2>1, ClickKeeps DEF N!removeRule
<1> QED BY <1>2, <1>3, <1>4, <1>5

\* The answer to a question is what was asked, and the rule in it is confirmed.
LEMMA AnswerKeeps ==
  ASSUME NetworkLimits, NetworkInv, N!Confirm \/ N!Dismiss
  PROVE  NetworkInv'
<1>1. CASE N!Confirm
  <2>1. /\ dialog \in Questions /\ dialog.key = sel /\ confirmed \subseteq confirmed'
        /\ dialog' = N!NoList /\ UNCHANGED <<rules, lists, nSeq, loads, sel>>
        /\ N!saveRules(N!Mine(dialog), dialog)
    BY <1>1 DEF N!Confirm, N!commit, NetworkInv
  <2>2. dialog.edit \in Edits
    BY <2>1 DEF Questions
  <2>3. ASSUME dialog.edit.op = "add" PROVE dialog.edit.rule \in Rules /\ dialog.edit.rule # N!NoRange
    BY <2>2, <2>3, AddedFacts DEF Edits, N!Adding, N!Removing
  <2>4. dialog.edit.op = "add" => dialog.edit.rule \in Allowed'
    BY <1>1, <2>3 DEF Allowed, N!Confirm, N!commit
  <2> QED BY <2>1, <2>4, SendKeeps
<1>2. CASE N!Dismiss
  <2>1. \A s \in saves : \E o \in saves : s.key = o.key /\ s.rules = o.rules /\ s.asked = o.asked
    OBVIOUS
  <2> QED BY <1>2, <2>1, SavesGoOn DEF NetworkInv, N!Dismiss
<1> QED BY <1>1, <1>2

LEMMA OthersKeep ==
  ASSUME NetworkLimits, NetworkInv, NEW k \in SecurityLists, NEW form \in OthersForms, N!Elsewhere(k, form)
  PROVE  NetworkInv'
<1> DEFINE r == N!FromForm(form)
           e == N!Adding(r)
<1>1. r \in AddedRules /\ r.direction = form.direction
  BY DEF AddedRules, N!FromForm, N!Built
<1>2. form.direction = "ingress" => ~N!IsAllowAllRule(r)
  BY DEF NetworkLimits
<1>3. e \in Edits /\ e.op = "add" /\ e.rule = r /\ e.direction = r.direction /\ r \in Rules
  BY <1>1, AddedFacts DEF Edits, N!Adding
<1>4. /\ rules' = [rules EXCEPT ![k] = N!Edited(@, e)]
      /\ UNCHANGED <<lists, sel, nSeq, saving, dialog, loads, saves, confirmed>>
  BY DEF N!Elsewhere, N!page
<1> HIDE DEF r, e
<1>5. N!Edited(rules[k], e) \in RuleSets
  <2>1. rules[k] \in [ingress : Seq(Allowed), egress : Seq(Rules)]
    BY DEF NetworkInv, RuleSets
  <2>2. e.direction = "ingress" => e.rule \in Allowed
    BY <1>1, <1>2, <1>3 DEF Allowed
  <2> QED BY <1>3, <2>1, <2>2, EditFacts DEF RuleSets
<1>6. rules' \in [SecurityLists -> RuleSets]
  BY <1>4, <1>5 DEF NetworkInv
<1> QED BY <1>4, <1>6, SavesGoOn DEF NetworkInv

LEMMA SavingKeeps ==
  ASSUME NetworkInv, NEW s \in saves,
         N!ServeSave(s) \/ N!SaveEnds(s) \/ N!SaveFails(s) \/ N!LoadedAgain(s)
  PROVE  NetworkInv'
<1>1. s \in Saves /\ s.key \in SecurityLists /\ s.rules \in RuleSets /\ s.reload \in Nat
  BY DEF NetworkInv, Saves
<1>2. \A p \in {"saved", "failed"} :
        LET t == [s EXCEPT !.phase = p]
        IN  t \in Saves /\ t.key = s.key /\ t.rules = s.rules /\ t.asked = s.asked
  BY <1>1 DEF Saves
<1>3. \A n \in Nat :
        LET t == [s EXCEPT !.phase = "loading", !.reload = n]
        IN  t \in Saves /\ t.key = s.key /\ t.rules = s.rules /\ t.asked = s.asked
  BY <1>1 DEF Saves
<1>4. CASE N!ServeSave(s)
  <2>1. /\ rules' = rules \/ rules' = [rules EXCEPT ![s.key] = s.rules]
        /\ \E p \in {"saved", "failed"} : saves' = (saves \ {s}) \union {[s EXCEPT !.phase = p]}
        /\ UNCHANGED <<lists, sel, nSeq, saving, dialog, loads, confirmed>>
    BY <1>4 DEF N!ServeSave, N!page
  <2>2. rules' \in [SecurityLists -> RuleSets]
    BY <1>1, <2>1 DEF NetworkInv
  <2> QED BY <1>2, <2>1, <2>2, SavesGoOn DEF NetworkInv
<1>5. CASE N!SaveEnds(s)
  <2>1. lists' \in [SecurityLists -> RuleSets \union {N!NoList}]
    BY <1>1, <1>5 DEF NetworkInv, N!SaveEnds
  <2> QED BY <1>5, <2>1, SavesGoOn DEF NetworkInv, N!SaveEnds
<1>6. CASE N!SaveFails(s)
  <2>1. nSeq + 1 \in Nat /\ [seq |-> nSeq + 1, got |-> N!Empty, left |-> SecurityLists] \in ListLoads
    BY DEF NetworkInv, ListLoads, N!Empty
  <2> QED BY <1>3, <1>6, <2>1, SavesGoOn DEF NetworkInv, N!SaveFails, N!loadNetwork
<1>7. CASE N!LoadedAgain(s)
  BY <1>7, SavesGoOn DEF NetworkInv, N!LoadedAgain
<1> QED BY <1>4, <1>5, <1>6, <1>7

-----------------------------------------------------------------------------
LEMMA NetworkStart == ASSUME NetworkLimits PROVE N!Init => NetworkInv
<1> SUFFICES ASSUME N!Init PROVE NetworkInv
  OBVIOUS
<1>1. FirstRules \in RuleSets
  <2>1. FirstRules.ingress \in Seq(Rules) /\ FirstRules.egress \in Seq(Rules)
        /\ FirstRules = [ingress |-> FirstRules.ingress, egress |-> FirstRules.egress]
    BY DEF NetworkLimits
  <2>2. \A n \in 1 .. Len(FirstRules.ingress) : FirstRules.ingress[n] \in Allowed
    BY <2>1 DEF Allowed, N!Range
  <2>3. FirstRules.ingress \in Seq(Allowed)
    BY <2>1, <2>2
  <2> QED BY <2>1, <2>3 DEF RuleSets
<1>2. [seq |-> 1, got |-> N!Empty, left |-> SecurityLists] \in ListLoads
  BY DEF ListLoads, N!Empty
<1> QED BY <1>1, <1>2 DEF N!Init, N!Empty, NetworkInv, N!SentAsSeen

LEMMA NetworkStep == ASSUME NetworkLimits PROVE NetworkInv /\ [N!Next]_(N!vars) => NetworkInv'
<1> SUFFICES ASSUME NetworkInv, [N!Next]_(N!vars) PROVE NetworkInv'
  OBVIOUS
<1>1. CASE UNCHANGED N!vars
  BY <1>1, SavesGoOn DEF N!vars, N!page, NetworkInv
<1>2. CASE N!Editing
  BY <1>2, PageEdits, AnswerKeeps, OthersKeep DEF N!Editing, Directions
<1>3. CASE N!Loading
  BY <1>3, ListsLoad
<1>4. CASE N!Saving
  BY <1>4, SavingKeeps DEF N!Saving
<1> QED BY <1>1, <1>2, <1>3, <1>4 DEF N!Next

LEMMA NetworkShow == NetworkInv => N!SentAsSeen /\ N!NoOpenRuleUnasked
<1> SUFFICES ASSUME NetworkInv, NEW k \in SecurityLists, NEW rule \in N!Range(rules[k].ingress),
                    N!IsAllowAllRule(rule)
             PROVE  rule \in confirmed \union N!Range(FirstRules.ingress)
  BY DEF NetworkInv, N!NoOpenRuleUnasked
<1>1. rules[k].ingress \in Seq(Allowed)
  BY DEF NetworkInv, RuleSets
<1>2. rule \in Allowed
  BY <1>1 DEF N!Range
<1> QED BY <1>2 DEF Allowed

\* Whatever was loaded, saved by others or lost while a question was open, what is
\* sent is the edit that was seen and confirmed, and to the list it was seen in
\* (SentAsSeen); and no rule that opens every port is there unasked
\* (NoOpenRuleUnasked): the page's judgement of a form and the server's of the rule
\* agree for every form.
THEOREM RulesAreAsked ==
  ASSUME NetworkLimits
  PROVE  N!Spec => [](N!SentAsSeen /\ N!NoOpenRuleUnasked)
BY NetworkStart, NetworkStep, NetworkShow, PTL DEF N!Spec

-----------------------------------------------------------------------------
(* The editor of an instance: what is sent was asked, or is what it has.   *)

\* A shape that is taken for flexible by its name allows at least the memory that
\* is assumed until Oracle says how much.
EditorLimits ==
  /\ \A c \in Configs : c.ocpu \in Nat /\ c.mem \in Nat
  /\ DefaultRatio \in Nat /\ \A s \in E!Shapes : MetaOf[s].ratio \in Nat
  /\ \A s \in FlexByName : s \in E!Shapes => MetaOf[s].ratio >= DefaultRatio

\* One answer about the shape is awaited, as long as the shape stays.
OneShape ==
  ~reshaped => /\ asking \subseteq {instance.shape}
               /\ asking # {} => shapeMeta = Nothing
               /\ shapeMeta \in {Nothing, MetaOf[instance.shape]}

\* The memory on the slider is within what the instance has or its shape allows.
MemoryFits ==
  ~reshaped => \/ mem <= instance.mem
               \/ /\ shapeMeta # Nothing \/ instance.shape \in FlexByName
                  /\ mem <= ocpu * E!maxPerOcpu

\* Under an open question the sliders move only to what the instance has.
QuestionIsShown ==
  eQuestion # Nothing /\ eQuestion.of # "volume" =>
    <<ocpu, mem>> \in {<<eQuestion.ocpu, eQuestion.mem>>, <<instance.ocpu, instance.mem>>}

EditorInv ==
  /\ instance \in Configs /\ ocpu \in Nat /\ mem \in Nat /\ reshaped \in BOOLEAN
  /\ shapeMeta \in {MetaOf[s] : s \in E!Shapes} \union {Nothing}
  /\ OneShape /\ MemoryFits /\ QuestionIsShown /\ E!SlidersNeverMix

\* The numbers of an editor.
LEMMA EditorFacts ==
  ASSUME EditorLimits, EditorInv
  PROVE  /\ instance.ocpu \in Nat /\ instance.mem \in Nat /\ E!maxPerOcpu \in Nat
         /\ E!isFlexible => shapeMeta # Nothing \/ instance.shape \in FlexByName
         /\ instance.shape \in E!Shapes
BY DEF EditorLimits, EditorInv, E!maxPerOcpu, E!isFlexible, E!Shapes

\* More memory for each OCPU.
LEMMA MoreMemory ==
  ASSUME NEW n \in Nat, NEW a \in Nat, NEW b \in Nat, b >= a
  PROVE  n * a \in Nat /\ n * b >= n * a
<1>1. PICK d \in Nat : b = a + d
  <2>1. b - a \in Nat /\ b = a + (b - a)
    OBVIOUS
  <2> QED BY <2>1
<1>2. n * b = n * a + n * d /\ n * a \in Nat /\ n * d \in Nat
  BY <1>1
<1> QED BY <1>2

LEMMA MetaKeeps ==
  ASSUME EditorLimits, EditorInv, NEW s \in E!Shapes, E!MetaComes(s)
  PROVE  EditorInv'
<1>1. /\ UNCHANGED <<instance, left, E!sliders, eQuestion, applyingVolume, applyingShape, reshaped>>
      /\ s \in asking /\ asking' = asking \ {s}
      /\ shapeMeta' \in IF s = instance.shape THEN {MetaOf[s], Nothing} ELSE {shapeMeta}
  BY DEF E!MetaComes
<1>2. /\ shapeMeta' \in {MetaOf[t] : t \in E!Shapes} \union {Nothing}
      /\ instance' \in Configs /\ ocpu' \in Nat /\ mem' \in Nat /\ reshaped' \in BOOLEAN
  BY <1>1 DEF EditorInv, E!sliders
<1>3. OneShape'
  BY <1>1 DEF EditorInv, OneShape
<1>4. MemoryFits'
  <2> SUFFICES ASSUME ~reshaped PROVE
        \/ mem <= instance.mem
        \/ (shapeMeta' # Nothing \/ instance.shape \in FlexByName) /\ mem <= ocpu * E!maxPerOcpu'
    BY <1>1 DEF MemoryFits, E!sliders
  <2>1. s = instance.shape /\ shapeMeta = Nothing /\ E!maxPerOcpu = DefaultRatio
    BY <1>1 DEF EditorInv, OneShape, E!maxPerOcpu
  <2>2. CASE shapeMeta' = Nothing
    BY <1>1, <2>1, <2>2 DEF EditorInv, MemoryFits, E!maxPerOcpu
  <2>3. CASE shapeMeta' # Nothing /\ ~(mem <= instance.mem)
    <3>1. instance.shape \in FlexByName /\ mem <= ocpu * DefaultRatio
      BY <2>1, <2>3 DEF EditorInv, MemoryFits
    <3>2. E!maxPerOcpu' = MetaOf[s].ratio
      BY <1>1, <2>1, <2>3 DEF E!maxPerOcpu
    <3>3. DefaultRatio \in Nat /\ MetaOf[s].ratio \in Nat /\ MetaOf[s].ratio >= DefaultRatio
      BY <2>1, <3>1 DEF EditorLimits
    <3>4. ocpu * MetaOf[s].ratio >= ocpu * DefaultRatio /\ ocpu * DefaultRatio \in Nat
      BY <3>3, MoreMemory DEF EditorInv
    <3>5. ocpu * MetaOf[s].ratio \in Nat /\ mem \in Nat
      BY <3>3 DEF EditorInv
    <3> QED BY <2>3, <3>1, <3>2, <3>4, <3>5
  <2> QED BY <2>2, <2>3
<1>5. QuestionIsShown' /\ E!SlidersNeverMix'
  BY <1>1 DEF EditorInv, QuestionIsShown, E!SlidersNeverMix, E!sliders
<1> QED BY <1>2, <1>3, <1>4, <1>5 DEF EditorInv

LEMMA RefreshKeeps ==
  ASSUME EditorLimits, EditorInv, NEW c \in Configs, E!Refresh(c)
  PROVE  EditorInv'
<1>1. /\ instance' = c /\ shapeMeta' = shapeMeta /\ reshaped' = (reshaped \/ c.shape # instance.shape)
      /\ c.shape = instance.shape => asking' = asking
      /\ UNCHANGED <<eQuestion, applyingVolume, applyingShape>>
      /\ \/ ocpu' = c.ocpu /\ mem' = c.mem
         \/ UNCHANGED <<ocpu, mem>> /\ c.ocpu = instance.ocpu /\ c.mem = instance.mem
  BY DEF E!Refresh, E!watched, E!sliders, E!MemoryFrom
<1>2. /\ shapeMeta' \in {MetaOf[t] : t \in E!Shapes} \union {Nothing}
      /\ instance' \in Configs /\ ocpu' \in Nat /\ mem' \in Nat /\ reshaped' \in BOOLEAN
      /\ c.ocpu \in Nat /\ c.mem \in Nat
  BY <1>1 DEF EditorInv, EditorLimits
<1>3. OneShape'
  BY <1>1 DEF EditorInv, OneShape
<1>4. MemoryFits'
  <2>1. ~reshaped' => ~reshaped /\ c.shape = instance.shape
    BY <1>1
  <2>2. E!maxPerOcpu' = E!maxPerOcpu
    BY <1>1 DEF E!maxPerOcpu
  <2>3. ~reshaped => \/ mem <= instance.mem
                     \/ /\ shapeMeta # Nothing \/ instance.shape \in FlexByName
                        /\ mem <= ocpu * E!maxPerOcpu
    BY DEF EditorInv, MemoryFits
  <2>4. CASE ocpu' = c.ocpu /\ mem' = c.mem
    BY <1>1, <1>2, <2>4 DEF MemoryFits
  <2>5. CASE UNCHANGED <<ocpu, mem>> /\ c.mem = instance.mem
    BY <1>1, <2>1, <2>2, <2>3, <2>5 DEF MemoryFits
  <2> QED BY <1>1, <2>4, <2>5
<1>5. QuestionIsShown' /\ E!SlidersNeverMix'
  BY <1>1 DEF EditorInv, QuestionIsShown, E!SlidersNeverMix
<1> QED BY <1>2, <1>3, <1>4, <1>5 DEF EditorInv

LEMMA SliderKeeps ==
  ASSUME EditorLimits, EditorInv,
         (\E n \in 1 .. DefaultOcpu : E!onOcpu(n)) \/ \E n \in Memories : E!SetMem(n)
  PROVE  EditorInv'
<1>1. /\ UNCHANGED <<instance, left, shapeMeta, asking, eQuestion, applyingVolume, applyingShape, reshaped>>
      /\ eQuestion = Nothing
      /\ E!isFlexible
  BY DEF E!onOcpu, E!SetMem, E!Move, E!Rest
<1>2. ocpu' \in Nat /\ mem' \in Nat /\ (mem' <= instance.mem \/ mem' <= ocpu' * E!maxPerOcpu)
  <2>1. ASSUME NEW n \in 1 .. DefaultOcpu, E!onOcpu(n)
        PROVE  ocpu' \in Nat /\ mem' \in Nat /\ mem' <= ocpu' * E!maxPerOcpu
    <3>1. n \in Nat /\ n * E!maxPerOcpu \in Nat /\ mem \in Nat
      BY <2>1, EditorFacts DEF EditorInv, E!onOcpu
    <3>2. ocpu' = n /\ mem' = E!Least(mem, n * E!maxPerOcpu)
      BY <2>1 DEF E!onOcpu, E!capped
    <3> QED BY <3>1, <3>2 DEF E!Least
  <2>2. ASSUME NEW n \in Memories, E!SetMem(n)
        PROVE  ocpu' \in Nat /\ mem' \in Nat /\ (mem' <= instance.mem \/ mem' <= ocpu' * E!maxPerOcpu)
    <3>1. /\ ocpu \in Nat /\ ocpu * E!maxPerOcpu \in Nat /\ instance.mem \in Nat
          /\ ocpu' = ocpu /\ mem' = n /\ n \in 1 .. E!Most(instance.mem, ocpu * E!maxPerOcpu)
      BY <1>1, <2>2, EditorFacts DEF EditorInv, E!SetMem, E!maxMem
    <3> QED BY <3>1 DEF E!Most
  <2> QED BY <2>1, <2>2
<1>3. MemoryFits' /\ OneShape'
  BY <1>1, <1>2, EditorFacts DEF MemoryFits, EditorInv, OneShape, E!maxPerOcpu
<1>4. QuestionIsShown' /\ E!SlidersNeverMix'
  BY <1>1 DEF EditorInv, QuestionIsShown, E!SlidersNeverMix
<1> QED BY <1>1, <1>2, <1>3, <1>4 DEF EditorInv

\* Steps that leave the sliders and the instance alone.
LEMMA EditorRests ==
  ASSUME EditorInv, UNCHANGED <<instance, ocpu, mem, shapeMeta, asking, reshaped, applyingShape>>,
         eQuestion' = eQuestion \/ QuestionIsShown'
  PROVE  EditorInv'
<1>1. QuestionIsShown'
  BY DEF EditorInv, QuestionIsShown
<1>2. MemoryFits' /\ OneShape'
  BY DEF EditorInv, MemoryFits, OneShape, E!maxPerOcpu
<1> QED BY <1>1, <1>2 DEF EditorInv, E!SlidersNeverMix

LEMMA AskingAndSending ==
  ASSUME EditorLimits, EditorInv, E!applyVolume \/ E!applyShape \/ E!Confirm \/ E!Dismiss
  PROVE  EditorInv'
<1> USE DEF E!sliders
<1>1. CASE E!applyVolume \/ E!applyShape
  <2> DEFINE v == [of |-> "volume", size |-> size, vpu |-> vpu]
             t == [of |-> "shape", ocpu |-> ocpu, mem |-> mem]
  <2>1. /\ UNCHANGED <<instance, ocpu, mem, shapeMeta, asking, reshaped, applyingShape>>
        /\ eQuestion' \in {v, t}
    BY <1>1 DEF E!applyVolume, E!applyShape, E!Ask
  <2>2. v.of = "volume" /\ t.ocpu = ocpu /\ t.mem = mem
    OBVIOUS
  <2> HIDE DEF v, t
  <2>3. QuestionIsShown'
    BY <2>1, <2>2 DEF QuestionIsShown
  <2> QED BY <2>1, <2>3, EditorRests
<1>2. CASE E!Dismiss \/ (E!Confirm /\ eQuestion.of = "volume")
  <2>1. QuestionIsShown'
    BY <1>2 DEF E!Dismiss, E!Confirm, QuestionIsShown
  <2> QED BY <1>2, <2>1, EditorRests DEF E!Dismiss, E!Confirm
<1>3. CASE E!Confirm /\ eQuestion.of # "volume"
  <2>1. /\ UNCHANGED <<instance, ocpu, mem, shapeMeta, asking, reshaped>>
        /\ eQuestion # Nothing /\ eQuestion' = Nothing
        /\ applyingShape' = [asked |-> eQuestion, ocpu |-> ocpu, mem |-> mem, ratio |-> E!maxPerOcpu,
                             had |-> instance,
                             baseline |-> IF E!baselineChanged THEN baseline ELSE Nothing]
    BY <1>3 DEF E!Confirm
  <2>2. <<ocpu, mem>> \in {<<eQuestion.ocpu, eQuestion.mem>>, <<instance.ocpu, instance.mem>>}
    BY <1>3, <2>1 DEF EditorInv, QuestionIsShown
  <2>3. ~reshaped => mem <= E!Most(instance.mem, ocpu * E!maxPerOcpu)
    <3>1. instance.mem \in Nat /\ mem \in Nat /\ ocpu * E!maxPerOcpu \in Nat
      BY EditorFacts DEF EditorInv
    <3>2. ~reshaped => mem <= instance.mem \/ mem <= ocpu * E!maxPerOcpu
      BY DEF EditorInv, MemoryFits
    <3> QED BY <3>1, <3>2 DEF E!Most
  <2>4. /\ applyingShape'.asked = eQuestion /\ applyingShape'.ocpu = ocpu /\ applyingShape'.mem = mem
        /\ applyingShape'.ratio = E!maxPerOcpu /\ applyingShape'.had = instance
    BY <2>1
  <2>5. E!SlidersNeverMix'
    BY <2>1, <2>2, <2>3, <2>4 DEF E!SlidersNeverMix
  <2>6. MemoryFits' /\ OneShape' /\ QuestionIsShown'
    BY <2>1 DEF EditorInv, MemoryFits, OneShape, E!maxPerOcpu, QuestionIsShown
  <2> QED BY <2>1, <2>5, <2>6 DEF EditorInv
<1> QED BY <1>1, <1>2, <1>3

LEMMA ChangeEnds ==
  ASSUME EditorLimits, EditorInv, NEW ok \in BOOLEAN, E!VolumeEnds(ok) \/ E!ShapeEnds(ok)
  PROVE  EditorInv'
<1>1. CASE E!VolumeEnds(ok)
  BY <1>1, EditorRests DEF E!VolumeEnds
<1>2. CASE E!ShapeEnds(ok)
  <2>1. /\ UNCHANGED <<instance, shapeMeta, asking, reshaped, eQuestion>>
        /\ applyingShape' = Nothing
        /\ \/ UNCHANGED <<ocpu, mem>>
           \/ ocpu' = instance.ocpu /\ mem' = instance.mem
    BY <1>2 DEF E!ShapeEnds
  <2>2. ocpu' \in Nat /\ mem' \in Nat
    BY <2>1, EditorFacts DEF EditorInv
  <2>3. MemoryFits' /\ OneShape' /\ QuestionIsShown' /\ E!SlidersNeverMix'
    BY <2>1, EditorFacts DEF EditorInv, MemoryFits, OneShape, E!maxPerOcpu, QuestionIsShown, E!SlidersNeverMix
  <2> QED BY <2>1, <2>2, <2>3 DEF EditorInv
<1> QED BY <1>1, <1>2

-----------------------------------------------------------------------------
LEMMA EditorStart == ASSUME EditorLimits PROVE E!Init => EditorInv
<1> SUFFICES ASSUME E!Init PROVE EditorInv
  OBVIOUS
<1>1. instance \in Configs /\ ocpu \in Nat /\ mem \in Nat /\ reshaped = FALSE /\ mem <= instance.mem
  BY DEF E!Init, EditorLimits
<1> QED BY <1>1 DEF E!Init, EditorInv, OneShape, MemoryFits, QuestionIsShown, E!SlidersNeverMix

LEMMA EditorStep == ASSUME EditorLimits PROVE EditorInv /\ [E!Next]_(E!vars) => EditorInv'
<1> SUFFICES ASSUME EditorInv, [E!Next]_(E!vars) PROVE EditorInv'
  OBVIOUS
<1>1. CASE UNCHANGED E!vars
  BY <1>1, EditorRests DEF E!vars, E!sliders
<1>2. ASSUME \/ \E q \in Quotas : E!QuotaChanges(q)
             \/ \E n \in Sizes : E!SetSize(n)
             \/ \E n \in Vpus : E!SetVpu(n)
             \/ \E b \in E!Baselines : E!SetBaseline(b)
      PROVE  EditorInv'
  BY <1>2, EditorRests DEF E!QuotaChanges, E!SetSize, E!SetVpu, E!SetBaseline, E!Rest, E!sliders
<1>3. CASE E!Next
  BY <1>2, <1>3, MetaKeeps, RefreshKeeps, SliderKeeps, AskingAndSending, ChangeEnds DEF E!Next
<1> QED BY <1>1, <1>3

LEMMA EditorShow == EditorInv => E!SlidersNeverMix
BY DEF EditorInv

\* What is sent for an instance is what its question named or what the instance
\* has, never a mixture, and no more memory than its shape allows
\* (SlidersNeverMix): however refreshes, answers about the shape and failures fall
\* between the clicks.
THEOREM SendsNoMixture == ASSUME EditorLimits PROVE E!Spec => []E!SlidersNeverMix
BY EditorStart, EditorStep, EditorShow, PTL DEF E!Spec

-----------------------------------------------------------------------------
(* The accounts: the status of each is the verdict on its key, and shown   *)
(* as it is stored.                                                        *)

AccountLimits == MaxClock \in Nat /\ Nothing \notin K!Account

Clients == [key : Keys, at : 0 .. MaxClock]
StoredAccounts == [AccountIds -> K!Account \union {Nothing}]
AccountTasks ==
  [n : Nat, of : {"open", "check", "rotate", "enable", "remove", "sweep", "quota"},
   step : {"list", "check", "built", "called", "answered", "told", "quota", "ask"},
   id : AccountIds \union {Nothing}, key : Keys \union {Nothing}, enable : BOOLEAN,
   before : K!Statuses \union {Nothing}, built : Clients \union {Nothing}, ok : BOOLEAN,
   list : StoredAccounts \union {Nothing}, here : BOOLEAN]
AccountQuestions == [of : {"rotate", "enable", "remove"}, id : AccountIds, enable : BOOLEAN]

TaskIsSound(t) ==
  /\ t \in AccountTasks
  /\ t.step \in {"check", "built", "called", "ask", "answered"} => t.id \in AccountIds
  /\ t.step = "ask" => t.key \in Keys
  /\ t.step \in {"built", "called"} => t.built \in Clients
  /\ t.of = "quota" => t.step = "quota"
  /\ t.step # "list" => t.list = Nothing

AccountsTyped ==
  /\ kStored \in StoredAccounts /\ cached \in [AccountIds -> Clients \union {Nothing}]
  /\ clock \in 0 .. MaxClock /\ count \in Nat /\ drawer \in AccountIds \union {Nothing}
  /\ kQuestion # Nothing => kQuestion \in AccountQuestions
  /\ \A t \in tasks : TaskIsSound(t)
  /\ \A i \in AccountIds : kStored[i] # Nothing /\ kStored[i].status = "ok" => kStored[i].known

\* Unless a key was changed during a check, every client is of the key that is
\* stored: the cached one, and the one of a check that has yet to say its verdict.
KeysAreCurrent ==
  ~crossed =>
    /\ \A i \in AccountIds : kStored[i] # Nothing =>
         /\ K!Judged(kStored[i])
         /\ cached[i] # Nothing => cached[i].key = kStored[i].key
    /\ \A t \in tasks : t.step \in {"built", "called"} /\ kStored[t.id] # Nothing =>
                          t.built.key = kStored[t.id].key

Showing(a) == {[K!toAccount(a) EXCEPT !.quota = q] : q \in BOOLEAN}
AccountsShown ==
  \/ kShown = [i \in AccountIds |-> Nothing]
  \/ \A i \in AccountIds : IF kStored[i] = Nothing THEN kShown[i] = Nothing
                           ELSE kShown[i] \in Showing(kStored[i])

\* A check of the sweep that ends unheard has changed nothing that is shown.
AloneIsSound(t) ==
  /\ t.list # Nothing => t.list = kStored
  /\ t.of = "sweep" /\ t.step \in {"check", "built", "called"} => AccountsShown
  /\ t.of = "sweep" /\ t.step \in {"built", "called"} /\ kStored[t.id] # Nothing =>
       t.before = kStored[t.id].status

OneTask ==
  ~kBlurred =>
    /\ \A t, u \in tasks : t.of # "quota" /\ u.of # "quota" => t = u
    /\ K!Apart => AccountsShown
    /\ \A t \in tasks : AloneIsSound(t)

AccountsInv == AccountsTyped /\ KeysAreCurrent /\ OneTask

\* A task that goes one step further, and what is stored stays.
LEMMA MoveKeeps ==
  ASSUME AccountsInv, NEW t \in tasks, NEW u, K!Move(t, u), t.of # "quota", u.of = t.of,
         UNCHANGED <<kStored, clock, kShown, count, drawer, kQuestion, crossed, kBlurred>>,
         cached' \in [AccountIds -> Clients \union {Nothing}],
         \A i \in AccountIds : cached'[i] = cached[i] \/ (t.step = "built" /\ t.id = i /\ cached'[i] = t.built),
         TaskIsSound(u),
         u.step \in {"built", "called"} =>
           /\ t.step \in {"check", "built"} /\ u.id = t.id
           /\ kStored[u.id] # Nothing \/ t.step = "built"
           /\ \/ t.step = "built" /\ u.built = t.built /\ u.before = t.before
              \/ /\ t.step = "check" /\ u.before = kStored[u.id].status
                 /\ \/ u.built.key = kStored[u.id].key
                    \/ cached[u.id] # Nothing /\ u.built.key = cached[u.id].key,
         u.list # Nothing => u.list = t.list \/ u.list = kStored,
         u.of = "sweep" => u.step # "check"
  PROVE  AccountsInv'
<1>1. tasks' = (tasks \ {t}) \union {u} /\ TaskIsSound(t)
  BY DEF K!Move, AccountsInv, AccountsTyped
<1>2. AccountsTyped'
  BY <1>1 DEF AccountsInv, AccountsTyped, TaskIsSound
<1>3. KeysAreCurrent'
  <2> SUFFICES ASSUME ~crossed PROVE KeysAreCurrent'
    BY DEF KeysAreCurrent
  <2>1. ASSUME NEW i \in AccountIds, kStored[i] # Nothing
        PROVE  K!Judged(kStored[i]) /\ (cached'[i] # Nothing => cached'[i].key = kStored[i].key)
    BY <2>1, <1>1 DEF AccountsInv, KeysAreCurrent
  <2>2. u.step \in {"built", "called"} /\ kStored[u.id] # Nothing => u.built.key = kStored[u.id].key
    BY <1>1 DEF AccountsInv, KeysAreCurrent, TaskIsSound
  <2> QED BY <1>1, <2>1, <2>2 DEF AccountsInv, KeysAreCurrent, K!Judged
<1>4. OneTask'
  <2> SUFFICES ASSUME ~kBlurred PROVE OneTask'
    BY DEF OneTask
  <2>1. \A v \in tasks' : v = u \/ v.of = "quota"
    BY <1>1 DEF AccountsInv, OneTask
  <2>2. AccountsShown' <=> AccountsShown
    BY DEF AccountsShown
  <2>3. AloneIsSound(u)'
    <3>1. AloneIsSound(t)
      BY DEF AccountsInv, OneTask
    <3>2. u.list # Nothing => u.list = kStored
      BY <3>1 DEF AloneIsSound
    <3> QED BY <2>2, <3>1, <3>2 DEF AloneIsSound
  <2>4. \A v \in tasks' : AloneIsSound(v)'
    <3> SUFFICES ASSUME NEW v \in tasks', v # u PROVE AloneIsSound(v)'
      BY <2>3
    <3>1. AloneIsSound(v) /\ v.of = "quota"
      BY <1>1, <2>1 DEF AccountsInv, OneTask
    <3> QED BY <3>1 DEF AloneIsSound
  <2>5. ~K!Apart'
    BY <1>1 DEF K!Apart
  <2> QED BY <2>1, <2>4, <2>5 DEF OneTask
<1> QED BY <1>2, <1>3, <1>4 DEF AccountsInv

\* The steps of a task that change neither what is stored nor what is shown.
LEMMA WalkKeeps ==
  ASSUME AccountsInv, NEW t \in tasks,
         K!Connect(t) \/ K!StoreClient(t) \/ K!List(t) \/ K!Answered(t) \/ K!Told(t)
  PROVE  AccountsInv'
<1>1. /\ TaskIsSound(t) /\ t.of # "quota"
      /\ UNCHANGED <<kStored, clock, kShown, count, drawer, kQuestion, crossed, kBlurred>>
  BY DEF AccountsInv, AccountsTyped, TaskIsSound, K!Connect, K!StoreClient, K!List, K!Answered,
         K!Told, K!server, K!page
<1>2. AccountsTyped
  BY DEF AccountsInv
<1>3. CASE K!Connect(t)
  <2> DEFINE hit == K!Cached(t.id)
             key == IF hit THEN cached[t.id].key ELSE kStored[t.id].key
             u == [t EXCEPT !.step = IF hit THEN "called" ELSE "built", !.before = kStored[t.id].status,
                            !.built = [key |-> key, at |-> kStored[t.id].at]]
  <2>1. K!Move(t, u) /\ t.step = "check" /\ kStored[t.id] # Nothing /\ UNCHANGED cached
    BY <1>3 DEF K!Connect, K!server
  <2>2. t.id \in AccountIds /\ kStored[t.id] \in K!Account
    BY <1>1, <1>2, <2>1 DEF TaskIsSound, AccountsTyped, StoredAccounts
  <2>3. key \in Keys /\ kStored[t.id].at \in 0 .. MaxClock /\ kStored[t.id].status \in K!Statuses
    BY <1>2, <2>2 DEF AccountsTyped, Clients, K!Account, K!Cached
  <2>4. key = kStored[t.id].key \/ (cached[t.id] # Nothing /\ key = cached[t.id].key)
    BY DEF K!Cached
  <2>5. (IF hit THEN "called" ELSE "built") \in {"called", "built"}
    OBVIOUS
  <2> HIDE DEF hit, key
  <2>6. [key |-> key, at |-> kStored[t.id].at] \in Clients
    BY <2>3 DEF Clients
  <2>7. /\ u \in AccountTasks /\ u.of = t.of /\ u.id = t.id /\ u.key = t.key /\ u.list = t.list
        /\ u.step \in {"called", "built"} /\ u.before = kStored[t.id].status
        /\ u.built \in Clients /\ u.built.key = key
    BY <1>1, <2>3, <2>5, <2>6, ZenonT(40) DEF TaskIsSound, AccountTasks
  <2> HIDE DEF u
  <2>8. TaskIsSound(u)
    BY <1>1, <2>1, <2>2, <2>7 DEF TaskIsSound
  <2> QED BY <1>1, <1>2, <2>1, <2>2, <2>4, <2>7, <2>8, MoveKeeps DEF AccountsTyped
<1>4. CASE K!StoreClient(t)
  <2> DEFINE u == [t EXCEPT !.step = "called"]
  <2>1. K!Move(t, u) /\ t.step = "built" /\ cached' = [cached EXCEPT ![t.id] = t.built]
    BY <1>4 DEF K!StoreClient
  <2>2. t.id \in AccountIds /\ t.built \in Clients
    BY <1>1, <2>1 DEF TaskIsSound
  <2>3. /\ u \in AccountTasks /\ u.of = t.of /\ u.id = t.id /\ u.key = t.key /\ u.list = t.list
        /\ u.step = "called" /\ u.before = t.before /\ u.built = t.built
    BY <1>1 DEF TaskIsSound, AccountTasks
  <2> HIDE DEF u
  <2>4. TaskIsSound(u)
    BY <1>1, <2>1, <2>2, <2>3 DEF TaskIsSound
  <2>5. /\ cached' \in [AccountIds -> Clients \union {Nothing}]
        /\ \A i \in AccountIds : cached'[i] = cached[i] \/ (t.step = "built" /\ t.id = i /\ cached'[i] = t.built)
    BY <1>2, <2>1, <2>2 DEF AccountsTyped
  <2> QED BY <1>1, <2>1, <2>3, <2>4, <2>5, MoveKeeps
<1>5. CASE K!List(t)
  <2> DEFINE u == [t EXCEPT !.list = kStored]
  <2>1. K!Move(t, u) /\ t.step = "list" /\ UNCHANGED cached
    BY <1>5 DEF K!List, K!server
  <2>2. /\ u \in AccountTasks /\ u.of = t.of /\ u.id = t.id /\ u.key = t.key /\ u.list = kStored
        /\ u.step = "list"
    BY <1>1, <1>2, <2>1 DEF TaskIsSound, AccountTasks, AccountsTyped
  <2> HIDE DEF u
  <2>3. TaskIsSound(u)
    BY <1>1, <2>2 DEF TaskIsSound
  <2> QED BY <1>1, <1>2, <2>1, <2>2, <2>3, MoveKeeps DEF AccountsTyped
<1>6. CASE K!Answered(t) \/ K!Told(t)
  <2>1. PICK s \in {"check", "list"} : /\ K!Move(t, [t EXCEPT !.step = s]) /\ UNCHANGED cached
                                       /\ s = "check" => t.step = "answered" /\ t.of = "rotate"
    BY <1>6 DEF K!Answered, K!Told, K!server
  <2> DEFINE u == [t EXCEPT !.step = s]
  <2>2. /\ u \in AccountTasks /\ u.of = t.of /\ u.id = t.id /\ u.key = t.key /\ u.list = t.list
        /\ u.step = s
    BY <1>1 DEF TaskIsSound, AccountTasks
  <2> HIDE DEF u
  <2>3. TaskIsSound(u)
    BY <1>1, <2>1, <2>2 DEF TaskIsSound
  <2>4. K!Move(t, u)
    BY <2>1 DEF u
  <2> QED BY <1>1, <1>2, <2>1, <2>2, <2>3, <2>4, MoveKeeps DEF AccountsTyped
<1> QED BY <1>3, <1>4, <1>5, <1>6

\* What is shown of an account depends on whether it is enabled, on its status and
\* on what is known of it.
LEMMA ShowingFacts ==
  ASSUME NEW a, NEW b, a.enabled = b.enabled, a.status = b.status, a.key = b.key,
         (a.known /\ b.known) \/ (~a.known /\ ~b.known)
  PROVE  Showing(a) = Showing(b)
<1>1. K!accountStatus(a) = K!accountStatus(b)
  BY DEF K!accountStatus
<1>2. K!toAccount(a) = K!toAccount(b)
  BY <1>1 DEF K!toAccount
<1> QED BY <1>2 DEF Showing

\* The verdict: a status that was changed is told or answered.
LEMMA VerdictKeeps ==
  ASSUME AccountLimits, AccountsInv, NEW t \in tasks, K!Verdict(t)
  PROVE  AccountsInv'
<1> DEFINE good == t.built.key \in Accepted
           status == IF good THEN "ok" ELSE "error"
           a == [kStored[t.id] EXCEPT !.status = status, !.at = clock, !.known = @ \/ good]
<1>1. /\ TaskIsSound(t) /\ t.of # "quota" /\ t.step = "called" /\ t.id \in AccountIds /\ t.built \in Clients
      /\ UNCHANGED <<cached, clock, kShown, count, drawer, kQuestion, crossed, kBlurred>>
  BY DEF AccountsInv, AccountsTyped, TaskIsSound, K!Verdict, K!page
<1>2. AccountsTyped
  BY DEF AccountsInv
<1>3. kStored' = IF kStored[t.id] = Nothing THEN kStored ELSE [kStored EXCEPT ![t.id] = a]
  BY DEF K!Verdict
<1>4. status \in K!Statuses /\ (status = "ok" <=> good) /\ status # "unchecked"
  BY DEF K!Statuses
<1>5. ASSUME kStored[t.id] # Nothing
      PROVE  /\ a \in K!Account /\ a.status = status /\ a.key = kStored[t.id].key
             /\ a.enabled = kStored[t.id].enabled /\ (a.known <=> kStored[t.id].known \/ good)
  <2>1. kStored[t.id] \in K!Account
    BY <1>1, <1>2, <1>5 DEF AccountsTyped, StoredAccounts
  <2>2. clock \in 0 .. MaxClock
    BY <1>2 DEF AccountsTyped
  <2>3. (kStored[t.id].known \/ good) \in BOOLEAN
    OBVIOUS
  <2> HIDE DEF good, status
  <2> QED BY <1>4, <2>1, <2>2, <2>3 DEF K!Account
<1>6. /\ kStored' \in StoredAccounts
      /\ \A i \in AccountIds : (kStored'[i] = Nothing <=> kStored[i] = Nothing)
      /\ \A i \in AccountIds : kStored'[i] # Nothing => kStored'[i].key = kStored[i].key
      /\ \A i \in AccountIds : i # t.id => kStored'[i] = kStored[i]
      /\ kStored[t.id] # Nothing => kStored'[t.id] = a
  <2> HIDE DEF a
  <2> QED BY <1>1, <1>2, <1>3, <1>5 DEF AccountsTyped, StoredAccounts, AccountLimits
<1> HIDE DEF a, status, good
<1>7. \A i \in AccountIds : kStored'[i] # Nothing /\ kStored'[i].status = "ok" => kStored'[i].known
  BY <1>1, <1>2, <1>4, <1>5, <1>6 DEF AccountsTyped
<1>8. PICK S : /\ tasks' = (tasks \ {t}) \union S
               /\ S = {} \/ \E u : S = {u} /\ TaskIsSound(u) /\ u.of = t.of
                                 /\ u.step \in {"answered", "told"} /\ u.list = t.list
               /\ S = {} => t.of = "sweep" /\ t.before = status
  <2>1. CASE t.of # "sweep"
    <3> DEFINE u == [t EXCEPT !.step = "answered", !.ok = good]
    <3>1. tasks' = (tasks \ {t}) \union {u}
      BY <2>1 DEF K!Verdict, K!Move, good
    <3>2. good \in BOOLEAN
      BY DEF good
    <3>3. /\ u \in AccountTasks /\ u.of = t.of /\ u.id = t.id /\ u.list = t.list /\ u.step = "answered"
      BY <1>1, <3>2 DEF TaskIsSound, AccountTasks
    <3> HIDE DEF u
    <3>4. TaskIsSound(u)
      BY <1>1, <3>3 DEF TaskIsSound
    <3> QED BY <3>1, <3>3, <3>4
  <2>2. CASE t.of = "sweep" /\ t.before # status
    <3> DEFINE u == [t EXCEPT !.step = "told"]
    <3>1. tasks' = (tasks \ {t}) \union {u}
      BY <2>2 DEF K!Verdict, K!Move, good, status
    <3>2. /\ u \in AccountTasks /\ u.of = t.of /\ u.id = t.id /\ u.list = t.list /\ u.step = "told"
      BY <1>1 DEF TaskIsSound, AccountTasks
    <3> HIDE DEF u
    <3>3. TaskIsSound(u)
      BY <1>1, <3>2 DEF TaskIsSound
    <3> QED BY <3>1, <3>2, <3>3
  <2>3. CASE t.of = "sweep" /\ t.before = status
    <3>1. tasks' = (tasks \ {t}) \union {}
      BY <2>3 DEF K!Verdict, good, status
    <3> QED BY <2>3, <3>1
  <2> QED BY <2>1, <2>2, <2>3
<1>9. AccountsTyped'
  <2>1. \A v \in tasks' : TaskIsSound(v)'
    BY <1>2, <1>8 DEF AccountsTyped, TaskIsSound
  <2> QED BY <1>1, <1>2, <1>6, <1>7, <2>1 DEF AccountsTyped
<1>10. KeysAreCurrent'
  <2> SUFFICES ASSUME ~crossed PROVE KeysAreCurrent'
    BY <1>1 DEF KeysAreCurrent
  <2>1. KeysAreCurrent
    BY DEF AccountsInv
  <2>2. ASSUME NEW i \in AccountIds, kStored'[i] # Nothing PROVE K!Judged(kStored'[i])
    <3>1. CASE i # t.id
      BY <1>6, <2>1, <2>2, <3>1 DEF KeysAreCurrent
    <3>2. CASE i = t.id
      <4>1. t.built.key = kStored[t.id].key
        BY <1>1, <1>6, <2>1, <2>2, <3>2 DEF KeysAreCurrent
      <4> QED BY <1>4, <1>5, <1>6, <2>2, <3>2, <4>1 DEF K!Judged, good
    <3> QED BY <3>1, <3>2
  <2>3. \A i \in AccountIds : kStored'[i] # Nothing /\ cached[i] # Nothing => cached[i].key = kStored'[i].key
    BY <1>6, <2>1 DEF KeysAreCurrent
  <2>4. ASSUME NEW v \in tasks', v.step \in {"built", "called"}, kStored'[v.id] # Nothing
        PROVE  v.built.key = kStored'[v.id].key
    <3>1. v \in tasks
      BY <1>8, <2>4
    <3>2. v.id \in AccountIds
      BY <1>2, <2>4, <3>1 DEF AccountsTyped, TaskIsSound
    <3> QED BY <1>6, <2>1, <2>4, <3>1, <3>2 DEF KeysAreCurrent
  <2> QED BY <1>1, <2>2, <2>3, <2>4 DEF KeysAreCurrent, K!Judged
<1>11. OneTask'
  <2> SUFFICES ASSUME ~kBlurred PROVE OneTask'
    BY <1>1 DEF OneTask
  <2>1. OneTask /\ AloneIsSound(t)
    BY DEF AccountsInv, OneTask
  <2>2. \A v \in tasks \ {t} : v.of = "quota" /\ v.step = "quota" /\ v.list = Nothing
    BY <1>1, <1>2, <2>1 DEF OneTask, AccountsTyped, TaskIsSound
  <2>3. CASE S = {}
    <3>1. t.of = "sweep" /\ t.before = status
      BY <1>8, <2>3
    <3>2. AccountsShown /\ (kStored[t.id] # Nothing => t.before = kStored[t.id].status)
      BY <1>1, <2>1, <3>1 DEF AloneIsSound
    <3>3. ASSUME NEW i \in AccountIds, kStored[i] # Nothing PROVE Showing(kStored'[i]) = Showing(kStored[i])
      <4>1. CASE i # t.id
        BY <1>6, <4>1
      <4>2. CASE i = t.id
        <5>1. a.status = kStored[i].status /\ a.enabled = kStored[i].enabled /\ a.key = kStored[i].key
          BY <1>5, <3>1, <3>2, <3>3, <4>2
        <5>2. a.known <=> kStored[i].known
          <6>1. good => kStored[i].known
            BY <1>2, <1>4, <3>1, <3>2, <3>3, <4>2 DEF AccountsTyped
          <6> QED BY <1>5, <3>3, <4>2, <6>1
        <5>3. Showing(a) = Showing(kStored[i])
          BY <5>1, <5>2, ShowingFacts
        <5> QED BY <1>6, <3>3, <4>2, <5>3
      <4> QED BY <4>1, <4>2
    <3>4. AccountsShown'
      BY <1>1, <1>6, <3>2, <3>3 DEF AccountsShown
    <3> QED BY <1>1, <1>8, <2>2, <2>3, <3>4 DEF OneTask, AloneIsSound
  <2>4. CASE S # {}
    <3>1. PICK u : S = {u} /\ u.of = t.of /\ u.step \in {"answered", "told"} /\ u.list = Nothing
      BY <1>1, <1>8, <2>4 DEF TaskIsSound
    <3>2. ~K!Apart'
      BY <1>1, <1>8, <3>1 DEF K!Apart
    <3> QED BY <1>1, <1>8, <2>2, <3>1, <3>2 DEF OneTask, AloneIsSound
  <2> QED BY <2>3, <2>4
<1> QED BY <1>9, <1>10, <1>11 DEF AccountsInv

\* What the page asks for is served.
LEMMA AccountServeKeeps ==
  ASSUME AccountLimits, AccountsInv, NEW t \in tasks, K!Update(t) \/ K!Remove(t)
  PROVE  AccountsInv'
<1> DEFINE u == [t EXCEPT !.step = "answered", !.ok = TRUE]
<1>1. /\ TaskIsSound(t) /\ t.step = "ask" /\ t.id \in AccountIds /\ t.key \in Keys
      /\ t.of \in {"rotate", "enable", "remove"} /\ kStored[t.id] # Nothing
      /\ K!Move(t, u) /\ UNCHANGED <<clock, kShown, count, drawer, kQuestion, kBlurred>>
  BY DEF AccountsInv, AccountsTyped, TaskIsSound, K!Update, K!Remove, K!page
<1>2. AccountsTyped /\ clock \in 0 .. MaxClock /\ kStored[t.id] \in K!Account
  BY <1>1 DEF AccountsInv, AccountsTyped, StoredAccounts
<1>3. /\ u \in AccountTasks /\ u.of = t.of /\ u.id = t.id /\ u.list = t.list /\ u.step = "answered"
  BY <1>1 DEF TaskIsSound, AccountTasks
<1> HIDE DEF u
<1>4. TaskIsSound(u) /\ tasks' = (tasks \ {t}) \union {u}
  BY <1>1, <1>3 DEF TaskIsSound, K!Move
<1>5. PICK b \in K!Account \union {Nothing} :
        /\ kStored' = [kStored EXCEPT ![t.id] = b]
        /\ b # Nothing /\ b.status = "ok" => b.known
        /\ \/ b = Nothing /\ cached' = [cached EXCEPT ![t.id] = Nothing] /\ crossed' = crossed
           \/ /\ b # Nothing /\ b.key = kStored[t.id].key /\ b.status = kStored[t.id].status
              /\ UNCHANGED <<cached, crossed>>
           \/ /\ b # Nothing /\ b.status = "unchecked" /\ cached' = [cached EXCEPT ![t.id] = Nothing]
              /\ crossed' = (crossed \/ \E v \in tasks : v.id = t.id /\ K!Checking(v))
  <2>1. CASE K!Remove(t)
    <3>1. kStored' = [kStored EXCEPT ![t.id] = Nothing] /\ cached' = [cached EXCEPT ![t.id] = Nothing]
          /\ crossed' = crossed
      BY <2>1 DEF K!Remove, K!Invalidated
    <3> QED BY <3>1
  <2>2. CASE K!Update(t) /\ t.of = "rotate"
    <3> DEFINE b == [kStored[t.id] EXCEPT !.key = t.key, !.status = "unchecked", !.at = clock]
    <3>1. /\ kStored' = [kStored EXCEPT ![t.id] = b] /\ cached' = [cached EXCEPT ![t.id] = Nothing]
          /\ crossed' = (crossed \/ \E v \in tasks : v.id = t.id /\ K!Checking(v))
      BY <2>2 DEF K!Update, K!Invalidated
    <3>2. b \in K!Account /\ b.status = "unchecked"
      BY <1>1, <1>2 DEF K!Account, K!Statuses
    <3> HIDE DEF b
    <3>3. b # Nothing
      BY <3>2 DEF AccountLimits
    <3> QED BY <3>1, <3>2, <3>3
  <2>3. CASE K!Update(t) /\ t.of # "rotate"
    <3> DEFINE b == [kStored[t.id] EXCEPT !.enabled = t.enable, !.at = clock]
    <3>1. kStored' = [kStored EXCEPT ![t.id] = b] /\ UNCHANGED <<cached, crossed>>
      BY <2>3 DEF K!Update
    <3>2. t.enable \in BOOLEAN
      BY <1>1 DEF TaskIsSound, AccountTasks
    <3>3. /\ b \in K!Account /\ b.status = kStored[t.id].status /\ b.key = kStored[t.id].key
          /\ b.known = kStored[t.id].known
      BY <1>2, <3>2 DEF K!Account
    <3> HIDE DEF b
    <3>4. b # Nothing /\ (b.status = "ok" => b.known)
      BY <1>1, <1>2, <3>3 DEF AccountLimits, AccountsTyped
    <3> QED BY <3>1, <3>3, <3>4
  <2> QED BY <2>1, <2>2, <2>3
<1>6. /\ kStored' \in StoredAccounts /\ kStored'[t.id] = b
      /\ \A i \in AccountIds : i # t.id => kStored'[i] = kStored[i]
  BY <1>1, <1>2, <1>5 DEF AccountsTyped, StoredAccounts
<1>7. /\ cached' \in [AccountIds -> Clients \union {Nothing}]
      /\ \A i \in AccountIds : i # t.id => cached'[i] = cached[i]
      /\ cached' = cached \/ cached'[t.id] = Nothing
  BY <1>1, <1>2, <1>5 DEF AccountsTyped
<1>8. AccountsTyped'
  <2>1. \A v \in tasks' : TaskIsSound(v)'
    BY <1>2, <1>4 DEF AccountsTyped, TaskIsSound
  <2>2. \A i \in AccountIds : kStored'[i] # Nothing /\ kStored'[i].status = "ok" => kStored'[i].known
    BY <1>2, <1>5, <1>6 DEF AccountsTyped
  <2> QED BY <1>1, <1>2, <1>6, <1>7, <2>1, <2>2 DEF AccountsTyped
<1>9. KeysAreCurrent'
  <2> SUFFICES ASSUME ~crossed' PROVE KeysAreCurrent'
    BY DEF KeysAreCurrent
  <2>1. ~crossed /\ KeysAreCurrent
    <3>1. ASSUME crossed' = (crossed \/ \E v \in tasks : v.id = t.id /\ K!Checking(v)) PROVE ~crossed
      BY <3>1
    <3>2. ~crossed
      BY <1>5, <3>1
    <3> QED BY <3>2 DEF AccountsInv
  <2>2. ASSUME NEW i \in AccountIds, kStored'[i] # Nothing
        PROVE  K!Judged(kStored'[i]) /\ (cached'[i] # Nothing => cached'[i].key = kStored'[i].key)
    <3>1. CASE i # t.id
      BY <1>6, <1>7, <2>1, <2>2, <3>1 DEF KeysAreCurrent
    <3>2. CASE i = t.id
      BY <1>1, <1>5, <1>6, <1>7, <2>1, <2>2, <3>2 DEF KeysAreCurrent, K!Judged
    <3> QED BY <3>1, <3>2
  <2>3. ASSUME NEW v \in tasks', v.step \in {"built", "called"}, kStored'[v.id] # Nothing
        PROVE  v.built.key = kStored'[v.id].key
    <3>1. v \in tasks
      BY <1>3, <1>4, <2>3
    <3>2. v.id \in AccountIds
      BY <1>2, <2>3, <3>1 DEF AccountsTyped, TaskIsSound
    <3>3. CASE v.id # t.id
      BY <1>6, <2>1, <2>3, <3>1, <3>2, <3>3 DEF KeysAreCurrent
    <3>4. CASE v.id = t.id
      <4>1. v.built.key = kStored[t.id].key
        BY <1>1, <2>1, <2>3, <3>1, <3>4 DEF KeysAreCurrent
      <4>2. K!Checking(v)
        BY <2>3 DEF K!Checking
      <4> QED BY <1>5, <1>6, <2>3, <3>1, <3>4, <4>1, <4>2
    <3> QED BY <3>3, <3>4
  <2> QED BY <2>2, <2>3 DEF KeysAreCurrent, K!Judged
<1>10. OneTask'
  <2> SUFFICES ASSUME ~kBlurred PROVE OneTask'
    BY <1>1 DEF OneTask
  <2>1. OneTask
    BY DEF AccountsInv
  <2>2. \A v \in tasks \ {t} : v.of = "quota" /\ v.step = "quota" /\ v.list = Nothing
    BY <1>1, <1>2, <2>1 DEF OneTask, AccountsTyped, TaskIsSound
  <2>3. ~K!Apart' /\ u.list = Nothing
    BY <1>1, <1>3, <1>4 DEF K!Apart, TaskIsSound
  <2> QED BY <1>1, <1>3, <1>4, <2>2, <2>3 DEF OneTask, AloneIsSound
<1> QED BY <1>8, <1>9, <1>10 DEF AccountsInv

\* A new task is alone, or blurs.
LEMMA StartKeeps ==
  ASSUME AccountsInv, NEW u, K!Start(u), TaskIsSound(u), u.of # "quota", u.step \in {"check", "ask"},
         UNCHANGED <<kStored, cached, clock, kShown, drawer, crossed>>,
         kQuestion' # Nothing => kQuestion' \in AccountQuestions
  PROVE  AccountsInv'
<1>1. /\ tasks' = tasks \union {u} /\ count' = count + 1
      /\ kBlurred' = (kBlurred \/ ~K!Apart)
  BY DEF K!Start
<1>2. AccountsTyped'
  BY <1>1 DEF AccountsInv, AccountsTyped, TaskIsSound
<1>3. KeysAreCurrent'
  BY <1>1 DEF AccountsInv, KeysAreCurrent, K!Judged
<1>4. OneTask'
  <2> SUFFICES ASSUME ~kBlurred' PROVE OneTask'
    BY DEF OneTask
  <2>1. ~kBlurred /\ K!Apart
    BY <1>1
  <2>2. AccountsShown /\ \A t \in tasks : t.of = "quota" /\ AloneIsSound(t)
    BY <2>1 DEF AccountsInv, OneTask, K!Apart
  <2>3. AccountsShown' /\ ~K!Apart'
    BY <1>1, <2>2 DEF AccountsShown, K!Apart
  <2>4. u.list = Nothing
    BY DEF TaskIsSound
  <2>5. \A t \in tasks : AloneIsSound(t)'
    BY <2>2 DEF AloneIsSound
  <2>6. AloneIsSound(u)'
    BY <2>3, <2>4 DEF AloneIsSound
  <2> QED BY <1>1, <2>2, <2>3, <2>5, <2>6 DEF OneTask
<1> QED BY <1>2, <1>3, <1>4 DEF AccountsInv

\* What a new task is.
LEMMA TaskFacts ==
  ASSUME NEW f \in {"check", "sweep", "rotate", "enable", "remove"}, NEW s \in {"check", "ask"},
         NEW i \in AccountIds, count \in Nat
  PROVE  LET v == K!Task(f, s, i)
         IN v \in AccountTasks /\ v.of = f /\ v.step = s /\ v.id = i /\ v.list = Nothing
BY DEF K!Task, AccountTasks

LEMMA CheckFacts ==
  ASSUME NEW f \in {"check", "sweep"}, NEW i \in AccountIds, count \in Nat,
         NEW v, v = K!Task(f, "check", i) \/ v = [K!Task(f, "check", i) EXCEPT !.here = FALSE]
  PROVE  TaskIsSound(v) /\ v.of = f /\ v.step = "check"
<1> DEFINE w == K!Task(f, "check", i)
<1>1. w \in AccountTasks /\ w.of = f /\ w.step = "check" /\ w.id = i /\ w.list = Nothing
  BY TaskFacts
<1>2. v = w \/ v = [w EXCEPT !.here = FALSE]
  OBVIOUS
<1> HIDE DEF w
<1>3. v \in AccountTasks /\ v.of = f /\ v.step = "check" /\ v.id = i /\ v.list = Nothing
  <2>1. CASE v = w
    BY <1>1, <2>1
  <2>2. CASE v = [w EXCEPT !.here = FALSE]
    BY <1>1, <2>2, ZenonT(40) DEF AccountTasks
  <2> QED BY <1>2, <2>1, <2>2
<1> QED BY <1>3 DEF TaskIsSound

LEMMA BeginTaskKeeps ==
  ASSUME AccountsInv, K!recheck \/ K!Confirm \/ \E i \in AccountIds : K!Sweep(i)
  PROVE  AccountsInv'
<1>1. count \in Nat /\ drawer \in AccountIds \union {Nothing}
      /\ (kQuestion # Nothing => kQuestion \in AccountQuestions)
  BY DEF AccountsInv, AccountsTyped
<1>2. CASE K!recheck
  <2> DEFINE w == K!Task("check", "check", drawer)
  <2>1. /\ K!Start(w) /\ drawer \in AccountIds
        /\ UNCHANGED <<kStored, cached, clock, kShown, drawer, kQuestion, crossed>>
    BY <1>1, <1>2 DEF K!recheck, K!server, K!page
  <2>2. TaskIsSound(w) /\ w.of = "check" /\ w.step = "check"
    BY <1>1, <2>1, CheckFacts
  <2> HIDE DEF w
  <2> QED BY <1>1, <2>1, <2>2, StartKeeps
<1>3. CASE \E i \in AccountIds : K!Sweep(i)
  <2>1. PICK i \in AccountIds : K!Sweep(i)
    BY <1>3
  <2> DEFINE x == [K!Task("sweep", "check", i) EXCEPT !.here = FALSE]
  <2>2. K!Start(x) /\ UNCHANGED <<kStored, cached, clock, kShown, drawer, kQuestion, crossed>>
    BY <2>1 DEF K!Sweep, K!server, K!page
  <2>3. TaskIsSound(x) /\ x.of = "sweep" /\ x.step = "check"
    BY <1>1, CheckFacts
  <2> HIDE DEF x
  <2> QED BY <1>1, <2>2, <2>3, StartKeeps
<1>4. CASE K!Confirm
  <2>1. PICK k \in Keys : K!Start([K!Task(kQuestion.of, "ask", kQuestion.id) EXCEPT !.key = k,
                                                                             !.enable = kQuestion.enable])
    BY <1>4 DEF K!Confirm
  <2> DEFINE v == [K!Task(kQuestion.of, "ask", kQuestion.id) EXCEPT !.key = k, !.enable = kQuestion.enable]
  <2>2. /\ kQuestion' = Nothing /\ kQuestion # Nothing
        /\ UNCHANGED <<kStored, cached, clock, kShown, drawer, crossed>>
    BY <1>4 DEF K!Confirm, K!server
  <2> HIDE DEF v
  <2>3. kQuestion.of \in {"rotate", "enable", "remove"} /\ kQuestion.id \in AccountIds /\ kQuestion.enable \in BOOLEAN
    BY <1>1, <2>2 DEF AccountQuestions
  <2>4. TaskIsSound(v) /\ v.of = kQuestion.of /\ v.step = "ask"
    <3> DEFINE w == K!Task(kQuestion.of, "ask", kQuestion.id)
    <3>1. w \in AccountTasks /\ w.of = kQuestion.of /\ w.step = "ask" /\ w.id = kQuestion.id /\ w.list = Nothing
      BY <1>1, <2>3, TaskFacts
    <3>2. v = [w EXCEPT !.key = k, !.enable = kQuestion.enable]
      BY DEF v
    <3> HIDE DEF w
    <3>3. /\ v \in AccountTasks /\ v.of = kQuestion.of /\ v.step = "ask" /\ v.key = k /\ v.id = kQuestion.id
          /\ v.list = Nothing
      BY <2>3, <3>1, <3>2, ZenonT(40) DEF AccountTasks
    <3> QED BY <2>3, <3>3 DEF TaskIsSound
  <2>5. K!Start(v)
    BY <2>1 DEF v
  <2> QED BY <2>2, <2>3, <2>4, <2>5, StartKeeps
<1> QED BY <1>2, <1>3, <1>4

\* The same tasks, for another drawer.
LEMMA AccountDrawerKeeps == ASSUME AccountsInv, NEW i \in AccountIds, K!openDrawer(i) PROVE AccountsInv'
<1>1. /\ drawer' = i /\ tasks' = {[t EXCEPT !.here = FALSE] : t \in tasks}
      /\ UNCHANGED <<kStored, cached, clock, kShown, count, kQuestion, crossed, kBlurred>>
  BY DEF K!openDrawer, K!server
<1>2. ASSUME NEW v \in tasks'
      PROVE  \E t \in tasks : /\ v = [t EXCEPT !.here = FALSE]
                            /\ v \in AccountTasks /\ v.of = t.of /\ v.step = t.step /\ v.id = t.id /\ v.key = t.key
                            /\ v.list = t.list /\ v.before = t.before /\ v.built = t.built
  <2>1. PICK t \in tasks : v = [t EXCEPT !.here = FALSE]
    BY <1>1
  <2>2. t \in AccountTasks
    BY DEF AccountsInv, AccountsTyped, TaskIsSound
  <2>3. /\ v \in AccountTasks /\ v.of = t.of /\ v.step = t.step /\ v.id = t.id /\ v.key = t.key
        /\ v.list = t.list /\ v.before = t.before /\ v.built = t.built
    BY <2>1, <2>2 DEF AccountTasks
  <2> QED BY <2>1, <2>3
<1>3. AccountsTyped'
  <2>1. \A v \in tasks' : TaskIsSound(v)'
    BY <1>2 DEF AccountsInv, AccountsTyped, TaskIsSound
  <2> QED BY <1>1, <2>1 DEF AccountsInv, AccountsTyped
<1>4. KeysAreCurrent'
  <2> SUFFICES ASSUME ~crossed' PROVE KeysAreCurrent'
    BY DEF KeysAreCurrent
  <2>1. KeysAreCurrent /\ ~crossed
    BY <1>1 DEF AccountsInv
  <2>2. \A v \in tasks' : v.step \in {"built", "called"} /\ kStored[v.id] # Nothing => v.built.key = kStored[v.id].key
    BY <1>2, <2>1 DEF KeysAreCurrent
  <2> QED BY <1>1, <2>1, <2>2 DEF KeysAreCurrent, K!Judged
<1>5. OneTask'
  <2> SUFFICES ASSUME ~kBlurred PROVE OneTask'
    BY <1>1 DEF OneTask
  <2>1. OneTask /\ (AccountsShown' <=> AccountsShown)
    BY <1>1 DEF AccountsInv, AccountsShown
  <2>2. ASSUME NEW v \in tasks'
        PROVE  /\ v.list # Nothing => v.list = kStored
               /\ v.of = "sweep" /\ v.step \in {"check", "built", "called"} => AccountsShown
               /\ v.of = "sweep" /\ v.step \in {"built", "called"} /\ kStored[v.id] # Nothing =>
                    v.before = kStored[v.id].status
    <3>1. PICK t \in tasks : /\ v.of = t.of /\ v.step = t.step /\ v.id = t.id
                             /\ v.list = t.list /\ v.before = t.before
      BY <1>2
    <3>2. AloneIsSound(t)
      BY <2>1 DEF OneTask
    <3> QED BY <3>1, <3>2 DEF AloneIsSound
  <2>3. \A v, u \in tasks' : v.of # "quota" /\ u.of # "quota" => v = u
    <3> SUFFICES ASSUME NEW v \in tasks', NEW u \in tasks', v.of # "quota", u.of # "quota" PROVE v = u
      OBVIOUS
    <3>1. PICK t \in tasks : v = [t EXCEPT !.here = FALSE] /\ v.of = t.of
      BY <1>2
    <3>2. PICK r \in tasks : u = [r EXCEPT !.here = FALSE] /\ u.of = r.of
      BY <1>2
    <3>3. t = r
      BY <2>1, <3>1, <3>2 DEF OneTask
    <3> QED BY <3>1, <3>2, <3>3
  <2>4. K!Apart' => K!Apart
    <3> SUFFICES ASSUME K!Apart', NEW t \in tasks PROVE t.of = "quota"
      BY DEF K!Apart
    <3>1. [t EXCEPT !.here = FALSE] \in tasks' /\ t \in AccountTasks
      BY <1>1 DEF AccountsInv, AccountsTyped, TaskIsSound
    <3>2. [t EXCEPT !.here = FALSE].of = t.of
      BY <3>1 DEF AccountTasks
    <3> QED BY <3>1, <3>2 DEF K!Apart
  <2> QED BY <1>1, <2>1, <2>2, <2>3, <2>4 DEF OneTask, AloneIsSound
<1> QED BY <1>3, <1>4, <1>5 DEF AccountsInv

\* The list that comes is as it was read, and it is shown.
LEMMA ListedKeeps == ASSUME AccountsInv, NEW t \in tasks, K!Listed(t) PROVE AccountsInv'
<1> DEFINE u == [t EXCEPT !.of = "quota", !.step = "quota", !.list = Nothing, !.here = FALSE]
<1>1. /\ TaskIsSound(t) /\ t.step = "list" /\ t.of # "quota" /\ t.list # Nothing /\ K!Move(t, u)
      /\ kShown' = [i \in AccountIds |-> IF t.list[i] = Nothing THEN Nothing ELSE K!toAccount(t.list[i])]
      /\ drawer' \in {Nothing, drawer}
      /\ UNCHANGED <<kStored, cached, clock, count, kQuestion, crossed, kBlurred>>
  BY DEF AccountsInv, AccountsTyped, TaskIsSound, K!Listed, K!server
<1>2. /\ u \in AccountTasks /\ u.of = "quota" /\ u.step = "quota" /\ u.list = Nothing
  BY <1>1 DEF TaskIsSound, AccountTasks
<1> HIDE DEF u
<1>3. TaskIsSound(u) /\ tasks' = (tasks \ {t}) \union {u}
  BY <1>1, <1>2 DEF TaskIsSound, K!Move
<1>4. AccountsTyped'
  BY <1>1, <1>3 DEF AccountsInv, AccountsTyped, TaskIsSound
<1>5. KeysAreCurrent'
  BY <1>1, <1>2, <1>3 DEF AccountsInv, KeysAreCurrent, K!Judged
<1>6. OneTask'
  <2> SUFFICES ASSUME ~kBlurred PROVE OneTask'
    BY <1>1 DEF OneTask
  <2>1. t.list = kStored /\ \A v \in tasks \ {t} : v.of = "quota" /\ v.step = "quota" /\ v.list = Nothing
    BY <1>1 DEF AccountsInv, AccountsTyped, TaskIsSound, OneTask, AloneIsSound
  <2>2. \A a : K!toAccount(a) \in Showing(a)
    <3> SUFFICES ASSUME NEW a PROVE K!toAccount(a) \in Showing(a)
      OBVIOUS
    <3> DEFINE accs == [status : {K!accountStatus(a)}, fingerprint : {a.key}, tier : {"known", "unknown"}, quota : BOOLEAN]
    <3>1. K!toAccount(a) \in accs /\ K!toAccount(a).quota = FALSE
      BY DEF K!toAccount
    <3>2. [K!toAccount(a) EXCEPT !.quota = FALSE] = K!toAccount(a)
      BY <3>1
    <3> QED BY <3>2 DEF Showing
  <2>3. AccountsShown'
    BY <1>1, <2>1, <2>2 DEF AccountsShown
  <2> QED BY <1>1, <1>2, <1>3, <2>1, <2>3 DEF OneTask, AloneIsSound
<1> QED BY <1>4, <1>5, <1>6 DEF AccountsInv

\* A task that ends: the quota is put on the cards, anything else is lost.
LEMMA EndKeeps ==
  ASSUME AccountsInv, NEW t \in tasks, K!QuotaComes(t) \/ K!Fail(t)
  PROVE  AccountsInv'
<1>1. /\ tasks' = tasks \ {t}
      /\ UNCHANGED <<kStored, cached, clock, count, drawer, kQuestion, crossed>>
  BY DEF K!QuotaComes, K!Fail, K!Lost, K!server, K!page
<1>2. AccountsTyped'
  BY <1>1 DEF AccountsInv, AccountsTyped, TaskIsSound
<1>3. KeysAreCurrent'
  BY <1>1 DEF AccountsInv, KeysAreCurrent, K!Judged
<1>4. OneTask'
  <2> SUFFICES ASSUME ~kBlurred' PROVE OneTask'
    BY DEF OneTask
  <2>1. ~kBlurred /\ t.of = "quota"
    <3>1. CASE K!QuotaComes(t)
      BY <3>1 DEF K!QuotaComes
    <3>2. CASE K!Fail(t)
      <4>1. kBlurred' = (kBlurred \/ t.of # "quota")
        BY <3>2 DEF K!Fail, K!Lost
      <4> QED BY <4>1
    <3> QED BY <3>1, <3>2
  <2>2. OneTask
    BY DEF AccountsInv
  <2>3. AccountsShown => AccountsShown'
    <3>1. CASE K!Fail(t)
      BY <1>1, <3>1 DEF AccountsShown, K!Fail, K!page
    <3>2. CASE K!QuotaComes(t)
      <4> SUFFICES ASSUME AccountsShown PROVE AccountsShown'
        OBVIOUS
      <4>1. kShown' = [i \in AccountIds |-> IF kShown[i] # Nothing /\ kStored[i] # Nothing
                                             THEN [kShown[i] EXCEPT !.quota = TRUE] ELSE kShown[i]]
        BY <3>2 DEF K!QuotaComes
      <4>2. CASE kShown = [i \in AccountIds |-> Nothing]
        <5>1. kShown' = [i \in AccountIds |-> Nothing]
          BY <4>1, <4>2
        <5> QED BY <5>1 DEF AccountsShown
      <4>3. ASSUME NEW i \in AccountIds, kStored[i] # Nothing, kShown[i] \in Showing(kStored[i])
            PROVE  [kShown[i] EXCEPT !.quota = TRUE] \in Showing(kStored[i])
        <5>1. PICK q \in BOOLEAN : kShown[i] = [K!toAccount(kStored[i]) EXCEPT !.quota = q]
          BY <4>3 DEF Showing
        <5>2. [kShown[i] EXCEPT !.quota = TRUE] = [K!toAccount(kStored[i]) EXCEPT !.quota = TRUE]
          BY <5>1 DEF K!toAccount
        <5> QED BY <5>2 DEF Showing
      <4>4. CASE \A i \in AccountIds : IF kStored[i] = Nothing THEN kShown[i] = Nothing
                                       ELSE kShown[i] \in Showing(kStored[i])
        BY <1>1, <4>1, <4>3, <4>4 DEF AccountsShown
      <4> QED BY <4>2, <4>4 DEF AccountsShown
    <3> QED BY <3>1, <3>2
  <2>4. K!Apart' => K!Apart
    BY <1>1, <2>1 DEF K!Apart
  <2> QED BY <1>1, <2>1, <2>2, <2>3, <2>4 DEF OneTask, AloneIsSound
<1> QED BY <1>2, <1>3, <1>4 DEF AccountsInv

\* Steps of the page that ask nobody, and the clock.
LEMMA AccountPageKeeps ==
  ASSUME AccountLimits, AccountsInv,
         \/ \E i \in AccountIds : K!toggleAccountFilter(i)
         \/ \E of \in {"rotate", "enable", "remove"} : K!Ask(of)
         \/ K!Dismiss \/ K!Tick
  PROVE  AccountsInv'
<1>1. UNCHANGED <<kStored, cached, kShown, drawer, tasks, count, crossed, kBlurred>>
  BY DEF K!toggleAccountFilter, K!Ask, K!Dismiss, K!Tick, K!server, K!page
<1>2. clock' \in 0 .. MaxClock
  BY DEF AccountLimits, AccountsInv, AccountsTyped, K!toggleAccountFilter, K!Ask, K!Dismiss, K!Tick, K!server
<1>3. kQuestion' # Nothing => kQuestion' \in AccountQuestions
  <2>1. CASE \E of \in {"rotate", "enable", "remove"} : K!Ask(of)
    <3>1. PICK of \in {"rotate", "enable", "remove"} :
            kQuestion' = [of |-> of, id |-> drawer, enable |-> kShown[drawer].status = "disabled"]
      BY <2>1 DEF K!Ask
    <3>2. drawer \in AccountIds
      BY <2>1 DEF AccountsInv, AccountsTyped, K!Ask
    <3>3. (kShown[drawer].status = "disabled") \in BOOLEAN
      OBVIOUS
    <3> QED BY <3>1, <3>2, <3>3 DEF AccountQuestions
  <2>2. CASE (\E i \in AccountIds : K!toggleAccountFilter(i)) \/ K!Dismiss \/ K!Tick
    BY <2>2 DEF AccountsInv, AccountsTyped, K!toggleAccountFilter, K!Dismiss, K!Tick, K!page
  <2> QED BY <2>1, <2>2
<1>4. AccountsTyped'
  BY <1>1, <1>2, <1>3 DEF AccountsInv, AccountsTyped, TaskIsSound
<1>5. KeysAreCurrent'
  BY <1>1 DEF AccountsInv, KeysAreCurrent, K!Judged
<1>6. OneTask'
  BY <1>1 DEF AccountsInv, OneTask, AccountsShown, AloneIsSound, K!Apart
<1> QED BY <1>4, <1>5, <1>6 DEF AccountsInv

LEMMA AccountsStart == ASSUME AccountLimits PROVE K!Init => AccountsInv
<1> SUFFICES ASSUME K!Init PROVE AccountsInv
  OBVIOUS
<1> DEFINE t == [n |-> 0, of |-> "open", step |-> "list", id |-> Nothing, key |-> Nothing,
                 enable |-> FALSE, before |-> Nothing, built |-> Nothing, ok |-> FALSE,
                 list |-> Nothing, here |-> FALSE]
<1>1. tasks = {t} /\ TaskIsSound(t) /\ t.of = "open" /\ t.step = "list" /\ t.list = Nothing
  BY DEF K!Init, TaskIsSound, AccountTasks
<1> HIDE DEF t
<1>2. /\ kStored \in StoredAccounts
      /\ \A i \in AccountIds : kStored[i] # Nothing => kStored[i].status = "unchecked"
  <2>1. \A b \in [key : Keys, enabled : {TRUE}, status : {"unchecked"}, known : {FALSE}, at : {0}] :
          b \in K!Account /\ b.status = "unchecked"
    <3> SUFFICES ASSUME NEW b \in [key : Keys, enabled : {TRUE}, status : {"unchecked"}, known : {FALSE}, at : {0}]
                 PROVE  b \in K!Account /\ b.status = "unchecked"
      OBVIOUS
    <3>1. TRUE \in BOOLEAN /\ FALSE \in BOOLEAN /\ 0 \in 0 .. MaxClock /\ "unchecked" \in K!Statuses
      BY DEF AccountLimits, K!Statuses
    <3>2. b.key \in Keys /\ b.enabled = TRUE /\ b.status = "unchecked" /\ b.known = FALSE /\ b.at = 0
      OBVIOUS
    <3>3. b = [key |-> b.key, enabled |-> TRUE, status |-> "unchecked", known |-> FALSE, at |-> 0]
      BY <3>2
    <3>4. [key |-> b.key, enabled |-> TRUE, status |-> "unchecked", known |-> FALSE, at |-> 0] \in K!Account
      BY <3>1, <3>2 DEF K!Account
    <3> QED BY <3>2, <3>3, <3>4
  <2>2. \A i \in AccountIds : kStored[i] \in K!Account /\ kStored[i].status = "unchecked"
    BY <2>1 DEF K!Init
  <2>3. kStored = [i \in AccountIds |-> kStored[i]]
    BY DEF K!Init
  <2> QED BY <2>2, <2>3 DEF StoredAccounts
<1>3. AccountsTyped
  BY <1>1, <1>2 DEF K!Init, AccountLimits, AccountsTyped
<1>4. KeysAreCurrent
  BY <1>1, <1>2 DEF K!Init, KeysAreCurrent, K!Judged
<1>5. OneTask
  BY <1>1 DEF K!Init, OneTask, AccountsShown, AloneIsSound, K!Apart
<1> QED BY <1>3, <1>4, <1>5 DEF AccountsInv

LEMMA AccountsStep == ASSUME AccountLimits PROVE AccountsInv /\ [K!Next]_(K!vars) => AccountsInv'
<1> SUFFICES ASSUME AccountsInv, [K!Next]_(K!vars) PROVE AccountsInv'
  OBVIOUS
<1>1. CASE UNCHANGED K!vars
  <2>1. UNCHANGED <<kStored, cached, clock, kShown, drawer, kQuestion, tasks, count, crossed, kBlurred>>
    BY <1>1 DEF K!vars, K!server, K!page
  <2>2. AccountsTyped'
    BY <2>1 DEF AccountsInv, AccountsTyped, TaskIsSound
  <2>3. KeysAreCurrent'
    BY <2>1 DEF AccountsInv, KeysAreCurrent, K!Judged
  <2>4. OneTask'
    BY <2>1 DEF AccountsInv, OneTask, AccountsShown, AloneIsSound, K!Apart
  <2> QED BY <2>2, <2>3, <2>4 DEF AccountsInv
<1>2. CASE K!Next
  BY <1>2, WalkKeeps, VerdictKeeps, AccountServeKeeps, BeginTaskKeeps, AccountDrawerKeeps, ListedKeeps, EndKeeps, AccountPageKeeps
     DEF K!Next
<1> QED BY <1>1, <1>2

LEMMA AccountsShow == AccountsInv => K!StatusAgrees
<1> SUFFICES ASSUME AccountsInv PROVE K!StatusAgrees
  OBVIOUS
<1>1. ~crossed => \A i \in K!Present(kStored) : K!Judged(kStored[i])
  BY DEF AccountsInv, KeysAreCurrent, K!Present
<1>2. ~kBlurred /\ K!Apart /\ kShown # [i \in AccountIds |-> Nothing] =>
        \A i \in AccountIds : IF kStored[i] = Nothing THEN kShown[i] = Nothing ELSE kShown[i] \in Showing(kStored[i])
  BY DEF AccountsInv, OneTask, AccountsShown
<1> QED BY <1>1, <1>2 DEF K!StatusAgrees, Showing

\* The status of an account is the verdict on the key it has, unless its key was
\* changed while it was checked, and with one task at a time the page shows it
\* (StatusAgrees): the cache of clients never lets an old key answer for the new.
THEOREM StatusIsTheVerdict == ASSUME AccountLimits PROVE K!Spec => []K!StatusAgrees
BY AccountsStart, AccountsStep, AccountsShow, PTL DEF K!Spec

-----------------------------------------------------------------------------
(* The table of the instances: one order of its rows, and notes and names  *)
(* shown as they are stored.                                               *)

TableLimits == FromServer \subseteq [TableIds -> T!Row] /\ TableNames \subseteq Int /\ Notes \subseteq Int

\* A field with what it may hold, stored or typed.
Held(field) == IF field = "note" THEN Notes \union {0} ELSE TableNames
Typed == [field : {"note", "name"}, id : TableIds, draft : Notes \union TableNames \union {0}]
TableLists == [TableIds -> T!Row]
TableSaves == [n : Nat, id : TableIds, field : {"note", "name"}, value : Notes \union TableNames \union {0},
               before : Notes \union TableNames \union {0}, turn : Nat, done : BOOLEAN]

\* As long as nothing overlaps: what is shown is what is stored, but for the one
\* edit that is on its way, and what it may take back is what is stored.
OneEditAtATime ==
  ~tOverlapped =>
    /\ tSaves = {} => tShown = tStored
    /\ tSaves # {} => tLoads = {}
    /\ \A l \in tLoads : l.list = tStored
    /\ \A s \in tSaves :
         /\ \A r \in tSaves : r = s
         /\ s.turn = tTurn
         /\ s.done => tShown = tStored
         /\ ~s.done => /\ tShown = T!Put(tStored, s.id, s.field, s.value)
                       /\ s.before = T!Field(tStored[s.id], s.field)

TableInv ==
  /\ tStored \in TableLists /\ tShown \in TableLists /\ sort \in T!Sorts /\ savedSort \in T!Sorts
  /\ tEdits \in Nat /\ sent \in Nat /\ tTurn \in Nat /\ tOverlapped \in BOOLEAN
  /\ sent <= tEdits /\ (tEditing # Nothing => sent < tEdits)
  /\ tEditing # Nothing => tEditing \in Typed /\ tEditing.draft \in Held(tEditing.field) \union {0}
  /\ \A s \in tSaves : s \in TableSaves /\ s.value \in Held(s.field) /\ s.before \in Held(s.field)
  /\ \A l \in tLoads : l.list \in TableLists
  /\ OneEditAtATime

\* An edit put into a list, and taken back.
LEMMA PutFacts ==
  ASSUME NEW x \in TableLists, NEW i \in TableIds, NEW f \in {"note", "name"}, NEW v \in Held(f)
  PROVE  /\ T!Put(x, i, f, v) \in TableLists
         /\ T!Field(x[i], f) \in Held(f)
         /\ T!Put(T!Put(x, i, f, v), i, f, T!Field(x[i], f)) = x
<1>1. CASE f = "note"
  <2>1. v \in Notes \union {0} /\ T!Put(x, i, f, v) = [x EXCEPT ![i].note = v]
        /\ T!Field(x[i], f) = x[i].note
    BY <1>1 DEF Held, T!Put, T!Field
  <2>2. x[i] \in T!Row /\ [x[i] EXCEPT !.note = v] \in T!Row /\ x[i].note \in Notes \union {0}
    BY <2>1 DEF TableLists, T!Row
  <2>3. [[x[i] EXCEPT !.note = v] EXCEPT !.note = x[i].note] = x[i]
    BY <2>2 DEF T!Row
  <2>4. T!Put(T!Put(x, i, f, v), i, f, x[i].note) = [x EXCEPT ![i] = [[x[i] EXCEPT !.note = v] EXCEPT !.note = x[i].note]]
    BY <1>1, <2>1 DEF TableLists, T!Put
  <2>5. /\ [x EXCEPT ![i].note = v] = [x EXCEPT ![i] = [x[i] EXCEPT !.note = v]]
        /\ \A r \in T!Row : [x EXCEPT ![i] = r] \in TableLists
        /\ [x EXCEPT ![i] = x[i]] = x
    BY DEF TableLists
  <2>6. T!Put(x, i, f, v) \in TableLists
    BY <2>1, <2>2, <2>5
  <2>7. T!Put(T!Put(x, i, f, v), i, f, x[i].note) = x
    BY <2>3, <2>4, <2>5
  <2> QED BY <1>1, <2>1, <2>2, <2>6, <2>7 DEF Held
<1>2. CASE f = "name"
  <2>1. v \in TableNames /\ T!Put(x, i, f, v) = [x EXCEPT ![i].name = v]
        /\ T!Field(x[i], f) = x[i].name
    BY <1>2 DEF Held, T!Put, T!Field
  <2>2. x[i] \in T!Row /\ [x[i] EXCEPT !.name = v] \in T!Row /\ x[i].name \in TableNames
    BY <2>1 DEF TableLists, T!Row
  <2>3. [[x[i] EXCEPT !.name = v] EXCEPT !.name = x[i].name] = x[i]
    BY <2>2 DEF T!Row
  <2>4. T!Put(T!Put(x, i, f, v), i, f, x[i].name) = [x EXCEPT ![i] = [[x[i] EXCEPT !.name = v] EXCEPT !.name = x[i].name]]
    BY <1>2, <2>1 DEF TableLists, T!Put
  <2>5. /\ [x EXCEPT ![i].name = v] = [x EXCEPT ![i] = [x[i] EXCEPT !.name = v]]
        /\ \A r \in T!Row : [x EXCEPT ![i] = r] \in TableLists
        /\ [x EXCEPT ![i] = x[i]] = x
    BY DEF TableLists
  <2>6. T!Put(x, i, f, v) \in TableLists
    BY <2>1, <2>2, <2>5
  <2>7. T!Put(T!Put(x, i, f, v), i, f, x[i].name) = x
    BY <2>3, <2>4, <2>5
  <2> QED BY <1>2, <2>1, <2>2, <2>6, <2>7 DEF Held
<1> QED BY <1>1, <1>2

LEMMA FieldFacts ==
  ASSUME NEW x \in TableLists, NEW i \in TableIds, NEW f \in {"note", "name"}
  PROVE  T!Field(x[i], f) \in Held(f)
<1>1. x[i] \in T!Row
  BY DEF TableLists
<1> QED BY <1>1 DEF T!Row, T!Field, Held

LEMMA TableEditKeeps ==
  ASSUME TableInv, NEW f \in {"note", "name"}, NEW i \in TableIds, NEW v \in Held(f) \union {0}, T!Edit(f, i, v)
  PROVE  TableInv'
<1>1. /\ UNCHANGED <<tStored, tShown, tTurn, tSaves, tLoads, sort, savedSort, sent, tOverlapped>>
      /\ tEditing' = [field |-> f, id |-> i, draft |-> v] /\ tEdits' = tEdits + 1
  BY DEF T!Edit, T!requests, T!choices
<1>2. OneEditAtATime'
  BY <1>1 DEF TableInv, OneEditAtATime
<1>3. sent' <= tEdits' /\ sent' < tEdits' /\ tEdits' \in Nat
  BY <1>1 DEF TableInv
<1>4. tEditing' \in Typed /\ tEditing'.draft \in Held(tEditing'.field) \union {0}
  BY <1>1 DEF Typed, Held
<1> QED BY <1>1, <1>2, <1>3, <1>4 DEF TableInv, Held, T!Row, TableLists

LEMMA SaveKeeps ==
  ASSUME TableInv, T!Save
  PROVE  TableInv'
<1> DEFINE e == tEditing
           b == T!Field(tShown[e.id], e.field)
           s == [n |-> sent, id |-> e.id, field |-> e.field, value |-> e.draft, before |-> b,
                 turn |-> tTurn, done |-> FALSE]
<1>1. /\ e # Nothing /\ tEditing' = Nothing
      /\ UNCHANGED <<tStored, tTurn, sort, savedSort, tEdits>>
  BY DEF T!Save, T!choices
<1>2. e \in Typed /\ e.draft \in Held(e.field) \union {0} /\ sent < tEdits
  BY <1>1 DEF TableInv
<1>3. b \in Held(e.field) /\ Held(e.field) \subseteq Notes \union TableNames \union {0}
  <2>1. e.id \in TableIds /\ e.field \in {"note", "name"} /\ tShown \in TableLists
    BY <1>2 DEF TableInv, Typed
  <2> QED BY <2>1, FieldFacts DEF Held
<1>4. CASE UNCHANGED <<tShown, T!requests>>
  <2>1. UNCHANGED <<tShown, tSaves, tLoads, sent, tOverlapped>>
    BY <1>4 DEF T!requests
  <2>2. OneEditAtATime'
    BY <1>1, <2>1 DEF TableInv, OneEditAtATime
  <2> QED BY <1>1, <2>1, <2>2 DEF TableInv, Held, T!Row, TableLists
<1>5. CASE /\ ~(e.draft = b \/ (e.field = "name" /\ e.draft = 0))
           /\ tShown' = T!Put(tShown, e.id, e.field, e.draft)
           /\ tSaves' = tSaves \union {s} /\ sent' = sent + 1
           /\ tOverlapped' = (tOverlapped \/ tSaves # {} \/ tLoads # {})
           /\ UNCHANGED tLoads
  <2>1. e.draft \in Held(e.field)
    BY <1>2, <1>5 DEF Held, Typed
  <2>2. tShown' \in TableLists
    BY <1>2, <1>5, <2>1, PutFacts DEF TableInv, Typed
  <2>3. s \in TableSaves /\ s.value \in Held(s.field) /\ s.before \in Held(s.field)
    BY <1>2, <1>3, <2>1 DEF TableInv, Typed, TableSaves
  <2>4. OneEditAtATime'
    <3> SUFFICES ASSUME ~tOverlapped' PROVE OneEditAtATime'
      BY DEF OneEditAtATime
    <3>1. ~tOverlapped /\ tSaves = {} /\ tLoads = {} /\ tShown = tStored
      BY <1>5 DEF TableInv, OneEditAtATime
    <3>2. tSaves' = {s} /\ tLoads' = {}
      BY <1>5, <3>1
    <3>3. s.turn = tTurn' /\ ~s.done /\ tShown' = T!Put(tStored', s.id, s.field, s.value)
          /\ s.before = T!Field(tStored'[s.id], s.field)
      BY <1>1, <1>5, <3>1
    <3> HIDE DEF s
    <3> QED BY <3>2, <3>3 DEF OneEditAtATime
  <2>5. sent' \in Nat /\ sent' <= tEdits'
    BY <1>1, <1>2, <1>5 DEF TableInv
  <2>6. \A r \in tSaves' : r \in TableSaves /\ r.value \in Held(r.field) /\ r.before \in Held(r.field)
    BY <1>5, <2>3 DEF TableInv
  <2>7. tOverlapped' \in BOOLEAN
    BY <1>5 DEF TableInv
  <2> QED BY <1>1, <1>5, <2>2, <2>4, <2>5, <2>6, <2>7 DEF TableInv, Held, T!Row, TableLists
<1> QED BY <1>4, <1>5 DEF T!Save

LEMMA ServeSaveKeeps ==
  ASSUME TableInv, NEW s \in tSaves, T!ServeSave(s)
  PROVE  TableInv'
<1> DEFINE r == [s EXCEPT !.done = TRUE]
<1>1. /\ ~s.done /\ tStored' = T!Put(tStored, s.id, s.field, s.value)
      /\ tSaves' = (tSaves \ {s}) \union {r}
      /\ UNCHANGED <<tShown, tTurn, tEditing, tLoads, sent, tOverlapped, sort, savedSort, tEdits>>
  BY DEF T!ServeSave, T!choices
<1>2. s \in TableSaves /\ s.value \in Held(s.field) /\ s.before \in Held(s.field)
  BY DEF TableInv
<1>3. r \in TableSaves /\ r.value = s.value /\ r.field = s.field /\ r.before = s.before
      /\ r.turn = s.turn /\ r.done
  BY <1>2 DEF TableSaves
<1>4. tStored' \in TableLists
  BY <1>1, <1>2, PutFacts DEF TableInv, TableSaves
<1>5. OneEditAtATime'
  <2> SUFFICES ASSUME ~tOverlapped PROVE OneEditAtATime'
    BY <1>1 DEF OneEditAtATime
  <2>1. tSaves = {s} /\ tLoads = {} /\ s.turn = tTurn /\ tShown = tStored'
    BY <1>1 DEF TableInv, OneEditAtATime
  <2>2. tSaves' = {r} /\ tLoads' = {} /\ r.turn = tTurn' /\ tShown' = tStored'
    BY <1>1, <1>3, <2>1
  <2> HIDE DEF r
  <2> QED BY <1>3, <2>2 DEF OneEditAtATime
<1>6. \A q \in tSaves' : q \in TableSaves /\ q.value \in Held(q.field) /\ q.before \in Held(q.field)
  BY <1>1, <1>2, <1>3 DEF TableInv
<1> QED BY <1>1, <1>4, <1>5, <1>6 DEF TableInv, Held, T!Row, TableLists

LEMMA SaveEndsKeeps ==
  ASSUME TableInv, NEW s \in tSaves, T!Saved(s) \/ T!SaveFails(s)
  PROVE  TableInv'
<1>1. /\ tSaves' = tSaves \ {s} /\ tShown' \in {tShown, T!Put(tShown, s.id, s.field, s.before)}
      /\ UNCHANGED <<tStored, tTurn, tEditing, tLoads, sent, sort, savedSort, tEdits>>
      /\ tOverlapped' \in BOOLEAN /\ (tOverlapped => tOverlapped')
  BY DEF T!Saved, T!SaveFails, T!choices, TableInv
<1>2. s \in TableSaves /\ s.value \in Held(s.field) /\ s.before \in Held(s.field)
  BY DEF TableInv
<1>3. tShown' \in TableLists
  BY <1>1, <1>2, PutFacts DEF TableInv, TableSaves
<1>4. OneEditAtATime'
  <2> SUFFICES ASSUME ~tOverlapped' PROVE OneEditAtATime'
    BY DEF OneEditAtATime
  <2>1. tSaves = {s} /\ tLoads = {} /\ s.turn = tTurn /\ ~tOverlapped
    BY <1>1 DEF TableInv, OneEditAtATime
  <2>2. CASE T!Saved(s)
    <3>1. s.done /\ tShown' = tShown
      BY <2>2 DEF T!Saved
    <3> QED BY <1>1, <2>1, <3>1 DEF TableInv, OneEditAtATime
  <2>3. CASE T!SaveFails(s)
    <3>1. ~s.done /\ tShown' = T!Put(tShown, s.id, s.field, s.before)
      BY <2>1, <2>3 DEF T!SaveFails
    <3>2. tShown = T!Put(tStored, s.id, s.field, s.value) /\ s.before = T!Field(tStored[s.id], s.field)
      BY <2>1, <3>1 DEF TableInv, OneEditAtATime
    <3>3. tShown' = tStored
      BY <1>2, <3>1, <3>2, PutFacts DEF TableInv, TableSaves
    <3> QED BY <1>1, <2>1, <3>3 DEF OneEditAtATime
  <2> QED BY <2>2, <2>3
<1>5. \A q \in tSaves' : q \in TableSaves /\ q.value \in Held(q.field) /\ q.before \in Held(q.field)
  BY <1>1 DEF TableInv
<1> QED BY <1>1, <1>3, <1>4, <1>5 DEF TableInv, Held, T!Row, TableLists

LEMMA TableLoadKeeps ==
  ASSUME TableInv, T!Load \/ \E l \in tLoads : T!Loaded(l)
  PROVE  TableInv'
<1>1. CASE T!Load
  <2>1. /\ tLoads' = tLoads \union {[n |-> loaded, list |-> tStored]}
        /\ tOverlapped' = (tOverlapped \/ tSaves # {})
        /\ UNCHANGED <<tStored, tShown, tTurn, tEditing, tSaves, sent, sort, savedSort, tEdits>>
    BY <1>1 DEF T!Load, T!choices
  <2>2. \A l \in tLoads' : l \in tLoads \/ l.list = tStored
    BY <2>1
  <2>3. OneEditAtATime'
    BY <2>1, <2>2 DEF TableInv, OneEditAtATime
  <2> QED BY <2>1, <2>2, <2>3 DEF TableInv, Held, T!Row, TableLists
<1>2. ASSUME NEW l \in tLoads, T!Loaded(l) PROVE TableInv'
  <2>1. /\ tShown' = l.list /\ tTurn' = tTurn + 1 /\ tLoads' = tLoads \ {l}
        /\ UNCHANGED <<tStored, tEditing, tSaves, sent, tOverlapped, sort, savedSort, tEdits>>
    BY <1>2 DEF T!Loaded, T!choices
  <2>2. OneEditAtATime'
    BY <2>1 DEF TableInv, OneEditAtATime
  <2> QED BY <2>1, <2>2 DEF TableInv, Held, T!Row, TableLists
<1> QED BY <1>1, <1>2

LEMMA TableRestKeeps ==
  ASSUME TableInv,
         \/ T!Escape \/ T!Enter \/ T!Group \/ T!bulk \/ UNCHANGED T!vars
         \/ \E i \in TableIds : T!toggleSelection(i)
         \/ \E key \in T!SortKeys : T!toggleSort(key)
         \/ \E f \in T!Filters : T!SetFilter(f)
         \/ \E a \in T!Accounts : T!toggleGroup(a) \/ T!toggleAccountFilter(a)
         \/ \E b \in bulks, ok \in BOOLEAN : T!BulkEnds(b, ok)
  PROVE  TableInv'
<1>1. /\ UNCHANGED <<tStored, tShown, tTurn, tSaves, tLoads, sent, tOverlapped, tEdits>>
      /\ tEditing' \in {tEditing, Nothing}
  BY DEF T!Escape, T!Enter, T!Group, T!bulk, T!vars, T!toggleSelection, T!toggleSort, T!SetFilter,
         T!toggleGroup, T!toggleAccountFilter, T!BulkEnds, T!Choose, T!requests, T!choices
<1>2. sort' \in T!Sorts /\ savedSort' \in T!Sorts
  <2>1. CASE \E key \in T!SortKeys : T!toggleSort(key)
    <3> PICK key \in T!SortKeys : T!toggleSort(key)
      BY <2>1
    <3>1. savedSort' = sort'
          /\ sort' \in {[key |-> key, dir |-> 1], [key |-> key, dir |-> -1], Nothing}
      BY DEF T!toggleSort
    <3> QED BY <3>1 DEF T!Sorts
  <2>2. CASE UNCHANGED savedSort /\ sort' \in {sort, savedSort}
    BY <2>2 DEF TableInv
  <2> QED BY <2>1, <2>2 DEF T!Escape, T!Enter, T!Group, T!bulk, T!vars, T!toggleSelection,
         T!SetFilter, T!toggleGroup, T!toggleAccountFilter, T!BulkEnds, T!choices
<1>3. OneEditAtATime'
  BY <1>1 DEF TableInv, OneEditAtATime
<1> QED BY <1>1, <1>2, <1>3 DEF TableInv, Held, T!Row, TableLists

LEMMA TableStart ==
  ASSUME TableLimits, T!Init
  PROVE  TableInv
<1>1. tStored \in TableLists /\ tShown = tStored
  BY DEF TableLimits, T!Init, TableLists
<1>2. sort \in T!Sorts /\ savedSort \in T!Sorts
  <2>1. savedSort \in T!Sorts /\ sort = savedSort
    BY DEF T!Init
  <2> QED BY <2>1
<1>3. OneEditAtATime
  BY DEF T!Init, OneEditAtATime
<1>4. tOverlapped = FALSE /\ tEditing = Nothing /\ tSaves = {} /\ tLoads = {}
  BY DEF T!Init
<1>5. tEdits \in Nat /\ sent \in Nat /\ tTurn \in Nat /\ sent <= tEdits
  BY DEF T!Init
<1>6. tOverlapped \in BOOLEAN
  BY <1>4
<1> QED BY <1>1, <1>2, <1>3, <1>4, <1>5, <1>6 DEF TableInv

LEMMA TableStep ==
  ASSUME TableInv, [T!Next]_(T!vars)
  PROVE  TableInv'
<1>1. ASSUME NEW i \in TableIds, NEW v \in Notes \union {0}, T!Edit("note", i, v) PROVE TableInv'
  BY <1>1, TableEditKeeps DEF Held
<1>2. ASSUME NEW i \in TableIds, NEW v \in TableNames \union {0}, T!Edit("name", i, v) PROVE TableInv'
  BY <1>2, TableEditKeeps DEF Held
<1> QED BY <1>1, <1>2, SaveKeeps, ServeSaveKeeps, SaveEndsKeeps, TableLoadKeeps, TableRestKeeps DEF T!Next

\* The order of two rows is a number's; that of a row with itself is level.
LEMMA OrderIsOne ==
  ASSUME TableLimits, TableInv
  PROVE  T!RowsInOrder
<1> DEFINE Na(i) == tShown[i].name
           No(i) == tShown[i].note
           Si(i) == tShown[i].since
<1>1. \A i \in TableIds : Na(i) \in Int /\ No(i) \in Int /\ Si(i) \in Int
  <2>1. \A i \in TableIds : tShown[i] \in T!Row
    BY DEF TableInv, TableLists
  <2>2. \A r \in T!Row : r.name \in Int /\ r.note \in Int /\ r.since \in Int
    <3>1. TableNames \subseteq Int /\ Notes \union {0} \subseteq Int /\ 1 .. 2 \subseteq Int
      BY DEF TableLimits
    <3>2. \A r \in T!Row : r.name \in TableNames /\ r.note \in Notes \union {0} /\ r.since \in 1 .. 2
      BY DEF T!Row
    <3> QED BY <3>1, <3>2
  <2> QED BY <2>1, <2>2
<1>2. sort = Nothing \/ (sort.key \in T!SortKeys /\ sort.dir \in {1, -1})
  BY DEF TableInv, T!Sorts
<1>3. (\A i, j \in TableIds : T!Order(i, j) = -T!Order(j, i))
      /\ (\A i, j, k \in TableIds : T!Order(i, j) <= 0 /\ T!Order(j, k) <= 0 => T!Order(i, k) <= 0)
  <2>1. CASE sort = Nothing
    <3>1. \A i, j : T!Order(i, j) = 0
      BY <2>1 DEF T!Order
    <3>2. \A m, n \in Int : m = 0 - n => m = -n
      OBVIOUS
    <3>3. \A i, j : T!Order(i, j) \in Int /\ T!Order(i, j) = 0 - T!Order(j, i)
      BY <3>1
    <3>4. \A i, j : T!Order(i, j) = -T!Order(j, i)
      BY <3>2, <3>3
    <3> QED BY <3>1, <3>4
  <2>2. CASE sort # Nothing /\ sort.key = "name"
    <3>1. \A i, j \in TableIds : T!Order(i, j) = IF Na(i) = Na(j) THEN 0 ELSE sort.dir * (IF Na(i) < Na(j) THEN -1 ELSE 1)
      BY <1>1, <1>2, <2>2 DEF T!Order, T!Last, T!compare, T!Sign
    <3> HIDE DEF Na
    <3> QED BY <1>1, <1>2, <2>2, <3>1
  <2>3. CASE sort # Nothing /\ sort.key = "note"
    <3>1. \A i, j \in TableIds :
            T!Order(i, j) =
              IF No(i) = 0 /\ No(j) = 0 THEN 0 ELSE IF No(i) = 0 THEN 1 ELSE IF No(j) = 0 THEN -1
              ELSE IF No(i) = No(j) THEN (IF Na(i) = Na(j) THEN 0 ELSE IF Na(i) < Na(j) THEN -1 ELSE 1)
              ELSE sort.dir * (IF No(i) < No(j) THEN -1 ELSE 1)
      BY <1>1, <1>2, <2>3 DEF T!Order, T!Last, T!compare, T!Sign
    <3> HIDE DEF Na, No
    <3> QED BY <1>1, <1>2, <2>3, <3>1
  <2>4. CASE sort # Nothing /\ sort.key = "uptime"
    <3> DEFINE R(i) == tShown[i].running
    <3>1. \A i, j \in TableIds :
            T!Order(i, j) =
              IF ~R(i) /\ ~R(j) THEN 0 ELSE IF ~R(i) THEN 1 ELSE IF ~R(j) THEN -1
              ELSE IF Si(i) = Si(j) THEN (IF Na(i) = Na(j) THEN 0 ELSE IF Na(i) < Na(j) THEN -1 ELSE 1)
              ELSE sort.dir * (IF Si(j) < Si(i) THEN -1 ELSE 1)
      BY <1>1, <1>2, <2>4 DEF T!Order, T!Last, T!compare, T!Sign
    <3> HIDE DEF Na, Si, R
    <3> QED BY <1>1, <1>2, <2>4, <3>1
  <2> QED BY <1>2, <2>1, <2>2, <2>3, <2>4 DEF T!SortKeys
<1>4. (UNION {g.rows : g \in T!groups} = T!filteredInstances)
      /\ \A g, h \in T!groups : g # h => g.rows \intersect h.rows = {}
  <2>1. CASE groupByAccount
    <3> DEFINE Of(a) == [account |-> a, rows |-> {i \in T!filteredInstances : AccountOf[i] = a},
                         open |-> a \notin collapsedGroups]
    <3>1. T!groups = {Of(a) : a \in T!Accounts}
      BY <2>1 DEF T!groups
    <3>2. \A a : Of(a).rows = {i \in T!filteredInstances : AccountOf[i] = a}
      OBVIOUS
    <3>3. \A i \in T!filteredInstances : AccountOf[i] \in T!Accounts
      BY DEF T!filteredInstances, T!Accounts
    <3> HIDE DEF Of
    <3>4. UNION {g.rows : g \in T!groups} = T!filteredInstances
      BY <3>1, <3>2, <3>3
    <3> QED BY <3>1, <3>2, <3>4
  <2>2. CASE ~groupByAccount
    <3>1. T!groups = {[account |-> Nothing, rows |-> T!filteredInstances, open |-> TRUE]}
      BY <2>2 DEF T!groups
    <3> QED BY <3>1
  <2> QED BY <2>1, <2>2
<1> QED BY <1>3, <1>4 DEF T!RowsInOrder

LEMMA TableShow ==
  ASSUME TableInv
  PROVE  T!NotesAgree
BY DEF TableInv, OneEditAtATime, T!NotesAgree

\* With one save or load at a time the notes and names that are shown are the
\* stored ones, each edit is saved once at most, and the rows have one order
\* (InstancesView.vue, compare and sortRows): for any instances.
THEOREM RowsAreStored ==
  ASSUME TableLimits
  PROVE  T!Spec => [](T!NotesAgree /\ T!RowsInOrder)
BY TableStart, TableStep, TableShow, OrderIsOne, PTL DEF T!Spec

-----------------------------------------------------------------------------
(* The drawer of an instance: what a question names is what is acted on, and *)
(* the detail is read again after whatever may have changed it.             *)

DetailIsOwn(d) == d.of = id /\ (d.boot # Nothing => d.boot[1] = d.of)

\* Unless an answer overtook another or a word was lost, the drawer has the
\* detail as it is, or will read it: it is on its way, asked for, or the end of a
\* job will make the drawer ask.
DetailIsComing ==
  id # Nothing /\ ~behind =>
    \/ dAsked > 0 \/ id \in ended
    \/ D!DetailOf(id) \in answers \/ detail = D!DetailOf(id)

DrawerInv ==
  /\ id \in DrawerInstances \union {Nothing} /\ dAsked \in Nat
  /\ DOMAIN net = DrawerInstances
  /\ \A d \in answers : DetailIsOwn(d)
  /\ detail # Nothing => DetailIsOwn(detail)
  /\ D!NamedIsActedOn /\ DetailIsComing

LEMMA DrawerStart == D!Init => DrawerInv
<1> SUFFICES ASSUME D!Init PROVE DrawerInv
  OBVIOUS
<1>1. id = Nothing /\ detail = Nothing /\ dAsked = 0 /\ answers = {} /\ DOMAIN net = DrawerInstances
  BY DEF D!Init
<1>2. D!NamedIsActedOn
  BY DEF D!Init, D!NamedIsActedOn
<1>3. DetailIsComing
  BY <1>1 DEF DetailIsComing
<1> QED BY <1>1, <1>2, <1>3 DEF DrawerInv

LEMMA DetailFacts ==
  ASSUME NEW i
  PROVE  /\ D!DetailOf(i).of = i
         /\ D!DetailOf(i).boot # Nothing => D!DetailOf(i).boot[1] = i
BY DEF D!DetailOf

\* The detail of an instance stays as long as OCI leaves it alone.
LEMMA DetailStays == UNCHANGED <<net, at, number>> => \A i : D!DetailOf(i)' = D!DetailOf(i)
BY DEF D!DetailOf

\* A step that opens no drawer and has nothing to do with its detail.
LEMMA ElsewhereKeeps ==
  ASSUME DrawerInv, D!NamedIsActedOn', UNCHANGED <<net, at, number, id, detail, dAsked, answers, ended, behind>>
  PROVE  DrawerInv'
<1>1. DetailIsComing'
  BY DetailStays DEF DrawerInv, DetailIsComing
<1> QED BY <1>1 DEF DrawerInv, DetailIsOwn

LEMMA OpenKeeps == ASSUME DrawerInv, NEW i \in DrawerInstances, D!open(i) PROVE DrawerInv'
<1>1. /\ UNCHANGED <<net, at, number, ended, confirm, calls>>
      /\ id' = i /\ detail' = Nothing /\ dAsked' = 1 /\ answers' = {}
  BY DEF D!open, D!serverVars
<1>2. D!NamedIsActedOn'
  BY <1>1 DEF DrawerInv, D!NamedIsActedOn
<1>3. DetailIsComing'
  BY <1>1 DEF DetailIsComing
<1> QED BY <1>1, <1>2, <1>3 DEF DrawerInv

LEMMA DrawerReadingKeeps ==
  ASSUME DrawerInv, D!ServeDetail \/ D!DetailFails
  PROVE  DrawerInv'
<1>1. CASE D!ServeDetail
  <2>1. /\ UNCHANGED <<net, at, number, ended, id, detail, behind, confirm, calls>>
        /\ dAsked' = dAsked - 1 /\ dAsked > 0 /\ id # Nothing
        /\ answers' = answers \union {D!DetailOf(id)}
    BY <1>1 DEF D!ServeDetail, D!serverVars
  <2>2. DetailIsComing'
    BY <2>1, DetailStays DEF DetailIsComing
  <2>3. \A d \in answers' : DetailIsOwn(d)'
    BY <2>1, DetailFacts DEF DrawerInv, DetailIsOwn
  <2> QED BY <2>1, <2>2, <2>3 DEF DrawerInv, DetailIsOwn, D!NamedIsActedOn
<1>2. CASE D!DetailFails
  BY <1>2 DEF DrawerInv, DetailIsOwn, DetailIsComing, D!NamedIsActedOn, D!DetailFails, D!serverVars
<1> QED BY <1>1, <1>2

LEMMA ComesKeeps == ASSUME DrawerInv, NEW d \in answers, D!DetailComes(d) PROVE DrawerInv'
<1>1. /\ UNCHANGED <<net, at, number, ended, id, dAsked, confirm, calls>>
      /\ detail' = d /\ answers' = answers \ {d} /\ d.of = id
      /\ behind' = (d # D!DetailOf(id) /\ (behind \/ detail = D!DetailOf(id)))
  BY DEF DrawerInv, DetailIsOwn, D!DetailComes, D!serverVars
<1>2. DetailIsComing'
  BY <1>1, DetailStays DEF DrawerInv, DetailIsComing
<1> QED BY <1>1, <1>2 DEF DrawerInv, DetailIsOwn, D!NamedIsActedOn

LEMMA DrawerEndKeeps == ASSUME DrawerInv, NEW i \in ended, D!JobEnds(i) \/ D!EventLost(i) PROVE DrawerInv'
<1>1. UNCHANGED <<net, at, number, id, detail, answers, confirm, calls>> /\ ended' = ended \ {i}
  BY DEF D!JobEnds, D!EventLost, D!serverVars
<1>2. \/ i = id /\ D!loadDetail
      \/ UNCHANGED dAsked
  BY DEF D!JobEnds, D!EventLost
<1>3. dAsked' \in Nat /\ (dAsked > 0 => dAsked' > 0)
  BY <1>2 DEF DrawerInv, D!loadDetail
<1>5. ~behind' => ~behind /\ (i = id => D!loadDetail)
  BY Zenon DEF D!JobEnds, D!EventLost
<1>4. DetailIsComing'
  <2>1. ~behind' /\ i = id => dAsked' > 0
    BY <1>5 DEF DrawerInv, D!loadDetail
  <2> QED BY <1>1, <1>3, <1>5, <2>1, DetailStays DEF DrawerInv, DetailIsComing
<1> QED BY <1>1, <1>3, <1>4 DEF DrawerInv, DetailIsOwn, D!NamedIsActedOn

\* Each question is about the instance whose detail the drawer shows.
LEMMA DrawerAskKeeps ==
  ASSUME DrawerInv, NEW q, D!Ask(q),
         q.kind \in D!NetworkJobs \union {"detachBoot", "detachVolume"} => q.from = q.of,
         q.boot # Nothing => q.boot[1] = q.of
  PROVE  DrawerInv'
<1>1. UNCHANGED <<net, at, number, id, detail, dAsked, answers, ended, behind, calls>> /\ confirm' = q
  BY DEF D!Ask, D!serverVars
<1>2. D!NamedIsActedOn'
  BY <1>1 DEF DrawerInv, D!NamedIsActedOn
<1> QED BY <1>1, <1>2, ElsewhereKeeps

LEMMA RunKeeps == ASSUME DrawerInv, NEW j \in jobs, D!RunJob(j) PROVE DrawerInv'
<1>1. /\ UNCHANGED <<at, number, id, detail, dAsked, answers, behind, confirm, calls>>
      /\ ended' = ended \union {j.of} /\ DOMAIN net' = DOMAIN net
      /\ \A i \in DOMAIN net : i # j.of => net'[i] = net[i]
  BY DEF D!RunJob
<1>2. id # Nothing /\ id # j.of => D!DetailOf(id)' = D!DetailOf(id)
  BY <1>1 DEF DrawerInv, D!DetailOf
<1>3. DetailIsComing'
  BY <1>1, <1>2 DEF DrawerInv, DetailIsComing
<1> QED BY <1>1, <1>3 DEF DrawerInv, DetailIsOwn, D!NamedIsActedOn

LEMMA NetworkKeeps == ASSUME DrawerInv, D!Network PROVE DrawerInv'
<1>1. CASE D!removeIpv6 \/ D!changePrimaryIp \/ D!detachVnic \/ D!enableIpv6
  <2>1. PICK kind \in {"removeIpv6", "changeIp", "detachVnic", "enableIpv6"} :
          detail # Nothing /\ D!Ask(D!Question(kind, detail.of, id, Nothing))
    BY <1>1 DEF D!removeIpv6, D!changePrimaryIp, D!detachVnic, D!enableIpv6, D!Shown
  <2> DEFINE q == D!Question(kind, detail.of, id, Nothing)
  <2>2. q.from = q.of /\ q.boot = Nothing
    BY <2>1 DEF DrawerInv, DetailIsOwn, D!Question
  <2> QED BY <2>1, <2>2, DrawerAskKeeps
<1>2. CASE D!openAddVnic \/ D!submitVnic
  <2>1. UNCHANGED <<net, at, number, id, detail, dAsked, answers, ended, behind, confirm, calls>>
    BY <1>2 DEF D!openAddVnic, D!submitVnic, D!serverVars
  <2>2. D!NamedIsActedOn'
    BY <2>1 DEF DrawerInv, D!NamedIsActedOn
  <2> QED BY <2>1, <2>2, ElsewhereKeeps
<1> QED BY <1>1, <1>2, RunKeeps DEF D!Network

LEMMA StorageKeeps == ASSUME DrawerInv, NEW c \in calls, D!Storage(c) PROVE DrawerInv'
<1>1. UNCHANGED <<net, id, detail, answers, ended, confirm>> /\ calls' = calls \ {c}
  BY DEF D!Storage
<1>2. \/ UNCHANGED <<at, number, dAsked, behind>>
      \/ c.of = id /\ D!loadDetail /\ (~behind' => ~behind)
      \/ c.of # id /\ behind' /\ UNCHANGED dAsked
  <2>1. \/ UNCHANGED <<at, number, dAsked, behind>>
        \/ /\ IF c.of = id THEN D!loadDetail ELSE UNCHANGED dAsked
           /\ behind' = (behind \/ c.of # id)
    BY DEF D!Storage
  <2> QED BY <2>1, Zenon
<1>3. dAsked' \in Nat
  BY <1>2 DEF DrawerInv, D!loadDetail
<1>4. DetailIsComing'
  <2>1. CASE UNCHANGED <<at, number, dAsked, behind>>
    BY <1>1, <2>1, DetailStays DEF DrawerInv, DetailIsComing
  <2>2. CASE c.of = id /\ D!loadDetail /\ (~behind' => ~behind)
    BY <1>1, <2>2 DEF DrawerInv, DetailIsComing, D!loadDetail
  <2> QED BY <1>2, <2>1, <2>2 DEF DetailIsComing
<1> QED BY <1>1, <1>3, <1>4 DEF DrawerInv, DetailIsOwn, D!NamedIsActedOn

LEMMA RescueKeeps == ASSUME DrawerInv, D!Rescue PROVE DrawerInv'
<1>1. CASE D!loadLooseVolumes \/ D!LooseCome \/ D!chooseVolume \/ \E i \in DrawerInstances : D!Power(i)
  <2>1. UNCHANGED <<net, at, number, id, detail, dAsked, answers, ended, behind, confirm, calls>>
    BY <1>1 DEF D!loadLooseVolumes, D!LooseCome, D!chooseVolume, D!Power, D!serverVars
  <2>2. D!NamedIsActedOn'
    BY <2>1 DEF DrawerInv, D!NamedIsActedOn
  <2> QED BY <2>1, <2>2, ElsewhereKeeps
<1>2. CASE D!detachBoot
  <2> DEFINE q == D!Question("detachBoot", detail.of, id, detail.boot)
  <2>1. D!Ask(q) /\ detail # Nothing
    BY <1>2 DEF D!detachBoot, D!Shown
  <2>2. q.from = q.of /\ (q.boot # Nothing => q.boot[1] = q.of)
    BY <2>1 DEF DrawerInv, DetailIsOwn, D!Question
  <2> QED BY <2>1, <2>2, DrawerAskKeeps
<1>3. CASE D!attachToRescue \/ D!reattachBoot
  <2>1. PICK kind, other :
          /\ kind \in {"attachVolume", "attachBootVolume"}
          /\ D!Ask(D!Question(kind, other, chosen, Nothing))
    BY <1>3 DEF D!attachToRescue, D!reattachBoot
  <2> DEFINE q == D!Question(kind, other, chosen, Nothing)
  <2>2. q.kind \notin D!NetworkJobs \union {"detachBoot", "detachVolume"} /\ q.boot = Nothing
    BY <2>1 DEF D!Question, D!NetworkJobs
  <2> QED BY <2>1, <2>2, DrawerAskKeeps
<1>4. CASE D!detachData
  <2>1. PICK v : detail # Nothing /\ D!Ask(D!Question("detachVolume", detail.of, v, Nothing))
    BY <1>4 DEF D!detachData, D!Shown
  <2> DEFINE q == D!Question("detachVolume", detail.of, v, Nothing)
  <2>2. q.from = q.of /\ q.boot = Nothing
    BY <2>1 DEF DrawerInv, DetailIsOwn, D!Question
  <2> QED BY <2>1, <2>2, DrawerAskKeeps
<1> QED BY <1>1, <1>2, <1>3, <1>4, StorageKeeps DEF D!Rescue

LEMMA ReplyKeeps == ASSUME DrawerInv, D!Answer PROVE DrawerInv'
<1>1. UNCHANGED <<net, at, number, id, detail, dAsked, answers, ended, behind>>
  BY DEF D!Answer, D!serverVars
<1>2. confirm # Nothing /\ confirm' = Nothing /\ calls' \subseteq calls \union {confirm}
  BY DEF D!Answer
<1>3. D!NamedIsActedOn'
  BY <1>2 DEF DrawerInv, D!NamedIsActedOn
<1> QED BY <1>1, <1>3, ElsewhereKeeps

LEMMA DrawerStep == DrawerInv /\ [D!Next]_(D!vars) => DrawerInv'
<1> SUFFICES ASSUME DrawerInv, [D!Next]_(D!vars) PROVE DrawerInv'
  OBVIOUS
<1>1. CASE D!Reading
  BY <1>1, OpenKeeps, DrawerReadingKeeps, ComesKeeps, DrawerEndKeeps DEF D!Reading
<1>2. CASE UNCHANGED D!vars
  <2>1. UNCHANGED <<net, at, number, id, detail, dAsked, answers, ended, behind, confirm, calls>>
    BY <1>2 DEF D!vars
  <2>2. D!NamedIsActedOn'
    BY <2>1 DEF DrawerInv, D!NamedIsActedOn
  <2> QED BY <2>1, <2>2, ElsewhereKeeps
<1> QED BY <1>1, <1>2, NetworkKeeps, RescueKeeps, ReplyKeeps DEF D!Next

LEMMA DrawerShow == DrawerInv => D!NamedIsActedOn /\ D!DrawerCatchesUp
BY DEF DrawerInv, DetailIsComing, D!DrawerCatchesUp, D!Shown

\* What a question names is what its answer acts on, though the detail changes
\* under it (NamedIsActedOn); and once nothing is under way the drawer shows what
\* OCI has (DrawerCatchesUp), unless an answer overtook a newer one, a word was
\* lost or another drawer moved the volume.  For any instances, cards and changes.
THEOREM DrawerActsOnItsOwn == D!Spec => [](D!NamedIsActedOn /\ D!DrawerCatchesUp)
BY DrawerStart, DrawerStep, DrawerShow, PTL DEF D!Spec

-----------------------------------------------------------------------------
(* The form of a new instance: the lists it is filled from are asked for     *)
(* again whenever what they depend on changes, in any order of the answers.  *)

\* Every region has a domain and every domain a shape, and what is chosen is not
\* mistaken for nothing chosen.
WizardLimits ==
  /\ \A a \in WizardAccounts :
       /\ 1 \in DOMAIN RegionsOf[a]
       /\ \A n \in DOMAIN RegionsOf[a] : <<a, RegionsOf[a][n]>> \in W!Keys
  /\ \A k \in W!Keys :
       1 \in DOMAIN DomainsOf[k] /\ W!Elements(DomainsOf[k]) \subseteq DOMAIN ShapesAt
  /\ \A d \in DOMAIN ShapesAt : ShapesAt[d] # {} /\ d # Nothing
  /\ \A k \in W!Keys, d \in DOMAIN ShapesAt : <<k, d>> # Nothing
  /\ \A s \in W!Shapes : ImagesOf[s] # {}
  /\ Nothing \notin W!Keys /\ Nothing \notin Prohibiting /\ FirstShape \in Presets

FormIsChosen ==
  /\ step \in 0 .. 5 /\ optionSeq \in Nat
  /\ account \in WizardAccounts /\ region \in W!Elements(RegionsOf[account])
  /\ shape \in W!Shapes

\* The last question for domains is about the region shown, and no question for
\* shapes names a domain of another region.
QuestionsAreOwn ==
  /\ \A q \in wAsked : q.kind = "ads" =>
       q.seq \in Nat /\ q.seq <= optionSeq /\ (q.seq = optionSeq => q.at = W!Here)
  /\ W!ShapesAskedOfOwnDomain

\* The list of domains is that of the region shown, or on its way.
DomainsFit ==
  /\ loadingAds /\ ~closed => \E q \in wAsked : q.kind = "ads" /\ q.seq = optionSeq
  /\ ~loadingAds => ads = W!Here \/ ads = Nothing
  /\ ~loadingAds /\ ~wFailed =>
       ads = W!Here /\ ad \in W!Elements(DomainsOf[W!Here]) /\ shapesKey = <<W!Here, ad>>

\* The list of shapes is that of the domain asked for last, or on its way.
ShapesFit ==
  shapesKey # Nothing /\ ~closed =>
    \/ shapes = shapesKey[2]
    \/ \E q \in wAsked : q.kind = "shapes" /\ q.key = shapesKey

\* From step 3 on the image is one for the shape, or its list is on its way.
ImageFits ==
  step >= 3 /\ ~wFailed /\ ~closed =>
    \/ W!AsksImages(W!Here, shape) \in wAsked
    \/ images[2] = shape /\ imageId \in ImagesOf[shape]

\* From step 3 on the shape is one of the domain, unless step 2 was left hastily.
ShapeFits ==
  step >= 3 /\ ~hasty /\ ~closed =>
    /\ \A q \in wAsked : q.kind \notin {"ads", "shapes"}
    /\ ~wFailed => shape \in ShapesAt[ad]

\* From step 4 on the subnet is one of the region, or its list is on its way.
SubnetFits ==
  step >= 4 /\ ~wFailed /\ ~closed =>
    W!AsksSubnets(W!Here) \in wAsked \/ subnets = W!Here

\* A chosen subnet is of the list, if there is one.
SubnetIsListed ==
  /\ subnets # Nothing => subnetId \in SubnetsOf[subnets] \union {Nothing}
  /\ step = 5 /\ ~unchecked => ~(publicIp /\ subnetId \in Prohibiting)

WizardInv ==
  /\ FormIsChosen /\ QuestionsAreOwn /\ DomainsFit /\ ShapesFit
  /\ ImageFits /\ ShapeFits /\ SubnetFits /\ SubnetIsListed

LEMMA HereIsKey ==
  ASSUME WizardLimits, FormIsChosen
  PROVE  W!Here \in W!Keys /\ W!Here # Nothing
BY DEF WizardLimits, FormIsChosen, W!Here, W!Elements

LEMMA WizardQuestions ==
  /\ \A a, r, n : /\ W!AsksAds(a, r, n).kind = "ads" /\ W!AsksAds(a, r, n).at = <<a, r>>
                  /\ W!AsksAds(a, r, n).seq = n
  /\ \A k, d : W!AsksShapes(k, d).kind = "shapes" /\ W!AsksShapes(k, d).key = <<k, d>>
  /\ \A k, s : W!AsksImages(k, s).kind = "images" /\ W!AsksImages(k, s).key = <<k, s>>
  /\ \A k : W!AsksSubnets(k).kind = "subnets" /\ W!AsksSubnets(k).at = k
BY DEF W!AsksAds, W!AsksShapes, W!AsksImages, W!AsksSubnets

LEMMA WizardStart == ASSUME WizardLimits PROVE W!Init => WizardInv
<1> SUFFICES ASSUME W!Init PROVE WizardInv
  OBVIOUS
<1>1. /\ step = 0 /\ closed = FALSE /\ account \in WizardAccounts /\ region = RegionsOf[account][1]
      /\ shape = FirstShape /\ subnets = Nothing /\ optionSeq = 1 /\ shapesKey = Nothing
      /\ loadingAds = TRUE /\ wAsked = {W!AsksAds(account, region, 1)}
  BY DEF W!Init
<1>2. FormIsChosen
  <2>1. FirstShape \in W!Shapes
    <3>1. FirstShape \in Presets
      BY DEF WizardLimits
    <3> QED BY <3>1 DEF W!Shapes
  <2>2. RegionsOf[account][1] \in W!Elements(RegionsOf[account])
    BY <1>1 DEF WizardLimits, W!Elements
  <2> QED BY <1>1, <2>1, <2>2 DEF FormIsChosen
<1>3. QuestionsAreOwn
  BY <1>1, WizardQuestions DEF QuestionsAreOwn, W!Here, W!ShapesAskedOfOwnDomain
<1>4. DomainsFit
  BY <1>1, WizardQuestions DEF DomainsFit
<1>5. ShapesFit /\ ImageFits /\ ShapeFits /\ SubnetFits /\ SubnetIsListed
  BY <1>1 DEF ShapesFit, ImageFits, ShapeFits, SubnetFits, SubnetIsListed
<1> QED BY <1>2, <1>3, <1>4, <1>5 DEF WizardInv

LEMMA AccountPicked ==
  ASSUME WizardLimits, WizardInv, NEW a \in WizardAccounts, W!PickAccount(a)
  PROVE  WizardInv'
<1>1. UNCHANGED <<step, closed, ad, shape, imageId, subnetId, publicIp, ads, shapes, images,
                 subnets, shapesKey, hasty, unchecked>>
  BY DEF W!PickAccount, W!Pick, W!form, W!lists, W!seqs, W!ghosts
<1>2. /\ step = 0 /\ account' = a /\ region' = RegionsOf[a][1] /\ loadingAds' = TRUE /\ wFailed' = FALSE
      /\ \E n \in {1, 2} : /\ optionSeq' = optionSeq + n
                         /\ wAsked' = wAsked \union {W!AsksAds(a, region', optionSeq + m) : m \in 1 .. n}
  BY DEF W!PickAccount
<1>3. FormIsChosen'
  BY <1>1, <1>2, HereIsKey, WizardQuestions DEF WizardInv, WizardLimits, FormIsChosen,
         W!Elements
<1>4. QuestionsAreOwn'
  <2>1. PICK n \in {1, 2} :
          /\ optionSeq' = optionSeq + n
          /\ wAsked' = wAsked \union {W!AsksAds(a, region', optionSeq + m) : m \in 1 .. n}
    BY <1>2
  <2>2. \A q \in wAsked' \ wAsked : \E m \in 1 .. n : q = W!AsksAds(a, region', optionSeq + m)
    BY <2>1
  <2>3. \A q \in wAsked' \ wAsked :
          q.kind = "ads" /\ q.at = W!Here' /\ q.seq \in Nat /\ q.seq <= optionSeq'
    BY <1>2, <2>1, <2>2, WizardQuestions DEF W!Here, WizardInv, FormIsChosen
  <2>4. \A q \in wAsked : q.kind = "ads" =>
          q.seq \in Nat /\ q.seq <= optionSeq' /\ q.seq # optionSeq'
    BY <2>1 DEF WizardInv, FormIsChosen, QuestionsAreOwn
  <2>5. \A q \in wAsked' : q.kind = "shapes" => q \in wAsked
    BY <2>3
  <2> QED BY <2>3, <2>4, <2>5 DEF WizardInv, QuestionsAreOwn, W!ShapesAskedOfOwnDomain
<1>5. DomainsFit'
  BY <1>1, <1>2, HereIsKey, WizardQuestions DEF WizardInv, WizardLimits, DomainsFit, W!Here
<1>6. ShapesFit'
  BY <1>1, <1>2, HereIsKey, WizardQuestions DEF WizardInv, WizardLimits, ShapesFit
<1>7. ImageFits'
  BY <1>1, <1>2, HereIsKey, WizardQuestions DEF WizardInv, WizardLimits, ImageFits, W!Here
<1>8. ShapeFits'
  BY <1>1, <1>2, HereIsKey, WizardQuestions DEF WizardInv, WizardLimits, ShapeFits
<1>9. SubnetFits'
  BY <1>1, <1>2, HereIsKey, WizardQuestions DEF WizardInv, WizardLimits, SubnetFits, W!Here
<1>10. SubnetIsListed'
  BY <1>1 DEF WizardInv, SubnetIsListed
<1> QED BY <1>3, <1>4, <1>5, <1>6, <1>7, <1>8, <1>9, <1>10 DEF WizardInv

LEMMA RegionPicked ==
  ASSUME WizardLimits, WizardInv, NEW r \in W!Elements(RegionsOf[account]), W!PickRegion(r)
  PROVE  WizardInv'
<1>1. UNCHANGED <<step, closed, account, ad, shape, imageId, subnetId, publicIp, ads, shapes,
                 images, subnets, shapesKey, hasty, unchecked>>
  BY DEF W!PickRegion, W!Pick, W!form, W!lists, W!seqs, W!ghosts
<1>2. /\ step = 1 /\ region' = r /\ optionSeq' = optionSeq + 1 /\ loadingAds' = TRUE /\ wFailed' = FALSE
      /\ wAsked' = wAsked \union {W!AsksAds(account, r, optionSeq + 1)}
  BY DEF W!PickRegion
<1>3. FormIsChosen'
  BY <1>1, <1>2, HereIsKey, WizardQuestions DEF WizardInv, WizardLimits, FormIsChosen,
         W!Elements
<1>4. QuestionsAreOwn'
  <2>1. \A q \in wAsked' \ wAsked :
          q.kind = "ads" /\ q.at = W!Here' /\ q.seq \in Nat /\ q.seq <= optionSeq'
    BY <1>1, <1>2, WizardQuestions DEF W!Here, WizardInv, FormIsChosen
  <2>2. \A q \in wAsked : q.kind = "ads" =>
          q.seq \in Nat /\ q.seq <= optionSeq' /\ q.seq # optionSeq'
    BY <1>2 DEF WizardInv, FormIsChosen, QuestionsAreOwn
  <2>3. \A q \in wAsked' : q.kind = "shapes" => q \in wAsked
    BY <2>1
  <2> QED BY <2>1, <2>2, <2>3 DEF WizardInv, QuestionsAreOwn, W!ShapesAskedOfOwnDomain
<1>5. DomainsFit'
  BY <1>1, <1>2, HereIsKey, WizardQuestions DEF WizardInv, WizardLimits, DomainsFit, W!Here
<1>6. ShapesFit'
  BY <1>1, <1>2, HereIsKey, WizardQuestions DEF WizardInv, WizardLimits, ShapesFit
<1>7. ImageFits'
  BY <1>1, <1>2, HereIsKey, WizardQuestions DEF WizardInv, WizardLimits, ImageFits, W!Here
<1>8. ShapeFits'
  BY <1>1, <1>2, HereIsKey, WizardQuestions DEF WizardInv, WizardLimits, ShapeFits
<1>9. SubnetFits'
  BY <1>1, <1>2, HereIsKey, WizardQuestions DEF WizardInv, WizardLimits, SubnetFits, W!Here
<1>10. SubnetIsListed'
  BY <1>1 DEF WizardInv, SubnetIsListed
<1> QED BY <1>3, <1>4, <1>5, <1>6, <1>7, <1>8, <1>9, <1>10 DEF WizardInv

LEMMA DomainPicked ==
  ASSUME WizardLimits, WizardInv, NEW d \in DOMAIN ShapesAt, W!PickDomain(d)
  PROVE  WizardInv'
<1>1. UNCHANGED <<step, closed, account, region, shape, imageId, subnetId, publicIp, ads,
                 shapes, images, subnets, optionSeq, loadingAds, wFailed, hasty, unchecked>>
  BY DEF W!PickDomain, W!Pick, W!form, W!lists, W!seqs, W!ghosts
<1>2. /\ step = 1 /\ ~loadingAds /\ ads # Nothing /\ d \in W!Elements(DomainsOf[ads]) /\ ad' = d
      /\ W!loadShapes(W!Here, d, ads, wAsked)
  BY DEF W!PickDomain
<1>3. QuestionsAreOwn'
  <2>1. ads = W!Here
    BY <1>2 DEF WizardInv, DomainsFit
  <2>2. \A q \in wAsked' \ wAsked : q = W!AsksShapes(W!Here, d)
    BY <1>2 DEF W!loadShapes
  <2>3. \A q \in wAsked' \ wAsked :
          q.kind = "shapes" /\ q.key[2] \in W!Elements(DomainsOf[q.key[1]])
    BY <1>2, <2>1, <2>2, WizardQuestions
  <2> QED BY <1>1, <2>3 DEF WizardInv, QuestionsAreOwn, W!ShapesAskedOfOwnDomain, W!Here
<1>4. DomainsFit'
  BY <1>1, <1>2, HereIsKey, WizardQuestions DEF WizardInv, WizardLimits, DomainsFit, W!Here,
         W!loadShapes
<1>5. ShapesFit'
  BY <1>1, <1>2, HereIsKey, WizardQuestions DEF WizardInv, WizardLimits, ShapesFit, W!loadShapes
<1>6. ImageFits'
  BY <1>1, <1>2, HereIsKey, WizardQuestions DEF WizardInv, WizardLimits, ImageFits, W!Here,
         W!loadShapes
<1>7. ShapeFits'
  BY <1>1, <1>2, HereIsKey, WizardQuestions DEF WizardInv, WizardLimits, ShapeFits, W!loadShapes
<1>8. SubnetFits'
  BY <1>1, <1>2, HereIsKey, WizardQuestions DEF WizardInv, WizardLimits, SubnetFits, W!Here,
         W!loadShapes
<1>9. FormIsChosen' /\ SubnetIsListed'
  BY <1>1 DEF WizardInv, FormIsChosen, SubnetIsListed, W!Elements
<1> QED BY <1>3, <1>4, <1>5, <1>6, <1>7, <1>8, <1>9 DEF WizardInv

LEMMA ShapePicked ==
  ASSUME WizardLimits, WizardInv, NEW s \in W!Shapes, W!PickShape(s)
  PROVE  WizardInv'
<1>1. UNCHANGED <<step, closed, account, region, ad, imageId, subnetId, publicIp, ads, shapes,
                 images, subnets, optionSeq, shapesKey, loadingAds, wFailed, hasty, unchecked>>
  BY DEF W!PickShape, W!Pick, W!form, W!lists, W!seqs, W!ghosts
<1>2. /\ step = 2 /\ shape' = s /\ wAsked' = wAsked \union {W!AsksImages(W!Here, s)}
  BY DEF W!PickShape
<1>3. FormIsChosen'
  BY <1>1, <1>2, HereIsKey, WizardQuestions DEF WizardInv, WizardLimits, FormIsChosen,
         W!Elements
<1>4. QuestionsAreOwn'
  BY <1>1, <1>2, HereIsKey, WizardQuestions DEF WizardInv, WizardLimits, QuestionsAreOwn,
         W!Here, W!ShapesAskedOfOwnDomain
<1>5. DomainsFit'
  BY <1>1, <1>2, HereIsKey, WizardQuestions DEF WizardInv, WizardLimits, DomainsFit, W!Here
<1>6. ShapesFit'
  BY <1>1, <1>2, HereIsKey, WizardQuestions DEF WizardInv, WizardLimits, ShapesFit
<1>7. ImageFits'
  BY <1>1, <1>2, HereIsKey, WizardQuestions DEF WizardInv, WizardLimits, ImageFits, W!Here
<1>8. ShapeFits'
  BY <1>1, <1>2, HereIsKey, WizardQuestions DEF WizardInv, WizardLimits, ShapeFits
<1>9. SubnetFits'
  BY <1>1, <1>2, HereIsKey, WizardQuestions DEF WizardInv, WizardLimits, SubnetFits, W!Here
<1>10. SubnetIsListed'
  BY <1>1 DEF WizardInv, SubnetIsListed
<1> QED BY <1>3, <1>4, <1>5, <1>6, <1>7, <1>8, <1>9, <1>10 DEF WizardInv

LEMMA ImagePicked ==
  ASSUME WizardLimits, WizardInv, NEW i, W!PickImage(i)
  PROVE  WizardInv'
<1>1. UNCHANGED <<step, closed, account, region, ad, shape, subnetId, publicIp, ads, shapes,
                 images, subnets, optionSeq, shapesKey, loadingAds, wAsked, wFailed, hasty,
                 unchecked>>
  BY DEF W!PickImage, W!Pick, W!form, W!lists, W!seqs, W!ghosts
<1>2. /\ step = 3 /\ i \in ImagesOf[images[2]] /\ imageId' = i
  BY DEF W!PickImage
<1>3. ImageFits'
  BY <1>1, <1>2, HereIsKey, WizardQuestions DEF WizardInv, WizardLimits, ImageFits, W!Here
<1>4. FormIsChosen' /\ QuestionsAreOwn' /\ DomainsFit' /\ ShapesFit' /\ ShapeFits' /\ SubnetFits' /\ SubnetIsListed'
  BY <1>1 DEF WizardInv, FormIsChosen, QuestionsAreOwn, DomainsFit, ShapesFit, ShapeFits,
         SubnetFits, SubnetIsListed, W!Elements, W!Here, W!ShapesAskedOfOwnDomain, W!AsksSubnets
<1> QED BY <1>3, <1>4 DEF WizardInv

LEMMA SubnetPicked ==
  ASSUME WizardLimits, WizardInv, NEW s, W!PickSubnet(s)
  PROVE  WizardInv'
<1>1. UNCHANGED <<step, closed, account, region, ad, shape, imageId, publicIp, ads, shapes,
                 images, subnets, optionSeq, shapesKey, loadingAds, wAsked, wFailed, hasty,
                 unchecked>>
  BY DEF W!PickSubnet, W!Pick, W!form, W!lists, W!seqs, W!ghosts
<1>2. /\ step = 4 /\ subnetId' = s
      /\ s \in (IF subnets = Nothing THEN {} ELSE SubnetsOf[subnets]) \union {Nothing}
  BY DEF W!PickSubnet
<1>3. SubnetIsListed'
  BY <1>1, <1>2, HereIsKey, WizardQuestions DEF WizardInv, WizardLimits, SubnetIsListed
<1>4. FormIsChosen' /\ QuestionsAreOwn' /\ DomainsFit' /\ ShapesFit' /\ ImageFits' /\ ShapeFits' /\ SubnetFits'
  BY <1>1 DEF WizardInv, FormIsChosen, QuestionsAreOwn, DomainsFit, ShapesFit, ImageFits,
         ShapeFits, SubnetFits, W!Elements, W!Here, W!ShapesAskedOfOwnDomain, W!AsksImages,
         W!AsksSubnets
<1> QED BY <1>3, <1>4 DEF WizardInv

LEMMA IpSwitched ==
  ASSUME WizardLimits, WizardInv, W!SwitchPublicIp
  PROVE  WizardInv'
<1>1. UNCHANGED <<step, closed, account, region, ad, shape, imageId, subnetId, ads, shapes,
                 images, subnets, optionSeq, shapesKey, loadingAds, wAsked, wFailed, hasty,
                 unchecked>>
  BY DEF W!SwitchPublicIp, W!Pick, W!form, W!lists, W!seqs, W!ghosts
<1>2. /\ step = 4
  BY DEF W!SwitchPublicIp
<1>3. SubnetIsListed'
  BY <1>1, <1>2, HereIsKey, WizardQuestions DEF WizardInv, WizardLimits, SubnetIsListed
<1>4. FormIsChosen' /\ QuestionsAreOwn' /\ DomainsFit' /\ ShapesFit' /\ ImageFits' /\ ShapeFits' /\ SubnetFits'
  BY <1>1 DEF WizardInv, FormIsChosen, QuestionsAreOwn, DomainsFit, ShapesFit, ImageFits,
         ShapeFits, SubnetFits, W!Elements, W!Here, W!ShapesAskedOfOwnDomain, W!AsksImages,
         W!AsksSubnets
<1> QED BY <1>3, <1>4 DEF WizardInv

LEMMA StepTaken ==
  ASSUME WizardLimits, WizardInv, W!NextStep
  PROVE  WizardInv'
<1>1. UNCHANGED <<closed, account, region, ad, shape, imageId, subnetId, publicIp, ads, shapes,
                 images, subnets, optionSeq, shapesKey, loadingAds, wFailed>>
  BY DEF W!NextStep, W!form, W!lists, W!seqs, W!ghosts
<1>2. /\ step < 5 /\ step' = step + 1 /\ W!canNext
      /\ wAsked' = (CASE step = 2 -> wAsked \union {W!AsksImages(W!Here, shape)}
                       [] step = 3 -> wAsked \union {W!AsksSubnets(W!Here)}
                       [] OTHER -> wAsked)
  BY DEF W!NextStep
<1>3. FormIsChosen'
  BY <1>1, <1>2, HereIsKey, WizardQuestions DEF WizardInv, WizardLimits, FormIsChosen,
         W!Elements
<1>4. QuestionsAreOwn'
  BY <1>1, <1>2, HereIsKey, WizardQuestions DEF WizardInv, WizardLimits, QuestionsAreOwn,
         FormIsChosen, W!Here, W!ShapesAskedOfOwnDomain
<1>5. DomainsFit'
  BY <1>1, <1>2, HereIsKey, WizardQuestions DEF WizardInv, WizardLimits, DomainsFit,
         FormIsChosen, W!Here
<1>6. ShapesFit'
  BY <1>1, <1>2, HereIsKey, WizardQuestions DEF WizardInv, WizardLimits, ShapesFit, FormIsChosen
<1>7. ImageFits'
  BY <1>1, <1>2, HereIsKey, WizardQuestions DEF WizardInv, WizardLimits, ImageFits,
         FormIsChosen, W!Here
<1>8. ShapeFits'
  <2>1. step = 2 /\ ~hasty' => \A q \in wAsked : q.kind \notin {"ads", "shapes"}
    BY Zenon DEF W!NextStep
  <2>2. \A q \in wAsked' : q \in wAsked \/ q.kind \in {"images", "subnets"}
    BY <1>2, WizardQuestions
  <2>3. ASSUME step = 2, ~hasty', ~wFailed, ~closed PROVE shape \in ShapesAt[ad]
    <3>1. ~loadingAds /\ shapes = ad /\ ad \in DOMAIN ShapesAt
      <4>1. ~loadingAds
        BY <2>1, <2>3 DEF WizardInv, DomainsFit
      <4>2. ad \in W!Elements(DomainsOf[W!Here]) /\ shapesKey = <<W!Here, ad>>
        BY <4>1, <2>3 DEF WizardInv, DomainsFit
      <4>3. ad \in DOMAIN ShapesAt /\ shapesKey # Nothing
        BY <4>2, HereIsKey DEF WizardLimits, WizardInv
      <4>4. shapes = shapesKey[2]
        BY <4>3, <2>1, <2>3 DEF WizardInv, ShapesFit
      <4> QED BY <4>1, <4>2, <4>3, <4>4
    <3>2. ~W!shapeUnavailable(shape)
      BY <1>2, <2>3 DEF W!canNext
    <3>3. W!availableShapes = ShapesAt[ad] /\ ShapesAt[ad] # {}
      BY <3>1 DEF W!availableShapes, WizardLimits
    <3> QED BY <3>2, <3>3 DEF W!shapeUnavailable
  <2>4. step # 2 => hasty' = hasty
    BY DEF W!NextStep
  <2>5. CASE step = 2
    BY <1>1, <1>2, <2>1, <2>2, <2>3, <2>5 DEF ShapeFits
  <2>6. CASE step # 2
    BY <1>1, <1>2, <2>2, <2>4, <2>6 DEF ShapeFits, WizardInv, FormIsChosen
  <2> QED BY <2>5, <2>6
<1>9. SubnetFits'
  BY <1>1, <1>2, HereIsKey, WizardQuestions DEF WizardInv, WizardLimits, SubnetFits,
         FormIsChosen, W!Here
<1>10. SubnetIsListed'
  <2>1. step = 4 /\ ~unchecked' => ~(publicIp /\ subnetId \in Prohibiting)
    <3>1. step = 4 => ~W!subnetConflict
      BY <1>2 DEF W!canNext
    <3>2. step = 4 /\ ~unchecked' => subnetId = Nothing \/ subnets # Nothing
      BY Zenon DEF W!NextStep
    <3> QED BY <3>1, <3>2 DEF W!subnetConflict, WizardInv, SubnetIsListed, WizardLimits
  <2>2. step' = 5 => step = 4
    BY <1>2 DEF WizardInv, FormIsChosen
  <2> QED BY <1>1, <2>1, <2>2 DEF WizardInv, SubnetIsListed
<1> QED BY <1>3, <1>4, <1>5, <1>6, <1>7, <1>8, <1>9, <1>10 DEF WizardInv

LEMMA StepBack ==
  ASSUME WizardLimits, WizardInv, W!Back
  PROVE  WizardInv'
<1>1. UNCHANGED <<closed, account, region, ad, shape, imageId, subnetId, publicIp, ads, shapes,
                 images, subnets, optionSeq, shapesKey, loadingAds, wAsked, wFailed, hasty,
                 unchecked>>
  BY DEF W!Back, W!form, W!lists, W!seqs, W!ghosts
<1>2. /\ step > 0 /\ step' = step - 1
  BY DEF W!Back
<1>3. FormIsChosen'
  BY <1>1, <1>2, HereIsKey, WizardQuestions DEF WizardInv, WizardLimits, FormIsChosen,
         W!Elements
<1>4. ImageFits'
  BY <1>1, <1>2, HereIsKey, WizardQuestions DEF WizardInv, WizardLimits, ImageFits,
         FormIsChosen, W!Here
<1>5. ShapeFits'
  BY <1>1, <1>2, HereIsKey, WizardQuestions DEF WizardInv, WizardLimits, ShapeFits, FormIsChosen
<1>6. SubnetFits'
  BY <1>1, <1>2, HereIsKey, WizardQuestions DEF WizardInv, WizardLimits, SubnetFits,
         FormIsChosen, W!Here
<1>7. SubnetIsListed'
  BY <1>1, <1>2, HereIsKey, WizardQuestions DEF WizardInv, WizardLimits, SubnetIsListed,
         FormIsChosen
<1>8. QuestionsAreOwn' /\ DomainsFit' /\ ShapesFit'
  BY <1>1 DEF WizardInv, QuestionsAreOwn, DomainsFit, ShapesFit, W!Here,
         W!ShapesAskedOfOwnDomain
<1> QED BY <1>3, <1>4, <1>5, <1>6, <1>7, <1>8 DEF WizardInv

LEMMA Submitting ==
  ASSUME WizardLimits, WizardInv, W!Submit \/ W!Refused
  PROVE  WizardInv'
<1>1. UNCHANGED <<step, closed, account, region, ad, shape, imageId, subnetId, publicIp, ads,
                 shapes, images, subnets, optionSeq, shapesKey, loadingAds, wAsked, wFailed,
                 hasty, unchecked>>
  BY DEF W!Submit, W!Refused, W!form, W!lists, W!seqs, W!ghosts
<1>3. FormIsChosen' /\ QuestionsAreOwn' /\ DomainsFit' /\ ShapesFit' /\ ImageFits' /\ ShapeFits' /\ SubnetFits' /\ SubnetIsListed'
  BY <1>1 DEF WizardInv, FormIsChosen, QuestionsAreOwn, DomainsFit, ShapesFit, ImageFits,
         ShapeFits, SubnetFits, SubnetIsListed, W!Elements, W!Here, W!ShapesAskedOfOwnDomain,
         W!AsksImages, W!AsksSubnets
<1> QED BY <1>3 DEF WizardInv

LEMMA FormGone ==
  ASSUME WizardLimits, WizardInv, W!Accepted
  PROVE  WizardInv'
<1>1. UNCHANGED <<step, account, region, ad, shape, imageId, subnetId, publicIp, ads, shapes,
                 images, subnets, optionSeq, shapesKey, loadingAds, wFailed, hasty, unchecked>>
  BY DEF W!Accepted, W!form, W!lists, W!seqs, W!ghosts
<1>2. /\ closed' = TRUE /\ wAsked' = {}
  BY DEF W!Accepted
<1>3. QuestionsAreOwn'
  BY <1>1, <1>2, HereIsKey, WizardQuestions DEF WizardInv, WizardLimits, QuestionsAreOwn,
         W!Here, W!ShapesAskedOfOwnDomain
<1>4. DomainsFit'
  BY <1>1, <1>2, HereIsKey, WizardQuestions DEF WizardInv, WizardLimits, DomainsFit, W!Here
<1>5. ShapesFit'
  BY <1>1, <1>2, HereIsKey, WizardQuestions DEF WizardInv, WizardLimits, ShapesFit
<1>6. ImageFits'
  BY <1>1, <1>2, HereIsKey, WizardQuestions DEF WizardInv, WizardLimits, ImageFits, W!Here
<1>7. ShapeFits'
  BY <1>1, <1>2, HereIsKey, WizardQuestions DEF WizardInv, WizardLimits, ShapeFits
<1>8. SubnetFits'
  BY <1>1, <1>2, HereIsKey, WizardQuestions DEF WizardInv, WizardLimits, SubnetFits, W!Here
<1>9. FormIsChosen' /\ SubnetIsListed'
  BY <1>1 DEF WizardInv, FormIsChosen, SubnetIsListed, W!Elements
<1> QED BY <1>3, <1>4, <1>5, <1>6, <1>7, <1>8, <1>9 DEF WizardInv

LEMMA DomainsArrive ==
  ASSUME WizardLimits, WizardInv, NEW q \in wAsked, W!DomainsCome(q)
  PROVE  WizardInv'
<1>1. UNCHANGED <<step, closed, account, region, shape, imageId, subnetId, publicIp, shapes,
                 images, subnets, optionSeq, wFailed, hasty, unchecked>>
  BY DEF W!DomainsCome, W!form, W!lists, W!seqs, W!ghosts
<1>2. /\ q.kind = "ads" /\ q.seq = optionSeq /\ ads' = q.at /\ loadingAds' = FALSE
      /\ ad' = IF ad \in W!Elements(DomainsOf[q.at]) THEN ad ELSE DomainsOf[q.at][1]
      /\ W!loadShapes(W!Here, ad', q.at, wAsked \ {q})
  BY DEF W!DomainsCome, W!Answered
<1>3. QuestionsAreOwn'
  BY <1>1, <1>2, HereIsKey, WizardQuestions DEF WizardInv, WizardLimits, QuestionsAreOwn,
         W!Here, W!ShapesAskedOfOwnDomain, W!loadShapes
<1>4. DomainsFit'
  <2>1. q.at = W!Here /\ W!Here \in W!Keys
    BY <1>2, HereIsKey DEF WizardInv, QuestionsAreOwn
  <2>2. ad' \in W!Elements(DomainsOf[W!Here])
    BY <1>2, <2>1 DEF WizardLimits, W!Elements
  <2>3. shapesKey' = <<W!Here, ad'>>
    BY <1>2, <2>1, <2>2, HereIsKey DEF W!loadShapes, WizardInv
  <2> QED BY <1>1, <1>2, <2>1, <2>2, <2>3 DEF DomainsFit, W!Here
<1>5. ShapesFit'
  BY <1>1, <1>2, HereIsKey, WizardQuestions DEF WizardInv, WizardLimits, ShapesFit, W!loadShapes
<1>6. ImageFits'
  BY <1>1, <1>2, HereIsKey, WizardQuestions DEF WizardInv, WizardLimits, ImageFits, W!Here,
         W!loadShapes
<1>7. ShapeFits'
  BY <1>1, <1>2, HereIsKey, WizardQuestions DEF WizardInv, WizardLimits, ShapeFits, W!loadShapes
<1>8. SubnetFits'
  BY <1>1, <1>2, HereIsKey, WizardQuestions DEF WizardInv, WizardLimits, SubnetFits, W!Here,
         W!loadShapes
<1>9. FormIsChosen' /\ SubnetIsListed'
  BY <1>1 DEF WizardInv, FormIsChosen, SubnetIsListed, W!Elements
<1> QED BY <1>3, <1>4, <1>5, <1>6, <1>7, <1>8, <1>9 DEF WizardInv

LEMMA DomainsMissing ==
  ASSUME WizardLimits, WizardInv, NEW q \in wAsked, W!DomainsFail(q)
  PROVE  WizardInv'
<1>1. UNCHANGED <<step, closed, account, region, ad, shape, imageId, subnetId, publicIp, images,
                 subnets, optionSeq, hasty, unchecked>>
  BY DEF W!DomainsFail, W!form, W!lists, W!seqs, W!ghosts
<1>2. /\ q.kind = "ads" /\ q.seq = optionSeq /\ wAsked' = wAsked \ {q} /\ ads' = Nothing
      /\ shapes' = Nothing /\ shapesKey' = Nothing /\ loadingAds' = FALSE /\ wFailed' = TRUE
  BY DEF W!DomainsFail, W!Answered
<1>3. QuestionsAreOwn'
  BY <1>1, <1>2, HereIsKey, WizardQuestions DEF WizardInv, WizardLimits, QuestionsAreOwn,
         W!Here, W!ShapesAskedOfOwnDomain
<1>4. DomainsFit'
  BY <1>1, <1>2, HereIsKey, WizardQuestions DEF WizardInv, WizardLimits, DomainsFit, W!Here
<1>5. ShapesFit'
  BY <1>1, <1>2, HereIsKey, WizardQuestions DEF WizardInv, WizardLimits, ShapesFit
<1>6. ImageFits'
  BY <1>1, <1>2, HereIsKey, WizardQuestions DEF WizardInv, WizardLimits, ImageFits, W!Here
<1>7. ShapeFits'
  BY <1>1, <1>2, HereIsKey, WizardQuestions DEF WizardInv, WizardLimits, ShapeFits
<1>8. SubnetFits'
  BY <1>1, <1>2, HereIsKey, WizardQuestions DEF WizardInv, WizardLimits, SubnetFits, W!Here
<1>9. FormIsChosen' /\ SubnetIsListed'
  BY <1>1 DEF WizardInv, FormIsChosen, SubnetIsListed, W!Elements
<1> QED BY <1>3, <1>4, <1>5, <1>6, <1>7, <1>8, <1>9 DEF WizardInv

LEMMA ShapesArrive ==
  ASSUME WizardLimits, WizardInv, NEW q \in wAsked, W!ShapesCome(q)
  PROVE  WizardInv'
<1>1. UNCHANGED <<step, closed, account, region, ad, shape, imageId, subnetId, publicIp, ads,
                 images, subnets, optionSeq, shapesKey, loadingAds, wFailed, hasty, unchecked>>
  BY DEF W!ShapesCome, W!form, W!lists, W!seqs, W!ghosts
<1>2. /\ q.kind = "shapes" /\ q.key = shapesKey /\ wAsked' = wAsked \ {q} /\ shapes' = q.key[2]
  BY DEF W!ShapesCome, W!Answered
<1>3. QuestionsAreOwn'
  BY <1>1, <1>2, HereIsKey, WizardQuestions DEF WizardInv, WizardLimits, QuestionsAreOwn,
         W!Here, W!ShapesAskedOfOwnDomain
<1>4. DomainsFit'
  BY <1>1, <1>2, HereIsKey, WizardQuestions DEF WizardInv, WizardLimits, DomainsFit, W!Here
<1>5. ShapesFit'
  BY <1>1, <1>2, HereIsKey, WizardQuestions DEF WizardInv, WizardLimits, ShapesFit
<1>6. ImageFits'
  BY <1>1, <1>2, HereIsKey, WizardQuestions DEF WizardInv, WizardLimits, ImageFits, W!Here
<1>7. ShapeFits'
  BY <1>1, <1>2, HereIsKey, WizardQuestions DEF WizardInv, WizardLimits, ShapeFits
<1>8. SubnetFits'
  BY <1>1, <1>2, HereIsKey, WizardQuestions DEF WizardInv, WizardLimits, SubnetFits, W!Here
<1>9. FormIsChosen' /\ SubnetIsListed'
  BY <1>1 DEF WizardInv, FormIsChosen, SubnetIsListed, W!Elements
<1> QED BY <1>3, <1>4, <1>5, <1>6, <1>7, <1>8, <1>9 DEF WizardInv

LEMMA ShapesMissing ==
  ASSUME WizardLimits, WizardInv, NEW q \in wAsked, W!ShapesFail(q)
  PROVE  WizardInv'
<1>1. UNCHANGED <<step, closed, account, region, ad, shape, imageId, subnetId, publicIp, ads,
                 images, subnets, optionSeq, loadingAds, hasty, unchecked>>
  BY DEF W!ShapesFail, W!form, W!lists, W!seqs, W!ghosts
<1>2. /\ q.kind = "shapes" /\ wAsked' = wAsked \ {q} /\ shapesKey' = Nothing /\ wFailed' = TRUE
  BY DEF W!ShapesFail, W!Answered
<1>3. QuestionsAreOwn'
  BY <1>1, <1>2, HereIsKey, WizardQuestions DEF WizardInv, WizardLimits, QuestionsAreOwn,
         W!Here, W!ShapesAskedOfOwnDomain
<1>4. DomainsFit'
  BY <1>1, <1>2, HereIsKey, WizardQuestions DEF WizardInv, WizardLimits, DomainsFit, W!Here
<1>5. ShapesFit'
  BY <1>1, <1>2, HereIsKey, WizardQuestions DEF WizardInv, WizardLimits, ShapesFit
<1>6. ImageFits'
  BY <1>1, <1>2, HereIsKey, WizardQuestions DEF WizardInv, WizardLimits, ImageFits, W!Here
<1>7. ShapeFits'
  BY <1>1, <1>2, HereIsKey, WizardQuestions DEF WizardInv, WizardLimits, ShapeFits
<1>8. SubnetFits'
  BY <1>1, <1>2, HereIsKey, WizardQuestions DEF WizardInv, WizardLimits, SubnetFits, W!Here
<1>9. FormIsChosen' /\ SubnetIsListed'
  BY <1>1 DEF WizardInv, FormIsChosen, SubnetIsListed, W!Elements
<1> QED BY <1>3, <1>4, <1>5, <1>6, <1>7, <1>8, <1>9 DEF WizardInv

LEMMA ImagesArrive ==
  ASSUME WizardLimits, WizardInv, NEW q \in wAsked, W!ImagesCome(q)
  PROVE  WizardInv'
<1>1. UNCHANGED <<step, closed, account, region, ad, shape, subnetId, publicIp, ads, shapes,
                 subnets, optionSeq, shapesKey, loadingAds, wFailed, hasty, unchecked>>
  BY DEF W!ImagesCome, W!form, W!lists, W!seqs, W!ghosts
<1>2. /\ q.kind = "images" /\ q.key = <<W!Here, shape>> /\ wAsked' = wAsked \ {q} /\ images' = q.key
      /\ imageId' = IF imageId \in ImagesOf[shape] THEN imageId ELSE CHOOSE i \in ImagesOf[shape] : TRUE
  BY DEF W!ImagesCome, W!Answered
<1>3. QuestionsAreOwn'
  BY <1>1, <1>2, HereIsKey, WizardQuestions DEF WizardInv, WizardLimits, QuestionsAreOwn,
         W!Here, W!ShapesAskedOfOwnDomain
<1>4. DomainsFit'
  BY <1>1, <1>2, HereIsKey, WizardQuestions DEF WizardInv, WizardLimits, DomainsFit, W!Here
<1>5. ShapesFit'
  BY <1>1, <1>2, HereIsKey, WizardQuestions DEF WizardInv, WizardLimits, ShapesFit
<1>6. ImageFits'
  <2>1. images'[2] = shape
    BY <1>2
  <2>2. imageId' \in ImagesOf[shape]
    BY <1>2 DEF WizardLimits, WizardInv, FormIsChosen
  <2> QED BY <1>1, <2>1, <2>2 DEF ImageFits
<1>7. ShapeFits'
  BY <1>1, <1>2, HereIsKey, WizardQuestions DEF WizardInv, WizardLimits, ShapeFits
<1>8. SubnetFits'
  BY <1>1, <1>2, HereIsKey, WizardQuestions DEF WizardInv, WizardLimits, SubnetFits, W!Here
<1>9. FormIsChosen' /\ SubnetIsListed'
  BY <1>1 DEF WizardInv, FormIsChosen, SubnetIsListed, W!Elements
<1> QED BY <1>3, <1>4, <1>5, <1>6, <1>7, <1>8, <1>9 DEF WizardInv

LEMMA ImagesMissing ==
  ASSUME WizardLimits, WizardInv, NEW q \in wAsked, W!ImagesFail(q)
  PROVE  WizardInv'
<1>1. UNCHANGED <<step, closed, account, region, ad, shape, imageId, subnetId, publicIp, ads,
                 shapes, subnets, optionSeq, shapesKey, loadingAds, hasty, unchecked>>
  BY DEF W!ImagesFail, W!form, W!lists, W!seqs, W!ghosts
<1>2. /\ q.kind = "images" /\ wAsked' = wAsked \ {q} /\ wFailed' = TRUE
  BY DEF W!ImagesFail, W!Answered
<1>3. QuestionsAreOwn'
  BY <1>1, <1>2, HereIsKey, WizardQuestions DEF WizardInv, WizardLimits, QuestionsAreOwn,
         W!Here, W!ShapesAskedOfOwnDomain
<1>4. DomainsFit'
  BY <1>1, <1>2, HereIsKey, WizardQuestions DEF WizardInv, WizardLimits, DomainsFit, W!Here
<1>5. ShapesFit'
  BY <1>1, <1>2, HereIsKey, WizardQuestions DEF WizardInv, WizardLimits, ShapesFit
<1>6. ImageFits'
  BY <1>1, <1>2, HereIsKey, WizardQuestions DEF WizardInv, WizardLimits, ImageFits, W!Here
<1>7. ShapeFits'
  BY <1>1, <1>2, HereIsKey, WizardQuestions DEF WizardInv, WizardLimits, ShapeFits
<1>8. SubnetFits'
  BY <1>1, <1>2, HereIsKey, WizardQuestions DEF WizardInv, WizardLimits, SubnetFits, W!Here
<1>9. FormIsChosen' /\ SubnetIsListed'
  BY <1>1 DEF WizardInv, FormIsChosen, SubnetIsListed, W!Elements
<1> QED BY <1>3, <1>4, <1>5, <1>6, <1>7, <1>8, <1>9 DEF WizardInv

LEMMA SubnetsArrive ==
  ASSUME WizardLimits, WizardInv, NEW q \in wAsked, W!SubnetsCome(q)
  PROVE  WizardInv'
<1>1. UNCHANGED <<step, closed, account, region, ad, shape, imageId, publicIp, ads, shapes,
                 images, optionSeq, shapesKey, loadingAds, wFailed, hasty, unchecked>>
  BY DEF W!SubnetsCome, W!form, W!lists, W!seqs, W!ghosts
<1>2. /\ q.kind = "subnets" /\ q.at = W!Here /\ wAsked' = wAsked \ {q} /\ subnets' = q.at
      /\ subnetId' = IF subnetId \in SubnetsOf[q.at] THEN subnetId ELSE Nothing
  BY DEF W!SubnetsCome, W!Answered
<1>3. QuestionsAreOwn'
  BY <1>1, <1>2, HereIsKey, WizardQuestions DEF WizardInv, WizardLimits, QuestionsAreOwn,
         W!Here, W!ShapesAskedOfOwnDomain
<1>4. DomainsFit'
  BY <1>1, <1>2, HereIsKey, WizardQuestions DEF WizardInv, WizardLimits, DomainsFit, W!Here
<1>5. ShapesFit'
  BY <1>1, <1>2, HereIsKey, WizardQuestions DEF WizardInv, WizardLimits, ShapesFit
<1>6. ImageFits'
  BY <1>1, <1>2, HereIsKey, WizardQuestions DEF WizardInv, WizardLimits, ImageFits, W!Here
<1>7. ShapeFits'
  BY <1>1, <1>2, HereIsKey, WizardQuestions DEF WizardInv, WizardLimits, ShapeFits
<1>8. SubnetFits'
  BY <1>1, <1>2, HereIsKey, WizardQuestions DEF WizardInv, WizardLimits, SubnetFits, W!Here
<1>9. SubnetIsListed'
  BY <1>1, <1>2, HereIsKey, WizardQuestions DEF WizardInv, WizardLimits, SubnetIsListed
<1>10. FormIsChosen'
  BY <1>1 DEF WizardInv, FormIsChosen, W!Elements
<1> QED BY <1>3, <1>4, <1>5, <1>6, <1>7, <1>8, <1>9, <1>10 DEF WizardInv

LEMMA SubnetsMissing ==
  ASSUME WizardLimits, WizardInv, NEW q \in wAsked, W!SubnetsFail(q)
  PROVE  WizardInv'
<1>1. UNCHANGED <<step, closed, account, region, ad, shape, imageId, subnetId, publicIp, ads,
                 shapes, images, optionSeq, shapesKey, loadingAds, hasty, unchecked>>
  BY DEF W!SubnetsFail, W!form, W!lists, W!seqs, W!ghosts
<1>2. /\ q.kind = "subnets" /\ wAsked' = wAsked \ {q} /\ subnets' = Nothing /\ wFailed' = TRUE
  BY DEF W!SubnetsFail, W!Answered
<1>3. QuestionsAreOwn'
  BY <1>1, <1>2, HereIsKey, WizardQuestions DEF WizardInv, WizardLimits, QuestionsAreOwn,
         W!Here, W!ShapesAskedOfOwnDomain
<1>4. DomainsFit'
  BY <1>1, <1>2, HereIsKey, WizardQuestions DEF WizardInv, WizardLimits, DomainsFit, W!Here
<1>5. ShapesFit'
  BY <1>1, <1>2, HereIsKey, WizardQuestions DEF WizardInv, WizardLimits, ShapesFit
<1>6. ImageFits'
  BY <1>1, <1>2, HereIsKey, WizardQuestions DEF WizardInv, WizardLimits, ImageFits, W!Here
<1>7. ShapeFits'
  BY <1>1, <1>2, HereIsKey, WizardQuestions DEF WizardInv, WizardLimits, ShapeFits
<1>8. SubnetFits'
  BY <1>1, <1>2, HereIsKey, WizardQuestions DEF WizardInv, WizardLimits, SubnetFits, W!Here
<1>9. SubnetIsListed'
  BY <1>1, <1>2, HereIsKey, WizardQuestions DEF WizardInv, WizardLimits, SubnetIsListed
<1>10. FormIsChosen'
  BY <1>1 DEF WizardInv, FormIsChosen, W!Elements
<1> QED BY <1>3, <1>4, <1>5, <1>6, <1>7, <1>8, <1>9, <1>10 DEF WizardInv

LEMMA AnswerIgnored ==
  ASSUME WizardLimits, WizardInv, NEW q \in wAsked, W!Ignored(q)
  PROVE  WizardInv'
<1>1. UNCHANGED <<step, closed, account, region, ad, shape, imageId, subnetId, publicIp, ads,
                 shapes, images, subnets, optionSeq, shapesKey, loadingAds, wFailed, hasty,
                 unchecked>>
  BY DEF W!Ignored, W!form, W!lists, W!seqs, W!ghosts
<1>2. /\ wAsked' = wAsked \ {q}
      /\ \/ q.kind = "ads" /\ q.seq # optionSeq
         \/ q.kind = "shapes" /\ q.key # shapesKey
         \/ q.kind = "images" /\ q.key # <<W!Here, shape>>
         \/ q.kind = "subnets" /\ q.at # W!Here
  BY DEF W!Ignored, W!Answered
<1>3. QuestionsAreOwn'
  BY <1>1, <1>2, HereIsKey, WizardQuestions DEF WizardInv, WizardLimits, QuestionsAreOwn,
         W!Here, W!ShapesAskedOfOwnDomain
<1>4. DomainsFit'
  BY <1>1, <1>2, HereIsKey, WizardQuestions DEF WizardInv, WizardLimits, DomainsFit, W!Here
<1>5. ShapesFit'
  BY <1>1, <1>2, HereIsKey, WizardQuestions DEF WizardInv, WizardLimits, ShapesFit
<1>6. ImageFits'
  BY <1>1, <1>2, HereIsKey, WizardQuestions DEF WizardInv, WizardLimits, ImageFits, W!Here
<1>7. ShapeFits'
  BY <1>1, <1>2, HereIsKey, WizardQuestions DEF WizardInv, WizardLimits, ShapeFits
<1>8. SubnetFits'
  BY <1>1, <1>2, HereIsKey, WizardQuestions DEF WizardInv, WizardLimits, SubnetFits, W!Here
<1>9. FormIsChosen' /\ SubnetIsListed'
  BY <1>1 DEF WizardInv, FormIsChosen, SubnetIsListed, W!Elements
<1> QED BY <1>3, <1>4, <1>5, <1>6, <1>7, <1>8, <1>9 DEF WizardInv

LEMMA WizardStep == ASSUME WizardLimits PROVE WizardInv /\ [W!Next]_(W!vars) => WizardInv'
<1> SUFFICES ASSUME WizardInv, [W!Next]_(W!vars) PROVE WizardInv'
  OBVIOUS
<1>1. ASSUME NEW a \in WizardAccounts, W!PickAccount(a) PROVE WizardInv'
  BY <1>1, AccountPicked
<1>2. ASSUME NEW r \in W!Elements(RegionsOf[account]), W!PickRegion(r) PROVE WizardInv'
  BY <1>2, RegionPicked
<1>3. ASSUME NEW d \in DOMAIN ShapesAt, W!PickDomain(d) PROVE WizardInv'
  BY <1>3, DomainPicked
<1>4. ASSUME NEW s \in W!Shapes, W!PickShape(s) PROVE WizardInv'
  BY <1>4, ShapePicked
<1>5. ASSUME NEW i, W!PickImage(i) PROVE WizardInv'
  BY <1>5, ImagePicked
<1>6. ASSUME NEW s, W!PickSubnet(s) PROVE WizardInv'
  BY <1>6, SubnetPicked
<1>7. CASE W!SwitchPublicIp \/ W!NextStep \/ W!Back \/ W!Submit \/ W!Refused \/ W!Accepted
  BY <1>7, IpSwitched, StepTaken, StepBack, Submitting, FormGone
<1>8. ASSUME NEW q \in wAsked,
             \/ W!DomainsCome(q) \/ W!DomainsFail(q) \/ W!ShapesCome(q) \/ W!ShapesFail(q)
             \/ W!ImagesCome(q) \/ W!ImagesFail(q) \/ W!SubnetsCome(q) \/ W!SubnetsFail(q)
             \/ W!Ignored(q)
      PROVE  WizardInv'
  BY <1>8, DomainsArrive, DomainsMissing, ShapesArrive, ShapesMissing, ImagesArrive,
     ImagesMissing, SubnetsArrive, SubnetsMissing, AnswerIgnored
<1>9. CASE UNCHANGED W!vars
  BY <1>9 DEF W!vars, W!form, W!lists, W!seqs, W!ghosts, W!Here, WizardInv, FormIsChosen,
     QuestionsAreOwn, W!ShapesAskedOfOwnDomain, DomainsFit, ShapesFit, ImageFits, ShapeFits,
     SubnetFits, SubnetIsListed
<1> QED BY <1>1, <1>2, <1>3, <1>4, <1>5, <1>6, <1>7, <1>8, <1>9 DEF W!Next

LEMMA WizardShow == ASSUME WizardLimits PROVE WizardInv => W!FormFits
<1> SUFFICES ASSUME WizardInv PROVE W!FormFits
  OBVIOUS
<1>1. W!ShapesAskedOfOwnDomain
  BY DEF WizardInv, QuestionsAreOwn
<1>2. ASSUME W!Settled
      PROVE  /\ ads = W!Here /\ ad \in W!Elements(DomainsOf[W!Here]) /\ shapes = ad
             /\ step >= 3 => imageId \in ImagesOf[shape] /\ (~hasty => shape \in ShapesAt[ad])
             /\ step >= 4 => subnetId \in SubnetsOf[W!Here] \union {Nothing}
  <2>1. wAsked = {} /\ ~wFailed /\ ~closed
    BY <1>2 DEF W!Settled
  <2>2. ads = W!Here /\ ad \in W!Elements(DomainsOf[W!Here]) /\ shapesKey = <<W!Here, ad>>
    BY <2>1 DEF WizardInv, DomainsFit
  <2>3. shapesKey # Nothing
    BY <2>2, HereIsKey DEF WizardLimits, WizardInv
  <2>4. shapes = ad
    BY <2>1, <2>2, <2>3 DEF WizardInv, ShapesFit
  <2>5. step >= 3 => imageId \in ImagesOf[shape] /\ (~hasty => shape \in ShapesAt[ad])
    BY <2>1 DEF WizardInv, ImageFits, ShapeFits
  <2>6. step >= 4 => subnetId \in SubnetsOf[W!Here] \union {Nothing}
    BY <2>1, HereIsKey DEF WizardInv, SubnetFits, SubnetIsListed
  <2> QED BY <2>2, <2>4, <2>5, <2>6
<1>3. step = 5 /\ ~unchecked => ~(publicIp /\ subnetId \in Prohibiting)
  BY DEF WizardInv, SubnetIsListed
<1> QED BY <1>1, <1>2, <1>3 DEF W!FormFits

\* Once everything asked has come without an error, the form that is submitted fits
\* together, and no question was one that Oracle refuses (FormFits), for any choice
\* of accounts, regions, domains, shapes, images and subnets.
THEOREM FormsFit == ASSUME WizardLimits PROVE W!Spec => []W!FormFits
BY WizardStart, WizardStep, WizardShow, PTL DEF W!Spec

-----------------------------------------------------------------------------
(* What a filter keeps: the numbers of a set by size, the elements of a    *)
(* list at the places of a set.                                            *)

LEMMA SizeOfColumns == \A U : V!Cardinality(U) = Cardinality(U)
BY DEF V!Cardinality, Cardinality

UpTo(B, k) == {j \in B : j <= k}

LEMMA UpToGrows ==
  ASSUME NEW n \in Nat, NEW B \in SUBSET (1 .. n)
  PROVE  /\ IsFiniteSet(B) /\ Cardinality(B) \in Nat
         /\ \A k \in B : Cardinality(UpTo(B, k)) \in 1 .. Cardinality(B)
         /\ \A k, l \in B : k < l => Cardinality(UpTo(B, k)) < Cardinality(UpTo(B, l))
<1>1. \A k \in B : k \in Nat
  OBVIOUS
<1>2. IsFiniteSet(B) /\ Cardinality(B) \in Nat
  <2>1. IsFiniteSet(1 .. n)
    BY FS_Interval
  <2> QED BY <2>1, FS_Subset, FS_CardinalityType
<1>3. ASSUME NEW k \in B
      PROVE  /\ IsFiniteSet(UpTo(B, k)) /\ Cardinality(UpTo(B, k)) \in Nat
             /\ Cardinality(UpTo(B, k)) <= Cardinality(B) /\ Cardinality(UpTo(B, k)) # 0
  <2>1. UpTo(B, k) \subseteq B /\ k \in UpTo(B, k)
    BY <1>1 DEF UpTo
  <2>2. IsFiniteSet(UpTo(B, k)) /\ Cardinality(UpTo(B, k)) <= Cardinality(B)
    BY <1>2, <2>1, FS_Subset
  <2>3. Cardinality(UpTo(B, k)) \in Nat /\ Cardinality(UpTo(B, k)) # 0
    BY <2>1, <2>2, FS_CardinalityType, FS_EmptySet
  <2> QED BY <2>2, <2>3
<1>4. ASSUME NEW k \in B, NEW l \in B, k < l
      PROVE  Cardinality(UpTo(B, k)) < Cardinality(UpTo(B, l))
  <2>1. UpTo(B, k) \in SUBSET UpTo(B, l)
    <3>1. \A j \in B : j <= k => j <= l
      BY <1>1, <1>4
    <3> QED BY <3>1 DEF UpTo
  <2>2. l \in UpTo(B, l) /\ l \notin UpTo(B, k)
    BY <1>1, <1>4 DEF UpTo
  <2>3. /\ IsFiniteSet(UpTo(B, l)) /\ Cardinality(UpTo(B, k)) \in Nat
        /\ Cardinality(UpTo(B, l)) \in Nat
    BY <1>3
  <2>4. /\ Cardinality(UpTo(B, k)) <= Cardinality(UpTo(B, l))
        /\ Cardinality(UpTo(B, l)) = Cardinality(UpTo(B, k)) => UpTo(B, l) = UpTo(B, k)
    BY <2>1, <2>3, FS_Subset
  <2> QED BY <2>2, <2>3, <2>4
<1>5. ASSUME NEW k \in B PROVE Cardinality(UpTo(B, k)) \in 1 .. Cardinality(B)
  BY <1>2, <1>3
<1> QED BY <1>2, <1>4, <1>5

\* A number less.
LEMMA OneLess ==
  ASSUME NEW c \in Nat, NEW m \in 1 .. c
  PROVE  IsFiniteSet((1 .. c) \ {m}) /\ Cardinality((1 .. c) \ {m}) = c - 1
<1>1. IsFiniteSet(1 .. c) /\ Cardinality(1 .. c) = c
  BY FS_Interval
<1>2. /\ IsFiniteSet((1 .. c) \ {m})
      /\ Cardinality((1 .. c) \ {m}) = IF m \in 1 .. c THEN Cardinality(1 .. c) - 1
                                      ELSE Cardinality(1 .. c)
  BY <1>1, FS_RemoveElement
<1> QED BY <1>1, <1>2

\* The n-th of a set and the number of those up to an element are inverse.
LEMMA NthFacts ==
  ASSUME NEW n \in Nat, NEW B \in SUBSET (1 .. n)
  PROVE  /\ \A m \in 1 .. Cardinality(B) :
              V!Nth(B, m) \in B /\ Cardinality(UpTo(B, V!Nth(B, m))) = m
         /\ \A k, l \in B : Cardinality(UpTo(B, k)) = Cardinality(UpTo(B, l)) => k = l
<1>1. \A k \in B : k \in Nat
  OBVIOUS
<1>2. /\ IsFiniteSet(B) /\ Cardinality(B) \in Nat
      /\ \A k \in B : Cardinality(UpTo(B, k)) \in 1 .. Cardinality(B)
      /\ \A k, l \in B : k < l => Cardinality(UpTo(B, k)) < Cardinality(UpTo(B, l))
  BY UpToGrows
<1>3. ASSUME NEW k \in B, NEW l \in B, Cardinality(UpTo(B, k)) = Cardinality(UpTo(B, l))
      PROVE  k = l
  <2>1. k < l \/ l < k \/ k = l
    BY <1>1
  <2>2. Cardinality(UpTo(B, k)) \in Nat
    BY <1>2
  <2> QED BY <1>2, <1>3, <2>1, <2>2
<1>4. ASSUME NEW m \in 1 .. Cardinality(B), \A k \in B : Cardinality(UpTo(B, k)) # m
      PROVE  FALSE
  <2> DEFINE U == (1 .. Cardinality(B)) \ {m}
             f == [k \in B |-> Cardinality(UpTo(B, k))]
  <2>1. m \in 1 .. Cardinality(B) /\ Cardinality(B) \in Nat
    BY <1>2, <1>4
  <2>2. IsFiniteSet(U) /\ Cardinality(U) = Cardinality(B) - 1
    <3> HIDE DEF f
    <3> QED BY <2>1, OneLess
  <2>3. f \in [B -> U]
    BY <1>2, <1>4
  <2>4. Cardinality(U) < Cardinality(B)
    BY <1>2, <2>2
  <2>5. \E k, l \in B : k # l /\ f[k] = f[l]
    <3> HIDE DEF f, U
    <3> QED BY <1>2, <2>2, <2>3, <2>4, FS_PigeonHole
  <2> QED BY <1>3, <2>5
<1>5. ASSUME NEW m \in 1 .. Cardinality(B)
      PROVE  V!Nth(B, m) \in B /\ Cardinality(UpTo(B, V!Nth(B, m))) = m
  <2>1. \E k \in B : Cardinality(UpTo(B, k)) = m
    BY <1>4
  <2>2. V!Nth(B, m) = CHOOSE k \in B : Cardinality(UpTo(B, k)) = m
    BY SizeOfColumns DEF V!Nth, UpTo
  <2> QED BY <2>1, <2>2
<1> QED BY <1>3, <1>5

\* A list of which some places are kept: its elements are those of the places,
\* and none comes twice that was there once.
IsKept(q, s, B, X) ==
  /\ q \in Seq(X) /\ Len(q) = Cardinality(B)
  /\ \A m \in 1 .. Cardinality(B) : \E k \in B : q[m] = s[k]
  /\ \A k \in B : \E m \in 1 .. Cardinality(B) : q[m] = s[k]
  /\ (\A k, l \in B : s[k] = s[l] => k = l) =>
       \A m, n \in 1 .. Cardinality(B) : q[m] = q[n] => m = n

LEMMA KeptFacts ==
  ASSUME NEW X, NEW s \in Seq(X), NEW B \in SUBSET (1 .. Len(s))
  PROVE  IsKept(V!Kept(s, B), s, B, X)
<1> DEFINE c == Cardinality(B)
           p == [m \in 1 .. c |-> s[V!Nth(B, m)]]
<1>1. Len(s) \in Nat
  OBVIOUS
<1>2. /\ c \in Nat
      /\ \A k \in B : Cardinality(UpTo(B, k)) \in 1 .. c
  BY <1>1, UpToGrows
<1>3. /\ \A m \in 1 .. c : V!Nth(B, m) \in B /\ Cardinality(UpTo(B, V!Nth(B, m))) = m
      /\ \A k, l \in B : Cardinality(UpTo(B, k)) = Cardinality(UpTo(B, l)) => k = l
  BY <1>1, NthFacts
<1>4. V!Kept(s, B) = p
  BY SizeOfColumns DEF V!Kept
<1> HIDE DEF c
<1>5. ASSUME NEW m \in 1 .. c PROVE s[V!Nth(B, m)] \in X
  <2>1. V!Nth(B, m) \in 1 .. Len(s)
    BY <1>3
  <2> QED BY <2>1
<1>6. p \in Seq(X) /\ Len(p) = c
  BY <1>2, <1>5
<1>7. \A m \in 1 .. c : \E k \in B : p[m] = s[k]
  BY <1>3
<1>8. ASSUME NEW k \in B PROVE \E m \in 1 .. c : p[m] = s[k]
  <2>1. Cardinality(UpTo(B, k)) \in 1 .. c
    BY <1>2
  <2>2. V!Nth(B, Cardinality(UpTo(B, k))) = k
    BY <1>3, <2>1
  <2>3. p[Cardinality(UpTo(B, k))] = s[k]
    BY <2>1, <2>2
  <2> QED BY <2>1, <2>3
<1>9. ASSUME \A k, l \in B : s[k] = s[l] => k = l, NEW m \in 1 .. c, NEW n \in 1 .. c, p[m] = p[n]
      PROVE  m = n
  <2>1. V!Nth(B, m) \in B /\ V!Nth(B, n) \in B /\ s[V!Nth(B, m)] = s[V!Nth(B, n)]
    BY <1>3, <1>9
  <2>2. V!Nth(B, m) = V!Nth(B, n)
    BY <1>9, <2>1
  <2> QED BY <1>3, <2>2
<1> HIDE DEF p
<1> QED BY <1>4, <1>6, <1>7, <1>8, <1>9 DEF c, IsKept

\* A list in which nothing comes twice is as long as the set of its elements.
LEMMA LengthIsSize ==
  ASSUME NEW X, NEW s \in Seq(X), \A x \in X : \E m \in 1 .. Len(s) : s[m] = x,
         \A m, n \in 1 .. Len(s) : s[m] = s[n] => m = n
  PROVE  IsFiniteSet(X) /\ Cardinality(X) = Len(s)
<1>1. Len(s) \in Nat /\ s \in [1 .. Len(s) -> X]
  OBVIOUS
<1>2. s \in Bijection(1 .. Len(s), X)
  BY <1>1 DEF Bijection, Injection, Surjection, IsInjective
<1>3. ExistsBijection(1 .. Len(s), X)
  BY <1>2 DEF ExistsBijection
<1>4. IsFiniteSet(1 .. Len(s)) /\ Cardinality(1 .. Len(s)) = Len(s)
  BY <1>1, FS_Interval
<1> QED BY <1>3, <1>4, FS_Bijection
-----------------------------------------------------------------------------
(* The columns of the table: each is laid out once, and what was chosen is *)
(* what is stored.                                                         *)

ColumnLimits ==
  /\ ColumnDefs \in Seq(V!Columns)
  /\ \A i, j \in 1 .. Len(ColumnDefs) : ColumnDefs[i] = ColumnDefs[j] => i = j
  /\ \A f \in StoredChoices : f.order \in Seq(V!Names)

\* A list in which each of a set comes once.
Once(s, X) ==
  /\ s \in Seq(X) /\ \A x \in X : \E m \in 1 .. Len(s) : s[m] = x
  /\ \A m, n \in 1 .. Len(s) : s[m] = s[n] => m = n

LEMMA DefsFacts ==
  ASSUME ColumnLimits
  PROVE  /\ ColumnDefs \in Seq(V!Columns) /\ Len(ColumnDefs) \in Nat
         /\ DOMAIN ColumnDefs = 1 .. Len(ColumnDefs)
         /\ \A c : c \in V!Columns <=> \E i \in 1 .. Len(ColumnDefs) : ColumnDefs[i] = c
         /\ \A i, j \in 1 .. Len(ColumnDefs) : ColumnDefs[i] = ColumnDefs[j] => i = j
         /\ \A i \in 1 .. Len(ColumnDefs) : i \in V!Gaps <=> ColumnDefs[i] \notin FixedColumns
         /\ V!Gaps \in SUBSET (1 .. Len(ColumnDefs))
<1>1. /\ ColumnDefs \in Seq(V!Columns)
      /\ \A i, j \in 1 .. Len(ColumnDefs) : ColumnDefs[i] = ColumnDefs[j] => i = j
  BY DEF ColumnLimits
<1>2. Len(ColumnDefs) \in Nat /\ DOMAIN ColumnDefs = 1 .. Len(ColumnDefs)
  BY <1>1
<1>3. \A c : c \in V!Columns <=> \E i \in 1 .. Len(ColumnDefs) : ColumnDefs[i] = c
  BY <1>2 DEF V!Columns, V!Range
<1>4. /\ \A i \in 1 .. Len(ColumnDefs) : i \in V!Gaps <=> ColumnDefs[i] \notin FixedColumns
      /\ V!Gaps \in SUBSET (1 .. Len(ColumnDefs))
  BY <1>2 DEF V!Gaps
<1> QED BY <1>1, <1>2, <1>3, <1>4

\* The columns that move: those that are not fixed, each once.
LEMMA ToggleableOnce ==
  ASSUME ColumnLimits
  PROVE  /\ Once(V!toggleable, V!Movable) /\ Len(V!toggleable) = Cardinality(V!Gaps)
         /\ \A c : c \in V!Movable <=> c \in V!Columns /\ c \notin FixedColumns
<1> DEFINE t == V!toggleable
<1>1. /\ t \in Seq(V!Columns) /\ Len(t) = Cardinality(V!Gaps)
      /\ \A m \in 1 .. Cardinality(V!Gaps) : \E k \in V!Gaps : t[m] = ColumnDefs[k]
      /\ \A k \in V!Gaps : \E m \in 1 .. Cardinality(V!Gaps) : t[m] = ColumnDefs[k]
      /\ (\A k, l \in V!Gaps : ColumnDefs[k] = ColumnDefs[l] => k = l) =>
           \A m, n \in 1 .. Cardinality(V!Gaps) : t[m] = t[n] => m = n
  <2>1. ColumnDefs \in Seq(V!Columns) /\ V!Gaps \in SUBSET (1 .. Len(ColumnDefs))
    BY DefsFacts
  <2>2. IsKept(V!Kept(ColumnDefs, V!Gaps), ColumnDefs, V!Gaps, V!Columns)
    BY <2>1, KeptFacts
  <2>3. IsKept(t, ColumnDefs, V!Gaps, V!Columns)
    BY <2>2 DEF V!toggleable
  <2> HIDE DEF t
  <2> QED BY <2>3 DEF IsKept
<1> HIDE DEF t
<1>2. \A k, l \in V!Gaps : ColumnDefs[k] = ColumnDefs[l] => k = l
  BY DefsFacts
<1>3. \A m, n \in 1 .. Len(t) : t[m] = t[n] => m = n
  BY <1>1, <1>2
<1>4. Len(t) \in Nat /\ DOMAIN t = 1 .. Len(t)
  BY <1>1
<1>5. \A c : c \in V!Movable <=> \E m \in 1 .. Len(t) : t[m] = c
  BY <1>4 DEF V!Movable, V!Range, t
<1>6. t \in Seq(V!Movable)
  <2>1. \A m \in 1 .. Len(t) : t[m] \in V!Movable
    BY <1>5
  <2> QED BY <1>1, <1>4, <2>1
<1>7. ASSUME NEW c PROVE c \in V!Movable <=> c \in V!Columns /\ c \notin FixedColumns
  <2>1. c \in V!Movable <=> \E k \in V!Gaps : ColumnDefs[k] = c
    BY <1>1, <1>5
  <2> QED BY <2>1, DefsFacts
<1> QED BY <1>1, <1>3, <1>5, <1>6, <1>7 DEF Once, t

\* One list after another, with nothing in common.
LEMMA JoinedOnce ==
  ASSUME NEW X, NEW s \in Seq(X), NEW r \in Seq(X),
         \A m, n \in 1 .. Len(s) : s[m] = s[n] => m = n,
         \A m, n \in 1 .. Len(r) : r[m] = r[n] => m = n,
         \A m \in 1 .. Len(s), n \in 1 .. Len(r) : s[m] # r[n],
         \A x \in X : \/ \E m \in 1 .. Len(s) : s[m] = x
                      \/ \E n \in 1 .. Len(r) : r[n] = x
  PROVE  Once(s \o r, X)
<1> DEFINE q == s \o r
<1>1. /\ Len(s) \in Nat /\ Len(r) \in Nat
      /\ q \in Seq(X) /\ Len(q) = Len(s) + Len(r)
  OBVIOUS
<1>2. \A m \in 1 .. Len(s) : m \in 1 .. Len(q) /\ q[m] = s[m]
  BY <1>1
<1>3. ASSUME NEW n \in 1 .. Len(r) PROVE Len(s) + n \in 1 .. Len(q) /\ q[Len(s) + n] = r[n]
  BY <1>1
<1>4. ASSUME NEW m \in 1 .. Len(q)
      PROVE  m \in 1 .. Len(s) \/ \E n \in 1 .. Len(r) : m = Len(s) + n
  <2>1. CASE m <= Len(s)
    BY <1>1, <2>1
  <2>2. CASE m > Len(s)
    <3>1. m - Len(s) \in 1 .. Len(r) /\ m = Len(s) + (m - Len(s))
      BY <1>1, <2>2
    <3> QED BY <3>1
  <2> QED BY <1>1, <2>1, <2>2
<1>5. ASSUME NEW x \in X PROVE \E m \in 1 .. Len(q) : q[m] = x
  <2>1. CASE \E m \in 1 .. Len(s) : s[m] = x
    BY <1>2, <2>1
  <2>2. CASE \E n \in 1 .. Len(r) : r[n] = x
    <3>1. PICK n \in 1 .. Len(r) : r[n] = x
      BY <2>2
    <3> HIDE DEF q
    <3> QED BY <1>3, <3>1
  <2> QED BY <2>1, <2>2
<1>6. ASSUME NEW m \in 1 .. Len(q), NEW n \in 1 .. Len(q), q[m] = q[n] PROVE m = n
  <2> HIDE DEF q
  <2>1. CASE m \in 1 .. Len(s) /\ n \in 1 .. Len(s)
    BY <1>2, <1>6, <2>1
  <2>2. CASE m \in 1 .. Len(s) /\ n \notin 1 .. Len(s)
    BY <1>2, <1>3, <1>4, <1>6, <2>2, SMTT(30)
  <2>3. CASE m \notin 1 .. Len(s) /\ n \in 1 .. Len(s)
    <3>1. PICK k \in 1 .. Len(r) : m = Len(s) + k
      BY <1>4, <2>3
    <3>2. q[m] = r[k] /\ q[n] = s[n]
      BY <1>2, <1>3, <2>3, <3>1
    <3> QED BY <1>6, <2>3, <3>2
  <2>4. CASE m \notin 1 .. Len(s) /\ n \notin 1 .. Len(s)
    <3>1. PICK k \in 1 .. Len(r) : m = Len(s) + k
      BY <1>4, <2>4
    <3>2. PICK l \in 1 .. Len(r) : n = Len(s) + l
      BY <1>4, <2>4
    <3>3. r[k] = r[l]
      BY <1>3, <1>6, <3>1, <3>2
    <3> QED BY <3>1, <3>2, <3>3
  <2> QED BY <2>1, <2>2, <2>3, <2>4
<1> QED BY <1>1, <1>5, <1>6 DEF Once

\* Whatever is stored, the list that the menu shows has each of them once.
LEMMA OrderedOnce ==
  ASSUME ColumnLimits, order \in Seq(V!Names)
  PROVE  Once(V!ordered, V!Movable)
<1> DEFINE Placed == {k \in DOMAIN order : order[k] \in V!Movable /\ V!once(k)}
           first == V!Kept(order, Placed)
           t == V!toggleable
           Others == {n \in DOMAIN t : t[n] \in V!orderedSet \ V!Range(first)}
           rest == V!Kept(t, Others)
<1>1. V!ordered = first \o rest
  BY DEF V!ordered
<1>2. /\ Once(t, V!Movable) /\ t \in Seq(V!Movable) /\ Len(t) \in Nat /\ DOMAIN t = 1 .. Len(t)
  BY ToggleableOnce DEF Once
<1>3. Placed \in SUBSET (1 .. Len(order)) /\ \A k \in Placed : k \in Nat /\ order[k] \in V!Movable
  OBVIOUS
<1>4. ASSUME NEW k \in Placed, NEW l \in Placed, order[k] = order[l] PROVE k = l
  <2>1. k \in Nat /\ l \in Nat /\ k > 0 /\ l > 0
    BY <1>3
  <2>2. CASE k < l
    <3>1. k \in 1 .. l - 1
      BY <2>1, <2>2
    <3> QED BY <1>4, <3>1 DEF V!once
  <2>3. CASE l < k
    <3>1. l \in 1 .. k - 1
      BY <2>1, <2>3
    <3> QED BY <1>4, <3>1 DEF V!once
  <2> QED BY <2>1, <2>2, <2>3
<1> HIDE DEF Placed
<1>5. first = V!Kept(order, Placed)
  OBVIOUS
<1>6. rest = V!Kept(t, Others)
  OBVIOUS
<1> HIDE DEF rest, first
<1>7. /\ first \in Seq(V!Names) /\ Len(first) = Cardinality(Placed)
      /\ \A m \in 1 .. Cardinality(Placed) : \E k \in Placed : first[m] = order[k]
      /\ (\A k, l \in Placed : order[k] = order[l] => k = l) =>
           \A m, n \in 1 .. Cardinality(Placed) : first[m] = first[n] => m = n
  <2>1. IsKept(first, order, Placed, V!Names)
    BY <1>3, <1>5, KeptFacts
  <2> QED BY <2>1 DEF IsKept
<1>8. \A m, n \in 1 .. Len(first) : first[m] = first[n] => m = n
  BY <1>4, <1>7
<1>9. first \in Seq(V!Movable) /\ Len(first) \in Nat /\ DOMAIN first = 1 .. Len(first)
  <2>1. \A m \in 1 .. Len(first) : first[m] \in V!Movable
    BY <1>3, <1>7
  <2>2. /\ Len(first) \in Nat /\ DOMAIN first = 1 .. Len(first)
        /\ first = [m \in 1 .. Len(first) |-> first[m]]
    BY <1>7
  <2> QED BY <2>1, <2>2
<1>10. Others \in SUBSET (1 .. Len(t)) /\ \A n \in 1 .. Len(t) : n \in Others <=>
        \A m \in 1 .. Len(first) : first[m] # t[n]
  <2>1. V!orderedSet = V!Movable /\ \A n \in 1 .. Len(t) : t[n] \in V!Movable
    BY <1>2 DEF V!orderedSet
  <2>2. \A x : x \in V!Range(first) <=> \E m \in 1 .. Len(first) : first[m] = x
    BY <1>9 DEF V!Range
  <2> HIDE DEF t
  <2> QED BY <1>2, <2>1, <2>2
<1>11. \A k, l \in 1 .. Len(t) : t[k] = t[l] => k = l
  BY <1>2 DEF Once
<1>12. \A x \in V!Movable : \E n \in 1 .. Len(t) : t[n] = x
  BY <1>2 DEF Once
<1> HIDE DEF Others, t
<1>13. /\ rest \in Seq(V!Movable) /\ Len(rest) = Cardinality(Others)
       /\ \A m \in 1 .. Cardinality(Others) : \E k \in Others : rest[m] = t[k]
       /\ \A k \in Others : \E m \in 1 .. Cardinality(Others) : rest[m] = t[k]
       /\ (\A k, l \in Others : t[k] = t[l] => k = l) =>
            \A m, n \in 1 .. Cardinality(Others) : rest[m] = rest[n] => m = n
  <2>1. t \in Seq(V!Movable) /\ Others \in SUBSET (1 .. Len(t))
    BY <1>2, <1>10
  <2>2. IsKept(rest, t, Others, V!Movable)
    BY <2>1, <1>6, KeptFacts
  <2> QED BY <2>2 DEF IsKept
<1>14. \A k \in Others : k \in 1 .. Len(t) /\ \A m \in 1 .. Len(first) : first[m] # t[k]
  BY <1>10
<1>15. \A m, n \in 1 .. Len(rest) : rest[m] = rest[n] => m = n
  BY <1>10, <1>11, <1>13
<1>16. \A m \in 1 .. Len(first), n \in 1 .. Len(rest) : first[m] # rest[n]
  <2> SUFFICES ASSUME NEW m \in 1 .. Len(first), NEW n \in 1 .. Len(rest) PROVE first[m] # rest[n]
    OBVIOUS
  <2>1. PICK k \in Others : rest[n] = t[k]
    BY <1>13
  <2> QED BY <1>14, <2>1
<1>17. \A x \in V!Movable : \/ \E m \in 1 .. Len(first) : first[m] = x
                            \/ \E n \in 1 .. Len(rest) : rest[n] = x
  <2> SUFFICES ASSUME NEW x \in V!Movable, \A m \in 1 .. Len(first) : first[m] # x
               PROVE  \E n \in 1 .. Len(rest) : rest[n] = x
    OBVIOUS
  <2>1. PICK k \in 1 .. Len(t) : t[k] = x
    BY <1>12
  <2>2. k \in Others
    BY <1>10, <2>1
  <2> QED BY <1>13, <2>1, <2>2
<1>18. first \in Seq(V!Movable) /\ rest \in Seq(V!Movable)
  BY <1>9, <1>13
<1>19. Once(first \o rest, V!Movable)
  BY <1>8, <1>15, <1>16, <1>17, <1>18, JoinedOnce
<1> QED BY <1>1, <1>19

\* As many columns move as there are places for them.
LEMMA PlacesFilled ==
  ASSUME ColumnLimits, order \in Seq(V!Names)
  PROVE  /\ Cardinality(V!Gaps) \in Nat /\ Len(V!ordered) = Cardinality(V!Gaps)
         /\ DOMAIN V!ordered = 1 .. Cardinality(V!Gaps)
         /\ \A i \in V!Gaps : V!Before(i) \in 1 .. Cardinality(V!Gaps)
         /\ \A i, j \in V!Gaps : V!Before(i) = V!Before(j) => i = j
         /\ \A m \in 1 .. Cardinality(V!Gaps) : \E i \in V!Gaps : V!Before(i) = m
<1>1. Once(V!toggleable, V!Movable) /\ Len(V!toggleable) = Cardinality(V!Gaps)
  BY ToggleableOnce
<1>2. Once(V!ordered, V!Movable)
  BY OrderedOnce
<1>3. \A s : Once(s, V!Movable) => Cardinality(V!Movable) = Len(s)
  BY LengthIsSize DEF Once
<1>4. Len(V!ordered) = Cardinality(V!Gaps)
  BY <1>1, <1>2, <1>3
<1>5. DOMAIN V!ordered = 1 .. Len(V!ordered)
  BY <1>2 DEF Once
<1>6. \A i : V!Before(i) = Cardinality(UpTo(V!Gaps, i))
  BY SizeOfColumns DEF V!Before, UpTo
<1>7. Len(ColumnDefs) \in Nat /\ V!Gaps \in SUBSET (1 .. Len(ColumnDefs))
  BY DefsFacts
<1>8. /\ Cardinality(V!Gaps) \in Nat
      /\ \A i \in V!Gaps : Cardinality(UpTo(V!Gaps, i)) \in 1 .. Cardinality(V!Gaps)
  BY <1>7, UpToGrows
<1>9. /\ \A m \in 1 .. Cardinality(V!Gaps) :
           V!Nth(V!Gaps, m) \in V!Gaps /\ Cardinality(UpTo(V!Gaps, V!Nth(V!Gaps, m))) = m
      /\ \A i, j \in V!Gaps :
           Cardinality(UpTo(V!Gaps, i)) = Cardinality(UpTo(V!Gaps, j)) => i = j
  BY <1>7, NthFacts
<1>10. \A m \in 1 .. Cardinality(V!Gaps) : \E i \in V!Gaps : V!Before(i) = m
  BY <1>6, <1>9
<1>11. \A i, j \in V!Gaps : V!Before(i) = V!Before(j) => i = j
  BY <1>6, <1>9
<1> QED BY <1>4, <1>5, <1>6, <1>8, <1>10, <1>11

\* What a place of the table holds.
LEMMA PlaceHolds ==
  ASSUME ColumnLimits, order \in Seq(V!Names)
  PROVE  /\ V!arranged = [i \in 1 .. Len(ColumnDefs) |-> V!arranged[i]]
         /\ \A i \in 1 .. Len(ColumnDefs) :
              /\ i \notin V!Gaps => V!arranged[i] = ColumnDefs[i]
              /\ i \in V!Gaps => /\ V!arranged[i] = V!ordered[V!Before(i)]
                                 /\ V!arranged[i] \in V!Movable
<1>1. DOMAIN ColumnDefs = 1 .. Len(ColumnDefs)
  BY DefsFacts
<1>2. V!arranged = [i \in 1 .. Len(ColumnDefs) |-> V!arranged[i]]
  BY <1>1 DEF V!arranged
<1>3. ASSUME NEW i \in 1 .. Len(ColumnDefs), i \notin V!Gaps PROVE V!arranged[i] = ColumnDefs[i]
  <2>1. ColumnDefs[i] \in FixedColumns
    BY <1>3, DefsFacts
  <2> QED BY <1>1, <2>1 DEF V!arranged
<1>4. ASSUME NEW i \in 1 .. Len(ColumnDefs), i \in V!Gaps
      PROVE  /\ V!arranged[i] = V!ordered[V!Before(i)] /\ V!arranged[i] \in V!Movable
  <2>1. ColumnDefs[i] \notin FixedColumns
    BY <1>4, DefsFacts
  <2>2. V!Before(i) \in DOMAIN V!ordered /\ V!Before(i) \in 1 .. Len(V!ordered)
    BY <1>4, PlacesFilled
  <2>3. V!arranged[i] = V!ordered[V!Before(i)]
    BY <1>1, <2>1, <2>2 DEF V!arranged
  <2>4. V!ordered \in Seq(V!Movable)
    BY OrderedOnce DEF Once
  <2>5. V!ordered[V!Before(i)] \in V!Movable
    BY <2>2, <2>4
  <2> QED BY <2>3, <2>5
<1> QED BY <1>2, <1>3, <1>4

\* The table has every column once, the fixed ones at their places.
LEMMA ArrangedOnce ==
  ASSUME ColumnLimits, order \in Seq(V!Names)
  PROVE  Once(V!arranged, V!Columns) /\ Len(V!arranged) = Len(ColumnDefs)
<1> DEFINE a == V!arranged
           n == Len(ColumnDefs)
<1>1. /\ a = [i \in 1 .. n |-> a[i]]
      /\ \A i \in 1 .. n : /\ i \notin V!Gaps => a[i] = ColumnDefs[i]
                           /\ i \in V!Gaps => a[i] = V!ordered[V!Before(i)] /\ a[i] \in V!Movable
  BY PlaceHolds
<1>2. /\ n \in Nat /\ V!Gaps \in SUBSET (1 .. n)
      /\ \A c : c \in V!Columns <=> \E i \in 1 .. n : ColumnDefs[i] = c
      /\ \A i, j \in 1 .. n : ColumnDefs[i] = ColumnDefs[j] => i = j
      /\ \A i \in 1 .. n : i \in V!Gaps <=> ColumnDefs[i] \notin FixedColumns
  BY DefsFacts
<1>3. \A c : c \in V!Movable <=> c \in V!Columns /\ c \notin FixedColumns
  BY ToggleableOnce
<1> HIDE DEF a, n
<1>4. \A i \in 1 .. n : /\ a[i] \in V!Columns
                        /\ i \in V!Gaps <=> a[i] \notin FixedColumns
  BY <1>1, <1>2, <1>3
<1>5. a \in Seq(V!Columns) /\ Len(a) = n
  BY <1>1, <1>2, <1>4
<1>6. ASSUME NEW i \in 1 .. n, NEW j \in 1 .. n, a[i] = a[j] PROVE i = j
  <2>1. CASE i \notin V!Gaps
    <3>1. j \notin V!Gaps
      BY <1>4, <1>6, <2>1
    <3> QED BY <1>1, <1>2, <1>6, <2>1, <3>1
  <2>2. CASE i \in V!Gaps
    <3>1. j \in V!Gaps
      BY <1>4, <1>6, <2>2
    <3>2. V!ordered[V!Before(i)] = V!ordered[V!Before(j)]
      BY <1>1, <1>6, <2>2, <3>1
    <3>3. V!Before(i) \in 1 .. Len(V!ordered) /\ V!Before(j) \in 1 .. Len(V!ordered)
      BY <2>2, <3>1, PlacesFilled
    <3>4. \A k, l \in 1 .. Len(V!ordered) : V!ordered[k] = V!ordered[l] => k = l
      BY OrderedOnce DEF Once
    <3>5. V!Before(i) = V!Before(j)
      BY <3>2, <3>3, <3>4
    <3> QED BY <2>2, <3>1, <3>5, PlacesFilled
  <2> QED BY <2>1, <2>2
<1>7. ASSUME NEW c \in V!Columns PROVE \E i \in 1 .. n : a[i] = c
  <2>1. CASE c \in FixedColumns
    <3>1. PICK i \in 1 .. n : ColumnDefs[i] = c
      BY <1>2
    <3> QED BY <1>1, <1>2, <2>1, <3>1
  <2>2. CASE c \notin FixedColumns
    <3>1. c \in V!Movable
      BY <1>3, <2>2
    <3>2. PICK m \in 1 .. Len(V!ordered) : V!ordered[m] = c
      BY <3>1, OrderedOnce DEF Once
    <3>3. m \in 1 .. Cardinality(V!Gaps)
      BY <3>2, PlacesFilled
    <3>4. PICK i \in V!Gaps : V!Before(i) = m
      BY <3>3, PlacesFilled
    <3>5. i \in 1 .. n /\ a[i] = c
      BY <1>1, <1>2, <3>2, <3>4
    <3> QED BY <3>5
  <2> QED BY <2>1, <2>2
<1> QED BY <1>5, <1>6, <1>7 DEF Once, a, n

\* What is shown: each column once, and those that neither the user nor the width
\* of the window took away.
LEMMA ShownOnce ==
  ASSUME ColumnLimits, order \in Seq(V!Names)
  PROVE  /\ \A i, j \in DOMAIN V!visible : V!visible[i] = V!visible[j] => i = j
         /\ V!Movable \ hidden = (V!Range(V!visible) \ FixedColumns) \union V!suppressed
<1> DEFINE a == V!arranged
           B == {i \in DOMAIN a : V!isShown(a[i])}
           v == V!visible
<1>1. /\ a \in Seq(V!Columns) /\ DOMAIN a = 1 .. Len(a)
      /\ \A c \in V!Columns : \E i \in 1 .. Len(a) : a[i] = c
      /\ \A i, j \in 1 .. Len(a) : a[i] = a[j] => i = j
  BY ArrangedOnce DEF Once
<1>2. v = V!Kept(a, B)
  BY DEF V!visible
<1>3. /\ B \in SUBSET (1 .. Len(a))
      /\ \A i \in 1 .. Len(a) : i \in B <=> V!isShown(a[i])
  BY <1>1
<1> HIDE DEF a, B, v
<1>4. IsKept(v, a, B, V!Columns)
  BY <1>1, <1>2, <1>3, KeptFacts
<1>5. /\ v \in Seq(V!Columns) /\ DOMAIN v = 1 .. Cardinality(B)
      /\ \A m \in DOMAIN v : \E k \in B : v[m] = a[k]
      /\ \A k \in B : \E m \in DOMAIN v : v[m] = a[k]
  <2>1. v \in Seq(V!Columns) /\ Len(v) = Cardinality(B)
    BY <1>4 DEF IsKept
  <2>2. DOMAIN v = 1 .. Cardinality(B)
    BY <2>1
  <2> QED BY <1>4, <2>1, <2>2 DEF IsKept
<1>6. \A k, l \in B : a[k] = a[l] => k = l
  BY <1>1, <1>3
<1>7. \A i, j \in DOMAIN v : v[i] = v[j] => i = j
  BY <1>4, <1>5, <1>6 DEF IsKept
<1>8. \A c : c \in V!Range(v) <=> \E m \in DOMAIN v : v[m] = c
  BY DEF V!Range
<1>9. \A c : c \in V!Range(v) <=> c \in V!Columns /\ V!isShown(c)
  <2>1. ASSUME NEW c, c \in V!Range(v) PROVE c \in V!Columns /\ V!isShown(c)
    <3>1. PICK k \in B : c = a[k]
      BY <1>5, <1>8, <2>1
    <3>2. k \in 1 .. Len(a) /\ a[k] \in V!Columns
      BY <1>1, <1>3
    <3> QED BY <1>3, <3>1, <3>2
  <2>2. ASSUME NEW c, c \in V!Columns, V!isShown(c) PROVE c \in V!Range(v)
    <3>1. PICK k \in 1 .. Len(a) : a[k] = c
      BY <1>1, <2>2
    <3>2. k \in B
      BY <1>3, <2>2, <3>1
    <3> QED BY <1>5, <1>8, <3>1, <3>2
  <2> QED BY <2>1, <2>2
<1>10. \A c : c \in V!Movable <=> c \in V!Columns /\ c \notin FixedColumns
  BY ToggleableOnce
<1>11. \A c : c \in V!suppressed <=> c \in V!Movable /\ c \notin hidden /\ ~V!fits(c)
  BY DEF V!suppressed
<1>12. V!Movable \ hidden = (V!Range(v) \ FixedColumns) \union V!suppressed
  BY <1>9, <1>10, <1>11 DEF V!isShown
<1> QED BY <1>7, <1>12 DEF v

\* The list after a move is one of columns that move.
LEMMA MovedList ==
  ASSUME ColumnLimits, order \in Seq(V!Names), NEW c, NEW target,
         {c, target} \subseteq V!Range(V!ordered)
  PROVE  V!Moved(c, target) \in Seq(V!Names)
<1> DEFINE o == V!ordered
           B == {i \in DOMAIN o : o[i] # c}
           rest == V!Kept(o, B)
           to == CHOOSE i \in DOMAIN o : o[i] = target
<1>1. o \in Seq(V!Movable) /\ DOMAIN o = 1 .. Len(o) /\ Len(o) \in Nat
  BY OrderedOnce DEF Once
<1>2. to \in 1 .. Len(o) /\ c \in V!Movable
  BY <1>1 DEF V!Range
<1>3. \A i, j \in 1 .. Len(o) : o[i] = o[j] => i = j
  BY OrderedOnce DEF Once
<1>4. PICK from \in 1 .. Len(o) : o[from] = c
  BY <1>1 DEF V!Range
<1>5. B = (1 .. Len(o)) \ {from}
  BY <1>1, <1>3, <1>4
<1>6. B \in SUBSET (1 .. Len(o))
  BY <1>1
<1> HIDE DEF B, o
<1>7. IsKept(rest, o, B, V!Movable)
  BY <1>1, <1>6, KeptFacts
<1>8. rest \in Seq(V!Movable) /\ Len(rest) = Cardinality(B)
  BY <1>7 DEF IsKept
<1>9. Cardinality(B) = Len(o) - 1
  <2>1. IsFiniteSet(1 .. Len(o)) /\ Cardinality(1 .. Len(o)) = Len(o)
    <3>1. Len(o) \in Nat
      BY <1>1
    <3>2. \A n \in Nat : IsFiniteSet(1 .. n) /\ Cardinality(1 .. n) = n
      BY FS_Interval
    <3> QED BY <3>1, <3>2
  <2> QED BY <1>4, <1>5, <2>1, FS_RemoveElement
<1> HIDE DEF rest, to
<1>10. SubSeq(rest, 1, to - 1) \in Seq(V!Movable) /\ SubSeq(rest, to, Len(rest)) \in Seq(V!Movable)
  <2>1. Len(rest) = Len(o) - 1 /\ \A m \in 1 .. Len(rest) : rest[m] \in V!Movable
    BY <1>8, <1>9
  <2>2. /\ \A m \in 1 .. to - 1 : rest[m] \in V!Movable
        /\ \A m \in to .. Len(rest) : rest[m] \in V!Movable
    BY <1>1, <1>2, <2>1
  <2> QED BY <1>1, <1>2, <1>8, <2>1, <2>2
<1>11. SubSeq(rest, 1, to - 1) \o <<c>> \o SubSeq(rest, to, Len(rest)) \in Seq(V!Movable)
  BY <1>2, <1>10
<1>12. V!Moved(c, target) = SubSeq(rest, 1, to - 1) \o <<c>> \o SubSeq(rest, to, Len(rest))
  BY DEF V!Moved, rest, to, B, o
<1>13. V!Movable \subseteq V!Names
  BY ToggleableOnce DEF V!Names
<1> QED BY <1>11, <1>12, <1>13

\* The stored order names only what may be named; what is stored is what was
\* chosen, but for the width of the column that is being dragged, if that has
\* been set; and the pointer holds one thing at a time.
ColumnsInv ==
  /\ order \in Seq(V!Names)
  /\ saved.hidden = hidden /\ saved.order = order
  /\ resizing = NoColumn => widths = saved.widths
  /\ resizing \notin DOMAIN widths => widths = saved.widths
  /\ \A c \in DOMAIN widths \ {resizing} : c \in DOMAIN saved.widths /\ widths[c] = saved.widths[c]
  /\ \A c \in DOMAIN saved.widths \ {resizing} : c \in DOMAIN widths
  /\ resizing # NoColumn => dragging = NoColumn

LEMMA ColumnsShow == ASSUME ColumnLimits PROVE ColumnsInv => V!ColumnsWhole
<1> SUFFICES ASSUME ColumnsInv PROVE V!ColumnsWhole
  OBVIOUS
<1>1. order \in Seq(V!Names) /\ saved.hidden = hidden /\ saved.order = order
  BY DEF ColumnsInv
<1>2. Once(V!arranged, V!Columns) /\ Len(V!arranged) = Len(ColumnDefs)
  BY <1>1, ArrangedOnce
<1>3. V!Range(V!arranged) = V!Columns
  <2>1. /\ DOMAIN V!arranged = 1 .. Len(V!arranged)
        /\ \A i \in 1 .. Len(V!arranged) : V!arranged[i] \in V!Columns
    BY <1>2 DEF Once
  <2>2. \A c : c \in V!Range(V!arranged) <=> \E i \in DOMAIN V!arranged : V!arranged[i] = c
    BY DEF V!Range
  <2>3. \A c \in V!Columns : \E i \in 1 .. Len(V!arranged) : V!arranged[i] = c
    BY <1>2 DEF Once
  <2>4. \A c : c \in V!Range(V!arranged) <=> c \in V!Columns
    BY <2>1, <2>2, <2>3
  <2> QED BY <2>4
<1>4. \A i \in DOMAIN ColumnDefs : ColumnDefs[i] \in FixedColumns => V!arranged[i] = ColumnDefs[i]
  BY <1>1, PlaceHolds, DefsFacts
<1>5. /\ \A i, j \in DOMAIN V!visible : V!visible[i] = V!visible[j] => i = j
      /\ V!Movable \ hidden = (V!Range(V!visible) \ FixedColumns) \union V!suppressed
  BY <1>1, ShownOnce
<1>6. \A c \in V!Columns \ {resizing} :
        V!widthOf(c) = IF c \in DOMAIN saved.widths THEN saved.widths[c] ELSE 0
  BY DEF ColumnsInv, V!widthOf
<1> QED BY <1>1, <1>2, <1>3, <1>4, <1>5, <1>6 DEF V!ColumnsWhole

LEMMA ColumnsStart == ASSUME ColumnLimits PROVE V!Init => ColumnsInv
BY DEF ColumnLimits, V!Init, ColumnsInv

\* What a step that stores leaves.
LEMMA Stored ==
  ASSUME order' \in Seq(V!Names), V!Store, resizing' # NoColumn => dragging' = NoColumn
  PROVE  ColumnsInv'
BY DEF V!Store, ColumnsInv

LEMMA MoveStores ==
  ASSUME ColumnLimits, ColumnsInv, NEW c, NEW target, V!moveTo(c, target)
  PROVE  order' \in Seq(V!Names) /\ V!Store /\ resizing' = resizing
<1>1. order \in Seq(V!Names)
  BY DEF ColumnsInv
<1>2. order' \in Seq(V!Names)
  <2>1. CASE c # target /\ {c, target} \subseteq V!Range(V!ordered)
    BY <1>1, <2>1, MovedList DEF V!moveTo
  <2>2. CASE ~(c # target /\ {c, target} \subseteq V!Range(V!ordered))
    BY <1>1, <2>2 DEF V!moveTo
  <2> QED BY <2>1, <2>2
<1> QED BY <1>2 DEF V!moveTo

LEMMA ColumnsStep == ASSUME ColumnLimits PROVE ColumnsInv /\ [V!Next]_(V!vars) => ColumnsInv'
<1> SUFFICES ASSUME ColumnsInv, [V!Next]_(V!vars) PROVE ColumnsInv'
  OBVIOUS
<1>1. order \in Seq(V!Names)
  BY DEF ColumnsInv
<1>2. CASE V!Enter
  BY <1>2 DEF V!Enter, ColumnsInv
<1>3. CASE V!DragEnd \/ (\E w \in ViewWidths : V!Resize(w)) \/ UNCHANGED V!vars
  BY <1>3 DEF V!DragEnd, V!Resize, V!vars, V!choices, ColumnsInv
<1>4. CASE V!onUp
  <2>1. CASE resizing \in DOMAIN widths
    <3>1. V!Store /\ order' = order /\ resizing' = NoColumn
      BY <1>4, <2>1 DEF V!onUp
    <3> QED BY <1>1, <3>1, Stored
  <2>2. CASE resizing \notin DOMAIN widths
    BY <1>4, <2>2 DEF V!onUp, ColumnsInv
  <2> QED BY <2>1, <2>2
<1>5. CASE V!reset
  <2>1. /\ V!Store /\ order' = <<>> /\ dragging' = dragging
        /\ resizing' = resizing /\ resizing = NoColumn
    BY <1>5 DEF V!reset
  <2>2. order' \in Seq(V!Names)
    BY <2>1
  <2> QED BY <2>1, <2>2, Stored
<1>6. ASSUME NEW c \in V!Columns, V!toggle(c) \/ V!resetWidth(c) PROVE ColumnsInv'
  <2>1. V!Store /\ order' = order /\ resizing' = resizing /\ resizing = NoColumn
    BY <1>6 DEF V!toggle, V!resetWidth
  <2> QED BY <1>1, <2>1, Stored
<1>7. ASSUME NEW c \in V!Columns, V!DragStart(c) \/ V!startResize(c) PROVE ColumnsInv'
  BY <1>7 DEF V!DragStart, V!startResize, V!choices, ColumnsInv
<1>8. ASSUME NEW c \in V!Columns, V!onDrop(c) PROVE ColumnsInv'
  <2>1. V!moveTo(dragging, c) /\ dragging' = NoColumn
    BY <1>8 DEF V!onDrop
  <2> QED BY <2>1, MoveStores, Stored
<1>9. ASSUME NEW c \in V!Columns, NEW up \in BOOLEAN, V!step(c, up) PROVE ColumnsInv'
  <2>1. \E to : V!moveTo(c, V!ordered[to])
    BY <1>9 DEF V!step
  <2>2. resizing = NoColumn
    BY <1>9 DEF V!step
  <2> QED BY <2>1, <2>2, MoveStores, Stored
<1>10. ASSUME NEW px \in Pixels, V!onMove(px) PROVE ColumnsInv'
  <2>1. /\ resizing # NoColumn /\ resizing' = resizing /\ hidden' = hidden /\ order' = order
        /\ saved' = saved /\ dragging' = dragging
        /\ DOMAIN widths' = DOMAIN widths \union {resizing}
        /\ \A c \in DOMAIN widths \ {resizing} : widths'[c] = widths[c]
    BY <1>10 DEF V!onMove
  <2> QED BY <2>1 DEF ColumnsInv
<1> QED BY <1>2, <1>3, <1>4, <1>5, <1>6, <1>7, <1>8, <1>9, <1>10 DEF V!Next

\* For any columns, choices found in the storage and widths of the window: the
\* table has every column once (ColumnsWhole).
THEOREM ColumnsAreWhole == ASSUME ColumnLimits PROVE V!Spec => []V!ColumnsWhole
BY ColumnsStart, ColumnsStep, ColumnsShow, PTL DEF V!Spec
================================================================================
