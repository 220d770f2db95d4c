------------------------------- MODULE MCViews -------------------------------
(***************************************************************************)
(* The pages and drawers of the front end, with what is behind them, and   *)
(* the limits on requests, as TLC runs them: one world for each, of which  *)
(* the initial state chooses one.  The panels are the module this one      *)
(* extends; the others are instances with names of their own.              *)
(***************************************************************************)
EXTENDS Panels, TLC, SequencesExt

VARIABLES
  view,
  step, submitting, closed, account, region, ad, shape, imageId, subnetId, publicIp, ads, shapes,
  images, subnets, optionSeq, shapesKey, loadingAds, wAsked, picks, failures, wFailed, hasty,
  unchecked,
  power, net, at, number, changes, jobs, ended, id, detail, dAsked, answers, adding, loose,
  looseAsked, chosen, confirm, calls, behind,
  rules, lists, sel, nSeq, loads, saving, saves, dialog, confirmed, edits,
  oci, accountId, cSeq, cAsked, cAnswers, data, removed, acting, deletions, deleted, forgot,
  oldest, newest, auditSeq, aAsked, aAnswers, audit, auditMore, auditLoading,
  known, enabled, joined, bound, pCalls, made, contested, list, pending, pAnswers, text, preview,
  parsing, pool, egress, testing, tested, chose, pSaving,
  stored, hShown, turn, editing, hSaving, hTesting, hAsked, hAnswers, hLoads, hCalls, blurred,
  oStored, policy, policyDays, reading, question, change, reads, writes, overlapped,
  kStored, cached, clock, kShown, filter, rows, drawer, kQuestion, tasks, count, crossed, kBlurred,
  hidden, order, widths, saved, vw, resizing, dragging, steps,
  instance, left, shapeMeta, asking, size, vpu, ocpu, mem, baseline, eQuestion, applyingVolume,
  applyingShape, moves, eChanges, reshaped,
  tStored, tShown, tTurn, tEditing, tSaves, tLoads, bulks, selection, stateFilter, accountFilter,
  groupByAccount, collapsedGroups, sort, savedSort, tEdits, sent, loaded, tChosen, tOverlapped,
  built, via, place, attempt, canceled, global, tenancy

CONSTANTS Unset, NoDomain, Unlimited

\* The records that a policy and an account are changed by.
PolicyRecords == [asked : {90, 365, Unset}, sent : {90, 365, Unset},
                  result : {90, 365, Unset, NoDomain, Nothing}, ok : BOOLEAN]
AccountRecords == [key : {"old", "new"}, enabled : BOOLEAN, status : {"unchecked", "ok", "error"},
                   known : BOOLEAN, at : 0 .. 1]

\* Nothing stands for what is not there in every part: no proxy, no expiry, no
\* request, no account; and no list of rules is the one that is missing.
ASSUME NothingIsApart ==
  /\ Nothing \notin {"direct", Unset, NoDomain, Unlimited, 90, 365}
  /\ \A s \in (SUBSET {"p"}) \union (SUBSET {"e", "f"}) : s # Nothing
  /\ \A r \in PolicyRecords \union AccountRecords : r # Nothing
  /\ [missing |-> TRUE] \notin Ranges
  /\ Nothing \notin {"s2", "d1", "d2", "e1", "e2"}
  /\ \A k \in {"a", "b"} \X {"r1", "r2"} :
       k # Nothing /\ \A d \in {"d1", "d2", "e1", "e2"} : <<k, d>> # Nothing

\* The worlds of the wizard, the rules and the resources.
MCRegionsOf == [a |-> <<"r1", "r2">>, b |-> <<"r1">>]
MCKeys == {<<"a", "r1">>, <<"a", "r2">>, <<"b", "r1">>}
MCDomainsOf == [k \in MCKeys |-> IF k[1] = "b" THEN <<"e1", "e2">>
                                 ELSE IF k[2] = "r1" THEN <<"d1">> ELSE <<"d2">>]
MCShapesAt == [d1 |-> {"arm"}, d2 |-> {"arm", "amd"}, e1 |-> {"arm", "amd"}, e2 |-> {"arm"}]
MCImagesOf == [arm |-> {"armUbuntu"}, amd |-> {"amdUbuntu", "amdOther"}]
MCArmAt == [d1 |-> {"arm"}, d2 |-> {"arm"}, e1 |-> {"arm"}, e2 |-> {"arm"}]
MCArmImages == [arm |-> {"armUbuntu", "armOther"}]
MCSubnetsOf == [k \in MCKeys |-> IF k[1] = "b" THEN {"s2"} ELSE IF k[2] = "r1" THEN {"s1"} ELSE {}]

MCForm(way, what, from, to) == [direction |-> way, protocol |-> what, cidr |-> from, ports |-> to]
MCForms == {MCForm("ingress", "tcp", "any4", <<1, 65535>>),
            MCForm("ingress", "tcp", "any4", <<0, 65536>>)}
MCOthers == {MCForm("ingress", "udp", "some", <<>>)}
MCTemplate(way, what, port, danger) ==
  [direction |-> way, protocol |-> what, port |-> port, dangerous |-> danger]
MCTemplates == {MCTemplate("ingress", "all", 0, TRUE)}
MCInitially ==
  [ingress |-> <<[direction |-> "ingress", protocol |-> "tcp", cidr |-> "any4",
                  range |-> <<80, 80>>]>>,
   egress |-> <<>>]

MCOwner(r) == "a"

MCDefs == <<"check", "ip", "boot", "note", "actions">>
MCNeedsView == [c \in ToSet(MCDefs) |-> IF c = "boot" THEN 2 ELSE 0]
MCMinWidth == [c \in ToSet(MCDefs) |-> IF c \in {"check", "actions"} THEN 0 ELSE 2]
MCFound == {[hidden |-> {}, order |-> <<>>, widths |-> <<>>],
            [hidden |-> {"note", "old"}, order |-> <<"note", "old", "note", "ip">>,
             widths |-> "old" :> 1],
            [hidden |-> {"boot"}, order |-> <<"note">>, widths |-> "boot" :> 3]}

MCConfig(volume, cpus, memory, base, of, is) ==
  [boot |-> volume, vpu |-> 0, ocpu |-> cpus, mem |-> memory, baseline |-> base,
   shape |-> of, state |-> is]
MCConfigs == {MCConfig(1, 1, 2, "none", "arm", "running"),
              MCConfig(1, 2, 3, "none", "arm", "changing"),
              MCConfig(1, 1, 2, "half", "arm", "running"),
              MCConfig(2, 1, 1, "none", "e5", "running")}
MCMetaOf == [s \in {"arm", "e5"} |->
               [flexible |-> TRUE, ratio |-> IF s = "arm" THEN 2 ELSE 3, ocpus |-> 2, burst |-> s = "arm"]]

MCAccountOf == ("i" :> "a") @@ ("j" :> "b") @@ ("k" :> "a")
MCTableRow(called, noted, runs, from) ==
  [name |-> called, note |-> noted, running |-> runs, since |-> from]
MCRows == {[i |-> MCTableRow(3, 0, TRUE, 2), j |-> MCTableRow(2, v[1], FALSE, v[3]),
            k |-> MCTableRow(1, v[2], TRUE, 1)] : v \in [1 .. 3 -> 1 .. 2]}
MCRow == {[i |-> MCTableRow(1, 0, TRUE, 1)]}

-----------------------------------------------------------------------------
W1 == INSTANCE LaunchWizard WITH
        Accounts <- {"a"}, RegionsOf <- MCRegionsOf, DomainsOf <- MCDomainsOf,
        ShapesAt <- MCArmAt, ImagesOf <- MCArmImages, SubnetsOf <- MCSubnetsOf,
        Prohibiting <- {"s2"}, Presets <- {"arm"}, FirstShape <- "arm", MaxPicks <- 2,
        MaxFailures <- 0, asked <- wAsked, failed <- wFailed
W2 == INSTANCE LaunchWizard WITH
        Accounts <- {"a", "b"}, RegionsOf <- MCRegionsOf, DomainsOf <- MCDomainsOf,
        ShapesAt <- MCShapesAt, ImagesOf <- MCImagesOf, SubnetsOf <- MCSubnetsOf,
        Prohibiting <- {"s2"}, Presets <- {"arm", "amd"}, FirstShape <- "arm", MaxPicks <- 1,
        MaxFailures <- 0, asked <- wAsked, failed <- wFailed
W3 == INSTANCE LaunchWizard WITH
        Accounts <- {"b"}, RegionsOf <- MCRegionsOf, DomainsOf <- MCDomainsOf,
        ShapesAt <- MCShapesAt, ImagesOf <- MCImagesOf, SubnetsOf <- MCSubnetsOf,
        Prohibiting <- {"s2"}, Presets <- {"arm", "amd"}, FirstShape <- "arm", MaxPicks <- 1,
        MaxFailures <- 1, asked <- wAsked, failed <- wFailed
D1 == INSTANCE InstanceDrawer WITH
        Instances <- {"i", "t"}, Tabs <- {"storage"}, MaxVnics <- 1, MaxChanges <- 2,
        asked <- dAsked
D2 == INSTANCE InstanceDrawer WITH
        Instances <- {"i"}, Tabs <- {"network"}, MaxVnics <- 2, MaxChanges <- 3, asked <- dAsked
N1 == INSTANCE NetworkRules WITH
        Lists <- Ranges, InOrder <- SetToSeq(Ranges), Forms <- MCForms, Templates <- MCTemplates,
        Others <- MCOthers, Initially <- MCInitially, MaxLoads <- 2, MaxEdits <- 1, seq <- nSeq
N2 == INSTANCE NetworkRules WITH
        Lists <- {FirstRange}, InOrder <- <<FirstRange>>, Forms <- MCForms,
        Templates <- MCTemplates, Others <- MCOthers, Initially <- MCInitially, MaxLoads <- 2,
        MaxEdits <- 2, seq <- nSeq
C == INSTANCE Cleanup WITH
        Accounts <- {"a", "b"}, Resources <- {"v", "w"}, Owner <- MCOwner, MaxLoads <- 3,
        seq <- cSeq, asked <- cAsked, answers <- cAnswers
A == INSTANCE AuditLog WITH
        MaxId <- 3, PageSize <- 1, MaxLoads <- 3, asked <- aAsked, answers <- aAnswers
P1 == INSTANCE ProxyPool WITH
        Proxies <- {"p"}, Accounts <- {"a"}, NewAccount <- "n", Direct <- "direct",
        Unset <- Nothing, Texts <- {}, MaxCalls <- 2, calls <- pCalls, answers <- pAnswers,
        saving <- pSaving
P2 == INSTANCE ProxyPool WITH
        Proxies <- {"p"}, Accounts <- {"a"}, NewAccount <- "n", Direct <- "direct",
        Unset <- Nothing, Texts <- {"t", "u"}, MaxCalls <- 1, calls <- pCalls,
        answers <- pAnswers, saving <- pSaving
H == INSTANCE Channels WITH
        Ids <- {"i"}, Events <- {"e", "f"}, Secrets <- {"s"}, Masked <- "dots", MaxCalls <- 2,
        shown <- hShown, saving <- hSaving, testing <- hTesting, asked <- hAsked,
        answers <- hAnswers, loads <- hLoads, calls <- hCalls
O == INSTANCE PasswordPolicy WITH
        Days <- {90, 365}, FirstDays <- 365, MaxReads <- 2, MaxWrites <- 2, stored <- oStored
K1 == INSTANCE Accounts WITH
        Ids <- {"i"}, Keys <- {"old", "new"}, Accepted <- {"new"}, MaxTasks <- 3, MaxClock <- 0,
        stored <- kStored, shown <- kShown, question <- kQuestion, blurred <- kBlurred
K2 == INSTANCE Accounts WITH
        Ids <- {"i", "j"}, Keys <- {"old", "new"}, Accepted <- {"new"}, MaxTasks <- 2,
        MaxClock <- 1, stored <- kStored, shown <- kShown, question <- kQuestion,
        blurred <- kBlurred
L == INSTANCE Columns WITH
        Defs <- MCDefs, Fixed <- {"check", "actions"}, NeedsView <- MCNeedsView,
        MinWidth <- MCMinWidth, MaxWidth <- 4, Unknown <- {"old"}, Found <- MCFound,
        Pixels <- {1, 3}, Views <- {1, 2}, None <- "none", MaxSteps <- 2
E == INSTANCE ConfigEditor WITH
        Configs <- MCConfigs, MetaOf <- MCMetaOf, FlexByName <- {"arm", "e5"}, DefaultRatio <- 2,
        DefaultOcpu <- 2, Arm <- {"arm"}, Sizes <- {1, 2}, Vpus <- {0, 1}, Memories <- {1, 2, 4},
        Quotas <- {1, Unlimited}, MaxMoves <- 2, MaxChanges <- 2, question <- eQuestion,
        changes <- eChanges
T1 == INSTANCE InstanceTable WITH
        Ids <- {"i", "j", "k"}, AccountOf <- MCAccountOf, FromServer <- MCRows, Notes <- {1, 2},
        Names <- {1, 2, 3}, MaxEdits <- 0, MaxLoads <- 0, MaxChoices <- 2, stored <- tStored,
        shown <- tShown, turn <- tTurn, editing <- tEditing, saves <- tSaves, loads <- tLoads,
        edits <- tEdits, chosen <- tChosen, overlapped <- tOverlapped
T2 == INSTANCE InstanceTable WITH
        Ids <- {"i"}, AccountOf <- MCAccountOf, FromServer <- MCRow, Notes <- {1, 2},
        Names <- {1, 2}, MaxEdits <- 2, MaxLoads <- 1, MaxChoices <- 0, stored <- tStored,
        shown <- tShown, turn <- tTurn, editing <- tEditing, saves <- tSaves, loads <- tLoads,
        edits <- tEdits, chosen <- tChosen, overlapped <- tOverlapped
Q1 == INSTANCE RequestSlots WITH
        Requests <- {"q1", "q2", "q3"}, Accounts <- {"a", "b"}, NoClient <- Nothing, Global <- 2,
        PerTenancy <- 1, MaxRetries <- 0, MaxBuilds <- 0
Q2 == INSTANCE RequestSlots WITH
        Requests <- {"q1", "q2", "q3"}, Accounts <- {"a"}, NoClient <- Nothing, Global <- 2,
        PerTenancy <- 1, MaxRetries <- 1, MaxBuilds <- 0
Q3 == INSTANCE RequestSlots WITH
        Requests <- {"q1", "q2", "q3"}, Accounts <- {"a"}, NoClient <- Nothing, Global <- 2,
        PerTenancy <- 1, MaxRetries <- 0, MaxBuilds <- 1

wizardVars == <<step, submitting, closed, account, region, ad, shape, imageId, subnetId, publicIp,
                ads, shapes, images, subnets, optionSeq, shapesKey, loadingAds, wAsked, picks,
                failures, wFailed, hasty, unchecked>>
drawerVars == <<power, net, at, number, changes, jobs, ended, id, detail, dAsked, answers, adding,
                loose, looseAsked, chosen, confirm, calls, behind>>
rulesVars == <<rules, lists, sel, nSeq, loads, saving, saves, dialog, confirmed, edits>>
cleanupVars == <<oci, accountId, cSeq, cAsked, cAnswers, data, removed, acting, deletions,
                 deleted, forgot>>
auditVars == <<oldest, newest, auditSeq, aAsked, aAnswers, audit, auditMore, auditLoading>>
proxiesVars == <<known, enabled, joined, bound, pCalls, made, contested, list, pending, pAnswers,
                 text, preview, parsing, pool, egress, testing, tested, chose, pSaving>>
channelsVars == <<stored, hShown, turn, editing, hSaving, hTesting, hAsked, hAnswers, hLoads,
                  hCalls, blurred>>
policyVars == <<oStored, policy, policyDays, reading, question, change, reads, writes, overlapped>>
accountsVars == <<kStored, cached, clock, kShown, filter, rows, drawer, kQuestion, tasks, count,
                  crossed, kBlurred>>
columnsVars == <<hidden, order, widths, saved, vw, resizing, dragging, steps>>
editorVars == <<instance, left, shapeMeta, asking, size, vpu, ocpu, mem, baseline, eQuestion,
                applyingVolume, applyingShape, moves, eChanges, reshaped>>
tableVars == <<tStored, tShown, tTurn, tEditing, tSaves, tLoads, bulks, selection, stateFilter,
               accountFilter, groupByAccount, collapsedGroups, sort, savedSort, tEdits, sent,
               loaded, tChosen, tOverlapped>>
slotsVars == <<built, via, place, attempt, canceled, global, tenancy>>
all == <<view, vars, wizardVars, drawerVars, rulesVars, cleanupVars, auditVars, proxiesVars,
        channelsVars, policyVars, accountsVars, columnsVars, editorVars, tableVars, slotsVars>>

wizardIdle ==
  /\ step = 0 /\ submitting = 0 /\ closed = 0 /\ account = 0 /\ region = 0 /\ ad = 0
  /\ shape = 0 /\ imageId = 0 /\ subnetId = 0 /\ publicIp = 0 /\ ads = 0 /\ shapes = 0
  /\ images = 0 /\ subnets = 0 /\ optionSeq = 0 /\ shapesKey = 0 /\ loadingAds = 0
  /\ wAsked = 0 /\ picks = 0 /\ failures = 0 /\ wFailed = 0 /\ hasty = 0
  /\ unchecked = 0
drawerIdle ==
  /\ power = 0 /\ net = 0 /\ at = 0 /\ number = 0 /\ changes = 0 /\ jobs = 0 /\ ended = 0
  /\ id = 0 /\ detail = 0 /\ dAsked = 0 /\ answers = 0 /\ adding = 0 /\ loose = 0
  /\ looseAsked = 0 /\ chosen = 0 /\ confirm = 0 /\ calls = 0 /\ behind = 0
rulesIdle ==
  /\ rules = 0 /\ lists = 0 /\ sel = 0 /\ nSeq = 0 /\ loads = 0 /\ saving = 0
  /\ saves = 0 /\ dialog = 0 /\ confirmed = 0 /\ edits = 0
cleanupIdle ==
  /\ oci = 0 /\ accountId = 0 /\ cSeq = 0 /\ cAsked = 0 /\ cAnswers = 0 /\ data = 0
  /\ removed = 0 /\ acting = 0 /\ deletions = 0 /\ deleted = 0 /\ forgot = 0
auditIdle ==
  /\ oldest = 0 /\ newest = 0 /\ auditSeq = 0 /\ aAsked = 0 /\ aAnswers = 0 /\ audit = 0
  /\ auditMore = 0 /\ auditLoading = 0
proxiesIdle ==
  /\ known = 0 /\ enabled = 0 /\ joined = 0 /\ bound = 0 /\ pCalls = 0 /\ made = 0
  /\ contested = 0 /\ list = 0 /\ pending = 0 /\ pAnswers = 0 /\ text = 0 /\ preview = 0
  /\ parsing = 0 /\ pool = 0 /\ egress = 0 /\ testing = 0 /\ tested = 0 /\ chose = 0
  /\ pSaving = 0
channelsIdle ==
  /\ stored = 0 /\ hShown = 0 /\ turn = 0 /\ editing = 0 /\ hSaving = 0 /\ hTesting = 0
  /\ hAsked = 0 /\ hAnswers = 0 /\ hLoads = 0 /\ hCalls = 0 /\ blurred = 0
policyIdle ==
  /\ oStored = 0 /\ policy = 0 /\ policyDays = 0 /\ reading = 0 /\ question = 0
  /\ change = 0 /\ reads = 0 /\ writes = 0 /\ overlapped = 0
accountsIdle ==
  /\ kStored = 0 /\ cached = 0 /\ clock = 0 /\ kShown = 0 /\ filter = 0 /\ rows = 0
  /\ drawer = 0 /\ kQuestion = 0 /\ tasks = 0 /\ count = 0 /\ crossed = 0 /\ kBlurred = 0
columnsIdle ==
  /\ hidden = 0 /\ order = 0 /\ widths = 0 /\ saved = 0 /\ vw = 0 /\ resizing = 0
  /\ dragging = 0 /\ steps = 0
editorIdle ==
  /\ instance = 0 /\ left = 0 /\ shapeMeta = 0 /\ asking = 0 /\ size = 0 /\ vpu = 0
  /\ ocpu = 0 /\ mem = 0 /\ baseline = 0 /\ eQuestion = 0 /\ applyingVolume = 0
  /\ applyingShape = 0 /\ moves = 0 /\ eChanges = 0 /\ reshaped = 0
tableIdle ==
  /\ tStored = 0 /\ tShown = 0 /\ tTurn = 0 /\ tEditing = 0 /\ tSaves = 0 /\ tLoads = 0
  /\ bulks = 0 /\ selection = 0 /\ stateFilter = 0 /\ accountFilter = 0
  /\ groupByAccount = 0 /\ collapsedGroups = 0 /\ sort = 0 /\ savedSort = 0 /\ tEdits = 0
  /\ sent = 0 /\ loaded = 0 /\ tChosen = 0 /\ tOverlapped = 0
slotsIdle ==
  /\ built = 0 /\ via = 0 /\ place = 0 /\ attempt = 0 /\ canceled = 0 /\ global = 0
  /\ tenancy = 0

ViewsInit ==
  /\ Init
  /\ \/ view = "panels" /\ wizardIdle /\ drawerIdle /\ rulesIdle /\ cleanupIdle /\ auditIdle
        /\ proxiesIdle /\ channelsIdle /\ policyIdle /\ accountsIdle /\ columnsIdle
        /\ editorIdle /\ tableIdle /\ slotsIdle
     \/ view = "wizard1" /\ W1!Init /\ drawerIdle /\ rulesIdle /\ cleanupIdle /\ auditIdle
        /\ proxiesIdle /\ channelsIdle /\ policyIdle /\ accountsIdle /\ columnsIdle
        /\ editorIdle /\ tableIdle /\ slotsIdle
     \/ view = "wizard2" /\ W2!Init /\ drawerIdle /\ rulesIdle /\ cleanupIdle /\ auditIdle
        /\ proxiesIdle /\ channelsIdle /\ policyIdle /\ accountsIdle /\ columnsIdle
        /\ editorIdle /\ tableIdle /\ slotsIdle
     \/ view = "wizard3" /\ W3!Init /\ drawerIdle /\ rulesIdle /\ cleanupIdle /\ auditIdle
        /\ proxiesIdle /\ channelsIdle /\ policyIdle /\ accountsIdle /\ columnsIdle
        /\ editorIdle /\ tableIdle /\ slotsIdle
     \/ view = "drawer1" /\ D1!Init /\ wizardIdle /\ rulesIdle /\ cleanupIdle /\ auditIdle
        /\ proxiesIdle /\ channelsIdle /\ policyIdle /\ accountsIdle /\ columnsIdle
        /\ editorIdle /\ tableIdle /\ slotsIdle
     \/ view = "drawer2" /\ D2!Init /\ wizardIdle /\ rulesIdle /\ cleanupIdle /\ auditIdle
        /\ proxiesIdle /\ channelsIdle /\ policyIdle /\ accountsIdle /\ columnsIdle
        /\ editorIdle /\ tableIdle /\ slotsIdle
     \/ view = "rules1" /\ N1!Init /\ wizardIdle /\ drawerIdle /\ cleanupIdle /\ auditIdle
        /\ proxiesIdle /\ channelsIdle /\ policyIdle /\ accountsIdle /\ columnsIdle
        /\ editorIdle /\ tableIdle /\ slotsIdle
     \/ view = "rules2" /\ N2!Init /\ wizardIdle /\ drawerIdle /\ cleanupIdle /\ auditIdle
        /\ proxiesIdle /\ channelsIdle /\ policyIdle /\ accountsIdle /\ columnsIdle
        /\ editorIdle /\ tableIdle /\ slotsIdle
     \/ view = "cleanup" /\ C!Init /\ wizardIdle /\ drawerIdle /\ rulesIdle /\ auditIdle
        /\ proxiesIdle /\ channelsIdle /\ policyIdle /\ accountsIdle /\ columnsIdle
        /\ editorIdle /\ tableIdle /\ slotsIdle
     \/ view = "audit" /\ A!Init /\ wizardIdle /\ drawerIdle /\ rulesIdle /\ cleanupIdle
        /\ proxiesIdle /\ channelsIdle /\ policyIdle /\ accountsIdle /\ columnsIdle
        /\ editorIdle /\ tableIdle /\ slotsIdle
     \/ view = "proxies1" /\ P1!Init /\ wizardIdle /\ drawerIdle /\ rulesIdle /\ cleanupIdle
        /\ auditIdle /\ channelsIdle /\ policyIdle /\ accountsIdle /\ columnsIdle
        /\ editorIdle /\ tableIdle /\ slotsIdle
     \/ view = "proxies2" /\ P2!Init /\ wizardIdle /\ drawerIdle /\ rulesIdle /\ cleanupIdle
        /\ auditIdle /\ channelsIdle /\ policyIdle /\ accountsIdle /\ columnsIdle
        /\ editorIdle /\ tableIdle /\ slotsIdle
     \/ view = "channels" /\ H!Init /\ wizardIdle /\ drawerIdle /\ rulesIdle /\ cleanupIdle
        /\ auditIdle /\ proxiesIdle /\ policyIdle /\ accountsIdle /\ columnsIdle /\ editorIdle
        /\ tableIdle /\ slotsIdle
     \/ view = "policy" /\ O!Init /\ wizardIdle /\ drawerIdle /\ rulesIdle /\ cleanupIdle
        /\ auditIdle /\ proxiesIdle /\ channelsIdle /\ accountsIdle /\ columnsIdle
        /\ editorIdle /\ tableIdle /\ slotsIdle
     \/ view = "accounts1" /\ K1!Init /\ wizardIdle /\ drawerIdle /\ rulesIdle /\ cleanupIdle
        /\ auditIdle /\ proxiesIdle /\ channelsIdle /\ policyIdle /\ columnsIdle /\ editorIdle
        /\ tableIdle /\ slotsIdle
     \/ view = "accounts2" /\ K2!Init /\ wizardIdle /\ drawerIdle /\ rulesIdle /\ cleanupIdle
        /\ auditIdle /\ proxiesIdle /\ channelsIdle /\ policyIdle /\ columnsIdle /\ editorIdle
        /\ tableIdle /\ slotsIdle
     \/ view = "columns" /\ L!Init /\ wizardIdle /\ drawerIdle /\ rulesIdle /\ cleanupIdle
        /\ auditIdle /\ proxiesIdle /\ channelsIdle /\ policyIdle /\ accountsIdle
        /\ editorIdle /\ tableIdle /\ slotsIdle
     \/ view = "editor" /\ E!Init /\ wizardIdle /\ drawerIdle /\ rulesIdle /\ cleanupIdle
        /\ auditIdle /\ proxiesIdle /\ channelsIdle /\ policyIdle /\ accountsIdle
        /\ columnsIdle /\ tableIdle /\ slotsIdle
     \/ view = "table1" /\ T1!Init /\ wizardIdle /\ drawerIdle /\ rulesIdle /\ cleanupIdle
        /\ auditIdle /\ proxiesIdle /\ channelsIdle /\ policyIdle /\ accountsIdle
        /\ columnsIdle /\ editorIdle /\ slotsIdle
     \/ view = "table2" /\ T2!Init /\ wizardIdle /\ drawerIdle /\ rulesIdle /\ cleanupIdle
        /\ auditIdle /\ proxiesIdle /\ channelsIdle /\ policyIdle /\ accountsIdle
        /\ columnsIdle /\ editorIdle /\ slotsIdle
     \/ view = "slots1" /\ Q1!Init /\ wizardIdle /\ drawerIdle /\ rulesIdle /\ cleanupIdle
        /\ auditIdle /\ proxiesIdle /\ channelsIdle /\ policyIdle /\ accountsIdle
        /\ columnsIdle /\ editorIdle /\ tableIdle
     \/ view = "slots2" /\ Q2!Init /\ wizardIdle /\ drawerIdle /\ rulesIdle /\ cleanupIdle
        /\ auditIdle /\ proxiesIdle /\ channelsIdle /\ policyIdle /\ accountsIdle
        /\ columnsIdle /\ editorIdle /\ tableIdle
     \/ view = "slots3" /\ Q3!Init /\ wizardIdle /\ drawerIdle /\ rulesIdle /\ cleanupIdle
        /\ auditIdle /\ proxiesIdle /\ channelsIdle /\ policyIdle /\ accountsIdle
        /\ columnsIdle /\ editorIdle /\ tableIdle
  /\ view # "panels" => panel = Metrics /\ who = CHOOSE w \in Whos : TRUE

ViewsNext ==
  \/ view = "panels" /\ Next
     /\ UNCHANGED <<view, wizardVars, drawerVars, rulesVars, cleanupVars, auditVars, proxiesVars,
                    channelsVars, policyVars, accountsVars, columnsVars, editorVars, tableVars,
                    slotsVars>>
  \/ view = "wizard1" /\ W1!Next
     /\ UNCHANGED <<view, vars, drawerVars, rulesVars, cleanupVars, auditVars, proxiesVars,
                    channelsVars, policyVars, accountsVars, columnsVars, editorVars, tableVars,
                    slotsVars>>
  \/ view = "wizard2" /\ W2!Next
     /\ UNCHANGED <<view, vars, drawerVars, rulesVars, cleanupVars, auditVars, proxiesVars,
                    channelsVars, policyVars, accountsVars, columnsVars, editorVars, tableVars,
                    slotsVars>>
  \/ view = "wizard3" /\ W3!Next
     /\ UNCHANGED <<view, vars, drawerVars, rulesVars, cleanupVars, auditVars, proxiesVars,
                    channelsVars, policyVars, accountsVars, columnsVars, editorVars, tableVars,
                    slotsVars>>
  \/ view = "drawer1" /\ D1!Next
     /\ UNCHANGED <<view, vars, wizardVars, rulesVars, cleanupVars, auditVars, proxiesVars,
                    channelsVars, policyVars, accountsVars, columnsVars, editorVars, tableVars,
                    slotsVars>>
  \/ view = "drawer2" /\ D2!Next
     /\ UNCHANGED <<view, vars, wizardVars, rulesVars, cleanupVars, auditVars, proxiesVars,
                    channelsVars, policyVars, accountsVars, columnsVars, editorVars, tableVars,
                    slotsVars>>
  \/ view = "rules1" /\ N1!Next
     /\ UNCHANGED <<view, vars, wizardVars, drawerVars, cleanupVars, auditVars, proxiesVars,
                    channelsVars, policyVars, accountsVars, columnsVars, editorVars, tableVars,
                    slotsVars>>
  \/ view = "rules2" /\ N2!Next
     /\ UNCHANGED <<view, vars, wizardVars, drawerVars, cleanupVars, auditVars, proxiesVars,
                    channelsVars, policyVars, accountsVars, columnsVars, editorVars, tableVars,
                    slotsVars>>
  \/ view = "cleanup" /\ C!Next
     /\ UNCHANGED <<view, vars, wizardVars, drawerVars, rulesVars, auditVars, proxiesVars,
                    channelsVars, policyVars, accountsVars, columnsVars, editorVars, tableVars,
                    slotsVars>>
  \/ view = "audit" /\ A!Next
     /\ UNCHANGED <<view, vars, wizardVars, drawerVars, rulesVars, cleanupVars, proxiesVars,
                    channelsVars, policyVars, accountsVars, columnsVars, editorVars, tableVars,
                    slotsVars>>
  \/ view = "proxies1" /\ P1!Next
     /\ UNCHANGED <<view, vars, wizardVars, drawerVars, rulesVars, cleanupVars, auditVars,
                    channelsVars, policyVars, accountsVars, columnsVars, editorVars, tableVars,
                    slotsVars>>
  \/ view = "proxies2" /\ P2!Next
     /\ UNCHANGED <<view, vars, wizardVars, drawerVars, rulesVars, cleanupVars, auditVars,
                    channelsVars, policyVars, accountsVars, columnsVars, editorVars, tableVars,
                    slotsVars>>
  \/ view = "channels" /\ H!Next
     /\ UNCHANGED <<view, vars, wizardVars, drawerVars, rulesVars, cleanupVars, auditVars,
                    proxiesVars, policyVars, accountsVars, columnsVars, editorVars, tableVars,
                    slotsVars>>
  \/ view = "policy" /\ O!Next
     /\ UNCHANGED <<view, vars, wizardVars, drawerVars, rulesVars, cleanupVars, auditVars,
                    proxiesVars, channelsVars, accountsVars, columnsVars, editorVars, tableVars,
                    slotsVars>>
  \/ view = "accounts1" /\ K1!Next
     /\ UNCHANGED <<view, vars, wizardVars, drawerVars, rulesVars, cleanupVars, auditVars,
                    proxiesVars, channelsVars, policyVars, columnsVars, editorVars, tableVars,
                    slotsVars>>
  \/ view = "accounts2" /\ K2!Next
     /\ UNCHANGED <<view, vars, wizardVars, drawerVars, rulesVars, cleanupVars, auditVars,
                    proxiesVars, channelsVars, policyVars, columnsVars, editorVars, tableVars,
                    slotsVars>>
  \/ view = "columns" /\ L!Next
     /\ UNCHANGED <<view, vars, wizardVars, drawerVars, rulesVars, cleanupVars, auditVars,
                    proxiesVars, channelsVars, policyVars, accountsVars, editorVars, tableVars,
                    slotsVars>>
  \/ view = "editor" /\ E!Next
     /\ UNCHANGED <<view, vars, wizardVars, drawerVars, rulesVars, cleanupVars, auditVars,
                    proxiesVars, channelsVars, policyVars, accountsVars, columnsVars, tableVars,
                    slotsVars>>
  \/ view = "table1" /\ T1!Next
     /\ UNCHANGED <<view, vars, wizardVars, drawerVars, rulesVars, cleanupVars, auditVars,
                    proxiesVars, channelsVars, policyVars, accountsVars, columnsVars, editorVars,
                    slotsVars>>
  \/ view = "table2" /\ T2!Next
     /\ UNCHANGED <<view, vars, wizardVars, drawerVars, rulesVars, cleanupVars, auditVars,
                    proxiesVars, channelsVars, policyVars, accountsVars, columnsVars, editorVars,
                    slotsVars>>
  \/ view = "slots1" /\ Q1!Next
     /\ UNCHANGED <<view, vars, wizardVars, drawerVars, rulesVars, cleanupVars, auditVars,
                    proxiesVars, channelsVars, policyVars, accountsVars, columnsVars, editorVars,
                    tableVars>>
  \/ view = "slots2" /\ Q2!Next
     /\ UNCHANGED <<view, vars, wizardVars, drawerVars, rulesVars, cleanupVars, auditVars,
                    proxiesVars, channelsVars, policyVars, accountsVars, columnsVars, editorVars,
                    tableVars>>
  \/ view = "slots3" /\ Q3!Next
     /\ UNCHANGED <<view, vars, wizardVars, drawerVars, rulesVars, cleanupVars, auditVars,
                    proxiesVars, channelsVars, policyVars, accountsVars, columnsVars, editorVars,
                    tableVars>>

ViewsSpec == ViewsInit /\ [][ViewsNext]_all

\* The form that is submitted fits together.
FormFits == /\ view = "wizard1" => W1!FormFits
            /\ view = "wizard2" => W2!FormFits
            /\ view = "wizard3" => W3!FormFits

\* What a question names is what its answer acts on.
NamedIsActedOn == /\ view = "drawer1" => D1!NamedIsActedOn
                  /\ view = "drawer2" => D2!NamedIsActedOn

\* The drawer shows what Oracle has once nothing is under way.
DrawerCatchesUp == /\ view = "drawer1" => D1!DrawerCatchesUp
                   /\ view = "drawer2" => D2!DrawerCatchesUp

\* What is sent to Oracle is what was seen and confirmed, and for an instance what
\* was asked or what it has.
SentAsSeen == /\ view = "rules1" => N1!SentAsSeen
              /\ view = "rules2" => N2!SentAsSeen
              /\ view = "editor" => E!SlidersNeverMix

\* No rule opens every port to the world without the question.
NoOpenRuleUnasked == /\ view = "rules1" => N1!NoOpenRuleUnasked
                     /\ view = "rules2" => N2!NoOpenRuleUnasked

\* A deleted resource comes back only after it was forgotten too early, and each
\* is deleted in its own account.
HiddenUnlessForgotten == view = "cleanup" => C!HiddenUnlessForgotten /\ C!DeletesInOwnAccount

\* The pages of the audit log join.
PagesJoin == view = "audit" => A!PagesJoin

\* Two accounts share a proxy only after overlapping calls, a preview is of the
\* text that will be imported, and no test goes out directly unasked.
SharingNeedsOverlap ==
  /\ view = "proxies1" => P1!SharingNeedsOverlap /\ P1!PreviewIsOfText /\ P1!NeverDirectUnasked
  /\ view = "proxies2" => P2!SharingNeedsOverlap /\ P2!PreviewIsOfText /\ P2!NeverDirectUnasked

\* Only a mask leaves the server, and a mask never replaces a secret.
SecretKept == view = "channels" => H!SecretKept

\* What a page shows is what the server has, as long as its requests do not
\* overlap and no answer is lost: the matrix of the channels, the password policy
\* of an account, its status, the notes and names of the instances.
AgreesAlone == /\ view = "channels" => H!MatrixAgrees
               /\ view = "policy" => O!PolicyAgrees
               /\ view = "accounts1" => K1!StatusAgrees
               /\ view = "accounts2" => K2!StatusAgrees
               /\ view = "table2" => T2!NotesAgree

\* The table has every column and every row once, and the rows in one order.
TableWhole == /\ view = "columns" => L!ColumnsWhole
              /\ view = "table1" => T1!RowsInOrder

\* Requests to Oracle never wait for each other in a circle nor for a lost slot.
WaitersAwaitOracle == /\ view = "slots1" => Q1!WaitersAwaitOracle
                      /\ view = "slots2" => Q2!WaitersAwaitOracle
                      /\ view = "slots3" => Q3!WaitersAwaitOracle
===============================================================================
