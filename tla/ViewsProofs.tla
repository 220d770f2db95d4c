------------------------------ MODULE ViewsProofs ------------------------------
(***************************************************************************)
(* What the worlds of MCViews show, proved: each world is one choice of    *)
(* the constants of a part, and the proofs of that part (PagesProofs) hold *)
(* for every choice.  A world moves by the steps of its part alone, and    *)
(* the definitions that it and PagesProofs take from the part are the      *)
(* same (the lemmas ...Same); so the inductive invariant of the part holds *)
(* in the world from its beginning on (the lemmas ...Stays).               *)
(***************************************************************************)
EXTENDS MCViews, FiniteSetTheorems, TLAPS

-----------------------------------------------------------------------------
\* The steps of a world are those of its part.
LEMMA WorldsMove ==
  [ViewsNext]_all =>
    /\ view' = view
    /\ view = "channels" => [H!Next]_(H!vars)
    /\ view = "cleanup" => [C!Next]_(C!vars)
    /\ view = "audit" => [A!Next]_(A!vars)
    /\ view = "editor" => [E!Next]_(E!vars)
    /\ view = "policy" => [O!Next]_(O!vars)
    /\ view = "columns" => [L!Next]_(L!vars)
    /\ view = "table1" => [T1!Next]_(T1!vars)
    /\ view = "accounts1" => [K1!Next]_(K1!vars)
    /\ view = "proxies1" => [P1!Next]_(P1!vars)
    /\ view = "rules1" => [N1!Next]_(N1!vars)
    /\ view = "slots1" => [Q1!Next]_(Q1!vars)
    /\ view = "proxies2" => [P2!Next]_(P2!vars)
    /\ view = "rules2" => [N2!Next]_(N2!vars)
    /\ view = "accounts2" => [K2!Next]_(K2!vars)
    /\ view = "table2" => [T2!Next]_(T2!vars)
    /\ view = "slots2" => [Q2!Next]_(Q2!vars)
    /\ view = "drawer1" => [D1!Next]_(D1!vars)
    /\ view = "wizard1" => [W1!Next]_(W1!vars)
    /\ view = "drawer2" => [D2!Next]_(D2!vars)
    /\ view = "wizard2" => [W2!Next]_(W2!vars)
    /\ view = "wizard3" => [W3!Next]_(W3!vars)
    /\ view = "slots3" => [Q3!Next]_(Q3!vars)
<1> SUFFICES ASSUME [ViewsNext]_all PROVE
      /\ view' = view
      /\ view = "channels" => [H!Next]_(H!vars)
      /\ view = "cleanup" => [C!Next]_(C!vars)
      /\ view = "audit" => [A!Next]_(A!vars)
      /\ view = "editor" => [E!Next]_(E!vars)
      /\ view = "policy" => [O!Next]_(O!vars)
      /\ view = "columns" => [L!Next]_(L!vars)
      /\ view = "table1" => [T1!Next]_(T1!vars)
      /\ view = "accounts1" => [K1!Next]_(K1!vars)
      /\ view = "proxies1" => [P1!Next]_(P1!vars)
      /\ view = "rules1" => [N1!Next]_(N1!vars)
      /\ view = "slots1" => [Q1!Next]_(Q1!vars)
      /\ view = "proxies2" => [P2!Next]_(P2!vars)
      /\ view = "rules2" => [N2!Next]_(N2!vars)
      /\ view = "accounts2" => [K2!Next]_(K2!vars)
      /\ view = "table2" => [T2!Next]_(T2!vars)
      /\ view = "slots2" => [Q2!Next]_(Q2!vars)
      /\ view = "drawer1" => [D1!Next]_(D1!vars)
      /\ view = "wizard1" => [W1!Next]_(W1!vars)
      /\ view = "drawer2" => [D2!Next]_(D2!vars)
      /\ view = "wizard2" => [W2!Next]_(W2!vars)
      /\ view = "wizard3" => [W3!Next]_(W3!vars)
      /\ view = "slots3" => [Q3!Next]_(Q3!vars)
  BY SMTT(30)
<1>1. CASE ViewsNext
  BY <1>1 DEF ViewsNext
<1>2. CASE UNCHANGED all
  <2>1. view' = view
    BY <1>2 DEF all
  <2>2. UNCHANGED <<channelsVars, cleanupVars, auditVars, editorVars, policyVars, tableVars,
                    accountsVars, proxiesVars, rulesVars, slotsVars, drawerVars, wizardVars,
                    columnsVars>>
    BY <1>2 DEF all
  <2>3. UNCHANGED H!vars
    BY <2>2 DEF channelsVars, H!vars, H!page
  <2>4. UNCHANGED C!vars
    BY <2>2 DEF cleanupVars, C!vars
  <2>5. UNCHANGED A!vars
    BY <2>2 DEF auditVars, A!vars
  <2>6. UNCHANGED E!vars
    BY <2>2 DEF editorVars, E!vars, E!sliders
  <2>7. UNCHANGED O!vars
    BY <2>2 DEF policyVars, O!vars, O!form
  <2>8. UNCHANGED T1!vars /\ UNCHANGED T2!vars
    BY <2>2 DEF tableVars, T1!vars, T1!choices, T1!requests, T2!vars, T2!choices, T2!requests
  <2>9. UNCHANGED K1!vars /\ UNCHANGED K2!vars
    BY <2>2 DEF accountsVars, K1!vars, K1!server, K1!page, K2!vars, K2!server, K2!page
  <2>10. UNCHANGED P1!vars /\ UNCHANGED P2!vars
    BY <2>2 DEF proxiesVars, P1!vars, P1!serverVars, P1!pageVars, P1!drawerVars, P2!vars,
                P2!serverVars, P2!pageVars, P2!drawerVars
  <2>11. UNCHANGED N1!vars /\ UNCHANGED N2!vars
    BY <2>2 DEF rulesVars, N1!vars, N1!page, N2!vars, N2!page
  <2>12. UNCHANGED Q1!vars /\ UNCHANGED Q2!vars /\ UNCHANGED Q3!vars
    BY <2>2 DEF slotsVars, Q1!vars, Q2!vars, Q3!vars
  <2>13. UNCHANGED D1!vars /\ UNCHANGED D2!vars
    BY <2>2 DEF drawerVars, D1!vars, D1!serverVars, D1!rescueVars, D2!vars, D2!serverVars,
                D2!rescueVars
  <2>14. UNCHANGED W1!vars /\ UNCHANGED W2!vars /\ UNCHANGED W3!vars
    BY <2>2 DEF wizardVars, W1!vars, W1!form, W1!lists, W1!seqs, W1!ghosts, W2!vars, W2!form,
                W2!lists, W2!seqs, W2!ghosts, W3!vars, W3!form, W3!lists, W3!seqs, W3!ghosts
  <2>15. UNCHANGED L!vars
    BY <2>2 DEF columnsVars, L!vars, L!choices
  <2> QED BY <2>1, <2>2, <2>3, <2>4, <2>5, <2>6, <2>7, <2>8, <2>9, <2>10, <2>11, <2>12, <2>13, <2>14,
             <2>15
<1> QED BY <1>1, <1>2

LEMMA WorldsStart ==
  ViewsInit =>
    /\ view = "channels" => H!Init
    /\ view = "cleanup" => C!Init
    /\ view = "audit" => A!Init
    /\ view = "editor" => E!Init
    /\ view = "policy" => O!Init
    /\ view = "columns" => L!Init
    /\ view = "table1" => T1!Init
    /\ view = "accounts1" => K1!Init
    /\ view = "proxies1" => P1!Init
    /\ view = "rules1" => N1!Init
    /\ view = "slots1" => Q1!Init
    /\ view = "proxies2" => P2!Init
    /\ view = "rules2" => N2!Init
    /\ view = "accounts2" => K2!Init
    /\ view = "table2" => T2!Init
    /\ view = "slots2" => Q2!Init
    /\ view = "drawer1" => D1!Init
    /\ view = "wizard1" => W1!Init
    /\ view = "drawer2" => D2!Init
    /\ view = "wizard2" => W2!Init
    /\ view = "wizard3" => W3!Init
    /\ view = "slots3" => Q3!Init
BY DEF ViewsInit

\* Three requests are finitely many.
LEMMA ThreeRequests == IsFiniteSet({"q1", "q2", "q3"})
<1>1. IsFiniteSet({})
  BY FS_EmptySet
<1>2. IsFiniteSet({} \union {"q1"} \union {"q2"} \union {"q3"})
  BY <1>1, FS_AddElement
<1>3. {} \union {"q1"} \union {"q2"} \union {"q3"} = {"q1", "q2", "q3"}
  OBVIOUS
<1> QED BY <1>2, <1>3

\* The regions and domains of the worlds of the wizard.
LEMMA WizardRegions ==
  \A a \in {"a", "b"} : /\ 1 \in DOMAIN MCRegionsOf[a]
                       /\ \A n \in DOMAIN MCRegionsOf[a] : <<a, MCRegionsOf[a][n]>> \in MCKeys
<1>1. /\ MCRegionsOf["a"] = <<"r1", "r2">> /\ DOMAIN MCRegionsOf["a"] = {1, 2}
      /\ MCRegionsOf["b"] = <<"r1">> /\ DOMAIN MCRegionsOf["b"] = {1}
  BY DEF MCRegionsOf
<1>2. /\ MCRegionsOf["a"][1] = "r1" /\ MCRegionsOf["a"][2] = "r2" /\ MCRegionsOf["b"][1] = "r1"
  BY <1>1
<1> QED BY <1>1, <1>2 DEF MCKeys

LEMMA WizardDomains ==
  \A k \in MCKeys :
    /\ 1 \in DOMAIN MCDomainsOf[k]
    /\ {MCDomainsOf[k][n] : n \in DOMAIN MCDomainsOf[k]} \subseteq {"d1", "d2", "e1", "e2"}
<1> SUFFICES ASSUME NEW k \in MCKeys
             PROVE  /\ 1 \in DOMAIN MCDomainsOf[k]
                    /\ \A n \in DOMAIN MCDomainsOf[k] : MCDomainsOf[k][n] \in {"d1", "d2", "e1", "e2"}
  OBVIOUS
<1>1. CASE k[1] = "b"
  <2>1. MCDomainsOf[k] = <<"e1", "e2">>
    BY <1>1 DEF MCDomainsOf
  <2> QED BY <2>1
<1>2. CASE k[1] # "b"
  <2>1. MCDomainsOf[k] \in {<<"d1">>, <<"d2">>}
    BY <1>2 DEF MCDomainsOf
  <2> QED BY <2>1
<1> QED BY <1>1, <1>2

-----------------------------------------------------------------------------
(* The worlds with the first choice of the constants. *)

PP1 == INSTANCE PagesProofs WITH
         Requests <- {"q1", "q2", "q3"}, Tenants <- {"a", "b"}, NoClient <- Nothing, Global <- 2,
         PerTenancy <- 1, MaxRetries <- 0, MaxBuilds <- 0,
         ChannelIds <- {"i"}, Events <- {"e", "f"}, Secrets <- {"s"}, Masked <- "dots",
         MaxChannelCalls <- 2, MaxId <- 3, PageSize <- 1, MaxAuditLoads <- 3,
         Accounts <- {"a", "b"}, Resources <- {"v", "w"}, Owner <- MCOwner, MaxCleanupLoads <- 3,
         Proxies <- {"p"}, PoolAccounts <- {"a"}, NewAccount <- "n", Direct <- "direct",
         Unchosen <- Nothing, Texts <- {}, MaxPoolCalls <- 2,
         Days <- {90, 365}, FirstDays <- 365, MaxReads <- 2, MaxWrites <- 2,
         SecurityLists <- Ranges, ListOrder <- SetToSeq(Ranges), RuleForms <- MCForms,
         Templates <- MCTemplates, OthersForms <- MCOthers, FirstRules <- MCInitially,
         MaxNetworkLoads <- 2, MaxRuleEdits <- 1,
         Configs <- MCConfigs, MetaOf <- MCMetaOf, FlexByName <- {"arm", "e5"}, DefaultRatio <- 2,
         DefaultOcpu <- 2, Arm <- {"arm"}, Sizes <- {1, 2}, Vpus <- {0, 1}, Memories <- {1, 2, 4},
         Quotas <- {1, Unlimited}, MaxMoves <- 2, MaxEditorChanges <- 2,
         AccountIds <- {"i"}, Keys <- {"old", "new"}, Accepted <- {"new"}, MaxTasks <- 3,
         MaxClock <- 0,
         TableIds <- {"i", "j", "k"}, AccountOf <- MCAccountOf, FromServer <- MCRows, Notes <- {1, 2},
         TableNames <- {1, 2, 3}, MaxTableEdits <- 0, MaxTableLoads <- 0, MaxChoices <- 2,
         DrawerInstances <- {"i", "t"}, Tabs <- {"storage"}, MaxVnics <- 1, MaxDrawerChanges <- 2,
         WizardAccounts <- {"a"}, RegionsOf <- MCRegionsOf, DomainsOf <- MCDomainsOf,
         ShapesAt <- MCArmAt, ImagesOf <- MCArmImages, SubnetsOf <- MCSubnetsOf,
         Prohibiting <- {"s2"}, Presets <- {"arm"}, FirstShape <- "arm", MaxPicks <- 2,
         MaxFailures <- 0,
         ColumnDefs <- MCDefs, FixedColumns <- {"check", "actions"}, NeedsView <- MCNeedsView,
         MinWidth <- MCMinWidth, MaxWidth <- 4, UnknownKeys <- {"old"}, StoredChoices <- MCFound,
         Pixels <- {1, 3}, ViewWidths <- {1, 2}, NoColumn <- "none", MaxColumnSteps <- 2

\* The world channels: the part as MCViews and PagesProofs see it.
LEMMA ChannelsSame ==
  /\ H!Init <=> PP1!H!Init
  /\ [H!Next]_(H!vars) => [PP1!H!Next]_(PP1!H!vars)
  /\ H!SecretKept <=> PP1!H!SecretKept
  /\ H!MatrixAgrees <=> PP1!H!MatrixAgrees
BY ZenonT(60) DEF H!page, H!vars, H!Quiet, H!maskChannel, H!merged, H!Updated, H!Init, H!Effect,
   H!Serve, H!ReadList, H!Change, H!NoChange, H!Call, H!load, H!ListComes, H!ListFails,
   H!openCreate, H!openEdit, H!TypeSecret, H!CheckEvent, H!Cancel, H!save, H!toggleEnabled,
   H!toggleSubscription, H!removeChannel, H!sendTest, H!SubscriptionShown, H!Subscribed, H!Done,
   H!Next, H!SecretKept, H!Loaded, H!MatrixAgrees, PP1!H!page, PP1!H!vars, PP1!H!Quiet,
   PP1!H!maskChannel, PP1!H!merged, PP1!H!Updated, PP1!H!Init, PP1!H!Effect, PP1!H!Serve,
   PP1!H!ReadList, PP1!H!Change, PP1!H!NoChange, PP1!H!Call, PP1!H!load, PP1!H!ListComes,
   PP1!H!ListFails, PP1!H!openCreate, PP1!H!openEdit, PP1!H!TypeSecret, PP1!H!CheckEvent,
   PP1!H!Cancel, PP1!H!save, PP1!H!toggleEnabled, PP1!H!toggleSubscription, PP1!H!removeChannel,
   PP1!H!sendTest, PP1!H!SubscriptionShown, PP1!H!Subscribed, PP1!H!Done, PP1!H!Next,
   PP1!H!SecretKept, PP1!H!Loaded, PP1!H!MatrixAgrees

LEMMA ChannelsLimits == PP1!ChannelLimits
BY NothingIsApart DEF PP1!ChannelLimits

ChannelsHolds == view = "channels" => PP1!MatrixInv

LEMMA ChannelsStays == ViewsSpec => []ChannelsHolds
<1>1. ViewsInit => ChannelsHolds
  BY WorldsStart, ChannelsLimits, ChannelsSame, PP1!MatrixStart DEF ChannelsHolds
<1>2. ChannelsHolds /\ [ViewsNext]_all => ChannelsHolds'
  BY WorldsMove, ChannelsLimits, ChannelsSame, PP1!MatrixStep DEF ChannelsHolds
<1> QED BY <1>1, <1>2, PTL DEF ViewsSpec

\* Only masks leave the server, and none is ever stored over a secret (SecretKept).
THEOREM MasksReplaceNothing == ViewsSpec => []SecretKept
<1>1. ChannelsHolds => SecretKept
  BY ChannelsSame, PP1!ChannelsShow
     DEF SecretKept, ChannelsHolds, PP1!MatrixInv
<1> QED BY <1>1, ChannelsStays, PTL

\* The world cleanup: the part as MCViews and PagesProofs see it.
LEMMA CleanupSame ==
  /\ C!Init <=> PP1!C!Init
  /\ [C!Next]_(C!vars) => [PP1!C!Next]_(PP1!C!vars)
  /\ C!HiddenUnlessForgotten <=> PP1!C!HiddenUnlessForgotten
  /\ C!DeletesInOwnAccount <=> PP1!C!DeletesInOwnAccount
BY ZenonT(60) DEF C!vars, C!Listed, C!Init, C!load, C!stillRemoved, C!withoutRemoved,
   C!SelectAccount, C!Refresh, C!Serve, C!LoadFails, C!Take, C!Loaded, C!Delete, C!Accept,
   C!OciForgets, C!Deleted, C!DeleteFails, C!Next, C!HiddenUnlessForgotten, C!DeletesInOwnAccount,
   PP1!C!vars, PP1!C!Listed, PP1!C!Init, PP1!C!load, PP1!C!stillRemoved, PP1!C!withoutRemoved,
   PP1!C!SelectAccount, PP1!C!Refresh, PP1!C!Serve, PP1!C!LoadFails, PP1!C!Take, PP1!C!Loaded,
   PP1!C!Delete, PP1!C!Accept, PP1!C!OciForgets, PP1!C!Deleted, PP1!C!DeleteFails, PP1!C!Next,
   PP1!C!HiddenUnlessForgotten, PP1!C!DeletesInOwnAccount

CleanupHolds == view = "cleanup" => PP1!CleanupInv

LEMMA CleanupStays == ViewsSpec => []CleanupHolds
<1>1. ViewsInit => CleanupHolds
  BY WorldsStart, CleanupSame, PP1!CleanupStart DEF CleanupHolds
<1>2. CleanupHolds /\ [ViewsNext]_all => CleanupHolds'
  BY WorldsMove, CleanupSame, PP1!CleanupStep DEF CleanupHolds
<1> QED BY <1>1, <1>2, PTL DEF ViewsSpec

\* What was deleted comes back only if it was forgotten too early, and each deletion
\* goes to the account of its resource (HiddenUnlessForgotten).
THEOREM DeletedStayAway == ViewsSpec => []HiddenUnlessForgotten
<1>1. CleanupHolds => HiddenUnlessForgotten
  BY CleanupSame
     DEF HiddenUnlessForgotten, CleanupHolds, PP1!CleanupInv
<1> QED BY <1>1, CleanupStays, PTL

\* The world audit: the part as MCViews and PagesProofs see it.
LEMMA AuditSame ==
  /\ A!Init <=> PP1!A!Init
  /\ [A!Next]_(A!vars) => [PP1!A!Next]_(PP1!A!vars)
  /\ A!PagesJoin <=> PP1!A!PagesJoin
BY ZenonT(60) DEF A!vars, A!Init, A!Write, A!Purge, A!PageBelow, A!loadAudit, A!Serve,
   A!PageComes, A!PageFails, A!Next, A!PagesJoin, PP1!A!vars, PP1!A!Init, PP1!A!Write,
   PP1!A!Purge, PP1!A!PageBelow, PP1!A!loadAudit, PP1!A!Serve, PP1!A!PageComes, PP1!A!PageFails,
   PP1!A!Next, PP1!A!PagesJoin

LEMMA AuditLimits == PP1!AuditLimits
BY DEF PP1!AuditLimits

AuditHolds == view = "audit" => PP1!AuditInv

LEMMA AuditStays == ViewsSpec => []AuditHolds
<1>1. ViewsInit => AuditHolds
  BY WorldsStart, AuditLimits, AuditSame, PP1!AuditStart DEF AuditHolds
<1>2. AuditHolds /\ [ViewsNext]_all => AuditHolds'
  BY WorldsMove, AuditLimits, AuditSame, PP1!AuditStep DEF AuditHolds
<1> QED BY <1>1, <1>2, PTL DEF ViewsSpec

\* The pages of the audit log join without gap and repetition (PagesJoin).
THEOREM LogHasNoGap == ViewsSpec => []PagesJoin
<1>1. AuditHolds => PagesJoin
  BY AuditSame, PP1!AuditShow
     DEF PagesJoin, AuditHolds
<1> QED BY <1>1, AuditStays, PTL

\* The world drawer1: the part as MCViews and PagesProofs see it.
LEMMA Drawer1Same ==
  /\ D1!Init <=> PP1!D!Init
  /\ [D1!Next]_(D1!vars) => [PP1!D!Next]_(PP1!D!vars)
  /\ D1!NamedIsActedOn <=> PP1!D!NamedIsActedOn
  /\ D1!DrawerCatchesUp <=> PP1!D!DrawerCatchesUp
BY ZenonT(60) DEF D1!serverVars, D1!rescueVars, D1!vars, D1!NetworkJobs, D1!StorageCalls,
   D1!DetailOf, D1!Init, D1!open, D1!loadDetail, D1!ServeDetail, D1!DetailFails, D1!DetailComes,
   D1!JobEnds, D1!EventLost, D1!Reading, D1!locked, D1!Question, D1!Ask, D1!Shown, D1!removeIpv6,
   D1!changePrimaryIp, D1!detachVnic, D1!enableIpv6, D1!openAddVnic, D1!Submit, D1!submitVnic,
   D1!RunJob, D1!Network, D1!Power, D1!bootDetached, D1!detachBoot, D1!loadLooseVolumes,
   D1!LooseCome, D1!chooseVolume, D1!rescueTargets, D1!attachToRescue, D1!detachData,
   D1!reattachBoot, D1!Answer, D1!Storage, D1!Rescue, D1!Next, D1!NamedIsActedOn,
   D1!DrawerCatchesUp, PP1!D!serverVars, PP1!D!rescueVars, PP1!D!vars, PP1!D!NetworkJobs,
   PP1!D!StorageCalls, PP1!D!DetailOf, PP1!D!Init, PP1!D!open, PP1!D!loadDetail,
   PP1!D!ServeDetail, PP1!D!DetailFails, PP1!D!DetailComes, PP1!D!JobEnds, PP1!D!EventLost,
   PP1!D!Reading, PP1!D!locked, PP1!D!Question, PP1!D!Ask, PP1!D!Shown, PP1!D!removeIpv6,
   PP1!D!changePrimaryIp, PP1!D!detachVnic, PP1!D!enableIpv6, PP1!D!openAddVnic, PP1!D!Submit,
   PP1!D!submitVnic, PP1!D!RunJob, PP1!D!Network, PP1!D!Power, PP1!D!bootDetached,
   PP1!D!detachBoot, PP1!D!loadLooseVolumes, PP1!D!LooseCome, PP1!D!chooseVolume,
   PP1!D!rescueTargets, PP1!D!attachToRescue, PP1!D!detachData, PP1!D!reattachBoot, PP1!D!Answer,
   PP1!D!Storage, PP1!D!Rescue, PP1!D!Next, PP1!D!NamedIsActedOn, PP1!D!DrawerCatchesUp

Drawer1Holds == view = "drawer1" => PP1!DrawerInv

LEMMA Drawer1Stays == ViewsSpec => []Drawer1Holds
<1>1. ViewsInit => Drawer1Holds
  BY WorldsStart, Drawer1Same, PP1!DrawerStart DEF Drawer1Holds
<1>2. Drawer1Holds /\ [ViewsNext]_all => Drawer1Holds'
  BY WorldsMove, Drawer1Same, PP1!DrawerStep DEF Drawer1Holds
<1> QED BY <1>1, <1>2, PTL DEF ViewsSpec

\* The world wizard1: the part as MCViews and PagesProofs see it.
LEMMA Wizard1Same ==
  /\ W1!Init <=> PP1!W!Init
  /\ [W1!Next]_(W1!vars) => [PP1!W!Next]_(PP1!W!vars)
  /\ W1!FormFits <=> PP1!W!FormFits
BY ZenonT(60) DEF W1!Shapes, W1!Keys, W1!form, W1!lists, W1!seqs, W1!ghosts, W1!vars, W1!Elements,
   W1!Here, W1!AsksAds, W1!AsksShapes, W1!AsksImages, W1!AsksSubnets, W1!Init, W1!loadShapes,
   W1!Pick, W1!PickAccount, W1!PickRegion, W1!PickDomain, W1!availableShapes, W1!shapeUnavailable,
   W1!PickShape, W1!PickImage, W1!PickSubnet, W1!SwitchPublicIp, W1!subnetConflict, W1!canNext,
   W1!NextStep, W1!Back, W1!Submit, W1!Refused, W1!Accepted, W1!Answered, W1!DomainsCome,
   W1!DomainsFail, W1!ShapesCome, W1!ShapesFail, W1!ImagesCome, W1!ImagesFail, W1!SubnetsCome,
   W1!SubnetsFail, W1!Ignored, W1!Next, W1!ShapesAskedOfOwnDomain, W1!Settled, W1!FormFits,
   PP1!W!Shapes, PP1!W!Keys, PP1!W!form, PP1!W!lists, PP1!W!seqs, PP1!W!ghosts, PP1!W!vars,
   PP1!W!Elements, PP1!W!Here, PP1!W!AsksAds, PP1!W!AsksShapes, PP1!W!AsksImages,
   PP1!W!AsksSubnets, PP1!W!Init, PP1!W!loadShapes, PP1!W!Pick, PP1!W!PickAccount,
   PP1!W!PickRegion, PP1!W!PickDomain, PP1!W!availableShapes, PP1!W!shapeUnavailable,
   PP1!W!PickShape, PP1!W!PickImage, PP1!W!PickSubnet, PP1!W!SwitchPublicIp, PP1!W!subnetConflict,
   PP1!W!canNext, PP1!W!NextStep, PP1!W!Back, PP1!W!Submit, PP1!W!Refused, PP1!W!Accepted,
   PP1!W!Answered, PP1!W!DomainsCome, PP1!W!DomainsFail, PP1!W!ShapesCome, PP1!W!ShapesFail,
   PP1!W!ImagesCome, PP1!W!ImagesFail, PP1!W!SubnetsCome, PP1!W!SubnetsFail, PP1!W!Ignored,
   PP1!W!Next, PP1!W!ShapesAskedOfOwnDomain, PP1!W!Settled, PP1!W!FormFits

LEMMA Wizard1Limits == PP1!WizardLimits
<1>1. PP1!W!Keys = MCKeys /\ \A s : PP1!W!Elements(s) = {s[n] : n \in DOMAIN s}
  BY DEF PP1!W!Keys, PP1!W!Elements, MCDomainsOf
<1>2. DOMAIN MCArmAt = {"d1", "d2", "e1", "e2"} /\ \A d \in DOMAIN MCArmAt : MCArmAt[d] # {} /\ MCArmAt[d] \subseteq {"arm"}
  BY DEF MCArmAt
<1>3. PP1!W!Shapes \subseteq {"arm"}
  BY <1>2 DEF PP1!W!Shapes
<1>4. \A s \in {"arm"} : MCArmImages[s] # {}
  BY DEF MCArmImages
<1>5. \A k \in MCKeys : k \in {"a", "b"} \X {"r1", "r2"}
  BY DEF MCKeys
<1> QED BY <1>1, <1>2, <1>3, <1>4, <1>5, WizardRegions, WizardDomains, NothingIsApart, SMTT(30)
        DEF PP1!WizardLimits

Wizard1Holds == view = "wizard1" => PP1!WizardInv

LEMMA Wizard1Stays == ViewsSpec => []Wizard1Holds
<1>1. ViewsInit => Wizard1Holds
  BY WorldsStart, Wizard1Limits, Wizard1Same, PP1!WizardStart DEF Wizard1Holds
<1>2. Wizard1Holds /\ [ViewsNext]_all => Wizard1Holds'
  BY WorldsMove, Wizard1Limits, Wizard1Same, PP1!WizardStep DEF Wizard1Holds
<1> QED BY <1>1, <1>2, PTL DEF ViewsSpec

\* The world editor: the part as MCViews and PagesProofs see it.
LEMMA EditorSame ==
  /\ E!Init <=> PP1!E!Init
  /\ [E!Next]_(E!vars) => [PP1!E!Next]_(PP1!E!vars)
  /\ E!SlidersNeverMix <=> PP1!E!SlidersNeverMix
BY ZenonT(60) DEF E!sliders, E!vars, E!Baselines, E!Shapes, E!Least, E!Most, E!isFlexible,
   E!maxPerOcpu, E!canBurst, E!Limited, E!maxOcpu, E!maxMem, E!overQuota, E!volumeChanged,
   E!baselineChanged, E!shapeChanged, E!Init, E!MetaComes, E!watched, E!MemoryFrom, E!Refresh,
   E!QuotaChanges, E!Move, E!Rest, E!SetSize, E!SetVpu, E!capped, E!onOcpu, E!SetMem,
   E!SetBaseline, E!Ask, E!applyVolume, E!transitional, E!applyShape, E!Confirm, E!Dismiss,
   E!VolumeEnds, E!ShapeEnds, E!Next, E!SlidersNeverMix, PP1!E!sliders, PP1!E!vars,
   PP1!E!Baselines, PP1!E!Shapes, PP1!E!Least, PP1!E!Most, PP1!E!isFlexible, PP1!E!maxPerOcpu,
   PP1!E!canBurst, PP1!E!Limited, PP1!E!maxOcpu, PP1!E!maxMem, PP1!E!overQuota,
   PP1!E!volumeChanged, PP1!E!baselineChanged, PP1!E!shapeChanged, PP1!E!Init, PP1!E!MetaComes,
   PP1!E!watched, PP1!E!MemoryFrom, PP1!E!Refresh, PP1!E!QuotaChanges, PP1!E!Move, PP1!E!Rest,
   PP1!E!SetSize, PP1!E!SetVpu, PP1!E!capped, PP1!E!onOcpu, PP1!E!SetMem, PP1!E!SetBaseline,
   PP1!E!Ask, PP1!E!applyVolume, PP1!E!transitional, PP1!E!applyShape, PP1!E!Confirm,
   PP1!E!Dismiss, PP1!E!VolumeEnds, PP1!E!ShapeEnds, PP1!E!Next, PP1!E!SlidersNeverMix

LEMMA EditorLimits == PP1!EditorLimits
<1>1. MCMetaOf["arm"].ratio = 2 /\ MCMetaOf["e5"].ratio = 3
  BY DEF MCMetaOf
<1>2. \A c \in MCConfigs : c.ocpu \in Nat /\ c.mem \in Nat /\ c.shape \in {"arm", "e5"}
  BY DEF MCConfigs, MCConfig
<1>3. PP1!E!Shapes \subseteq {"arm", "e5"}
  BY <1>2 DEF PP1!E!Shapes
<1> QED BY <1>1, <1>2, <1>3 DEF PP1!EditorLimits

EditorHolds == view = "editor" => PP1!EditorInv

LEMMA EditorStays == ViewsSpec => []EditorHolds
<1>1. ViewsInit => EditorHolds
  BY WorldsStart, EditorLimits, EditorSame, PP1!EditorStart DEF EditorHolds
<1>2. EditorHolds /\ [ViewsNext]_all => EditorHolds'
  BY WorldsMove, EditorLimits, EditorSame, PP1!EditorStep DEF EditorHolds
<1> QED BY <1>1, <1>2, PTL DEF ViewsSpec

\* The world policy: the part as MCViews and PagesProofs see it.
LEMMA PolicySame ==
  /\ O!Init <=> PP1!O!Init
  /\ [O!Next]_(O!vars) => [PP1!O!Next]_(PP1!O!vars)
  /\ O!PolicyAgrees <=> PP1!O!PolicyAgrees
BY ZenonT(60) DEF O!form, O!vars, O!Expiries, O!Init, O!loadPolicy, O!ReadPolicy, O!PolicyComes,
   O!PolicyFails, O!FormShown, O!TypeDays, O!applyPolicy, O!Confirm, O!Dismiss, O!SetExpiry,
   O!ShownAfter, O!Changed, O!ChangeFails, O!Next, O!PolicyAgrees, PP1!O!form, PP1!O!vars,
   PP1!O!Expiries, PP1!O!Init, PP1!O!loadPolicy, PP1!O!ReadPolicy, PP1!O!PolicyComes,
   PP1!O!PolicyFails, PP1!O!FormShown, PP1!O!TypeDays, PP1!O!applyPolicy, PP1!O!Confirm,
   PP1!O!Dismiss, PP1!O!SetExpiry, PP1!O!ShownAfter, PP1!O!Changed, PP1!O!ChangeFails, PP1!O!Next,
   PP1!O!PolicyAgrees

LEMMA PolicyLimits == PP1!PolicyLimits
<1>1. PP1!O!Expiries \subseteq {90, 365, Unset, NoDomain}
  BY DEF PP1!O!Expiries
<1>2. PP1!PolicyChanges \subseteq PolicyRecords
  BY DEF PP1!PolicyChanges, PolicyRecords
<1> QED BY <1>1, <1>2, NothingIsApart, ZenonT(40) DEF PP1!PolicyLimits

PolicyHolds == view = "policy" => PP1!PolicyInv

LEMMA PolicyStays == ViewsSpec => []PolicyHolds
<1>1. ViewsInit => PolicyHolds
  BY WorldsStart, PolicyLimits, PolicySame, PP1!PolicyStart DEF PolicyHolds
<1>2. PolicyHolds /\ [ViewsNext]_all => PolicyHolds'
  BY WorldsMove, PolicyLimits, PolicySame, PP1!PolicyStep DEF PolicyHolds
<1> QED BY <1>1, <1>2, PTL DEF ViewsSpec

\* The world table1: the part as MCViews and PagesProofs see it.
LEMMA Table1Same ==
  /\ T1!Init <=> PP1!T!Init
  /\ [T1!Next]_(T1!vars) => [PP1!T!Next]_(PP1!T!vars)
  /\ T1!RowsInOrder <=> PP1!T!RowsInOrder
BY ZenonT(60) DEF T1!choices, T1!requests, T1!vars, T1!Accounts, T1!Filters, T1!SortKeys,
   T1!Sorts, T1!Init, T1!Edit, T1!Escape, T1!Put, T1!Field, T1!Save, T1!ServeSave, T1!Saved,
   T1!SaveFails, T1!Load, T1!Loaded, T1!matchesFilter, T1!filteredInstances, T1!Last, T1!Sign,
   T1!compare, T1!Order, T1!groups, T1!Choose, T1!toggleSort, T1!Enter, T1!SetFilter, T1!Group,
   T1!Flip, T1!toggleGroup, T1!toggleAccountFilter, T1!Laid, T1!toggleSelection, T1!bulk,
   T1!BulkEnds, T1!Next, T1!RowsInOrder, T1!Cardinality, PP1!T!choices, PP1!T!requests,
   PP1!T!vars, PP1!T!Accounts, PP1!T!Filters, PP1!T!SortKeys, PP1!T!Sorts, PP1!T!Init, PP1!T!Edit,
   PP1!T!Escape, PP1!T!Put, PP1!T!Field, PP1!T!Save, PP1!T!ServeSave, PP1!T!Saved,
   PP1!T!SaveFails, PP1!T!Load, PP1!T!Loaded, PP1!T!matchesFilter, PP1!T!filteredInstances,
   PP1!T!Last, PP1!T!Sign, PP1!T!compare, PP1!T!Order, PP1!T!groups, PP1!T!Choose,
   PP1!T!toggleSort, PP1!T!Enter, PP1!T!SetFilter, PP1!T!Group, PP1!T!Flip, PP1!T!toggleGroup,
   PP1!T!toggleAccountFilter, PP1!T!Laid, PP1!T!toggleSelection, PP1!T!bulk, PP1!T!BulkEnds,
   PP1!T!Next, PP1!T!RowsInOrder, PP1!T!Cardinality

LEMMA Table1Limits == PP1!TableLimits
<1> SUFFICES ASSUME NEW from \in MCRows PROVE from \in [{"i", "j", "k"} -> PP1!T!Row]
  BY DEF PP1!TableLimits
<1>1. PICK n \in [1 .. 3 -> 1 .. 2] :
        from = [i |-> MCTableRow(3, 0, TRUE, 2), j |-> MCTableRow(2, n[1], FALSE, n[3]),
                k |-> MCTableRow(1, n[2], TRUE, 1)]
  BY DEF MCRows
<1>2. /\ MCTableRow(3, 0, TRUE, 2) \in PP1!T!Row
      /\ MCTableRow(2, n[1], FALSE, n[3]) \in PP1!T!Row
      /\ MCTableRow(1, n[2], TRUE, 1) \in PP1!T!Row
  BY DEF MCTableRow, PP1!T!Row
<1>3. from = [x \in {"i", "j", "k"} |-> from[x]]
  BY <1>1
<1>4. from["i"] \in PP1!T!Row /\ from["j"] \in PP1!T!Row /\ from["k"] \in PP1!T!Row
  BY <1>1, <1>2
<1> QED BY <1>3, <1>4

Table1Holds == view = "table1" => PP1!TableInv

LEMMA Table1Stays == ViewsSpec => []Table1Holds
<1>1. ViewsInit => Table1Holds
  BY WorldsStart, Table1Limits, Table1Same, PP1!TableStart DEF Table1Holds
<1>2. Table1Holds /\ [ViewsNext]_all => Table1Holds'
  BY WorldsMove, Table1Limits, Table1Same, PP1!TableStep DEF Table1Holds
<1> QED BY <1>1, <1>2, PTL DEF ViewsSpec

\* The world columns: the part as MCViews and PagesProofs see it.
LEMMA ColumnsSame ==
  /\ L!Init <=> PP1!V!Init
  /\ [L!Next]_(L!vars) => [PP1!V!Next]_(PP1!V!vars)
  /\ L!ColumnsWhole <=> PP1!V!ColumnsWhole
<1>1. /\ \A s : L!Range(s) = PP1!V!Range(s)
      /\ \A s, B : L!Kept(s, B) = PP1!V!Kept(s, B)
      /\ \A B : L!Cardinality(B) = PP1!V!Cardinality(B)
  BY Zenon DEF L!Range, PP1!V!Range, L!Kept, PP1!V!Kept, L!Nth, PP1!V!Nth, L!Cardinality,
     PP1!V!Cardinality
<1>2. /\ L!Columns = PP1!V!Columns /\ L!Gaps = PP1!V!Gaps
      /\ \A i : L!Before(i) = PP1!V!Before(i) /\ L!fits(i) = PP1!V!fits(i)
      /\ \A i : L!isShown(i) = PP1!V!isShown(i) /\ L!once(i) = PP1!V!once(i)
      /\ \A i : L!widthOf(i) = PP1!V!widthOf(i)
  BY Zenon DEF L!Columns, PP1!V!Columns, L!Range, PP1!V!Range, L!Gaps, PP1!V!Gaps, L!Before,
     PP1!V!Before, L!Cardinality, PP1!V!Cardinality, L!fits, PP1!V!fits, L!isShown, PP1!V!isShown,
     L!once, PP1!V!once, L!widthOf, PP1!V!widthOf
<1>3. L!toggleable = PP1!V!toggleable
  BY <1>1, <1>2 DEF L!toggleable, PP1!V!toggleable
<1>4. L!Movable = PP1!V!Movable
  BY <1>1, <1>3 DEF L!Movable, PP1!V!Movable
<1>5. L!Names = PP1!V!Names /\ L!orderedSet = PP1!V!orderedSet
  BY <1>2, <1>4 DEF L!Names, PP1!V!Names, L!orderedSet, PP1!V!orderedSet
<1>6. L!ordered = PP1!V!ordered
  BY <1>1, <1>2, <1>3, <1>4, <1>5 DEF L!ordered, PP1!V!ordered
<1>7. L!arranged = PP1!V!arranged
  BY <1>2, <1>6 DEF L!arranged, PP1!V!arranged
<1>8. L!visible = PP1!V!visible
  BY <1>1, <1>2, <1>7 DEF L!visible, PP1!V!visible
<1>9. L!suppressed = PP1!V!suppressed
  BY <1>2, <1>4 DEF L!suppressed, PP1!V!suppressed
<1>10. \A c, t : L!Moved(c, t) = PP1!V!Moved(c, t)
  BY <1>1, <1>6, ZenonT(40) DEF L!Moved, PP1!V!Moved
<1>11. L!Store <=> PP1!V!Store
  BY DEF L!Store, PP1!V!Store
<1>12. L!Step <=> PP1!V!Step
  BY DEF L!Step, PP1!V!Step
<1>13. \A c, t : L!moveTo(c, t) <=> PP1!V!moveTo(c, t)
  BY <1>1, <1>6, <1>10, <1>11 DEF L!moveTo, PP1!V!moveTo
<1>14. /\ L!Init <=> PP1!V!Init
       /\ L!vars = PP1!V!vars /\ L!vars' = PP1!V!vars'
       /\ L!Enter <=> PP1!V!Enter
       /\ \A w : L!Resize(w) <=> PP1!V!Resize(w)
       /\ L!DragEnd <=> PP1!V!DragEnd
  BY Zenon DEF L!Init, PP1!V!Init, L!vars, PP1!V!vars, L!choices, PP1!V!choices, L!Enter,
     PP1!V!Enter, L!Resize, PP1!V!Resize, L!DragEnd, PP1!V!DragEnd
<1>15. /\ L!onUp <=> PP1!V!onUp
       /\ \A px : L!onMove(px) <=> PP1!V!onMove(px)
       /\ L!reset <=> PP1!V!reset
  BY Zenon DEF L!onUp, PP1!V!onUp, L!onMove, PP1!V!onMove, L!reset, PP1!V!reset, L!Store,
     PP1!V!Store, L!Clamped, PP1!V!Clamped, L!Step, PP1!V!Step
<1>16. \A c : L!toggle(c) <=> PP1!V!toggle(c)
  BY <1>1, <1>6, <1>11, <1>12 DEF L!toggle, PP1!V!toggle
<1>17. \A c : L!DragStart(c) <=> PP1!V!DragStart(c)
  BY <1>1, <1>6 DEF L!DragStart, PP1!V!DragStart, L!choices, PP1!V!choices
<1>18. \A c : L!onDrop(c) <=> PP1!V!onDrop(c)
  BY <1>1, <1>6, <1>12, <1>13 DEF L!onDrop, PP1!V!onDrop
<1>19. \A c, up : L!step(c, up) <=> PP1!V!step(c, up)
  BY <1>1, <1>6, <1>12, <1>13 DEF L!step, PP1!V!step
<1>20. \A c : L!startResize(c) <=> PP1!V!startResize(c)
  BY <1>1, <1>8 DEF L!startResize, PP1!V!startResize, L!choices, PP1!V!choices
<1>21. \A c : L!resetWidth(c) <=> PP1!V!resetWidth(c)
  BY <1>1, <1>8, <1>11, <1>12 DEF L!resetWidth, PP1!V!resetWidth
<1>22. L!Next <=> PP1!V!Next
  BY <1>2, <1>14, <1>15, <1>16, <1>17, <1>18, <1>19, <1>20, <1>21 DEF L!Next, PP1!V!Next
<1>23. L!ColumnsWhole <=> PP1!V!ColumnsWhole
  BY <1>1, <1>2, <1>4, <1>7, <1>8, <1>9 DEF L!ColumnsWhole, PP1!V!ColumnsWhole
<1> QED BY <1>14, <1>22, <1>23

LEMMA ColumnsLimits == PP1!ColumnLimits
<1>1. PP1!V!Columns = {"check", "ip", "boot", "note", "actions"}
  BY DEF PP1!V!Columns, PP1!V!Range, MCDefs
<1>2. PP1!V!Names = {"check", "ip", "boot", "note", "actions", "old"}
  BY <1>1 DEF PP1!V!Names
<1>3. MCDefs \in Seq(PP1!V!Columns)
  BY <1>1 DEF MCDefs
<1>4. \A i, j \in 1 .. Len(MCDefs) : MCDefs[i] = MCDefs[j] => i = j
  BY DEF MCDefs
<1>5. \A f \in MCFound : f.order \in {<<>>, <<"note", "old", "note", "ip">>, <<"note">>}
  BY DEF MCFound
<1>6. \A f \in MCFound : f.order \in Seq(PP1!V!Names)
  <2>1. "note" \in PP1!V!Names /\ "old" \in PP1!V!Names /\ "ip" \in PP1!V!Names
    BY <1>2
  <2>2. <<>> \in Seq(PP1!V!Names) /\ <<"note">> \in Seq(PP1!V!Names)
    BY <2>1
  <2>3. <<"note", "old", "note", "ip">> \in Seq(PP1!V!Names)
    BY <2>1
  <2> QED BY <1>5, <2>2, <2>3
<1> QED BY <1>3, <1>4, <1>6 DEF PP1!ColumnLimits

ColumnsHold == view = "columns" => PP1!ColumnsInv

LEMMA ColumnsStay == ViewsSpec => []ColumnsHold
<1>1. ViewsInit => ColumnsHold
  BY WorldsStart, ColumnsLimits, ColumnsSame, PP1!ColumnsStart DEF ColumnsHold
<1>2. ColumnsHold /\ [ViewsNext]_all => ColumnsHold'
  BY WorldsMove, ColumnsLimits, ColumnsSame, PP1!ColumnsStep DEF ColumnsHold
<1> QED BY <1>1, <1>2, PTL DEF ViewsSpec

\* The table has every column and every row once, the columns as they were chosen
\* and stored, and the rows in one order (TableWhole).
THEOREM TableIsWhole == ViewsSpec => []TableWhole
<1>1. ColumnsHold /\ Table1Holds => TableWhole
  BY ColumnsSame, PP1!ColumnsShow, ColumnsLimits, Table1Same, PP1!OrderIsOne, Table1Limits
     DEF TableWhole, ColumnsHold, Table1Holds
<1> QED BY <1>1, ColumnsStay, Table1Stays, PTL

\* The world accounts1: the part as MCViews and PagesProofs see it.
LEMMA Accounts1Same ==
  /\ K1!Init <=> PP1!K!Init
  /\ [K1!Next]_(K1!vars) => [PP1!K!Next]_(PP1!K!vars)
  /\ K1!StatusAgrees <=> PP1!K!StatusAgrees
BY ZenonT(60) DEF K1!server, K1!page, K1!vars, K1!accountStatus, K1!toAccount, K1!Present,
   K1!Task, K1!Apart, K1!Start, K1!Move, K1!Checking, K1!Lost, K1!Cached, K1!Connect,
   K1!StoreClient, K1!Verdict, K1!Invalidated, K1!Update, K1!Remove, K1!List, K1!Sweep, K1!Tick,
   K1!checking, K1!rotating, K1!Init, K1!Free, K1!openDrawer, K1!recheck, K1!Ask, K1!Confirm,
   K1!Dismiss, K1!Answered, K1!Listed, K1!QuotaComes, K1!Told, K1!Fail, K1!toggleAccountFilter,
   K1!Next, K1!Judged, K1!StatusAgrees, PP1!K!server, PP1!K!page, PP1!K!vars, PP1!K!accountStatus,
   PP1!K!toAccount, PP1!K!Present, PP1!K!Task, PP1!K!Apart, PP1!K!Start, PP1!K!Move,
   PP1!K!Checking, PP1!K!Lost, PP1!K!Cached, PP1!K!Connect, PP1!K!StoreClient, PP1!K!Verdict,
   PP1!K!Invalidated, PP1!K!Update, PP1!K!Remove, PP1!K!List, PP1!K!Sweep, PP1!K!Tick,
   PP1!K!checking, PP1!K!rotating, PP1!K!Init, PP1!K!Free, PP1!K!openDrawer, PP1!K!recheck,
   PP1!K!Ask, PP1!K!Confirm, PP1!K!Dismiss, PP1!K!Answered, PP1!K!Listed, PP1!K!QuotaComes,
   PP1!K!Told, PP1!K!Fail, PP1!K!toggleAccountFilter, PP1!K!Next, PP1!K!Judged, PP1!K!StatusAgrees

LEMMA Accounts1Limits == PP1!AccountLimits
<1>1. PP1!K!Account \subseteq AccountRecords
  BY DEF PP1!K!Account, PP1!K!Statuses, AccountRecords
<1> QED BY <1>1, NothingIsApart DEF PP1!AccountLimits

Accounts1Holds == view = "accounts1" => PP1!AccountsInv

LEMMA Accounts1Stays == ViewsSpec => []Accounts1Holds
<1>1. ViewsInit => Accounts1Holds
  BY WorldsStart, Accounts1Limits, Accounts1Same, PP1!AccountsStart DEF Accounts1Holds
<1>2. Accounts1Holds /\ [ViewsNext]_all => Accounts1Holds'
  BY WorldsMove, Accounts1Limits, Accounts1Same, PP1!AccountsStep DEF Accounts1Holds
<1> QED BY <1>1, <1>2, PTL DEF ViewsSpec

\* The world proxies1: the part as MCViews and PagesProofs see it.
LEMMA Proxies1Same ==
  /\ P1!Init <=> PP1!P!Init
  /\ [P1!Next]_(P1!vars) => [PP1!P!Next]_(PP1!P!vars)
  /\ P1!SharingNeedsOverlap <=> PP1!P!SharingNeedsOverlap
  /\ P1!PreviewIsOfText <=> PP1!P!PreviewIsOfText
  /\ P1!NeverDirectUnasked <=> PP1!P!NeverDirectUnasked
BY ZenonT(60) DEF P1!serverVars, P1!pageVars, P1!drawerVars, P1!vars, P1!Everyone, P1!Egresses,
   P1!Pool, P1!Init, P1!Call, P1!Finish, P1!DuplicateOf, P1!Refused, P1!Check, P1!BindWrites,
   P1!CreateWrites, P1!DeleteWrites, P1!Server, P1!load, P1!ReadList, P1!ShowList, P1!boundTo,
   P1!optionsFor, P1!bind, P1!remove, P1!toggle, P1!EditText, P1!parsePreview, P1!Parsed,
   P1!confirmImport, P1!Page, P1!loadProxies, P1!ChooseEgress, P1!runTest, P1!TestEnds, P1!save,
   P1!Drawer, P1!Next, P1!SharingNeedsOverlap, P1!PreviewIsOfText, P1!NeverDirectUnasked,
   PP1!P!serverVars, PP1!P!pageVars, PP1!P!drawerVars, PP1!P!vars, PP1!P!Everyone, PP1!P!Egresses,
   PP1!P!Pool, PP1!P!Init, PP1!P!Call, PP1!P!Finish, PP1!P!DuplicateOf, PP1!P!Refused,
   PP1!P!Check, PP1!P!BindWrites, PP1!P!CreateWrites, PP1!P!DeleteWrites, PP1!P!Server,
   PP1!P!load, PP1!P!ReadList, PP1!P!ShowList, PP1!P!boundTo, PP1!P!optionsFor, PP1!P!bind,
   PP1!P!remove, PP1!P!toggle, PP1!P!EditText, PP1!P!parsePreview, PP1!P!Parsed,
   PP1!P!confirmImport, PP1!P!Page, PP1!P!loadProxies, PP1!P!ChooseEgress, PP1!P!runTest,
   PP1!P!TestEnds, PP1!P!save, PP1!P!Drawer, PP1!P!Next, PP1!P!SharingNeedsOverlap,
   PP1!P!PreviewIsOfText, PP1!P!NeverDirectUnasked

LEMMA Proxies1Limits == PP1!PoolLimits
BY NothingIsApart DEF PP1!PoolLimits

Proxies1Holds == view = "proxies1" => PP1!PoolInv

LEMMA Proxies1Stays == ViewsSpec => []Proxies1Holds
<1>1. ViewsInit => Proxies1Holds
  BY WorldsStart, Proxies1Limits, Proxies1Same, PP1!PoolStart DEF Proxies1Holds
<1>2. Proxies1Holds /\ [ViewsNext]_all => Proxies1Holds'
  BY WorldsMove, Proxies1Limits, Proxies1Same, PP1!PoolStep DEF Proxies1Holds
<1> QED BY <1>1, <1>2, PTL DEF ViewsSpec

\* The world rules1: the part as MCViews and PagesProofs see it.
LEMMA Rules1Same ==
  /\ N1!Init <=> PP1!N!Init
  /\ [N1!Next]_(N1!vars) => [PP1!N!Next]_(PP1!N!vars)
  /\ N1!SentAsSeen <=> PP1!N!SentAsSeen
  /\ N1!NoOpenRuleUnasked <=> PP1!N!NoOpenRuleUnasked
<1>1. \A f : N1!addManualRule(f) <=> PP1!N!addManualRule(f)
  <2>1. \A edit, ask : N1!Click(edit, ask) <=> PP1!N!Click(edit, ask)
    BY SMTT(60) DEF N1!NoList, N1!Edited, N1!selectedList, N1!Mine, N1!saveRules, N1!Click,
           N1!Range, N1!Last, N1!RemoveAt, PP1!N!NoList, PP1!N!Edited, PP1!N!selectedList,
           PP1!N!Mine, PP1!N!saveRules, PP1!N!Click, PP1!N!Range, PP1!N!Last, PP1!N!RemoveAt
  <2>2. \A f : N1!FromForm(f) = PP1!N!FromForm(f)
    BY SMTT(60) DEF N1!NoRange, N1!Bad, N1!parsePorts, N1!hasPorts, N1!Built, N1!FromForm,
           N1!Range, N1!Last, N1!RemoveAt, PP1!N!NoRange, PP1!N!Bad, PP1!N!parsePorts,
           PP1!N!hasPorts, PP1!N!Built, PP1!N!FromForm, PP1!N!Range, PP1!N!Last, PP1!N!RemoveAt
  <2>3. \A t : N1!parsePorts(t) = PP1!N!parsePorts(t)
    BY SMTT(60) DEF N1!NoRange, N1!Bad, N1!parsePorts, N1!Range, N1!Last, N1!RemoveAt,
           PP1!N!NoRange, PP1!N!Bad, PP1!N!parsePorts, PP1!N!Range, PP1!N!Last, PP1!N!RemoveAt
  <2>4. \A f : N1!manualError(f) = PP1!N!manualError(f) /\ N1!wideOpen(f) = PP1!N!wideOpen(f)
    BY SMTT(60), <2>3 DEF N1!NoRange, N1!Bad, N1!hasPorts, N1!manualError, N1!allPorts,
           N1!wideOpen, N1!Range, N1!Last, N1!RemoveAt, PP1!N!NoRange, PP1!N!Bad, PP1!N!hasPorts,
           PP1!N!manualError, PP1!N!allPorts, PP1!N!wideOpen, PP1!N!Range, PP1!N!Last,
           PP1!N!RemoveAt
  <2> QED BY ZenonT(60), <2>1, <2>2, <2>4 DEF N1!addManualRule, N1!Adding, PP1!N!addManualRule,
           PP1!N!Adding
<1>2. \A k,f : N1!Elsewhere(k,f) <=> PP1!N!Elsewhere(k,f)
  BY SMTT(60) DEF N1!page, N1!NoRange, N1!Bad, N1!parsePorts, N1!hasPorts, N1!Built, N1!FromForm,
         N1!Adding, N1!Edited, N1!Elsewhere, N1!Range, N1!Last, N1!RemoveAt, PP1!N!page,
         PP1!N!NoRange, PP1!N!Bad, PP1!N!parsePorts, PP1!N!hasPorts, PP1!N!Built, PP1!N!FromForm,
         PP1!N!Adding, PP1!N!Edited, PP1!N!Elsewhere, PP1!N!Range, PP1!N!Last, PP1!N!RemoveAt
<1>3. \A d,i : N1!removeRule(d,i) <=> PP1!N!removeRule(d,i)
  BY SMTT(60) DEF N1!NoList, N1!NoRange, N1!Removing, N1!Edited, N1!selectedList, N1!Mine,
         N1!saveRules, N1!Click, N1!removeRule, N1!Range, N1!Last, N1!RemoveAt, PP1!N!NoList,
         PP1!N!NoRange, PP1!N!Removing, PP1!N!Edited, PP1!N!selectedList, PP1!N!Mine,
         PP1!N!saveRules, PP1!N!Click, PP1!N!removeRule, PP1!N!Range, PP1!N!Last, PP1!N!RemoveAt
<1>4. N1!Next <=> PP1!N!Next
  BY ZenonT(120), <1>1, <1>2, <1>3 DEF N1!Next, N1!page, N1!NoList, N1!NoRange, N1!Bad,
         N1!parsePorts, N1!hasPorts, N1!manualError, N1!Built, N1!FromForm, N1!FromTemplate,
         N1!allPorts, N1!wideOpen, N1!Adding, N1!Removing, N1!Edited, N1!selectedList, N1!Empty,
         N1!loadNetwork, N1!Refresh, N1!ReadList, N1!SelectedFirst, N1!SelectedAfter, N1!LoadEnds,
         N1!SelectList, N1!Mine, N1!saveRules, N1!commit, N1!Click, N1!addTemplate,
         N1!restoreEgress, N1!Confirm, N1!Dismiss, N1!ServeSave, N1!SaveEnds, N1!SaveFails,
         N1!LoadedAgain, N1!Loading, N1!Editing, N1!Saving, N1!Range, N1!Last, N1!RemoveAt,
         PP1!N!Next, PP1!N!page, PP1!N!NoList, PP1!N!NoRange, PP1!N!Bad, PP1!N!parsePorts,
         PP1!N!hasPorts, PP1!N!manualError, PP1!N!Built, PP1!N!FromForm, PP1!N!FromTemplate,
         PP1!N!allPorts, PP1!N!wideOpen, PP1!N!Adding, PP1!N!Removing, PP1!N!Edited,
         PP1!N!selectedList, PP1!N!Empty, PP1!N!loadNetwork, PP1!N!Refresh, PP1!N!ReadList,
         PP1!N!SelectedFirst, PP1!N!SelectedAfter, PP1!N!LoadEnds, PP1!N!SelectList, PP1!N!Mine,
         PP1!N!saveRules, PP1!N!commit, PP1!N!Click, PP1!N!addTemplate, PP1!N!restoreEgress,
         PP1!N!Confirm, PP1!N!Dismiss, PP1!N!ServeSave, PP1!N!SaveEnds, PP1!N!SaveFails,
         PP1!N!LoadedAgain, PP1!N!Loading, PP1!N!Editing, PP1!N!Saving, PP1!N!Range, PP1!N!Last,
         PP1!N!RemoveAt
<1>5. N1!Init <=> PP1!N!Init
  BY DEF N1!NoList, N1!Empty, N1!Init, N1!Range, N1!Last, N1!RemoveAt, PP1!N!NoList, PP1!N!Empty,
         PP1!N!Init, PP1!N!Range, PP1!N!Last, PP1!N!RemoveAt
<1>6. (N1!SentAsSeen <=> PP1!N!SentAsSeen) /\ (N1!NoOpenRuleUnasked <=> PP1!N!NoOpenRuleUnasked)
  BY DEF N1!IsAllowAllRule, N1!Edited, N1!Mine, N1!SentAsSeen, N1!NoOpenRuleUnasked, N1!Range,
         N1!Last, N1!RemoveAt, PP1!N!IsAllowAllRule, PP1!N!Edited, PP1!N!Mine, PP1!N!SentAsSeen,
         PP1!N!NoOpenRuleUnasked, PP1!N!Range, PP1!N!Last, PP1!N!RemoveAt
<1> QED BY <1>4, <1>5, <1>6 DEF N1!page, PP1!N!page, N1!vars, PP1!N!vars

LEMMA Rules1Limits == PP1!NetworkLimits
<1> DEFINE r == [direction |-> "ingress", protocol |-> "tcp", cidr |-> "any4", range |-> <<80, 80>>]
<1>1. MCInitially = [ingress |-> <<r>>, egress |-> <<>>]
  BY DEF MCInitially
<1>2. r \in PP1!Rules
  <2>1. MCInitially.ingress = <<r>> /\ <<r>>[1] = r /\ 1 \in DOMAIN <<r>>
    BY <1>1
  <2> QED BY <2>1 DEF PP1!Rules, PP1!N!Range
<1>3. MCInitially \in [ingress : Seq(PP1!Rules), egress : Seq(PP1!Rules)]
  <2> HIDE DEF r
  <2>1. <<r>> \in Seq(PP1!Rules) /\ <<>> \in Seq(PP1!Rules)
    BY <1>2
  <2> QED BY <1>1, <2>1
<1>4. PP1!N!NoList \notin Ranges
  BY NothingIsApart, RangeAssumption DEF PP1!N!NoList
<1>5. \A f \in MCForms \union MCOthers \union MCTemplates : f.direction = "ingress"
  BY DEF MCForms, MCOthers, MCTemplates, MCForm, MCTemplate
<1>6. \A t \in MCTemplates : t.dangerous
  BY DEF MCTemplates, MCTemplate
<1>7. \A f \in MCOthers : ~PP1!N!IsAllowAllRule(PP1!N!FromForm(f))
  BY DEF MCOthers, MCForm, PP1!N!IsAllowAllRule, PP1!N!FromForm, PP1!N!Built
<1> QED BY <1>3, <1>4, <1>5, <1>6, <1>7 DEF PP1!NetworkLimits, PP1!Directions

Rules1Holds == view = "rules1" => PP1!NetworkInv

LEMMA Rules1Stays == ViewsSpec => []Rules1Holds
<1>1. ViewsInit => Rules1Holds
  BY WorldsStart, Rules1Limits, Rules1Same, PP1!NetworkStart DEF Rules1Holds
<1>2. Rules1Holds /\ [ViewsNext]_all => Rules1Holds'
  BY WorldsMove, Rules1Limits, Rules1Same, PP1!NetworkStep DEF Rules1Holds
<1> QED BY <1>1, <1>2, PTL DEF ViewsSpec

\* The world slots1: the part as MCViews and PagesProofs see it.
LEMMA Slots1Same ==
  /\ Q1!Init <=> PP1!Q!Init
  /\ [Q1!Next]_(Q1!vars) => [PP1!Q!Next]_(PP1!Q!vars)
  /\ Q1!WaitersAwaitOracle <=> PP1!Q!WaitersAwaitOracle
BY ZenonT(60) DEF Q1!vars, Q1!Clients, Q1!Init, Q1!Goto, Q1!Do, Q1!FailedGoesTo, Q1!TakeGlobal,
   Q1!TakeTenancy, Q1!LeaveGlobalQueue, Q1!LeaveTenancyQueue, Q1!FreeTenancy, Q1!FreeGlobal,
   Q1!Retry, Q1!StopWaiting, Q1!ContextEnds, Q1!Rebuild, Q1!Next, Q1!At, Q1!AtOracle, Q1!MayTake,
   Q1!WaitersAwaitOracle, Q1!Cardinality, PP1!Q!vars, PP1!Q!Clients, PP1!Q!Init, PP1!Q!Goto,
   PP1!Q!Do, PP1!Q!FailedGoesTo, PP1!Q!TakeGlobal, PP1!Q!TakeTenancy, PP1!Q!LeaveGlobalQueue,
   PP1!Q!LeaveTenancyQueue, PP1!Q!FreeTenancy, PP1!Q!FreeGlobal, PP1!Q!Retry, PP1!Q!StopWaiting,
   PP1!Q!ContextEnds, PP1!Q!Rebuild, PP1!Q!Next, PP1!Q!At, PP1!Q!AtOracle, PP1!Q!MayTake,
   PP1!Q!WaitersAwaitOracle, PP1!Q!Cardinality

LEMMA Slots1Limits == PP1!SlotLimits
BY ThreeRequests DEF PP1!SlotLimits, PP1!IsFiniteSet, IsFiniteSet

Slots1Holds == view = "slots1" => PP1!SlotsInv

LEMMA Slots1Stays == ViewsSpec => []Slots1Holds
<1>1. ViewsInit => Slots1Holds
  BY WorldsStart, Slots1Limits, Slots1Same, PP1!SlotsStart DEF Slots1Holds
<1>2. Slots1Holds /\ [ViewsNext]_all => Slots1Holds'
  BY WorldsMove, Slots1Limits, Slots1Same, PP1!SlotsStep DEF Slots1Holds
<1> QED BY <1>1, <1>2, PTL DEF ViewsSpec

-----------------------------------------------------------------------------
(* Those with the second, and what two worlds show together. *)

PP2 == INSTANCE PagesProofs WITH
         Requests <- {"q1", "q2", "q3"}, Tenants <- {"a"}, NoClient <- Nothing, Global <- 2,
         PerTenancy <- 1, MaxRetries <- 1, MaxBuilds <- 0,
         ChannelIds <- {"i"}, Events <- {"e", "f"}, Secrets <- {"s"}, Masked <- "dots",
         MaxChannelCalls <- 2, MaxId <- 3, PageSize <- 1, MaxAuditLoads <- 3,
         Accounts <- {"a", "b"}, Resources <- {"v", "w"}, Owner <- MCOwner, MaxCleanupLoads <- 3,
         Proxies <- {"p"}, PoolAccounts <- {"a"}, NewAccount <- "n", Direct <- "direct",
         Unchosen <- Nothing, Texts <- {"t", "u"}, MaxPoolCalls <- 1,
         Days <- {90, 365}, FirstDays <- 365, MaxReads <- 2, MaxWrites <- 2,
         SecurityLists <- {FirstRange}, ListOrder <- <<FirstRange>>, RuleForms <- MCForms,
         Templates <- MCTemplates, OthersForms <- MCOthers, FirstRules <- MCInitially,
         MaxNetworkLoads <- 2, MaxRuleEdits <- 2,
         Configs <- MCConfigs, MetaOf <- MCMetaOf, FlexByName <- {"arm", "e5"}, DefaultRatio <- 2,
         DefaultOcpu <- 2, Arm <- {"arm"}, Sizes <- {1, 2}, Vpus <- {0, 1}, Memories <- {1, 2, 4},
         Quotas <- {1, Unlimited}, MaxMoves <- 2, MaxEditorChanges <- 2,
         AccountIds <- {"i", "j"}, Keys <- {"old", "new"}, Accepted <- {"new"}, MaxTasks <- 2,
         MaxClock <- 1,
         TableIds <- {"i"}, AccountOf <- MCAccountOf, FromServer <- MCRow, Notes <- {1, 2},
         TableNames <- {1, 2}, MaxTableEdits <- 2, MaxTableLoads <- 1, MaxChoices <- 0,
         DrawerInstances <- {"i"}, Tabs <- {"network"}, MaxVnics <- 2, MaxDrawerChanges <- 3,
         WizardAccounts <- {"a", "b"}, RegionsOf <- MCRegionsOf, DomainsOf <- MCDomainsOf,
         ShapesAt <- MCShapesAt, ImagesOf <- MCImagesOf, SubnetsOf <- MCSubnetsOf,
         Prohibiting <- {"s2"}, Presets <- {"arm", "amd"}, FirstShape <- "arm", MaxPicks <- 1,
         MaxFailures <- 0,
         ColumnDefs <- MCDefs, FixedColumns <- {"check", "actions"}, NeedsView <- MCNeedsView,
         MinWidth <- MCMinWidth, MaxWidth <- 4, UnknownKeys <- {"old"}, StoredChoices <- MCFound,
         Pixels <- {1, 3}, ViewWidths <- {1, 2}, NoColumn <- "none", MaxColumnSteps <- 2

\* The world proxies2: the part as MCViews and PagesProofs see it.
LEMMA Proxies2Same ==
  /\ P2!Init <=> PP2!P!Init
  /\ [P2!Next]_(P2!vars) => [PP2!P!Next]_(PP2!P!vars)
  /\ P2!SharingNeedsOverlap <=> PP2!P!SharingNeedsOverlap
  /\ P2!PreviewIsOfText <=> PP2!P!PreviewIsOfText
  /\ P2!NeverDirectUnasked <=> PP2!P!NeverDirectUnasked
BY ZenonT(60) DEF P2!serverVars, P2!pageVars, P2!drawerVars, P2!vars, P2!Everyone, P2!Egresses,
   P2!Pool, P2!Init, P2!Call, P2!Finish, P2!DuplicateOf, P2!Refused, P2!Check, P2!BindWrites,
   P2!CreateWrites, P2!DeleteWrites, P2!Server, P2!load, P2!ReadList, P2!ShowList, P2!boundTo,
   P2!optionsFor, P2!bind, P2!remove, P2!toggle, P2!EditText, P2!parsePreview, P2!Parsed,
   P2!confirmImport, P2!Page, P2!loadProxies, P2!ChooseEgress, P2!runTest, P2!TestEnds, P2!save,
   P2!Drawer, P2!Next, P2!SharingNeedsOverlap, P2!PreviewIsOfText, P2!NeverDirectUnasked,
   PP2!P!serverVars, PP2!P!pageVars, PP2!P!drawerVars, PP2!P!vars, PP2!P!Everyone, PP2!P!Egresses,
   PP2!P!Pool, PP2!P!Init, PP2!P!Call, PP2!P!Finish, PP2!P!DuplicateOf, PP2!P!Refused,
   PP2!P!Check, PP2!P!BindWrites, PP2!P!CreateWrites, PP2!P!DeleteWrites, PP2!P!Server,
   PP2!P!load, PP2!P!ReadList, PP2!P!ShowList, PP2!P!boundTo, PP2!P!optionsFor, PP2!P!bind,
   PP2!P!remove, PP2!P!toggle, PP2!P!EditText, PP2!P!parsePreview, PP2!P!Parsed,
   PP2!P!confirmImport, PP2!P!Page, PP2!P!loadProxies, PP2!P!ChooseEgress, PP2!P!runTest,
   PP2!P!TestEnds, PP2!P!save, PP2!P!Drawer, PP2!P!Next, PP2!P!SharingNeedsOverlap,
   PP2!P!PreviewIsOfText, PP2!P!NeverDirectUnasked

LEMMA Proxies2Limits == PP2!PoolLimits
BY NothingIsApart DEF PP2!PoolLimits

Proxies2Holds == view = "proxies2" => PP2!PoolInv

LEMMA Proxies2Stays == ViewsSpec => []Proxies2Holds
<1>1. ViewsInit => Proxies2Holds
  BY WorldsStart, Proxies2Limits, Proxies2Same, PP2!PoolStart DEF Proxies2Holds
<1>2. Proxies2Holds /\ [ViewsNext]_all => Proxies2Holds'
  BY WorldsMove, Proxies2Limits, Proxies2Same, PP2!PoolStep DEF Proxies2Holds
<1> QED BY <1>1, <1>2, PTL DEF ViewsSpec

\* Two accounts share a proxy only after overlapping calls, a preview is of the text
\* that is imported, and no account is tested directly unasked (SharingNeedsOverlap).
THEOREM SharedByOverlapOnly == ViewsSpec => []SharingNeedsOverlap
<1>1. Proxies1Holds /\ Proxies2Holds => SharingNeedsOverlap
  BY Proxies1Same, PP1!PoolShow, Proxies2Same, PP2!PoolShow
     DEF SharingNeedsOverlap, Proxies1Holds, Proxies2Holds
<1> QED BY <1>1, Proxies1Stays, Proxies2Stays, PTL

\* The world rules2: the part as MCViews and PagesProofs see it.
LEMMA Rules2Same ==
  /\ N2!Init <=> PP2!N!Init
  /\ [N2!Next]_(N2!vars) => [PP2!N!Next]_(PP2!N!vars)
  /\ N2!SentAsSeen <=> PP2!N!SentAsSeen
  /\ N2!NoOpenRuleUnasked <=> PP2!N!NoOpenRuleUnasked
<1>1. \A f : N2!addManualRule(f) <=> PP2!N!addManualRule(f)
  <2>1. \A edit, ask : N2!Click(edit, ask) <=> PP2!N!Click(edit, ask)
    BY SMTT(60) DEF N2!NoList, N2!Edited, N2!selectedList, N2!Mine, N2!saveRules, N2!Click,
           N2!Range, N2!Last, N2!RemoveAt, PP2!N!NoList, PP2!N!Edited, PP2!N!selectedList,
           PP2!N!Mine, PP2!N!saveRules, PP2!N!Click, PP2!N!Range, PP2!N!Last, PP2!N!RemoveAt
  <2>2. \A f : N2!FromForm(f) = PP2!N!FromForm(f)
    BY SMTT(60) DEF N2!NoRange, N2!Bad, N2!parsePorts, N2!hasPorts, N2!Built, N2!FromForm,
           N2!Range, N2!Last, N2!RemoveAt, PP2!N!NoRange, PP2!N!Bad, PP2!N!parsePorts,
           PP2!N!hasPorts, PP2!N!Built, PP2!N!FromForm, PP2!N!Range, PP2!N!Last, PP2!N!RemoveAt
  <2>3. \A t : N2!parsePorts(t) = PP2!N!parsePorts(t)
    BY SMTT(60) DEF N2!NoRange, N2!Bad, N2!parsePorts, N2!Range, N2!Last, N2!RemoveAt,
           PP2!N!NoRange, PP2!N!Bad, PP2!N!parsePorts, PP2!N!Range, PP2!N!Last, PP2!N!RemoveAt
  <2>4. \A f : N2!manualError(f) = PP2!N!manualError(f) /\ N2!wideOpen(f) = PP2!N!wideOpen(f)
    BY SMTT(60), <2>3 DEF N2!NoRange, N2!Bad, N2!hasPorts, N2!manualError, N2!allPorts,
           N2!wideOpen, N2!Range, N2!Last, N2!RemoveAt, PP2!N!NoRange, PP2!N!Bad, PP2!N!hasPorts,
           PP2!N!manualError, PP2!N!allPorts, PP2!N!wideOpen, PP2!N!Range, PP2!N!Last,
           PP2!N!RemoveAt
  <2> QED BY ZenonT(60), <2>1, <2>2, <2>4 DEF N2!addManualRule, N2!Adding, PP2!N!addManualRule,
           PP2!N!Adding
<1>2. \A k,f : N2!Elsewhere(k,f) <=> PP2!N!Elsewhere(k,f)
  BY SMTT(60) DEF N2!page, N2!NoRange, N2!Bad, N2!parsePorts, N2!hasPorts, N2!Built, N2!FromForm,
         N2!Adding, N2!Edited, N2!Elsewhere, N2!Range, N2!Last, N2!RemoveAt, PP2!N!page,
         PP2!N!NoRange, PP2!N!Bad, PP2!N!parsePorts, PP2!N!hasPorts, PP2!N!Built, PP2!N!FromForm,
         PP2!N!Adding, PP2!N!Edited, PP2!N!Elsewhere, PP2!N!Range, PP2!N!Last, PP2!N!RemoveAt
<1>3. \A d,i : N2!removeRule(d,i) <=> PP2!N!removeRule(d,i)
  BY SMTT(60) DEF N2!NoList, N2!NoRange, N2!Removing, N2!Edited, N2!selectedList, N2!Mine,
         N2!saveRules, N2!Click, N2!removeRule, N2!Range, N2!Last, N2!RemoveAt, PP2!N!NoList,
         PP2!N!NoRange, PP2!N!Removing, PP2!N!Edited, PP2!N!selectedList, PP2!N!Mine,
         PP2!N!saveRules, PP2!N!Click, PP2!N!removeRule, PP2!N!Range, PP2!N!Last, PP2!N!RemoveAt
<1>4. N2!Next <=> PP2!N!Next
  BY ZenonT(120), <1>1, <1>2, <1>3 DEF N2!Next, N2!page, N2!NoList, N2!NoRange, N2!Bad,
         N2!parsePorts, N2!hasPorts, N2!manualError, N2!Built, N2!FromForm, N2!FromTemplate,
         N2!allPorts, N2!wideOpen, N2!Adding, N2!Removing, N2!Edited, N2!selectedList, N2!Empty,
         N2!loadNetwork, N2!Refresh, N2!ReadList, N2!SelectedFirst, N2!SelectedAfter, N2!LoadEnds,
         N2!SelectList, N2!Mine, N2!saveRules, N2!commit, N2!Click, N2!addTemplate,
         N2!restoreEgress, N2!Confirm, N2!Dismiss, N2!ServeSave, N2!SaveEnds, N2!SaveFails,
         N2!LoadedAgain, N2!Loading, N2!Editing, N2!Saving, N2!Range, N2!Last, N2!RemoveAt,
         PP2!N!Next, PP2!N!page, PP2!N!NoList, PP2!N!NoRange, PP2!N!Bad, PP2!N!parsePorts,
         PP2!N!hasPorts, PP2!N!manualError, PP2!N!Built, PP2!N!FromForm, PP2!N!FromTemplate,
         PP2!N!allPorts, PP2!N!wideOpen, PP2!N!Adding, PP2!N!Removing, PP2!N!Edited,
         PP2!N!selectedList, PP2!N!Empty, PP2!N!loadNetwork, PP2!N!Refresh, PP2!N!ReadList,
         PP2!N!SelectedFirst, PP2!N!SelectedAfter, PP2!N!LoadEnds, PP2!N!SelectList, PP2!N!Mine,
         PP2!N!saveRules, PP2!N!commit, PP2!N!Click, PP2!N!addTemplate, PP2!N!restoreEgress,
         PP2!N!Confirm, PP2!N!Dismiss, PP2!N!ServeSave, PP2!N!SaveEnds, PP2!N!SaveFails,
         PP2!N!LoadedAgain, PP2!N!Loading, PP2!N!Editing, PP2!N!Saving, PP2!N!Range, PP2!N!Last,
         PP2!N!RemoveAt
<1>5. N2!Init <=> PP2!N!Init
  BY SMTT(30) DEF N2!NoList, N2!Empty, N2!Init, N2!Range, N2!Last, N2!RemoveAt, PP2!N!NoList, PP2!N!Empty,
         PP2!N!Init, PP2!N!Range, PP2!N!Last, PP2!N!RemoveAt
<1>6. (N2!SentAsSeen <=> PP2!N!SentAsSeen) /\ (N2!NoOpenRuleUnasked <=> PP2!N!NoOpenRuleUnasked)
  BY SMTT(30) DEF N2!IsAllowAllRule, N2!Edited, N2!Mine, N2!SentAsSeen, N2!NoOpenRuleUnasked, N2!Range,
         N2!Last, N2!RemoveAt, PP2!N!IsAllowAllRule, PP2!N!Edited, PP2!N!Mine, PP2!N!SentAsSeen,
         PP2!N!NoOpenRuleUnasked, PP2!N!Range, PP2!N!Last, PP2!N!RemoveAt
<1> QED BY <1>4, <1>5, <1>6 DEF N2!page, PP2!N!page, N2!vars, PP2!N!vars

LEMMA Rules2Limits == PP2!NetworkLimits
<1> DEFINE r == [direction |-> "ingress", protocol |-> "tcp", cidr |-> "any4", range |-> <<80, 80>>]
<1>1. MCInitially = [ingress |-> <<r>>, egress |-> <<>>]
  BY DEF MCInitially
<1>2. r \in PP2!Rules
  <2>1. MCInitially.ingress = <<r>> /\ <<r>>[1] = r /\ 1 \in DOMAIN <<r>>
    BY <1>1
  <2> QED BY <2>1 DEF PP2!Rules, PP2!N!Range
<1>3. MCInitially \in [ingress : Seq(PP2!Rules), egress : Seq(PP2!Rules)]
  <2> HIDE DEF r
  <2>1. <<r>> \in Seq(PP2!Rules) /\ <<>> \in Seq(PP2!Rules)
    BY <1>2
  <2> QED BY <1>1, <2>1
<1>4. PP2!N!NoList \notin {FirstRange}
  BY NothingIsApart, RangeAssumption DEF PP2!N!NoList
<1>5. \A f \in MCForms \union MCOthers \union MCTemplates : f.direction = "ingress"
  BY DEF MCForms, MCOthers, MCTemplates, MCForm, MCTemplate
<1>6. \A t \in MCTemplates : t.dangerous
  BY DEF MCTemplates, MCTemplate
<1>7. \A f \in MCOthers : ~PP2!N!IsAllowAllRule(PP2!N!FromForm(f))
  BY DEF MCOthers, MCForm, PP2!N!IsAllowAllRule, PP2!N!FromForm, PP2!N!Built
<1> QED BY <1>3, <1>4, <1>5, <1>6, <1>7 DEF PP2!NetworkLimits, PP2!Directions

Rules2Holds == view = "rules2" => PP2!NetworkInv

LEMMA Rules2Stays == ViewsSpec => []Rules2Holds
<1>1. ViewsInit => Rules2Holds
  BY WorldsStart, Rules2Limits, Rules2Same, PP2!NetworkStart DEF Rules2Holds
<1>2. Rules2Holds /\ [ViewsNext]_all => Rules2Holds'
  BY WorldsMove, Rules2Limits, Rules2Same, PP2!NetworkStep DEF Rules2Holds
<1> QED BY <1>1, <1>2, PTL DEF ViewsSpec

\* No rule that opens every port to the world gets into a list but by the question
\* about it (NoOpenRuleUnasked).
THEOREM NoOpenRules == ViewsSpec => []NoOpenRuleUnasked
<1>1. Rules1Holds /\ Rules2Holds => NoOpenRuleUnasked
  BY Rules1Same, PP1!NetworkShow, Rules2Same, PP2!NetworkShow
     DEF NoOpenRuleUnasked, Rules1Holds, Rules2Holds
<1> QED BY <1>1, Rules1Stays, Rules2Stays, PTL

\* What is sent to Oracle is what was seen and confirmed, of a list of rules and of
\* an instance (SentAsSeen).
THEOREM SendsAsSeen == ViewsSpec => []SentAsSeen
<1>1. /\ Rules1Holds
      /\ Rules2Holds
      /\ EditorHolds
      => SentAsSeen
  BY Rules1Same, PP1!NetworkShow, Rules2Same, PP2!NetworkShow, EditorSame, PP1!EditorShow
     DEF SentAsSeen, Rules1Holds, Rules2Holds, EditorHolds
<1> QED BY <1>1, Rules1Stays, Rules2Stays, EditorStays, PTL

\* The world accounts2: the part as MCViews and PagesProofs see it.
LEMMA Accounts2Same ==
  /\ K2!Init <=> PP2!K!Init
  /\ [K2!Next]_(K2!vars) => [PP2!K!Next]_(PP2!K!vars)
  /\ K2!StatusAgrees <=> PP2!K!StatusAgrees
BY ZenonT(60) DEF K2!server, K2!page, K2!vars, K2!accountStatus, K2!toAccount, K2!Present,
   K2!Task, K2!Apart, K2!Start, K2!Move, K2!Checking, K2!Lost, K2!Cached, K2!Connect,
   K2!StoreClient, K2!Verdict, K2!Invalidated, K2!Update, K2!Remove, K2!List, K2!Sweep, K2!Tick,
   K2!checking, K2!rotating, K2!Init, K2!Free, K2!openDrawer, K2!recheck, K2!Ask, K2!Confirm,
   K2!Dismiss, K2!Answered, K2!Listed, K2!QuotaComes, K2!Told, K2!Fail, K2!toggleAccountFilter,
   K2!Next, K2!Judged, K2!StatusAgrees, PP2!K!server, PP2!K!page, PP2!K!vars, PP2!K!accountStatus,
   PP2!K!toAccount, PP2!K!Present, PP2!K!Task, PP2!K!Apart, PP2!K!Start, PP2!K!Move,
   PP2!K!Checking, PP2!K!Lost, PP2!K!Cached, PP2!K!Connect, PP2!K!StoreClient, PP2!K!Verdict,
   PP2!K!Invalidated, PP2!K!Update, PP2!K!Remove, PP2!K!List, PP2!K!Sweep, PP2!K!Tick,
   PP2!K!checking, PP2!K!rotating, PP2!K!Init, PP2!K!Free, PP2!K!openDrawer, PP2!K!recheck,
   PP2!K!Ask, PP2!K!Confirm, PP2!K!Dismiss, PP2!K!Answered, PP2!K!Listed, PP2!K!QuotaComes,
   PP2!K!Told, PP2!K!Fail, PP2!K!toggleAccountFilter, PP2!K!Next, PP2!K!Judged, PP2!K!StatusAgrees

LEMMA Accounts2Limits == PP2!AccountLimits
<1>1. PP2!K!Account \subseteq AccountRecords
  BY DEF PP2!K!Account, PP2!K!Statuses, AccountRecords
<1> QED BY <1>1, NothingIsApart DEF PP2!AccountLimits

Accounts2Holds == view = "accounts2" => PP2!AccountsInv

LEMMA Accounts2Stays == ViewsSpec => []Accounts2Holds
<1>1. ViewsInit => Accounts2Holds
  BY WorldsStart, Accounts2Limits, Accounts2Same, PP2!AccountsStart DEF Accounts2Holds
<1>2. Accounts2Holds /\ [ViewsNext]_all => Accounts2Holds'
  BY WorldsMove, Accounts2Limits, Accounts2Same, PP2!AccountsStep DEF Accounts2Holds
<1> QED BY <1>1, <1>2, PTL DEF ViewsSpec

\* The world table2: the part as MCViews and PagesProofs see it.
LEMMA Table2Same ==
  /\ T2!Init <=> PP2!T!Init
  /\ [T2!Next]_(T2!vars) => [PP2!T!Next]_(PP2!T!vars)
  /\ T2!NotesAgree <=> PP2!T!NotesAgree
BY ZenonT(60) DEF T2!choices, T2!requests, T2!vars, T2!Accounts, T2!Filters, T2!SortKeys,
   T2!Sorts, T2!Init, T2!Edit, T2!Escape, T2!Put, T2!Field, T2!Save, T2!ServeSave, T2!Saved,
   T2!SaveFails, T2!Load, T2!Loaded, T2!matchesFilter, T2!filteredInstances, T2!groups, T2!Choose,
   T2!toggleSort, T2!Enter, T2!SetFilter, T2!Group, T2!Flip, T2!toggleGroup,
   T2!toggleAccountFilter, T2!Laid, T2!toggleSelection, T2!bulk, T2!BulkEnds, T2!Next,
   T2!NotesAgree, T2!Cardinality, PP2!T!choices, PP2!T!requests, PP2!T!vars, PP2!T!Accounts,
   PP2!T!Filters, PP2!T!SortKeys, PP2!T!Sorts, PP2!T!Init, PP2!T!Edit, PP2!T!Escape, PP2!T!Put,
   PP2!T!Field, PP2!T!Save, PP2!T!ServeSave, PP2!T!Saved, PP2!T!SaveFails, PP2!T!Load,
   PP2!T!Loaded, PP2!T!matchesFilter, PP2!T!filteredInstances, PP2!T!groups, PP2!T!Choose,
   PP2!T!toggleSort, PP2!T!Enter, PP2!T!SetFilter, PP2!T!Group, PP2!T!Flip, PP2!T!toggleGroup,
   PP2!T!toggleAccountFilter, PP2!T!Laid, PP2!T!toggleSelection, PP2!T!bulk, PP2!T!BulkEnds,
   PP2!T!Next, PP2!T!NotesAgree, PP2!T!Cardinality

LEMMA Table2Limits == PP2!TableLimits
<1> SUFFICES ASSUME NEW from \in MCRow PROVE from \in [{"i"} -> PP2!T!Row]
  BY SMTT(30) DEF PP2!TableLimits
<1>1. from = [i |-> MCTableRow(1, 0, TRUE, 1)]
  BY ZenonT(40) DEF MCRow
<1>2. MCTableRow(1, 0, TRUE, 1) \in PP2!T!Row
  BY DEF MCTableRow, PP2!T!Row
<1>3. from = [x \in {"i"} |-> from[x]]
  BY <1>1
<1>4. from["i"] \in PP2!T!Row
  BY <1>1, <1>2, ZenonT(40)
<1> QED BY <1>3, <1>4

Table2Holds == view = "table2" => PP2!TableInv

LEMMA Table2Stays == ViewsSpec => []Table2Holds
<1>1. ViewsInit => Table2Holds
  BY WorldsStart, Table2Limits, Table2Same, PP2!TableStart DEF Table2Holds
<1>2. Table2Holds /\ [ViewsNext]_all => Table2Holds'
  BY WorldsMove, Table2Limits, Table2Same, PP2!TableStep DEF Table2Holds
<1> QED BY <1>1, <1>2, PTL DEF ViewsSpec

\* As long as requests do not overlap and no answer is lost, a page shows what the
\* server has (AgreesAlone): the matrix of the channels, the policy of an account,
\* its status, the notes and names of the instances.
THEOREM PagesAgreeAlone == ViewsSpec => []AgreesAlone
<1>1. /\ ChannelsHolds
      /\ PolicyHolds
      /\ Accounts1Holds
      /\ Accounts2Holds
      /\ Table2Holds
      => AgreesAlone
  BY ChannelsSame, PP1!MatrixShow, PolicySame, PP1!PolicyShow, Accounts1Same, PP1!AccountsShow,
     Accounts2Same, PP2!AccountsShow, Table2Same, PP2!TableShow
     DEF AgreesAlone, ChannelsHolds, PolicyHolds, Accounts1Holds, Accounts2Holds, Table2Holds
<1> QED BY <1>1, ChannelsStays, PolicyStays, Accounts1Stays, Accounts2Stays, Table2Stays, PTL

\* The world drawer2: the part as MCViews and PagesProofs see it.
LEMMA Drawer2Same ==
  /\ D2!Init <=> PP2!D!Init
  /\ [D2!Next]_(D2!vars) => [PP2!D!Next]_(PP2!D!vars)
  /\ D2!NamedIsActedOn <=> PP2!D!NamedIsActedOn
  /\ D2!DrawerCatchesUp <=> PP2!D!DrawerCatchesUp
BY ZenonT(60) DEF D2!serverVars, D2!rescueVars, D2!vars, D2!NetworkJobs, D2!StorageCalls,
   D2!DetailOf, D2!Init, D2!open, D2!loadDetail, D2!ServeDetail, D2!DetailFails, D2!DetailComes,
   D2!JobEnds, D2!EventLost, D2!Reading, D2!locked, D2!Question, D2!Ask, D2!Shown, D2!removeIpv6,
   D2!changePrimaryIp, D2!detachVnic, D2!enableIpv6, D2!openAddVnic, D2!Submit, D2!submitVnic,
   D2!RunJob, D2!Network, D2!Power, D2!bootDetached, D2!detachBoot, D2!loadLooseVolumes,
   D2!LooseCome, D2!chooseVolume, D2!rescueTargets, D2!attachToRescue, D2!detachData,
   D2!reattachBoot, D2!Answer, D2!Storage, D2!Rescue, D2!Next, D2!NamedIsActedOn,
   D2!DrawerCatchesUp, PP2!D!serverVars, PP2!D!rescueVars, PP2!D!vars, PP2!D!NetworkJobs,
   PP2!D!StorageCalls, PP2!D!DetailOf, PP2!D!Init, PP2!D!open, PP2!D!loadDetail,
   PP2!D!ServeDetail, PP2!D!DetailFails, PP2!D!DetailComes, PP2!D!JobEnds, PP2!D!EventLost,
   PP2!D!Reading, PP2!D!locked, PP2!D!Question, PP2!D!Ask, PP2!D!Shown, PP2!D!removeIpv6,
   PP2!D!changePrimaryIp, PP2!D!detachVnic, PP2!D!enableIpv6, PP2!D!openAddVnic, PP2!D!Submit,
   PP2!D!submitVnic, PP2!D!RunJob, PP2!D!Network, PP2!D!Power, PP2!D!bootDetached,
   PP2!D!detachBoot, PP2!D!loadLooseVolumes, PP2!D!LooseCome, PP2!D!chooseVolume,
   PP2!D!rescueTargets, PP2!D!attachToRescue, PP2!D!detachData, PP2!D!reattachBoot, PP2!D!Answer,
   PP2!D!Storage, PP2!D!Rescue, PP2!D!Next, PP2!D!NamedIsActedOn, PP2!D!DrawerCatchesUp

Drawer2Holds == view = "drawer2" => PP2!DrawerInv

LEMMA Drawer2Stays == ViewsSpec => []Drawer2Holds
<1>1. ViewsInit => Drawer2Holds
  BY WorldsStart, Drawer2Same, PP2!DrawerStart DEF Drawer2Holds
<1>2. Drawer2Holds /\ [ViewsNext]_all => Drawer2Holds'
  BY WorldsMove, Drawer2Same, PP2!DrawerStep DEF Drawer2Holds
<1> QED BY <1>1, <1>2, PTL DEF ViewsSpec

\* What a question of the drawer names is what its answer acts on, though the detail
\* changes under it (NamedIsActedOn).
THEOREM DrawersActOnTheirOwn == ViewsSpec => []NamedIsActedOn
<1>1. Drawer1Holds /\ Drawer2Holds => NamedIsActedOn
  BY Drawer1Same, PP1!DrawerShow, Drawer2Same, PP2!DrawerShow
     DEF NamedIsActedOn, Drawer1Holds, Drawer2Holds
<1> QED BY <1>1, Drawer1Stays, Drawer2Stays, PTL

\* Once nothing is under way the drawer shows what OCI has, unless an answer overtook
\* a newer one, a word was lost or another drawer moved the volume (DrawerCatchesUp).
THEOREM DrawersCatchUp == ViewsSpec => []DrawerCatchesUp
<1>1. Drawer1Holds /\ Drawer2Holds => DrawerCatchesUp
  BY Drawer1Same, PP1!DrawerShow, Drawer2Same, PP2!DrawerShow
     DEF DrawerCatchesUp, Drawer1Holds, Drawer2Holds
<1> QED BY <1>1, Drawer1Stays, Drawer2Stays, PTL

\* The world slots2: the part as MCViews and PagesProofs see it.
LEMMA Slots2Same ==
  /\ Q2!Init <=> PP2!Q!Init
  /\ [Q2!Next]_(Q2!vars) => [PP2!Q!Next]_(PP2!Q!vars)
  /\ Q2!WaitersAwaitOracle <=> PP2!Q!WaitersAwaitOracle
BY ZenonT(60) DEF Q2!vars, Q2!Clients, Q2!Init, Q2!Goto, Q2!Do, Q2!FailedGoesTo, Q2!TakeGlobal,
   Q2!TakeTenancy, Q2!LeaveGlobalQueue, Q2!LeaveTenancyQueue, Q2!FreeTenancy, Q2!FreeGlobal,
   Q2!Retry, Q2!StopWaiting, Q2!ContextEnds, Q2!Rebuild, Q2!Next, Q2!At, Q2!AtOracle, Q2!MayTake,
   Q2!WaitersAwaitOracle, Q2!Cardinality, PP2!Q!vars, PP2!Q!Clients, PP2!Q!Init, PP2!Q!Goto,
   PP2!Q!Do, PP2!Q!FailedGoesTo, PP2!Q!TakeGlobal, PP2!Q!TakeTenancy, PP2!Q!LeaveGlobalQueue,
   PP2!Q!LeaveTenancyQueue, PP2!Q!FreeTenancy, PP2!Q!FreeGlobal, PP2!Q!Retry, PP2!Q!StopWaiting,
   PP2!Q!ContextEnds, PP2!Q!Rebuild, PP2!Q!Next, PP2!Q!At, PP2!Q!AtOracle, PP2!Q!MayTake,
   PP2!Q!WaitersAwaitOracle, PP2!Q!Cardinality

LEMMA Slots2Limits == PP2!SlotLimits
BY ThreeRequests DEF PP2!SlotLimits, PP2!IsFiniteSet, IsFiniteSet

Slots2Holds == view = "slots2" => PP2!SlotsInv

LEMMA Slots2Stays == ViewsSpec => []Slots2Holds
<1>1. ViewsInit => Slots2Holds
  BY WorldsStart, Slots2Limits, Slots2Same, PP2!SlotsStart DEF Slots2Holds
<1>2. Slots2Holds /\ [ViewsNext]_all => Slots2Holds'
  BY WorldsMove, Slots2Limits, Slots2Same, PP2!SlotsStep DEF Slots2Holds
<1> QED BY <1>1, <1>2, PTL DEF ViewsSpec

\* The world wizard2: the part as MCViews and PagesProofs see it.
LEMMA Wizard2Same ==
  /\ W2!Init <=> PP2!W!Init
  /\ [W2!Next]_(W2!vars) => [PP2!W!Next]_(PP2!W!vars)
  /\ W2!FormFits <=> PP2!W!FormFits
BY ZenonT(60) DEF W2!Shapes, W2!Keys, W2!form, W2!lists, W2!seqs, W2!ghosts, W2!vars, W2!Elements,
   W2!Here, W2!AsksAds, W2!AsksShapes, W2!AsksImages, W2!AsksSubnets, W2!Init, W2!loadShapes,
   W2!Pick, W2!PickAccount, W2!PickRegion, W2!PickDomain, W2!availableShapes, W2!shapeUnavailable,
   W2!PickShape, W2!PickImage, W2!PickSubnet, W2!SwitchPublicIp, W2!subnetConflict, W2!canNext,
   W2!NextStep, W2!Back, W2!Submit, W2!Refused, W2!Accepted, W2!Answered, W2!DomainsCome,
   W2!DomainsFail, W2!ShapesCome, W2!ShapesFail, W2!ImagesCome, W2!ImagesFail, W2!SubnetsCome,
   W2!SubnetsFail, W2!Ignored, W2!Next, W2!ShapesAskedOfOwnDomain, W2!Settled, W2!FormFits,
   PP2!W!Shapes, PP2!W!Keys, PP2!W!form, PP2!W!lists, PP2!W!seqs, PP2!W!ghosts, PP2!W!vars,
   PP2!W!Elements, PP2!W!Here, PP2!W!AsksAds, PP2!W!AsksShapes, PP2!W!AsksImages,
   PP2!W!AsksSubnets, PP2!W!Init, PP2!W!loadShapes, PP2!W!Pick, PP2!W!PickAccount,
   PP2!W!PickRegion, PP2!W!PickDomain, PP2!W!availableShapes, PP2!W!shapeUnavailable,
   PP2!W!PickShape, PP2!W!PickImage, PP2!W!PickSubnet, PP2!W!SwitchPublicIp, PP2!W!subnetConflict,
   PP2!W!canNext, PP2!W!NextStep, PP2!W!Back, PP2!W!Submit, PP2!W!Refused, PP2!W!Accepted,
   PP2!W!Answered, PP2!W!DomainsCome, PP2!W!DomainsFail, PP2!W!ShapesCome, PP2!W!ShapesFail,
   PP2!W!ImagesCome, PP2!W!ImagesFail, PP2!W!SubnetsCome, PP2!W!SubnetsFail, PP2!W!Ignored,
   PP2!W!Next, PP2!W!ShapesAskedOfOwnDomain, PP2!W!Settled, PP2!W!FormFits

LEMMA Wizard2Limits == PP2!WizardLimits
<1>1. PP2!W!Keys = MCKeys /\ \A s : PP2!W!Elements(s) = {s[n] : n \in DOMAIN s}
  BY DEF PP2!W!Keys, PP2!W!Elements, MCDomainsOf
<1>2. DOMAIN MCShapesAt = {"d1", "d2", "e1", "e2"} /\ \A d \in DOMAIN MCShapesAt : MCShapesAt[d] # {} /\ MCShapesAt[d] \subseteq {"arm", "amd"}
  BY SMTT(30) DEF MCShapesAt
<1>3. PP2!W!Shapes \subseteq {"arm", "amd"}
  BY <1>2 DEF PP2!W!Shapes
<1>4. \A s \in {"arm", "amd"} : MCImagesOf[s] # {}
  BY DEF MCImagesOf
<1>5. \A k \in MCKeys : k \in {"a", "b"} \X {"r1", "r2"}
  BY DEF MCKeys
<1> QED BY <1>1, <1>2, <1>3, <1>4, <1>5, WizardRegions, WizardDomains, NothingIsApart
        DEF PP2!WizardLimits

Wizard2Holds == view = "wizard2" => PP2!WizardInv

LEMMA Wizard2Stays == ViewsSpec => []Wizard2Holds
<1>1. ViewsInit => Wizard2Holds
  BY WorldsStart, Wizard2Limits, Wizard2Same, PP2!WizardStart DEF Wizard2Holds
<1>2. Wizard2Holds /\ [ViewsNext]_all => Wizard2Holds'
  BY WorldsMove, Wizard2Limits, Wizard2Same, PP2!WizardStep DEF Wizard2Holds
<1> QED BY <1>1, <1>2, PTL DEF ViewsSpec

-----------------------------------------------------------------------------
(* Requests whose client is built anew. *)

PP3 == INSTANCE PagesProofs WITH
         Requests <- {"q1", "q2", "q3"}, Tenants <- {"a"}, NoClient <- Nothing, Global <- 2,
         PerTenancy <- 1, MaxRetries <- 0, MaxBuilds <- 1,
         ChannelIds <- {"i"}, Events <- {"e", "f"}, Secrets <- {"s"}, Masked <- "dots",
         MaxChannelCalls <- 2, MaxId <- 3, PageSize <- 1, MaxAuditLoads <- 3,
         Accounts <- {"a", "b"}, Resources <- {"v", "w"}, Owner <- MCOwner, MaxCleanupLoads <- 3,
         Proxies <- {"p"}, PoolAccounts <- {"a"}, NewAccount <- "n", Direct <- "direct",
         Unchosen <- Nothing, Texts <- {}, MaxPoolCalls <- 2,
         Days <- {90, 365}, FirstDays <- 365, MaxReads <- 2, MaxWrites <- 2,
         SecurityLists <- Ranges, ListOrder <- SetToSeq(Ranges), RuleForms <- MCForms,
         Templates <- MCTemplates, OthersForms <- MCOthers, FirstRules <- MCInitially,
         MaxNetworkLoads <- 2, MaxRuleEdits <- 1,
         Configs <- MCConfigs, MetaOf <- MCMetaOf, FlexByName <- {"arm", "e5"}, DefaultRatio <- 2,
         DefaultOcpu <- 2, Arm <- {"arm"}, Sizes <- {1, 2}, Vpus <- {0, 1}, Memories <- {1, 2, 4},
         Quotas <- {1, Unlimited}, MaxMoves <- 2, MaxEditorChanges <- 2,
         AccountIds <- {"i"}, Keys <- {"old", "new"}, Accepted <- {"new"}, MaxTasks <- 3,
         MaxClock <- 0,
         TableIds <- {"i", "j", "k"}, AccountOf <- MCAccountOf, FromServer <- MCRows, Notes <- {1, 2},
         TableNames <- {1, 2, 3}, MaxTableEdits <- 0, MaxTableLoads <- 0, MaxChoices <- 2,
         DrawerInstances <- {"i"}, Tabs <- {"network"}, MaxVnics <- 2, MaxDrawerChanges <- 3,
         WizardAccounts <- {"b"}, RegionsOf <- MCRegionsOf, DomainsOf <- MCDomainsOf,
         ShapesAt <- MCShapesAt, ImagesOf <- MCImagesOf, SubnetsOf <- MCSubnetsOf,
         Prohibiting <- {"s2"}, Presets <- {"arm", "amd"}, FirstShape <- "arm", MaxPicks <- 1,
         MaxFailures <- 1,
         ColumnDefs <- MCDefs, FixedColumns <- {"check", "actions"}, NeedsView <- MCNeedsView,
         MinWidth <- MCMinWidth, MaxWidth <- 4, UnknownKeys <- {"old"}, StoredChoices <- MCFound,
         Pixels <- {1, 3}, ViewWidths <- {1, 2}, NoColumn <- "none", MaxColumnSteps <- 2

\* The world wizard3: the part as MCViews and PagesProofs see it.
LEMMA Wizard3Same ==
  /\ W3!Init <=> PP3!W!Init
  /\ [W3!Next]_(W3!vars) => [PP3!W!Next]_(PP3!W!vars)
  /\ W3!FormFits <=> PP3!W!FormFits
BY ZenonT(60) DEF W3!Shapes, W3!Keys, W3!form, W3!lists, W3!seqs, W3!ghosts, W3!vars, W3!Elements,
   W3!Here, W3!AsksAds, W3!AsksShapes, W3!AsksImages, W3!AsksSubnets, W3!Init, W3!loadShapes,
   W3!Pick, W3!PickAccount, W3!PickRegion, W3!PickDomain, W3!availableShapes, W3!shapeUnavailable,
   W3!PickShape, W3!PickImage, W3!PickSubnet, W3!SwitchPublicIp, W3!subnetConflict, W3!canNext,
   W3!NextStep, W3!Back, W3!Submit, W3!Refused, W3!Accepted, W3!Answered, W3!DomainsCome,
   W3!DomainsFail, W3!ShapesCome, W3!ShapesFail, W3!ImagesCome, W3!ImagesFail, W3!SubnetsCome,
   W3!SubnetsFail, W3!Ignored, W3!Next, W3!ShapesAskedOfOwnDomain, W3!Settled, W3!FormFits,
   PP3!W!Shapes, PP3!W!Keys, PP3!W!form, PP3!W!lists, PP3!W!seqs, PP3!W!ghosts, PP3!W!vars,
   PP3!W!Elements, PP3!W!Here, PP3!W!AsksAds, PP3!W!AsksShapes, PP3!W!AsksImages,
   PP3!W!AsksSubnets, PP3!W!Init, PP3!W!loadShapes, PP3!W!Pick, PP3!W!PickAccount,
   PP3!W!PickRegion, PP3!W!PickDomain, PP3!W!availableShapes, PP3!W!shapeUnavailable,
   PP3!W!PickShape, PP3!W!PickImage, PP3!W!PickSubnet, PP3!W!SwitchPublicIp, PP3!W!subnetConflict,
   PP3!W!canNext, PP3!W!NextStep, PP3!W!Back, PP3!W!Submit, PP3!W!Refused, PP3!W!Accepted,
   PP3!W!Answered, PP3!W!DomainsCome, PP3!W!DomainsFail, PP3!W!ShapesCome, PP3!W!ShapesFail,
   PP3!W!ImagesCome, PP3!W!ImagesFail, PP3!W!SubnetsCome, PP3!W!SubnetsFail, PP3!W!Ignored,
   PP3!W!Next, PP3!W!ShapesAskedOfOwnDomain, PP3!W!Settled, PP3!W!FormFits

LEMMA Wizard3Limits == PP3!WizardLimits
<1>1. PP3!W!Keys = MCKeys /\ \A s : PP3!W!Elements(s) = {s[n] : n \in DOMAIN s}
  BY DEF PP3!W!Keys, PP3!W!Elements, MCDomainsOf
<1>2. DOMAIN MCShapesAt = {"d1", "d2", "e1", "e2"} /\ \A d \in DOMAIN MCShapesAt : MCShapesAt[d] # {} /\ MCShapesAt[d] \subseteq {"arm", "amd"}
  BY DEF MCShapesAt
<1>3. PP3!W!Shapes \subseteq {"arm", "amd"}
  BY <1>2 DEF PP3!W!Shapes
<1>4. \A s \in {"arm", "amd"} : MCImagesOf[s] # {}
  BY DEF MCImagesOf
<1>5. \A k \in MCKeys : k \in {"a", "b"} \X {"r1", "r2"}
  BY DEF MCKeys
<1> QED BY <1>1, <1>2, <1>3, <1>4, <1>5, WizardRegions, WizardDomains, NothingIsApart
        DEF PP3!WizardLimits

Wizard3Holds == view = "wizard3" => PP3!WizardInv

LEMMA Wizard3Stays == ViewsSpec => []Wizard3Holds
<1>1. ViewsInit => Wizard3Holds
  BY WorldsStart, Wizard3Limits, Wizard3Same, PP3!WizardStart, SMTT(30) DEF Wizard3Holds
<1>2. Wizard3Holds /\ [ViewsNext]_all => Wizard3Holds'
  BY WorldsMove, Wizard3Limits, Wizard3Same, PP3!WizardStep DEF Wizard3Holds
<1> QED BY <1>1, <1>2, PTL DEF ViewsSpec

\* Once everything asked has come without an error, the form that is submitted fits
\* together, and no question was one that Oracle refuses (FormFits).
THEOREM FormsFitTogether == ViewsSpec => []FormFits
<1>1. /\ Wizard1Holds
      /\ Wizard2Holds
      /\ Wizard3Holds
      => FormFits
  BY Wizard1Same, PP1!WizardShow, Wizard1Limits, Wizard2Same, PP2!WizardShow, Wizard2Limits,
     Wizard3Same, PP3!WizardShow, Wizard3Limits
     DEF FormFits, Wizard1Holds, Wizard2Holds, Wizard3Holds
<1> QED BY <1>1, Wizard1Stays, Wizard2Stays, Wizard3Stays, PTL

\* The world slots3: the part as MCViews and PagesProofs see it.
LEMMA Slots3Same ==
  /\ Q3!Init <=> PP3!Q!Init
  /\ [Q3!Next]_(Q3!vars) => [PP3!Q!Next]_(PP3!Q!vars)
  /\ Q3!WaitersAwaitOracle <=> PP3!Q!WaitersAwaitOracle
BY ZenonT(60) DEF Q3!vars, Q3!Clients, Q3!Init, Q3!Goto, Q3!Do, Q3!FailedGoesTo, Q3!TakeGlobal,
   Q3!TakeTenancy, Q3!LeaveGlobalQueue, Q3!LeaveTenancyQueue, Q3!FreeTenancy, Q3!FreeGlobal,
   Q3!Retry, Q3!StopWaiting, Q3!ContextEnds, Q3!Rebuild, Q3!Next, Q3!At, Q3!AtOracle, Q3!MayTake,
   Q3!WaitersAwaitOracle, Q3!Cardinality, PP3!Q!vars, PP3!Q!Clients, PP3!Q!Init, PP3!Q!Goto,
   PP3!Q!Do, PP3!Q!FailedGoesTo, PP3!Q!TakeGlobal, PP3!Q!TakeTenancy, PP3!Q!LeaveGlobalQueue,
   PP3!Q!LeaveTenancyQueue, PP3!Q!FreeTenancy, PP3!Q!FreeGlobal, PP3!Q!Retry, PP3!Q!StopWaiting,
   PP3!Q!ContextEnds, PP3!Q!Rebuild, PP3!Q!Next, PP3!Q!At, PP3!Q!AtOracle, PP3!Q!MayTake,
   PP3!Q!WaitersAwaitOracle, PP3!Q!Cardinality

LEMMA Slots3Limits == PP3!SlotLimits
BY ThreeRequests DEF PP3!SlotLimits, PP3!IsFiniteSet, IsFiniteSet

Slots3Holds == view = "slots3" => PP3!SlotsInv

LEMMA Slots3Stays == ViewsSpec => []Slots3Holds
<1>1. ViewsInit => Slots3Holds
  BY WorldsStart, Slots3Limits, Slots3Same, PP3!SlotsStart DEF Slots3Holds
<1>2. Slots3Holds /\ [ViewsNext]_all => Slots3Holds'
  BY WorldsMove, Slots3Limits, Slots3Same, PP3!SlotsStep DEF Slots3Holds
<1> QED BY <1>1, <1>2, PTL DEF ViewsSpec

\* The limits on requests never stop each other (WaitersAwaitOracle, the promise of
\* the comment on acquireSlots in ociclient/transport.go): with two accounts, with a
\* retry, and with a client that is built anew while requests of the old one wait.
THEOREM NoCircleOfRequests == ViewsSpec => []WaitersAwaitOracle
<1>1. /\ Slots1Holds
      /\ Slots2Holds
      /\ Slots3Holds
      => WaitersAwaitOracle
  BY Slots1Same, PP1!SlotsShow, Slots1Limits, Slots2Same, PP2!SlotsShow, Slots2Limits, Slots3Same,
     PP3!SlotsShow, Slots3Limits
     DEF WaitersAwaitOracle, Slots1Holds, Slots2Holds, Slots3Holds
<1> QED BY <1>1, Slots1Stays, Slots2Stays, Slots3Stays, PTL
================================================================================
