---------------------------- MODULE LaunchWizard ----------------------------
(***************************************************************************)
(* The drawer that creates an instance (CreateInstanceDrawer.vue): six     *)
(* steps over one form whose later choices depend on the earlier ones, and *)
(* the lists they are chosen from, which are asked of Oracle whenever what *)
(* they depend on changes.  Answers come in any order and may be errors.   *)
(*                                                                         *)
(* A list is represented by the key of the question it answers, Nothing    *)
(* while it is empty.  Watchers run before any answer or click, so what    *)
(* they do is part of the action that triggers them.                       *)
(***************************************************************************)
EXTENDS Naturals, Sequences, FiniteSets

CONSTANTS Accounts, Nothing,
          RegionsOf,   \* [Accounts -> Seq(regions)]
          DomainsOf,   \* [<<account, region>> -> Seq(availability domains)]
          ShapesAt,    \* [availability domain -> set of shapes]
          ImagesOf,    \* [shape -> set of images]
          SubnetsOf,   \* [<<account, region>> -> set of subnets]
          Prohibiting, \* the subnets that allow no public address
          Presets,     \* the shapes of the presets of the back end
          FirstShape,  \* the preset the form starts with
          MaxPicks,    \* bound on choices of the user
          MaxFailures  \* bound on questions answered with an error

Shapes == (UNION {ShapesAt[d] : d \in DOMAIN ShapesAt}) \union Presets
Keys == DOMAIN DomainsOf

\* A world has every answer: no account without a region, no region without a
\* domain, no shape without an image.
Whole ==
  /\ \A a \in Accounts : Len(RegionsOf[a]) > 0
       /\ \A n \in DOMAIN RegionsOf[a] : <<a, RegionsOf[a][n]>> \in Keys
  /\ \A k \in Keys : Len(DomainsOf[k]) > 0
  /\ DOMAIN SubnetsOf = Keys /\ FirstShape \in Presets
  /\ DOMAIN ImagesOf = Shapes /\ \A s \in Shapes : ImagesOf[s] # {}
  /\ {MaxPicks, MaxFailures} \subseteq Nat

VARIABLES
  step, submitting, closed,
  account, region, ad, shape, imageId, subnetId, publicIp,  \* form
  ads, shapes, images, subnets,  \* the key each list answers, or Nothing
  optionSeq, shapesKey, loadingAds,
  asked,      \* questions without an answer
  picks, failures,
  failed,     \* a question the form still depends on was answered with an error
  hasty,      \* step 2 was left while its lists were on the way
  unchecked   \* step 4 was left with a chosen subnet and no list to look it up in

form == <<account, region, ad, shape, imageId, subnetId, publicIp>>
lists == <<ads, shapes, images, subnets>>
seqs == <<optionSeq, shapesKey, loadingAds>>
ghosts == <<picks, failures, failed, hasty, unchecked>>
vars == <<step, submitting, closed, form, lists, seqs, asked, ghosts>>

Elements(s) == {s[n] : n \in DOMAIN s}
Here == <<account, region>>

Questions == [kind : {"ads"}, at : Keys, seq : Nat]
               \union [kind : {"shapes"}, key : Keys \X (DOMAIN ShapesAt \union {Nothing})]
               \union [kind : {"images"}, key : Keys \X Shapes]
               \union [kind : {"subnets"}, at : Keys]

TypeOK ==
  /\ step \in 0 .. 5 /\ {submitting, closed} \subseteq BOOLEAN
  /\ Here \in Keys /\ shape \in Shapes /\ publicIp \in BOOLEAN
  /\ ad \in DOMAIN ShapesAt \union {Nothing}
  /\ ads \in Keys \union {Nothing} /\ subnets \in Keys \union {Nothing}
  /\ asked \subseteq Questions /\ optionSeq \in Nat

-----------------------------------------------------------------------------
(* Questions *)

AsksAds(a, r, seq) == [kind |-> "ads", at |-> <<a, r>>, seq |-> seq]
AsksShapes(k, d) == [kind |-> "shapes", key |-> <<k, d>>]
AsksImages(k, s) == [kind |-> "images", key |-> <<k, s>>]
AsksSubnets(k) == [kind |-> "subnets", at |-> k]

\* The page asks for the domains of the first region of the first account.
Init ==
  /\ step = 0 /\ submitting = FALSE /\ closed = FALSE
  /\ account \in Accounts /\ region = RegionsOf[account][1]
  /\ ad = Nothing /\ shape = FirstShape /\ imageId = Nothing
  /\ subnetId = Nothing /\ publicIp = TRUE
  /\ ads = Nothing /\ shapes = Nothing /\ images = Nothing /\ subnets = Nothing
  /\ optionSeq = 1 /\ shapesKey = Nothing /\ loadingAds = TRUE
  /\ asked = {AsksAds(account, region, 1)}
  /\ picks = 0 /\ failures = 0 /\ failed = FALSE /\ hasty = FALSE
  /\ unchecked = FALSE

\* loadShapes up to its await, for domain d and the list of domains known,
\* with the questions that stay open:
\* a key that was asked already is not asked again, and a domain that is not
\* in the list is not asked at all.
loadShapes(k, d, known, open) ==
  IF shapesKey = <<k, d>>
  THEN asked' = open /\ UNCHANGED shapesKey
  ELSE IF d # Nothing /\ (known = Nothing \/ d \notin Elements(DomainsOf[known]))
  THEN asked' = open /\ shapesKey' = Nothing
  ELSE asked' = open \union {AsksShapes(k, d)} /\ shapesKey' = <<k, d>>

-----------------------------------------------------------------------------
(* The user *)

Pick == ~closed /\ ~submitting /\ picks < MaxPicks /\ picks' = picks + 1

\* The watchers of the account and of the region each call loadRegionOptions.
PickAccount(a) ==
  /\ step = 0 /\ a # account /\ Pick
  /\ LET r == RegionsOf[a][1]
         n == IF r = region THEN 1 ELSE 2
     IN /\ account' = a /\ region' = r
        /\ optionSeq' = optionSeq + n
        /\ asked' = asked \union {AsksAds(a, r, optionSeq + m) : m \in 1 .. n}
  /\ loadingAds' = TRUE /\ failed' = FALSE
  /\ UNCHANGED <<step, submitting, closed, ad, shape, imageId, subnetId, publicIp,
                 lists, shapesKey, failures, hasty, unchecked>>

PickRegion(r) ==
  /\ step = 1 /\ r # region /\ Pick
  /\ region' = r
  /\ optionSeq' = optionSeq + 1
  /\ asked' = asked \union {AsksAds(account, r, optionSeq + 1)}
  /\ loadingAds' = TRUE /\ failed' = FALSE
  /\ UNCHANGED <<step, submitting, closed, account, ad, shape, imageId, subnetId,
                 publicIp, lists, shapesKey, failures, hasty, unchecked>>

\* The buttons of the domains are hidden while the list is loaded.
PickDomain(d) ==
  /\ step = 1 /\ ~loadingAds /\ ads # Nothing /\ d \in Elements(DomainsOf[ads]) /\ d # ad
  /\ Pick
  /\ ad' = d
  /\ loadShapes(Here, d, ads, asked)
  /\ UNCHANGED <<step, submitting, closed, account, region, shape, imageId, subnetId,
                 publicIp, lists, optionSeq, loadingAds, failures, failed, hasty, unchecked>>

\* presetUnavailable: with no list of shapes nothing is held unavailable.
availableShapes == IF shapes = Nothing THEN {} ELSE ShapesAt[shapes]
shapeUnavailable(s) == availableShapes # {} /\ s \notin availableShapes

\* pickPreset and pickShape: a preset that is available, or a listed shape.
PickShape(s) ==
  /\ step = 2 /\ s # shape /\ Pick
  /\ (s \in Presets /\ ~shapeUnavailable(s)) \/ s \in availableShapes
  /\ shape' = s
  /\ asked' = asked \union {AsksImages(Here, s)}
  /\ UNCHANGED <<step, submitting, closed, account, region, ad, imageId, subnetId,
                 publicIp, lists, seqs, failures, failed, hasty, unchecked>>

PickImage(i) ==
  /\ step = 3 /\ images # Nothing /\ i \in ImagesOf[images[2]] /\ i # imageId /\ Pick
  /\ imageId' = i
  /\ UNCHANGED <<step, submitting, closed, account, region, ad, shape, subnetId,
                 publicIp, lists, seqs, asked, failures, failed, hasty, unchecked>>

PickSubnet(s) ==
  /\ step = 4 /\ s \in (IF subnets = Nothing THEN {} ELSE SubnetsOf[subnets]) \union {Nothing}
  /\ s # subnetId /\ Pick
  /\ subnetId' = s
  /\ UNCHANGED <<step, submitting, closed, account, region, ad, shape, imageId,
                 publicIp, lists, seqs, asked, failures, failed, hasty, unchecked>>

SwitchPublicIp ==
  /\ step = 4 /\ Pick
  /\ publicIp' = ~publicIp
  /\ UNCHANGED <<step, submitting, closed, account, region, ad, shape, imageId,
                 subnetId, lists, seqs, asked, failures, failed, hasty, unchecked>>

\* The subnet is looked up in the list of the moment.
subnetConflict ==
  /\ subnetId # Nothing /\ publicIp /\ subnets # Nothing
  /\ subnetId \in SubnetsOf[subnets] \intersect Prohibiting

canNext ==
  CASE step = 1 -> ad # Nothing
    [] step = 2 -> ~shapeUnavailable(shape)
    [] step = 3 -> imageId # Nothing
    [] step = 4 -> ~subnetConflict
    [] OTHER -> TRUE

\* next, before the last step: steps 3 and 4 ask for their lists.
NextStep ==
  /\ canNext /\ ~submitting /\ ~closed /\ step < 5
  /\ step' = step + 1
  /\ asked' = CASE step = 2 -> asked \union {AsksImages(Here, shape)}
                [] step = 3 -> asked \union {AsksSubnets(Here)}
                [] OTHER -> asked
  /\ hasty' = IF step = 2 THEN \E q \in asked : q.kind \in {"ads", "shapes"} ELSE hasty
  /\ unchecked' = IF step = 4 THEN subnetId # Nothing /\ subnets = Nothing ELSE unchecked
  /\ UNCHANGED <<submitting, closed, form, lists, seqs, picks, failures, failed>>

Back ==
  /\ step > 0 /\ ~submitting /\ ~closed
  /\ step' = step - 1
  /\ UNCHANGED <<submitting, closed, form, lists, seqs, asked, ghosts>>

\* The last step: launchInstance at once, or submitHunt after a confirmation.
Submit ==
  /\ step = 5 /\ canNext /\ ~submitting /\ ~closed
  /\ submitting' = TRUE
  /\ UNCHANGED <<step, closed, form, lists, seqs, asked, ghosts>>

\* Refused, the form stays open; accepted, the drawer and all of it goes.
Refused ==
  /\ submitting
  /\ submitting' = FALSE
  /\ UNCHANGED <<step, closed, form, lists, seqs, asked, ghosts>>

Accepted ==
  /\ submitting
  /\ submitting' = FALSE /\ closed' = TRUE /\ asked' = {}
  /\ UNCHANGED <<step, form, lists, seqs, ghosts>>

-----------------------------------------------------------------------------
(* Answers.  What is asked after one of them is asked of the form as it is. *)

Answered(q) == q \in asked

\* Mutant: the answer to an earlier question is taken.
DomainsComeAny(q) ==
  /\ Answered(q) /\ q.kind = "ads"
  /\ ads' = q.at
  /\ ad' = IF ad \in Elements(DomainsOf[q.at]) THEN ad ELSE DomainsOf[q.at][1]
  /\ loadShapes(Here, ad', q.at, asked \ {q})
  /\ loadingAds' = FALSE
  /\ UNCHANGED <<step, submitting, closed, account, region, shape, imageId, subnetId,
                 publicIp, shapes, images, subnets, optionSeq, ghosts>>

\* loadRegionOptions after its await: an answer of an earlier question is
\* ignored; a domain that is not in the list is replaced by the first.
DomainsCome(q) ==
  /\ Answered(q) /\ q.kind = "ads" /\ q.seq = optionSeq
  /\ ads' = q.at
  /\ ad' = IF ad \in Elements(DomainsOf[q.at]) THEN ad ELSE DomainsOf[q.at][1]
  /\ loadShapes(Here, ad', q.at, asked \ {q})
  /\ loadingAds' = FALSE
  /\ UNCHANGED <<step, submitting, closed, account, region, shape, imageId, subnetId,
                 publicIp, shapes, images, subnets, optionSeq, ghosts>>

DomainsFail(q) ==
  /\ Answered(q) /\ q.kind = "ads" /\ q.seq = optionSeq /\ failures < MaxFailures
  /\ asked' = asked \ {q}
  /\ ads' = Nothing /\ shapes' = Nothing /\ shapesKey' = Nothing /\ loadingAds' = FALSE
  /\ failures' = failures + 1 /\ failed' = TRUE
  /\ UNCHANGED <<step, submitting, closed, form, images, subnets, optionSeq, picks, hasty,
                 unchecked>>

ShapesCome(q) ==
  /\ Answered(q) /\ q.kind = "shapes" /\ q.key = shapesKey
  /\ asked' = asked \ {q}
  /\ shapes' = q.key[2]
  /\ UNCHANGED <<step, submitting, closed, form, ads, images, subnets, seqs, ghosts>>

ShapesFail(q) ==
  /\ Answered(q) /\ q.kind = "shapes" /\ q.key = shapesKey /\ failures < MaxFailures
  /\ asked' = asked \ {q}
  /\ shapes' = Nothing /\ shapesKey' = Nothing
  /\ failures' = failures + 1 /\ failed' = TRUE
  /\ UNCHANGED <<step, submitting, closed, form, ads, images, subnets, optionSeq,
                 loadingAds, picks, hasty, unchecked>>

\* Mutant: the images of a shape that was left are taken.
ImagesComeAny(q) ==
  /\ Answered(q) /\ q.kind = "images"
  /\ asked' = asked \ {q}
  /\ images' = q.key
  /\ imageId' = IF imageId \in ImagesOf[q.key[2]] THEN imageId
                ELSE CHOOSE i \in ImagesOf[q.key[2]] : TRUE
  /\ UNCHANGED <<step, submitting, closed, account, region, ad, shape, subnetId,
                 publicIp, ads, shapes, subnets, seqs, ghosts>>

ImagesCome(q) ==
  /\ Answered(q) /\ q.kind = "images" /\ q.key = <<Here, shape>>
  /\ asked' = asked \ {q}
  /\ images' = q.key
  /\ imageId' = IF imageId \in ImagesOf[shape] THEN imageId
                ELSE CHOOSE i \in ImagesOf[shape] : TRUE
  /\ UNCHANGED <<step, submitting, closed, account, region, ad, shape, subnetId,
                 publicIp, ads, shapes, subnets, seqs, ghosts>>

ImagesFail(q) ==
  /\ Answered(q) /\ q.kind = "images" /\ q.key = <<Here, shape>> /\ failures < MaxFailures
  /\ asked' = asked \ {q}
  /\ images' = Nothing
  /\ failures' = failures + 1 /\ failed' = TRUE
  /\ UNCHANGED <<step, submitting, closed, form, ads, shapes, subnets, seqs, picks, hasty,
                 unchecked>>

SubnetsCome(q) ==
  /\ Answered(q) /\ q.kind = "subnets" /\ q.at = Here
  /\ asked' = asked \ {q}
  /\ subnets' = q.at
  /\ subnetId' = IF subnetId \in SubnetsOf[q.at] THEN subnetId ELSE Nothing
  /\ UNCHANGED <<step, submitting, closed, account, region, ad, shape, imageId,
                 publicIp, ads, shapes, images, seqs, ghosts>>

\* A failure clears the list even if it answers an earlier question.
SubnetsFail(q) ==
  /\ Answered(q) /\ q.kind = "subnets" /\ failures < MaxFailures
  /\ asked' = asked \ {q}
  /\ subnets' = Nothing
  /\ failures' = failures + 1 /\ failed' = TRUE
  /\ UNCHANGED <<step, submitting, closed, form, ads, shapes, images, seqs, picks, hasty,
                 unchecked>>

\* An answer, or an error, the form does not wait for any more.
Ignored(q) ==
  /\ Answered(q)
  /\ \/ q.kind = "ads" /\ q.seq # optionSeq
     \/ q.kind = "shapes" /\ q.key # shapesKey
     \/ q.kind = "images" /\ q.key # <<Here, shape>>
     \/ q.kind = "subnets" /\ q.at # Here
  /\ asked' = asked \ {q}
  /\ UNCHANGED <<step, submitting, closed, form, lists, seqs, ghosts>>

Next ==
  \/ \E a \in Accounts : PickAccount(a)
  \/ \E r \in Elements(RegionsOf[account]) : PickRegion(r)
  \/ \E d \in DOMAIN ShapesAt : PickDomain(d)
  \/ \E s \in Shapes : PickShape(s)
  \/ \E i \in UNION {ImagesOf[s] : s \in Shapes} : PickImage(i)
  \/ \E s \in (UNION {SubnetsOf[k] : k \in Keys}) \union {Nothing} : PickSubnet(s)
  \/ SwitchPublicIp \/ NextStep \/ Back \/ Submit \/ Refused \/ Accepted
  \/ \E q \in asked : \/ DomainsCome(q) \/ DomainsFail(q) \/ ShapesCome(q) \/ ShapesFail(q)
                      \/ ImagesCome(q) \/ ImagesFail(q) \/ SubnetsCome(q) \/ SubnetsFail(q)
                      \/ Ignored(q)

Spec == Init /\ [][Next]_vars

-----------------------------------------------------------------------------
(* Properties *)

\* The comments of optionSeq and loadShapes: Oracle answers 404 to a domain
\* of another tenancy or region, so no question for shapes ever names one,
\* however quickly the account and the region are changed.
ShapesAskedOfOwnDomain ==
  \A q \in asked : q.kind = "shapes" =>
    q.key[2] = Nothing \/ q.key[2] \in Elements(DomainsOf[q.key[1]])

Settled == asked = {} /\ ~failed /\ ~closed

\* When every question is answered, none with an error, and step 2 was left
\* with its lists there, the form that is submitted fits together: the domain
\* is of the account and region, offers the shape, the image is one for the
\* shape, and the subnet is of the region, although each was chosen before the
\* others changed.  No question was one that Oracle refuses.  And a subnet
\* without public addresses is not asked for one, whatever is still on its way,
\* if step 4 was left with a list the subnet could be looked up in: the last
\* step looks at the name only, so a list that failed and comes later is not.
FormFits ==
  /\ ShapesAskedOfOwnDomain
  /\ Settled => ads = Here /\ ad \in Elements(DomainsOf[Here]) /\ shapes = ad
  /\ Settled /\ step >= 3 =>
       imageId \in ImagesOf[shape] /\ (~hasty => shape \in ShapesAt[ad])
  /\ Settled /\ step >= 4 => subnetId \in SubnetsOf[Here] \union {Nothing}
  /\ step = 5 /\ ~unchecked => ~(publicIp /\ subnetId \in Prohibiting)
=============================================================================
