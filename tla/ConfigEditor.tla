------------------------------ MODULE ConfigEditor ------------------------------
(***************************************************************************)
(* The editor of an instance's boot volume and shape (BootVolumeEditor.vue)*)
(* in the drawer of that instance: sliders that start at what the instance *)
(* has, follow it when it changes, and are sent after a confirmation.  The *)
(* instance is changed by the jobs started here and by others, and the     *)
(* page learns of it at any time, with the confirmation open too.          *)
(***************************************************************************)
EXTENDS Integers

CONSTANTS Configs,    \* configurations the instance may be found in
          MetaOf,     \* of a shape: what Oracle says of it
          FlexByName, \* shapes with .Flex in their name
          DefaultRatio, DefaultOcpu,  \* 6 GB and 4 OCPUs: assumed of a shape not known yet
          Arm,        \* shapes the quota is about (A1.Flex)
          Sizes, Vpus, Memories,  \* what the sliders may be set to
          Quotas,     \* what may be left of the account's quota
          Unlimited,  \* no limit, or none known
          Nothing,
          MaxMoves, MaxChanges  \* bounds on the user's moves, and on changes of the instance and its quota

VARIABLES
  instance,   \* props.instance
  left,       \* OCPUs left of the quota
  shapeMeta, asking,  \* what is known of the shape, and the shapes asked about
  size, vpu, ocpu, mem, baseline,  \* the sliders
  question,   \* the confirmation: nothing, or what it names
  applyingVolume, applyingShape,   \* the requests: Nothing, or what was asked and sent
  moves, changes,
  reshaped    \* history: the shape changed under the editor

sliders == <<size, vpu, ocpu, mem, baseline>>
vars == <<instance, left, shapeMeta, asking, sliders, question, applyingVolume, applyingShape,
          moves, changes, reshaped>>

Baselines == {"none", "half"}
Shapes == {c.shape : c \in Configs}

TypeOK ==
  /\ instance \in Configs /\ left \in Quotas
  /\ shapeMeta \in {MetaOf[s] : s \in Shapes} \union {Nothing} /\ asking \subseteq Shapes
  /\ size \in Nat /\ vpu \in Vpus /\ ocpu \in Nat /\ mem \in Nat /\ baseline \in Baselines

Least(a, b) == IF a < b THEN a ELSE b
Most(a, b) == IF a < b THEN b ELSE a

isFlexible == IF shapeMeta = Nothing THEN instance.shape \in FlexByName ELSE shapeMeta.flexible
maxPerOcpu == IF shapeMeta = Nothing THEN DefaultRatio ELSE shapeMeta.ratio
canBurst == shapeMeta # Nothing /\ shapeMeta.burst
Limited == instance.shape \in Arm /\ left # Unlimited

maxOcpu ==
  LET shapeMax == IF shapeMeta = Nothing THEN DefaultOcpu ELSE shapeMeta.ocpus
  IN IF Limited THEN Most(instance.ocpu, Least(shapeMax, left + instance.ocpu)) ELSE shapeMax
maxMem == IF isFlexible THEN Most(instance.mem, ocpu * maxPerOcpu) ELSE mem
overQuota == Limited /\ ocpu - instance.ocpu > left

volumeChanged == size # instance.boot \/ vpu # instance.vpu
baselineChanged == canBurst /\ baseline # instance.baseline
shapeChanged == ocpu # instance.ocpu \/ mem # instance.mem \/ baselineChanged

-----------------------------------------------------------------------------
Init ==
  /\ instance \in Configs /\ left \in Quotas
  /\ shapeMeta = Nothing /\ asking = {instance.shape}
  /\ size = instance.boot /\ vpu = instance.vpu
  /\ ocpu = instance.ocpu /\ mem = instance.mem /\ baseline = instance.baseline
  /\ question = Nothing /\ applyingVolume = Nothing /\ applyingShape = Nothing
  /\ moves = 0 /\ changes = 0 /\ reshaped = FALSE

\* loadShapeMeta: the answer about a shape the instance has no more is dropped.
MetaComes(s) ==
  /\ s \in asking
  /\ asking' = asking \ {s}
  /\ shapeMeta' \in IF s = instance.shape THEN {MetaOf[s], Nothing} ELSE {shapeMeta}
  /\ UNCHANGED <<instance, left, sliders, question, applyingVolume, applyingShape, moves, changes,
                 reshaped>>

\* What the watcher looks at: the baseline is not among it.
watched(c) == <<c.boot, c.vpu, c.ocpu, c.mem>>

\* Mutant: the memory stays where it was.
MemoryKept(c) == mem

MemoryFrom(c) == c.mem

\* The instance was refreshed: the sliders go to its values, and a new shape is
\* asked about.
Refresh(c) ==
  /\ changes < MaxChanges /\ changes' = changes + 1 /\ c # instance
  /\ instance' = c
  /\ IF watched(c) # watched(instance)
     THEN /\ size' = c.boot /\ vpu' = c.vpu /\ ocpu' = c.ocpu /\ mem' = MemoryFrom(c)
          /\ baseline' = c.baseline
     ELSE UNCHANGED sliders
  /\ asking' = IF c.shape # instance.shape THEN asking \union {c.shape} ELSE asking
  /\ reshaped' = (reshaped \/ c.shape # instance.shape)
  /\ UNCHANGED <<left, shapeMeta, question, applyingVolume, applyingShape, moves>>

QuotaChanges(q) ==
  /\ changes < MaxChanges /\ changes' = changes + 1 /\ q # left
  /\ left' = q
  /\ UNCHANGED <<instance, shapeMeta, asking, sliders, question, applyingVolume, applyingShape, moves,
                 reshaped>>

\* The confirmation is modal.
Move == question = Nothing /\ moves < MaxMoves /\ moves' = moves + 1
Rest == UNCHANGED <<instance, left, shapeMeta, asking, question, applyingVolume, applyingShape,
                    changes, reshaped>>

SetSize(n) == /\ Move /\ n >= instance.boot /\ size' = n
              /\ UNCHANGED <<vpu, ocpu, mem, baseline>> /\ Rest
SetVpu(n) == /\ Move /\ vpu' = n
             /\ UNCHANGED <<size, ocpu, mem, baseline>> /\ Rest

\* onOcpu: the memory is capped by what the shape allows per OCPU.
capped(n, m) == Least(m, n * maxPerOcpu)

onOcpu(n) ==
  /\ Move /\ isFlexible /\ n \in 1 .. maxOcpu
  /\ ocpu' = n /\ mem' = capped(n, mem)
  /\ UNCHANGED <<size, vpu, baseline>> /\ Rest

SetMem(n) == /\ Move /\ isFlexible /\ n \in 1 .. maxMem /\ mem' = n
             /\ UNCHANGED <<size, vpu, ocpu, baseline>> /\ Rest
SetBaseline(b) == /\ Move /\ canBurst /\ baseline' = b
                  /\ UNCHANGED <<size, vpu, ocpu, mem>> /\ Rest

Ask(q) ==
  /\ question = Nothing
  /\ question' = q
  /\ UNCHANGED <<instance, left, shapeMeta, asking, sliders, applyingVolume, applyingShape,
                 moves, changes, reshaped>>

applyVolume ==
  /\ volumeChanged /\ applyingVolume = Nothing
  /\ Ask([of |-> "volume", size |-> size, vpu |-> vpu])

transitional == instance.state = "changing"
applyShape ==
  /\ shapeChanged /\ ~transitional /\ ~overQuota /\ applyingShape = Nothing /\ isFlexible
  /\ Ask([of |-> "shape", ocpu |-> ocpu, mem |-> mem])

\* What is sent is what the sliders show by then; of the volume only what differs
\* from the instance, of the baseline only a change.
Confirm ==
  /\ question # Nothing
  /\ question' = Nothing
  /\ IF question.of = "volume"
     THEN /\ applyingVolume' = [asked |-> question, size |-> size, vpu |-> vpu]
          /\ UNCHANGED applyingShape
     ELSE /\ applyingShape' = [asked |-> question, ocpu |-> ocpu, mem |-> mem, ratio |-> maxPerOcpu,
                               had |-> instance,
                               baseline |-> IF baselineChanged THEN baseline ELSE Nothing]
          /\ UNCHANGED applyingVolume
  /\ UNCHANGED <<instance, left, shapeMeta, asking, sliders, moves, changes, reshaped>>

Dismiss ==
  /\ question # Nothing
  /\ question' = Nothing
  /\ UNCHANGED <<instance, left, shapeMeta, asking, sliders, applyingVolume, applyingShape, moves,
                 changes, reshaped>>

\* A job was started, or it was not: then the sliders go back.
VolumeEnds(ok) ==
  /\ applyingVolume # Nothing
  /\ applyingVolume' = Nothing
  /\ size' = (IF ok THEN size ELSE instance.boot) /\ vpu' = (IF ok THEN vpu ELSE instance.vpu)
  /\ UNCHANGED <<instance, left, shapeMeta, asking, ocpu, mem, baseline, question, applyingShape,
                 moves, changes, reshaped>>

ShapeEnds(ok) ==
  /\ applyingShape # Nothing
  /\ applyingShape' = Nothing
  /\ IF ok THEN UNCHANGED <<ocpu, mem, baseline>>
     ELSE ocpu' = instance.ocpu /\ mem' = instance.mem /\ baseline' = instance.baseline
  /\ UNCHANGED <<instance, left, shapeMeta, asking, size, vpu, question, applyingVolume, moves,
                 changes, reshaped>>

Next ==
  \/ \E s \in Shapes : MetaComes(s)
  \/ \E c \in Configs : Refresh(c)
  \/ \E q \in Quotas : QuotaChanges(q)
  \/ \E n \in Sizes : SetSize(n)
  \/ \E n \in Vpus : SetVpu(n)
  \/ \E n \in 1 .. DefaultOcpu : onOcpu(n)
  \/ \E n \in Memories : SetMem(n)
  \/ \E b \in Baselines : SetBaseline(b)
  \/ applyVolume \/ applyShape \/ Confirm \/ Dismiss
  \/ \E ok \in BOOLEAN : VolumeEnds(ok) \/ ShapeEnds(ok)

Spec == Init /\ [][Next]_vars

-----------------------------------------------------------------------------
\* What is sent is what the question named or, when the instance was refreshed
\* meanwhile, exactly what it had then, never some sliders of one and some of the
\* other; and the memory is within what the shape allows for those OCPUs, or is
\* what the instance had.  (When the shape itself is changed elsewhere, what was
\* known of the old one serves until the answer about the new one is there.)
SlidersNeverMix ==
  applyingShape # Nothing =>
    LET sent == <<applyingShape.ocpu, applyingShape.mem>>
        had == <<applyingShape.had.ocpu, applyingShape.had.mem>>
    IN /\ sent \in {<<applyingShape.asked.ocpu, applyingShape.asked.mem>>, had}
       /\ sent # had /\ ~reshaped => applyingShape.mem <= Most(applyingShape.had.mem,
                                                  applyingShape.ocpu * applyingShape.ratio)

\* Two stronger ones that the code breaks: what is sent is what the question
\* named (a refresh moves the sliders under an open question), and the baseline is
\* sent only by who changed it (it is not watched, so one that was changed
\* elsewhere looks like a change of the user).
AskedIsSent == applyingShape # Nothing => applyingShape.ocpu = applyingShape.asked.ocpu
BaselineIsOwn == applyingShape # Nothing /\ applyingShape.baseline # Nothing =>
                   applyingShape.baseline # "none"
=================================================================================
