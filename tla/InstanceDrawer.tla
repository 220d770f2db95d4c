--------------------------- MODULE InstanceDrawer ---------------------------
(***************************************************************************)
(* The drawer of one instance (InstanceDrawer.vue): its detail, read       *)
(* whenever something may have changed it; the jobs it submits on the      *)
(* network of the instance; and the rescue of an instance that does not    *)
(* boot, whose boot volume is taken off, hung on another instance of the   *)
(* domain, taken off there and put back.                                   *)
(*                                                                         *)
(* Readings of the detail are not numbered.  A drawer is made anew for     *)
(* every instance (DrawerHost.vue), and what is under way for the old one  *)
(* reaches nobody.  The instances here share account, region and domain.   *)
(***************************************************************************)
EXTENDS Naturals, FiniteSets

CONSTANTS Instances,
          Nothing,
          Tabs,        \* of "network" and "storage", the tabs one looks at
          MaxVnics,    \* detail.maxVnics
          MaxChanges   \* bound on jobs, power changes, storage calls and openings

VARIABLES
  power,     \* "RUNNING", "STOPPED" or "STARTING", as the page's list has it
  net,       \* the network of each instance at OCI
  at,        \* the instance each boot volume hangs on, or Nothing
  number,    \* how often the boot volume was put on its own instance
  changes,
  jobs,      \* network jobs under way
  ended,     \* ends of jobs on their way to the page
  id,        \* the instance the drawer shows, or Nothing
  detail,    \* its detail, or Nothing
  asked,     \* readings the server has not answered
  answers,   \* details on their way to the drawer
  adding,    \* the form for another network card is open
  loose,     \* the loose volumes read for the rescue, or Nothing
  looseAsked,
  chosen,    \* chosenVolume: the instance the volume is of, or Nothing
  confirm,   \* the open question and what its answer would send
  calls,     \* storage calls the server works on
  behind     \* a late answer replaced a newer one, or an event or a reading
             \* was lost, since the last detail

serverVars == <<power, net, at, number>>
rescueVars == <<loose, looseAsked, chosen>>
vars == <<power, net, at, number, changes, jobs, ended, id, detail, asked, answers, adding,
          loose, looseAsked, chosen, confirm, calls, behind>>

Nets == [ip : 0 .. MaxChanges, ipv6 : BOOLEAN, vnics : 1 .. MaxVnics]
Attachments == Instances \X (0 .. MaxChanges)
Details == [of : Instances, net : Nets, boot : Attachments \union {Nothing},
            disks : SUBSET Instances]
NetworkJobs == {"removeIpv6", "changeIp", "attachVnic", "detachVnic", "enableIpv6"}
StorageCalls == {"detachBoot", "attachVolume", "detachVolume", "attachBootVolume"}
Questions == [kind : NetworkJobs \union StorageCalls, of : Instances, from : Instances,
              volume : Instances, boot : Attachments \union {Nothing}]

TypeOK ==
  /\ power \in [Instances -> {"RUNNING", "STOPPED", "STARTING"}]
  /\ net \in [Instances -> Nets]
  /\ at \in [Instances -> Instances \union {Nothing}]
  /\ number \in [Instances -> 0 .. MaxChanges] /\ changes \in 0 .. MaxChanges
  /\ jobs \subseteq [kind : NetworkJobs, of : Instances] /\ ended \subseteq Instances
  /\ id \in Instances \union {Nothing} /\ detail \in Details \union {Nothing}
  /\ asked \in 0 .. 3 /\ answers \subseteq Details /\ adding \in BOOLEAN
  /\ loose \in (SUBSET Instances) \union {Nothing} /\ looseAsked \in BOOLEAN
  /\ chosen \in Instances \union {Nothing}
  /\ confirm \in Questions \union {Nothing} /\ calls \subseteq Questions
  /\ behind \in BOOLEAN

\* What GET /api/instances/{id} returns: cards, own boot attachment, data disks.
DetailOf(i) ==
  [of |-> i, net |-> net[i], boot |-> IF at[i] = i THEN <<i, number[i]>> ELSE Nothing,
   disks |-> {j \in Instances \ {i} : at[j] = i}]

Init ==
  /\ power \in [Instances -> {"RUNNING", "STOPPED"}]
  /\ net = [i \in Instances |-> [ip |-> 0, ipv6 |-> FALSE, vnics |-> 1]]
  /\ at = [i \in Instances |-> i] /\ number = [i \in Instances |-> 0] /\ changes = 0
  /\ jobs = {} /\ ended = {}
  /\ id = Nothing /\ detail = Nothing /\ asked = 0 /\ answers = {} /\ adding = FALSE
  /\ loose = Nothing /\ looseAsked = FALSE /\ chosen = Nothing
  /\ confirm = Nothing /\ calls = {} /\ behind = FALSE

-----------------------------------------------------------------------------
(* Reading                                                                 *)

\* Mutant: the drawer is kept for the next instance.
openReusing(i) ==
  /\ i # id /\ changes < MaxChanges /\ confirm = Nothing
  /\ id' = i /\ changes' = changes + 1
  /\ asked' = 1 /\ adding' = FALSE
  /\ loose' = Nothing /\ looseAsked' = FALSE /\ chosen' = Nothing
  /\ behind' = FALSE
  /\ UNCHANGED <<serverVars, jobs, ended, detail, answers, confirm, calls>>

\* A new drawer, empty, that reads its instance.
open(i) ==
  /\ i # id /\ changes < MaxChanges /\ confirm = Nothing
  /\ id' = i /\ changes' = changes + 1
  /\ detail' = Nothing /\ asked' = 1 /\ answers' = {} /\ adding' = FALSE
  /\ loose' = Nothing /\ looseAsked' = FALSE /\ chosen' = Nothing
  /\ behind' = FALSE
  /\ UNCHANGED <<serverVars, jobs, ended, confirm, calls>>

\* A reading asked for while three wait would tell what the third tells.
loadDetail == asked' = IF asked < 3 THEN asked + 1 ELSE asked

ServeDetail ==
  /\ id # Nothing /\ asked > 0
  /\ asked' = asked - 1
  /\ answers' = answers \union {DetailOf(id)}
  /\ UNCHANGED <<serverVars, changes, jobs, ended, id, detail, adding, rescueVars, confirm,
                 calls, behind>>

DetailFails ==
  /\ asked > 0 /\ changes < MaxChanges
  /\ asked' = asked - 1 /\ changes' = changes + 1
  /\ behind' = TRUE
  /\ UNCHANGED <<serverVars, jobs, ended, id, detail, answers, adding, rescueVars, confirm,
                 calls>>

\* Any of the answers under way may be the next to come in.
DetailComes(d) ==
  /\ detail' = d
  /\ answers' = answers \ {d}
  /\ behind' = (d # DetailOf(d.of) /\ (behind \/ detail = DetailOf(d.of)))
  /\ UNCHANGED <<serverVars, changes, jobs, ended, id, asked, adding, rescueVars, confirm,
                 calls>>

\* Mutant: the end of a job changes the row only.
JobEndsUnread(i) ==
  /\ ended' = ended \ {i}
  /\ UNCHANGED <<serverVars, changes, jobs, id, detail, asked, answers, adding, rescueVars,
                 confirm, calls, behind>>

\* watch(runningJobs.length): a job of this instance ended; the network cards
\* that settle later (watch networkChanged) are part of the job here.
JobEnds(i) ==
  /\ ended' = ended \ {i}
  /\ IF i = id THEN loadDetail ELSE UNCHANGED asked
  /\ UNCHANGED <<serverVars, changes, jobs, id, detail, answers, adding, rescueVars, confirm,
                 calls, behind>>

EventLost(i) ==
  /\ changes < MaxChanges /\ changes' = changes + 1
  /\ ended' = ended \ {i}
  /\ behind' = (behind \/ i = id)
  /\ UNCHANGED <<serverVars, jobs, id, detail, asked, answers, adding, rescueVars, confirm,
                 calls>>

Reading ==
  \/ \E i \in Instances : open(i)
  \/ ServeDetail \/ DetailFails
  \/ \E d \in answers : DetailComes(d)
  \/ \E i \in ended : JobEnds(i) \/ EventLost(i)

-----------------------------------------------------------------------------
(* The network tab                                                         *)

locked == power[id] = "STARTING"

Question(kind, from, volume, boot) ==
  [kind |-> kind, of |-> id, from |-> from, volume |-> volume, boot |-> boot]

Ask(q) ==
  /\ confirm = Nothing /\ confirm' = q
  /\ UNCHANGED <<serverVars, changes, jobs, ended, id, detail, asked, answers, adding,
                 rescueVars, calls, behind>>

Shown == id # Nothing /\ detail # Nothing

removeIpv6 ==
  Shown /\ ~locked /\ detail.net.ipv6 /\ Ask(Question("removeIpv6", detail.of, id, Nothing))

changePrimaryIp == Shown /\ ~locked /\ Ask(Question("changeIp", detail.of, id, Nothing))

detachVnic ==
  /\ Shown /\ ~locked /\ detail.net.vnics > 1
  /\ Ask(Question("detachVnic", detail.of, id, Nothing))

enableIpv6 ==
  Shown /\ ~locked /\ ~detail.net.ipv6 /\ Ask(Question("enableIpv6", detail.of, id, Nothing))

openAddVnic ==
  /\ Shown /\ ~locked /\ ~adding /\ detail.net.vnics < MaxVnics
  /\ adding' = TRUE
  /\ UNCHANGED <<serverVars, changes, jobs, ended, id, detail, asked, answers, rescueVars,
                 confirm, calls, behind>>

Submit(kind, i) ==
  /\ changes < MaxChanges /\ changes' = changes + 1
  /\ jobs' = jobs \union {[kind |-> kind, of |-> i]}

submitVnic ==
  /\ Shown /\ adding
  /\ Submit("attachVnic", id)
  /\ adding' = FALSE
  /\ UNCHANGED <<serverVars, ended, id, detail, asked, answers, rescueVars, confirm, calls,
                 behind>>

\* The job at OCI; one that no longer applies fails. Its end is announced.
RunJob(j) ==
  LET n == net[j.of]
      after == CASE j.kind = "removeIpv6" -> [n EXCEPT !.ipv6 = FALSE]
                 [] j.kind = "enableIpv6" -> [n EXCEPT !.ipv6 = TRUE]
                 [] j.kind = "changeIp"   -> [n EXCEPT !.ip = @ + 1]
                 [] j.kind = "attachVnic" -> IF n.vnics < MaxVnics THEN [n EXCEPT !.vnics = @ + 1] ELSE n
                 [] j.kind = "detachVnic" -> IF n.vnics > 1 THEN [n EXCEPT !.vnics = @ - 1] ELSE n
  IN  /\ net' = [net EXCEPT ![j.of] = after]
      /\ jobs' = jobs \ {j}
      /\ ended' = ended \union {j.of}
      /\ UNCHANGED <<power, at, number, changes, id, detail, asked, answers, adding,
                     rescueVars, confirm, calls, behind>>

Network ==
  \/ removeIpv6 \/ changePrimaryIp \/ detachVnic \/ enableIpv6 \/ openAddVnic \/ submitVnic
  \/ \E j \in jobs : RunJob(j)

-----------------------------------------------------------------------------
(* The storage tab and the rescue                                          *)

\* The buttons of the header; an instance without its boot volume stays off.
Power(i) ==
  /\ changes < MaxChanges /\ changes' = changes + 1
  /\ power' = [power EXCEPT ![i] = CASE power[i] = "RUNNING"  -> "STOPPED"
                                     [] power[i] = "STOPPED"  -> "STARTING"
                                     [] power[i] = "STARTING" ->
                                          IF at[i] = i THEN "RUNNING" ELSE "STOPPED"]
  /\ UNCHANGED <<net, at, number, jobs, ended, id, detail, asked, answers, adding, rescueVars,
                 confirm, calls, behind>>

\* Off, and no attachment known.  A detail that was not read yet, or could not
\* be read, knows of none either.
bootDetached == power[id] = "STOPPED" /\ (detail # Nothing => detail.boot = Nothing)

detachBoot ==
  /\ Shown /\ ~bootDetached /\ power[id] = "STOPPED" /\ detail.boot # Nothing
  /\ Ask(Question("detachBoot", detail.of, id, detail.boot))

\* watch(bootDetached) and the button; every boot volume of the domain is
\* listed, and the one of the same name is preselected.
loadLooseVolumes ==
  /\ id # Nothing /\ bootDetached /\ ~looseAsked
  /\ looseAsked' = TRUE
  /\ UNCHANGED <<serverVars, changes, jobs, ended, id, detail, asked, answers, adding, loose,
                 chosen, confirm, calls, behind>>

LooseCome ==
  /\ looseAsked /\ looseAsked' = FALSE
  /\ \/ loose' = Instances /\ chosen' = id
     \/ loose' = {} /\ UNCHANGED chosen
  /\ UNCHANGED <<serverVars, changes, jobs, ended, id, detail, asked, answers, adding,
                 confirm, calls, behind>>

chooseVolume ==
  /\ id # Nothing /\ bootDetached /\ loose # Nothing
  /\ chosen' \in loose \ {chosen}
  /\ UNCHANGED <<serverVars, changes, jobs, ended, id, detail, asked, answers, adding, loose,
                 looseAsked, confirm, calls, behind>>

rescueTargets == {t \in Instances \ {id} : power[t] = "RUNNING"}

attachToRescue ==
  /\ id # Nothing /\ bootDetached /\ chosen # Nothing
  /\ \E t \in rescueTargets : Ask(Question("attachVolume", t, chosen, Nothing))

detachData ==
  Shown /\ \E v \in detail.disks : Ask(Question("detachVolume", detail.of, v, Nothing))

reattachBoot ==
  /\ id # Nothing /\ bootDetached /\ chosen # Nothing
  /\ Ask(Question("attachBootVolume", id, chosen, Nothing))

\* The question is answered: what it named is sent, or nothing is.
Answer ==
  /\ confirm # Nothing /\ confirm' = Nothing
  /\ \/ UNCHANGED <<changes, jobs, calls>>
     \/ confirm.kind \in NetworkJobs /\ Submit(confirm.kind, confirm.of) /\ UNCHANGED calls
     \/ /\ confirm.kind \in StorageCalls /\ changes < MaxChanges /\ changes' = changes + 1
        /\ calls' = calls \union {confirm} /\ UNCHANGED jobs
  /\ UNCHANGED <<serverVars, ended, id, detail, asked, answers, adding, rescueVars, behind>>

\* OCI moves the volume, or refuses: it hangs elsewhere, the instance is on.
\* The drawer that asked, if it still is the one shown, reads the detail.
Storage(c) ==
  LET v == c.volume
      done == CASE c.kind = "detachBoot" -> at[v] = v /\ power[v] = "STOPPED" /\ c.boot = <<v, number[v]>>
                [] c.kind = "attachVolume" -> at[v] = Nothing
                [] c.kind = "detachVolume" -> at[v] = c.from
                [] c.kind = "attachBootVolume" -> at[v] = Nothing /\ v = c.of
  IN  /\ calls' = calls \ {c}
      /\ IF done
         THEN /\ at' = [at EXCEPT ![v] = CASE c.kind = "attachVolume" -> c.from
                                           [] c.kind = "attachBootVolume" -> v
                                           [] OTHER -> Nothing]
              /\ number' = [number EXCEPT ![v] = IF c.kind = "attachBootVolume" THEN @ + 1 ELSE @]
              /\ IF c.of = id THEN loadDetail ELSE UNCHANGED asked
              /\ behind' = (behind \/ c.of # id)
         ELSE UNCHANGED <<at, number, asked, behind>>
      /\ UNCHANGED <<power, net, changes, jobs, ended, id, detail, answers, adding,
                     rescueVars, confirm>>

Rescue ==
  \/ \E i \in Instances : Power(i)
  \/ detachBoot \/ loadLooseVolumes \/ LooseCome \/ chooseVolume
  \/ attachToRescue \/ detachData \/ reattachBoot
  \/ \E c \in calls : Storage(c)

Next ==
  \/ Reading
  \/ "network" \in Tabs /\ Network
  \/ "storage" \in Tabs /\ Rescue
  \/ Answer

Spec == Init /\ [][Next]_vars

-----------------------------------------------------------------------------
\* "确认框写着「分离 beta 的引导卷」，请求里带的却是 alpha 的挂载关系"
\* (DrawerHost.vue): what a question names and what its answer would send are
\* of one instance, the one the drawer showed when it was asked.
NamedIsActedOn ==
  \A q \in calls \union ({confirm} \ {Nothing}) :
    /\ q.kind \in NetworkJobs \union {"detachBoot", "detachVolume"} => q.from = q.of
    /\ q.boot # Nothing => q.boot[1] = q.of

\* When nothing is under way, the drawer shows the network and the attachments
\* OCI has, unless a late answer replaced a newer one, an event or a reading
\* was lost, or another drawer moved the volume meanwhile.
DrawerCatchesUp ==
  Shown /\ asked = 0 /\ answers = {} /\ id \notin ended /\ ~behind => detail = DetailOf(id)
=============================================================================
