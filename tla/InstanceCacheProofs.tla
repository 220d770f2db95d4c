------------------------ MODULE InstanceCacheProofs ------------------------
(***************************************************************************)
(* Proofs about InstanceCache, for any instances, passes, requests and     *)
(* bounds: the types, one watch loop per instance, and that the row of a   *)
(* live instance is not deleted unless a statement has failed.             *)
(***************************************************************************)
EXTENDS InstanceCache, TLAPS

\* Where Oracle takes an instance: into existence for good, and death is final.
LEMMA OnwardStates ==
    ASSUME NEW state \in OracleStates, NEW to \in Onward(state)
    PROVE  to \in OracleStates /\ to # "none" /\ state # "none" /\ (state \in Dead => to \in Dead)
BY DEF OracleStates, Onward, Dead, Stored, Transitional

\* A request leaves what is dead alone, and its outcome is a state a row can have.
LEMMA EffectStates ==
    ASSUME NEW kind \in Kinds, NEW state \in OracleStates, NEW to \in Effect(kind, state)
    PROVE  to \in Stored /\ to # "none" /\ state \notin Dead
                /\ (kind # "launch" => state \in Stored)
BY DEF OracleStates, Effect, Dead, Stored, Transitional, Kinds

\* The statements on a row keep its type; a row only leaves the stale ones.
LEMMA UpsertTypes ==
    ASSUME TypeOK, NEW i \in Instances, NEW state \in RowStates, Upsert(i, state)
    PROVE  row' \in [Instances -> RowStates] /\ stale' \in [Syncs -> SUBSET Instances]
BY DEF TypeOK, Upsert

LEMMA SetStateTypes ==
    ASSUME TypeOK, NEW i \in Instances, NEW state \in RowStates, SetInstanceState(i, state)
    PROVE  row' \in [Instances -> RowStates] /\ stale' \in [Syncs -> SUBSET Instances]
BY UpsertTypes DEF TypeOK, SetInstanceState

LEMMA UseTypes ==
    ASSUME TypeOK, NEW b \in {"requests", "faults", "crashes"}, Use(b)
    PROVE  /\ used' \in [requests : Nat, faults : Nat, crashes : Nat]
           /\ used'.faults = 0 => used.faults = 0 /\ b # "faults"
BY DEF TypeOK, Use

\* The records at rest.
LEMMA Rest == NoPass \in Passes /\ NoOp \in Ops /\ NoLoop \in LoopRecords
<1>1. NoPass \in Passes
  BY DEF NoPass, Passes, RowStates
<1>2. NoOp \in Ops
  BY DEF NoOp, Ops, RowStates
<1>3. NoLoop \in LoopRecords
  BY DEF NoLoop, LoopRecords, RowStates, OracleStates
<1> QED BY <1>1, <1>2, <1>3

LEMMA InitTypes == ASSUME Init PROVE TypeOK
<1>1. sync \in [Syncs -> Passes] /\ op \in [Callers -> Ops] /\ loop \in [Loops -> LoopRecords]
  BY Rest DEF Init
<1>2. \A c \in Callers : op[c].at = "idle"
  BY DEF Init, NoOp
<1> QED BY <1>1, <1>2 DEF Init, TypeOK, OracleStates, RowStates, Stored

\* A loop's next record.
LEMMA LoopTypes ==
    ASSUME TypeOK, NEW g \in Loops,
           NEW at \in {"off", "tick", "ask", "apply", "refresh", "upsert", "exit"},
           NEW cached \in RowStates, NEW got \in OracleStates, NEW left \in 0..2,
           Loop(g, at, cached, got, left)
    PROVE  loop' \in [Loops -> LoopRecords]
BY DEF TypeOK, Loop, LoopRecords

\* Watch starts a loop or does nothing.
LEMMA WatchTypes ==
    ASSUME TypeOK, NEW i \in Instances, Watch(i)
    PROVE  watching' \subseteq Instances /\ loop' \in [Loops -> LoopRecords]
<1>1. [NoLoop EXCEPT !.at = "tick"] \in LoopRecords
  BY DEF NoLoop, LoopRecords, RowStates, OracleStates
<1>2. <<i, 1>> \in Loops /\ <<i, 2>> \in Loops
  BY DEF Loops
<1>3. StartLoop(i) => loop' \in [Loops -> LoopRecords]
  BY <1>1, <1>2 DEF StartLoop, TypeOK
<1> QED BY <1>3 DEF Watch, TypeOK

\* Oracle's own steps and the console's.
LEMMA OracleTypes ==
    ASSUME TypeOK, NEW i \in Instances, Settle(i) \/ Console(i)
    PROVE  TypeOK'
<1>1. CASE Settle(i)
  <2>1. oracle' \in [Instances -> OracleStates]
    BY <1>1, OnwardStates DEF Settle, TypeOK
  <2> QED BY <1>1, <2>1 DEF Settle, TypeOK
<1>2. CASE Console(i)
  <2>1. oracle' \in [Instances -> OracleStates]
    BY <1>2, EffectStates DEF Console, TypeOK, OracleStates
  <2>2. used' \in [requests : Nat, faults : Nat, crashes : Nat]
    BY <1>2, UseTypes DEF Console
  <2> QED BY <1>2, <2>1, <2>2 DEF Console, TypeOK
<1> QED BY <1>1, <1>2

\* The steps of a pass.
LEMMA PassTypes ==
    ASSUME TypeOK, NEW s \in Syncs, PassBegins(s) \/ PassStep(s) \/ PassAborts(s)
    PROVE  TypeOK'
<1>1. CASE PassBegins(s)
  <2>1. sync' \in [Syncs -> Passes] /\ stale' \in [Syncs -> SUBSET Instances]
    BY <1>1 DEF PassBegins, TypeOK, Passes
  <2>2. used' \in [requests : Nat, faults : Nat, crashes : Nat]
    BY <1>1, UseTypes DEF PassBegins, TypeOK
  <2> QED BY <1>1, <2>1, <2>2 DEF PassBegins, TypeOK
<1>2. CASE PassLists(s)
  <2>1. Listed \in SUBSET Instances /\ \A i \in Listed : oracle[i] \in RowStates
    BY DEF Listed, RowStates
  <2>2. [i \in Instances |-> IF i \in Listed THEN oracle[i] ELSE "absent"] \in [Instances -> RowStates]
    BY <2>1 DEF RowStates
  <2>3. sync' \in [Syncs -> Passes]
    BY <1>2, <2>1, <2>2 DEF PassLists, TypeOK, Passes
  <2> QED BY <1>2, <2>3 DEF PassLists, TypeOK
<1>3. ASSUME NEW i \in Instances, PassWrites(s, i) PROVE TypeOK'
  <2>1. sync[s] \in Passes /\ sync[s].seen[i] \in RowStates
    BY DEF TypeOK, Passes
  <2>2. [sync[s] EXCEPT !.todo = @ \ {i}, !.seen[i] = "absent"] \in Passes
    BY <2>1 DEF Passes, RowStates
  <2>3. sync' \in [Syncs -> Passes]
    BY <1>3, <2>2 DEF PassWrites, TypeOK
  <2>4. row' \in [Instances -> RowStates] /\ stale' \in [Syncs -> SUBSET Instances]
           /\ used' \in [requests : Nat, faults : Nat, crashes : Nat]
    BY <1>3, <2>1, UpsertTypes, UseTypes DEF PassWrites, StatementFails, TypeOK
  <2> QED BY <1>3, <2>3, <2>4 DEF PassWrites, TypeOK
<1>4. CASE PassPrunes(s) \/ PassAborts(s)
  <2>1. sync' \in [Syncs -> Passes] /\ stale' \in [Syncs -> SUBSET Instances]
    BY <1>4, Rest DEF PassPrunes, PassAborts, PassEnds, TypeOK
  <2>2. row' \in [Instances -> RowStates]
    BY <1>4 DEF PassPrunes, PassAborts, TypeOK, RowStates
  <2>3. used' \in [requests : Nat, faults : Nat, crashes : Nat]
    BY <1>4, UseTypes DEF PassPrunes, PassAborts, TypeOK
  <2> QED BY <1>4, <2>1, <2>2, <2>3 DEF PassPrunes, PassAborts, TypeOK
<1> QED BY <1>1, <1>2, <1>3, <1>4 DEF PassStep

\* The steps of a watch loop.
LEMMA LoopStepTypes ==
    ASSUME TypeOK, CacheInv, NEW g \in Loops, LoopStep(g) \/ LoopGivesUp(g) \/ LoopGetsNoAnswer(g) \/ RefreshSkips(g)
    PROVE  TypeOK'
<1> DEFINE i == g[1]
<1>1. i \in Instances /\ loop[g] \in LoopRecords /\ row[i] \in RowStates /\ oracle[i] \in OracleStates
  BY DEF TypeOK, Loops
<1>2. "absent" \in RowStates /\ "none" \in OracleStates /\ 0 \in 0..2 /\ 2 \in 0..2
  BY DEF RowStates, OracleStates
<1>3. loop[g].cached \in RowStates /\ loop[g].got \in OracleStates /\ loop[g].left \in 0..2
  BY <1>1 DEF LoopRecords
<1>4. CASE LoopReads(g) \/ LoopGivesUp(g) \/ LoopGetsNoAnswer(g) \/ LoopAsks(g)
  <2>1. loop' \in [Loops -> LoopRecords]
    BY <1>1, <1>2, <1>3, <1>4, LoopTypes DEF LoopReads, LoopGivesUp, LoopGetsNoAnswer, LoopAsks
  <2> QED BY <1>4, <2>1 DEF LoopReads, LoopGivesUp, LoopGetsNoAnswer, LoopAsks, TypeOK
<1>5. CASE LoopApplies(g)
  <2>1. PICK at \in {"tick", "exit", "refresh"}, left \in {0, 2} : Loop(g, at, "absent", "none", left)
    BY <1>5, Zenon DEF LoopApplies
  <2>2. loop' \in [Loops -> LoopRecords]
    BY <1>2, <2>1, LoopTypes
  <2>3. loop[g].got \notin Dead => loop[g].got \in RowStates
    BY <1>3, <1>5 DEF CacheInv, LoopKnows, LoopApplies, OracleStates, RowStates, Dead
  <2>4. row' \in [Instances -> RowStates] /\ stale' \in [Syncs -> SUBSET Instances]
           /\ used' \in [requests : Nat, faults : Nat, crashes : Nat]
    <3>1. CASE UNCHANGED <<row, stale, used>>
      BY <3>1 DEF TypeOK
    <3>2. CASE StatementFails
      BY <3>2, UseTypes DEF StatementFails, TypeOK
    <3>3. CASE loop[g].got \in Dead /\ DeleteInstance(i) /\ UNCHANGED used
      BY <3>3, <1>2 DEF DeleteInstance, TypeOK
    <3>4. CASE loop[g].got \notin Dead /\ SetInstanceState(i, loop[g].got) /\ UNCHANGED used
      BY <3>4, <1>1, <2>3, SetStateTypes DEF TypeOK
    <3> QED BY <1>5, <3>1, <3>2, <3>3, <3>4, Zenon DEF LoopApplies
  <2> QED BY <1>5, <2>2, <2>4 DEF LoopApplies, TypeOK
<1>6. CASE RefreshReads(g) \/ RefreshSkips(g)
  <2>1. (RefreshReads(g) /\ loop[g].left # 0) \/ RefreshSkips(g) => loop[g].left - 1 \in 0..2
    BY <1>3 DEF RefreshSkips
  <2>2. loop' \in [Loops -> LoopRecords]
    BY <1>1, <1>2, <1>6, <2>1, LoopTypes DEF RefreshReads, RefreshSkips
  <2> QED BY <1>6, <2>2 DEF RefreshReads, RefreshSkips, TypeOK
<1>7. CASE RefreshWrites(g)
  <2>1. loop' \in [Loops -> LoopRecords]
    BY <1>2, <1>3, <1>7, LoopTypes DEF RefreshWrites
  <2>2. row' \in [Instances -> RowStates] /\ stale' \in [Syncs -> SUBSET Instances]
           /\ used' \in [requests : Nat, faults : Nat, crashes : Nat]
    BY <1>1, <1>3, <1>7, UpsertTypes, UseTypes DEF RefreshWrites, StatementFails, TypeOK
  <2> QED BY <1>7, <2>1, <2>2 DEF RefreshWrites, TypeOK
<1>8. CASE LoopEnds(g)
  <2>1. loop' \in [Loops -> LoopRecords]
    BY <1>8, Rest DEF LoopEnds, TypeOK
  <2> QED BY <1>8, <2>1 DEF LoopEnds, TypeOK
<1> QED BY <1>4, <1>5, <1>6, <1>7, <1>8 DEF LoopStep

\* The steps of a request.
LEMMA OpTypes ==
    ASSUME TypeOK, NEW c \in Callers,
           (\E kind \in Kinds, i \in Instances : OpBegins(c, kind, i)) \/ OpStep(c) \/ OpWatchesAgain(c)
    PROVE  TypeOK'
<1> DEFINE Good(r) == r \in Ops /\ (r.at # "idle" => r.kind \in Kinds /\ r.inst \in Instances)
           i == op[c].inst
<1>1. op[c] \in Ops /\ op[c].answer \in RowStates /\ (op[c].at # "idle" => op[c].kind \in Kinds /\ i \in Instances)
  BY DEF TypeOK, Ops
<1>2. Good(NoOp) /\ "absent" \in RowStates
  BY Rest DEF NoOp, RowStates
<1>3. ASSUME NEW r, Good(r), op' = [op EXCEPT ![c] = r]
      PROVE  op' \in [Callers -> Ops] /\ \A d \in Callers : op'[d].at # "idle" => op'[d].kind \in Kinds /\ op'[d].inst \in Instances
  BY <1>3 DEF TypeOK
<1>4. ASSUME NEW kind \in Kinds, NEW j \in Instances, OpBegins(c, kind, j) PROVE TypeOK'
  <2> DEFINE r == [at |-> "call", kind |-> kind, inst |-> j, answer |-> IF kind = "rename" THEN row[j] ELSE "absent"]
  <2>1. Good(r)
    BY <1>2 DEF Ops, TypeOK
  <2>2. op' = [op EXCEPT ![c] = r]
    BY <1>4 DEF OpBegins
  <2> HIDE DEF r
  <2>3. used' \in [requests : Nat, faults : Nat, crashes : Nat]
    BY <1>4, UseTypes DEF OpBegins
  <2> QED BY <1>3, <1>4, <2>1, <2>2, <2>3 DEF OpBegins, TypeOK
<1>5. CASE OpCalls(c)
  <2>1. op[c].at = "call" /\ op[c].kind \in Kinds /\ i \in Instances /\ oracle[i] \in OracleStates
    BY <1>1, <1>5 DEF OpCalls, TypeOK
  <2>2. PICK to \in Effect(op[c].kind, oracle[i]) :
           /\ oracle' = [oracle EXCEPT ![i] = to]
           /\ \/ /\ \E answer \in Answers(c, to) :
                       op' = [op EXCEPT ![c].at = "write", ![c].answer = answer]
                 /\ UNCHANGED used
              \/ op' = [op EXCEPT ![c] = NoOp] /\ Use("faults")
    BY <1>5 DEF OpCalls
  <2>3. to \in RowStates /\ to \in OracleStates /\ (op[c].kind = "reshape" => oracle[i] \in RowStates)
    BY <2>1, EffectStates DEF RowStates, OracleStates
  <2>4. oracle' \in [Instances -> OracleStates]
    BY <2>1, <2>2, <2>3 DEF TypeOK
  <2>5. CASE \E answer \in Answers(c, to) :
                op' = [op EXCEPT ![c].at = "write", ![c].answer = answer] /\ UNCHANGED used
    <3>1. PICK answer \in Answers(c, to) : op' = [op EXCEPT ![c].at = "write", ![c].answer = answer]
      BY <2>5
    <3>2. answer \in RowStates
      BY <1>1, <2>3, <3>1 DEF Answers
    <3> DEFINE r == [op[c] EXCEPT !.at = "write", !.answer = answer]
    <3>3. Good(r)
      BY <1>1, <2>1, <3>2 DEF Ops
    <3>4. op' = [op EXCEPT ![c] = r]
      BY <3>1 DEF TypeOK
    <3> HIDE DEF r
    <3> QED BY <1>3, <1>5, <2>4, <2>5, <3>3, <3>4 DEF OpCalls, TypeOK
  <2>6. CASE op' = [op EXCEPT ![c] = NoOp] /\ Use("faults")
    BY <1>2, <1>3, <1>5, <2>4, <2>6, UseTypes DEF OpCalls, TypeOK
  <2> QED BY <2>2, <2>5, <2>6
<1>6. CASE OpRefused(c)
  BY <1>2, <1>3, <1>6 DEF OpRefused, TypeOK
<1>7. CASE OpWrites(c)
  <2> DEFINE r == [op[c] EXCEPT !.at = "watch", !.answer = "absent"]
  <2>1. i \in Instances /\ op[c].at # "idle"
    BY <1>1, <1>7 DEF OpWrites
  <2>2. Good(r)
    BY <1>1, <1>2, <2>1 DEF Ops
  <2>3. op' = [op EXCEPT ![c] = r] \/ op' = [op EXCEPT ![c] = NoOp]
    BY <1>7 DEF OpWrites
  <2> HIDE DEF r
  <2>4. row' \in [Instances -> RowStates] /\ stale' \in [Syncs -> SUBSET Instances]
           /\ used' \in [requests : Nat, faults : Nat, crashes : Nat]
    <3>1. CASE Upsert(i, op[c].answer) /\ UNCHANGED used
      BY <3>1, <1>1, <2>1, UpsertTypes DEF TypeOK
    <3>2. CASE SetInstanceState(i, op[c].answer) /\ UNCHANGED used
      BY <3>2, <1>1, <2>1, SetStateTypes DEF TypeOK
    <3>3. CASE StatementFails
      BY <3>3, UseTypes DEF StatementFails, TypeOK
    <3> QED BY <1>7, <3>1, <3>2, <3>3 DEF OpWrites
  <2> QED BY <1>2, <1>3, <1>7, <2>2, <2>3, <2>4 DEF OpWrites, TypeOK
<1>8. CASE OpWatches(c) \/ OpWatchesAgain(c) \/ OpEnds(c)
  <2> DEFINE r == [op[c] EXCEPT !.at = "wait"]
  <2>1. i \in Instances /\ op[c].at # "idle"
    BY <1>1, <1>8 DEF OpWatches, OpWatchesAgain, OpEnds
  <2>2. Good(r)
    BY <1>1, <2>1 DEF Ops
  <2>3. op' = [op EXCEPT ![c] = r] \/ op' = [op EXCEPT ![c] = NoOp] \/ op' = op
    BY <1>8 DEF OpWatches, OpWatchesAgain, OpEnds, TypeOK
  <2> HIDE DEF r
  <2>4. op' \in [Callers -> Ops] /\ \A d \in Callers : op'[d].at # "idle" => op'[d].kind \in Kinds /\ op'[d].inst \in Instances
    BY <1>2, <1>3, <2>2, <2>3 DEF TypeOK
  <2>5. watching' \subseteq Instances /\ loop' \in [Loops -> LoopRecords]
    BY <1>8, <2>1, WatchTypes DEF OpWatches, OpWatchesAgain, OpEnds, TypeOK
  <2> QED BY <1>8, <2>4, <2>5 DEF OpWatches, OpWatchesAgain, OpEnds, TypeOK
<1> QED BY <1>4, <1>5, <1>6, <1>7, <1>8 DEF OpStep

LEMMA RestartTypes == ASSUME TypeOK, Restart PROVE TypeOK'
<1>1. sync' \in [Syncs -> Passes] /\ op' \in [Callers -> Ops] /\ loop' \in [Loops -> LoopRecords]
  BY Rest DEF Restart, NoLoop, LoopRecords
<1>2. \A c \in Callers : op'[c].at = "idle"
  BY DEF Restart, NoOp
<1>3. used' \in [requests : Nat, faults : Nat, crashes : Nat]
  BY UseTypes DEF Restart
<1> QED BY <1>1, <1>2, <1>3 DEF Restart, TypeOK

-----------------------------------------------------------------------------
(* One loop per instance *)

LEMMA LoopPlaces ==
    ASSUME NEW g \in Loops
    PROVE  g[1] \in Instances /\ g = <<g[1], g[2]>> /\ g[2] \in {1, 2}
BY DEF Loops

\* A loop that goes on, or starts where the map had no entry.
LEMMA LoopGoesOn ==
    ASSUME TypeOK, OneLoopPerInstance, NEW g \in Loops, loop[g].at # "off",
           NEW r, r.at # "off", loop' = [loop EXCEPT ![g] = r], UNCHANGED watching
    PROVE  OneLoopPerInstance'
<1>1. \A h \in Loops : loop'[h].at # "off" <=> loop[h].at # "off"
  BY DEF TypeOK
<1>2. \A i \in Instances, n \in {1, 2} : <<i, n>> \in Loops
  BY DEF Loops
<1> QED BY <1>1, <1>2 DEF OneLoopPerInstance, TypeOK

LEMMA WatchKeepsOne ==
    ASSUME TypeOK, OneLoopPerInstance, NEW i \in Instances, Watch(i)
    PROVE  OneLoopPerInstance'
<1>1. CASE i \in watching
  BY <1>1 DEF Watch, OneLoopPerInstance
<1>2. CASE i \notin watching
  <2> DEFINE new == <<i, 1>>
  <2>1. new \in Loops /\ \A j \in Instances, n \in {1, 2} : <<j, n>> \in Loops
    BY DEF Loops
  <2>2. \A h \in Loops : h[1] = i => loop[h].at = "off"
    BY <1>2 DEF OneLoopPerInstance
  <2>3. loop[new].at = "off"
    BY <2>1, <2>2
  <2>4. loop' = [loop EXCEPT ![new] = [NoLoop EXCEPT !.at = "tick"]]
    BY <1>2, <2>3 DEF Watch, StartLoop
  <2>5. loop'[new].at = "tick" /\ \A h \in Loops : h # new => loop'[h] = loop[h]
    BY <2>1, <2>4 DEF TypeOK, NoLoop
  <2>6. watching' = watching \cup {i}
    BY <1>2 DEF Watch
  <2>7. \A j \in watching' : \E n \in {1, 2} : loop'[<<j, n>>].at # "off"
    <3> SUFFICES ASSUME NEW j \in watching' PROVE \E n \in {1, 2} : loop'[<<j, n>>].at # "off"
      OBVIOUS
    <3>1. CASE j = i
      BY <2>5, <3>1
    <3>2. CASE j # i
      <4>1. PICK n \in {1, 2} : loop[<<j, n>>].at # "off"
        BY <2>6, <3>2 DEF OneLoopPerInstance
      <4>2. <<j, n>> \in Loops /\ <<j, n>> # new
        BY <2>1, <2>6, <3>2 DEF TypeOK
      <4> QED BY <2>5, <4>1, <4>2
    <3> QED BY <3>1, <3>2
  <2>8. \A g, h \in Loops : loop'[g].at # "off" /\ loop'[h].at # "off" /\ g[1] = h[1] => g = h
    <3>1. \A g \in Loops : loop'[g].at # "off" /\ g[1] = i => g = new
      BY <2>2, <2>5
    <3>2. \A g \in Loops : g # new => loop'[g].at = loop[g].at
      BY <2>5
    <3>3. new[1] = i
      OBVIOUS
    <3> QED BY <3>1, <3>2, <3>3 DEF OneLoopPerInstance
  <2>9. \A g \in Loops : loop'[g].at # "off" => g[1] \in watching'
    BY <2>1, <2>5, <2>6 DEF OneLoopPerInstance
  <2> QED BY <2>7, <2>8, <2>9 DEF OneLoopPerInstance
<1> QED BY <1>1, <1>2

LEMMA LoopStepKeepsOne ==
    ASSUME TypeOK, OneLoopPerInstance, NEW g \in Loops,
           LoopStep(g) \/ LoopGivesUp(g) \/ LoopGetsNoAnswer(g) \/ RefreshSkips(g)
    PROVE  OneLoopPerInstance'
<1>1. ASSUME NEW at, NEW cached, NEW got, NEW left, at # "off", loop[g].at # "off",
             Loop(g, at, cached, got, left), UNCHANGED watching
      PROVE  OneLoopPerInstance'
  BY <1>1, LoopGoesOn DEF Loop
<1>2. CASE LoopReads(g) \/ LoopGivesUp(g) \/ LoopGetsNoAnswer(g) \/ LoopAsks(g)
  BY <1>1, <1>2 DEF LoopReads, LoopGivesUp, LoopGetsNoAnswer, LoopAsks
<1>3. CASE LoopApplies(g)
  <2>1. PICK at \in {"tick", "exit", "refresh"}, left \in {0, 2} : Loop(g, at, "absent", "none", left)
    BY <1>3, Zenon DEF LoopApplies
  <2> QED BY <1>1, <1>3, <2>1 DEF LoopApplies
<1>4. CASE RefreshReads(g) \/ RefreshSkips(g) \/ RefreshWrites(g)
  BY <1>1, <1>4 DEF RefreshReads, RefreshSkips, RefreshWrites
<1>5. CASE LoopEnds(g)
  <2>1. loop[g].at # "off" /\ watching' = watching \ {g[1]}
    BY <1>5 DEF LoopEnds
  <2>2. loop'[g].at = "off" /\ \A h \in Loops : h # g => loop'[h] = loop[h]
    BY <1>5 DEF LoopEnds, TypeOK, NoLoop
  <2>3. \A j \in Instances, n \in {1, 2} : <<j, n>> \in Loops
    BY DEF Loops
  <2>4. \A j \in watching' : \E n \in {1, 2} : loop'[<<j, n>>].at # "off"
    <3> SUFFICES ASSUME NEW j \in watching' PROVE \E n \in {1, 2} : loop'[<<j, n>>].at # "off"
      OBVIOUS
    <3>1. PICK n \in {1, 2} : loop[<<j, n>>].at # "off"
      BY <2>1 DEF OneLoopPerInstance
    <3>2. <<j, n>> \in Loops /\ j # g[1]
      BY <2>1, <2>3 DEF TypeOK
    <3>3. <<j, n>> # g
      BY <3>2
    <3> QED BY <2>2, <3>1, <3>2, <3>3
  <2>5. \A h \in Loops : loop'[h].at # "off" => loop[h].at # "off" /\ h[1] # g[1]
    BY <2>1, <2>2 DEF OneLoopPerInstance
  <2> QED BY <2>1, <2>4, <2>5 DEF OneLoopPerInstance
<1> QED BY <1>2, <1>3, <1>4, <1>5 DEF LoopStep

LEMMA RestartKeepsOne == ASSUME TypeOK, Restart PROVE OneLoopPerInstance'
<1>1. \A g \in Loops : loop'[g].at # "off" <=> g[2] = 1 /\ g[1] \in watching'
  BY LoopPlaces DEF Restart, NoLoop
<1>2. \A j \in watching' : <<j, 1>> \in Loops
  BY DEF Restart, Loops
<1>3. \A g, h \in Loops : g[1] = h[1] /\ g[2] = h[2] => g = h
  BY LoopPlaces
<1> QED BY <1>1, <1>2, <1>3 DEF OneLoopPerInstance

\* Other steps do not touch the loops.
LEMMA OneLoopStays ==
    ASSUME OneLoopPerInstance, UNCHANGED <<watching, loop>> PROVE OneLoopPerInstance'
BY DEF OneLoopPerInstance

-----------------------------------------------------------------------------
(* What is written and deleted *)

\* Instances come into being and die for good.
Advances == \A i \in Instances :
    /\ oracle[i] # "none" => oracle'[i] # "none"
    /\ oracle[i] \in Dead => oracle'[i] \in Dead

\* A statement: no row of an unknown instance, and no new stale row.
RowsMove ==
    /\ \A i \in Instances : row'[i] # "absent" => oracle[i] # "none"
    /\ \A s \in Syncs, i \in Instances :
          i \in stale'[s] /\ row'[i] # "absent" => i \in stale[s] /\ row[i] # "absent"

FaultsCount == used'.faults = 0 => used.faults = 0

LEMMA UpsertMoves ==
    ASSUME TypeOK, CacheInv, NEW i \in Instances, oracle[i] # "none", NEW state, Upsert(i, state)
    PROVE  RowsMove
BY DEF TypeOK, CacheInv, RowsKnown, RowsMove, Upsert

LEMMA StateMoves ==
    ASSUME TypeOK, CacheInv, NEW i \in Instances, oracle[i] # "none", NEW state,
           SetInstanceState(i, state) \/ DeleteInstance(i)
    PROVE  RowsMove
<1>1. CASE row[i] = "absent" /\ UNCHANGED <<row, stale>>
  BY <1>1 DEF CacheInv, RowsKnown, RowsMove
<1>2. CASE Upsert(i, state)
  BY <1>2, UpsertMoves
<1>3. CASE DeleteInstance(i)
  BY <1>3 DEF DeleteInstance, TypeOK, CacheInv, RowsKnown, RowsMove
<1> QED BY <1>1, <1>2, <1>3 DEF SetInstanceState

LEMMA NoMove == ASSUME CacheInv, UNCHANGED <<row, stale>> PROVE RowsMove
BY DEF CacheInv, RowsKnown, RowsMove

LEMMA FaultsGrow ==
    ASSUME TypeOK, UNCHANGED used \/ \E b \in {"requests", "faults", "crashes"} : Use(b)
    PROVE  FaultsCount
BY UseTypes DEF FaultsCount

\* What the passes rely on survives the statements of the others.
LEMMA PassesStay ==
    ASSUME CacheInv, RowsMove, FaultsCount, UNCHANGED <<oracle, sync>>
    PROVE  RowsKnown' /\ PassKnows' /\ LiveIsListed'
BY DEF CacheInv, RowsKnown, PassKnows, LiveIsListed, RowsMove, FaultsCount

LEMMA InitCache == ASSUME Init PROVE CacheInv
BY DEF Init, CacheInv, RowsKnown, PassKnows, OpKnows, LoopKnows, DeadIsDead, LiveIsListed,
       NoPass, NoOp, NoLoop

\* Oracle moves, by itself or in its console.
LEMMA OracleCache ==
    ASSUME TypeOK, CacheInv, NEW i \in Instances, Settle(i) \/ Console(i)
    PROVE  CacheInv'
<1>1. PICK to \in OracleStates : /\ to # "none" /\ (oracle[i] \in Dead => to \in Dead)
                                 /\ oracle' = [oracle EXCEPT ![i] = to]
  BY OnwardStates, EffectStates DEF Settle, Console, TypeOK, OracleStates
<1>2. Advances
  BY <1>1 DEF Advances, TypeOK
<1>3. FaultsCount
  BY FaultsGrow DEF Settle, Console
<1>4. UNCHANGED <<row, stale, sync, op, watching, loop>>
  BY DEF Settle, Console
<1>5. \A c \in Callers : op[c].at # "idle" => op[c].inst \in Instances
  BY DEF TypeOK
<1>6. \A s \in Syncs : sync[s].todo \subseteq Instances
  BY DEF TypeOK, Passes
<1> QED BY <1>2, <1>3, <1>4, <1>5, <1>6, LoopPlaces
        DEF CacheInv, RowsKnown, PassKnows, OpKnows, LoopKnows, DeadIsDead, LiveIsListed, Advances, FaultsCount

LEMMA PassCache ==
    ASSUME TypeOK, CacheInv, NEW s \in Syncs, PassBegins(s) \/ PassStep(s) \/ PassAborts(s)
    PROVE  CacheInv'
<1>1. UNCHANGED <<oracle, op, loop>>
  BY DEF PassBegins, PassStep, PassLists, PassWrites, PassPrunes, PassAborts
<1>2. OpKnows' /\ LoopKnows' /\ DeadIsDead'
  BY <1>1 DEF CacheInv, OpKnows, LoopKnows, DeadIsDead
<1>3. \A t \in Syncs : sync[t] \in Passes /\ sync[t].todo \subseteq Instances /\ stale[t] \subseteq Instances
  BY DEF TypeOK, Passes
<1>4. CASE PassBegins(s)
  <2>1. FaultsCount /\ RowsKnown'
    BY <1>4, FaultsGrow DEF PassBegins, CacheInv, RowsKnown
  <2>2. \A t \in Syncs : sync'[t].todo = sync[t].todo /\ (sync'[t].at = "write" => t # s /\ sync[t].at = "write")
    BY <1>3, <1>4 DEF PassBegins, TypeOK
  <2>3. \A t \in Syncs : t # s => stale'[t] = stale[t]
    BY <1>4 DEF PassBegins, TypeOK
  <2>4. UNCHANGED row
    BY <1>4 DEF PassBegins
  <2> QED BY <1>1, <1>2, <2>1, <2>2, <2>3, <2>4 DEF CacheInv, PassKnows, LiveIsListed, FaultsCount
<1>5. CASE PassLists(s)
  <2>1. RowsKnown' /\ UNCHANGED <<row, stale, used>>
    BY <1>5 DEF PassLists, CacheInv, RowsKnown
  <2>2. sync'[s].at = "write" /\ sync'[s].todo = Listed /\ \A t \in Syncs : t # s => sync'[t] = sync[t]
    BY <1>5 DEF PassLists, TypeOK
  <2>3. \A i \in Listed : i \in Instances /\ oracle[i] # "none"
    BY DEF Listed, Stored, Transitional
  <2>4. \A i \in Instances : row[i] # "absent" => i \in Listed \/ oracle[i] \in Dead
    BY DEF CacheInv, RowsKnown, Listed, TypeOK, OracleStates, Dead
  <2>5. PassKnows'
    BY <1>1, <2>2, <2>3 DEF CacheInv, PassKnows
  <2>6. LiveIsListed'
    BY <1>1, <2>1, <2>2, <2>4 DEF CacheInv, LiveIsListed
  <2> QED BY <1>2, <2>1, <2>5, <2>6 DEF CacheInv
<1>6. ASSUME NEW i \in Instances, PassWrites(s, i) PROVE CacheInv'
  <2>1. i \in sync[s].todo /\ oracle[i] # "none"
    BY <1>6 DEF PassWrites, CacheInv, PassKnows
  <2>2. sync'[s].todo = sync[s].todo \ {i} /\ sync'[s].at = sync[s].at
           /\ \A t \in Syncs : t # s => sync'[t] = sync[t]
    BY <1>3, <1>6 DEF PassWrites, TypeOK
  <2>3. CASE Upsert(i, sync[s].seen[i]) /\ UNCHANGED used
    <3>1. RowsMove
      BY <2>1, <2>3, UpsertMoves
    <3>2. \A t \in Syncs : i \notin stale'[t]
      BY <2>3 DEF Upsert
    <3>3. RowsKnown'
      BY <1>1, <3>1 DEF RowsMove, RowsKnown
    <3>4. PassKnows'
      BY <1>1, <2>2 DEF CacheInv, PassKnows
    <3>5. LiveIsListed'
      BY <1>1, <2>2, <2>3, <3>1, <3>2 DEF CacheInv, LiveIsListed, RowsMove
    <3> QED BY <1>2, <3>3, <3>4, <3>5 DEF CacheInv
  <2>4. CASE StatementFails
    <3>1. used'.faults # 0
      BY <2>4, UseTypes DEF StatementFails, TypeOK
    <3>2. RowsKnown' /\ PassKnows'
      BY <1>1, <2>2, <2>4 DEF StatementFails, CacheInv, RowsKnown, PassKnows
    <3> QED BY <1>2, <3>1, <3>2 DEF CacheInv, LiveIsListed
  <2> QED BY <1>6, <2>3, <2>4 DEF PassWrites
<1>7. CASE PassPrunes(s) \/ PassAborts(s)
  <2>1. sync'[s].at = "idle" /\ sync'[s].todo = {} /\ \A t \in Syncs : t # s => sync'[t] = sync[t]
    BY <1>7 DEF PassPrunes, PassAborts, PassEnds, NoPass, TypeOK
  <2>2. \A t \in Syncs : t # s => stale'[t] = stale[t]
    BY <1>7 DEF PassPrunes, PassAborts, PassEnds, TypeOK
  <2>3. \A i \in Instances : row'[i] # "absent" => row[i] # "absent"
    BY <1>7 DEF PassPrunes, PassAborts
  <2>4. FaultsCount
    BY <1>7, FaultsGrow DEF PassPrunes, PassAborts
  <2>5. RowsKnown' /\ PassKnows' /\ LiveIsListed'
    BY <1>1, <2>1, <2>2, <2>3, <2>4 DEF CacheInv, RowsKnown, PassKnows, LiveIsListed, FaultsCount
  <2> QED BY <1>2, <2>5 DEF CacheInv
<1> QED BY <1>4, <1>5, <1>6, <1>7 DEF PassStep

LEMMA LoopCache ==
    ASSUME TypeOK, CacheInv, NEW g \in Loops, LoopStep(g) \/ LoopGivesUp(g) \/ LoopGetsNoAnswer(g) \/ RefreshSkips(g)
    PROVE  CacheInv'
<1> DEFINE i == g[1]
<1>1. i \in Instances /\ UNCHANGED <<oracle, sync, op>>
  BY LoopPlaces DEF LoopStep, LoopReads, LoopGivesUp, LoopGetsNoAnswer, LoopAsks, LoopApplies, RefreshReads,
                    RefreshSkips, RefreshWrites, LoopEnds
<1>2. loop[g].at # "off" => oracle[i] # "none"
  BY DEF CacheInv, LoopKnows
<1>3. OpKnows'
  BY <1>1 DEF CacheInv, OpKnows
<1>4. ASSUME NEW r, loop' = [loop EXCEPT ![g] = r], r.at # "off" => loop[g].at # "off",
             r.at = "apply" => r.got = oracle[i]
      PROVE  LoopKnows' /\ DeadIsDead'
  <2>1. loop'[g] = r /\ \A h \in Loops : h # g => loop'[h] = loop[h]
    BY <1>4 DEF TypeOK
  <2>2. LoopKnows'
    BY <1>1, <1>2, <1>4, <2>1 DEF CacheInv, LoopKnows
  <2>3. DeadIsDead'
    BY <1>1, <1>4, <2>1 DEF CacheInv, DeadIsDead
  <2> QED BY <2>2, <2>3
<1>5. ASSUME NEW at, NEW cached, NEW got, NEW left, Loop(g, at, cached, got, left),
             at # "off", loop[g].at # "off", at = "apply" => got = oracle[i]
      PROVE  LoopKnows' /\ DeadIsDead'
  BY <1>4, <1>5 DEF Loop
<1>6. CASE LoopReads(g) \/ LoopGivesUp(g) \/ LoopGetsNoAnswer(g) \/ LoopAsks(g)
  <2>1. RowsMove /\ FaultsCount
    BY <1>6, NoMove, FaultsGrow DEF LoopReads, LoopGivesUp, LoopGetsNoAnswer, LoopAsks
  <2>2. LoopKnows' /\ DeadIsDead'
    BY <1>5, <1>6 DEF LoopReads, LoopGivesUp, LoopGetsNoAnswer, LoopAsks
  <2> QED BY <1>1, <1>3, <2>1, <2>2, PassesStay DEF CacheInv
<1>7. CASE LoopApplies(g)
  <2>1. PICK at \in {"tick", "exit", "refresh"}, left \in {0, 2} : Loop(g, at, "absent", "none", left)
    BY <1>7, Zenon DEF LoopApplies
  <2>2. LoopKnows' /\ DeadIsDead'
    BY <1>5, <1>7, <2>1 DEF LoopApplies
  <2>3. RowsMove /\ FaultsCount
    <3>1. CASE UNCHANGED <<row, stale, used>>
      BY <3>1, NoMove, FaultsGrow
    <3>2. CASE StatementFails
      BY <3>2, NoMove, FaultsGrow DEF StatementFails
    <3>3. CASE (DeleteInstance(i) \/ SetInstanceState(i, loop[g].got)) /\ UNCHANGED used
      <4>1. oracle[i] # "none"
        BY <1>2, <1>7 DEF LoopApplies
      <4> QED BY <1>1, <3>3, <4>1, StateMoves, FaultsGrow
    <3> QED BY <1>7, <3>1, <3>2, <3>3, Zenon DEF LoopApplies
  <2> QED BY <1>1, <1>3, <2>2, <2>3, PassesStay DEF CacheInv
<1>8. CASE RefreshReads(g) \/ RefreshSkips(g)
  <2>1. RowsMove /\ FaultsCount
    BY <1>8, NoMove, FaultsGrow DEF RefreshReads, RefreshSkips
  <2>2. LoopKnows' /\ DeadIsDead'
    BY <1>5, <1>8 DEF RefreshReads, RefreshSkips
  <2> QED BY <1>1, <1>3, <2>1, <2>2, PassesStay DEF CacheInv
<1>9. CASE RefreshWrites(g)
  <2>1. LoopKnows' /\ DeadIsDead'
    BY <1>5, <1>9 DEF RefreshWrites
  <2>2. oracle[i] # "none"
    BY <1>2, <1>9 DEF RefreshWrites
  <2>3. RowsMove /\ FaultsCount
    BY <1>1, <1>9, <2>2, UpsertMoves, NoMove, FaultsGrow DEF RefreshWrites, StatementFails
  <2> QED BY <1>1, <1>3, <2>1, <2>3, PassesStay DEF CacheInv
<1>10. CASE LoopEnds(g)
  <2>1. RowsMove /\ FaultsCount
    BY <1>10, NoMove, FaultsGrow DEF LoopEnds
  <2>2. LoopKnows' /\ DeadIsDead'
    BY <1>4, <1>10 DEF LoopEnds, NoLoop
  <2> QED BY <1>1, <1>3, <2>1, <2>2, PassesStay DEF CacheInv
<1> QED BY <1>6, <1>7, <1>8, <1>9, <1>10 DEF LoopStep

\* Watch is called for an instance that exists.
LEMMA WatchKnows ==
    ASSUME TypeOK, CacheInv, NEW i \in Instances, oracle[i] # "none", Watch(i), UNCHANGED oracle
    PROVE  LoopKnows' /\ DeadIsDead'
<1>1. CASE UNCHANGED loop
  BY <1>1 DEF CacheInv, LoopKnows, DeadIsDead
<1>2. CASE StartLoop(i)
  <2>1. PICK n \in {1, 2} : loop' = [loop EXCEPT ![<<i, n>>] = [NoLoop EXCEPT !.at = "tick"]]
    BY <1>2 DEF StartLoop
  <2>2. \A h \in Loops : h # <<i, n>> => loop'[h] = loop[h]
    BY <2>1 DEF TypeOK
  <2>3. <<i, n>> \in Loops /\ loop'[<<i, n>>].at = "tick"
    BY <2>1 DEF TypeOK, Loops, NoLoop
  <2> QED BY <2>2, <2>3 DEF CacheInv, LoopKnows, DeadIsDead
<1> QED BY <1>1, <1>2 DEF Watch

LEMMA OpCache ==
    ASSUME TypeOK, CacheInv, NEW c \in Callers,
           (\E kind \in Kinds, i \in Instances : OpBegins(c, kind, i)) \/ OpStep(c) \/ OpWatchesAgain(c)
    PROVE  CacheInv'
<1> DEFINE i == op[c].inst
<1>1. op[c].at # "idle" => i \in Instances /\ op[c].kind \in Kinds
  BY DEF TypeOK
<1>2. \A d \in Callers : op[d].at # "idle" => op[d].inst \in Instances
  BY DEF TypeOK
<1>3. UNCHANGED sync
  BY DEF OpBegins, OpStep, OpCalls, OpRefused, OpWrites, OpWatches, OpWatchesAgain, OpEnds
<1>4. ASSUME UNCHANGED <<oracle, loop>> PROVE LoopKnows' /\ DeadIsDead'
  BY <1>4 DEF CacheInv, LoopKnows, DeadIsDead
<1>5. ASSUME UNCHANGED oracle, NEW r, op' = [op EXCEPT ![c] = r],
             r.at \in {"write", "watch", "wait"} => oracle[r.inst] # "none"
      PROVE  OpKnows'
  BY <1>5 DEF TypeOK, CacheInv, OpKnows
<1>6. CASE \E kind \in Kinds, j \in Instances : OpBegins(c, kind, j)
  <2>1. PICK kind \in Kinds, j \in Instances : OpBegins(c, kind, j)
    BY <1>6
  <2>2. OpKnows'
    BY <1>5, <2>1 DEF OpBegins
  <2>3. RowsMove /\ FaultsCount
    BY <2>1, NoMove, FaultsGrow DEF OpBegins
  <2> QED BY <1>3, <1>4, <2>1, <2>2, <2>3, PassesStay DEF CacheInv, OpBegins
<1>7. CASE OpCalls(c)
  <2>1. i \in Instances /\ op[c].kind \in Kinds
    BY <1>1, <1>7 DEF OpCalls
  <2>2. PICK to \in Effect(op[c].kind, oracle[i]) :
           /\ oracle' = [oracle EXCEPT ![i] = to]
           /\ \/ \E answer : op' = [op EXCEPT ![c].at = "write", ![c].answer = answer]
              \/ op' = [op EXCEPT ![c] = NoOp]
    BY <1>7, Zenon DEF OpCalls
  <2>3. to # "none" /\ oracle[i] \notin Dead
    BY <2>1, EffectStates DEF TypeOK
  <2>4. Advances /\ oracle'[i] # "none"
    BY <2>1, <2>2, <2>3 DEF Advances, TypeOK
  <2>5. op'[c].inst = i \/ op'[c].at = "idle"
    BY <2>2 DEF TypeOK, Ops, NoOp
  <2>6. \A d \in Callers : d # c => op'[d] = op[d]
    BY <2>2 DEF TypeOK
  <2>7. OpKnows'
    BY <1>2, <2>4, <2>5, <2>6 DEF CacheInv, OpKnows, Advances
  <2>8. UNCHANGED <<row, stale, loop>> /\ FaultsCount
    BY <1>7, FaultsGrow DEF OpCalls
  <2>9. LoopKnows' /\ DeadIsDead'
    BY <2>4, <2>8, LoopPlaces DEF CacheInv, LoopKnows, DeadIsDead, Advances
  <2>10. \A s \in Syncs : sync[s].todo \subseteq Instances
    BY DEF TypeOK, Passes
  <2>11. RowsKnown' /\ PassKnows' /\ LiveIsListed'
    BY <1>3, <2>4, <2>8, <2>10 DEF CacheInv, RowsKnown, PassKnows, LiveIsListed, Advances, FaultsCount
  <2> QED BY <2>7, <2>9, <2>11 DEF CacheInv
<1>8. CASE OpRefused(c) \/ OpEnds(c)
  <2>1. OpKnows'
    BY <1>5, <1>8 DEF OpRefused, OpEnds, NoOp
  <2>2. RowsMove /\ FaultsCount
    BY <1>8, NoMove, FaultsGrow DEF OpRefused, OpEnds
  <2> QED BY <1>3, <1>4, <1>8, <2>1, <2>2, PassesStay DEF CacheInv, OpRefused, OpEnds
<1>9. CASE OpWrites(c)
  <2>1. i \in Instances /\ oracle[i] # "none"
    BY <1>1, <1>9 DEF OpWrites, CacheInv, OpKnows
  <2>2. op' = [op EXCEPT ![c] = NoOp] \/ op' = [op EXCEPT ![c].at = "watch", ![c].answer = "absent"]
    BY <1>9 DEF OpWrites
  <2>3. op'[c].inst = i \/ op'[c].at = "idle"
    BY <2>2 DEF TypeOK, Ops, NoOp
  <2>4. \A d \in Callers : d # c => op'[d] = op[d]
    BY <2>2 DEF TypeOK
  <2>5. OpKnows' /\ UNCHANGED <<oracle, loop>>
    BY <1>9, <2>1, <2>3, <2>4 DEF CacheInv, OpKnows, OpWrites
  <2>6. RowsMove /\ FaultsCount
    <3>1. CASE (Upsert(i, op[c].answer) \/ SetInstanceState(i, op[c].answer)) /\ UNCHANGED used
      BY <2>1, <3>1, UpsertMoves, StateMoves, FaultsGrow
    <3>2. CASE StatementFails
      BY <3>2, NoMove, FaultsGrow DEF StatementFails
    <3> QED BY <1>9, <3>1, <3>2 DEF OpWrites
  <2> QED BY <1>3, <1>4, <2>5, <2>6, PassesStay DEF CacheInv
<1>10. CASE OpWatches(c) \/ OpWatchesAgain(c)
  <2>1. i \in Instances /\ oracle[i] # "none" /\ Watch(i) /\ UNCHANGED <<oracle, row, stale, used>>
    BY <1>1, <1>10 DEF OpWatches, OpWatchesAgain, CacheInv, OpKnows
  <2>2. LoopKnows' /\ DeadIsDead'
    BY <2>1, WatchKnows
  <2>3. RowsMove /\ FaultsCount
    BY <2>1, NoMove, FaultsGrow
  <2>4. op' = op \/ op' = [op EXCEPT ![c] = NoOp] \/ op' = [op EXCEPT ![c].at = "wait"]
    BY <1>10 DEF OpWatches, OpWatchesAgain
  <2>5. op'[c].inst = i \/ op'[c].at = "idle"
    BY <2>4 DEF TypeOK, Ops, NoOp
  <2>6. \A d \in Callers : d # c => op'[d] = op[d]
    BY <2>4 DEF TypeOK
  <2>7. OpKnows'
    BY <2>1, <2>5, <2>6 DEF CacheInv, OpKnows
  <2> QED BY <1>3, <2>1, <2>2, <2>3, <2>7, PassesStay DEF CacheInv
<1> QED BY <1>6, <1>7, <1>8, <1>9, <1>10 DEF OpStep

LEMMA RestartCache == ASSUME TypeOK, CacheInv, Restart PROVE CacheInv'
<1>1. \A s \in Syncs : sync'[s].todo = {} /\ sync'[s].at = "idle"
  BY DEF Restart, NoPass
<1>2. \A c \in Callers : op'[c].at = "idle"
  BY DEF Restart, NoOp
<1>3. \A g \in Loops : /\ loop'[g].at # "apply"
                       /\ loop'[g].at # "off" => row[g[1]] \in Transitional
  BY DEF Restart, NoLoop
<1>4. UNCHANGED <<oracle, row>>
  BY DEF Restart
<1>5. \A g \in Loops : row[g[1]] \in Transitional => oracle[g[1]] # "none"
  BY LoopPlaces DEF CacheInv, RowsKnown, Transitional
<1> QED BY <1>1, <1>2, <1>3, <1>4, <1>5
        DEF CacheInv, RowsKnown, PassKnows, OpKnows, LoopKnows, DeadIsDead, LiveIsListed

-----------------------------------------------------------------------------
(* What is written is a state, never the absence of a row *)

WritesStates ==
    /\ \A s \in Syncs : \A i \in sync[s].todo : sync[s].seen[i] # "absent"
    /\ \A c \in Callers :
          /\ op[c].at = "write" => op[c].answer # "absent"
          /\ op[c].at = "call" /\ op[c].kind = "rename" => op[c].answer # "absent"
    /\ \A g \in Loops : loop[g].at = "upsert" => loop[g].cached # "absent"

LEMMA InitWrites == ASSUME Init PROVE WritesStates
BY DEF Init, WritesStates, NoPass, NoOp, NoLoop

LEMMA PassWritesStates ==
    ASSUME TypeOK, WritesStates, NEW s \in Syncs, PassBegins(s) \/ PassStep(s) \/ PassAborts(s)
    PROVE  WritesStates'
<1>1. UNCHANGED <<op, loop>> /\ \A t \in Syncs : t # s => sync'[t] = sync[t]
  BY DEF PassBegins, PassStep, PassLists, PassWrites, PassPrunes, PassAborts, PassEnds, TypeOK
<1>2. sync[s] \in Passes /\ sync[s].seen \in [Instances -> RowStates] /\ sync[s].todo \subseteq Instances
  BY DEF TypeOK, Passes
<1>3. \A i \in sync'[s].todo : sync'[s].seen[i] # "absent"
  <2>1. CASE PassBegins(s)
    BY <1>2, <2>1 DEF PassBegins, TypeOK, WritesStates
  <2>2. CASE PassLists(s)
    <3>1. sync'[s].todo = Listed
          /\ sync'[s].seen = [i \in Instances |-> IF i \in Listed THEN oracle[i] ELSE "absent"]
      BY <2>2 DEF PassLists, TypeOK
    <3> QED BY <3>1 DEF Listed, Stored, Transitional
  <2>3. ASSUME NEW i \in Instances, PassWrites(s, i) PROVE \A j \in sync'[s].todo : sync'[s].seen[j] # "absent"
    <3>1. sync'[s].todo = sync[s].todo \ {i} /\ sync'[s].seen = [sync[s].seen EXCEPT ![i] = "absent"]
      BY <1>2, <2>3 DEF PassWrites, TypeOK
    <3> QED BY <1>2, <3>1 DEF WritesStates
  <2>4. CASE PassPrunes(s) \/ PassAborts(s)
    BY <2>4 DEF PassPrunes, PassAborts, PassEnds, NoPass, TypeOK
  <2> QED BY <2>1, <2>2, <2>3, <2>4 DEF PassStep
<1> QED BY <1>1, <1>3 DEF WritesStates

LEMMA LoopWritesStates ==
    ASSUME TypeOK, WritesStates, NEW g \in Loops, LoopStep(g) \/ LoopGivesUp(g) \/ LoopGetsNoAnswer(g) \/ RefreshSkips(g)
    PROVE  WritesStates'
<1>1. UNCHANGED <<op, sync>>
  BY DEF LoopStep, LoopReads, LoopGivesUp, LoopGetsNoAnswer, LoopAsks, LoopApplies, RefreshReads, RefreshSkips,
         RefreshWrites, LoopEnds
<1>2. \A h \in Loops : h # g => loop'[h] = loop[h]
  <2>1. \A at, cached, got, left : Loop(g, at, cached, got, left) => \A h \in Loops : h # g => loop'[h] = loop[h]
    BY DEF Loop, TypeOK
  <2>2. CASE LoopApplies(g)
    <3>1. PICK at \in {"tick", "exit", "refresh"}, left \in {0, 2} : Loop(g, at, "absent", "none", left)
      BY <2>2, Zenon DEF LoopApplies
    <3> QED BY <2>1, <3>1
  <2>3. CASE LoopEnds(g)
    BY <2>3 DEF LoopEnds, TypeOK
  <2> QED BY <2>1, <2>2, <2>3 DEF LoopStep, LoopReads, LoopGivesUp, LoopGetsNoAnswer, LoopAsks, RefreshReads, RefreshSkips, RefreshWrites
<1>3. loop'[g].at = "upsert" => loop'[g].cached # "absent"
  <2>1. ASSUME NEW at, NEW cached, NEW got, NEW left, Loop(g, at, cached, got, left)
        PROVE  loop'[g].at = at /\ loop'[g].cached = cached
    BY <2>1 DEF Loop, TypeOK
  <2>2. CASE LoopApplies(g)
    <3>1. PICK at \in {"tick", "exit", "refresh"}, left \in {0, 2} : Loop(g, at, "absent", "none", left)
      BY <2>2, Zenon DEF LoopApplies
    <3> QED BY <2>1, <3>1
  <2>3. CASE RefreshReads(g)
    BY <2>1, <2>3 DEF RefreshReads
  <2>4. CASE LoopReads(g) \/ LoopGivesUp(g) \/ LoopGetsNoAnswer(g) \/ LoopAsks(g) \/ RefreshSkips(g) \/ RefreshWrites(g)
    BY <2>1, <2>4 DEF LoopReads, LoopGivesUp, LoopGetsNoAnswer, LoopAsks, RefreshSkips, RefreshWrites
  <2>5. CASE LoopEnds(g)
    BY <2>5 DEF LoopEnds, NoLoop, TypeOK
  <2> QED BY <2>2, <2>3, <2>4, <2>5 DEF LoopStep
<1> QED BY <1>1, <1>2, <1>3 DEF WritesStates

LEMMA OpWritesStates ==
    ASSUME TypeOK, WritesStates, NEW c \in Callers,
           (\E kind \in Kinds, i \in Instances : OpBegins(c, kind, i)) \/ OpStep(c) \/ OpWatchesAgain(c)
    PROVE  WritesStates'
<1> DEFINE Good(r) == /\ r.at = "write" => r.answer # "absent"
                      /\ r.at = "call" /\ r.kind = "rename" => r.answer # "absent"
<1>1. UNCHANGED sync
  BY DEF OpBegins, OpStep, OpCalls, OpRefused, OpWrites, OpWatches, OpWatchesAgain, OpEnds
<1>2. \A g \in Loops : loop'[g].at = "upsert" => loop'[g] = loop[g]
  <2>1. CASE UNCHANGED loop
    BY <2>1
  <2>2. CASE op[c].at # "idle" /\ Watch(op[c].inst)
    <3>1. UNCHANGED loop \/ StartLoop(op[c].inst)
      BY <2>2 DEF Watch
    <3>2. \A g \in Loops : loop'[g] = loop[g] \/ loop'[g].at = "tick"
      BY <3>1 DEF StartLoop, TypeOK, NoLoop
    <3> QED BY <3>2
  <2> QED BY <2>1, <2>2 DEF OpBegins, OpStep, OpCalls, OpRefused, OpWrites, OpWatches, OpWatchesAgain, OpEnds
<1>3. Good(op'[c]) /\ \A d \in Callers : d # c => op'[d] = op[d]
  <2>1. CASE \E kind \in Kinds, i \in Instances : OpBegins(c, kind, i)
    <3>1. PICK kind \in Kinds, i \in Instances : OpBegins(c, kind, i)
      BY <2>1
    <3> DEFINE r == [at |-> "call", kind |-> kind, inst |-> i, answer |-> IF kind = "rename" THEN row[i] ELSE "absent"]
    <3>2. op' = [op EXCEPT ![c] = r]
      BY <3>1 DEF OpBegins
    <3>3. kind = "rename" => row[i] # "absent"
      BY <3>1 DEF OpBegins
    <3> QED BY <3>2, <3>3 DEF TypeOK
  <2>2. CASE OpCalls(c)
    <3>1. op[c].at = "call" /\ op[c].kind \in Kinds /\ op[c].inst \in Instances /\ oracle[op[c].inst] \in OracleStates
      BY <2>2 DEF OpCalls, TypeOK
    <3>2. PICK to \in Effect(op[c].kind, oracle[op[c].inst]) :
             \/ \E answer \in Answers(c, to) : op' = [op EXCEPT ![c].at = "write", ![c].answer = answer]
             \/ op' = [op EXCEPT ![c] = NoOp]
      BY <2>2, Zenon DEF OpCalls
    <3>3. to # "absent" /\ (op[c].kind = "reshape" => oracle[op[c].inst] # "absent")
      BY <3>1, EffectStates DEF Stored, Transitional
    <3>4. \A answer \in Answers(c, to) : answer # "absent"
      BY <3>1, <3>3 DEF Answers, WritesStates
    <3> QED BY <3>2, <3>4 DEF TypeOK, Ops, NoOp
  <2>3. CASE OpRefused(c) \/ OpWrites(c) \/ OpWatches(c) \/ OpEnds(c)
    <3>1. \/ op' = [op EXCEPT ![c] = NoOp]
          \/ op' = [op EXCEPT ![c] = [op[c] EXCEPT !.at = "watch", !.answer = "absent"]]
          \/ op' = [op EXCEPT ![c].at = "wait"]
      <4>1. CASE OpWrites(c)
        BY <4>1 DEF OpWrites
      <4>2. CASE OpRefused(c) \/ OpWatches(c) \/ OpEnds(c)
        BY <4>2, Zenon DEF OpRefused, OpWatches, OpEnds
      <4> QED BY <2>3, <4>1, <4>2
    <3>2. \A d \in Callers : d # c => op'[d] = op[d]
      BY <3>1 DEF TypeOK
    <3>3. op \in [Callers -> Ops] /\ op[c] \in Ops /\ NoOp.at = "idle"
      BY DEF TypeOK, NoOp
    <3>4. op'[c].at \in {"idle", "watch", "wait"}
      <4>1. CASE op' = [op EXCEPT ![c] = NoOp]
        BY <3>3, <4>1
      <4>2. CASE op' = [op EXCEPT ![c] = [op[c] EXCEPT !.at = "watch", !.answer = "absent"]]
        BY <3>3, <4>2 DEF Ops
      <4>3. CASE op' = [op EXCEPT ![c].at = "wait"]
        BY <3>3, <4>3 DEF Ops
      <4> QED BY <3>1, <4>1, <4>2, <4>3
    <3> QED BY <3>2, <3>4
  <2>4. CASE OpWatchesAgain(c)
    BY <2>4 DEF OpWatchesAgain, WritesStates
  <2> QED BY <2>1, <2>2, <2>3, <2>4 DEF OpStep
<1> QED BY <1>1, <1>2, <1>3 DEF WritesStates

LEMMA RestartWrites == ASSUME Restart PROVE WritesStates'
BY DEF Restart, WritesStates, NoPass, NoOp, NoLoop

-----------------------------------------------------------------------------
(* The theorems *)

CacheIInv == TypeOK /\ OneLoopPerInstance /\ CacheInv /\ WritesStates

LEMMA InitIInv == Init => CacheIInv
<1> SUFFICES ASSUME Init PROVE CacheIInv
  OBVIOUS
<1>1. OneLoopPerInstance
  BY DEF Init, OneLoopPerInstance, NoLoop
<1> QED BY <1>1, InitTypes, InitCache, InitWrites DEF CacheIInv

LEMMA NextIInv == CacheIInv /\ [Next]_vars => CacheIInv'
<1> SUFFICES ASSUME CacheIInv, [Next]_vars PROVE CacheIInv'
  OBVIOUS
<1> USE DEF CacheIInv
<1>1. ASSUME NEW i \in Instances, Settle(i) \/ Console(i) PROVE CacheIInv'
  BY <1>1, OracleTypes, OracleCache, OneLoopStays DEF Settle, Console, WritesStates
<1>2. ASSUME NEW s \in Syncs, PassBegins(s) \/ PassStep(s) \/ PassAborts(s) PROVE CacheIInv'
  <2>1. UNCHANGED <<watching, loop>>
    BY <1>2 DEF PassBegins, PassStep, PassLists, PassWrites, PassPrunes, PassAborts
  <2> QED BY <1>2, <2>1, PassTypes, PassCache, PassWritesStates, OneLoopStays
<1>3. ASSUME NEW g \in Loops, LoopStep(g) \/ LoopGivesUp(g) \/ LoopGetsNoAnswer(g) \/ RefreshSkips(g) PROVE CacheIInv'
  BY <1>3, LoopStepTypes, LoopStepKeepsOne, LoopCache, LoopWritesStates
<1>4. ASSUME NEW c \in Callers,
             (\E kind \in Kinds, i \in Instances : OpBegins(c, kind, i)) \/ OpStep(c) \/ OpWatchesAgain(c)
      PROVE  CacheIInv'
  <2>1. UNCHANGED <<watching, loop>> \/ (op[c].at # "idle" /\ Watch(op[c].inst))
    BY <1>4 DEF OpBegins, OpStep, OpCalls, OpRefused, OpWrites, OpWatches, OpWatchesAgain, OpEnds
  <2>2. OneLoopPerInstance'
    BY <2>1, OneLoopStays, WatchKeepsOne DEF TypeOK
  <2> QED BY <1>4, <2>2, OpTypes, OpCache, OpWritesStates
<1>5. CASE Restart
  BY <1>5, RestartTypes, RestartKeepsOne, RestartCache, RestartWrites
<1>6. CASE UNCHANGED vars
  BY <1>6 DEF vars, TypeOK, OneLoopPerInstance, CacheInv, RowsKnown, PassKnows, OpKnows, LoopKnows,
              DeadIsDead, LiveIsListed, WritesStates
<1> QED BY <1>1, <1>2, <1>3, <1>4, <1>5, <1>6 DEF Next

\* Every reachable state of the cache satisfies the inductive invariant:
\* UpsertInstance, PruneStaleInstances, watchLoop and the requests keep it.
THEOREM CacheInductive == Spec => []CacheIInv
BY InitIInv, NextIInv, PTL DEF Spec

\* Every variable keeps its type (the states and rows of internal/store/instance.go).
THEOREM CacheTypes == Spec => []TypeOK
<1>1. CacheIInv => TypeOK
  BY DEF CacheIInv
<1> QED BY <1>1, CacheInductive, PTL

\* Watch: for each instance there is at most one loop at any time.
THEOREM OneLoop == Spec => []OneLoopPerInstance
<1>1. CacheIInv => OneLoopPerInstance
  BY DEF CacheIInv
<1> QED BY <1>1, CacheInductive, PTL

\* What the writers of the cache know of Oracle.
THEOREM WritersKnow == Spec => []CacheInv
<1>1. CacheIInv => CacheInv
  BY DEF CacheIInv
<1> QED BY <1>1, CacheInductive, PTL

RowIsKept == \A i \in Instances :
    row[i] # "absent" /\ row'[i] = "absent" /\ used.faults = 0 => oracle[i] \in Dead

\* A statement that writes a state deletes nothing.
LEMMA WritesKeep ==
    ASSUME TypeOK, NEW i \in Instances, NEW state, state # "absent",
           Upsert(i, state) \/ SetInstanceState(i, state)
    PROVE  RowIsKept
BY DEF TypeOK, RowIsKept, Upsert, SetInstanceState

LEMMA NoWriteKeeps == ASSUME UNCHANGED row PROVE RowIsKept
BY DEF RowIsKept

LEMMA StepKeepsRow == ASSUME CacheIInv, [Next]_vars PROVE RowIsKept
<1> USE DEF CacheIInv
<1>1. ASSUME NEW i \in Instances, Settle(i) \/ Console(i) PROVE RowIsKept
  BY <1>1, NoWriteKeeps DEF Settle, Console
<1>2. ASSUME NEW s \in Syncs, PassBegins(s) \/ PassStep(s) \/ PassAborts(s) PROVE RowIsKept
  <2>1. CASE PassBegins(s) \/ PassLists(s) \/ PassAborts(s)
    BY <2>1, NoWriteKeeps DEF PassBegins, PassLists, PassAborts
  <2>2. ASSUME NEW i \in Instances, PassWrites(s, i) PROVE RowIsKept
    <3>1. sync[s].seen[i] # "absent"
      BY <2>2 DEF PassWrites, WritesStates
    <3> QED BY <2>2, <3>1, WritesKeep, NoWriteKeeps DEF PassWrites, StatementFails
  <2>3. CASE PassPrunes(s)
    <3>1. sync[s].at = "write" /\ sync[s].todo = {}
      BY <2>3 DEF PassPrunes
    <3>2. \A i \in Instances : row[i] # "absent" /\ row'[i] = "absent" => i \in stale[s]
      BY <2>3 DEF PassPrunes
    <3> QED BY <3>1, <3>2 DEF CacheInv, LiveIsListed, RowIsKept
  <2> QED BY <1>2, <2>1, <2>2, <2>3 DEF PassStep
<1>3. ASSUME NEW g \in Loops, LoopStep(g) \/ LoopGivesUp(g) \/ LoopGetsNoAnswer(g) \/ RefreshSkips(g) PROVE RowIsKept
  <2>1. CASE LoopReads(g) \/ LoopGivesUp(g) \/ LoopGetsNoAnswer(g) \/ LoopAsks(g) \/ RefreshReads(g) \/ RefreshSkips(g) \/ LoopEnds(g)
    BY <2>1, NoWriteKeeps DEF LoopReads, LoopGivesUp, LoopGetsNoAnswer, LoopAsks, RefreshReads, RefreshSkips, LoopEnds
  <2>2. CASE LoopApplies(g)
    <3>1. CASE UNCHANGED row
      BY <3>1, NoWriteKeeps
    <3>2. CASE loop[g].got \in Dead /\ DeleteInstance(g[1])
      <4>1. oracle[g[1]] \in Dead
        BY <2>2, <3>2 DEF LoopApplies, CacheInv, DeadIsDead
      <4> QED BY <3>2, <4>1, LoopPlaces DEF DeleteInstance, RowIsKept, TypeOK
    <3>3. CASE SetInstanceState(g[1], loop[g].got)
      <4>1. loop[g].got # "absent"
        BY DEF TypeOK, LoopRecords, OracleStates, Stored, Transitional
      <4> QED BY <3>3, <4>1, WritesKeep, LoopPlaces
    <3> QED BY <2>2, <3>1, <3>2, <3>3, Zenon DEF LoopApplies, StatementFails
  <2>3. CASE RefreshWrites(g)
    <3>1. loop[g].cached # "absent"
      BY <2>3 DEF RefreshWrites, WritesStates
    <3> QED BY <2>3, <3>1, WritesKeep, NoWriteKeeps, LoopPlaces DEF RefreshWrites, StatementFails
  <2> QED BY <1>3, <2>1, <2>2, <2>3 DEF LoopStep
<1>4. ASSUME NEW c \in Callers,
             (\E kind \in Kinds, i \in Instances : OpBegins(c, kind, i)) \/ OpStep(c) \/ OpWatchesAgain(c)
      PROVE  RowIsKept
  <2>1. CASE OpWrites(c)
    <3>1. op[c].answer # "absent" /\ op[c].inst \in Instances
      BY <2>1 DEF OpWrites, WritesStates, TypeOK
    <3>2. UNCHANGED row \/ Upsert(op[c].inst, op[c].answer) \/ SetInstanceState(op[c].inst, op[c].answer)
      BY <2>1 DEF OpWrites, StatementFails
    <3> QED BY <3>1, <3>2, WritesKeep, NoWriteKeeps
  <2>2. CASE ~OpWrites(c)
    <3>1. UNCHANGED row
      BY <1>4, <2>2 DEF OpBegins, OpStep, OpCalls, OpRefused, OpWatches, OpWatchesAgain, OpEnds
    <3> QED BY <3>1, NoWriteKeeps
  <2> QED BY <2>1, <2>2
<1>5. CASE Restart \/ UNCHANGED vars
  BY <1>5, NoWriteKeeps DEF Restart, vars
<1> QED BY <1>1, <1>2, <1>3, <1>4, <1>5 DEF Next

\* Unless a statement has failed, the row of an instance that lives at Oracle is
\* never deleted, whatever passes, loops and requests overlap: neither
\* PruneStaleInstances nor finishTerminated deletes by an old view.
THEOREM RowKept == Spec => LiveRowIsKept
<1>1. CacheIInv /\ [Next]_vars => [RowIsKept]_vars
  BY StepKeepsRow
<1>2. Spec => [][RowIsKept]_vars
  BY <1>1, CacheInductive, PTL DEF Spec
<1>3. LiveRowIsKept <=> [][RowIsKept]_vars
  BY DEF LiveRowIsKept, RowIsKept
<1> QED BY <1>2, <1>3
=============================================================================
