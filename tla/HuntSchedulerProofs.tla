------------------------ MODULE HuntSchedulerProofs ------------------------
(***************************************************************************)
(* Proofs about the rounds of the capacity hunter: one round per task, and *)
(* a round that has looked for an instance does not create a second one.   *)
(***************************************************************************)
EXTENDS HuntScheduler, TLAPS

\* The rounds and what they work on have the right type.
RoundType ==
    /\ round \in [Workers -> Rounds]
    /\ batch \subseteq [task : Tasks, attempts : 0..Enough]
    /\ row \in [Tasks -> [state : States, attempts : 0..Enough, named : BOOLEAN]]
    /\ built \in [Tasks -> 0..MaxBuilt]
    /\ due \subseteq Tasks
    /\ \A w \in Working : round[w].task \in Tasks

\* What is true of a finding when a round is at a place.
Sound(r, count) ==
    /\ r.at \in {"begin", "check"} => ~r.checked
    /\ r.at \in {"prepare", "launch"} /\ r.checked /\ r.tries = 0 /\ ~r.late => count = 0

\* The round of w continues as r and touches nothing of the other rounds.
Continues(w, r) ==
    /\ round[w].at # "idle"
    /\ Becomes(w, r)
    /\ r.at # "idle" /\ r.task = round[w].task
    /\ UNCHANGED <<inflight, batch>>
    /\ built' \in [Tasks -> 0..MaxBuilt]
    /\ \A t \in Tasks : t # r.task => built'[t] = built[t]
    /\ Sound(r, built'[r.task])

LEMMA EnoughNat == Enough \in Nat /\ 0 \in 0..Enough /\ \A n \in 0..Enough : OneMore(n) \in 0..Enough
BY NumbersAssumption DEF Enough, OneMore

LEMMA IdleType ==
    /\ Idle \in Rounds /\ Idle.at = "idle"
    /\ \A t \in Tasks, n \in 0..Enough :
          LET r == [Idle EXCEPT !.at = "begin", !.task = t, !.attempts = n]
          IN  r \in Rounds /\ r.at = "begin" /\ r.task = t /\ ~r.checked
<1>1. /\ 0 \in 0..MaxRetries /\ "none" \in Results /\ NoTask \in Tasks \cup {NoTask}
      /\ "idle" \in Stages /\ "begin" \in Stages /\ FALSE \in BOOLEAN
      /\ "none" \in {"none", "throttled"} /\ 0 \in 0..Enough
  BY NumbersAssumption, EnoughNat DEF Stages, Results
<1>2. Idle \in Rounds /\ Idle.at = "idle" /\ Idle.checked = FALSE
  BY <1>1 DEF Idle, Rounds
<1>3. ASSUME NEW t \in Tasks, NEW n \in 0..Enough
      PROVE  LET r == [Idle EXCEPT !.at = "begin", !.task = t, !.attempts = n]
             IN  r \in Rounds /\ r.at = "begin" /\ r.task = t /\ ~r.checked
  BY <1>1, <1>2 DEF Rounds
<1> QED BY <1>2, <1>3

\* A round that is about to write its result.
LEMMA Recording ==
  ASSUME NEW r \in Rounds, NEW refusal \in {"none", "throttled"}, NEW result \in Results
  PROVE  /\ [r EXCEPT !.at = "record", !.result = result] \in Rounds
         /\ [r EXCEPT !.at = "record", !.result = result].task = r.task
         /\ [r EXCEPT !.at = "record", !.result = result].at = "record"
         /\ [r EXCEPT !.at = "record", !.refusal = refusal, !.result = result] \in Rounds
         /\ [r EXCEPT !.at = "record", !.refusal = refusal, !.result = result].task = r.task
         /\ [r EXCEPT !.at = "record", !.refusal = refusal, !.result = result].at = "record"
BY DEF Rounds, Stages

\* A round that ends leaves the others alone.
LEMMA EndsContinues ==
  ASSUME RoundType, NEW w \in Workers, NEW result \in Results, round[w].at # "idle",
         Ends(w, result) \/ Concludes(w, result),
         UNCHANGED <<inflight, batch>>, built' \in [Tasks -> 0..MaxBuilt],
         \A t \in Tasks : t # round[w].task => built'[t] = built[t]
  PROVE  \E r \in Rounds : Continues(w, r)
<1>1. round[w] \in Rounds /\ "none" \in {"none", "throttled"}
  BY DEF RoundType
<1>2. CASE Ends(w, result)
  <2> DEFINE r == [round[w] EXCEPT !.at = "record", !.result = result]
  <2>1. r \in Rounds /\ r.at = "record" /\ r.task = round[w].task
    BY <1>1, Recording, ZenonT(40)
  <2>2. Becomes(w, r)
    BY <1>2 DEF Ends
  <2> HIDE DEF r
  <2> QED BY <2>1, <2>2, SMTT(30) DEF Continues, Sound
<1>3. CASE Concludes(w, result)
  <2> DEFINE r == [round[w] EXCEPT !.at = "record", !.refusal = "none", !.result = result]
  <2>1. r \in Rounds /\ r.at = "record" /\ r.task = round[w].task
    BY <1>1, Recording
  <2>2. Becomes(w, r)
    BY <1>3 DEF Concludes
  <2> HIDE DEF r
  <2> QED BY <2>1, <2>2 DEF Continues, Sound
<1> QED BY <1>2, <1>3

\* So does one that tries again or gives up for now.
LEMMA RetryContinues ==
  ASSUME RoundType, NEW w \in Workers, NEW refusal \in {"none", "throttled"},
         NEW next \in {"defer", "record"}, round[w].at = "launch",
         RetryOr(w, refusal, next),
         UNCHANGED <<inflight, batch>>, built' \in [Tasks -> 0..MaxBuilt],
         \A t \in Tasks : t # round[w].task => built'[t] = built[t]
  PROVE  \E r \in Rounds : Continues(w, r)
<1> DEFINE s == [round[w] EXCEPT !.refusal = refusal]
<1>1. round[w] \in Rounds
  BY DEF RoundType
<1>2. s \in Rounds /\ s.at = "launch" /\ s.task = round[w].task /\ s.tries = round[w].tries
  BY <1>1 DEF Rounds
<1>3. CASE round[w].tries < MaxRetries
  <2> DEFINE r == [s EXCEPT !.tries = @ + 1]
  <2>1. Becomes(w, r)
    BY <1>2, <1>3 DEF RetryOr
  <2>2. r \in Rounds /\ r.at = "launch" /\ r.task = round[w].task /\ r.tries # 0
    <3>1. s.tries \in 0..MaxRetries /\ s.tries + 1 \in 0..MaxRetries /\ s.tries + 1 # 0
      BY <1>2, <1>3, NumbersAssumption DEF Rounds
    <3> HIDE DEF s
    <3> QED BY <1>2, <3>1 DEF Rounds
  <2> HIDE DEF r
  <2> QED BY <2>1, <2>2 DEF Continues, Sound
<1>4. CASE ~(round[w].tries < MaxRetries)
  <2> DEFINE r == [s EXCEPT !.at = next, !.result = IF next = "defer" THEN "rest" ELSE "later"]
  <2>1. Becomes(w, r)
    BY <1>2, <1>4 DEF RetryOr
  <2>2. r \in Rounds /\ r.at = next /\ r.task = round[w].task
    BY <1>2 DEF Rounds, Stages, Results
  <2> HIDE DEF r
  <2> QED BY <2>1, <2>2 DEF Continues, Sound
<1> QED BY <1>3, <1>4

\* Every step of a round but the last continues it.
LEMMA RoundContinues ==
  ASSUME RoundType, RoundInv, NEW w \in Workers,
         \/ Begin(w) \/ Check(w) \/ Prepare(w) \/ LaunchOk(w) \/ LaunchLost(w)
         \/ LaunchRefused(w) \/ Defer(w) \/ Record(w) \/ Deadline(w)
  PROVE  \E r \in Rounds : Continues(w, r)
<1>0. round[w] \in Rounds /\ built \in [Tasks -> 0..MaxBuilt] /\ Sound(round[w], built[round[w].task])
  BY DEF RoundType, RoundInv, Sound
<1>1. {"later", "failed", "succeeded"} \subseteq Results
  BY DEF Results
<1>2. \A t : t \in Tasks /\ built[t] < MaxBuilt /\ built' = [built EXCEPT ![t] = @ + 1] =>
          /\ built' \in [Tasks -> 0..MaxBuilt]
          /\ \A u \in Tasks : u # t => built'[u] = built[u]
  BY <1>0, NumbersAssumption
<1>3. round[w].at # "idle" => round[w].task \in Tasks
  BY DEF RoundType, Working
<1>4. CASE Begin(w)
  <2>1. CASE Ends(w, "failed")
    BY <1>0, <1>1, <1>4, <2>1, EndsContinues DEF Begin
  <2>2. CASE Becomes(w, [round[w] EXCEPT !.at = IF round[w].attempts > 0 THEN "check" ELSE "prepare"])
    <3> DEFINE r == [round[w] EXCEPT !.at = IF round[w].attempts > 0 THEN "check" ELSE "prepare"]
    <3>1. r \in Rounds /\ r.at \in {"check", "prepare"} /\ r.task = round[w].task /\ r.checked = round[w].checked
      BY <1>0 DEF Rounds, Stages
    <3>2. ~round[w].checked /\ round[w].at = "begin"
      BY <1>0, <1>4 DEF Begin, Sound
    <3>3. Becomes(w, r) /\ UNCHANGED <<inflight, batch, built>>
      BY <1>4, <2>2 DEF Begin
    <3> HIDE DEF r
    <3> QED BY <1>0, <3>1, <3>2, <3>3 DEF Continues, Sound
  <2> QED BY <1>4, <2>1, <2>2 DEF Begin
<1>5. CASE Check(w)
  <2>1. CASE Ends(w, "succeeded")
    BY <1>0, <1>1, <1>5, <2>1, EndsContinues DEF Check
  <2>2. CASE built[round[w].task] = 0 /\ Becomes(w, [round[w] EXCEPT !.at = "prepare", !.checked = TRUE])
    <3> DEFINE r == [round[w] EXCEPT !.at = "prepare", !.checked = TRUE]
    <3>1. r \in Rounds /\ r.at = "prepare" /\ r.task = round[w].task
      BY <1>0 DEF Rounds, Stages
    <3>2. round[w].at = "check" /\ UNCHANGED <<inflight, batch, built>>
      BY <1>5 DEF Check
    <3> HIDE DEF r
    <3>3. Becomes(w, r)
      BY <2>2 DEF r
    <3> QED BY <1>0, <2>2, <3>1, <3>2, <3>3 DEF Continues, Sound
  <2>3. CASE Becomes(w, [round[w] EXCEPT !.at = "prepare"])
    <3> DEFINE r == [round[w] EXCEPT !.at = "prepare"]
    <3>1. r \in Rounds /\ r.at = "prepare" /\ r.task = round[w].task /\ r.checked = round[w].checked
      BY <1>0 DEF Rounds, Stages
    <3>2. round[w].at = "check" /\ ~round[w].checked /\ UNCHANGED <<inflight, batch, built>>
      BY <1>0, <1>5 DEF Check, Sound
    <3> HIDE DEF r
    <3>3. Becomes(w, r)
      BY <2>3 DEF r
    <3> QED BY <1>0, <3>1, <3>2, <3>3 DEF Continues, Sound
  <2> QED BY <1>5, <2>1, <2>2, <2>3 DEF Check
<1>6. CASE Prepare(w)
  <2>1. CASE Ends(w, "later")
    BY <1>0, <1>1, <1>6, <2>1, EndsContinues DEF Prepare
  <2>2. CASE Becomes(w, [round[w] EXCEPT !.at = "launch"])
    <3> DEFINE r == [round[w] EXCEPT !.at = "launch"]
    <3>1. /\ r \in Rounds /\ r.at = "launch" /\ r.task = round[w].task
          /\ r.checked = round[w].checked /\ r.tries = round[w].tries /\ r.late = round[w].late
      BY <1>0 DEF Rounds, Stages
    <3>2. round[w].at = "prepare" /\ UNCHANGED <<inflight, batch, built>>
      BY <1>6 DEF Prepare
    <3> HIDE DEF r
    <3>3. Becomes(w, r)
      BY <2>2 DEF r
    <3> QED BY <1>0, <3>1, <3>2, <3>3 DEF Continues, Sound
  <2> QED BY <1>6, <2>1, <2>2 DEF Prepare
<1>7. CASE LaunchOk(w)
  BY <1>1, <1>2, <1>3, <1>7, EndsContinues DEF LaunchOk
<1>8. CASE LaunchLost(w)
  BY <1>2, <1>3, <1>8, RetryContinues DEF LaunchLost
<1>9. CASE LaunchRefused(w)
  BY <1>0, <1>1, <1>9, EndsContinues, RetryContinues DEF LaunchRefused
<1>10. CASE Defer(w)
  <2> DEFINE r == [round[w] EXCEPT !.at = "record"]
  <2>1. r \in Rounds /\ r.at = "record" /\ r.task = round[w].task
    BY <1>0 DEF Rounds, Stages
  <2>2. round[w].at = "defer" /\ Becomes(w, r) /\ UNCHANGED <<inflight, batch, built>>
    BY <1>10 DEF Defer
  <2> HIDE DEF r
  <2> QED BY <1>0, <2>1, <2>2 DEF Continues, Sound
<1>11. CASE Record(w)
  <2> DEFINE r == [round[w] EXCEPT !.at = "release"]
  <2>1. r \in Rounds /\ r.at = "release" /\ r.task = round[w].task
    BY <1>0 DEF Rounds, Stages
  <2>2. round[w].at = "record" /\ Becomes(w, r) /\ UNCHANGED <<inflight, batch, built>>
    BY <1>11 DEF Record
  <2> HIDE DEF r
  <2> QED BY <1>0, <2>1, <2>2 DEF Continues, Sound
<1>12. CASE Deadline(w)
  <2> DEFINE r == [round[w] EXCEPT !.late = TRUE]
  <2>1. r \in Rounds /\ r.at = round[w].at /\ r.task = round[w].task /\ r.late /\ r.checked = round[w].checked
    BY <1>0 DEF Rounds
  <2>2. round[w].at # "idle" /\ Becomes(w, r) /\ UNCHANGED <<inflight, batch>>
    BY <1>12 DEF Deadline
  <2>3. /\ built' \in [Tasks -> 0..MaxBuilt]
        /\ \A t \in Tasks : t # round[w].task => built'[t] = built[t]
    BY <1>0, <1>2, <1>3, <1>12, <2>2 DEF Deadline
  <2> HIDE DEF r
  <2> QED BY <1>0, <2>1, <2>2, <2>3 DEF Continues, Sound
<1> QED BY <1>4, <1>5, <1>6, <1>7, <1>8, <1>9, <1>10, <1>11, <1>12

\* A round that continues keeps the invariant of the rounds.
LEMMA ContinueInv ==
  ASSUME RoundType, RoundInv, NEW w \in Workers, NEW r \in Rounds, Continues(w, r)
  PROVE  /\ round' \in [Workers -> Rounds]
         /\ \A v \in Working' : round'[v].task \in Tasks
         /\ RoundInv'
<1>1. /\ round' \in [Workers -> Rounds] /\ round'[w] = r
      /\ \A v \in Workers : v # w => round'[v] = round[v]
  BY DEF RoundType, Continues, Becomes
<1>2. Working' = Working /\ w \in Working
  BY <1>1 DEF Working, Continues
<1>3. \A v \in Working : round'[v].task = round[v].task
  BY <1>1, <1>2 DEF Continues, Working
<1>4. \A v \in Working' : round'[v].task \in Tasks /\ round'[v].task \in inflight'
  BY <1>2, <1>3 DEF RoundType, RoundInv, Continues
<1>5. OneRoundPerTask'
  BY <1>2, <1>3 DEF RoundInv, OneRoundPerTask
<1>6. ASSUME NEW v \in Workers PROVE Sound(round'[v], built'[round'[v].task])
  <2>1. CASE v = w
    BY <1>1, <2>1 DEF Continues
  <2>2. CASE v # w /\ v \in Working
    <3>1. round[v].task \in Tasks /\ round[v].task # r.task
      BY <1>2, <2>2 DEF RoundType, RoundInv, OneRoundPerTask, Continues
    <3>2. built'[round[v].task] = built[round[v].task]
      BY <3>1 DEF Continues
    <3> QED BY <1>1, <2>2, <3>2 DEF RoundInv, Sound
  <2>3. CASE v \notin Working
    BY <1>1, <1>2, <2>3 DEF Sound, Working
  <2> QED BY <2>1, <2>2, <2>3
<1> QED BY <1>1, <1>4, <1>5, <1>6 DEF RoundInv, Sound

\* Recording a result keeps the type of the rows.
LEMMA RowsTyped ==
  ASSUME RoundType, NEW t \in Tasks, NEW result \in Results, row' = Updated(t, result)
  PROVE  row' \in [Tasks -> [state : States, attempts : 0..Enough, named : BOOLEAN]]
<1> DEFINE R == [state : States, attempts : 0..Enough, named : BOOLEAN]
<1>1. row[t] \in R /\ OneMore(row[t].attempts) \in 0..Enough
  BY EnoughNat DEF RoundType
<1>2. (row[t].named \/ result = "succeeded") \in BOOLEAN
  BY <1>1
<1>3. (IF result \in {"failed", "succeeded"} THEN result ELSE row[t].state) \in States
  BY <1>1 DEF States
<1> QED BY <1>1, <1>2, <1>3 DEF Updated, RoundType

\* Every step preserves the type and the invariant of the rounds.
LEMMA RoundsStep == RoundType /\ RoundInv /\ [Next]_vars => RoundType' /\ RoundInv'
<1> SUFFICES ASSUME RoundType, RoundInv, [Next]_vars PROVE RoundType' /\ RoundInv'
  OBVIOUS
<1> DEFINE R == [state : States, attempts : 0..Enough, named : BOOLEAN]
<1>0. \A t \in Tasks, s \in States : [row EXCEPT ![t].state = s] \in [Tasks -> R]
  BY DEF RoundType
<1>1. ASSUME row' \in [Tasks -> R], batch' \subseteq [task : Tasks, attempts : 0..Enough],
             due' \subseteq Tasks, UNCHANGED <<round, inflight, built>>
      PROVE  RoundType' /\ RoundInv'
  BY <1>1 DEF RoundType, RoundInv, OneRoundPerTask, Working
<1>2. ASSUME NEW t \in Tasks, Request(t) \/ Elapse(t) PROVE RoundType' /\ RoundInv'
  <2>1. row' = row \/ \E s \in States : row' = [row EXCEPT ![t].state = s]
    BY <1>2 DEF Request, CountActive, Create, Pause, Resume, Delete, Elapse, States
  <2>2. row' \in [Tasks -> R]
    BY <1>0, <2>1 DEF RoundType
  <2>3. due' \subseteq Tasks /\ UNCHANGED <<round, inflight, built, batch>>
    BY <1>2 DEF RoundType, Request, CountActive, Create, Pause, Resume, Delete, Elapse, Arrive, Leave
  <2> QED BY <1>1, <2>2, <2>3 DEF RoundType
<1>3. ASSUME TickRead PROVE RoundType' /\ RoundInv'
  <2>1. \A t \in Due : t \in Tasks /\ row[t].attempts \in 0..Enough
    BY DEF RoundType, Due, Startable
  <2>2. batch' \subseteq [task : Tasks, attempts : 0..Enough]
    BY <1>3, <2>1 DEF TickRead
  <2> QED BY <1>1, <1>3, <2>2 DEF RoundType, TickRead
<1>4. ASSUME NEW b \in batch, TickSkip(b) PROVE RoundType' /\ RoundInv'
  BY <1>1, <1>4 DEF RoundType, TickSkip
<1>5. ASSUME NEW b \in batch, NEW w \in Workers, TickStart(w, b) PROVE RoundType' /\ RoundInv'
  <2> DEFINE r == [Idle EXCEPT !.at = "begin", !.task = b.task, !.attempts = b.attempts]
  <2>1. b.task \in Tasks /\ b.attempts \in 0..Enough /\ b.task \notin inflight
    BY <1>5 DEF RoundType, TickStart, Claim
  <2>2. r \in Rounds /\ r.at = "begin" /\ r.task = b.task /\ ~r.checked
    BY <2>1, IdleType
  <2>3. round' = [round EXCEPT ![w] = r] /\ inflight' = inflight \cup {b.task} /\ built' = built
        /\ row' = row /\ due' = due /\ batch' \subseteq batch /\ round[w].at = "idle"
    BY <1>5 DEF TickStart
  <2> HIDE DEF r
  <2>4. round' \in [Workers -> Rounds] /\ round'[w] = r /\ \A v \in Workers : v # w => round'[v] = round[v]
    BY <2>2, <2>3 DEF RoundType
  <2>5. Working' = Working \cup {w} /\ w \notin Working /\ Working \subseteq Workers
    BY <2>2, <2>3, <2>4 DEF Working
  <2>6. RoundType'
    BY <2>1, <2>2, <2>3, <2>4, <2>5 DEF RoundType
  <2>7. OneRoundPerTask'
    <3>1. \A u, v \in Working : round[u].task = round[v].task => u = v
      BY DEF RoundInv, OneRoundPerTask
    <3>2. \A v \in Working : round'[v] = round[v] /\ round[v].task # b.task
      BY <2>1, <2>4, <2>5 DEF RoundInv
    <3> QED BY <2>2, <2>4, <2>5, <3>1, <3>2 DEF OneRoundPerTask
  <2>8. \A v \in Working' : round'[v].task \in inflight'
    BY <2>2, <2>3, <2>4, <2>5 DEF RoundInv
  <2> QED BY <2>2, <2>3, <2>4, <2>6, <2>7, <2>8 DEF RoundInv
<1>6. ASSUME NEW w \in Workers,
             \/ Begin(w) \/ Check(w) \/ Prepare(w) \/ LaunchOk(w) \/ LaunchLost(w)
             \/ LaunchRefused(w) \/ Defer(w) \/ Record(w) \/ Deadline(w)
      PROVE  RoundType' /\ RoundInv'
  <2>1. PICK r \in Rounds : Continues(w, r)
    BY <1>6, RoundContinues
  <2>2. row' = row \/ (Exists(round[w].task) /\ row' = Updated(round[w].task, round[w].result))
    <3>1. CASE Record(w)
      BY <3>1 DEF Record, WriteFails
    <3>2. CASE Defer(w)
      BY <3>2 DEF Defer, WriteFails
    <3> QED
      BY <1>6, <3>1, <3>2 DEF Begin, Check, Prepare, LaunchOk, LaunchLost, LaunchRefused, Deadline
  <2>3. round[w].task \in Tasks /\ round[w].result \in Results
    BY <2>1 DEF RoundType, Continues, Working, Rounds
  <2>4. row' \in [Tasks -> R]
    BY <2>2, <2>3, RowsTyped DEF RoundType
  <2>5. batch' = batch /\ built' \in [Tasks -> 0..MaxBuilt]
    BY <2>1 DEF Continues
  <2>6. round' \in [Workers -> Rounds] /\ (\A v \in Working' : round'[v].task \in Tasks) /\ RoundInv'
    BY <2>1, ContinueInv
  <2>7. due' \subseteq Tasks
    BY <1>6 DEF RoundType, Begin, Check, Prepare, LaunchOk, LaunchLost, LaunchRefused, Defer, Record,
                Deadline, WriteFails, Leave
  <2> QED BY <2>4, <2>5, <2>6, <2>7 DEF RoundType
<1>7. ASSUME NEW w \in Workers, Release(w) PROVE RoundType' /\ RoundInv'
  <2>1. round' = [round EXCEPT ![w] = Idle] /\ inflight' = inflight \ {round[w].task}
        /\ round[w].at = "release" /\ UNCHANGED <<row, due, batch, built>>
    BY <1>7 DEF Release, Becomes
  <2>2. round' \in [Workers -> Rounds] /\ round'[w] = Idle /\ \A v \in Workers : v # w => round'[v] = round[v]
    BY <2>1, IdleType DEF RoundType
  <2>3. Working' = Working \ {w} /\ w \in Working /\ Working \subseteq Workers
    BY <2>1, <2>2, IdleType DEF Working
  <2>4. \A v \in Working' : round'[v].task \in inflight'
    BY <2>1, <2>2, <2>3 DEF RoundInv, OneRoundPerTask
  <2>5. OneRoundPerTask'
    <3>1. \A u, v \in Working : round[u].task = round[v].task => u = v
      BY DEF RoundInv, OneRoundPerTask
    <3>2. \A v \in Working' : v \in Working /\ round'[v] = round[v]
      BY <2>2, <2>3
    <3> QED BY <3>1, <3>2 DEF OneRoundPerTask
  <2>6. RoundType'
    BY <2>1, <2>2, <2>3 DEF RoundType
  <2>7. \A v \in Workers : Sound(round'[v], built'[round'[v].task])
    BY <2>1, <2>2, IdleType DEF RoundInv, Sound
  <2> QED BY <2>4, <2>5, <2>6, <2>7 DEF RoundInv, Sound
<1>8. ASSUME NEW a \in Accounts, ThrottleOver(a) PROVE RoundType' /\ RoundInv'
  BY <1>1, <1>8 DEF RoundType, ThrottleOver
<1>9. ASSUME Crash PROVE RoundType' /\ RoundInv'
  <2>1. round' = [w \in Workers |-> Idle] /\ batch' = {} /\ UNCHANGED <<row, due, built>>
    BY <1>9 DEF Crash
  <2>2. Working' = {} /\ round' \in [Workers -> Rounds] /\ \A w \in Workers : round'[w] = Idle
    BY <2>1, IdleType DEF Working
  <2> QED BY <2>1, <2>2, IdleType DEF RoundType, RoundInv, OneRoundPerTask
<1>10. ASSUME UNCHANGED vars PROVE RoundType' /\ RoundInv'
  BY <1>1, <1>10 DEF RoundType, vars
<1> QED
  BY <1>2, <1>3, <1>4, <1>5, <1>6, <1>7, <1>8, <1>9, <1>10 DEF Next, Tick, RoundStep

\* What else TypeOK says: the tables, the order of the due tasks, the bounds.
TablesType ==
    /\ older \subseteq due \X due
    /\ held \subseteq Tasks /\ counted \subseteq Tasks /\ inflight \subseteq Tasks
    /\ used \in [DOMAIN Budget -> Nat]

LEMMA TablesStep == RoundType /\ TablesType /\ [Next]_vars => TablesType'
<1> SUFFICES ASSUME RoundType, TablesType, [Next]_vars PROVE TablesType'
  OBVIOUS
<1>1. \A b \in DOMAIN Budget : Use(b) => used' \in [DOMAIN Budget -> Nat]
  BY DEF Use, TablesType
<1>2. /\ "requests" \in DOMAIN Budget /\ "late" \in DOMAIN Budget /\ "lost" \in DOMAIN Budget
      /\ "faults" \in DOMAIN Budget /\ "crashes" \in DOMAIN Budget
  BY DEF Budget
<1>3. \A ts : Leave(ts) => older' \subseteq due' \X due'
  BY DEF Leave, TablesType
<1>4. \A t : Arrive(t) => older' \subseteq due' \X due'
  BY DEF Arrive, TablesType
<1>5. ASSUME UNCHANGED <<due, older>> PROVE older' \subseteq due' \X due'
  BY <1>5 DEF TablesType
<1>6. ASSUME NEW t \in Tasks, Request(t) \/ Elapse(t) PROVE TablesType'
  <2>1. older' \subseteq due' \X due'
    BY <1>3, <1>4, <1>5, <1>6 DEF Request, CountActive, Create, Pause, Resume, Delete, Elapse
  <2>2. used' \in [DOMAIN Budget -> Nat]
    BY <1>1, <1>2, <1>6 DEF Request, CountActive, Create, Pause, Resume, Delete, Elapse, TablesType
  <2>3. held' \subseteq Tasks /\ counted' \subseteq Tasks /\ inflight' \subseteq Tasks
    BY <1>6 DEF Request, CountActive, Create, Pause, Resume, Delete, Elapse, TablesType
  <2> QED BY <2>1, <2>2, <2>3 DEF TablesType
<1>7. ASSUME Tick PROVE TablesType'
  <2>1. UNCHANGED <<due, older, held, counted, used>>
    BY <1>7 DEF Tick, TickRead, TickSkip, TickStart
  <2>2. inflight' \subseteq Tasks
    <3>1. inflight' = inflight \/ \E b \in batch : inflight' = inflight \cup {b.task}
      BY <1>7 DEF Tick, TickRead, TickSkip, TickStart
    <3>2. \A b \in batch : b.task \in Tasks
      BY DEF RoundType
    <3> QED BY <3>1, <3>2 DEF TablesType
  <2> QED BY <1>5, <2>1, <2>2 DEF TablesType
<1>8. ASSUME NEW w \in Workers, RoundStep(w) \/ Deadline(w) PROVE TablesType'
  <2>1. inflight' \subseteq Tasks /\ counted' = counted
    BY <1>8 DEF RoundStep, Begin, Check, Prepare, LaunchOk, LaunchLost, LaunchRefused, Defer, Record,
                Release, Deadline, TablesType
  <2>2. used' \in [DOMAIN Budget -> Nat]
    <3>1. WriteFails(w) => used' \in [DOMAIN Budget -> Nat]
      BY <1>1, <1>2 DEF WriteFails, TablesType
    <3> QED BY <1>1, <1>2, <1>8, <3>1
            DEF RoundStep, Begin, Check, Prepare, LaunchOk, LaunchLost, LaunchRefused, Defer, Record,
                Release, Deadline, TablesType
  <2>3. older' \subseteq due' \X due'
    <3>1. WriteFails(w) => older' \subseteq due' \X due'
      BY <1>5 DEF WriteFails
    <3> QED BY <1>3, <1>5, <1>8, <3>1
            DEF RoundStep, Begin, Check, Prepare, LaunchOk, LaunchLost, LaunchRefused, Defer, Record,
                Release, Deadline
  <2>4. held' \subseteq Tasks
    <3>1. CASE Record(w)
      <4>1. round[w].task \in Tasks
        BY <3>1 DEF Record, RoundType, Working
      <4> QED BY <3>1, <4>1 DEF Record, WriteFails, TablesType
    <3>2. CASE Defer(w)
      BY <3>2 DEF Defer, WriteFails, Active, TablesType
    <3> QED BY <1>8, <3>1, <3>2
            DEF RoundStep, Begin, Check, Prepare, LaunchOk, LaunchLost, LaunchRefused, Release,
                Deadline, TablesType
  <2> QED BY <2>1, <2>2, <2>3, <2>4 DEF TablesType
<1>9. ASSUME NEW a \in Accounts, ThrottleOver(a) PROVE TablesType'
  BY <1>5, <1>9 DEF ThrottleOver, TablesType
<1>10. ASSUME Crash PROVE TablesType'
  BY <1>1, <1>2, <1>5, <1>10 DEF Crash, TablesType
<1>11. ASSUME UNCHANGED vars PROVE TablesType'
  BY <1>5, <1>11 DEF vars, TablesType
<1> QED BY <1>6, <1>7, <1>8, <1>9, <1>10, <1>11 DEF Next

\* The rounds are typed and sound in every reachable state (RoundInv).
THEOREM RoundsInductive == Spec => [](RoundType /\ RoundInv)
<1>1. Init => RoundType /\ RoundInv
  <2> SUFFICES ASSUME Init PROVE RoundType /\ RoundInv
    OBVIOUS
  <2>1. round \in [Workers -> Rounds] /\ Working = {} /\ \A w \in Workers : round[w] = Idle
    BY IdleType DEF Init, Working
  <2>2. row \in [Tasks -> [state : States, attempts : 0..Enough, named : BOOLEAN]]
    BY EnoughNat DEF Init, States
  <2>3. built \in [Tasks -> 0..MaxBuilt] /\ batch = {} /\ due = {}
    BY NumbersAssumption DEF Init
  <2> QED BY <2>1, <2>2, <2>3, IdleType DEF RoundType, RoundInv, OneRoundPerTask
<1> QED BY <1>1, RoundsStep, PTL DEF Spec

\* The tables, the rounds and the bounds keep their types (TypeOK).
THEOREM HuntTypes == Spec => []TypeOK
<1>1. Init => TablesType
  BY DEF Init, TablesType
<1>2. RoundType /\ TablesType => TypeOK
  BY DEF RoundType, TablesType, TypeOK
<1> QED BY <1>1, <1>2, TablesStep, RoundsInductive, PTL DEF Spec

\* Two rounds of one task never overlap (OneRoundPerTask), for any number of
\* tasks, rounds, ticks and crashes.
THEOREM RoundsExclusive == Spec => []OneRoundPerTask
<1>1. RoundInv => OneRoundPerTask
  BY DEF RoundInv
<1> QED BY <1>1, RoundsInductive, PTL

\* A round that has looked for an instance and found none is the only one that
\* can create it (CheckedLaunchIsSafe).
THEOREM CheckedLaunch == Spec => []CheckedLaunchIsSafe
<1>1. RoundInv => CheckedLaunchIsSafe
  BY DEF RoundInv, CheckedLaunchIsSafe
<1> QED BY <1>1, RoundsInductive, PTL

\* What SuccessNamesInstance and PauseHolds rest on: a round only reports success
\* when an instance carries the tag of its task, and a request that is between
\* its check and its INSERT has no row yet.
SuccessInv ==
    /\ SuccessNamesInstance
    /\ \A w \in Workers : round[w].result = "succeeded" => round[w].at # "idle" /\ built[round[w].task] > 0
    /\ \A t \in counted : row[t].state = "none"

\* The step of one round: what it claims is true, and no instance goes away.
LEMMA ClaimIsTrue ==
  ASSUME RoundType, RoundInv, SuccessInv, NEW w \in Workers, RoundStep(w) \/ Deadline(w)
  PROVE  /\ \A t \in Tasks : built'[t] \in Nat /\ built'[t] >= built[t] /\ built[t] \in Nat
         /\ \A v \in Workers : v # w => round'[v] = round[v]
         /\ round'[w].result = "succeeded" => round'[w].at # "idle" /\ built'[round'[w].task] > 0
<1>0. round \in [Workers -> Rounds] /\ round[w] \in Rounds /\ built \in [Tasks -> 0..MaxBuilt]
  BY DEF RoundType
<1>1. round[w].at # "idle" /\ round[w].task \in Tasks
  BY DEF RoundType, Working, RoundStep, Begin, Check, Prepare, LaunchOk, LaunchLost, LaunchRefused,
         Defer, Record, Release, Deadline
<1>2. built' = built \/ built' = [built EXCEPT ![round[w].task] = @ + 1]
  BY DEF RoundStep, Begin, Check, Prepare, LaunchOk, LaunchLost, LaunchRefused, Defer, Record,
         Release, Deadline
<1>3. \A t \in Tasks : built'[t] \in Nat /\ built'[t] >= built[t] /\ built[t] \in Nat
  BY <1>0, <1>1, <1>2, NumbersAssumption
<1>4. CASE Release(w)
  <2>1. round' = [round EXCEPT ![w] = Idle] /\ Idle.result = "none"
    BY <1>4 DEF Release, Becomes, Idle
  <2> QED BY <1>0, <1>3, <2>1
<1>5. CASE ~Release(w)
  <2>1. PICK r \in Rounds : Continues(w, r)
    BY <1>5, RoundContinues DEF RoundStep
  <2>2. /\ round'[w] = r /\ r.at # "idle" /\ r.task = round[w].task
        /\ \A v \in Workers : v # w => round'[v] = round[v]
    BY <1>0, <2>1 DEF Continues, Becomes
  \* What r claims was claimed before, or is known since this step.
  <2>3. ASSUME r.result = "succeeded" PROVE built'[round[w].task] > 0
    <3>1. CASE round[w].result = "succeeded"
      BY <1>1, <1>3, <3>1 DEF SuccessInv
    <3>2. CASE round[w].result # "succeeded"
      <4>1. ASSUME NEW result \in Results, Ends(w, result) \/ Concludes(w, result)
            PROVE  result = "succeeded"
        <5>1. CASE Ends(w, result)
          <6>1. r = [round[w] EXCEPT !.at = "record", !.result = result]
            BY <1>0, <2>2, <5>1 DEF Ends, Becomes
          <6> QED BY <1>0, <2>3, <6>1 DEF Rounds
        <5>2. CASE Concludes(w, result)
          <6>1. r = [round[w] EXCEPT !.at = "record", !.refusal = "none", !.result = result]
            BY <1>0, <2>2, <5>2 DEF Concludes, Becomes
          <6> QED BY <1>0, <2>3, <6>1 DEF Rounds
        <5> QED BY <4>1, <5>1, <5>2
      <4>2. ASSUME NEW refusal, NEW next \in {"defer", "record"}, RetryOr(w, refusal, next)
            PROVE  FALSE
        <5> DEFINE s == [round[w] EXCEPT !.refusal = refusal]
        <5>1. /\ s.result = round[w].result
              /\ [s EXCEPT !.tries = @ + 1].result = round[w].result
              /\ \A place, result : [s EXCEPT !.at = place, !.result = result].result = result
          BY <1>0 DEF Rounds
        <5>2. \/ r = [s EXCEPT !.tries = @ + 1]
              \/ r = [s EXCEPT !.at = next, !.result = IF next = "defer" THEN "rest" ELSE "later"]
          BY <1>0, <2>2, <4>2 DEF RetryOr, Becomes
        <5> HIDE DEF s
        <5> QED BY <2>3, <3>2, <5>1, <5>2
      <4>3. {"later", "failed", "succeeded"} \subseteq Results
        BY DEF Results
      <4>4. CASE LaunchOk(w)
        BY <1>0, <1>1, <4>4, NumbersAssumption DEF LaunchOk
      <4>5. CASE Check(w)
        <5>1. CASE Ends(w, "succeeded") /\ built[round[w].task] > 0
          BY <1>1, <1>3, <5>1
        <5>2. CASE Becomes(w, [round[w] EXCEPT !.at = "prepare", !.checked = TRUE])
          BY <1>0, <2>2, <2>3, <3>2, <5>2 DEF Becomes, Rounds
        <5>3. CASE Becomes(w, [round[w] EXCEPT !.at = "prepare"])
          BY <1>0, <2>2, <2>3, <3>2, <5>3 DEF Becomes, Rounds
        <5> QED BY <4>5, <5>1, <5>2, <5>3 DEF Check
      <4>6. CASE LaunchLost(w)
        BY <4>2, <4>6 DEF LaunchLost
      <4>7. CASE LaunchRefused(w)
        BY <4>1, <4>2, <4>3, <4>7 DEF LaunchRefused
      <4>8. CASE Begin(w) \/ Prepare(w)
        <5>1. CASE Ends(w, "failed") \/ Ends(w, "later")
          BY <4>1, <4>3, <5>1
        <5>2. CASE \E place : Becomes(w, [round[w] EXCEPT !.at = place])
          BY <1>0, <2>2, <2>3, <3>2, <5>2 DEF Becomes, Rounds
        <5> QED BY <4>8, <5>1, <5>2 DEF Begin, Prepare
      <4>9. CASE Defer(w) \/ Record(w) \/ Deadline(w)
        BY <1>0, <2>2, <2>3, <3>2, <4>9 DEF Defer, Record, Deadline, Becomes, Rounds
      <4> QED BY <1>5, <4>4, <4>5, <4>6, <4>7, <4>8, <4>9 DEF RoundStep
    <3> QED BY <3>1, <3>2
  <2> QED BY <1>3, <2>2, <2>3
<1> QED BY <1>4, <1>5

\* Rows and claims stay true in every step.
LEMMA SuccessStep == TypeOK /\ RoundType /\ RoundInv /\ SuccessInv /\ [Next]_vars => SuccessInv'
<1> SUFFICES ASSUME TypeOK, RoundType, RoundInv, SuccessInv, [Next]_vars PROVE SuccessInv'
  OBVIOUS
<1>0. counted \subseteq Tasks /\ \A t \in Tasks : row[t] \in [state : States, attempts : 0..Enough, named : BOOLEAN]
  BY DEF TypeOK
<1>1. ASSUME NEW t \in Tasks, Request(t) \/ Elapse(t) PROVE SuccessInv'
  <2>1. UNCHANGED <<round, built>>
    BY <1>1 DEF Request, CountActive, Create, Pause, Resume, Delete, Elapse
  <2>2. row' = row \/ \E s \in {"running", "paused", "deleted"} : row' = [row EXCEPT ![t].state = s]
    BY <1>1 DEF Request, CountActive, Create, Pause, Resume, Delete, Elapse
  <2>3. SuccessNamesInstance'
    BY <2>1, <2>2 DEF SuccessInv, SuccessNamesInstance, TypeOK
  <2>4. \A u \in counted' : row'[u].state = "none"
    BY <1>0, <1>1 DEF SuccessInv, TypeOK, Exists, Request, CountActive, Create, Pause, Resume, Delete, Elapse
  <2> QED BY <2>1, <2>3, <2>4 DEF SuccessInv
<1>2. ASSUME TickRead \/ (\E b \in batch : TickSkip(b)) \/ \E a \in Accounts : ThrottleOver(a)
      PROVE  SuccessInv'
  BY <1>2 DEF SuccessInv, SuccessNamesInstance, TickRead, TickSkip, ThrottleOver
<1>3. ASSUME NEW b \in batch, NEW w \in Workers, TickStart(w, b) PROVE SuccessInv'
  <2>1. /\ UNCHANGED <<row, built, counted>>
        /\ round' = [round EXCEPT ![w] = [Idle EXCEPT !.at = "begin", !.task = b.task, !.attempts = b.attempts]]
    BY <1>3 DEF TickStart
  <2>2. \A v \in Workers : round'[v] = round[v] \/ round'[v].result = "none"
    BY <2>1 DEF RoundType, Idle
  <2> QED BY <2>1, <2>2 DEF SuccessInv, SuccessNamesInstance
<1>4. ASSUME NEW w \in Workers, RoundStep(w) \/ Deadline(w) PROVE SuccessInv'
  <2>1. /\ \A t \in Tasks : built'[t] \in Nat /\ built'[t] >= built[t] /\ built[t] \in Nat
        /\ \A v \in Workers : v # w => round'[v] = round[v]
        /\ round'[w].result = "succeeded" => round'[w].at # "idle" /\ built'[round'[w].task] > 0
    BY <1>4, ClaimIsTrue
  <2>2. counted' = counted
    BY <1>4 DEF RoundStep, Begin, Check, Prepare, LaunchOk, LaunchLost, LaunchRefused, Defer, Record,
                Release, Deadline, WriteFails
  <2>3. \/ row' = row
        \/ /\ Record(w) /\ Exists(round[w].task)
           /\ row' = Updated(round[w].task, round[w].result) /\ round[w].at = "record"
    BY <1>4 DEF RoundStep, Begin, Check, Prepare, LaunchOk, LaunchLost, LaunchRefused, Defer, Record,
                Release, Deadline, WriteFails
  <2>4. \A v \in Workers : round'[v].result = "succeeded" => round'[v].at # "idle" /\ built'[round'[v].task] > 0
    <3> SUFFICES ASSUME NEW v \in Workers, v # w, round[v].result = "succeeded"
                 PROVE  round[v].at # "idle" /\ built'[round[v].task] > 0
      BY <2>1
    <3>1. round[v].at # "idle" /\ built[round[v].task] > 0
      BY DEF SuccessInv
    <3>2. round[v].task \in Tasks
      BY <3>1 DEF RoundType, Working
    <3> QED BY <2>1, <3>1, <3>2
  <2>5. CASE row' = row
    BY <2>1, <2>2, <2>4, <2>5 DEF SuccessInv, SuccessNamesInstance
  <2>6. CASE /\ Exists(round[w].task) /\ round[w].at = "record"
             /\ row' = Updated(round[w].task, round[w].result)
    <3> DEFINE t == round[w].task
    <3>1. t \in Tasks
      BY <2>6 DEF RoundType, Working
    <3>2. /\ \A u \in Tasks : u # t => row'[u] = row[u]
          /\ row'[t].state = IF round[w].result \in {"failed", "succeeded"} THEN round[w].result
                             ELSE row[t].state
          /\ row[t].named \/ round[w].result = "succeeded" => row'[t].named
      BY <1>0, <2>6, <3>1 DEF Updated, TypeOK
    <3> HIDE DEF t
    <3>3. SuccessNamesInstance'
      <4> SUFFICES ASSUME NEW u \in Tasks, row'[u].state = "succeeded"
                   PROVE  row'[u].named /\ built'[u] > 0
        BY DEF SuccessNamesInstance
      <4>1. CASE u # t \/ round[w].result # "succeeded"
        <5>1. row[u].state = "succeeded" /\ (row[u].named => row'[u].named)
          BY <3>2, <4>1
        <5>2. row[u].named /\ built[u] > 0
          BY <5>1 DEF SuccessInv, SuccessNamesInstance
        <5> QED BY <2>1, <5>1, <5>2
      <4>2. CASE u = t /\ round[w].result = "succeeded"
        <5>1. built[t] > 0
          BY <4>2 DEF SuccessInv, t
        <5> QED BY <2>1, <3>1, <3>2, <4>2, <5>1
      <4> QED BY <4>1, <4>2
    <3>4. \A u \in counted' : row'[u].state = "none"
      BY <1>0, <2>2, <2>6, <3>2 DEF SuccessInv, Exists, t
    <3> QED BY <2>4, <3>3, <3>4 DEF SuccessInv
  <2> QED BY <2>3, <2>5, <2>6
<1>5. ASSUME Crash PROVE SuccessInv'
  BY <1>5 DEF Crash, Idle, SuccessInv, SuccessNamesInstance
<1>6. ASSUME UNCHANGED vars PROVE SuccessInv'
  BY <1>6 DEF vars, SuccessInv, SuccessNamesInstance
<1> QED BY <1>1, <1>2, <1>3, <1>4, <1>5, <1>6 DEF Next, Tick

LEMMA SuccessAlways == Spec => []SuccessInv
<1>1. Init => SuccessInv
  BY DEF Init, SuccessInv, SuccessNamesInstance, Idle
<1> QED BY <1>1, SuccessStep, HuntTypes, RoundsInductive, PTL DEF Spec

\* A task that is recorded as succeeded names an instance that was created
\* (SuccessNamesInstance), whatever the deadlines, lost answers and crashes.
THEOREM SuccessHasInstance == Spec => []SuccessNamesInstance
<1>1. SuccessInv => SuccessNamesInstance
  BY DEF SuccessInv
<1> QED BY <1>1, SuccessAlways, PTL

\* Only the user's request sets a paused task running (PauseHolds): the result of
\* the round that was under way does not.
THEOREM PausedUntilResumed == Spec => PauseHolds
<1>1. TypeOK /\ RoundType /\ SuccessInv /\ [Next]_vars =>
        [\A t \in Tasks : row[t].state = "paused" /\ row'[t].state = "running" => Resume(t)]_vars
  <2> SUFFICES ASSUME TypeOK, RoundType, SuccessInv, Next, NEW t \in Tasks,
                      row[t].state = "paused", row'[t].state = "running"
               PROVE  Resume(t)
    OBVIOUS
  <2>1. ASSUME NEW u \in Tasks, Request(u) \/ Elapse(u) PROVE Resume(t)
    <3>1. t \notin counted
      BY DEF SuccessInv
    <3> QED
      BY <2>1, <3>1 DEF TypeOK, Request, CountActive, Create, Pause, Resume, Delete, Elapse
  <2>2. ASSUME Tick \/ Crash \/ \E a \in Accounts : ThrottleOver(a) PROVE FALSE
    BY <2>2 DEF Tick, TickRead, TickSkip, TickStart, Crash, ThrottleOver
  <2>3. ASSUME NEW w \in Workers, RoundStep(w) \/ Deadline(w) PROVE FALSE
    <3>1. row' = row \/ row' = Updated(round[w].task, round[w].result)
      BY <2>3 DEF RoundStep, Begin, Check, Prepare, LaunchOk, LaunchLost, LaunchRefused, Defer, Record,
                  Release, Deadline, WriteFails
    <3>2. row'[t].state = row[t].state \/ row'[t].state \in {"failed", "succeeded"}
      BY <3>1 DEF Updated, TypeOK
    <3> QED BY <3>2
  <2> QED BY <2>1, <2>2, <2>3 DEF Next
<1> QED BY <1>1, SuccessAlways, HuntTypes, RoundsInductive, PTL DEF Spec, PauseHolds
=============================================================================
