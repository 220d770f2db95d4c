------------------------- MODULE JobProgressProofs -------------------------
(***************************************************************************)
(* Proofs about the reports of a running job: its last save is complete,   *)
(* whatever the reporters' saves did to each other before.                 *)
(***************************************************************************)
EXTENDS JobProgress, TLAPS, FiniteSetTheorems

\* What reading and writing the fields of a job does.
LEMMA Fields ==
  ASSUME NEW j \in JobRecords
  PROVE  /\ j.progress \in Percent
         /\ \A p \in Percent : [j EXCEPT !.progress = p] \in JobRecords
         /\ \A p \in Percent : [j EXCEPT !.progress = p].progress = p
         /\ \A s \in SUBSET (Reporters \X Nat) :
               /\ [j EXCEPT !.steps = s] \in JobRecords
               /\ [j EXCEPT !.steps = s].progress = j.progress
         /\ [j EXCEPT !.instance = NewInstance] \in JobRecords
         /\ [j EXCEPT !.instance = NewInstance].progress = j.progress
         /\ \A i : [j EXCEPT !.instance = i].instance = i
BY DEF JobRecords

\* finish gives the job a final status and never lowers its progress.
LEMMA FinishFields ==
  ASSUME TypeOK, NEW status \in {"succeeded", "failed"}, Finish(status)
  PROVE  job' \in JobRecords /\ job'.progress >= job.progress
<1> DEFINE reached == IF status = "succeeded" THEN 100 ELSE job.progress
<1>1. job \in JobRecords /\ job.progress \in Percent
  BY Fields DEF TypeOK
<1>2. reached \in Percent /\ reached >= job.progress
  BY <1>1 DEF Percent
<1>3. job' = [job EXCEPT !.status = status, !.progress = reached]
  BY DEF Finish
<1> HIDE DEF reached
<1>4. job' \in JobRecords /\ job'.progress = reached
  BY <1>1, <1>2, <1>3 DEF JobRecords
<1> QED BY <1>2, <1>4

\* Set never lowers the progress either.
LEMMA SetFields ==
  ASSUME TypeOK, NEW r \in Reporters, Set(r)
  PROVE  job' \in JobRecords /\ job'.progress >= job.progress
<1> DEFINE p == IF percent[r] > 99 THEN 99 ELSE percent[r]
<1>1. job \in JobRecords /\ job.progress \in Percent /\ percent[r] \in Nat
  BY Fields DEF TypeOK
<1>2. p \in Percent
  BY <1>1 DEF Percent
<1>3. (p > job.progress /\ job' = [job EXCEPT !.progress = p]) \/ job' = job
  BY DEF Set
<1> HIDE DEF p
<1>4. CASE p > job.progress /\ job' = [job EXCEPT !.progress = p]
  <2>1. job' \in JobRecords
    BY <1>1, <1>2, <1>4, Fields
  <2>2. job'.progress = p
    BY <1>1, <1>2, <1>4, Fields
  <2> QED BY <1>1, <1>2, <1>4, <2>1, <2>2 DEF Percent
<1>5. CASE job' = job
  BY <1>1, <1>5 DEF Percent
<1> QED BY <1>3, <1>4, <1>5

\* A call that returns leaves the places and the counters of the right kind.
LEMMA ReturnType ==
  ASSUME TypeOK, NEW r \in Reporters, CallReturns(r)
  PROVE  pc' \in [Threads -> Places] /\ at' \in [Reporters -> Nat]
BY DEF TypeOK, CallReturns, Goto, Places, Reporting, Threads

\* Every action preserves the type invariant.
LEMMA TypeStep == TypeOK /\ [Next]_vars => TypeOK'
<1> SUFFICES ASSUME TypeOK, [Next]_vars PROVE TypeOK'
  OBVIOUS
<1>script. script' = script
  BY DEF Next, Report, Save, Enter, Step, Draw, Set, SetInstance, Snapshot, Write, Publish, Finish, vars
<1> USE <1>script DEF Goto
<1>0. \A r \in Reporters : r \in Threads
  BY DEF Threads
<1>1. ASSUME NEW r \in Reporters, Enter(r) PROVE TypeOK'
  BY <1>0, <1>1 DEF TypeOK, Enter, Places, Reporting
<1>2. ASSUME NEW r \in Reporters, Step(r) PROVE TypeOK'
  <2>1. job' \in JobRecords
    BY <1>2 DEF TypeOK, Step, JobRecords
  <2> QED BY <1>0, <1>2, <2>1 DEF TypeOK, Step, Places, Reporting
<1>3. ASSUME NEW r \in Reporters, Draw(r) PROVE TypeOK'
  <2>1. Cardinality(Reporters) \in Nat \ {0}
    BY ReportersAssumption, FS_CardinalityType, FS_EmptySet
  <2>2. (Share * (done + 1)) \in Nat
    BY NumbersAssumption DEF TypeOK
  <2>3. \A a \in Nat, b \in Nat \ {0} : a \div b \in Nat
    OBVIOUS
  <2>4. percent' \in [Reporters -> Nat]
    BY <1>3, <2>1, <2>2, <2>3 DEF TypeOK, Draw
  <2> QED BY <1>0, <1>3, <2>4 DEF TypeOK, Draw, Places, Reporting
<1>4. ASSUME NEW r \in Reporters, Set(r) PROVE TypeOK'
  <2>1. job' \in JobRecords
    BY <1>4, SetFields
  <2>2. pc' \in [Threads -> Places] /\ at' \in [Reporters -> Nat]
    BY <1>0, <1>4, ReturnType DEF TypeOK, Set, Places, Reporting
  <2> QED BY <1>4, <2>1, <2>2 DEF TypeOK, Set
<1>5. ASSUME NEW r \in Reporters, SetInstance(r) PROVE TypeOK'
  <2>1. job' \in JobRecords
    BY <1>5 DEF TypeOK, SetInstance, JobRecords
  <2> QED BY <1>0, <1>5, <2>1 DEF TypeOK, SetInstance, Places, Reporting
<1>6. ASSUME NEW t \in Threads, Snapshot(t) PROVE TypeOK'
  BY <1>6 DEF TypeOK, Snapshot, Places, Reporting
<1>7. ASSUME NEW t \in Threads, Write(t) PROVE TypeOK'
  <2>1. row' \in JobRecords
    BY <1>7 DEF TypeOK, Write, Saved, JobRecords
  <2>2. lost' \subseteq Threads /\ faults' \in 0..MaxFaults
    BY <1>7, NumbersAssumption DEF TypeOK, Write
  <2> QED BY <1>7, <2>1, <2>2 DEF TypeOK, Write, Places, Reporting
<1>8. ASSUME NEW t \in Threads, Publish(t) PROVE TypeOK'
  <2>1. pc' \in [Threads -> Places] /\ at' \in [Reporters -> Nat]
    BY <1>8, ReturnType DEF TypeOK, Publish, Threads, Places
  <2> QED BY <1>8, <2>1 DEF TypeOK, Publish
<1>9. ASSUME NEW status \in {"succeeded", "failed"}, Finish(status) PROVE TypeOK'
  <2>1. job' \in JobRecords
    BY <1>9, FinishFields
  <2> QED BY <1>9, <2>1 DEF TypeOK, Finish, Places, Reporting, Threads
<1>10. ASSUME UNCHANGED vars PROVE TypeOK'
  BY <1>10 DEF TypeOK, vars
<1> QED
  BY <1>1, <1>2, <1>3, <1>4, <1>5, <1>6, <1>7, <1>8, <1>9, <1>10 DEF Next, Report, Save

\* The type invariant of the reports.
THEOREM ProgressTypes == Spec => []TypeOK
<1>1. Init => TypeOK
  BY NumbersAssumption DEF Init, TypeOK, Started, JobRecords, Percent, Places, Reporting
<1> QED BY <1>1, TypeStep, PTL DEF Spec

\* Once run has called finish nobody reports, and its save is the last word.
LEMMA FinalStep == TypeOK /\ FinalInv /\ [Next]_vars => FinalInv'
<1> SUFFICES ASSUME TypeOK, FinalInv, [Next]_vars PROVE FinalInv'
  OBVIOUS
<1>0. \A r \in Reporters : r \in Threads /\ r # Body
  BY ReportersAssumption DEF Threads
<1>1. ASSUME NEW r \in Reporters, Report(r) \/ Save(r) PROVE FinalInv'
  <2>1. pc[r] # "end" /\ pc[Body] = "waiting"
    BY <1>1 DEF FinalInv, Report, Save, Enter, Step, Draw, Set, SetInstance, Calling, Snapshot, Write, Publish
  <2>2. \E place : pc' = [pc EXCEPT ![r] = place]
    BY <1>0, <1>1 DEF Report, Save, Enter, Step, Draw, Set, SetInstance, Snapshot, Write, Publish, CallReturns, Goto
  <2>3. pc'[Body] = pc[Body]
    BY <1>0, <2>2 DEF TypeOK, Threads
  <2> QED BY <2>1, <2>3 DEF FinalInv
<1>2. ASSUME Snapshot(Body) PROVE FinalInv'
  BY <1>0, <1>2 DEF FinalInv, TypeOK, Snapshot, Goto, Threads
<1>3. ASSUME Write(Body) PROVE FinalInv'
  <2>1. pc' = [pc EXCEPT ![Body] = "publish"] /\ snap[Body] = job /\ UNCHANGED <<job, shown, snap>>
    BY <1>3 DEF FinalInv, Write, Goto
  <2>2. Body \notin lost' => row' = [job EXCEPT !.instance = row.instance]
    BY <1>3, <2>1 DEF Write, Saved
  <2>3. row.instance = row'.instance
    <3>1. row' = row \/ row' = [snap[Body] EXCEPT !.instance = row.instance]
      BY <1>3 DEF Write, Saved
    <3>2. snap[Body] \in JobRecords
      BY DEF TypeOK, Threads
    <3>3. [snap[Body] EXCEPT !.instance = row.instance].instance = row.instance
      BY <3>2, Fields
    <3> QED BY <3>1, <3>3
  <2> QED BY <1>0, <1>3, <2>1, <2>2, <2>3 DEF FinalInv, TypeOK, Write, Threads
<1>4. ASSUME Publish(Body) PROVE FinalInv'
  BY <1>0, <1>4 DEF FinalInv, TypeOK, Publish, Goto, Threads
<1>5. ASSUME NEW status \in {"succeeded", "failed"}, Finish(status) PROVE FinalInv'
  BY <1>0, <1>5 DEF FinalInv, TypeOK, Finish, Goto, Threads
<1>6. ASSUME UNCHANGED vars PROVE FinalInv'
  BY <1>6 DEF FinalInv, vars
<1> QED
  BY <1>1, <1>2, <1>3, <1>4, <1>5, <1>6 DEF Next, Save, Threads

\* The row and the open pages end with everything that was reported
\* (FinalSaveIsComplete), for any number of reporters and failing saves.
THEOREM LastSaveComplete == Spec => []FinalSaveIsComplete
<1>1. Init => FinalInv
  BY DEF Init, FinalInv, Threads
<1>2. FinalInv => FinalSaveIsComplete
  BY DEF FinalInv, FinalSaveIsComplete
<1> QED BY <1>1, <1>2, FinalStep, ProgressTypes, PTL DEF Spec

\* Progress in memory only grows (ProgressOnlyGrows).
THEOREM MemoryProgressGrows == Spec => ProgressOnlyGrows
<1>1. TypeOK /\ [Next]_vars => [job'.progress >= job.progress]_vars
  <2> SUFFICES ASSUME TypeOK, Next PROVE job'.progress >= job.progress
    OBVIOUS
  <2>0. job \in JobRecords /\ job.progress \in Percent
    BY DEF TypeOK, JobRecords
  <2>1. ASSUME NEW r \in Reporters, Report(r) PROVE job'.progress >= job.progress
    <3>1. CASE Set(r)
      BY <3>1, SetFields
    <3>2. CASE Step(r)
      BY <2>0, <3>2 DEF Step, JobRecords, Percent
    <3>3. CASE SetInstance(r)
      BY <2>0, <3>3 DEF SetInstance, JobRecords, Percent
    <3>4. CASE Enter(r) \/ Draw(r)
      <4>1. job' = job
        BY <3>4 DEF Enter, Draw
      <4> QED BY <2>0, <4>1 DEF Percent
    <3> QED BY <2>1, <3>1, <3>2, <3>3, <3>4 DEF Report
  <2>2. ASSUME NEW t \in Threads, Save(t) PROVE job'.progress >= job.progress
    BY <2>0, <2>2 DEF Save, Snapshot, Write, Publish, Percent
  <2>3. ASSUME NEW status \in {"succeeded", "failed"}, Finish(status)
        PROVE  job'.progress >= job.progress
    BY <2>3, FinishFields
  <2> QED BY <2>1, <2>2, <2>3 DEF Next
<1> QED BY <1>1, ProgressTypes, PTL DEF Spec, ProgressOnlyGrows

\* What EveryStepIsKept rests on: a reporter stands at a call of its script
\* until it has made them all, and every step it has appended is in memory.
Standing(r) ==
  /\ pc[r] = "waiting" => at[r] = 0
  /\ pc[r] \in Reporting => at[r] < Len(script[r])
  /\ pc[r] = "set" => script[r][at[r] + 1] # "step"
  /\ pc[r] = "end" => at[r] = Len(script[r])
Appended(r) ==
  \A i \in DOMAIN script[r] :
    script[r][i] = "step" /\ (i <= at[r] \/ (i = at[r] + 1 /\ pc[r] \in {"snapshot", "write", "publish"}))
      => <<r, i - 1>> \in job.steps
StepsInv == \A r \in Reporters : Standing(r) /\ Appended(r)

\* The call that a reporter has made is appended and it goes on to the next.
LEMMA ReturnKeeps ==
  ASSUME TypeOK, NEW r \in Reporters, Standing(r), Appended(r), CallReturns(r),
         pc[r] \in {"set", "publish"}, UNCHANGED script, job.steps \subseteq job'.steps
  PROVE  Standing(r)' /\ Appended(r)'
<1>1. /\ at[r] \in Nat /\ script[r] \in Seq(Calls) /\ Len(script[r]) \in Nat
      /\ DOMAIN script[r] = 1 .. Len(script[r]) /\ at[r] < Len(script[r])
  BY ScriptsAssumption DEF TypeOK, Standing, Reporting
<1>2. at'[r] = at[r] + 1 /\ pc'[r] = IF at[r] + 1 = Len(script[r]) THEN "end" ELSE "call"
  BY DEF CallReturns, Goto, TypeOK, Threads
<1>3. Standing(r)'
  BY <1>1, <1>2 DEF Standing, Reporting
<1>4. Appended(r)'
  <2> SUFFICES ASSUME NEW i \in DOMAIN script[r], script[r][i] = "step", i <= at[r] + 1
               PROVE  <<r, i - 1>> \in job'.steps
    BY <1>2 DEF Appended
  <2>1. i <= at[r] \/ (i = at[r] + 1 /\ pc[r] = "publish")
    BY <1>1 DEF Standing
  <2> QED BY <2>1 DEF Appended
<1> QED BY <1>3, <1>4

\* Every action keeps the steps that were appended and appends the one it makes.
LEMMA StepsStep == TypeOK /\ FinalInv /\ StepsInv /\ [Next]_vars => StepsInv'
<1> SUFFICES ASSUME TypeOK, FinalInv, StepsInv, [Next]_vars PROVE StepsInv'
  OBVIOUS
<1>0. /\ \A r \in Reporters : r \in Threads /\ r # Body
      /\ \A r \in Reporters : at[r] \in Nat /\ script[r] \in Seq(Calls) /\ Len(script[r]) \in Nat
  BY ReportersAssumption, ScriptsAssumption DEF TypeOK, Threads
<1>1. UNCHANGED script
  BY DEF Next, Report, Save, Enter, Step, Draw, Set, SetInstance, Snapshot, Write, Publish, Finish, vars
\* A reporter that does not move keeps what it has, whatever the others append.
<1>2. ASSUME NEW r \in Reporters, pc'[r] = pc[r], at'[r] = at[r], job.steps \subseteq job'.steps
      PROVE  Standing(r)' /\ Appended(r)'
  BY <1>1, <1>2 DEF StepsInv, Standing, Appended
<1>3. ASSUME NEW r \in Reporters,
             \A q \in Reporters : q # r => pc'[q] = pc[q] /\ at'[q] = at[q],
             Standing(r)' /\ Appended(r)', job.steps \subseteq job'.steps
      PROVE  StepsInv'
  BY <1>2, <1>3 DEF StepsInv
<1>4. ASSUME NEW r \in Reporters, Report(r) \/ Save(r)
      PROVE  \A q \in Reporters : q # r => pc'[q] = pc[q] /\ at'[q] = at[q]
  BY <1>0, <1>4
  DEF Report, Save, Enter, Step, Draw, Set, SetInstance, Snapshot, Write, Publish, CallReturns,
      Goto, TypeOK
<1>5. ASSUME NEW r \in Reporters, Enter(r) PROVE StepsInv'
  <2>1. /\ pc'[r] = IF script[r] = <<>> THEN "end" ELSE "call"
        /\ at'[r] = at[r] /\ at[r] = 0 /\ job' = job
    BY <1>0, <1>5 DEF Enter, Goto, TypeOK, StepsInv, Standing
  <2>2. Standing(r)' /\ Appended(r)'
    BY <1>0, <1>1, <2>1 DEF Standing, Appended, Reporting
  <2> QED BY <1>3, <1>4, <1>5, <2>1, <2>2 DEF Report
<1>6. ASSUME NEW r \in Reporters, Step(r) PROVE StepsInv'
  <2>1. /\ pc'[r] = "snapshot" /\ at'[r] = at[r] /\ pc[r] = "call"
        /\ job'.steps = job.steps \cup {<<r, at[r]>>}
    BY <1>0, <1>6 DEF Step, Calling, Goto, TypeOK, JobRecords
  <2>2. Standing(r)'
    BY <1>1, <2>1 DEF StepsInv, Standing, Reporting
  <2>3. Appended(r)'
    BY <1>0, <1>1, <2>1 DEF StepsInv, Appended
  <2> QED BY <1>3, <1>4, <1>6, <2>1, <2>2, <2>3 DEF Report
<1>7. ASSUME NEW r \in Reporters, Draw(r) PROVE StepsInv'
  <2>1. pc'[r] = "set" /\ at'[r] = at[r] /\ pc[r] = "call" /\ job' = job
        /\ script[r][at[r] + 1] # "step"
    BY <1>0, <1>7 DEF Draw, Calling, Goto, TypeOK
  <2>2. Standing(r)' /\ Appended(r)'
    BY <1>1, <2>1 DEF StepsInv, Standing, Appended, Reporting
  <2> QED BY <1>3, <1>4, <1>7, <2>1, <2>2 DEF Report
<1>8. ASSUME NEW r \in Reporters, Set(r) PROVE StepsInv'
  <2>1. job'.steps = job.steps
    BY <1>8 DEF Set, TypeOK, JobRecords
  <2>2. CASE CallReturns(r)
    BY <1>1, <1>3, <1>4, <1>8, <2>1, <2>2, ReturnKeeps DEF Report, Set, StepsInv
  <2>3. CASE pc'[r] = "snapshot" /\ at'[r] = at[r]
    <3>1. Standing(r)' /\ Appended(r)'
      BY <1>1, <1>8, <2>1, <2>3 DEF Set, StepsInv, Standing, Appended, Reporting
    <3> QED BY <1>3, <1>4, <1>8, <2>1, <3>1 DEF Report
  <2> QED BY <1>0, <1>8, <2>2, <2>3 DEF Set, Goto, TypeOK
<1>9. ASSUME NEW r \in Reporters, SetInstance(r) PROVE StepsInv'
  <2>1. pc'[r] = "snapshot" /\ at'[r] = at[r] /\ pc[r] = "call" /\ job'.steps = job.steps
        /\ script[r][at[r] + 1] # "step"
    BY <1>0, <1>9 DEF SetInstance, Calling, Goto, TypeOK, JobRecords
  <2>2. Standing(r)' /\ Appended(r)'
    BY <1>1, <2>1 DEF StepsInv, Standing, Appended, Reporting
  <2> QED BY <1>3, <1>4, <1>9, <2>1, <2>2 DEF Report
<1>10. ASSUME NEW r \in Reporters, Snapshot(r) \/ Write(r) PROVE StepsInv'
  <2>1. pc[r] \in {"snapshot", "write"} /\ pc'[r] \in {"write", "publish"} /\ at'[r] = at[r] /\ job' = job
    BY <1>0, <1>10 DEF Snapshot, Write, Goto, TypeOK
  <2>2. Standing(r)' /\ Appended(r)'
    BY <1>1, <2>1 DEF StepsInv, Standing, Appended, Reporting
  <2> QED BY <1>3, <1>4, <1>10, <2>1, <2>2 DEF Save
<1>11. ASSUME NEW r \in Reporters, Publish(r) PROVE StepsInv'
  <2>1. CallReturns(r) /\ pc[r] = "publish" /\ job' = job
    BY <1>0, <1>11 DEF Publish
  <2> QED BY <1>1, <1>3, <1>4, <1>11, <2>1, ReturnKeeps DEF Save, StepsInv
<1>12. ASSUME Save(Body) \/ \E status \in {"succeeded", "failed"} : Finish(status) PROVE StepsInv'
  <2>1. job'.steps = job.steps /\ at' = at
    BY <1>12 DEF Save, Snapshot, Write, Publish, Finish, TypeOK, JobRecords
  <2>2. \A r \in Reporters : pc'[r] = pc[r]
    BY <1>0, <1>12 DEF Save, Snapshot, Write, Publish, Finish, Goto, TypeOK
  <2> QED BY <1>2, <2>1, <2>2 DEF StepsInv
<1>13. ASSUME UNCHANGED vars PROVE StepsInv'
  BY <1>2, <1>13 DEF vars, StepsInv
<1> QED
  BY <1>5, <1>6, <1>7, <1>8, <1>9, <1>10, <1>11, <1>12, <1>13 DEF Next, Report, Save, Threads

\* Every step that any reporter appended is in the row at the end
\* (EveryStepIsKept), for any number of reporters, scripts and failing saves.
THEOREM StepsKept == Spec => []EveryStepIsKept
<1>1. Init => FinalInv /\ StepsInv
  <2> SUFFICES ASSUME Init PROVE FinalInv /\ StepsInv
    OBVIOUS
  <2>1. \A r \in Reporters : pc[r] = "waiting" /\ at[r] = 0
    BY DEF Init, Threads
  <2>2. \A r \in Reporters : DOMAIN script[r] = 1 .. Len(script[r])
    BY ScriptsAssumption DEF Init
  <2> QED BY <2>1, <2>2 DEF Init, FinalInv, Threads, StepsInv, Standing, Appended, Reporting
<1>2. TypeOK /\ FinalInv /\ StepsInv => EveryStepIsKept
  <2> SUFFICES ASSUME TypeOK, FinalInv, StepsInv, pc[Body] = "end", Body \notin lost,
                      NEW r \in Reporters, NEW i \in DOMAIN script[r], script[r][i] = "step"
               PROVE  <<r, i - 1>> \in row.steps
    BY DEF EveryStepIsKept
  <2>1. pc[r] = "end" /\ at[r] = Len(script[r])
    BY DEF FinalInv, StepsInv, Standing
  <2>2. i <= at[r]
    BY <2>1, ScriptsAssumption DEF TypeOK
  <2>3. <<r, i - 1>> \in job.steps
    BY <2>2 DEF StepsInv, Appended
  <2>4. row = [job EXCEPT !.instance = row.instance] /\ job \in JobRecords
    BY DEF FinalInv, TypeOK
  <2>5. row.steps = job.steps
    BY <2>4 DEF JobRecords
  <2> QED BY <2>3, <2>5
<1> QED BY <1>1, <1>2, FinalStep, StepsStep, ProgressTypes, PTL DEF Spec
=============================================================================
