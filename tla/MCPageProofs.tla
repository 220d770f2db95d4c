--------------------------- MODULE MCPageProofs -----------------------------
(***************************************************************************)
(* What the worlds of MCPage show, proved for any values of its constants: *)
(* of the jobs, that what follows a submission runs once and only after a  *)
(* success, and that a page that is connected tells of every end; of the   *)
(* session, that the page is where its session says; of the rows, that     *)
(* they catch up with the server's; of the demonstration, that an instance *)
(* never outlives its account.  The polled list, whose property is of      *)
(* liveness, is left to TLC.                                               *)
(***************************************************************************)
EXTENDS MCPage, FiniteSetTheorems, SequenceTheorems, WellFoundedInduction, TLAPS

Submitted(j) == [kind |-> "submit", job |-> j]
Listing == {a \in answers : a.kind = "list"}

\* A success that is known anywhere is one of the row, which is final.
SuccessIsOfRow ==
  /\ \A n \in DOMAIN stream : stream[n].status = "succeeded" => row[stream[n].job] = "succeeded"
  /\ \A j \in Jobs : jobs[j] = "succeeded" => row[j] = "succeeded"
  /\ \A a \in Listing, j \in Jobs : a.jobs[j] = "succeeded" => row[j] = "succeeded"

\* The answer to a submission comes once, before anything is registered for it.
AnsweredOnce ==
  \A j \in Jobs :
    /\ Submitted(j) \in answers => row[j] # "none" /\ j \notin tracked
    /\ j \in tracked => row[j] # "none"

RegisteredIsTracked == callbacks \subseteq tracked

IInv == TypeOK /\ SuccessIsOfRow /\ AnsweredOnce /\ RegisteredIsTracked /\ CallbackRunsOnce

-----------------------------------------------------------------------------
\* The three kinds of answers.
LEMMA AnswerFacts ==
  /\ \A j \in Jobs : /\ Submitted(j) \in Answers /\ Submitted(j).kind # "list"
                     /\ [kind |-> "removed", job |-> j] \in Answers
                     /\ [kind |-> "removed", job |-> j].kind = "removed"
                     /\ [kind |-> "removed", job |-> j] # Submitted(j)
                     /\ \A k \in Jobs : Submitted(k) = Submitted(j) => k = j
  /\ [kind |-> "cleared"] \in Answers /\ [kind |-> "cleared"].kind = "cleared"
  /\ \A j \in Jobs : Submitted(j).kind = "submit"
  /\ \A js \in [Jobs -> Statuses \union {"absent"}] :
       /\ [kind |-> "list", jobs |-> js] \in Answers
       /\ [kind |-> "list", jobs |-> js].kind = "list"
       /\ [kind |-> "list", jobs |-> js].jobs = js
  /\ \A a \in Answers : a.kind = "list" => a.jobs \in [Jobs -> Statuses \union {"absent"}]
BY DEF Answers, Submitted

\* Events are of jobs.
Events == [job : Jobs, status : Statuses]
LEMMA EventFacts ==
  /\ \A s \in Seq(Events) : \A n \in DOMAIN s : s[n].job \in Jobs /\ s[n].status \in Statuses
  /\ <<>> \in Seq(Events) /\ Len(<<>>) = 0 /\ DOMAIN <<>> = {}
  /\ \A s \in Seq(Events) : s # <<>> =>
       /\ Head(s) = s[1] /\ 1 \in DOMAIN s /\ Head(s) \in Events
       /\ Tail(s) \in Seq(Events) /\ Len(Tail(s)) = Len(s) - 1
       /\ \A n \in DOMAIN Tail(s) : n + 1 \in DOMAIN s /\ Tail(s)[n] = s[n + 1]
<1>1. \A s \in Seq(Events) : \A n \in DOMAIN s : s[n] \in Events
  OBVIOUS
<1>2. \A e \in Events : e.job \in Jobs /\ e.status \in Statuses
  BY DEF Events
<1>3. <<>> \in Seq(Events) /\ Len(<<>>) = 0 /\ DOMAIN <<>> = {}
  OBVIOUS
<1>4. ASSUME NEW s \in Seq(Events), s # <<>>
      PROVE  /\ Head(s) = s[1] /\ 1 \in DOMAIN s /\ Head(s) \in Events
             /\ Tail(s) \in Seq(Events) /\ Len(Tail(s)) = Len(s) - 1
             /\ \A n \in DOMAIN Tail(s) : n + 1 \in DOMAIN s /\ Tail(s)[n] = s[n + 1]
  <2>1. Len(s) \in Nat /\ Len(s) > 0 /\ DOMAIN s = 1 .. Len(s)
    BY <1>4
  <2> QED BY <1>1, <1>4, <2>1
<1> QED BY <1>1, <1>2, <1>3, <1>4

\* An event waits at the end of the buffer, or is lost.
LEMMA PublishFacts ==
  ASSUME TypeOK, NEW j \in Jobs, NEW status \in Statuses, Publish(j, status)
  PROVE  /\ stream' \in Seq(Events) /\ Len(stream') <= Buffer
         /\ lapsed' \subseteq Jobs
         /\ \A n \in DOMAIN stream' :
              \/ n \in DOMAIN stream /\ stream'[n] = stream[n]
              \/ stream'[n] = [job |-> j, status |-> status]
<1>1. stream \in Seq(Events) /\ [job |-> j, status |-> status] \in Events
  BY DEF TypeOK, Events
<1>2. CASE stream' = Append(stream, [job |-> j, status |-> status]) /\ lapsed' = lapsed /\ Len(stream) < Buffer
  <2>1. Len(stream') = Len(stream) + 1 /\ Len(stream) \in Nat
    BY <1>1, <1>2
  <2> QED BY <1>1, <1>2, <2>1, BoundsAssumption DEF TypeOK
<1>3. CASE lapsed' = lapsed \union {j} /\ stream' = stream
  BY <1>1, <1>3 DEF TypeOK
<1> QED BY <1>2, <1>3 DEF Publish

\* The end of a job is announced; its callback is taken out before it runs.
LEMMA FinishFacts ==
  ASSUME TypeOK, NEW j \in Jobs, NEW status \in Statuses, NEW registered \in SUBSET Jobs,
         finishJob(j, status, registered)
  PROVE  /\ callbacks' = registered \ {j}
         /\ told' \in [Jobs -> Nat] /\ called' \in [Jobs -> Nat]
         /\ \A k \in Jobs : k # j => called'[k] = called[k]
         /\ called'[j] = IF j \in registered /\ status = "succeeded" THEN called[j] + 1 ELSE called[j]
BY DEF finishJob, TypeOK

\* The callbacks after the end of a job that may or may not have been seen.
LEMMA FinishKeeps ==
  ASSUME IInv, NEW j \in Jobs, NEW status \in Statuses, NEW registered \in SUBSET Jobs,
         finishJob(j, status, registered),
         status = "succeeded" => row[j] = "succeeded",
         registered = callbacks \/ (registered = callbacks \union {j} /\ j \notin tracked /\ j \in tracked'),
         UNCHANGED row, tracked \subseteq tracked', callbacks \subseteq tracked
  PROVE  RegisteredIsTracked' /\ CallbackRunsOnce' /\ told' \in [Jobs -> Nat]
         /\ called' \in [Jobs -> Nat] /\ callbacks' \subseteq Jobs
<1>1. /\ callbacks' = registered \ {j}
      /\ told' \in [Jobs -> Nat] /\ called' \in [Jobs -> Nat]
      /\ \A k \in Jobs : k # j => called'[k] = called[k]
      /\ called'[j] = IF j \in registered /\ status = "succeeded" THEN called[j] + 1 ELSE called[j]
  BY FinishFacts DEF IInv
<1>2. RegisteredIsTracked'
  BY <1>1 DEF RegisteredIsTracked
<1>3. \A k \in Jobs : called[k] \in Nat
  BY DEF IInv, TypeOK
\* A job whose callback is registered, or whose answer only comes now, was not called.
<1>4. j \in registered => called[j] = 0 /\ j \in tracked'
  BY <1>3 DEF IInv, CallbackRunsOnce
<1>5. CallbackRunsOnce'
  <2> SUFFICES ASSUME NEW k \in Jobs, called'[k] > 0
               PROVE  called'[k] = 1 /\ row[k] = "succeeded" /\ k \notin callbacks' /\ k \in tracked'
    BY DEF CallbackRunsOnce
  <2>1. CASE k # j
    <3>1. called[k] > 0 /\ (k \in registered => k \in callbacks)
      BY <1>1, <2>1
    <3> QED BY <1>1, <2>1, <3>1 DEF IInv, CallbackRunsOnce
  <2>2. CASE k = j /\ j \in registered /\ status = "succeeded"
    BY <1>1, <1>4, <2>2
  <2>3. CASE k = j /\ ~(j \in registered /\ status = "succeeded")
    BY <1>1, <2>3 DEF IInv, CallbackRunsOnce
  <2> QED BY <2>1, <2>2, <2>3
<1> QED BY <1>1, <1>2, <1>5

\* What the page shows of a job after a snapshot of it.
LEMMA UpsertFacts ==
  ASSUME TypeOK, NEW j \in Jobs, NEW status \in Statuses
  PROVE  /\ upsertJob(j, status) \in Statuses
         /\ upsertJob(j, status) \in {jobs[j], status}
BY DEF upsertJob, TypeOK, isJobDone, Final, Statuses

-----------------------------------------------------------------------------
\* The server: rows get further, what is published is what they say.
LEMMA SubmitKeeps == ASSUME IInv, NEW j \in Jobs, Submit(j) PROVE IInv'
<1>0. "queued" \in Statuses
  BY DEF Statuses
<1>1. /\ row[j] = "none" /\ row' = [row EXCEPT ![j] = "queued"] /\ Publish(j, "queued")
      /\ answers' = answers \union {Submitted(j)}
      /\ UNCHANGED <<deleted, linkVars, pageVars>>
  BY DEF Submit, Submitted
<1>2. /\ stream' \in Seq(Events) /\ Len(stream') <= Buffer
      /\ lapsed' \subseteq Jobs
      /\ \A n \in DOMAIN stream' :
           \/ n \in DOMAIN stream /\ stream'[n] = stream[n]
           \/ stream'[n] = [job |-> j, status |-> "queued"]
  BY <1>0, <1>1, PublishFacts DEF IInv
<1>3. \A k \in Jobs : row'[k] = IF k = j THEN "queued" ELSE row[k]
  BY <1>1 DEF IInv, TypeOK
<1>4. TypeOK'
  <2>1. row' \in [Jobs -> Statuses \union {"none"}]
    BY <1>0, <1>1 DEF IInv, TypeOK
  <2>2. answers' \subseteq Answers
    BY <1>1, AnswerFacts DEF IInv, TypeOK
  <2> QED BY <1>1, <1>2, <2>1, <2>2 DEF IInv, TypeOK, linkVars, pageVars, Events
<1>5. SuccessIsOfRow'
  <2>1. \A n \in DOMAIN stream' : stream'[n].job \in Jobs
    BY <1>2, EventFacts
  <2>2. Listing' = Listing
    BY <1>1, AnswerFacts DEF Listing
  <2>3. \A k \in Jobs : row[k] = "succeeded" => row'[k] = "succeeded"
    BY <1>1, <1>3
  <2>4. \A n \in DOMAIN stream : stream[n].job \in Jobs
    BY EventFacts DEF IInv, TypeOK, Events
  <2> QED BY <1>1, <1>2, <2>1, <2>2, <2>3, <2>4 DEF IInv, SuccessIsOfRow, pageVars
<1>6. AnsweredOnce'
  <2>1. j \notin tracked /\ tracked' = tracked
    BY <1>1 DEF IInv, AnsweredOnce, pageVars
  <2>2. \A k \in Jobs : k # j /\ Submitted(k) \in answers' => Submitted(k) \in answers
    BY <1>1, AnswerFacts
  <2> QED BY <1>3, <2>1, <2>2 DEF IInv, AnsweredOnce
<1>7. RegisteredIsTracked' /\ CallbackRunsOnce'
  BY <1>1, <1>3 DEF IInv, RegisteredIsTracked, CallbackRunsOnce, pageVars
<1> QED BY <1>4, <1>5, <1>6, <1>7 DEF IInv

LEMMA AdvanceKeeps == ASSUME IInv, NEW j \in Jobs, NEW status \in Statuses, Advance(j, status) PROVE IInv'
<1>1. /\ row[j] \in {"queued", "running"} /\ row' = [row EXCEPT ![j] = status] /\ Publish(j, status)
      /\ UNCHANGED <<deleted, linkVars, answers, pageVars>>
  BY DEF Advance
<1>2. /\ stream' \in Seq(Events) /\ Len(stream') <= Buffer
      /\ lapsed' \subseteq Jobs
      /\ \A n \in DOMAIN stream' :
           \/ n \in DOMAIN stream /\ stream'[n] = stream[n]
           \/ stream'[n] = [job |-> j, status |-> status]
  BY <1>1, PublishFacts DEF IInv
<1>3. \A k \in Jobs : row'[k] = IF k = j THEN status ELSE row[k]
  BY <1>1 DEF IInv, TypeOK
<1>4. TypeOK'
  BY <1>1, <1>2 DEF IInv, TypeOK, linkVars, pageVars, Events
<1>5. SuccessIsOfRow'
  <2>1. \A k \in Jobs : row[k] = "succeeded" => row'[k] = "succeeded"
    BY <1>1, <1>3
  <2>2. \A n \in DOMAIN stream : stream[n].job \in Jobs
    BY EventFacts DEF IInv, TypeOK, Events
  <2>3. Listing' = Listing
    BY <1>1 DEF Listing
  <2> QED BY <1>1, <1>2, <1>3, <2>1, <2>2, <2>3 DEF IInv, SuccessIsOfRow, pageVars
<1>6. AnsweredOnce'
  BY <1>1, <1>3 DEF IInv, AnsweredOnce, pageVars, Statuses, Final
<1>7. RegisteredIsTracked' /\ CallbackRunsOnce'
  BY <1>1, <1>3 DEF IInv, RegisteredIsTracked, CallbackRunsOnce, pageVars
<1> QED BY <1>4, <1>5, <1>6, <1>7 DEF IInv

\* A step that leaves the rows, the callbacks and the answers to submissions.
LEMMA QuietKeeps ==
  ASSUME IInv, TypeOK', UNCHANGED <<row, callbacks, tracked, called>>,
         \A j \in Jobs : Submitted(j) \in answers' => Submitted(j) \in answers,
         SuccessIsOfRow'
  PROVE  IInv'
BY DEF IInv, AnsweredOnce, RegisteredIsTracked, CallbackRunsOnce

LEMMA ServeListKeeps == ASSUME IInv, ServeList PROVE IInv'
<1> DEFINE js == [j \in Jobs |-> IF row[j] = "none" \/ j \in deleted THEN "absent" ELSE row[j]]
<1>1. js \in [Jobs -> Statuses \union {"absent"}] /\ \A j \in Jobs : js[j] = "succeeded" => row[j] = "succeeded"
  BY DEF IInv, TypeOK
<1>2. answers' = answers \union {[kind |-> "list", jobs |-> js]} /\ wanted' = wanted - 1 /\ wanted > 0
      /\ UNCHANGED <<serverVars, stream, live, opened, outages, lists, pageVars, lapsed>>
  BY DEF ServeList
<1> HIDE DEF js
<1>3. TypeOK'
  BY <1>1, <1>2, AnswerFacts DEF IInv, TypeOK, serverVars, pageVars
<1>4. Listing' = Listing \union {[kind |-> "list", jobs |-> js]}
  BY <1>1, <1>2, AnswerFacts DEF Listing
<1>5. SuccessIsOfRow'
  BY <1>1, <1>2, <1>4, AnswerFacts DEF IInv, SuccessIsOfRow, serverVars, pageVars
<1>6. \A j \in Jobs : Submitted(j) \in answers' => Submitted(j) \in answers
  BY <1>1, <1>2, AnswerFacts
<1> QED BY <1>2, <1>3, <1>5, <1>6, QuietKeeps DEF serverVars, pageVars

LEMMA RemovalKeeps == ASSUME IInv, Clear \/ \E j \in Jobs : Remove(j) PROVE IInv'
<1>1. PICK a \in Answers : /\ answers' = answers \union {a} /\ a.kind \in {"removed", "cleared"}
                           /\ deleted' \subseteq Jobs
                           /\ UNCHANGED <<row, stream, linkVars, pageVars, lapsed>>
  BY AnswerFacts DEF Clear, Remove, IInv, TypeOK
<1>2. TypeOK'
  BY <1>1 DEF IInv, TypeOK, linkVars, pageVars
<1>3. Listing' = Listing /\ \A j \in Jobs : Submitted(j) \in answers' => Submitted(j) \in answers
  BY <1>1, AnswerFacts DEF Listing
<1>4. SuccessIsOfRow'
  BY <1>1, <1>3 DEF IInv, SuccessIsOfRow, pageVars
<1> QED BY <1>1, <1>2, <1>3, <1>4, QuietKeeps DEF pageVars

\* The stream.
LEMMA LinkKeeps == ASSUME IInv, Connect \/ Break \/ AskList PROVE IInv'
<1>1. /\ UNCHANGED <<serverVars, answers, pageVars>>
      /\ stream' = stream \/ stream' = <<>>
  BY DEF Connect, Break, AskList
<1>4. lapsed' \subseteq Jobs
  <2>1. \A n \in DOMAIN stream : stream[n].job \in Jobs
    BY EventFacts DEF IInv, TypeOK, Events
  <2>2. lapsed \subseteq Jobs
    BY DEF IInv, TypeOK
  <2> QED BY <2>1, <2>2 DEF Connect, Break, AskList
<1>2. TypeOK'
  <2>1. lists' \in 0 .. MaxLists /\ wanted' \in Nat /\ outages' \in 0 .. MaxOutages
    BY BoundsAssumption, SMTT(30) DEF Connect, Break, AskList, IInv, TypeOK
  <2>2. live' \in {"connecting", "open", "down"} /\ opened' \in BOOLEAN
    BY DEF Connect, Break, AskList, IInv, TypeOK
  <2>3. stream' \in Seq(Events) /\ Len(stream') <= Buffer
    <3>1. stream \in Seq(Events) /\ Len(stream) <= Buffer
      BY DEF IInv, TypeOK, Events
    <3>2. <<>> \in Seq(Events) /\ Len(<<>>) <= Buffer
      BY EventFacts, BoundsAssumption
    <3>3. stream' \in Seq(Events) /\ Len(stream') <= Buffer
      BY <1>1, <3>1, <3>2
    <3> QED BY <3>3 DEF Events
  <2> QED BY <1>1, <1>4, <2>1, <2>2, <2>3 DEF IInv, TypeOK, serverVars, pageVars, Events
<1>3. SuccessIsOfRow'
  <2>1. DOMAIN stream' = {} \/ stream' = stream
    BY <1>1, EventFacts
  <2>2. Listing' = Listing
    BY <1>1 DEF Listing
  <2> QED BY <1>1, <2>1, <2>2 DEF IInv, SuccessIsOfRow, serverVars, pageVars
<1> QED BY <1>1, <1>2, <1>3, QuietKeeps DEF serverVars, pageVars

\* The page: an event, the answer to a submission, and what replaces the list.
LEMMA ApplyEventKeeps == ASSUME IInv, ApplyEvent PROVE IInv'
<1> DEFINE e == Head(stream)
<1>1. /\ stream # <<>> /\ e \in Events /\ e = stream[1] /\ 1 \in DOMAIN stream
      /\ stream' = Tail(stream) /\ stream' \in Seq(Events)
      /\ Len(stream') <= Buffer
      /\ \A n \in DOMAIN stream' : n + 1 \in DOMAIN stream /\ stream'[n] = stream[n + 1]
  <2>1. stream # <<>> /\ stream' = Tail(stream) /\ stream \in Seq(Events)
    BY DEF ApplyEvent, IInv, TypeOK, Events
  <2>2. Len(stream) <= Buffer /\ Len(stream) \in Nat /\ Buffer \in Nat
    BY <2>1, BoundsAssumption DEF IInv, TypeOK
  <2>3. Len(stream') <= Buffer
    BY <2>1, <2>2, EventFacts
  <2> QED BY <2>1, <2>3, EventFacts
<1>2. e.job \in Jobs /\ e.status \in Statuses /\ (e.status = "succeeded" => row[e.job] = "succeeded")
  <2>1. stream[1].status = "succeeded" => row[stream[1].job] = "succeeded"
    BY <1>1 DEF IInv, SuccessIsOfRow
  <2> QED BY <1>1, <2>1 DEF Events
<1>3. /\ jobs' = [jobs EXCEPT ![e.job] = upsertJob(e.job, e.status)]
      /\ \/ finishJob(e.job, e.status, callbacks)
         \/ UNCHANGED <<callbacks, told, called>>
      /\ UNCHANGED <<serverVars, linkVars, answers, tracked, lapsed>>
  BY DEF ApplyEvent
<1> HIDE DEF e
<1>4. RegisteredIsTracked' /\ CallbackRunsOnce' /\ told' \in [Jobs -> Nat]
      /\ called' \in [Jobs -> Nat] /\ callbacks' \subseteq Jobs
  <2>1. CASE finishJob(e.job, e.status, callbacks)
    <3>1. callbacks \in SUBSET Jobs /\ callbacks \subseteq tracked
      BY DEF IInv, TypeOK, RegisteredIsTracked
    <3> QED BY <1>2, <1>3, <2>1, <3>1, FinishKeeps DEF serverVars
  <2>2. CASE UNCHANGED <<callbacks, told, called>>
    BY <1>3, <2>2 DEF IInv, TypeOK, RegisteredIsTracked, CallbackRunsOnce, serverVars
  <2> QED BY <1>3, <2>1, <2>2
<1>5. upsertJob(e.job, e.status) \in Statuses /\ upsertJob(e.job, e.status) \in {jobs[e.job], e.status}
  BY <1>2, UpsertFacts DEF IInv
<1>6. \A j \in Jobs : jobs'[j] \in Statuses \union {"absent"} /\ (jobs'[j] = "succeeded" => row[j] = "succeeded")
  BY <1>2, <1>3, <1>5 DEF IInv, TypeOK, SuccessIsOfRow
<1>7. TypeOK'
  <2>1. jobs' \in [Jobs -> Statuses \union {"absent"}]
    BY <1>3, <1>5 DEF IInv, TypeOK
  <2> QED BY <1>1, <1>3, <1>4, <2>1 DEF IInv, TypeOK, serverVars, linkVars, Events
<1>8. SuccessIsOfRow'
  BY <1>1, <1>3, <1>6 DEF IInv, SuccessIsOfRow, serverVars, Listing
<1>9. AnsweredOnce'
  BY <1>3 DEF IInv, AnsweredOnce, serverVars
<1> QED BY <1>4, <1>7, <1>8, <1>9 DEF IInv

LEMMA TrackJobKeeps == ASSUME IInv, NEW j \in Jobs, TrackJob(j) PROVE IInv'
<1> DEFINE current == upsertJob(j, "queued")
<1>1. "queued" \in Statuses /\ current \in Statuses /\ current \in {jobs[j], "queued"}
  BY UpsertFacts DEF Statuses, IInv
<1>2. /\ Submitted(j) \in answers /\ answers' = answers \ {Submitted(j)}
      /\ tracked' = tracked \union {j} /\ jobs' = [jobs EXCEPT ![j] = current]
      /\ \/ finishJob(j, current, callbacks \union {j})
         \/ callbacks' = callbacks \union {j} /\ UNCHANGED <<told, called>>
      /\ UNCHANGED <<serverVars, stream, linkVars, lapsed>>
  BY DEF TrackJob, Submitted
<1> HIDE DEF current
<1>3. j \notin tracked /\ row[j] # "none"
  BY <1>2 DEF IInv, AnsweredOnce
<1>4. current = "succeeded" => row[j] = "succeeded"
  BY <1>1 DEF IInv, SuccessIsOfRow
<1>5. RegisteredIsTracked' /\ CallbackRunsOnce' /\ told' \in [Jobs -> Nat]
      /\ called' \in [Jobs -> Nat] /\ callbacks' \subseteq Jobs
  <2>1. CASE finishJob(j, current, callbacks \union {j})
    <3>1. callbacks \union {j} \in SUBSET Jobs /\ callbacks \subseteq tracked
      BY DEF IInv, TypeOK, RegisteredIsTracked
    <3> QED BY <1>1, <1>2, <1>3, <1>4, <2>1, <3>1, FinishKeeps DEF serverVars
  <2>2. CASE callbacks' = callbacks \union {j} /\ UNCHANGED <<told, called>>
    BY <1>2, <1>3, <2>2 DEF IInv, TypeOK, RegisteredIsTracked, CallbackRunsOnce, serverVars
  <2> QED BY <1>2, <2>1, <2>2
<1>6. \A k \in Jobs : jobs'[k] = "succeeded" => row[k] = "succeeded"
  BY <1>1, <1>2, <1>4 DEF IInv, TypeOK, SuccessIsOfRow
<1>7. TypeOK'
  <2>1. jobs' \in [Jobs -> Statuses \union {"absent"}]
    BY <1>1, <1>2 DEF IInv, TypeOK
  <2> QED BY <1>2, <1>5, <2>1 DEF IInv, TypeOK, serverVars, linkVars
<1>8. SuccessIsOfRow'
  <2>1. Listing' \subseteq Listing
    BY <1>2 DEF Listing
  <2> QED BY <1>2, <1>6, <2>1 DEF IInv, SuccessIsOfRow, serverVars
<1>9. AnsweredOnce'
  <2>1. \A k \in Jobs : Submitted(k) \in answers' => k # j
    BY <1>2
  <2> QED BY <1>2, <1>3, <2>1 DEF IInv, AnsweredOnce, serverVars
<1> QED BY <1>5, <1>7, <1>8, <1>9 DEF IInv

\* An answer that replaces or shortens the list, or does not come.
LEMMA TakenKeeps ==
  ASSUME IInv, answers' \subseteq answers, jobs' \in [Jobs -> Statuses \union {"absent"}],
         \A j \in Jobs : jobs'[j] = "succeeded" => row[j] = "succeeded",
         lapsed' \subseteq Jobs,
         UNCHANGED <<serverVars, stream, linkVars, callbacks, tracked, told, called>>
  PROVE  IInv'
<1>1. TypeOK'
  BY DEF IInv, TypeOK, serverVars, linkVars
<1>2. SuccessIsOfRow'
  <2>1. Listing' \subseteq Listing
    BY DEF Listing
  <2> QED BY <2>1 DEF IInv, SuccessIsOfRow, serverVars
<1> QED BY <1>1, <1>2, QuietKeeps DEF serverVars

LEMMA ListKeeps ==
  ASSUME IInv, NEW a \in answers, LoadJobs(a) \/ LoseAnswer(a)
  PROVE  IInv'
<1>1. CASE LoadJobs(a)
  <2>1. a \in Listing /\ a \in Answers
    BY <1>1 DEF LoadJobs, Listing, IInv, TypeOK
  <2>2. a.jobs \in [Jobs -> Statuses \union {"absent"}]
    BY <2>1, AnswerFacts DEF Listing
  <2>3. \A j \in Jobs : a.jobs[j] = "succeeded" => row[j] = "succeeded"
    BY <2>1 DEF IInv, SuccessIsOfRow
  <2>4. lapsed' \subseteq Jobs
    BY <1>1 DEF LoadJobs, IInv, TypeOK
  <2> QED BY <1>1, <2>2, <2>3, <2>4, TakenKeeps DEF LoadJobs
<1>2. CASE LoseAnswer(a)
  <2>1. /\ lapsed' \subseteq Jobs /\ jobs' \in [Jobs -> Statuses \union {"absent"}]
        /\ \A j \in Jobs : jobs'[j] = "succeeded" => row[j] = "succeeded"
    BY <1>2 DEF LoseAnswer, pageVars, IInv, TypeOK, SuccessIsOfRow
  <2> QED BY <1>2, <2>1, TakenKeeps DEF LoseAnswer, pageVars
<1> QED BY <1>1, <1>2

LEMMA DropKeeps == ASSUME IInv, DropCleared \/ \E j \in Jobs : DropRemoved(j) PROVE IInv'
<1>1. /\ answers' \subseteq answers
      /\ UNCHANGED <<serverVars, stream, linkVars, callbacks, tracked, told, called>>
  BY DEF DropCleared, DropRemoved
<1>2. lapsed' \subseteq Jobs
  BY DEF DropCleared, DropRemoved, IInv, TypeOK, Unanswered
<1>3. jobs' \in [Jobs -> Statuses \union {"absent"}] /\ \A j \in Jobs : jobs'[j] \in {jobs[j], "absent"}
  BY DEF DropCleared, DropRemoved, IInv, TypeOK
<1>4. \A j \in Jobs : jobs'[j] = "succeeded" => row[j] = "succeeded"
  BY <1>3 DEF IInv, SuccessIsOfRow
<1> QED BY <1>1, <1>2, <1>3, <1>4, TakenKeeps

-----------------------------------------------------------------------------
\* A success that the page knows of is one of the row, and the callback of a
\* submission is forgotten when it has run: inductive for any jobs and bounds.
THEOREM PageInductive == Spec => []IInv
<1>1. Init => IInv
  <2> SUFFICES ASSUME Init PROVE IInv
    OBVIOUS
  <2>1. TypeOK
    <3>1. stream \in Seq(Events) /\ Len(stream) <= Buffer
      BY EventFacts, BoundsAssumption DEF Init
    <3>2. /\ outages \in 0 .. MaxOutages /\ wanted \in Nat /\ lists \in 0 .. MaxLists
          /\ told \in [Jobs -> Nat] /\ called \in [Jobs -> Nat]
      BY BoundsAssumption DEF Init
    <3> QED BY <3>1, <3>2 DEF Init, TypeOK, Events
  <2>2. DOMAIN stream = {} /\ Listing = {}
    BY DEF Init, Listing
  <2> QED BY <2>1, <2>2
          DEF Init, IInv, SuccessIsOfRow, AnsweredOnce, RegisteredIsTracked, CallbackRunsOnce
<1>2. IInv /\ [Next]_vars => IInv'
  <2> SUFFICES ASSUME IInv, [Next]_vars PROVE IInv'
    OBVIOUS
  <2>1. CASE UNCHANGED vars
    BY <2>1 DEF vars, serverVars, linkVars, pageVars, IInv, TypeOK, SuccessIsOfRow, Listing,
                AnsweredOnce, RegisteredIsTracked, CallbackRunsOnce
  <2>2. CASE Next
    BY <2>2, SubmitKeeps, AdvanceKeeps, ServeListKeeps, RemovalKeeps, LinkKeeps, ApplyEventKeeps,
       TrackJobKeeps, ListKeeps, DropKeeps DEF Next
  <2> QED BY <2>1, <2>2
<1> QED BY <1>1, <1>2, PTL DEF Spec

\* The callback of a submission runs at most once and only for a success
\* (CallbackRunsOnce), whichever of the answer and the events comes first.
THEOREM CallbacksRunOnce == Spec => []CallbackRunsOnce
<1>1. IInv => CallbackRunsOnce
  BY DEF IInv
<1> QED BY <1>1, PageInductive, PTL

-----------------------------------------------------------------------------
(* The end of a job is announced *)

Dropping(j) == [kind |-> "removed", job |-> j]
EndIsPending(j) == \E n \in DOMAIN stream : stream[n].job = j /\ isJobDone(stream[n].status)
EndIsHandled(j) == isJobDone(row[j]) /\ ~EndIsPending(j)

\* What the page has of a job it missed nothing of: up to its end an unfinished
\* state, with the callback waiting from the answer on; then the end, announced
\* since the answer if not before.  The event of the end is the last one.
Followed(j) ==
  /\ \A n \in DOMAIN stream : stream[n].job = j /\ isJobDone(stream[n].status) =>
       /\ stream[n].status = row[j]
       /\ \A m \in DOMAIN stream : m > n => stream[m].job # j
  /\ EndIsHandled(j) =>
       /\ \A n \in DOMAIN stream : stream[n].job # j
       /\ jobs[j] \in {row[j], "absent"}
       /\ Submitted(j) \in answers => jobs[j] = row[j]
       /\ j \in tracked => /\ told[j] > 0 /\ j \notin callbacks
                           /\ called[j] = (IF row[j] = "succeeded" THEN 1 ELSE 0)
  /\ ~EndIsHandled(j) =>
       /\ ~isJobDone(jobs[j]) /\ Dropping(j) \notin answers
       /\ j \in tracked => j \in callbacks /\ called[j] = 0 /\ jobs[j] # "absent"

FollowedWhole == \A j \in Jobs \ lapsed : Followed(j)

\* A step after which the page has the same of a job, and the stream the same
\* events of it, d places further.
LEMMA FollowedStays ==
  ASSUME NEW j \in Jobs, Followed(j), NEW d \in Nat,
         DOMAIN stream \subseteq Nat, (DOMAIN stream)' \subseteq Nat,
         \A n \in DOMAIN stream' : stream'[n].job = j =>
           n + d \in DOMAIN stream /\ stream'[n] = stream[n + d],
         \A n \in DOMAIN stream : stream[n].job = j =>
           n - d \in DOMAIN stream' /\ stream'[n - d] = stream[n],
         row'[j] = row[j], jobs'[j] = jobs[j], told'[j] = told[j], called'[j] = called[j],
         j \in callbacks' <=> j \in callbacks, j \in tracked' <=> j \in tracked,
         Submitted(j) \in answers' => Submitted(j) \in answers,
         Dropping(j) \in answers' => Dropping(j) \in answers \/ EndIsHandled(j)
  PROVE  Followed(j)'
<1>1. EndIsPending(j)' <=> EndIsPending(j)
  BY DEF EndIsPending
<1>2. EndIsHandled(j)' <=> EndIsHandled(j)
  BY <1>1 DEF EndIsHandled
<1>3. ASSUME NEW n \in DOMAIN stream', stream'[n].job = j, isJobDone(stream'[n].status)
      PROVE  /\ stream'[n].status = row'[j]
             /\ \A m \in DOMAIN stream' : m > n => stream'[m].job # j
  <2>1. n + d \in DOMAIN stream /\ stream'[n] = stream[n + d]
    BY <1>3
  <2>2. /\ stream[n + d].status = row[j]
        /\ \A m \in DOMAIN stream : m > n + d => stream[m].job # j
    BY <1>3, <2>1 DEF Followed
  <2>3. ASSUME NEW m \in DOMAIN stream', m > n, stream'[m].job = j PROVE FALSE
    <3>1. m + d \in DOMAIN stream /\ stream[m + d].job = j
      BY <2>3
    <3>2. m + d > n + d
      BY <2>3
    <3> QED BY <2>2, <3>1, <3>2
  <2> QED BY <2>1, <2>2, <2>3
<1>4. (\A n \in DOMAIN stream : stream[n].job # j) => \A n \in DOMAIN stream' : stream'[n].job # j
  OBVIOUS
<1> QED BY <1>2, <1>3, <1>4 DEF Followed

\* The same with a stream that has not moved.
LEMMA FollowedRests ==
  ASSUME TypeOK, NEW j \in Jobs, Followed(j), stream' = stream,
         row'[j] = row[j], jobs'[j] = jobs[j], told'[j] = told[j], called'[j] = called[j],
         j \in callbacks' <=> j \in callbacks, j \in tracked' <=> j \in tracked,
         Submitted(j) \in answers' => Submitted(j) \in answers,
         Dropping(j) \in answers' => Dropping(j) \in answers \/ EndIsHandled(j)
  PROVE  Followed(j)'
<1>1. DOMAIN stream \subseteq Nat
  BY DEF TypeOK
<1>2. \A n \in DOMAIN stream : n + 0 = n /\ n - 0 = n
  BY <1>1
<1> QED BY <1>1, <1>2, FollowedStays

\* Where the event of a step of the server goes, unless it is missed.
LEMMA EventGoesLast ==
  ASSUME TypeOK, NEW j \in Jobs, NEW status \in Statuses, Publish(j, status), j \notin lapsed'
  PROVE  /\ lapsed' = lapsed
         /\ DOMAIN stream = 1 .. Len(stream) /\ DOMAIN stream' = 1 .. (Len(stream) + 1)
         /\ Len(stream) \in Nat
         /\ \A n \in DOMAIN stream : stream'[n] = stream[n]
         /\ stream'[Len(stream) + 1] = [job |-> j, status |-> status]
<1>1. stream \in Seq(Events) /\ [job |-> j, status |-> status] \in Events
  BY DEF TypeOK, Events
<1>2. stream' = Append(stream, [job |-> j, status |-> status]) /\ lapsed' = lapsed
  BY DEF Publish
<1> QED BY <1>1, <1>2

LEMMA PublishFollows ==
  ASSUME IInv, FollowedWhole, NEW j \in Jobs, NEW status \in Statuses,
         row[j] \in {"none", "queued", "running"}, row' = [row EXCEPT ![j] = status],
         Publish(j, status),
         answers' \subseteq answers \union {Submitted(j)}, UNCHANGED pageVars
  PROVE  FollowedWhole'
<1> SUFFICES ASSUME NEW k \in Jobs, k \notin lapsed' PROVE Followed(k)'
  BY DEF FollowedWhole
<1>1. k \notin lapsed /\ Followed(k)
  BY DEF Publish, FollowedWhole
<1>2. UNCHANGED <<jobs, callbacks, tracked, told, called>>
  BY DEF pageVars
<1>3. Dropping(k) \notin {Submitted(j)} /\ (k # j => Submitted(k) \notin {Submitted(j)})
  BY AnswerFacts DEF Dropping
<1>4. CASE k # j
  <2>1. row'[k] = row[k]
    BY <1>4 DEF IInv, TypeOK
  <2>2. CASE stream' = stream
    BY <1>1, <1>2, <1>3, <1>4, <2>1, <2>2, FollowedRests DEF IInv
  <2>3. CASE stream' = Append(stream, [job |-> j, status |-> status])
    <3>1. stream \in Seq(Events) /\ [job |-> j, status |-> status] \in Events
      BY DEF IInv, TypeOK, Events
    <3>2. /\ DOMAIN stream = 1 .. Len(stream) /\ DOMAIN stream' = 1 .. (Len(stream) + 1)
          /\ Len(stream) \in Nat
          /\ \A n \in DOMAIN stream : stream'[n] = stream[n]
          /\ stream'[Len(stream) + 1].job = j
      BY <2>3, <3>1
    <3>3. \A n \in DOMAIN stream' : stream'[n].job = k =>
            n + 0 \in DOMAIN stream /\ stream'[n] = stream[n + 0]
      BY <1>4, <3>2
    <3>4. \A n \in DOMAIN stream : stream[n].job = k =>
            n - 0 \in DOMAIN stream' /\ stream'[n - 0] = stream[n]
      BY <3>2
    <3>5. DOMAIN stream \subseteq Nat /\ (DOMAIN stream)' \subseteq Nat
      BY <3>2
    <3> QED BY <1>1, <1>2, <1>3, <1>4, <2>1, <3>3, <3>4, <3>5, FollowedStays
  <2> QED BY <2>2, <2>3 DEF Publish
<1>5. CASE k = j
  <2>1. /\ DOMAIN stream = 1 .. Len(stream) /\ DOMAIN stream' = 1 .. (Len(stream) + 1)
        /\ Len(stream) \in Nat
        /\ \A n \in DOMAIN stream : stream'[n] = stream[n]
        /\ stream'[Len(stream) + 1] = [job |-> j, status |-> status]
    BY <1>5, EventGoesLast DEF IInv
  <2>2. row'[j] = status /\ ~isJobDone(row[j])
    BY DEF IInv, TypeOK, isJobDone, Final
  <2>3. ~EndIsHandled(j) /\ ~isJobDone(jobs[j]) /\ Dropping(j) \notin answers
        /\ (j \in tracked => j \in callbacks /\ called[j] = 0 /\ jobs[j] # "absent")
    BY <1>1, <1>5, <2>2 DEF Followed, EndIsHandled
  <2>4. \A n \in DOMAIN stream : ~(stream[n].job = j /\ isJobDone(stream[n].status))
    BY <1>1, <1>5, <2>2 DEF Followed
  <2>5. ~EndIsHandled(j)'
    <3>1. CASE isJobDone(status)
      <4>1. /\ Len(stream) + 1 \in DOMAIN stream' /\ stream'[Len(stream) + 1].job = j
            /\ isJobDone(stream'[Len(stream) + 1].status)
        BY <2>1, <3>1
      <4> QED BY <4>1 DEF EndIsHandled, EndIsPending
    <3>2. CASE ~isJobDone(status)
      BY <2>2, <3>2 DEF EndIsHandled
    <3> QED BY <3>1, <3>2
  <2>6. \A n \in DOMAIN stream' : stream'[n].job = j /\ isJobDone(stream'[n].status) =>
          stream'[n].status = row'[j] /\ \A m \in DOMAIN stream' : m > n => stream'[m].job # j
    <3> SUFFICES ASSUME NEW n \in DOMAIN stream', stream'[n].job = j, isJobDone(stream'[n].status)
                 PROVE  stream'[n].status = row'[j] /\ \A m \in DOMAIN stream' : m > n => stream'[m].job # j
      OBVIOUS
    <3>1. n = Len(stream) + 1
      BY <2>1, <2>4
    <3> QED BY <2>1, <2>2, <3>1
  <2>7. Dropping(j) \notin answers'
    BY <1>3, <1>5, <2>3
  <2> QED BY <1>2, <1>5, <2>3, <2>5, <2>6, <2>7 DEF Followed
<1> QED BY <1>4, <1>5

LEMMA TrackFollows ==
  ASSUME IInv, FollowedWhole, NEW j \in Jobs, TrackJob(j)
  PROVE  FollowedWhole'
<1> SUFFICES ASSUME NEW k \in Jobs, k \notin lapsed' PROVE Followed(k)'
  BY DEF FollowedWhole
<1>1. /\ Submitted(j) \in answers /\ answers' = answers \ {Submitted(j)}
      /\ tracked' = tracked \union {j} /\ jobs' = [jobs EXCEPT ![j] = upsertJob(j, "queued")]
      /\ IF isJobDone(upsertJob(j, "queued"))
         THEN finishJob(j, upsertJob(j, "queued"), callbacks \union {j})
         ELSE callbacks' = callbacks \union {j} /\ UNCHANGED <<told, called>>
      /\ UNCHANGED <<row, stream, lapsed>>
  BY DEF TrackJob, Submitted, serverVars
<1>2. k \notin lapsed /\ Followed(k) /\ j \notin tracked
  BY <1>1 DEF FollowedWhole, IInv, AnsweredOnce
<1>3. jobs' \in [Jobs -> Statuses \union {"absent"}] /\ jobs'[j] = upsertJob(j, "queued")
      /\ (k # j => jobs'[k] = jobs[k])
  <2>1. upsertJob(j, "queued") \in Statuses
    BY UpsertFacts DEF IInv, Statuses
  <2> QED BY <1>1, <2>1 DEF IInv, TypeOK
<1>4. CASE k # j
  <2>1. told'[k] = told[k] /\ called'[k] = called[k] /\ (k \in callbacks' <=> k \in callbacks)
    BY <1>1, <1>4 DEF finishJob, IInv, TypeOK
  <2> QED BY <1>1, <1>2, <1>3, <1>4, <2>1, FollowedRests DEF IInv
<1>5. CASE k = j /\ EndIsHandled(j)
  <2>1. /\ \A n \in DOMAIN stream : stream[n].job # j
        /\ jobs[j] = row[j] /\ isJobDone(row[j])
    BY <1>1, <1>2, <1>5 DEF Followed, EndIsHandled
  <2>2. upsertJob(j, "queued") = row[j]
    BY <2>1 DEF upsertJob, isJobDone, Final
  <2>3. called[j] = 0 /\ told[j] \in Nat
    BY <1>2 DEF IInv, TypeOK, CallbackRunsOnce
  <2>4. /\ told'[j] > 0 /\ j \notin callbacks'
        /\ called'[j] = (IF row[j] = "succeeded" THEN 1 ELSE 0)
    BY <1>1, <2>1, <2>2, <2>3 DEF finishJob, IInv, TypeOK
  <2>5. EndIsHandled(j)'
    BY <1>1, <1>5 DEF EndIsHandled, EndIsPending
  <2> QED BY <1>1, <1>3, <1>5, <2>1, <2>2, <2>4, <2>5 DEF Followed
<1>6. CASE k = j /\ ~EndIsHandled(j)
  <2>1. ~isJobDone(jobs[j]) /\ Dropping(j) \notin answers
    BY <1>2, <1>6 DEF Followed
  <2>2. upsertJob(j, "queued") = "queued" /\ ~isJobDone("queued")
    BY <2>1 DEF upsertJob, isJobDone, Final
  <2>3. called[j] = 0
    BY <1>2 DEF IInv, TypeOK, CallbackRunsOnce
  <2>4. j \in callbacks' /\ called'[j] = 0
    BY <1>1, <2>2, <2>3
  <2>5. ~EndIsHandled(j)'
    BY <1>1, <1>6 DEF EndIsHandled, EndIsPending
  <2> QED BY <1>1, <1>2, <1>3, <1>6, <2>1, <2>2, <2>4, <2>5 DEF Followed
<1> QED BY <1>4, <1>5, <1>6

LEMMA EventFollows ==
  ASSUME IInv, FollowedWhole, ApplyEvent
  PROVE  FollowedWhole'
<1> SUFFICES ASSUME NEW k \in Jobs, k \notin lapsed' PROVE Followed(k)'
  BY DEF FollowedWhole
<1>0. PICK j \in Jobs, status \in Statuses : Head(stream).job = j /\ Head(stream).status = status
  <2>1. stream \in Seq(Events) /\ stream # <<>>
    BY DEF ApplyEvent, IInv, TypeOK, Events
  <2>2. Head(stream) \in Events
    BY <2>1
  <2> QED BY <2>2 DEF Events
<1> DEFINE e == Head(stream)
<1>1. /\ stream # <<>> /\ stream' = Tail(stream) /\ stream \in Seq(Events)
      /\ jobs' = [jobs EXCEPT ![j] = upsertJob(j, e.status)]
      /\ IF isJobDone(e.status) /\ jobs[j] # "absent" /\ ~isJobDone(jobs[j])
         THEN finishJob(j, e.status, callbacks)
         ELSE UNCHANGED <<callbacks, told, called>>
      /\ UNCHANGED <<row, answers, tracked, lapsed>>
  BY <1>0 DEF ApplyEvent, IInv, TypeOK, Events, serverVars
<1>2. /\ e = stream[1] /\ e \in Events /\ 1 \in DOMAIN stream
      /\ DOMAIN stream = 1 .. Len(stream) /\ DOMAIN stream' = 1 .. (Len(stream) - 1)
      /\ Len(stream) \in Nat
      /\ \A n \in DOMAIN stream' : n + 1 \in DOMAIN stream /\ stream'[n] = stream[n + 1]
  BY <1>1
<1>3. j \in Jobs /\ e.status \in Statuses /\ stream[1].job = j /\ stream[1].status = e.status
  BY <1>0, <1>2 DEF Events
<1> HIDE DEF e
<1>4. k \notin lapsed /\ Followed(k)
  BY <1>1 DEF FollowedWhole
<1>5. jobs'[j] = upsertJob(j, e.status) /\ (k # j => jobs'[k] = jobs[k])
  BY <1>1, <1>3 DEF IInv, TypeOK
<1>6. CASE k # j
  <2>1. told'[k] = told[k] /\ called'[k] = called[k] /\ (k \in callbacks' <=> k \in callbacks)
    BY <1>1, <1>3, <1>6 DEF finishJob, IInv, TypeOK
  <2>2. \A n \in DOMAIN stream : stream[n].job = k => n - 1 \in DOMAIN stream' /\ stream'[n - 1] = stream[n]
    <3> SUFFICES ASSUME NEW n \in DOMAIN stream, stream[n].job = k
                 PROVE  n - 1 \in DOMAIN stream' /\ stream'[n - 1] = stream[n]
      OBVIOUS
    <3>1. n # 1
      BY <1>3, <1>6
    <3>2. n - 1 \in DOMAIN stream' /\ (n - 1) + 1 = n
      BY <1>2, <3>1
    <3> QED BY <1>2, <3>2
  <2>3. DOMAIN stream \subseteq Nat /\ (DOMAIN stream)' \subseteq Nat
    BY <1>2
  <2>4. \A n \in DOMAIN stream' : stream'[n].job = k => n + 1 \in DOMAIN stream /\ stream'[n] = stream[n + 1]
    BY <1>2
  <2>5. row'[k] = row[k] /\ jobs'[k] = jobs[k] /\ (k \in tracked' <=> k \in tracked) /\ answers' = answers
    BY <1>1, <1>5, <1>6
  <2> QED BY <1>4, <2>1, <2>2, <2>3, <2>4, <2>5, FollowedStays
\* The event of the end: the last one.
<1>7. CASE k = j /\ isJobDone(e.status)
  <2>1. e.status = row[j] /\ \A m \in DOMAIN stream : m > 1 => stream[m].job # j
    BY <1>2, <1>3, <1>4, <1>7 DEF Followed
  <2>2. \A n \in DOMAIN stream' : stream'[n].job # j
    BY <1>2, <2>1
  <2>3. EndIsPending(j)
    BY <1>2, <1>3, <1>7 DEF EndIsPending
  <2>4. ~isJobDone(jobs[j]) /\ (j \in tracked => j \in callbacks /\ called[j] = 0 /\ jobs[j] # "absent")
    BY <1>4, <1>7, <2>3 DEF Followed, EndIsHandled
  <2>5. jobs'[j] = row[j]
    BY <1>5, <2>1, <2>4 DEF upsertJob
  <2>6. ASSUME j \in tracked
        PROVE  told'[j] > 0 /\ j \notin callbacks' /\ called'[j] = (IF row[j] = "succeeded" THEN 1 ELSE 0)
    <3>1. finishJob(j, e.status, callbacks) /\ j \in callbacks /\ called[j] = 0
      BY <1>1, <1>7, <2>4, <2>6
    <3> QED BY <1>3, <2>1, <3>1 DEF finishJob, IInv, TypeOK
  <2> QED BY <1>1, <1>7, <2>1, <2>2, <2>5, <2>6 DEF Followed, EndIsHandled, EndIsPending
<1>8. CASE k = j /\ ~isJobDone(e.status)
  <2>1. ~EndIsHandled(j)
    BY <1>2, <1>3, <1>4, <1>8 DEF Followed
  <2>2. /\ ~isJobDone(jobs[j]) /\ Dropping(j) \notin answers
        /\ j \in tracked => j \in callbacks /\ called[j] = 0 /\ jobs[j] # "absent"
    BY <1>4, <1>8, <2>1 DEF Followed
  <2>3. jobs'[j] = e.status /\ e.status # "absent"
    BY <1>3, <1>5, <2>2 DEF upsertJob, Statuses, Final
  <2>4. ~EndIsHandled(j)'
    <3> SUFFICES ASSUME isJobDone(row[j]) PROVE EndIsPending(j)'
      BY <1>1 DEF EndIsHandled
    <3>1. PICK n \in DOMAIN stream : stream[n].job = j /\ isJobDone(stream[n].status)
      BY <2>1 DEF EndIsHandled, EndIsPending
    <3>2. n # 1
      BY <1>3, <1>8, <3>1
    <3>3. n - 1 \in DOMAIN stream' /\ (n - 1) + 1 = n
      BY <1>2, <3>2
    <3>4. stream'[n - 1] = stream[n]
      BY <1>2, <3>3
    <3> QED BY <3>1, <3>3, <3>4 DEF EndIsPending
  <2>5. \A n \in DOMAIN stream' : stream'[n].job = j /\ isJobDone(stream'[n].status) =>
          stream'[n].status = row'[j] /\ \A m \in DOMAIN stream' : m > n => stream'[m].job # j
    <3> SUFFICES ASSUME NEW n \in DOMAIN stream', stream'[n].job = j, isJobDone(stream'[n].status)
                 PROVE  stream'[n].status = row'[j] /\ \A m \in DOMAIN stream' : m > n => stream'[m].job # j
      OBVIOUS
    <3>1. n + 1 \in DOMAIN stream /\ stream[n + 1] = stream'[n]
      BY <1>2
    <3>2. /\ stream[n + 1].status = row[j]
          /\ \A m \in DOMAIN stream : m > n + 1 => stream[m].job # j
      BY <1>4, <1>8, <3>1 DEF Followed
    <3>3. \A m \in DOMAIN stream' : m > n => m + 1 \in DOMAIN stream /\ m + 1 > n + 1 /\ stream'[m] = stream[m + 1]
      BY <1>2
    <3> QED BY <1>1, <3>1, <3>2, <3>3
  <2>6. UNCHANGED <<callbacks, told, called>>
    BY <1>1, <1>8
  <2> QED BY <1>1, <1>8, <2>2, <2>3, <2>4, <2>5, <2>6 DEF Followed
<1> QED BY <1>6, <1>7, <1>8

\* A list, a removal: of a job missed nothing of, only an announced end goes.
LEMMA AnswerFollows ==
  ASSUME IInv, FollowedWhole,
         (\E a \in answers : LoadJobs(a) \/ LoseAnswer(a)) \/ DropCleared
           \/ \E j \in Jobs : DropRemoved(j)
  PROVE  FollowedWhole'
<1> SUFFICES ASSUME NEW k \in Jobs, k \notin lapsed' PROVE Followed(k)'
  BY DEF FollowedWhole
<1>1. /\ UNCHANGED <<row, stream, callbacks, tracked, told, called>>
      /\ answers' \subseteq answers /\ lapsed \subseteq lapsed'
  BY DEF LoadJobs, LoseAnswer, DropCleared, DropRemoved, serverVars, pageVars
<1>2. Followed(k) /\ k \notin lapsed
  BY <1>1 DEF FollowedWhole
<1>3. CASE jobs'[k] = jobs[k]
  BY <1>1, <1>2, <1>3, FollowedRests DEF IInv
<1>4. CASE jobs'[k] # jobs[k]
  <2>1. jobs'[k] = "absent" /\ k \notin Unanswered /\ (isJobDone(jobs[k]) \/ Dropping(k) \in answers)
    <3>1. CASE \E a \in answers : LoadJobs(a) \/ LoseAnswer(a)
      BY <1>4, <3>1 DEF LoadJobs, LoseAnswer, pageVars
    <3>2. CASE DropCleared
      BY <1>4, <3>2 DEF DropCleared
    <3>3. CASE \E j \in Jobs : DropRemoved(j)
      BY <1>4, <3>3 DEF DropRemoved, Dropping, IInv, TypeOK
    <3> QED BY <3>1, <3>2, <3>3
  <2>2. EndIsHandled(k)
    BY <1>2, <2>1 DEF Followed
  <2>3. EndIsHandled(k)'
    BY <1>1, <2>2 DEF EndIsHandled, EndIsPending
  <2>4. Submitted(k) \notin answers'
    BY <1>1, <2>1 DEF Unanswered, Submitted
  <2> QED BY <1>1, <1>2, <2>1, <2>2, <2>3, <2>4 DEF Followed
<1> QED BY <1>3, <1>4

\* Requests, and the stream that comes and goes.
LEMMA RequestFollows ==
  ASSUME IInv, FollowedWhole,
         ServeList \/ Clear \/ (\E j \in Jobs : Remove(j)) \/ Connect \/ Break \/ AskList
  PROVE  FollowedWhole'
<1> SUFFICES ASSUME NEW k \in Jobs, k \notin lapsed' PROVE Followed(k)'
  BY DEF FollowedWhole
<1>1. UNCHANGED <<row, jobs, callbacks, tracked, told, called>> /\ lapsed \subseteq lapsed'
  BY DEF ServeList, Clear, Remove, Connect, Break, AskList, serverVars, pageVars
<1>2. Followed(k) /\ k \notin lapsed
  BY <1>1 DEF FollowedWhole
<1>3. /\ Submitted(k) \in answers' => Submitted(k) \in answers
      /\ Dropping(k) \in answers' => Dropping(k) \in answers \/ EndIsHandled(k)
  <2>1. CASE ServeList
    <3> DEFINE js == [j \in Jobs |-> IF row[j] = "none" \/ j \in deleted THEN "absent" ELSE row[j]]
    <3>1. answers' = answers \union {[kind |-> "list", jobs |-> js]}
      BY <2>1 DEF ServeList
    <3>2. [kind |-> "list", jobs |-> js].kind = "list"
      OBVIOUS
    <3> HIDE DEF js
    <3> QED BY <3>1, <3>2, AnswerFacts DEF Dropping
  <2>2. CASE Clear
    BY <2>2, AnswerFacts DEF Clear, Dropping, Submitted
  <2>3. ASSUME NEW j \in Jobs, Remove(j)
        PROVE  /\ Submitted(k) \in answers' => Submitted(k) \in answers
               /\ Dropping(k) \in answers' => Dropping(k) \in answers \/ EndIsHandled(k)
    <3>1. answers' = answers \union {Dropping(j)} /\ isJobDone(jobs[j])
      BY <2>3 DEF Remove, Dropping
    <3>2. Dropping(k) = Dropping(j) => k = j
      BY DEF Dropping
    <3>3. k = j => EndIsHandled(k)
      BY <1>2, <3>1 DEF Followed
    <3>4. Submitted(k) # Dropping(j)
      BY DEF Submitted, Dropping
    <3> QED BY <3>1, <3>2, <3>3, <3>4
  <2>4. CASE Connect \/ Break \/ AskList
    BY <2>4 DEF Connect, Break, AskList
  <2> QED BY <2>1, <2>2, <2>3, <2>4
<1>4. CASE stream' = stream
  BY <1>1, <1>2, <1>3, <1>4, FollowedRests DEF IInv
<1>5. CASE Break
  <2>1. stream' = <<>> /\ \A n \in DOMAIN stream : stream[n].job # k
    BY <1>5 DEF Break
  <2>2. DOMAIN stream' = {} /\ DOMAIN stream \subseteq Nat
    BY <2>1 DEF IInv, TypeOK
  <2>3. /\ \A n \in DOMAIN stream' : stream'[n].job = k => n + 0 \in DOMAIN stream /\ stream'[n] = stream[n + 0]
        /\ \A n \in DOMAIN stream : stream[n].job = k => n - 0 \in DOMAIN stream' /\ stream'[n - 0] = stream[n]
        /\ (DOMAIN stream)' \subseteq Nat
    BY <2>1, <2>2
  <2> QED BY <1>1, <1>2, <1>3, <2>2, <2>3, FollowedStays
<1> QED BY <1>4, <1>5 DEF ServeList, Clear, Remove, Connect, AskList

LEMMA FollowedInit == Init => FollowedWhole
<1> SUFFICES ASSUME Init, NEW j \in Jobs PROVE Followed(j)
  BY DEF FollowedWhole
<1>1. /\ DOMAIN stream = {} /\ jobs[j] = "absent" /\ row[j] = "none"
      /\ answers = {} /\ tracked = {}
  BY DEF Init
<1> QED BY <1>1 DEF Followed, EndIsHandled, isJobDone, Final

LEMMA FollowedNext == IInv /\ FollowedWhole /\ [Next]_vars => FollowedWhole'
<1> SUFFICES ASSUME IInv, FollowedWhole, [Next]_vars PROVE FollowedWhole'
  OBVIOUS
<1>1. CASE UNCHANGED vars
  BY <1>1 DEF vars, FollowedWhole, Followed, EndIsHandled, EndIsPending
<1>2. ASSUME NEW j \in Jobs, Submit(j) PROVE FollowedWhole'
  <2>1. /\ row[j] = "none" /\ row' = [row EXCEPT ![j] = "queued"] /\ Publish(j, "queued")
        /\ answers' = answers \union {Submitted(j)} /\ UNCHANGED pageVars
    BY <1>2 DEF Submit, Submitted
  <2>2. "queued" \in Statuses
    BY DEF Statuses
  <2> QED BY <2>1, <2>2, PublishFollows
<1>3. ASSUME NEW j \in Jobs, NEW status \in Statuses, Advance(j, status) PROVE FollowedWhole'
  <2>1. /\ row[j] \in {"queued", "running"} /\ row' = [row EXCEPT ![j] = status]
        /\ Publish(j, status) /\ answers' = answers /\ UNCHANGED pageVars
    BY <1>3 DEF Advance
  <2> QED BY <2>1, PublishFollows
<1> QED BY <1>1, <1>2, <1>3, TrackFollows, EventFollows, AnswerFollows, RequestFollows DEF Next

\* The user is told (EndIsAnnounced): of a job the page missed nothing of, the
\* end is announced and the callback has run when nothing is on the way any
\* more, for any jobs and buffer and in any order of answers and events.
THEOREM EndsAreAnnounced == Spec => []EndIsAnnounced
<1>1. IInv /\ FollowedWhole => EndIsAnnounced
  <2> SUFFICES ASSUME IInv, FollowedWhole, NEW j \in tracked \ lapsed, isJobDone(row[j]), NothingOnTheWay(j)
               PROVE  /\ told[j] > 0 /\ j \notin callbacks
                      /\ called[j] = (IF row[j] = "succeeded" THEN 1 ELSE 0)
                      /\ jobs[j] \in {row[j], "absent"}
    BY DEF EndIsAnnounced
  <2>1. j \in Jobs /\ Followed(j)
    BY DEF IInv, TypeOK, FollowedWhole
  <2>2. EndIsHandled(j)
    BY DEF NothingOnTheWay, EndIsHandled, EndIsPending
  <2> QED BY <2>1, <2>2 DEF Followed
<1> QED BY <1>1, PageInductive, FollowedInit, FollowedNext, PTL DEF Spec

-----------------------------------------------------------------------------
(* The session of a page: whatever stands between the page and its place is  *)
(* a call that is still in flight.                                           *)

IsCall(c) == c = [kind |-> c.kind, next |-> c.next, answer |-> c.answer]

\* The page is placed when the answer comes, or by a call that follows it.
Placing(c) == \/ c.kind = "status" /\ c.next \in {"place", "enter", "leave"}
              \/ c.kind = "load" /\ c.next = "enter"

\* The buttons come back with the answer, or with that of a call that follows it.
Working(c) == c.kind \notin {"status", "load"} \/ c.next = "enter"

InPlace == (route = "app" <=> authed = "yes") /\ authed # "unknown"

SessionInv ==
  /\ \A c \in calls : IsCall(c)
  /\ InPlace \/ \E c \in calls : Placing(c)
  /\ busy => \E c \in calls : Working(c)
  /\ authed = "unknown" => /\ route = "nowhere"
                            /\ \A c \in calls : c.kind = "status" /\ c.next = "place"

LEMMA SessionStart == S!Init => SessionInv
BY DEF S!Init, S!Call, S!Pending, SessionInv, IsCall, Placing, Working

LEMMA CallFacts ==
  ASSUME NEW kind, NEW next
  PROVE  /\ IsCall(S!Call(kind, next))
         /\ S!Call(kind, next).kind = kind /\ S!Call(kind, next).next = next
BY DEF S!Call, IsCall

\* A call that is answered is still the call it was.
LEMMA ServeKeeps ==
  ASSUME SessionInv, NEW c \in calls, S!Serve(c)
  PROVE  SessionInv'
<1>1. PICK v : /\ calls' = (calls \ {c}) \union {[c EXCEPT !.answer = v]}
               /\ UNCHANGED <<authed, route, busy>>
  BY DEF S!Serve, S!page
<1> DEFINE d == [c EXCEPT !.answer = v]
<1>2. IsCall(c)
  BY DEF SessionInv
<1>3. d = [kind |-> c.kind, next |-> c.next, answer |-> v]
  BY <1>2 DEF IsCall
<1>4. IsCall(d) /\ d.kind = c.kind /\ d.next = c.next
  BY <1>3 DEF IsCall
<1>5. d \in calls' /\ \A e \in calls : e = c \/ e \in calls'
  BY <1>1
<1>6. \A e \in calls' : IsCall(e)
  BY <1>1, <1>4 DEF SessionInv
<1>7. authed' = "unknown" => /\ route' = "nowhere"
                               /\ \A e \in calls' : e.kind = "status" /\ e.next = "place"
  BY <1>1, <1>4 DEF SessionInv
<1> HIDE DEF d
<1>8. Placing(c) => Placing(d)
  BY <1>4 DEF Placing
<1>9. Working(c) => Working(d)
  BY <1>4 DEF Working
<1>10. (\E e \in calls : Placing(e)) => \E e \in calls' : Placing(e)
  BY <1>5, <1>8
<1>11. (\E e \in calls : Working(e)) => \E e \in calls' : Working(e)
  BY <1>5, <1>9
<1>12. InPlace => InPlace'
  BY <1>1 DEF InPlace
<1> QED BY <1>1, <1>6, <1>7, <1>10, <1>11, <1>12 DEF SessionInv

\* A step that takes the call c out and puts others in that go on with it.
LEMMA StepKeeps ==
  ASSUME SessionInv, NEW c, NEW more,
         calls' = (calls \ {c}) \union more, \A e \in more : IsCall(e),
         authed' # "unknown",
         InPlace' \/ (\E e \in more : Placing(e)) \/ (~Placing(c) /\ UNCHANGED <<authed, route>>),
         busy' => (\E e \in more : Working(e)) \/ (busy /\ ~Working(c))
  PROVE  SessionInv'
<1>1. \A e \in calls : e # c => e \in calls'
  OBVIOUS
<1>2. \A e \in more : e \in calls'
  OBVIOUS
<1>3. \A e \in calls' : IsCall(e)
  BY DEF SessionInv
<1>4. InPlace' \/ \E e \in calls' : Placing(e)
  <2>1. CASE InPlace' \/ \E e \in more : Placing(e)
    BY <2>1, <1>2
  <2>2. CASE ~Placing(c) /\ UNCHANGED <<authed, route>>
    <3>1. InPlace => InPlace'
      BY <2>2 DEF InPlace
    <3>2. (\E e \in calls : Placing(e)) => \E e \in calls' : Placing(e)
      BY <2>2, <1>1
    <3> QED BY <3>1, <3>2 DEF SessionInv
  <2> QED BY <2>1, <2>2
<1>5. busy' => \E e \in calls' : Working(e)
  <2>1. CASE busy /\ ~Working(c)
    <3>1. PICK e \in calls : Working(e)
      BY <2>1 DEF SessionInv
    <3> QED BY <3>1, <2>1, <1>1
  <2> QED BY <2>1, <1>2
<1> QED BY <1>3, <1>4, <1>5 DEF SessionInv

LEMMA CallEnds ==
  ASSUME SessionInv, NEW c, calls' = calls \ {c}, authed' # "unknown",
         InPlace' \/ (~Placing(c) /\ UNCHANGED <<authed, route>>),
         busy' => busy /\ ~Working(c)
  PROVE  SessionInv'
<1> DEFINE more == {}
<1>1. calls' = (calls \ {c}) \union more /\ \A e \in more : IsCall(e)
  OBVIOUS
<1> HIDE DEF more
<1> QED BY <1>1, StepKeeps

\* The call d follows the call c.
LEMMA CallGoesOn ==
  ASSUME SessionInv, NEW c, NEW kind, NEW next,
         calls' = (calls \ {c}) \union {S!Call(kind, next)}, authed' # "unknown",
         InPlace' \/ Placing(S!Call(kind, next)) \/ (~Placing(c) /\ UNCHANGED <<authed, route>>),
         busy' => Working(S!Call(kind, next)) \/ (busy /\ ~Working(c))
  PROVE  SessionInv'
<1> DEFINE more == {S!Call(kind, next)}
<1>1. calls' = (calls \ {c}) \union more /\ \A e \in more : IsCall(e)
  BY CallFacts
<1>2. /\ Placing(S!Call(kind, next)) => \E e \in more : Placing(e)
      /\ Working(S!Call(kind, next)) => \E e \in more : Working(e)
  OBVIOUS
<1> HIDE DEF more
<1> QED BY <1>1, <1>2, StepKeeps

\* Wherever a navigation ends, the page is in its place.
LEMMA PlacedIsInPlace ==
  /\ S!Placed /\ authed' # "unknown" => InPlace'
  /\ S!Lost => InPlace' \/ UNCHANGED <<authed, route>>
  /\ \A c : S!StatusKnown(c) => authed' # "unknown"
BY DEF S!Placed, S!Guarded, S!Lost, S!StatusKnown, InPlace

LEMMA Follow ==
  /\ \A k : Working(S!Call(k, "enter"))
  /\ \A k, n : k \notin {"status", "load"} => Working(S!Call(k, n))
  /\ Placing(S!Call("status", "enter")) /\ Placing(S!Call("load", "enter"))
  /\ Placing(S!Call("status", "leave"))
BY CallFacts DEF Placing, Working

LEMMA ComesKeeps ==
  ASSUME SessionInv, NEW c \in calls, S!Comes(c)
  PROVE  SessionInv'
<1> USE CallFacts, PlacedIsInPlace, Follow
<1>0. ~(c.kind = "status" /\ c.next = "place") => authed # "unknown"
  BY DEF SessionInv
<1>1. CASE S!Probed(c)
  <2>1. InPlace' /\ UNCHANGED busy /\ ~Working(c) /\ authed' # "unknown"
    BY <1>1 DEF S!Probed, Working
  <2>2. CASE calls' = calls \ {c}
    BY <2>1, <2>2, CallEnds
  <2>3. CASE calls' = (calls \ {c}) \union {S!Call("load", "stay")}
    BY <2>1, <2>3, CallGoesOn
  <2> QED BY <1>1, <2>2, <2>3 DEF S!Probed
<1>2. CASE S!StatusOfEnter(c)
  <2>1. calls' = (calls \ {c}) \union {S!Call("load", "enter")} /\ authed' # "unknown"
    BY <1>2 DEF S!StatusOfEnter
  <2> QED BY <2>1, CallGoesOn
<1>3. CASE S!LoadComes(c)
  <2>1. ~Placing(c) /\ ~Working(c) /\ calls' = calls \ {c} /\ UNCHANGED busy
    BY <1>3 DEF S!LoadComes, Placing, Working
  <2>2. InPlace' \/ UNCHANGED <<authed, route>>
    BY <1>3 DEF S!LoadComes
  <2>3. authed' # "unknown"
    BY <1>0, <1>3, <2>2 DEF S!LoadComes, InPlace
  <2> QED BY <2>1, <2>2, <2>3, CallEnds
<1>4. CASE S!LoadOfEnter(c)
  <2>1. calls' = calls \ {c} /\ busy' = FALSE /\ S!Placed /\ authed' # "unknown"
    BY <1>0, <1>4 DEF S!LoadOfEnter
  <2> QED BY <2>1, CallEnds
<1>5. CASE S!SignsIn(c)
  <2>1. CASE S!Enter(c)
    BY <2>1, CallGoesOn DEF S!Enter
  <2>2. CASE /\ c.kind = "login" /\ busy' = FALSE /\ calls' = calls \ {c}
             /\ UNCHANGED <<authed, route>>
    BY <1>0, <2>2, CallEnds DEF Placing
  <2> QED BY <1>5, <2>1, <2>2 DEF S!SignsIn
<1>6. CASE S!SetsUp(c)
  <2>1. c.kind \in {"setup", "login", "totpSetup"} /\ UNCHANGED <<authed, route>>
    BY <1>6 DEF S!SetsUp
  <2>2. ~Placing(c) /\ authed' # "unknown"
    BY <1>0, <2>1 DEF Placing
  <2>3. CASE calls' = (calls \ {c}) \union {S!Call("login", "wizard")}
    BY <2>1, <2>2, <2>3, CallGoesOn
  <2>4. CASE calls' = (calls \ {c}) \union {S!Call("totpSetup", "wizard")}
    BY <2>1, <2>2, <2>4, CallGoesOn
  <2>5. CASE calls' = calls \ {c} /\ busy' = FALSE
    BY <2>1, <2>2, <2>5, CallEnds
  <2> QED BY <1>6, <2>3, <2>4, <2>5 DEF S!SetsUp
<1>7. CASE S!Ends(c)
  <2>1. ~Placing(c) /\ calls' = calls \ {c} /\ busy' = FALSE
    BY <1>7 DEF S!Ends, Placing
  <2>2. InPlace' \/ UNCHANGED <<authed, route>>
    BY <1>7 DEF S!Ends
  <2>3. authed' # "unknown"
    BY <1>0, <1>7, <2>2 DEF S!Ends, InPlace
  <2> QED BY <2>1, <2>2, <2>3, CallEnds
<1>8. CASE S!Leaves(c)
  <2>1. CASE /\ c.kind \in {"password", "revoke"} /\ UNCHANGED <<authed, route>>
             /\ calls' = (calls \ {c}) \union {S!Call("logout", "leave")}
    BY <1>0, <2>1, CallGoesOn DEF Placing
  <2>2. CASE /\ c.kind = "logout" /\ busy' = FALSE /\ authed' = "no"
             /\ calls' = (calls \ {c}) \union {S!Call("status", "leave")}
    BY <2>2, CallGoesOn
  <2>3. CASE /\ c.kind = "status" /\ c.next = "leave" /\ S!StatusKnown(c) /\ S!Placed
             /\ calls' = calls \ {c} /\ UNCHANGED busy
    BY <2>3, CallEnds DEF Working
  <2> QED BY <1>8, <2>1, <2>2, <2>3 DEF S!Leaves
<1> QED BY <1>1, <1>2, <1>3, <1>4, <1>5, <1>6, <1>7, <1>8 DEF S!Comes

LEMMA CallIsMade ==
  ASSUME SessionInv, NEW kind, NEW next,
         calls' = calls \union {S!Call(kind, next)}, authed # "unknown",
         UNCHANGED <<authed, route>>, busy' => Working(S!Call(kind, next))
  PROVE  SessionInv'
<1>1. (\E e \in calls : Placing(e)) => \E e \in calls' : Placing(e)
  OBVIOUS
<1>2. InPlace => InPlace'
  BY DEF InPlace
<1>3. \A e \in calls' : IsCall(e)
  BY CallFacts DEF SessionInv
<1> QED BY <1>1, <1>2, <1>3 DEF SessionInv

\* What the user does adds a call.
LEMMA UserKeeps == ASSUME SessionInv, S!User PROVE SessionInv'
<1> USE CallFacts, Follow
<1>1. authed # "unknown"
  <2>1. route \in {"login", "app"}
    BY DEF S!User, S!doSetup, S!doLogin, S!submitCode, S!skipEnroll, S!Settings, S!logout, S!Browse
  <2> QED BY <2>1 DEF SessionInv
<1>2. ASSUME NEW kind, NEW next, NEW spins \in BOOLEAN, S!Click(kind, next, spins),
             spins => Working(S!Call(kind, next))
      PROVE  SessionInv'
  <2>1. /\ calls' = calls \union {S!Call(kind, next)} /\ UNCHANGED <<authed, route>>
        /\ busy' = spins
    BY <1>2 DEF S!Click
  <2> QED BY <1>1, <1>2, <2>1, CallIsMade
<1>3. CASE S!skipEnroll
  <2>1. S!Enter(S!Call("login", "enter"))
    BY <1>3 DEF S!skipEnroll
  <2>2. /\ calls' = (calls \ {S!Call("login", "enter")}) \union {S!Call("status", "enter")}
        /\ authed' = "yes"
    BY <2>1 DEF S!Enter
  <2> QED BY <2>2, CallGoesOn
<1>4. CASE S!Settings
  BY <1>2, <1>4 DEF S!Settings
<1>5. CASE S!doSetup \/ S!doLogin \/ S!submitCode \/ S!logout \/ S!Browse
  BY <1>2, <1>5 DEF S!doSetup, S!doLogin, S!submitCode, S!logout, S!Browse
<1> QED BY <1>3, <1>4, <1>5 DEF S!User

LEMMA SessionStep == SessionInv /\ [S!Next]_(S!vars) => SessionInv'
<1>1. ASSUME SessionInv, UNCHANGED <<calls, authed, route, busy>> PROVE SessionInv'
  <2>1. InPlace => InPlace'
    BY <1>1 DEF InPlace
  <2> QED BY <1>1, <2>1 DEF SessionInv
<1>2. S!SessionEnds \/ S!StreamBreaks \/ UNCHANGED S!vars => UNCHANGED <<calls, authed, route, busy>>
  BY DEF S!SessionEnds, S!StreamBreaks, S!vars, S!page
<1> QED BY <1>1, <1>2, ServeKeeps, ComesKeeps, UserKeeps DEF S!Next

LEMMA SessionShow == SessionInv => S!PlacedBySession /\ S!FormsComeBack
BY DEF SessionInv, InPlace, S!PlacedBySession, S!FormsComeBack

\* For any clicks, lost sessions and order of the answers: when everything has been
\* answered the page is where its session says, and its forms are enabled.
THEOREM SessionPlaces == S!Spec => [](S!PlacedBySession /\ S!FormsComeBack)
BY SessionStart, SessionStep, SessionShow, PTL DEF S!Spec

-----------------------------------------------------------------------------
(* The least and the greatest of a set of numbers.                          *)

LEMMA Least ==
  ASSUME NEW T \in SUBSET Nat, T # {}
  PROVE  \E m \in T : \A k \in T : m <= k
<1> DEFINE R == {ss \in Nat \X Nat : ss[1] < ss[2]}
<1>1. IsWellFoundedOn(R, Nat)
  BY NatLessThanWellFounded DEF OpToRel
<1>2. \E x \in T : \A y \in T : <<y, x>> \notin R
  <2> HIDE DEF R
  <2> QED BY <1>1, WFMin
<1>3. PICK x \in T : \A y \in T : <<y, x>> \notin R
  BY <1>2
<1>4. ASSUME NEW y \in T PROVE x <= y
  <2>1. <<y, x>> \in Nat \X Nat /\ <<y, x>>[1] = y /\ <<y, x>>[2] = x
    OBVIOUS
  <2>2. ~(y < x)
    BY <1>3, <2>1
  <2> QED BY <2>2
<1> QED BY <1>4

LEMMA Greatest ==
  ASSUME NEW T \in SUBSET Nat, T # {}, NEW n \in Nat, \A k \in T : k <= n
  PROVE  \E m \in T : \A k \in T : k <= m
<1> DEFINE U == {x \in Nat : \A k \in T : k <= x}
<1>1. PICK u \in U : \A x \in U : u <= x
  <2>1. U \in SUBSET Nat /\ n \in U
    OBVIOUS
  <2> HIDE DEF U
  <2> QED BY <2>1, Least
<1>2. u \in T
  <2> SUFFICES ASSUME u \notin T PROVE FALSE
    OBVIOUS
  <2>1. u \in Nat /\ \A k \in T : k <= u
    BY <1>1
  <2>8. \A k \in T : k \in Nat /\ k # u
    OBVIOUS
  <2>7. \A x \in Nat : (\A k \in T : k <= x) => u <= x
    BY <1>1
  <2>4. PICK x \in T : TRUE
    OBVIOUS
  <2>5. x \in Nat /\ x <= u /\ x # u
    BY <2>1, <2>8
  <2>6. u - 1 \in Nat
    BY <2>1, <2>5
  <2>2. ASSUME NEW k \in T PROVE k <= u - 1
    <3>1. k \in Nat /\ k <= u /\ k # u
      BY <2>1, <2>8
    <3> QED BY <2>1, <3>1
  <2>3. u <= u - 1
    BY <2>7, <2>2, <2>6
  <2> QED BY <2>1, <2>3
<1> QED BY <1>1, <1>2

-----------------------------------------------------------------------------
(* The events that a page has not handled, E, by their numbers: those from   *)
(* h + 1 to n.                                                              *)

Unhandled(E, h, n) == h \in Nat /\ n \in Nat /\ h <= n /\ DOMAIN E = h + 1 .. n

\* An event that sets the state of a row, and the state it sets.
Sets(e, i) ==
  e.type \in {"updated", "removed"} /\ e.id = i /\ (e.type = "updated" => e.state # "")
SetsState(E, k, i) == k \in DOMAIN E /\ Sets(E[k], i)
StateOf(e) == IF e.type = "removed" THEN "absent" ELSE e.state

\* An event that makes the page read again whatever the row is.
Asks(e, i) ==
  e.type \in {"updated", "changedIp"} /\ e.id = i /\ (e.type = "updated" => e.state = "")
Touches(E, k, i) == k \in DOMAIN E /\ Asks(E[k], i)

NoneIn(E, lo, hi, i) == \A k \in DOMAIN E : lo < k /\ k < hi => ~SetsState(E, k, i)
Silent(E, lo, i) == \A k \in DOMAIN E : lo < k => ~SetsState(E, k, i)
IsFirst(E, lo, k, i) == SetsState(E, k, i) /\ lo < k /\ NoneIn(E, lo, k, i)
IsLast(E, k, i) == SetsState(E, k, i) /\ Silent(E, k, i)
Follows(E, m, k, i) ==
  SetsState(E, m, i) /\ SetsState(E, k, i) /\ m < k /\ NoneIn(E, m, k, i)

\* One knows z as the state of i after the event lo.  The later events will
\* make the page read again, whatever the row has become meanwhile ...
SureToRead(E, lo, z, i) ==
  \E k \in DOMAIN E :
    /\ lo < k
    /\ \/ Touches(E, k, i)
       \/ /\ SetsState(E, k, i) /\ StateOf(E[k]) \in I!Stable
          /\ IsFirst(E, lo, k, i) => z \notin I!Stable \ {StateOf(E[k])}

\* ... or because one of them repeats the state of the row, or finds no row.
Repeats(E, lo, z, i) ==
  \E k \in DOMAIN E :
    /\ lo < k /\ SetsState(E, k, i) /\ StateOf(E[k]) # "absent"
    /\ \/ \E m \in DOMAIN E : lo < m /\ Follows(E, m, k, i) /\ StateOf(E[m]) \in {"absent", StateOf(E[k])}
       \/ IsFirst(E, lo, k, i) /\ z \in {"absent", StateOf(E[k])}

FirstIsChange(E, lo, z, i) ==
  \A k \in DOMAIN E : IsFirst(E, lo, k, i) => ~(z \in I!Stable /\ StateOf(E[k]) \in I!Stable)

\* One who knows state z and address ip after the event lo will know those of
\* the stored row c, or read again.
Knows(E, lo, z, ip, c, i) ==
  \/ SureToRead(E, lo, z, i)
  \/ /\ FirstIsChange(E, lo, z, i)
     /\ \/ Repeats(E, lo, z, i)
        \/ /\ Silent(E, lo, i) => z = c.state
           /\ z # "absent" /\ c.state # "absent" => ip = c.ip

\* What the server may do to a state, as the events tell it.
Legal(a, b) ==
  /\ a \in I!Stable => b = a \/ b \notin I!Stable
  /\ a \in I!Transitional => b \in I!Stable \union {a, "TERMINATING", "absent"}
  /\ a = "TERMINATING" => b \in {"TERMINATING", "absent"}

IsPath(E, i) == \A m, k \in DOMAIN E : Follows(E, m, k, i) => Legal(StateOf(E[m]), StateOf(E[k]))
EndsAt(E, i, c) == \A k \in DOMAIN E : IsLast(E, k, i) => StateOf(E[k]) = c.state

\* A list served after the event hi carries what the events up to hi set.
Carries(E, hi, z, i) ==
  \A k \in DOMAIN E : k <= hi /\ SetsState(E, k, i) /\ NoneIn(E, k, hi + 1, i) => StateOf(E[k]) = z

LEMMA FirstExists ==
  ASSUME NEW E, NEW h, NEW n, Unhandled(E, h, n), NEW lo \in Nat, NEW i, ~Silent(E, lo, i)
  PROVE  \E k \in DOMAIN E : IsFirst(E, lo, k, i)
<1> DEFINE T == {k \in DOMAIN E : lo < k /\ SetsState(E, k, i)}
<1>1. T \in SUBSET Nat /\ T # {} /\ \A k \in T : k \in DOMAIN E /\ lo < k /\ SetsState(E, k, i)
  BY DEF Unhandled, Silent
<1>2. \A k \in DOMAIN E : k \in Nat
  BY DEF Unhandled
<1>3. \A k \in DOMAIN E : lo < k /\ SetsState(E, k, i) => k \in T
  OBVIOUS
<1> HIDE DEF T
<1>4. PICK k \in T : \A j \in T : k <= j
  BY <1>1, Least
<1>5. NoneIn(E, lo, k, i)
  <2> SUFFICES ASSUME NEW j \in DOMAIN E, lo < j, j < k, SetsState(E, j, i) PROVE FALSE
    BY DEF NoneIn
  <2>1. k <= j /\ k \in Nat /\ j \in Nat
    BY <1>1, <1>2, <1>3, <1>4
  <2> QED BY <2>1
<1> QED BY <1>1, <1>4, <1>5 DEF IsFirst

\* The last event up to hi that sets the state.
LEMMA LastExists ==
  ASSUME NEW E, NEW h, NEW n, Unhandled(E, h, n), NEW hi \in Nat, NEW i,
         NEW j \in DOMAIN E, SetsState(E, j, i), j < hi
  PROVE  \E m \in DOMAIN E : SetsState(E, m, i) /\ m < hi /\ NoneIn(E, m, hi, i) /\ j <= m
<1> DEFINE T == {k \in DOMAIN E : k < hi /\ SetsState(E, k, i)}
<1>1. T \in SUBSET Nat /\ j \in T /\ \A k \in T : k \in DOMAIN E /\ k < hi /\ SetsState(E, k, i)
  BY DEF Unhandled
<1>2. \A k \in DOMAIN E : k \in Nat
  BY DEF Unhandled
<1>3. \A k \in DOMAIN E : k < hi /\ SetsState(E, k, i) => k \in T
  OBVIOUS
<1>4. \A k \in T : k <= hi
  BY <1>1, <1>2
<1> HIDE DEF T
<1>5. PICK m \in T : \A k \in T : k <= m
  BY <1>1, <1>4, Greatest
<1>6. NoneIn(E, m, hi, i)
  <2> SUFFICES ASSUME NEW k \in DOMAIN E, m < k, k < hi, SetsState(E, k, i) PROVE FALSE
    BY DEF NoneIn
  <2>1. k <= m /\ k \in Nat /\ m \in Nat
    BY <1>1, <1>2, <1>3, <1>5
  <2> QED BY <2>1
<1> QED BY <1>1, <1>5, <1>6

-----------------------------------------------------------------------------
(* An event is published.                                                   *)

Appended(E, F, h, n) ==
  Unhandled(E, h, n) /\ Unhandled(F, h, n + 1) /\ \A k \in DOMAIN E : F[k] = E[k]

LEMMA AppendedKeeps ==
  ASSUME NEW E, NEW F, NEW h, NEW n, Appended(E, F, h, n), NEW i
  PROVE  /\ n \in Nat /\ n + 1 \in DOMAIN F /\ n + 1 \notin DOMAIN E
         /\ DOMAIN F = DOMAIN E \union {n + 1}
         /\ \A k \in DOMAIN E : k \in Nat /\ k < n + 1 /\ ~(n + 1 < k)
         /\ \A k \in DOMAIN E : /\ SetsState(F, k, i) <=> SetsState(E, k, i)
                                /\ Touches(F, k, i) <=> Touches(E, k, i)
                                /\ StateOf(F[k]) = StateOf(E[k])
<1>1. /\ n \in Nat /\ n + 1 \in DOMAIN F /\ n + 1 \notin DOMAIN E
      /\ DOMAIN F = DOMAIN E \union {n + 1}
      /\ \A k \in DOMAIN E : k \in Nat /\ k < n + 1 /\ ~(n + 1 < k)
  BY DEF Appended, Unhandled
<1>2. \A k \in DOMAIN E : F[k] = E[k] /\ k \in DOMAIN F
  BY <1>1 DEF Appended
<1> QED BY <1>1, <1>2 DEF SetsState, Touches

LEMMA AppendedOrder ==
  ASSUME NEW E, NEW F, NEW h, NEW n, Appended(E, F, h, n), NEW i
  PROVE  /\ \A lo : \A k \in DOMAIN E : IsFirst(F, lo, k, i) <=> IsFirst(E, lo, k, i)
         /\ \A m, k \in DOMAIN E : Follows(F, m, k, i) <=> Follows(E, m, k, i)
<1>1. /\ n \in Nat /\ n + 1 \in DOMAIN F /\ DOMAIN F = DOMAIN E \union {n + 1}
      /\ \A k \in DOMAIN E : k \in Nat /\ k < n + 1 /\ ~(n + 1 < k)
      /\ \A k \in DOMAIN E : SetsState(F, k, i) <=> SetsState(E, k, i)
  BY AppendedKeeps
<1>2. ASSUME NEW lo, NEW k \in DOMAIN E PROVE NoneIn(F, lo, k, i) <=> NoneIn(E, lo, k, i)
  BY <1>1 DEF NoneIn
<1> QED BY <1>1, <1>2 DEF IsFirst, Follows

\* What the next event finds, of those that precede it.
LEMMA AppendedLast ==
  ASSUME NEW E, NEW F, NEW h, NEW n, Appended(E, F, h, n), NEW i, SetsState(F, n + 1, i)
  PROVE  /\ \A lo : Silent(E, lo, i) /\ lo < n + 1 => IsFirst(F, lo, n + 1, i)
         /\ \A lo : ~Silent(E, lo, i) => ~IsFirst(F, lo, n + 1, i)
         /\ \A m \in DOMAIN E : Follows(F, m, n + 1, i) <=> IsLast(E, m, i)
         /\ \A k : IsLast(F, k, i) => k = n + 1
         /\ \A lo : lo < n + 1 => ~Silent(F, lo, i)
         /\ \A k \in DOMAIN F : ~Follows(F, n + 1, k, i)
<1>1. /\ n \in Nat /\ n + 1 \in DOMAIN F /\ DOMAIN F = DOMAIN E \union {n + 1}
      /\ \A k \in DOMAIN E : k \in Nat /\ k < n + 1 /\ ~(n + 1 < k)
      /\ \A k \in DOMAIN E : SetsState(F, k, i) <=> SetsState(E, k, i)
  BY AppendedKeeps
<1>2. ~(n + 1 < n + 1)
  BY <1>1
<1>3. ASSUME NEW lo PROVE NoneIn(F, lo, n + 1, i) <=> Silent(E, lo, i)
  BY <1>1, <1>2 DEF NoneIn, Silent
<1>4. \A lo : Silent(E, lo, i) /\ lo < n + 1 => IsFirst(F, lo, n + 1, i)
  BY <1>3 DEF IsFirst
<1>5. \A lo : ~Silent(E, lo, i) => ~IsFirst(F, lo, n + 1, i)
  BY <1>3 DEF IsFirst
<1>6. \A m \in DOMAIN E : Follows(F, m, n + 1, i) <=> IsLast(E, m, i)
  BY <1>1, <1>3 DEF Follows, IsLast
<1>7. \A k : IsLast(F, k, i) => k = n + 1
  BY <1>1 DEF IsLast, Silent, SetsState
<1>8. \A lo : lo < n + 1 => ~Silent(F, lo, i)
  BY <1>1 DEF Silent
<1>9. \A k \in DOMAIN F : ~Follows(F, n + 1, k, i)
  BY <1>1, <1>2 DEF Follows
<1> QED BY <1>4, <1>5, <1>6, <1>7, <1>8, <1>9

LEMMA AppendedSure ==
  ASSUME NEW E, NEW F, NEW h, NEW n, Appended(E, F, h, n), NEW i, NEW lo, NEW z
  PROVE  /\ SureToRead(E, lo, z, i) => SureToRead(F, lo, z, i)
         /\ Repeats(E, lo, z, i) => Repeats(F, lo, z, i)
<1>1. /\ DOMAIN F = DOMAIN E \union {n + 1}
      /\ \A k \in DOMAIN E : /\ SetsState(F, k, i) <=> SetsState(E, k, i)
                             /\ Touches(F, k, i) <=> Touches(E, k, i)
                             /\ StateOf(F[k]) = StateOf(E[k])
  BY AppendedKeeps
<1>2. /\ \A k \in DOMAIN E : IsFirst(F, lo, k, i) <=> IsFirst(E, lo, k, i)
      /\ \A m, k \in DOMAIN E : Follows(F, m, k, i) <=> Follows(E, m, k, i)
  BY AppendedOrder
<1>3. ASSUME SureToRead(E, lo, z, i) PROVE SureToRead(F, lo, z, i)
  <2>1. PICK k \in DOMAIN E :
          /\ lo < k
          /\ \/ Touches(E, k, i)
             \/ /\ SetsState(E, k, i) /\ StateOf(E[k]) \in I!Stable
                /\ IsFirst(E, lo, k, i) => z \notin I!Stable \ {StateOf(E[k])}
    BY <1>3 DEF SureToRead
  <2> QED BY <1>1, <1>2, <2>1 DEF SureToRead
<1>4. ASSUME Repeats(E, lo, z, i) PROVE Repeats(F, lo, z, i)
  <2>1. PICK k \in DOMAIN E :
          /\ lo < k /\ SetsState(E, k, i) /\ StateOf(E[k]) # "absent"
          /\ \/ \E m \in DOMAIN E : lo < m /\ Follows(E, m, k, i) /\ StateOf(E[m]) \in {"absent", StateOf(E[k])}
             \/ IsFirst(E, lo, k, i) /\ z \in {"absent", StateOf(E[k])}
    BY <1>4 DEF Repeats
  <2>2. CASE IsFirst(E, lo, k, i) /\ z \in {"absent", StateOf(E[k])}
    BY <1>1, <1>2, <2>1, <2>2 DEF Repeats
  <2>3. CASE \E m \in DOMAIN E : lo < m /\ Follows(E, m, k, i) /\ StateOf(E[m]) \in {"absent", StateOf(E[k])}
    BY <1>1, <1>2, <2>1, <2>3 DEF Repeats
  <2> QED BY <2>1, <2>2, <2>3
<1> QED BY <1>3, <1>4

\* An event that sets no state of i, and the row it leaves.
LEMMA AppendedOther ==
  ASSUME NEW E, NEW F, NEW h, NEW n, Appended(E, F, h, n), NEW i, ~SetsState(F, n + 1, i),
         NEW c, NEW d, d.state = c.state, d.ip = c.ip \/ Touches(F, n + 1, i)
  PROVE  /\ IsPath(E, i) => IsPath(F, i)
         /\ EndsAt(E, i, c) => EndsAt(F, i, d)
         /\ \A lo \in Nat : \A z, ip : lo < n + 1 /\ Knows(E, lo, z, ip, c, i) => Knows(F, lo, z, ip, d, i)
<1>1. /\ n + 1 \in DOMAIN F /\ DOMAIN F = DOMAIN E \union {n + 1}
      /\ \A k \in DOMAIN E : k \in Nat /\ k < n + 1 /\ ~(n + 1 < k)
      /\ \A k \in DOMAIN E : /\ SetsState(F, k, i) <=> SetsState(E, k, i)
                             /\ StateOf(F[k]) = StateOf(E[k])
  BY AppendedKeeps
<1>2. /\ \A lo : \A k \in DOMAIN E : IsFirst(F, lo, k, i) <=> IsFirst(E, lo, k, i)
      /\ \A m, k \in DOMAIN E : Follows(F, m, k, i) <=> Follows(E, m, k, i)
  BY AppendedOrder
<1>3. \A lo : ~IsFirst(F, lo, n + 1, i) /\ (Silent(F, lo, i) <=> Silent(E, lo, i))
  BY <1>1 DEF IsFirst, Silent
<1>4. \A k \in DOMAIN F : ~Follows(F, n + 1, k, i) /\ ~Follows(F, k, n + 1, i)
  BY DEF Follows
<1>5. ASSUME IsPath(E, i) PROVE IsPath(F, i)
  BY <1>1, <1>2, <1>4, <1>5 DEF IsPath
<1>6. ASSUME EndsAt(E, i, c) PROVE EndsAt(F, i, d)
  BY <1>1, <1>3, <1>6 DEF EndsAt, IsLast
<1>7. ASSUME NEW lo \in Nat, NEW z, NEW ip, lo < n + 1, Knows(E, lo, z, ip, c, i)
      PROVE  Knows(F, lo, z, ip, d, i)
  <2>1. /\ SureToRead(E, lo, z, i) => SureToRead(F, lo, z, i)
        /\ Repeats(E, lo, z, i) => Repeats(F, lo, z, i)
    BY AppendedSure
  <2>2. FirstIsChange(E, lo, z, i) => FirstIsChange(F, lo, z, i)
    BY <1>1, <1>2, <1>3 DEF FirstIsChange
  <2>3. CASE Touches(F, n + 1, i)
    BY <1>1, <1>7, <2>3 DEF Knows, SureToRead
  <2>4. CASE ~Touches(F, n + 1, i)
    BY <1>3, <1>7, <2>1, <2>2, <2>4 DEF Knows
  <2> QED BY <2>3, <2>4
<1> QED BY <1>5, <1>6, <1>7

\* An event that sets the state of i to that of the row it leaves.
LEMMA AppendedState ==
  ASSUME NEW E, NEW F, NEW h, NEW n, Appended(E, F, h, n), NEW i, SetsState(F, n + 1, i),
         NEW c, NEW d, d.state = StateOf(F[n + 1]), Legal(c.state, d.state),
         \/ d.ip = c.ip /\ c.state # "absent"
         \/ c.state \in {"absent", d.state}
         \/ d.state = "absent"
  PROVE  /\ IsPath(E, i) /\ EndsAt(E, i, c) => IsPath(F, i)
         /\ EndsAt(F, i, d)
         /\ \A lo \in Nat : \A z, ip : lo < n + 1 /\ EndsAt(E, i, c) /\ Knows(E, lo, z, ip, c, i)
                             => Knows(F, lo, z, ip, d, i)
<1>1. /\ n \in Nat /\ n + 1 \in DOMAIN F /\ DOMAIN F = DOMAIN E \union {n + 1}
      /\ \A k \in DOMAIN E : k \in Nat /\ k < n + 1 /\ ~(n + 1 < k)
      /\ \A k \in DOMAIN E : /\ SetsState(F, k, i) <=> SetsState(E, k, i)
                             /\ StateOf(F[k]) = StateOf(E[k])
  BY AppendedKeeps
<1>2. /\ \A lo : \A k \in DOMAIN E : IsFirst(F, lo, k, i) <=> IsFirst(E, lo, k, i)
      /\ \A m, k \in DOMAIN E : Follows(F, m, k, i) <=> Follows(E, m, k, i)
  BY AppendedOrder
<1>3. /\ \A lo : Silent(E, lo, i) /\ lo < n + 1 => IsFirst(F, lo, n + 1, i)
      /\ \A lo : ~Silent(E, lo, i) => ~IsFirst(F, lo, n + 1, i)
      /\ \A m \in DOMAIN E : Follows(F, m, n + 1, i) <=> IsLast(E, m, i)
      /\ \A k : IsLast(F, k, i) => k = n + 1
      /\ \A lo : lo < n + 1 => ~Silent(F, lo, i)
      /\ \A k \in DOMAIN F : ~Follows(F, n + 1, k, i)
  BY AppendedLast
<1>4. ASSUME IsPath(E, i), EndsAt(E, i, c) PROVE IsPath(F, i)
  <2>1. ASSUME NEW m \in DOMAIN E, IsLast(E, m, i) PROVE Legal(StateOf(F[m]), StateOf(F[n + 1]))
    BY <1>1, <1>4, <2>1 DEF EndsAt
  <2> QED BY <1>1, <1>2, <1>3, <1>4, <2>1 DEF IsPath
<1>5. EndsAt(F, i, d)
  BY <1>3 DEF EndsAt
<1>6. ASSUME NEW lo \in Nat, NEW z, NEW ip, lo < n + 1, EndsAt(E, i, c), Knows(E, lo, z, ip, c, i)
      PROVE  Knows(F, lo, z, ip, d, i)
  <2>1. /\ SureToRead(E, lo, z, i) => SureToRead(F, lo, z, i)
        /\ Repeats(E, lo, z, i) => Repeats(F, lo, z, i)
    BY AppendedSure
  <2>2. CASE SureToRead(E, lo, z, i)
    BY <2>1, <2>2 DEF Knows
  <2>3. CASE Repeats(E, lo, z, i) /\ FirstIsChange(E, lo, z, i)
    <3>1. ~Silent(E, lo, i)
      BY <2>3 DEF Repeats, Silent
    <3>2. FirstIsChange(F, lo, z, i)
      BY <1>1, <1>2, <1>3, <2>3, <3>1 DEF FirstIsChange
    <3> QED BY <2>1, <2>3, <3>2 DEF Knows
  <2>4. CASE /\ FirstIsChange(E, lo, z, i) /\ ~Silent(E, lo, i)
             /\ z # "absent" /\ c.state # "absent" => ip = c.ip
    <3>1. FirstIsChange(F, lo, z, i)
      BY <1>1, <1>2, <1>3, <2>4 DEF FirstIsChange
    <3>2. PICK m \in DOMAIN E : lo < m /\ IsLast(E, m, i)
      <4>4. PICK j \in DOMAIN E : lo < j /\ SetsState(E, j, i)
        BY <2>4 DEF Silent
      <4>1. PICK m \in DOMAIN E : SetsState(E, m, i) /\ m < n + 1 /\ NoneIn(E, m, n + 1, i) /\ j <= m
        BY <1>1, <4>4, LastExists DEF Appended
      <4>2. IsLast(E, m, i)
        BY <1>1, <4>1 DEF IsLast, Silent, NoneIn
      <4>3. lo < m
        BY <1>1, <4>1, <4>4
      <4> QED BY <4>2, <4>3
    <3>3. StateOf(F[m]) = c.state /\ Follows(F, m, n + 1, i)
      BY <1>1, <1>3, <1>6, <3>2 DEF EndsAt
    <3>4. CASE c.state \in {"absent", d.state} /\ d.state # "absent"
      BY <1>1, <1>6, <3>1, <3>2, <3>3, <3>4 DEF Knows, Repeats
    <3>5. CASE d.state = "absent" \/ (d.ip = c.ip /\ c.state # "absent")
      BY <1>3, <1>6, <2>4, <3>1, <3>5 DEF Knows
    <3> QED BY <3>4, <3>5
  <2>5. CASE /\ Silent(E, lo, i) /\ z = c.state
             /\ z # "absent" /\ c.state # "absent" => ip = c.ip
    <3>1. IsFirst(F, lo, n + 1, i) /\ ~Silent(F, lo, i)
      BY <1>3, <1>6, <2>5
    <3>2. \A k \in DOMAIN E : ~IsFirst(F, lo, k, i)
      BY <1>2, <2>5 DEF IsFirst, Silent
    <3>3. CASE z \in I!Stable /\ d.state \in I!Stable
      <4>1. d.state = z
        BY <2>5, <3>3 DEF Legal
      <4> QED BY <1>1, <1>6, <3>1, <3>3, <4>1 DEF Knows, SureToRead, IsFirst
    <3>4. CASE ~(z \in I!Stable /\ d.state \in I!Stable)
      <4>1. FirstIsChange(F, lo, z, i)
        BY <1>1, <3>2, <3>4 DEF FirstIsChange
      <4>2. CASE c.state \in {"absent", d.state} /\ d.state # "absent"
        BY <1>1, <1>6, <2>5, <3>1, <4>1, <4>2 DEF Knows, Repeats, IsFirst
      <4>3. CASE d.state = "absent" \/ (d.ip = c.ip /\ c.state # "absent")
        BY <2>5, <3>1, <4>1, <4>3 DEF Knows
      <4> QED BY <4>2, <4>3
    <3> QED BY <3>3, <3>4
  <2> QED BY <1>6, <2>2, <2>3, <2>4, <2>5 DEF Knows
<1> QED BY <1>4, <1>5, <1>6

-----------------------------------------------------------------------------
(* The page handles the event h + 1.                                        *)

Dropped(E, F, h, n) ==
  Unhandled(E, h, n) /\ h < n /\ Unhandled(F, h + 1, n) /\ \A k \in DOMAIN F : F[k] = E[k]

LEMMA DroppedKeeps ==
  ASSUME NEW E, NEW F, NEW h, NEW n, Dropped(E, F, h, n), NEW i
  PROVE  /\ h \in Nat /\ h < h + 1 /\ h + 1 \in DOMAIN E /\ h + 1 \notin DOMAIN F
         /\ DOMAIN E = {h + 1} \union DOMAIN F
         /\ \A k \in DOMAIN F : k \in Nat /\ h < k /\ h + 1 < k /\ ~(k < h + 1)
         /\ \A k \in DOMAIN F : /\ SetsState(F, k, i) <=> SetsState(E, k, i)
                                /\ Touches(F, k, i) <=> Touches(E, k, i)
                                /\ StateOf(F[k]) = StateOf(E[k])
<1>1. /\ h \in Nat /\ h < h + 1 /\ h + 1 \in DOMAIN E /\ h + 1 \notin DOMAIN F
      /\ DOMAIN E = {h + 1} \union DOMAIN F
      /\ \A k \in DOMAIN F : k \in Nat /\ h < k /\ h + 1 < k /\ ~(k < h + 1)
  BY DEF Dropped, Unhandled
<1>2. \A k \in DOMAIN F : F[k] = E[k] /\ k \in DOMAIN E
  BY <1>1 DEF Dropped
<1> QED BY <1>1, <1>2 DEF SetsState, Touches

LEMMA DroppedOrder ==
  ASSUME NEW E, NEW F, NEW h, NEW n, Dropped(E, F, h, n), NEW i
  PROVE  /\ \A m, k \in DOMAIN F : Follows(F, m, k, i) <=> Follows(E, m, k, i)
         /\ \A lo \in Nat : h < lo =>
              \A k \in DOMAIN F : IsFirst(F, lo, k, i) <=> IsFirst(E, lo, k, i)
         /\ \A k \in DOMAIN F : IsLast(F, k, i) <=> IsLast(E, k, i)
<1>1. /\ h \in Nat /\ h + 1 \in DOMAIN E /\ DOMAIN E = {h + 1} \union DOMAIN F
      /\ \A k \in DOMAIN F : k \in Nat /\ h < k /\ h + 1 < k /\ ~(k < h + 1)
      /\ \A k \in DOMAIN F : SetsState(F, k, i) <=> SetsState(E, k, i)
  BY DroppedKeeps
<1>2. ASSUME NEW lo \in Nat, h < lo, NEW k \in DOMAIN F PROVE NoneIn(F, lo, k, i) <=> NoneIn(E, lo, k, i)
  <2>1. ~(lo < h + 1)
    BY <1>1, <1>2
  <2> QED BY <1>1, <2>1 DEF NoneIn
<1>3. ASSUME NEW k \in DOMAIN F PROVE Silent(F, k, i) <=> Silent(E, k, i)
  BY <1>1 DEF Silent
<1> QED BY <1>1, <1>2, <1>3 DEF IsFirst, Follows, IsLast

LEMMA DroppedHead ==
  ASSUME NEW E, NEW F, NEW h, NEW n, Dropped(E, F, h, n), NEW i
  PROVE  /\ SetsState(E, h + 1, i) => IsFirst(E, h, h + 1, i)
         /\ SetsState(E, h + 1, i) => \A k \in DOMAIN F : ~IsFirst(E, h, k, i)
         /\ SetsState(E, h + 1, i) =>
              \A k \in DOMAIN F : Follows(E, h + 1, k, i) <=> IsFirst(F, h + 1, k, i)
         /\ ~SetsState(E, h + 1, i) =>
              \A k \in DOMAIN F : IsFirst(E, h, k, i) <=> IsFirst(F, h + 1, k, i)
         /\ SetsState(E, h + 1, i) /\ Silent(F, h + 1, i) => IsLast(E, h + 1, i)
         /\ ~SetsState(E, h + 1, i) => (Silent(E, h, i) <=> Silent(F, h + 1, i))
         /\ \A k \in DOMAIN F : ~Follows(E, k, h + 1, i)
<1>1. /\ h \in Nat /\ h < h + 1 /\ h + 1 \in DOMAIN E /\ DOMAIN E = {h + 1} \union DOMAIN F
      /\ \A k \in DOMAIN F : k \in Nat /\ h < k /\ h + 1 < k /\ ~(k < h + 1)
      /\ \A k \in DOMAIN F : SetsState(F, k, i) <=> SetsState(E, k, i)
  BY DroppedKeeps
<1>2. ~(h + 1 < h + 1)
  BY <1>1
<1>3. ASSUME NEW k \in DOMAIN F PROVE NoneIn(E, h + 1, k, i) <=> NoneIn(F, h + 1, k, i)
  BY <1>1, <1>2 DEF NoneIn
<1>4. SetsState(E, h + 1, i) => IsFirst(E, h, h + 1, i)
  BY <1>1, <1>2 DEF IsFirst, NoneIn
<1>5. SetsState(E, h + 1, i) => \A k \in DOMAIN F : ~IsFirst(E, h, k, i)
  BY <1>1 DEF IsFirst, NoneIn
<1>6. SetsState(E, h + 1, i) =>
        \A k \in DOMAIN F : Follows(E, h + 1, k, i) <=> IsFirst(F, h + 1, k, i)
  BY <1>1, <1>3 DEF IsFirst, Follows
<1>7. ASSUME ~SetsState(E, h + 1, i), NEW k \in DOMAIN F
      PROVE  IsFirst(E, h, k, i) <=> IsFirst(F, h + 1, k, i)
  <2>1. NoneIn(E, h, k, i) <=> NoneIn(F, h + 1, k, i)
    BY <1>1, <1>7 DEF NoneIn
  <2> QED BY <1>1, <2>1 DEF IsFirst
<1>8. SetsState(E, h + 1, i) /\ Silent(F, h + 1, i) => IsLast(E, h + 1, i)
  BY <1>1, <1>2 DEF IsLast, Silent
<1>9. ~SetsState(E, h + 1, i) => (Silent(E, h, i) <=> Silent(F, h + 1, i))
  BY <1>1 DEF Silent
<1>10. \A k \in DOMAIN F : ~Follows(E, k, h + 1, i)
  BY <1>1 DEF Follows
<1> QED BY <1>4, <1>5, <1>6, <1>7, <1>8, <1>9, <1>10

LEMMA DroppedPath ==
  ASSUME NEW E, NEW F, NEW h, NEW n, Dropped(E, F, h, n), NEW i
  PROVE  /\ IsPath(E, i) => IsPath(F, i)
         /\ \A c : EndsAt(E, i, c) => EndsAt(F, i, c)
<1>1. /\ DOMAIN E = {h + 1} \union DOMAIN F
      /\ \A k \in DOMAIN F : StateOf(F[k]) = StateOf(E[k])
  BY DroppedKeeps
<1>2. /\ \A m, k \in DOMAIN F : Follows(F, m, k, i) <=> Follows(E, m, k, i)
      /\ \A k \in DOMAIN F : IsLast(F, k, i) <=> IsLast(E, k, i)
  BY DroppedOrder
<1>3. IsPath(E, i) => IsPath(F, i)
  BY <1>1, <1>2 DEF IsPath
<1>4. \A c : EndsAt(E, i, c) => EndsAt(F, i, c)
  BY <1>1, <1>2 DEF EndsAt
<1> QED BY <1>3, <1>4

\* What a list knows, that was served after the event.
LEMMA DroppedList ==
  ASSUME NEW E, NEW F, NEW h, NEW n, Dropped(E, F, h, n), NEW i, NEW lo \in Nat, h < lo
  PROVE  /\ \A z, ip, c : Knows(E, lo, z, ip, c, i) => Knows(F, lo, z, ip, c, i)
         /\ \A z : SureToRead(E, lo, z, i) => SureToRead(F, lo, z, i)
<1>1. /\ h \in Nat /\ h + 1 \in DOMAIN E /\ DOMAIN E = {h + 1} \union DOMAIN F
      /\ \A k \in DOMAIN F : /\ SetsState(F, k, i) <=> SetsState(E, k, i)
                             /\ Touches(F, k, i) <=> Touches(E, k, i)
                             /\ StateOf(F[k]) = StateOf(E[k])
  BY DroppedKeeps
<1>2. /\ \A m, k \in DOMAIN F : Follows(F, m, k, i) <=> Follows(E, m, k, i)
      /\ \A k \in DOMAIN F : IsFirst(F, lo, k, i) <=> IsFirst(E, lo, k, i)
  BY DroppedOrder
<1>3. ~(lo < h + 1)
  BY <1>1
<1>4. Silent(F, lo, i) <=> Silent(E, lo, i)
  BY <1>1, <1>3 DEF Silent
<1>5. ASSUME NEW z, SureToRead(E, lo, z, i) PROVE SureToRead(F, lo, z, i)
  BY <1>1, <1>2, <1>3, <1>5 DEF SureToRead
<1>6. ASSUME NEW z, Repeats(E, lo, z, i) PROVE Repeats(F, lo, z, i)
  BY <1>1, <1>2, <1>3, <1>6 DEF Repeats
<1>7. ASSUME NEW z, FirstIsChange(E, lo, z, i) PROVE FirstIsChange(F, lo, z, i)
  BY <1>1, <1>2, <1>7 DEF FirstIsChange
<1>8. ASSUME NEW z, NEW ip, NEW c, Knows(E, lo, z, ip, c, i) PROVE Knows(F, lo, z, ip, c, i)
  BY <1>4, <1>5, <1>6, <1>7, <1>8 DEF Knows
<1> QED BY <1>5, <1>8

\* The event is about another row, or does not touch this one.
LEMMA DroppedOther ==
  ASSUME NEW E, NEW F, NEW h, NEW n, Dropped(E, F, h, n), NEW i,
         ~SetsState(E, h + 1, i), ~Touches(E, h + 1, i)
  PROVE  /\ \A z, ip, c : Knows(E, h, z, ip, c, i) => Knows(F, h + 1, z, ip, c, i)
         /\ \A z : SureToRead(E, h, z, i) => SureToRead(F, h + 1, z, i)
         /\ \A k \in DOMAIN F : IsFirst(E, h, k, i) <=> IsFirst(F, h + 1, k, i)
         /\ Silent(E, h, i) <=> Silent(F, h + 1, i)
<1>1. /\ h \in Nat /\ DOMAIN E = {h + 1} \union DOMAIN F
      /\ \A k \in DOMAIN F : k \in Nat /\ h < k /\ h + 1 < k /\ ~(k < h + 1)
      /\ \A k \in DOMAIN F : /\ SetsState(F, k, i) <=> SetsState(E, k, i)
                             /\ Touches(F, k, i) <=> Touches(E, k, i)
                             /\ StateOf(F[k]) = StateOf(E[k])
  BY DroppedKeeps
<1>2. \A m, k \in DOMAIN F : Follows(F, m, k, i) <=> Follows(E, m, k, i)
  BY DroppedOrder
<1>3. /\ \A k \in DOMAIN F : IsFirst(E, h, k, i) <=> IsFirst(F, h + 1, k, i)
      /\ Silent(E, h, i) <=> Silent(F, h + 1, i)
  BY DroppedHead
<1>4. \A k \in DOMAIN E : ~IsFirst(E, h, h + 1, i) /\ ~Follows(E, h + 1, k, i)
  BY DEF IsFirst, Follows
<1>5. ASSUME NEW z, SureToRead(E, h, z, i) PROVE SureToRead(F, h + 1, z, i)
  BY <1>1, <1>3, <1>5 DEF SureToRead
<1>6. ASSUME NEW z, Repeats(E, h, z, i) PROVE Repeats(F, h + 1, z, i)
  BY <1>1, <1>2, <1>3, <1>4, <1>6 DEF Repeats
<1>7. ASSUME NEW z, FirstIsChange(E, h, z, i) PROVE FirstIsChange(F, h + 1, z, i)
  BY <1>1, <1>3, <1>7 DEF FirstIsChange
<1>8. ASSUME NEW z, NEW ip, NEW c, Knows(E, h, z, ip, c, i) PROVE Knows(F, h + 1, z, ip, c, i)
  BY <1>3, <1>5, <1>6, <1>7, <1>8 DEF Knows
<1> QED BY <1>3, <1>5, <1>8

\* The event removes the row.
LEMMA DroppedRemoval ==
  ASSUME NEW E, NEW F, NEW h, NEW n, Dropped(E, F, h, n), NEW i,
         SetsState(E, h + 1, i), StateOf(E[h + 1]) = "absent",
         NEW c, EndsAt(E, i, c), NEW z, NEW ip, Knows(E, h, z, ip, c, i)
  PROVE  \A jp : Knows(F, h + 1, "absent", jp, c, i)
<1>1. /\ h \in Nat /\ h + 1 \in DOMAIN E /\ DOMAIN E = {h + 1} \union DOMAIN F
      /\ \A k \in DOMAIN F : k \in Nat /\ h < k /\ h + 1 < k /\ ~(k < h + 1)
      /\ \A k \in DOMAIN F : /\ SetsState(F, k, i) <=> SetsState(E, k, i)
                             /\ Touches(F, k, i) <=> Touches(E, k, i)
                             /\ StateOf(F[k]) = StateOf(E[k])
  BY DroppedKeeps
<1>2. \A m, k \in DOMAIN F : Follows(F, m, k, i) <=> Follows(E, m, k, i)
  BY DroppedOrder
<1>3. /\ \A k \in DOMAIN F : ~IsFirst(E, h, k, i)
      /\ \A k \in DOMAIN F : Follows(E, h + 1, k, i) <=> IsFirst(F, h + 1, k, i)
      /\ Silent(F, h + 1, i) => IsLast(E, h + 1, i)
  BY DroppedHead
<1>4. "absent" \notin I!Stable /\ ~Touches(E, h + 1, i)
  BY DEF I!Stable, Touches, Asks, SetsState, Sets, StateOf
<1>5. FirstIsChange(F, h + 1, "absent", i)
  BY <1>4 DEF FirstIsChange
<1>6. CASE SureToRead(E, h, z, i)
  <2>1. PICK k \in DOMAIN E : Touches(E, k, i) \/ (SetsState(E, k, i) /\ StateOf(E[k]) \in I!Stable)
    BY <1>6 DEF SureToRead
  <2>2. k \in DOMAIN F
    BY <1>1, <1>4, <2>1
  <2>3. SureToRead(F, h + 1, "absent", i)
    BY <1>1, <1>4, <2>1, <2>2 DEF SureToRead
  <2> QED BY <2>3 DEF Knows
<1>7. CASE Repeats(E, h, z, i)
  <2>1. PICK k \in DOMAIN E :
          /\ h < k /\ SetsState(E, k, i) /\ StateOf(E[k]) # "absent"
          /\ \/ \E m \in DOMAIN E : h < m /\ Follows(E, m, k, i) /\ StateOf(E[m]) \in {"absent", StateOf(E[k])}
             \/ IsFirst(E, h, k, i) /\ z \in {"absent", StateOf(E[k])}
    BY <1>7 DEF Repeats
  <2>2. k \in DOMAIN F /\ ~IsFirst(E, h, k, i)
    BY <1>1, <1>3, <2>1
  <2>3. PICK m \in DOMAIN E : Follows(E, m, k, i) /\ StateOf(E[m]) \in {"absent", StateOf(E[k])}
    BY <2>1, <2>2
  <2>4. Repeats(F, h + 1, "absent", i)
    BY <1>1, <1>2, <1>3, <2>1, <2>2, <2>3 DEF Repeats
  <2> QED BY <1>5, <2>4 DEF Knows
<1>8. Silent(F, h + 1, i) => c.state = "absent"
  BY <1>1, <1>3 DEF EndsAt
<1>9. CASE ~SureToRead(E, h, z, i) /\ ~Repeats(E, h, z, i)
  BY <1>5, <1>8 DEF Knows
<1> QED BY <1>6, <1>7, <1>9

\* The event sets another state, and does not end an operation.
LEMMA DroppedState ==
  ASSUME NEW E, NEW F, NEW h, NEW n, Dropped(E, F, h, n), NEW i, IsPath(E, i),
         SetsState(E, h + 1, i), NEW c, EndsAt(E, i, c),
         NEW z \in I!Stable \union I!Transitional,
         NEW b, b = StateOf(E[h + 1]), b # "absent", b # z,
         z \in I!Transitional => b \notin I!Stable,
         NEW ip, Knows(E, h, z, ip, c, i)
  PROVE  Knows(F, h + 1, b, ip, c, i)
<1>1. /\ h \in Nat /\ h + 1 \in DOMAIN E /\ DOMAIN E = {h + 1} \union DOMAIN F
      /\ \A k \in DOMAIN F : k \in Nat /\ h < k /\ h + 1 < k /\ ~(k < h + 1)
      /\ \A k \in DOMAIN F : /\ SetsState(F, k, i) <=> SetsState(E, k, i)
                             /\ Touches(F, k, i) <=> Touches(E, k, i)
                             /\ StateOf(F[k]) = StateOf(E[k])
  BY DroppedKeeps
<1>2. \A m, k \in DOMAIN F : Follows(F, m, k, i) <=> Follows(E, m, k, i)
  BY DroppedOrder
<1>3. /\ IsFirst(E, h, h + 1, i)
      /\ \A k \in DOMAIN F : ~IsFirst(E, h, k, i)
      /\ \A k \in DOMAIN F : Follows(E, h + 1, k, i) <=> IsFirst(F, h + 1, k, i)
      /\ Silent(F, h + 1, i) => IsLast(E, h + 1, i)
  BY DroppedHead
<1>4. "absent" \notin I!Stable /\ z # "absent" /\ ~Touches(E, h + 1, i)
  BY DEF I!Stable, I!Transitional, Touches, Asks, SetsState, Sets, StateOf
<1>5. ASSUME NEW k \in DOMAIN F, IsFirst(F, h + 1, k, i), b \in I!Stable, StateOf(F[k]) \in I!Stable
      PROVE  StateOf(F[k]) = b
  BY <1>1, <1>3, <1>5 DEF IsPath, Legal
<1>6. CASE SureToRead(E, h, z, i)
  <2>1. PICK k \in DOMAIN E :
          \/ Touches(E, k, i)
          \/ /\ SetsState(E, k, i) /\ StateOf(E[k]) \in I!Stable
             /\ IsFirst(E, h, k, i) => z \notin I!Stable \ {StateOf(E[k])}
    BY <1>6 DEF SureToRead
  <2>2. k # h + 1
    BY <1>3, <1>4, <2>1
  <2>3. SureToRead(F, h + 1, b, i)
    BY <1>1, <1>5, <2>1, <2>2 DEF SureToRead
  <2> QED BY <2>3 DEF Knows
<1>7. ASSUME ~SureToRead(F, h + 1, b, i) PROVE FirstIsChange(F, h + 1, b, i)
  <2> SUFFICES ASSUME NEW k \in DOMAIN F, IsFirst(F, h + 1, k, i), b \in I!Stable, StateOf(F[k]) \in I!Stable
               PROVE  FALSE
    BY DEF FirstIsChange
  <2>1. StateOf(F[k]) = b /\ SetsState(F, k, i) /\ h + 1 < k
    BY <1>5 DEF IsFirst
  <2> QED BY <1>7, <2>1 DEF SureToRead
<1>8. CASE Repeats(E, h, z, i)
  <2>1. PICK k \in DOMAIN E :
          /\ h < k /\ SetsState(E, k, i) /\ StateOf(E[k]) # "absent"
          /\ \/ \E m \in DOMAIN E : h < m /\ Follows(E, m, k, i) /\ StateOf(E[m]) \in {"absent", StateOf(E[k])}
             \/ IsFirst(E, h, k, i) /\ z \in {"absent", StateOf(E[k])}
    BY <1>8 DEF Repeats
  <2>2. ~(IsFirst(E, h, k, i) /\ z \in {"absent", StateOf(E[k])})
    BY <1>1, <1>3, <1>4
  <2>3. PICK m \in DOMAIN E : Follows(E, m, k, i) /\ StateOf(E[m]) \in {"absent", StateOf(E[k])}
    BY <2>1, <2>2
  <2>4. k \in DOMAIN F
    <3>1. \A j \in DOMAIN E : ~Follows(E, j, h + 1, i)
      <4>1. \A j \in DOMAIN F : ~Follows(E, j, h + 1, i)
        BY DroppedHead
      <4>2. ~(h + 1 < h + 1)
        BY <1>1
      <4> QED BY <1>1, <4>1, <4>2 DEF Follows
    <3> QED BY <1>1, <2>3, <3>1
  <2>5. Repeats(F, h + 1, b, i)
    BY <1>1, <1>2, <1>3, <1>4, <2>1, <2>3, <2>4 DEF Repeats
  <2> QED BY <1>7, <2>5 DEF Knows
<1>9. Silent(F, h + 1, i) => c.state = b
  BY <1>1, <1>3 DEF EndsAt
<1>10. CASE ~SureToRead(E, h, z, i) /\ ~Repeats(E, h, z, i)
  BY <1>4, <1>7, <1>9, <1>10 DEF Knows
<1> QED BY <1>6, <1>8, <1>10

-----------------------------------------------------------------------------
(* A list is put in place of the rows.                                      *)

LEMMA ListKnows ==
  ASSUME NEW E, NEW h, NEW n, Unhandled(E, h, n), NEW i, NEW lo \in Nat, h <= lo,
         NEW z, Carries(E, lo, z, i), NEW ip, NEW c, Knows(E, lo, z, ip, c, i)
  PROVE  Knows(E, h, z, ip, c, i)
<1>1. h \in Nat /\ \A k \in DOMAIN E : k \in Nat /\ h < k
  BY DEF Unhandled
<1>2. ASSUME \A j \in DOMAIN E : SetsState(E, j, i) => lo < j
      PROVE  Knows(E, h, z, ip, c, i)
  <2>1. \A k \in DOMAIN E : (NoneIn(E, h, k, i) <=> NoneIn(E, lo, k, i)) /\ (SetsState(E, k, i) => h < k /\ lo < k)
    BY <1>1, <1>2 DEF NoneIn
  <2>2. \A k \in DOMAIN E : IsFirst(E, h, k, i) <=> IsFirst(E, lo, k, i)
    BY <2>1 DEF IsFirst
  <2>3. Silent(E, h, i) => Silent(E, lo, i)
    BY <1>1, <1>2 DEF Silent
  <2>4. SureToRead(E, lo, z, i) => SureToRead(E, h, z, i)
    BY <1>1, <2>2 DEF SureToRead
  <2>5. Repeats(E, lo, z, i) => Repeats(E, h, z, i)
    BY <1>1, <2>2 DEF Repeats
  <2>6. FirstIsChange(E, lo, z, i) => FirstIsChange(E, h, z, i)
    BY <2>2 DEF FirstIsChange
  <2> QED BY <2>3, <2>4, <2>5, <2>6 DEF Knows
<1>3. ASSUME NEW j \in DOMAIN E, SetsState(E, j, i), ~(lo < j)
      PROVE  Knows(E, h, z, ip, c, i)
  <2>1. lo + 1 \in Nat /\ j < lo + 1
    BY <1>1, <1>3
  <2>2. PICK m \in DOMAIN E : SetsState(E, m, i) /\ m < lo + 1 /\ NoneIn(E, m, lo + 1, i)
    BY <1>3, <2>1, LastExists
  <2>3. m <= lo /\ ~(lo < m) /\ h < m
    BY <1>1, <2>2
  <2>4. StateOf(E[m]) = z
    BY <2>2, <2>3 DEF Carries
  <2>5. \A k \in DOMAIN E : lo < k => ~IsFirst(E, h, k, i)
    <3>1. \A k \in DOMAIN E : lo < k => m < k
      BY <1>1, <2>3
    <3> QED BY <2>2, <2>3, <3>1 DEF IsFirst, NoneIn
  <2>6. ASSUME NEW k \in DOMAIN E, IsFirst(E, lo, k, i) PROVE Follows(E, m, k, i)
    <3>1. m < k /\ ~(k < lo + 1)
      BY <1>1, <2>3, <2>6 DEF IsFirst
    <3>2. \A x \in DOMAIN E : m < x => lo < x \/ x < lo + 1
      BY <1>1
    <3>3. NoneIn(E, m, k, i)
      BY <2>2, <2>6, <3>2 DEF IsFirst, NoneIn
    <3> QED BY <2>2, <2>6, <3>1, <3>3 DEF IsFirst, Follows
  <2>7. CASE SureToRead(E, lo, z, i)
    BY <1>1, <2>5, <2>7 DEF Knows, SureToRead
  <2>8. CASE z \in I!Stable
    BY <2>2, <2>3, <2>4, <2>8 DEF Knows, SureToRead
  <2>9. CASE z \notin I!Stable /\ Repeats(E, lo, z, i)
    <3>1. FirstIsChange(E, h, z, i)
      BY <2>9 DEF FirstIsChange
    <3>2. PICK k \in DOMAIN E :
            /\ lo < k /\ SetsState(E, k, i) /\ StateOf(E[k]) # "absent"
            /\ \/ \E x \in DOMAIN E : lo < x /\ Follows(E, x, k, i) /\ StateOf(E[x]) \in {"absent", StateOf(E[k])}
               \/ IsFirst(E, lo, k, i) /\ z \in {"absent", StateOf(E[k])}
      BY <2>9 DEF Repeats
    <3>3. Repeats(E, h, z, i)
      BY <1>1, <2>3, <2>4, <2>6, <3>2 DEF Repeats
    <3> QED BY <3>1, <3>3 DEF Knows
  <2>10. CASE z \notin I!Stable /\ ~SureToRead(E, lo, z, i) /\ ~Repeats(E, lo, z, i)
    <3>1. FirstIsChange(E, h, z, i)
      BY <2>10 DEF FirstIsChange
    <3>2. ~Silent(E, h, i)
      BY <2>2, <2>3 DEF Silent
    <3> QED BY <2>10, <3>1, <3>2 DEF Knows
  <2> QED BY <2>7, <2>8, <2>9, <2>10
<1> QED BY <1>2, <1>3

LEMMA AppendedCarries ==
  ASSUME NEW E, NEW F, NEW h, NEW n, Appended(E, F, h, n), NEW i
  PROVE  \A lo \in Nat : \A z : lo < n + 1 /\ Carries(E, lo, z, i) => Carries(F, lo, z, i)
<1>1. /\ n \in Nat /\ DOMAIN F = DOMAIN E \union {n + 1}
      /\ \A k \in DOMAIN E : /\ SetsState(F, k, i) <=> SetsState(E, k, i)
                             /\ StateOf(F[k]) = StateOf(E[k])
  BY AppendedKeeps
<1>2. ASSUME NEW lo \in Nat, lo < n + 1, NEW k \in DOMAIN E, NoneIn(F, k, lo + 1, i)
      PROVE  NoneIn(E, k, lo + 1, i)
  BY <1>1, <1>2 DEF NoneIn
<1>3. \A lo \in Nat : lo < n + 1 => ~(n + 1 <= lo)
  BY <1>1
<1> QED BY <1>1, <1>2, <1>3 DEF Carries

LEMMA DroppedCarries ==
  ASSUME NEW E, NEW F, NEW h, NEW n, Dropped(E, F, h, n), NEW i, NEW lo, NEW z, Carries(E, lo, z, i)
  PROVE  Carries(F, lo, z, i)
<1>1. /\ DOMAIN E = {h + 1} \union DOMAIN F
      /\ \A k \in DOMAIN F : ~(k < h + 1)
      /\ \A k \in DOMAIN F : /\ SetsState(F, k, i) <=> SetsState(E, k, i)
                             /\ StateOf(F[k]) = StateOf(E[k])
  BY DroppedKeeps
<1>2. ASSUME NEW k \in DOMAIN F, NoneIn(F, k, lo + 1, i) PROVE NoneIn(E, k, lo + 1, i)
  <2>1. ~(k < h + 1)
    BY <1>1
  <2> QED BY <1>1, <1>2, <2>1 DEF NoneIn
<1> QED BY <1>1, <1>2 DEF Carries

-----------------------------------------------------------------------------
(* What the answer of an accepted action writes.                            *)

FirstIs(E, lo, i, set) == \A k \in DOMAIN E : IsFirst(E, lo, k, i) => StateOf(E[k]) \in set

\* To write s over z hides no later state from the page.
Harmless(E, lo, z, s, i) ==
  \/ SureToRead(E, lo, z, i)
  \/ /\ z \in {s, "TERMINATING"}
     /\ FirstIs(E, lo, i, {"absent", z, "TERMINATING"} \union I!Stable)
  \/ z \in I!Stable /\ ~Silent(E, lo, i) /\ FirstIs(E, lo, i, {s})

LEMMA AppendedHarmless ==
  ASSUME NEW E, NEW F, NEW h, NEW n, Appended(E, F, h, n), NEW i,
         NEW s \in I!Transitional, NEW z, Harmless(E, h, z, s, i),
         NEW ip, NEW c, Knows(E, h, z, ip, c, i),
         SetsState(F, n + 1, i) => Legal(c.state, StateOf(F[n + 1]))
  PROVE  Harmless(F, h, z, s, i)
<1>1. /\ n + 1 \in DOMAIN F /\ DOMAIN F = DOMAIN E \union {n + 1}
      /\ \A k \in DOMAIN E : k \in Nat /\ k < n + 1
      /\ \A k \in DOMAIN E : /\ SetsState(F, k, i) <=> SetsState(E, k, i)
                             /\ StateOf(F[k]) = StateOf(E[k])
  BY AppendedKeeps
<1>2. \A k \in DOMAIN E : IsFirst(F, h, k, i) <=> IsFirst(E, h, k, i)
  BY AppendedOrder
<1>3. ~SetsState(F, n + 1, i) => ~IsFirst(F, h, n + 1, i)
  BY DEF IsFirst
<1>4. SetsState(F, n + 1, i) /\ ~Silent(E, h, i) => ~IsFirst(F, h, n + 1, i)
  BY AppendedLast
<1>5. ~Silent(E, h, i) => ~Silent(F, h, i)
  BY <1>1 DEF Silent
<1>6. SureToRead(E, h, z, i) => SureToRead(F, h, z, i)
  BY AppendedSure
<1>7. CASE SureToRead(E, h, z, i)
  BY <1>6, <1>7 DEF Harmless
<1>8. CASE z \in I!Stable /\ ~Silent(E, h, i) /\ FirstIs(E, h, i, {s})
  <2>1. FirstIs(F, h, i, {s})
    BY <1>1, <1>2, <1>3, <1>4, <1>8 DEF FirstIs
  <2> QED BY <1>5, <1>8, <2>1 DEF Harmless
<1>9. CASE /\ ~SureToRead(E, h, z, i) /\ z \in {s, "TERMINATING"}
           /\ FirstIs(E, h, i, {"absent", z, "TERMINATING"} \union I!Stable)
  <2>1. z \in I!Transitional
    BY <1>9 DEF I!Transitional
  <2>2. CASE SetsState(F, n + 1, i) /\ Silent(E, h, i)
    <3>1. ~Repeats(E, h, z, i)
      BY <2>2 DEF Repeats, Silent
    <3>2. z = c.state
      BY <1>9, <2>2, <3>1 DEF Knows
    <3>3. StateOf(F[n + 1]) \in {"absent", z, "TERMINATING"} \union I!Stable
      BY <2>1, <2>2, <3>2 DEF Legal
    <3>4. FirstIs(F, h, i, {"absent", z, "TERMINATING"} \union I!Stable)
      BY <1>1, <1>2, <1>9, <3>3 DEF FirstIs
    <3> QED BY <1>9, <3>4 DEF Harmless
  <2>3. CASE ~(SetsState(F, n + 1, i) /\ Silent(E, h, i))
    <3>1. FirstIs(F, h, i, {"absent", z, "TERMINATING"} \union I!Stable)
      BY <1>1, <1>2, <1>3, <1>4, <1>9, <2>3 DEF FirstIs
    <3> QED BY <1>9, <3>1 DEF Harmless
  <2> QED BY <2>2, <2>3
<1> QED BY <1>7, <1>8, <1>9 DEF Harmless

\* The server accepts the action: the event is the start of it.
LEMMA AcceptedHarmless ==
  ASSUME NEW E, NEW F, NEW h, NEW n, Appended(E, F, h, n), NEW i,
         SetsState(F, n + 1, i), NEW s, s = StateOf(F[n + 1]),
         NEW c, c.state \in I!Stable, EndsAt(E, i, c),
         NEW z \in I!Stable, NEW ip, Knows(E, h, z, ip, c, i)
  PROVE  Harmless(F, h, z, s, i)
<1>1. /\ n + 1 \in DOMAIN F /\ DOMAIN F = DOMAIN E \union {n + 1} /\ n \in Nat
      /\ \A k \in DOMAIN E : k \in Nat /\ k < n + 1 /\ ~(n + 1 < k)
      /\ \A k \in DOMAIN E : /\ SetsState(F, k, i) <=> SetsState(E, k, i)
                             /\ StateOf(F[k]) = StateOf(E[k])
  BY AppendedKeeps
<1>2. \A k \in DOMAIN E : IsFirst(F, h, k, i) <=> IsFirst(E, h, k, i)
  BY AppendedOrder
<1>3. h \in Nat /\ h < n + 1 /\ \A k \in DOMAIN E : h < k
  BY DEF Appended, Unhandled
<1>4. ~Silent(F, h, i)
  BY <1>3, AppendedLast
<1>5. SureToRead(E, h, z, i) => SureToRead(F, h, z, i)
  BY AppendedSure
<1>6. CASE Silent(E, h, i)
  <2>1. \A k \in DOMAIN E : ~IsFirst(F, h, k, i)
    BY <1>2, <1>6 DEF IsFirst, Silent
  <2>2. FirstIs(F, h, i, {s})
    BY <1>1, <2>1 DEF FirstIs
  <2> QED BY <1>4, <2>2 DEF Harmless
<1>7. CASE ~Silent(E, h, i) /\ ~SureToRead(E, h, z, i)
  <2>1. FirstIsChange(E, h, z, i)
    BY <1>7 DEF Knows
  <2>2. PICK j \in DOMAIN E : h < j /\ SetsState(E, j, i)
    BY <1>7 DEF Silent
  <2>3. PICK m \in DOMAIN E : SetsState(E, m, i) /\ m < n + 1 /\ NoneIn(E, m, n + 1, i)
    BY <1>1, <2>2, LastExists DEF Appended
  <2>4. IsLast(E, m, i)
    BY <1>1, <2>3 DEF IsLast, Silent, NoneIn
  <2>5. StateOf(E[m]) \in I!Stable
    BY <2>4 DEF EndsAt
  <2>6. ~IsFirst(E, h, m, i)
    BY <2>1, <2>5 DEF FirstIsChange
  <2>7. SureToRead(E, h, z, i)
    BY <1>3, <2>3, <2>5, <2>6 DEF SureToRead
  <2> QED BY <1>7, <2>7
<1> QED BY <1>5, <1>6, <1>7 DEF Harmless

\* The page handles an event that changes the state and ends no operation.
LEMMA DroppedHarmless ==
  ASSUME NEW E, NEW F, NEW h, NEW n, Dropped(E, F, h, n), NEW i, IsPath(E, i),
         SetsState(E, h + 1, i),
         NEW z \in I!Stable \union I!Transitional, NEW s \in I!Transitional, Harmless(E, h, z, s, i),
         NEW b, b = StateOf(E[h + 1]), b # "absent", b # z,
         z \in I!Transitional => b \notin I!Stable
  PROVE  Harmless(F, h + 1, b, s, i)
<1>1. /\ h \in Nat /\ h + 1 \in DOMAIN E /\ DOMAIN E = {h + 1} \union DOMAIN F
      /\ \A k \in DOMAIN F : k \in Nat /\ h < k /\ h + 1 < k
      /\ \A k \in DOMAIN F : /\ SetsState(F, k, i) <=> SetsState(E, k, i)
                             /\ Touches(F, k, i) <=> Touches(E, k, i)
                             /\ StateOf(F[k]) = StateOf(E[k])
  BY DroppedKeeps
<1>2. /\ IsFirst(E, h, h + 1, i)
      /\ \A k \in DOMAIN F : ~IsFirst(E, h, k, i)
      /\ \A k \in DOMAIN F : Follows(E, h + 1, k, i) <=> IsFirst(F, h + 1, k, i)
  BY DroppedHead
<1>3. ASSUME NEW k \in DOMAIN F, IsFirst(F, h + 1, k, i) PROVE Legal(b, StateOf(F[k]))
  BY <1>1, <1>2, <1>3 DEF IsPath
<1>4. CASE SureToRead(E, h, z, i)
  <2>1. PICK k \in DOMAIN E :
          \/ Touches(E, k, i)
          \/ /\ SetsState(E, k, i) /\ StateOf(E[k]) \in I!Stable
             /\ IsFirst(E, h, k, i) => z \notin I!Stable \ {StateOf(E[k])}
    BY <1>4 DEF SureToRead
  <2>2. ~Touches(E, h + 1, i)
    BY DEF Touches, Asks, SetsState, Sets
  <2>3. k # h + 1
    BY <1>2, <2>1, <2>2
  <2>4. SureToRead(F, h + 1, b, i)
    BY <1>1, <1>3, <2>1, <2>3 DEF SureToRead, Legal
  <2> QED BY <2>4 DEF Harmless
<1>5. CASE \/ z \in {s, "TERMINATING"} /\ FirstIs(E, h, i, {"absent", z, "TERMINATING"} \union I!Stable)
           \/ z \in I!Stable /\ FirstIs(E, h, i, {s})
  <2>1. b \in {s, "TERMINATING"}
    <3>1. CASE z \in I!Stable /\ FirstIs(E, h, i, {s})
      BY <1>1, <1>2, <3>1 DEF FirstIs
    <3>2. CASE z \in {s, "TERMINATING"} /\ FirstIs(E, h, i, {"absent", z, "TERMINATING"} \union I!Stable)
      <4>1. b \in {"absent", z, "TERMINATING"} \union I!Stable
        BY <1>1, <1>2, <3>2 DEF FirstIs
      <4>2. z \in I!Transitional
        BY <3>2 DEF I!Transitional
      <4> QED BY <4>1, <4>2
    <3> QED BY <1>5, <3>1, <3>2
  <2>2. b \in I!Transitional
    BY <2>1 DEF I!Transitional
  <2>3. ASSUME NEW k \in DOMAIN F, IsFirst(F, h + 1, k, i)
        PROVE  StateOf(F[k]) \in {"absent", b, "TERMINATING"} \union I!Stable
    <3>1. Legal(b, StateOf(F[k]))
      BY <1>3, <2>3
    <3> QED BY <2>2, <3>1 DEF Legal
  <2>4. FirstIs(F, h + 1, i, {"absent", b, "TERMINATING"} \union I!Stable)
    BY <2>3 DEF FirstIs
  <2> QED BY <2>1, <2>4 DEF Harmless
<1> QED BY <1>4, <1>5 DEF Harmless

LEMMA DroppedOtherHarmless ==
  ASSUME NEW E, NEW F, NEW h, NEW n, Dropped(E, F, h, n), NEW i,
         ~SetsState(E, h + 1, i), ~Touches(E, h + 1, i), NEW z, NEW s, Harmless(E, h, z, s, i)
  PROVE  Harmless(F, h + 1, z, s, i)
<1>1. /\ SureToRead(E, h, z, i) => SureToRead(F, h + 1, z, i)
      /\ \A k \in DOMAIN F : IsFirst(E, h, k, i) <=> IsFirst(F, h + 1, k, i)
      /\ Silent(E, h, i) <=> Silent(F, h + 1, i)
  BY DroppedOther
<1>2. DOMAIN E = {h + 1} \union DOMAIN F /\ \A k \in DOMAIN F : StateOf(F[k]) = StateOf(E[k])
  BY DroppedKeeps
<1>3. ASSUME NEW set, FirstIs(E, h, i, set) PROVE FirstIs(F, h + 1, i, set)
  BY <1>1, <1>2, <1>3 DEF FirstIs
<1> QED BY <1>1, <1>3 DEF Harmless

\* The answer is written, and what other answers write then.
LEMMA WrittenKnows ==
  ASSUME NEW E, NEW h, NEW n, Unhandled(E, h, n), NEW i,
         NEW z, z # "TERMINATING", NEW s \in I!Transitional, Harmless(E, h, z, s, i)
  PROVE  /\ \A ip, c : Knows(E, h, z, ip, c, i) => Knows(E, h, s, ip, c, i)
         /\ \A t \in I!Transitional : Harmless(E, h, z, t, i) => Harmless(E, h, s, t, i)
<1>1. s \notin I!Stable /\ s # "absent"
  BY DEF I!Stable, I!Transitional
<1>2. FirstIsChange(E, h, s, i) /\ (SureToRead(E, h, z, i) => SureToRead(E, h, s, i))
  BY <1>1 DEF FirstIsChange, SureToRead
<1>3. CASE SureToRead(E, h, z, i)
  BY <1>2, <1>3 DEF Knows, Harmless
<1>4. CASE z = s
  BY <1>4
<1>5. CASE z # s /\ ~SureToRead(E, h, z, i)
  <2>1. z \in I!Stable /\ ~Silent(E, h, i) /\ FirstIs(E, h, i, {s})
    BY <1>5 DEF Harmless
  <2>2. PICK k \in DOMAIN E : IsFirst(E, h, k, i)
    BY <2>1, FirstExists DEF Unhandled
  <2>3. StateOf(E[k]) = s /\ h < k /\ SetsState(E, k, i)
    BY <2>1, <2>2 DEF FirstIs, IsFirst
  <2>4. Repeats(E, h, s, i)
    BY <1>1, <2>2, <2>3 DEF Repeats
  <2>5. ASSUME NEW t \in I!Transitional, Harmless(E, h, z, t, i) PROVE Harmless(E, h, s, t, i)
    <3>1. z \notin I!Transitional
      BY <2>1 DEF I!Stable, I!Transitional
    <3>2. FirstIs(E, h, i, {t})
      BY <1>5, <2>5, <3>1 DEF Harmless, I!Transitional
    <3>3. t = s
      BY <2>2, <2>3, <3>2 DEF FirstIs
    <3>4. FirstIs(E, h, i, {"absent", s, "TERMINATING"} \union I!Stable)
      BY <2>1 DEF FirstIs
    <3> QED BY <3>3, <3>4 DEF Harmless
  <2> QED BY <1>2, <2>4, <2>5 DEF Knows
<1> QED BY <1>3, <1>4, <1>5

-----------------------------------------------------------------------------
(* What holds of the rows, the events and the answers.                      *)

Pending == [k \in handled + 1 .. handled + Len(bus) |-> bus[k - handled]]
Published == handled + Len(bus)

\* The list will be read again, or has been.
Refreshing == reads > 0 \/ soon \/ \E a \in replies : a.kind = "list"

\* The mark of synchronisation.
MarksIt(e) == e.type \in {"syncStarted", "syncFinished", "syncFailed"}
MarkMoves(E, lo) == \E k \in DOMAIN E : lo < k /\ MarksIt(E[k])
MarkKnown(E, lo, v, job) == MarkMoves(E, lo) \/ v = job
MarkEnds(E, job) ==
  \A k \in DOMAIN E : E[k].type = "syncStarted" /\ ~MarkMoves(E, k) => job = TRUE

States == I!Stable \union I!Transitional

IsRow(r) ==
  \/ r = I!NoRow
  \/ \E b, h : \E s \in States, ip \in Nat : r = [state |-> s, ip |-> ip, busy |-> b, settled |-> h]

IsAnswer(a) ==
  \/ \E m : \E l \in [Instances -> I!CachedRow \union {I!Absent}], at \in Nat :
       a = [kind |-> "list", rows |-> l, syncing |-> m, at |-> at]
  \/ \E t, f : \E i \in Instances, p \in I!Stable, s \in I!Transitional \ {"TERMINATING"} :
       a = [kind |-> "action", id |-> i, attached |-> t, failed |-> f, previous |-> p, state |-> s]
  \/ \E t : \E i \in Instances : a = [kind |-> "terminate", id |-> i, attached |-> t]

RowsTyped ==
  /\ handled \in Nat /\ reads \in Nat /\ bus \in Seq(I!Event)
  /\ cached \in [Instances -> I!CachedRow \union {I!Absent}]
  /\ DOMAIN rows = Instances /\ \A i \in Instances : IsRow(rows[i])
  /\ \A a \in replies : IsAnswer(a)

EventsRight ==
  /\ \A i \in Instances : IsPath(Pending, i) /\ EndsAt(Pending, i, cached[i])
  /\ MarkEnds(Pending, syncJob)

ListRight(a) ==
  /\ a.at <= Published
  /\ a.at >= handled =>
       /\ MarkKnown(Pending, a.at, a.syncing, syncJob)
       /\ \A i \in Instances :
            /\ Knows(Pending, a.at, a.rows[i].state, a.rows[i].ip, cached[i], i)
            /\ Carries(Pending, a.at, a.rows[i].state, i)

ListsRight == \A a \in replies : a.kind = "list" => ListRight(a)

AnswersRight ==
  \A a \in replies : a.kind # "list" /\ a.attached =>
    /\ rows[a.id].state # "absent"
    /\ a.kind = "action" /\ ~a.failed /\ ~late /\ ~Refreshing =>
         Harmless(Pending, handled, rows[a.id].state, a.state, a.id)

RowsRight ==
  ~late /\ ~Refreshing =>
    /\ MarkKnown(Pending, handled, syncing, syncJob)
    /\ \A i \in Instances : Knows(Pending, handled, rows[i].state, rows[i].ip, cached[i], i)

RowsInv == RowsTyped /\ EventsRight /\ ListsRight /\ AnswersRight /\ RowsRight

-----------------------------------------------------------------------------
(* The shapes, as the provers use them.                                     *)

LEMMA EventShape ==
  ASSUME NEW e \in I!Event
  PROVE  \/ e.type = "updated" /\ e.id \in Instances /\ e.state \in States \union {""}
         \/ e.type = "removed" /\ e.id \in Instances
         \/ e.type = "error" /\ e.id \in Instances
         \/ e.type = "changedIp" /\ e.id \in Instances /\ e.ip \in Nat
         \/ e.type \in {"syncStarted", "syncFinished", "syncFailed"}
BY DEF I!Event, States

LEMMA PendingShape ==
  ASSUME RowsTyped
  PROVE  /\ Unhandled(Pending, handled, Published)
         /\ \A k \in DOMAIN Pending : Pending[k] \in I!Event
<1>1. handled \in Nat /\ Len(bus) \in Nat /\ \A j \in 1 .. Len(bus) : bus[j] \in I!Event
  BY DEF RowsTyped
<1>2. \A k \in handled + 1 .. handled + Len(bus) : k - handled \in 1 .. Len(bus)
  BY <1>1
<1> QED BY <1>1, <1>2 DEF Unhandled, Pending, Published

LEMMA PendingAppended ==
  ASSUME RowsTyped, NEW e \in I!Event, bus' = Append(bus, e), handled' = handled
  PROVE  /\ Appended(Pending, Pending', handled, Published)
         /\ Published' = Published + 1 /\ Published \in Nat
         /\ Published + 1 \in DOMAIN Pending' /\ Pending'[Published + 1] = e
<1>1. handled \in Nat /\ bus \in Seq(I!Event) /\ Len(bus) \in Nat
  BY DEF RowsTyped
<1>2. /\ Len(bus') = Len(bus) + 1 /\ bus'[Len(bus) + 1] = e
      /\ \A j \in 1 .. Len(bus) : bus'[j] = bus[j]
  BY <1>1
<1>3. DOMAIN Pending = handled + 1 .. handled + Len(bus)
  BY DEF Pending
<1>4. DOMAIN Pending' = handled + 1 .. handled + Len(bus) + 1
  BY <1>1, <1>2 DEF Pending
<1>5. ASSUME NEW k \in DOMAIN Pending PROVE Pending'[k] = Pending[k]
  <2>1. k - handled \in 1 .. Len(bus) /\ k \in handled + 1 .. handled + Len(bus) + 1
    BY <1>1, <1>3
  <2> QED BY <1>1, <1>2, <1>3, <1>4, <2>1 DEF Pending
<1>6. Pending'[Published + 1] = e
  <2>1. Published + 1 \in DOMAIN Pending' /\ (Published + 1) - handled = Len(bus) + 1
    BY <1>1, <1>4 DEF Published
  <2> QED BY <1>2, <1>4, <2>1 DEF Pending
<1> QED BY <1>1, <1>2, <1>3, <1>4, <1>5, <1>6 DEF Appended, Unhandled, Published

LEMMA PendingDropped ==
  ASSUME RowsTyped, bus # <<>>, bus' = Tail(bus), handled' = handled + 1
  PROVE  /\ Dropped(Pending, Pending', handled, Published)
         /\ Published' = Published
         /\ handled + 1 \in DOMAIN Pending /\ Pending[handled + 1] = Head(bus)
         /\ Head(bus) \in I!Event /\ bus' \in Seq(I!Event)
<1>1. handled \in Nat /\ bus \in Seq(I!Event) /\ Len(bus) \in Nat \ {0}
  BY DEF RowsTyped
<1>2. /\ Len(bus') = Len(bus) - 1 /\ Head(bus) = bus[1] /\ bus' \in Seq(I!Event)
      /\ \A j \in 1 .. Len(bus) - 1 : bus'[j] = bus[j + 1]
  BY <1>1
<1>3. DOMAIN Pending = handled + 1 .. handled + Len(bus)
  BY DEF Pending
<1>4. DOMAIN Pending' = handled + 2 .. handled + Len(bus)
  BY <1>1, <1>2 DEF Pending
<1>5. ASSUME NEW k \in DOMAIN Pending' PROVE Pending'[k] = Pending[k]
  <2>1. /\ k - (handled + 1) \in 1 .. Len(bus) - 1 /\ k \in handled + 1 .. handled + Len(bus)
        /\ k \in handled + 1 + 1 .. handled + 1 + (Len(bus) - 1)
        /\ k - handled = k - (handled + 1) + 1
    BY <1>1, <1>4
  <2>2. Pending'[k] = bus'[k - (handled + 1)]
    BY <1>2, <2>1 DEF Pending
  <2>3. Pending[k] = bus[k - handled]
    BY <2>1 DEF Pending
  <2> QED BY <1>2, <2>1, <2>2, <2>3
<1>6. handled + 1 \in DOMAIN Pending /\ Pending[handled + 1] = bus[1]
  <2>1. handled + 1 \in DOMAIN Pending /\ (handled + 1) - handled = 1
    BY <1>1, <1>3
  <2> QED BY <1>3, <2>1 DEF Pending
<1> QED BY <1>1, <1>2, <1>3, <1>4, <1>5, <1>6 DEF Dropped, Unhandled, Published

-----------------------------------------------------------------------------
(* Steps that publish an event and leave states and addresses on the page.  *)

\* What the event e says of the server's row of i.
Tells(e, i, c, d) ==
  \/ ~Sets(e, i) /\ d.state = c.state /\ (d.ip = c.ip \/ Asks(e, i))
  \/ /\ Sets(e, i) /\ d.state = StateOf(e) /\ Legal(c.state, d.state)
     /\ \/ d.ip = c.ip /\ c.state # "absent"
        \/ c.state \in {"absent", d.state}
        \/ d.state = "absent"

LEMMA PublishStep ==
  ASSUME RowsInv, RowsTyped', NEW e \in I!Event, bus' = Append(bus, e),
         handled' = handled, reads' = reads, soon' = soon, late' = late,
         \A i \in Instances : rows'[i].state = rows[i].state /\ rows'[i].ip = rows[i].ip,
         \A i \in Instances : Tells(e, i, cached[i], cached'[i]),
         MarksIt(e) \/ (syncJob' = syncJob /\ syncing' = syncing /\ ~MarksIt(e)),
         e.type = "syncStarted" => syncJob' = TRUE,
         replies \subseteq replies',
         \A a \in replies' \ replies :
           /\ a.kind # "list" /\ rows[a.id].state # "absent"
           /\ a.kind = "action" /\ ~a.failed =>
                /\ cached[a.id].state \in I!Stable /\ rows[a.id].state \in I!Stable
                /\ Sets(e, a.id) /\ StateOf(e) = a.state
  PROVE  RowsInv'
<1> DEFINE n == Published
<1>1. /\ Appended(Pending, Pending', handled, n)
      /\ Published' = n + 1 /\ n \in Nat
      /\ n + 1 \in DOMAIN Pending' /\ Pending'[n + 1] = e
  BY PendingAppended DEF RowsInv
<1>2. /\ handled \in Nat /\ handled <= n /\ handled < n + 1 /\ Unhandled(Pending, handled, n)
  BY <1>1, PendingShape DEF RowsInv, Unhandled, Published
<1>3. ~Refreshing' => ~Refreshing
  BY DEF Refreshing
<1> HIDE DEF n
<1>4. ASSUME NEW i \in Instances
      PROVE  /\ IsPath(Pending', i) /\ EndsAt(Pending', i, cached'[i])
             /\ \A lo \in Nat : \A z, ip : lo < n + 1 /\ Knows(Pending, lo, z, ip, cached[i], i)
                                             => Knows(Pending', lo, z, ip, cached'[i], i)
             /\ \A lo \in Nat : \A z : lo < n + 1 /\ Carries(Pending, lo, z, i) => Carries(Pending', lo, z, i)
  <2>1. IsPath(Pending, i) /\ EndsAt(Pending, i, cached[i])
    BY DEF RowsInv, EventsRight
  <2>2. CASE ~Sets(e, i)
    <3>1. ~SetsState(Pending', n + 1, i) /\ (Asks(e, i) => Touches(Pending', n + 1, i))
      BY <1>1, <2>2 DEF SetsState, Touches
    <3>2. /\ cached'[i].state = cached[i].state
          /\ cached'[i].ip = cached[i].ip \/ Touches(Pending', n + 1, i)
      BY <2>2, <3>1 DEF Tells
    <3>3. \A c, d : d.state = c.state /\ (d.ip = c.ip \/ Touches(Pending', n + 1, i)) =>
            /\ IsPath(Pending, i) => IsPath(Pending', i)
            /\ EndsAt(Pending, i, c) => EndsAt(Pending', i, d)
            /\ \A lo \in Nat : \A z, ip : lo < n + 1 /\ Knows(Pending, lo, z, ip, c, i)
                                            => Knows(Pending', lo, z, ip, d, i)
      BY <1>1, <3>1, AppendedOther
    <3>4. \A lo \in Nat : \A z : lo < n + 1 /\ Carries(Pending, lo, z, i) => Carries(Pending', lo, z, i)
      BY <1>1, AppendedCarries
    <3> QED BY <2>1, <3>2, <3>3, <3>4
  <2>3. CASE Sets(e, i)
    <3>1. SetsState(Pending', n + 1, i)
      BY <1>1, <2>3 DEF SetsState
    <3>2. /\ cached'[i].state = StateOf(Pending'[n + 1]) /\ Legal(cached[i].state, cached'[i].state)
          /\ \/ cached'[i].ip = cached[i].ip /\ cached[i].state # "absent"
             \/ cached[i].state \in {"absent", cached'[i].state}
             \/ cached'[i].state = "absent"
      BY <1>1, <2>3 DEF Tells
    <3>3. \A c, d : /\ d.state = StateOf(Pending'[n + 1]) /\ Legal(c.state, d.state)
                    /\ \/ d.ip = c.ip /\ c.state # "absent"
                       \/ c.state \in {"absent", d.state}
                       \/ d.state = "absent"
                    /\ IsPath(Pending, i) /\ EndsAt(Pending, i, c)
            => /\ IsPath(Pending', i) /\ EndsAt(Pending', i, d)
               /\ \A lo \in Nat : \A z, ip : lo < n + 1 /\ Knows(Pending, lo, z, ip, c, i)
                                               => Knows(Pending', lo, z, ip, d, i)
      BY <1>1, <3>1, AppendedState
    <3>4. \A lo \in Nat : \A z : lo < n + 1 /\ Carries(Pending, lo, z, i) => Carries(Pending', lo, z, i)
      BY <1>1, AppendedCarries
    <3> QED BY <2>1, <3>2, <3>3, <3>4
  <2> QED BY <2>2, <2>3
<1>5. EventsRight'
  <2>1. MarkEnds(Pending', syncJob')
    <3> SUFFICES ASSUME NEW k \in DOMAIN Pending', Pending'[k].type = "syncStarted", ~MarkMoves(Pending', k)
                 PROVE  syncJob' = TRUE
      BY DEF MarkEnds
    <3>1. CASE k = n + 1
      BY <1>1, <3>1
    <3>2. CASE k # n + 1
      <4>1. k \in DOMAIN Pending /\ Pending'[k] = Pending[k] /\ k < n + 1
        BY <1>1, <1>2, <3>2 DEF Appended, Unhandled
      <4>2. ~MarksIt(e)
        BY <1>1, <4>1 DEF MarkMoves
      <4>3. ~MarkMoves(Pending, k)
        BY <1>1, <1>2 DEF MarkMoves, Appended, Unhandled
      <4> QED BY <4>1, <4>2, <4>3 DEF RowsInv, EventsRight, MarkEnds
    <3> QED BY <3>1, <3>2
  <2> QED BY <1>4, <2>1 DEF EventsRight
<1>6. ASSUME NEW lo \in Nat, lo < n + 1, NEW v, NEW w, w = v \/ MarksIt(e),
             MarkKnown(Pending, lo, v, syncJob)
      PROVE  MarkKnown(Pending', lo, w, syncJob')
  <2>1. CASE MarksIt(e)
    BY <1>1, <1>6, <2>1 DEF MarkKnown, MarkMoves
  <2>2. CASE ~MarksIt(e)
    <3>1. \A k \in DOMAIN Pending : k \in DOMAIN Pending' /\ Pending'[k] = Pending[k]
      BY <1>1, <1>2 DEF Appended, Unhandled
    <3> QED BY <1>6, <2>2, <3>1 DEF MarkKnown, MarkMoves
  <2> QED BY <2>1, <2>2
<1>7. ListsRight'
  <2> SUFFICES ASSUME NEW a \in replies', a.kind = "list" PROVE ListRight(a)'
    BY DEF ListsRight
  <2>1. a \in replies /\ ListRight(a) /\ a.at \in Nat
    BY DEF RowsInv, ListsRight, RowsTyped, IsAnswer
  <2>2. a.at <= n /\ a.at < n + 1 /\ a.at <= n + 1
    BY <1>1, <2>1 DEF ListRight, n
  <2> QED BY <1>1, <1>4, <1>6, <2>1, <2>2 DEF ListRight
<1>8. RowsRight'
  <2> SUFFICES ASSUME ~late', ~Refreshing'
               PROVE  /\ MarkKnown(Pending', handled', syncing', syncJob')
                      /\ \A i \in Instances :
                           Knows(Pending', handled', rows'[i].state, rows'[i].ip, cached'[i], i)
    BY DEF RowsRight
  <2>1. /\ MarkKnown(Pending, handled, syncing, syncJob)
        /\ \A i \in Instances : Knows(Pending, handled, rows[i].state, rows[i].ip, cached[i], i)
    BY <1>3 DEF RowsInv, RowsRight
  <2>2. MarkKnown(Pending', handled, syncing', syncJob')
    BY <1>2, <1>6, <2>1
  <2> QED BY <1>2, <1>4, <2>1, <2>2
<1>9. AnswersRight'
  <2> SUFFICES ASSUME NEW a \in replies', a.kind # "list", a.attached
               PROVE  /\ rows'[a.id].state # "absent"
                      /\ a.kind = "action" /\ ~a.failed /\ ~late' /\ ~Refreshing' =>
                           Harmless(Pending', handled', rows'[a.id].state, a.state, a.id)
    BY DEF AnswersRight
  <2>1. a.id \in Instances /\ (a.kind = "action" => a.state \in I!Transitional)
    BY DEF RowsTyped, IsAnswer
  <2>2. rows'[a.id].state # "absent"
    BY <2>1 DEF RowsInv, AnswersRight
  <2>3. ASSUME a.kind = "action", ~a.failed, ~late', ~Refreshing'
        PROVE  Harmless(Pending', handled, rows[a.id].state, a.state, a.id)
    <3>1. Knows(Pending, handled, rows[a.id].state, rows[a.id].ip, cached[a.id], a.id)
      BY <1>3, <2>1, <2>3 DEF RowsInv, RowsRight
    <3>2. CASE a \in replies
      <4>1. Harmless(Pending, handled, rows[a.id].state, a.state, a.id)
        BY <1>3, <2>3, <3>2 DEF RowsInv, AnswersRight
      <4>2. SetsState(Pending', n + 1, a.id) => Legal(cached[a.id].state, StateOf(Pending'[n + 1]))
        BY <1>1, <2>1 DEF SetsState, Tells
      <4>3. \A z, ip, c :
              /\ Harmless(Pending, handled, z, a.state, a.id) /\ Knows(Pending, handled, z, ip, c, a.id)
              /\ SetsState(Pending', n + 1, a.id) => Legal(c.state, StateOf(Pending'[n + 1]))
              => Harmless(Pending', handled, z, a.state, a.id)
        BY <1>1, <2>1, <2>3, AppendedHarmless
      <4> QED BY <3>1, <4>1, <4>2, <4>3
    <3>3. CASE a \notin replies
      <4>1. /\ cached[a.id].state \in I!Stable /\ rows[a.id].state \in I!Stable
            /\ SetsState(Pending', n + 1, a.id) /\ StateOf(Pending'[n + 1]) = a.state
        BY <1>1, <2>3, <3>3 DEF SetsState
      <4>2. EndsAt(Pending, a.id, cached[a.id])
        BY <2>1 DEF RowsInv, EventsRight
      <4>3. \A c, ip : \A z \in I!Stable :
              /\ c.state \in I!Stable /\ EndsAt(Pending, a.id, c) /\ Knows(Pending, handled, z, ip, c, a.id)
              => Harmless(Pending', handled, z, a.state, a.id)
        BY <1>1, <4>1, AcceptedHarmless
      <4> QED BY <3>1, <4>1, <4>2, <4>3
    <3> QED BY <3>2, <3>3
  <2> QED BY <2>1, <2>2, <2>3
<1> QED BY <1>5, <1>7, <1>8, <1>9 DEF RowsInv

-----------------------------------------------------------------------------
(* Steps that publish nothing and handle no event.                          *)

\* An answer that a request of the user or a read of the list asked for.
Fresh(a) ==
  \/ /\ a.kind = "list" /\ a.at = Published /\ a.syncing = syncJob
     /\ \A i \in Instances : a.rows[i].state = cached[i].state /\ a.rows[i].ip = cached[i].ip
  \/ a.kind = "action" /\ a.failed /\ rows[a.id].state # "absent"
  \/ a.kind = "terminate" /\ rows[a.id].state # "absent"

LEMMA FreshList ==
  ASSUME RowsInv, NEW a, IsAnswer(a), a.kind = "list", Fresh(a)
  PROVE  ListRight(a)
<1>1. /\ a.at = Published /\ a.syncing = syncJob
      /\ \A i \in Instances : a.rows[i].state = cached[i].state /\ a.rows[i].ip = cached[i].ip
  BY DEF Fresh
<1>2. Unhandled(Pending, handled, Published)
  BY PendingShape DEF RowsInv
<1>3. Published \in Nat /\ \A k \in DOMAIN Pending : k \in Nat /\ ~(Published < k)
  BY <1>2 DEF Unhandled
<1>4. ASSUME NEW i \in Instances
      PROVE  /\ Knows(Pending, Published, cached[i].state, cached[i].ip, cached[i], i)
             /\ Carries(Pending, Published, cached[i].state, i)
  <2>1. FirstIsChange(Pending, Published, cached[i].state, i)
    BY <1>3 DEF FirstIsChange, IsFirst
  <2>2. ASSUME NEW k \in DOMAIN Pending, SetsState(Pending, k, i), NoneIn(Pending, k, Published + 1, i)
        PROVE  StateOf(Pending[k]) = cached[i].state
    <3>1. \A j \in DOMAIN Pending : j < Published + 1
      BY <1>3
    <3>2. IsLast(Pending, k, i)
      BY <2>2, <3>1 DEF IsLast, Silent, NoneIn
    <3> QED BY <3>2 DEF RowsInv, EventsRight, EndsAt
  <2> QED BY <2>1, <2>2 DEF Knows, Carries
<1> QED BY <1>1, <1>3, <1>4 DEF ListRight, MarkKnown

LEMMA QuietStep ==
  ASSUME RowsInv, RowsTyped', UNCHANGED <<bus, handled, cached, syncJob>>,
         late => late', ~late' /\ ~Refreshing' => ~Refreshing,
         ~late' => syncing' = syncing,
         \A i \in Instances : /\ rows[i].state # "absent" => rows'[i].state # "absent"
                              /\ ~late' => rows'[i].state = rows[i].state /\ rows'[i].ip = rows[i].ip,
         \A a \in replies' : a \in replies \/ Fresh(a)
  PROVE  RowsInv'
<1>1. Pending' = Pending /\ Published' = Published
  BY DEF Pending, Published
<1>2. EventsRight'
  BY <1>1 DEF RowsInv, EventsRight
<1>3. ListsRight'
  <2> SUFFICES ASSUME NEW a \in replies', a.kind = "list" PROVE ListRight(a)'
    BY DEF ListsRight
  <2>1. ListRight(a)
    BY FreshList DEF RowsInv, ListsRight, RowsTyped
  <2> QED BY <1>1, <2>1 DEF ListRight
<1>4. AnswersRight'
  <2> SUFFICES ASSUME NEW a \in replies', a.kind # "list", a.attached
               PROVE  /\ rows'[a.id].state # "absent"
                      /\ a.kind = "action" /\ ~a.failed /\ ~late' /\ ~Refreshing' =>
                           Harmless(Pending', handled', rows'[a.id].state, a.state, a.id)
    BY DEF AnswersRight
  <2>1. a.id \in Instances
    BY DEF RowsTyped, IsAnswer
  <2>2. rows[a.id].state # "absent"
    BY DEF RowsInv, AnswersRight, Fresh
  <2>3. ASSUME a.kind = "action", ~a.failed, ~late', ~Refreshing'
        PROVE  Harmless(Pending, handled, rows[a.id].state, a.state, a.id)
    BY <2>3 DEF RowsInv, AnswersRight, Fresh
  <2> QED BY <1>1, <2>1, <2>2, <2>3
<1>5. RowsRight'
  BY <1>1 DEF RowsInv, RowsRight
<1> QED BY <1>2, <1>3, <1>4, <1>5 DEF RowsInv

-----------------------------------------------------------------------------
(* The answer of an accepted action, and a list, are put in place.          *)

LEMMA WriteStep ==
  ASSUME RowsInv, RowsTyped', NEW a \in replies, a.kind = "action", a.attached, ~a.failed,
         rows[a.id].state # "TERMINATING",
         UNCHANGED <<bus, handled, cached, syncJob, reads, soon, syncing>>,
         late => late', late' => late, replies' = replies \ {a},
         rows'[a.id].state = a.state, rows'[a.id].ip = rows[a.id].ip,
         \A i \in Instances \ {a.id} : rows'[i] = rows[i]
  PROVE  RowsInv'
<1>1. Pending' = Pending /\ Published' = Published
  BY DEF Pending, Published
<1>2. a.id \in Instances /\ a.state \in I!Transitional /\ Unhandled(Pending, handled, Published)
  BY PendingShape DEF RowsInv, RowsTyped, IsAnswer
<1>3. EventsRight' /\ ListsRight'
  BY <1>1 DEF RowsInv, EventsRight, ListsRight, ListRight
<1>4. ~Refreshing' => ~Refreshing
  BY DEF Refreshing
<1>5. ASSUME ~late, ~Refreshing
      PROVE  /\ \A ip, c : Knows(Pending, handled, rows[a.id].state, ip, c, a.id) =>
                             Knows(Pending, handled, a.state, ip, c, a.id)
             /\ \A t \in I!Transitional : Harmless(Pending, handled, rows[a.id].state, t, a.id) =>
                                            Harmless(Pending, handled, a.state, t, a.id)
  <2>1. Harmless(Pending, handled, rows[a.id].state, a.state, a.id)
    BY <1>5 DEF RowsInv, AnswersRight
  <2> HIDE DEF RowsInv
  <2>2. \A z : z # "TERMINATING" /\ Harmless(Pending, handled, z, a.state, a.id) =>
          /\ \A ip, c : Knows(Pending, handled, z, ip, c, a.id) => Knows(Pending, handled, a.state, ip, c, a.id)
          /\ \A t \in I!Transitional : Harmless(Pending, handled, z, t, a.id) => Harmless(Pending, handled, a.state, t, a.id)
    BY <1>2, WrittenKnows
  <2> QED BY <2>1, <2>2
<1>6. RowsRight'
  BY <1>1, <1>2, <1>4, <1>5 DEF RowsInv, RowsRight
<1>7. AnswersRight'
  <2> SUFFICES ASSUME NEW b \in replies', b.kind # "list", b.attached
               PROVE  /\ rows'[b.id].state # "absent"
                      /\ b.kind = "action" /\ ~b.failed /\ ~late' /\ ~Refreshing' =>
                           Harmless(Pending', handled', rows'[b.id].state, b.state, b.id)
    BY DEF AnswersRight
  <2>1. b \in replies /\ b.id \in Instances /\ (b.kind = "action" => b.state \in I!Transitional)
    BY DEF RowsInv, RowsTyped, IsAnswer
  <2>2. rows[b.id].state # "absent"
        /\ (b.kind = "action" /\ ~b.failed /\ ~late /\ ~Refreshing =>
              Harmless(Pending, handled, rows[b.id].state, b.state, b.id))
    BY <2>1 DEF RowsInv, AnswersRight
  <2>3. CASE b.id # a.id
    BY <1>1, <1>4, <2>1, <2>2, <2>3
  <2>4. CASE b.id = a.id
    <3>1. a.state # "absent"
      BY <1>2 DEF I!Transitional
    <3> QED BY <1>1, <1>4, <1>5, <2>1, <2>2, <2>4, <3>1
  <2> QED BY <2>3, <2>4
<1> QED BY <1>3, <1>6, <1>7 DEF RowsInv

LEMMA ReloadStep ==
  ASSUME RowsInv, RowsTyped', NEW a \in replies, a.kind = "list",
         UNCHANGED <<bus, handled, cached, syncJob, reads, soon>>,
         late' = (late \/ a.at < handled), syncing' = a.syncing,
         \A i \in Instances : /\ rows'[i].state = a.rows[i].state
                              /\ rows'[i].state # "absent" => rows'[i].ip = a.rows[i].ip,
         \A b \in replies' : b \in replies \/ (b.kind # "list" /\ ~b.attached),
         \A b \in replies' : b.kind # "list" => ~b.attached
  PROVE  RowsInv'
<1>1. Pending' = Pending /\ Published' = Published
  BY DEF Pending, Published
<1>2. EventsRight' /\ ListsRight'
  BY <1>1 DEF RowsInv, EventsRight, ListsRight, ListRight
<1>3. AnswersRight'
  BY DEF AnswersRight
<1>4. RowsRight'
  <2> SUFFICES ASSUME ~late'
               PROVE  /\ MarkKnown(Pending, handled, a.syncing, syncJob)
                      /\ \A i \in Instances :
                           Knows(Pending, handled, rows'[i].state, rows'[i].ip, cached[i], i)
    BY <1>1 DEF RowsRight
  <2>1. ListRight(a) /\ a.at \in Nat /\ handled \in Nat
    BY DEF RowsInv, ListsRight, RowsTyped, IsAnswer
  <2>5. ~(a.at < handled)
    OBVIOUS
  <2>2. a.at >= handled /\ handled <= a.at
    BY <2>1, <2>5
  <2>3. MarkKnown(Pending, handled, a.syncing, syncJob)
    <3>1. \A k \in DOMAIN Pending : handled < k
      BY PendingShape DEF RowsInv, Unhandled
    <3> QED BY <2>1, <2>2, <3>1 DEF ListRight, MarkKnown, MarkMoves
  <2>4. ASSUME NEW i \in Instances
        PROVE  Knows(Pending, handled, rows'[i].state, rows'[i].ip, cached[i], i)
    <3>1. Unhandled(Pending, handled, Published)
      BY PendingShape DEF RowsInv
    <3>2. /\ Knows(Pending, a.at, a.rows[i].state, a.rows[i].ip, cached[i], i)
          /\ Carries(Pending, a.at, a.rows[i].state, i)
      BY <2>1, <2>2 DEF ListRight
    <3>3. \A z, ip, c : Carries(Pending, a.at, z, i) /\ Knows(Pending, a.at, z, ip, c, i) =>
                          Knows(Pending, handled, z, ip, c, i)
      BY <2>1, <2>2, <3>1, ListKnows
    <3>4. Knows(Pending, handled, a.rows[i].state, a.rows[i].ip, cached[i], i)
      BY <3>2, <3>3
    <3>5. CASE rows'[i].state # "absent"
      BY <3>4, <3>5
    <3>6. CASE rows'[i].state = "absent"
      BY <3>4, <3>6 DEF Knows
    <3> QED BY <3>5, <3>6
  <2> QED BY <2>3, <2>4
<1> QED BY <1>2, <1>3, <1>4 DEF RowsInv

-----------------------------------------------------------------------------
(* The page handles an event.                                               *)

\* What handling e does to the row of i, if it asks for no read.
HandlesRow(e, i, r, q) ==
  \/ ~Sets(e, i) /\ ~Asks(e, i) /\ q.state = r.state /\ q.ip = r.ip
  \/ Sets(e, i) /\ StateOf(e) = "absent" /\ q.state = "absent"
  \/ /\ Sets(e, i) /\ StateOf(e) \notin {"absent", r.state} /\ r.state \in States
     /\ r.state \in I!Transitional => StateOf(e) \notin I!Stable
     /\ q.state = StateOf(e) /\ q.ip = r.ip

LEMMA HandleStep ==
  ASSUME RowsInv, RowsTyped', bus # <<>>, bus' = Tail(bus), handled' = handled + 1,
         UNCHANGED <<cached, syncJob, late>>, NEW e, e = Head(bus),
         Refreshing => Refreshing',
         MarksIt(e) => Refreshing' \/ (e.type = "syncStarted" /\ syncing' = TRUE),
         ~MarksIt(e) => syncing' = syncing,
         ~Refreshing' => \A i \in Instances : HandlesRow(e, i, rows[i], rows'[i]),
         \A a \in replies' : a.kind = "list" => a \in replies,
         \A a \in replies' : a.kind # "list" /\ a.attached => a \in replies /\ rows'[a.id].state # "absent"
  PROVE  RowsInv'
<1> DEFINE n == Published
<1>1. /\ Dropped(Pending, Pending', handled, n)
      /\ Published' = n /\ handled + 1 \in DOMAIN Pending /\ Pending[handled + 1] = e
  BY PendingDropped DEF RowsInv
<1>2. /\ handled \in Nat /\ n \in Nat /\ handled < handled + 1
      /\ DOMAIN Pending = {handled + 1} \union DOMAIN Pending'
      /\ \A k \in DOMAIN Pending' : k \in Nat /\ handled < k /\ handled + 1 < k
      /\ \A k \in DOMAIN Pending' : Pending'[k] = Pending[k]
  <2>1. \A k \in DOMAIN Pending' : k \in Nat /\ handled < k /\ handled + 1 < k
    BY <1>1, DroppedKeeps
  <2>2. handled \in Nat /\ handled < handled + 1 /\ DOMAIN Pending = {handled + 1} \union DOMAIN Pending'
    BY <1>1, DroppedKeeps
  <2> QED BY <1>1, <2>1, <2>2 DEF Dropped, Unhandled
<1> HIDE DEF n
<1>3. EventsRight'
  <2>1. ASSUME NEW i \in Instances PROVE IsPath(Pending', i) /\ EndsAt(Pending', i, cached'[i])
    <3>1. IsPath(Pending, i) /\ EndsAt(Pending, i, cached[i])
      BY DEF RowsInv, EventsRight
    <3>2. (IsPath(Pending, i) => IsPath(Pending', i)) /\ \A c : EndsAt(Pending, i, c) => EndsAt(Pending', i, c)
      BY <1>1, DroppedPath
    <3> QED BY <3>1, <3>2
  <2>2. ASSUME NEW k \in DOMAIN Pending', ~MarkMoves(Pending', k) PROVE ~MarkMoves(Pending, k)
    <3>1. ~(k < handled + 1)
      BY <1>2
    <3> QED BY <1>2, <2>2, <3>1 DEF MarkMoves
  <2>3. MarkEnds(Pending', syncJob)
    BY <1>2, <2>2 DEF MarkEnds, RowsInv, EventsRight
  <2> QED BY <2>1, <2>3 DEF EventsRight
<1>4. ListsRight'
  <2> SUFFICES ASSUME NEW a \in replies', a.kind = "list" PROVE ListRight(a)'
    BY DEF ListsRight
  <2>1. a \in replies /\ ListRight(a) /\ a.at \in Nat
    BY DEF RowsInv, ListsRight, RowsTyped, IsAnswer
  <2>2. a.at <= Published'
    BY <1>1, <2>1 DEF ListRight, n
  <2>3. ASSUME a.at >= handled + 1
        PROVE  /\ MarkKnown(Pending', a.at, a.syncing, syncJob)
               /\ \A i \in Instances :
                    /\ Knows(Pending', a.at, a.rows[i].state, a.rows[i].ip, cached[i], i)
                    /\ Carries(Pending', a.at, a.rows[i].state, i)
    <3>1. a.at >= handled /\ handled < a.at /\ ~(a.at < handled + 1)
      BY <1>2, <2>1, <2>3
    <3>2. MarkKnown(Pending', a.at, a.syncing, syncJob)
      BY <1>2, <2>1, <3>1 DEF ListRight, MarkKnown, MarkMoves
    <3>3. ASSUME NEW i \in Instances
          PROVE  /\ Knows(Pending', a.at, a.rows[i].state, a.rows[i].ip, cached[i], i)
                 /\ Carries(Pending', a.at, a.rows[i].state, i)
      <4>1. /\ Knows(Pending, a.at, a.rows[i].state, a.rows[i].ip, cached[i], i)
            /\ Carries(Pending, a.at, a.rows[i].state, i)
        BY <2>1, <3>1 DEF ListRight
      <4>2. \A z, ip, c : Knows(Pending, a.at, z, ip, c, i) => Knows(Pending', a.at, z, ip, c, i)
        BY <1>1, <2>1, <3>1, DroppedList
      <4>3. \A z : Carries(Pending, a.at, z, i) => Carries(Pending', a.at, z, i)
        BY <1>1, DroppedCarries
      <4> QED BY <4>1, <4>2, <4>3
    <3> QED BY <3>2, <3>3
  <2> QED BY <2>2, <2>3 DEF ListRight
<1>5. ASSUME ~late, ~Refreshing', NEW i \in Instances
      PROVE  /\ Knows(Pending', handled + 1, rows'[i].state, rows'[i].ip, cached[i], i)
             /\ rows'[i].state # "absent" =>
                  \A s \in I!Transitional : Harmless(Pending, handled, rows[i].state, s, i) =>
                                              Harmless(Pending', handled + 1, rows'[i].state, s, i)
  <2>1. /\ Knows(Pending, handled, rows[i].state, rows[i].ip, cached[i], i)
        /\ IsPath(Pending, i) /\ EndsAt(Pending, i, cached[i])
    BY <1>5 DEF RowsInv, RowsRight, EventsRight
  <2>2. CASE ~Sets(e, i) /\ ~Asks(e, i) /\ rows'[i].state = rows[i].state /\ rows'[i].ip = rows[i].ip
    <3>1. ~SetsState(Pending, handled + 1, i) /\ ~Touches(Pending, handled + 1, i)
      BY <1>1, <2>2 DEF SetsState, Touches
    <3>2. \A z, ip, c : Knows(Pending, handled, z, ip, c, i) => Knows(Pending', handled + 1, z, ip, c, i)
      BY <1>1, <3>1, DroppedOther
    <3>3. \A z, s : Harmless(Pending, handled, z, s, i) => Harmless(Pending', handled + 1, z, s, i)
      BY <1>1, <3>1, DroppedOtherHarmless
    <3> QED BY <2>1, <2>2, <3>2, <3>3
  <2>3. CASE Sets(e, i) /\ StateOf(e) = "absent" /\ rows'[i].state = "absent"
    <3>1. SetsState(Pending, handled + 1, i) /\ StateOf(Pending[handled + 1]) = "absent"
      BY <1>1, <2>3 DEF SetsState
    <3>2. \A z, ip, c : EndsAt(Pending, i, c) /\ Knows(Pending, handled, z, ip, c, i) =>
            \A jp : Knows(Pending', handled + 1, "absent", jp, c, i)
      BY <1>1, <3>1, DroppedRemoval
    <3> QED BY <2>1, <2>3, <3>2
  <2>4. CASE /\ Sets(e, i) /\ StateOf(e) \notin {"absent", rows[i].state} /\ rows[i].state \in States
             /\ rows[i].state \in I!Transitional => StateOf(e) \notin I!Stable
             /\ rows'[i].state = StateOf(e) /\ rows'[i].ip = rows[i].ip
    <3>1. SetsState(Pending, handled + 1, i) /\ StateOf(Pending[handled + 1]) = StateOf(e)
      BY <1>1, <2>4 DEF SetsState
    <3>2. \A z \in I!Stable \union I!Transitional : \A ip, c :
            /\ EndsAt(Pending, i, c) /\ StateOf(e) # z /\ (z \in I!Transitional => StateOf(e) \notin I!Stable)
            /\ Knows(Pending, handled, z, ip, c, i)
            => Knows(Pending', handled + 1, StateOf(e), ip, c, i)
      BY <1>1, <2>1, <2>4, <3>1, DroppedState
    <3>3. \A z \in I!Stable \union I!Transitional : \A s \in I!Transitional :
            /\ StateOf(e) # z /\ (z \in I!Transitional => StateOf(e) \notin I!Stable)
            /\ Harmless(Pending, handled, z, s, i)
            => Harmless(Pending', handled + 1, StateOf(e), s, i)
      BY <1>1, <2>1, <2>4, <3>1, DroppedHarmless
    <3> QED BY <2>1, <2>4, <3>2, <3>3 DEF States
  <2> QED BY <1>5, <2>2, <2>3, <2>4 DEF HandlesRow
<1>6. RowsRight'
  <2> SUFFICES ASSUME ~late, ~Refreshing'
               PROVE  /\ MarkKnown(Pending', handled + 1, syncing', syncJob)
                      /\ \A i \in Instances :
                           Knows(Pending', handled + 1, rows'[i].state, rows'[i].ip, cached[i], i)
    BY DEF RowsRight
  <2>1. MarkKnown(Pending, handled, syncing, syncJob)
    BY DEF RowsInv, RowsRight
  <2>2. CASE MarksIt(e)
    <3>1. e.type = "syncStarted" /\ syncing' = TRUE
      BY <2>2
    <3>2. MarkMoves(Pending, handled + 1) \/ syncJob = TRUE
      BY <1>1, <3>1 DEF RowsInv, EventsRight, MarkEnds
    <3>3. MarkMoves(Pending, handled + 1) => MarkMoves(Pending', handled + 1)
      <4>1. ~(handled + 1 < handled + 1)
        BY <1>2
      <4> QED BY <1>2, <4>1 DEF MarkMoves
    <3> QED BY <1>5, <3>1, <3>2, <3>3 DEF MarkKnown
  <2>3. CASE ~MarksIt(e)
    <3>1. MarkMoves(Pending, handled) => MarkMoves(Pending', handled + 1)
      BY <1>1, <1>2, <2>3 DEF MarkMoves
    <3> QED BY <1>5, <2>1, <2>3, <3>1 DEF MarkKnown
  <2> QED BY <2>2, <2>3
<1>7. AnswersRight'
  <2> SUFFICES ASSUME NEW a \in replies', a.kind # "list", a.attached
               PROVE  a.kind = "action" /\ ~a.failed /\ ~late' /\ ~Refreshing' =>
                        Harmless(Pending', handled', rows'[a.id].state, a.state, a.id)
    BY DEF AnswersRight
  <2>1. /\ a \in replies /\ a.id \in Instances /\ (a.kind = "action" => a.state \in I!Transitional)
        /\ rows'[a.id].state # "absent"
    BY DEF RowsTyped, IsAnswer
  <2>2. a.kind = "action" /\ ~a.failed /\ ~late /\ ~Refreshing =>
          Harmless(Pending, handled, rows[a.id].state, a.state, a.id)
    BY <2>1 DEF RowsInv, AnswersRight
  <2> QED BY <1>5, <2>1, <2>2
<1> QED BY <1>3, <1>4, <1>6, <1>7 DEF RowsInv

-----------------------------------------------------------------------------
(* The steps of the server.                                                 *)

IsStored(c) == c \in [Instances -> I!CachedRow \union {I!Absent}]

\* The state that an event carries, or none.
Said == States \union {""}

LEMMA UpdatedEvent ==
  ASSUME NEW i \in Instances, NEW s \in Said
  PROVE  LET e == I!Updated(i, s) IN
           /\ e \in I!Event /\ ~MarksIt(e) /\ e.type # "syncStarted" /\ StateOf(e) = s
           /\ \A j : Sets(e, j) <=> (j = i /\ s # "")
           /\ \A j : Asks(e, j) <=> (j = i /\ s = "")
<1> DEFINE e == I!Updated(i, s)
<1>1. e.type = "updated" /\ e.id = i /\ e.state = s
  BY DEF I!Updated
<1>2. e \in [type : {"updated"}, id : Instances, state : I!Stable \union I!Transitional \union {""}]
  BY DEF I!Updated, States, Said
<1>3. e \in I!Event
  BY <1>2 DEF I!Event
<1> HIDE DEF e
<1>4. /\ e \in I!Event /\ ~MarksIt(e) /\ e.type # "syncStarted" /\ StateOf(e) = s
      /\ \A j : Sets(e, j) <=> (j = i /\ s # "")
      /\ \A j : Asks(e, j) <=> (j = i /\ s = "")
  BY <1>1, <1>3 DEF MarksIt, StateOf, Sets, Asks
<1> QED BY <1>4 DEF e

LEMMA RemovedEvent ==
  ASSUME NEW i \in Instances, NEW t \in {"removed", "error"}, NEW e, e = [type |-> t, id |-> i]
  PROVE  /\ e \in I!Event /\ ~MarksIt(e) /\ e.type # "syncStarted"
         /\ \A j : Sets(e, j) <=> (j = i /\ t = "removed")
         /\ t = "removed" => StateOf(e) = "absent"
         /\ \A j : ~Asks(e, j)
<1>1. e \in [type : {"removed", "error"}, id : Instances]
  OBVIOUS
<1>2. e \in I!Event
  BY <1>1 DEF I!Event
<1> QED BY <1>2 DEF MarksIt, StateOf, Sets, Asks

LEMMA AddressEvent ==
  ASSUME NEW i \in Instances, NEW ip \in Nat, NEW e, e = [type |-> "changedIp", id |-> i, ip |-> ip]
  PROVE  /\ e \in I!Event /\ ~MarksIt(e) /\ e.type # "syncStarted"
         /\ \A j : ~Sets(e, j)
         /\ Asks(e, i)
<1>1. e \in [type : {"changedIp"}, id : Instances, ip : Nat]
  OBVIOUS
<1>2. e \in I!Event
  BY <1>1 DEF I!Event
<1> QED BY <1>2 DEF MarksIt, Sets, Asks

LEMMA MarkEvent ==
  ASSUME NEW t \in {"syncStarted", "syncFinished", "syncFailed"}, NEW e, e = [type |-> t]
  PROVE  e \in I!Event /\ MarksIt(e) /\ e.type = t /\ \A j : ~Sets(e, j)
<1>1. e \in [type : {"syncStarted", "syncFinished", "syncFailed"}]
  OBVIOUS
<1>2. e \in I!Event
  BY <1>1 DEF I!Event
<1> QED BY <1>2 DEF MarksIt, Sets

LEMMA CachedShape ==
  ASSUME RowsTyped, NEW i \in Instances
  PROVE  \/ cached[i] = I!Absent /\ cached[i].state = "absent"
         \/ /\ cached[i] # I!Absent /\ cached[i].state \in States /\ cached[i].ip \in Nat
            /\ cached[i] \in I!CachedRow /\ cached[i].state # "absent"
BY DEF RowsTyped, I!CachedRow, I!Absent, States, I!Stable, I!Transitional

LEMMA RowShape ==
  ASSUME RowsTyped, NEW i \in Instances
  PROVE  \/ rows[i] = I!NoRow /\ rows[i].state = "absent"
         \/ /\ rows[i] # I!NoRow /\ rows[i].state \in States /\ rows[i].ip \in Nat
            /\ rows[i].state # "absent"
BY DEF RowsTyped, IsRow, I!NoRow, States, I!Stable, I!Transitional

LEMMA ServerStep ==
  ASSUME RowsInv, NEW e \in I!Event, bus' = Append(bus, e), IsStored(cached'),
         UNCHANGED <<handled, reads, replies, rows, soon, late, syncing>>,
         \A i \in Instances : Tells(e, i, cached[i], cached'[i]),
         MarksIt(e) \/ (syncJob' = syncJob /\ ~MarksIt(e)),
         e.type = "syncStarted" => syncJob' = TRUE
  PROVE  RowsInv'
<1>1. RowsTyped'
  BY DEF RowsInv, RowsTyped, IsStored
<1>2. \A i \in Instances : rows'[i].state = rows[i].state /\ rows'[i].ip = rows[i].ip
  OBVIOUS
<1>3. MarksIt(e) \/ (syncJob' = syncJob /\ syncing' = syncing /\ ~MarksIt(e))
  OBVIOUS
<1>4. replies \subseteq replies' /\ replies' \ replies = {}
  OBVIOUS
<1> HIDE DEF RowsInv, RowsTyped
<1> QED BY <1>1, <1>2, <1>3, <1>4, PublishStep

\* The row of i becomes d, and an event says so.
LEMMA StoreStep ==
  ASSUME RowsInv, NEW i \in Instances, NEW d \in I!CachedRow \union {I!Absent},
         cached' = [cached EXCEPT ![i] = d],
         NEW e \in I!Event, bus' = Append(bus, e), ~MarksIt(e), e.type # "syncStarted",
         UNCHANGED <<syncJob, handled, reads, replies, rows, soon, late, syncing>>,
         Tells(e, i, cached[i], d), \A j : j # i => ~Sets(e, j)
  PROVE  RowsInv'
<1>1. IsStored(cached) /\ cached'[i] = d /\ \A j \in Instances \ {i} : cached'[j] = cached[j]
  BY DEF RowsInv, RowsTyped, IsStored
<1>2. IsStored(cached')
  BY <1>1 DEF IsStored
<1>3. \A j \in Instances : Tells(e, j, cached[j], cached'[j])
  BY <1>1 DEF Tells
<1> QED BY <1>2, <1>3, ServerStep

LEMMA Appears ==
  ASSUME RowsInv, NEW i \in Instances, I!Appear(i)
  PROVE  RowsInv'
<1> DEFINE d == [state |-> "PROVISIONING", ip |-> 0]
           e == I!Updated(i, "PROVISIONING")
<1>1. /\ cached[i] = I!Absent /\ cached' = [cached EXCEPT ![i] = d] /\ bus' = Append(bus, e)
  BY DEF I!Appear, I!Change
<1>9. "PROVISIONING" \in Said
  BY DEF States, I!Transitional, Said
<1>2. d \in I!CachedRow /\ d.state = "PROVISIONING"
  BY DEF States, I!CachedRow, I!Transitional
<1>3. UNCHANGED <<syncJob, handled, reads, replies, rows, soon, late, syncing>>
  BY DEF I!Appear
<1>7. /\ e \in I!Event /\ ~MarksIt(e) /\ e.type # "syncStarted" /\ StateOf(e) = "PROVISIONING"
      /\ \A j : Sets(e, j) <=> (j = i /\ "PROVISIONING" # "")
      /\ \A j : Asks(e, j) <=> (j = i /\ "PROVISIONING" = "")
  BY <1>9, UpdatedEvent
<1> HIDE DEF d, e
<1>4. Sets(e, i) /\ \A j : j # i => ~Sets(e, j)
  BY <1>7
<1>5. cached[i].state = "absent" /\ Legal("absent", "PROVISIONING")
  BY <1>1 DEF I!Absent, Legal, I!Stable, I!Transitional
<1>6. Tells(e, i, cached[i], d)
  BY <1>2, <1>4, <1>5, <1>7 DEF Tells
<1> QED BY <1>1, <1>2, <1>3, <1>4, <1>6, <1>7, StoreStep

\* A state follows another.
LEMMA StateStep ==
  ASSUME RowsInv, NEW i \in Instances, cached[i] # I!Absent, NEW s \in States,
         Legal(cached[i].state, s),
         cached' = [cached EXCEPT ![i].state = s], bus' = Append(bus, I!Updated(i, s)),
         UNCHANGED <<syncJob, handled, reads, replies, rows, soon, late, syncing>>
  PROVE  RowsInv'
<1> DEFINE d == [cached[i] EXCEPT !.state = s]
           e == I!Updated(i, s)
<1>1. cached[i] \in I!CachedRow /\ cached[i].state # "absent" /\ cached[i].state \in States
  BY CachedShape DEF RowsInv
<1>2. d \in I!CachedRow /\ d.state = s /\ d.ip = cached[i].ip
  BY <1>1 DEF I!CachedRow, States
<1>3. cached' = [cached EXCEPT ![i] = d] /\ bus' = Append(bus, e)
  BY DEF RowsInv, RowsTyped
<1>9. s \in Said
  BY DEF Said
<1>6. s # ""
  BY DEF States, I!Stable, I!Transitional
<1>7. /\ e \in I!Event /\ ~MarksIt(e) /\ e.type # "syncStarted" /\ StateOf(e) = s
      /\ \A j : Sets(e, j) <=> (j = i /\ s # "")
      /\ \A j : Asks(e, j) <=> (j = i /\ s = "")
  BY <1>9, UpdatedEvent
<1> HIDE DEF d, e
<1>4. Sets(e, i) /\ \A j : j # i => ~Sets(e, j)
  BY <1>6, <1>7
<1>5. Tells(e, i, cached[i], d)
  BY <1>1, <1>2, <1>4, <1>7 DEF Tells
<1> QED BY <1>2, <1>3, <1>4, <1>5, <1>7, StoreStep

LEMMA ActsElsewhere ==
  ASSUME RowsInv, NEW i \in Instances, I!ElsewhereActs(i)
  PROVE  RowsInv'
<1>1. PICK s \in {"STOPPING", "STARTING", "TERMINATING"} :
        /\ \/ s = "STOPPING" /\ cached[i].state = "RUNNING"
           \/ s = "STARTING" /\ cached[i].state = "STOPPED"
           \/ s = "TERMINATING" /\ cached[i].state # "TERMINATING"
        /\ cached' = [cached EXCEPT ![i].state = s] /\ bus' = Append(bus, I!Updated(i, s))
  BY DEF I!ElsewhereActs, I!Change
<1>2. cached[i] # I!Absent /\ UNCHANGED <<syncJob, handled, reads, replies, rows, soon, late, syncing>>
  BY DEF I!ElsewhereActs
<1>3. s \in States /\ Legal(cached[i].state, s)
  BY <1>1 DEF States, Legal, I!Stable, I!Transitional
<1> QED BY <1>1, <1>2, <1>3, StateStep

LEMMA Settles ==
  ASSUME RowsInv, NEW i \in Instances, I!Settle(i)
  PROVE  RowsInv'
<1>1. /\ cached[i] # I!Absent /\ cached[i].state \in I!Transitional
      /\ UNCHANGED <<syncJob, handled, reads, replies, rows, soon, late, syncing>>
  BY DEF I!Settle, I!isTransitional
<1>2. CASE cached[i].state = "TERMINATING"
  <2> DEFINE e == [type |-> "removed", id |-> i]
  <2>1. cached' = [cached EXCEPT ![i] = I!Absent] /\ bus' = Append(bus, e)
    BY <1>2 DEF I!Settle, I!Change
  <2> HIDE DEF e
  <2>2. /\ e \in I!Event /\ ~MarksIt(e) /\ e.type # "syncStarted" /\ StateOf(e) = "absent"
        /\ Sets(e, i) /\ \A j : j # i => ~Sets(e, j)
    BY RemovedEvent DEF e
  <2>3. I!Absent.state = "absent" /\ Legal(cached[i].state, "absent")
    BY <1>2 DEF I!Absent, Legal, I!Stable, I!Transitional
  <2>4. Tells(e, i, cached[i], I!Absent)
    BY <2>2, <2>3 DEF Tells
  <2> QED BY <1>1, <2>1, <2>2, <2>4, StoreStep
<1>3. CASE cached[i].state # "TERMINATING"
  <2> DEFINE s == IF cached[i].state = "STOPPING" THEN "STOPPED" ELSE "RUNNING"
  <2>1. cached' = [cached EXCEPT ![i].state = s] /\ bus' = Append(bus, I!Updated(i, s))
    BY <1>3 DEF I!Settle, I!Change
  <2>2. s \in States /\ Legal(cached[i].state, s)
    BY <1>1, <1>3 DEF States, Legal, I!Stable, I!Transitional
  <2> HIDE DEF s
  <2> QED BY <1>1, <2>1, <2>2, StateStep
<1> QED BY <1>2, <1>3

LEMMA Completes ==
  ASSUME RowsInv, NEW i \in Instances, I!Complete(i) \/ I!ChangeIpEnds(i)
  PROVE  RowsInv'
<1> DEFINE d == [cached[i] EXCEPT !.ip = @ + 1]
<1>1. /\ cached[i] # I!Absent /\ cached' = [cached EXCEPT ![i].ip = @ + 1]
      /\ UNCHANGED <<syncJob, handled, reads, replies, rows, soon, late, syncing>>
  BY DEF I!Complete, I!ChangeIpEnds
<1>2. /\ cached[i] \in I!CachedRow /\ cached[i].state \in States /\ cached[i].state # "absent"
      /\ cached[i].ip \in Nat
  BY <1>1, CachedShape DEF RowsInv
<1>3. d \in I!CachedRow /\ d.state = cached[i].state
  BY <1>2 DEF I!CachedRow
<1>4. cached' = [cached EXCEPT ![i] = d]
  BY <1>1 DEF RowsInv, RowsTyped
<1> HIDE DEF d
<1>5. CASE I!Complete(i)
  <2>1. PICK s \in {"", cached[i].state} : bus' = Append(bus, I!Updated(i, s))
    BY <1>5 DEF I!Complete, I!Change
  <2> DEFINE e == I!Updated(i, s)
  <2>2. bus' = Append(bus, e)
    BY <2>1
  <2>3. s \in Said
    BY <1>2 DEF Said
  <2>4. /\ e \in I!Event /\ ~MarksIt(e) /\ e.type # "syncStarted" /\ StateOf(e) = s
        /\ \A j : Sets(e, j) <=> (j = i /\ s # "")
        /\ \A j : Asks(e, j) <=> (j = i /\ s = "")
    BY <2>3, UpdatedEvent
  <2> HIDE DEF e
  <2>5. Legal(cached[i].state, cached[i].state)
    BY DEF Legal
  <2>6. Tells(e, i, cached[i], d)
    BY <1>3, <2>1, <2>4, <2>5 DEF Tells
  <2> QED BY <1>1, <1>3, <1>4, <2>2, <2>4, <2>6, StoreStep
<1>6. CASE I!ChangeIpEnds(i)
  <2> DEFINE e == [type |-> "changedIp", id |-> i, ip |-> cached[i].ip + 1]
  <2>1. bus' = Append(bus, e) /\ e = [type |-> "changedIp", id |-> i, ip |-> cached[i].ip + 1]
    BY <1>6 DEF I!ChangeIpEnds, I!Change
  <2> HIDE DEF e
  <2>2. cached[i].ip + 1 \in Nat
    BY <1>2
  <2>3. /\ e \in I!Event /\ ~MarksIt(e) /\ e.type # "syncStarted"
        /\ \A j : ~Sets(e, j)
        /\ Asks(e, i)
    BY <2>1, <2>2, AddressEvent
  <2>4. Tells(e, i, cached[i], d)
    BY <1>3, <2>3 DEF Tells
  <2> QED BY <1>1, <1>3, <1>4, <2>1, <2>3, <2>4, StoreStep
<1> QED BY <1>5, <1>6

LEMMA RecordsFailure ==
  ASSUME RowsInv, NEW i \in Instances, I!RecordFailure(i)
  PROVE  RowsInv'
<1> DEFINE e == [type |-> "error", id |-> i]
<1>1. /\ bus' = Append(bus, e) /\ e = [type |-> "error", id |-> i]
      /\ UNCHANGED <<cached, syncJob, handled, reads, replies, rows, soon, late, syncing>>
  BY DEF I!RecordFailure, I!Change
<1> HIDE DEF e
<1>2. e \in I!Event /\ ~MarksIt(e) /\ e.type # "syncStarted" /\ \A j : ~Sets(e, j)
  BY <1>1, RemovedEvent
<1>3. IsStored(cached') /\ \A j \in Instances : Tells(e, j, cached[j], cached'[j])
  BY <1>1, <1>2 DEF RowsInv, RowsTyped, IsStored, Tells
<1> QED BY <1>1, <1>2, <1>3, ServerStep

LEMMA Synchronises ==
  ASSUME RowsInv, I!SyncBegins \/ I!SyncEnds
  PROVE  RowsInv'
<1>1. /\ UNCHANGED <<cached, handled, reads, replies, rows, soon, late, syncing>>
      /\ \E t \in {"syncStarted", "syncFinished", "syncFailed"} :
           bus' = Append(bus, [type |-> t]) /\ (t = "syncStarted" => syncJob' = TRUE)
  BY DEF I!SyncBegins, I!SyncEnds, I!Change
<1>2. PICK t \in {"syncStarted", "syncFinished", "syncFailed"} :
        bus' = Append(bus, [type |-> t]) /\ (t = "syncStarted" => syncJob' = TRUE)
  BY <1>1
<1> DEFINE e == [type |-> t]
<1>3. bus' = Append(bus, e) /\ e = [type |-> t]
  BY <1>2
<1> HIDE DEF e
<1>4. e \in I!Event /\ MarksIt(e) /\ e.type = t /\ \A j : ~Sets(e, j)
  BY <1>3, MarkEvent
<1>5. IsStored(cached') /\ \A j \in Instances : Tells(e, j, cached[j], cached'[j])
  BY <1>1, <1>4 DEF RowsInv, RowsTyped, IsStored, Tells
<1> QED BY <1>1, <1>2, <1>3, <1>4, <1>5, ServerStep

-----------------------------------------------------------------------------
(* The requests of the user.                                                *)

IsRows(r) == DOMAIN r = Instances /\ \A i \in Instances : IsRow(r[i])

\* A mark of the moment is set in a row.
LEMMA BusyRow ==
  ASSUME RowsTyped, NEW i \in Instances, rows[i] # I!NoRow, NEW v,
         rows' = [rows EXCEPT ![i].busy = v]
  PROVE  /\ IsRows(rows')
         /\ \A j \in Instances : rows'[j].state = rows[j].state /\ rows'[j].ip = rows[j].ip
<1>1. PICK b, h, s, ip : /\ rows[i] = [state |-> s, ip |-> ip, busy |-> b, settled |-> h]
                         /\ s \in States /\ ip \in Nat
  BY DEF RowsTyped, IsRow
<1>2. rows'[i] = [state |-> s, ip |-> ip, busy |-> v, settled |-> h]
  BY <1>1 DEF RowsTyped
<1>3. DOMAIN rows' = Instances /\ \A j \in Instances : j # i => rows'[j] = rows[j]
  BY DEF RowsTyped
<1>4. rows'[i].state = rows[i].state /\ rows'[i].ip = rows[i].ip
  BY <1>1, <1>2
<1>5. IsRow(rows'[i])
  BY <1>1, <1>2, Zenon DEF IsRow
<1> QED BY <1>3, <1>4, <1>5 DEF IsRows, RowsTyped

LEMMA RunsAction ==
  ASSUME RowsInv, NEW i \in Instances, I!RunAction(i)
  PROVE  RowsInv'
<1> DEFINE s == IF rows[i].state = "RUNNING" THEN "STOPPING" ELSE "STARTING"
           answer(f) == [kind |-> "action", id |-> i, attached |-> TRUE, failed |-> f,
                         previous |-> rows[i].state, state |-> s]
<1>1. /\ rows[i] # I!NoRow /\ rows[i].state \notin I!Transitional
      /\ rows' = [rows EXCEPT ![i].busy = TRUE]
      /\ UNCHANGED <<syncJob, handled, reads, syncing, soon, late>>
  BY DEF I!RunAction, I!Offered, I!isTransitional
<1>2. RowsTyped
  BY DEF RowsInv
<1>3. /\ IsRows(rows')
      /\ \A j \in Instances : rows'[j].state = rows[j].state /\ rows'[j].ip = rows[j].ip
  BY <1>1, <1>2, BusyRow
<1>4. rows[i].state \in I!Stable /\ rows[i].state # "absent"
  BY <1>1, <1>2, RowShape DEF States
<1>5. s \in I!Transitional \ {"TERMINATING"} /\ s \in States
  BY DEF I!Transitional, States
<1>6. \A f : IsAnswer(answer(f))
  BY <1>4, <1>5 DEF IsAnswer
<1>7. CASE /\ cached[i] # I!Absent /\ cached[i].state \notin I!Transitional
           /\ cached' = [cached EXCEPT ![i].state = s] /\ bus' = Append(bus, I!Updated(i, s))
           /\ replies' = replies \union {answer(FALSE)}
  <2> DEFINE e == I!Updated(i, s)
  <2>1. /\ cached[i] \in I!CachedRow /\ cached[i].state \in I!Stable /\ cached[i].state # "absent"
    BY <1>2, <1>7, CachedShape DEF States
  <2>2. s \in Said /\ s # ""
    BY <1>5 DEF Said, I!Transitional
  <2>3. /\ e \in I!Event /\ ~MarksIt(e) /\ e.type # "syncStarted" /\ StateOf(e) = s
        /\ \A j : Sets(e, j) <=> (j = i /\ s # "")
        /\ \A j : Asks(e, j) <=> (j = i /\ s = "")
    <3> HIDE DEF s
    <3> QED BY <2>2, UpdatedEvent
  <2>4. bus' = Append(bus, e)
    BY <1>7
  <2>5. /\ answer(FALSE).kind = "action" /\ answer(FALSE).id = i /\ answer(FALSE).state = s
        /\ answer(FALSE).kind # "list"
    OBVIOUS
  <2>6. IsAnswer(answer(FALSE))
    BY <1>6
  <2> DEFINE g == answer(FALSE)
  <2>7. /\ replies' = replies \union {g} /\ IsAnswer(g) /\ g.kind = "action" /\ g.id = i /\ g.state = s
        /\ g.kind # "list"
    BY <1>7, <2>5, <2>6
  <2>8. Legal(cached[i].state, s)
    BY <2>1, <1>5 DEF Legal, I!Stable, I!Transitional
  <2> HIDE DEF s, e, answer, g
  <2>9. /\ cached'[i].state = s /\ cached'[i].ip = cached[i].ip
        /\ \A j \in Instances : j # i => cached'[j] = cached[j]
        /\ cached' \in [Instances -> I!CachedRow \union {I!Absent}]
    <3>1. [cached[i] EXCEPT !.state = s] \in I!CachedRow
      BY <1>5, <2>1 DEF I!CachedRow, States
    <3>2. cached' = [cached EXCEPT ![i] = [cached[i] EXCEPT !.state = s]]
      BY <1>2, <1>7 DEF RowsTyped
    <3>3. [cached[i] EXCEPT !.state = s].state = s /\ [cached[i] EXCEPT !.state = s].ip = cached[i].ip
      BY <2>1 DEF I!CachedRow
    <3> QED BY <1>2, <3>1, <3>2, <3>3 DEF RowsTyped
  <2>10. \A j \in Instances : Tells(e, j, cached[j], cached'[j])
    BY <2>1, <2>2, <2>3, <2>8, <2>9 DEF Tells
  <2>11. RowsTyped'
    <3>2. bus \in Seq(I!Event)
      BY <1>2 DEF RowsTyped
    <3>3. e \in I!Event
      BY <2>3
    <3>1. bus' \in Seq(I!Event)
      BY <2>4, <3>2, <3>3
    <3> QED BY <1>1, <1>2, <1>3, <2>7, <2>9, <3>1 DEF RowsTyped, IsRows
  <2>12. \A a \in replies' \ replies :
           /\ a.kind # "list" /\ rows[a.id].state # "absent"
           /\ a.kind = "action" /\ ~a.failed =>
                /\ cached[a.id].state \in I!Stable /\ rows[a.id].state \in I!Stable
                /\ Sets(e, a.id) /\ StateOf(e) = a.state
    BY <1>4, <2>1, <2>2, <2>3, <2>7
  <2>13. replies \subseteq replies'
    BY <2>7
  <2> QED BY <1>1, <1>3, <2>3, <2>4, <2>10, <2>11, <2>12, <2>13, PublishStep
<1>8. CASE replies' = replies \union {answer(TRUE)} /\ UNCHANGED <<cached, bus>>
  <2> DEFINE g == answer(TRUE)
  <2>1. /\ replies' = replies \union {g} /\ IsAnswer(g) /\ g.kind = "action" /\ g.id = i /\ g.failed = TRUE
    BY <1>6, <1>8
  <2> HIDE DEF s, answer, g
  <2>2. RowsTyped'
    BY <1>1, <1>2, <1>3, <1>8, <2>1 DEF RowsTyped, IsRows
  <2>3. \A a \in replies' : a \in replies \/ Fresh(a)
    BY <1>4, <2>1 DEF Fresh
  <2>4. ~Refreshing' => ~Refreshing
    BY <1>1, <2>1 DEF Refreshing
  <2> QED BY <1>1, <1>3, <1>8, <2>2, <2>3, <2>4, QuietStep
<1> QED BY <1>7, <1>8 DEF I!RunAction, I!isTransitional

LEMMA Terminates ==
  ASSUME RowsInv, NEW i \in Instances, I!Terminate(i)
  PROVE  RowsInv'
<1> DEFINE s == "TERMINATING"
           g == [kind |-> "terminate", id |-> i, attached |-> TRUE]
<1>1. /\ rows[i] # I!NoRow
      /\ rows' = [rows EXCEPT ![i].busy = TRUE]
      /\ UNCHANGED <<syncJob, handled, reads, syncing, soon, late>>
  BY DEF I!Terminate, I!Offered
<1>2. RowsTyped
  BY DEF RowsInv
<1>3. /\ IsRows(rows')
      /\ \A j \in Instances : rows'[j].state = rows[j].state /\ rows'[j].ip = rows[j].ip
  BY <1>1, <1>2, BusyRow
<1>4. rows[i].state # "absent"
  BY <1>1, <1>2, RowShape
<1>5. replies' = replies \union {g} /\ IsAnswer(g) /\ g.kind = "terminate" /\ g.id = i
  BY DEF I!Terminate, IsAnswer
<1>6. CASE /\ cached[i] # I!Absent /\ cached' = [cached EXCEPT ![i].state = s]
           /\ bus' = Append(bus, I!Updated(i, s))
  <2> DEFINE e == I!Updated(i, s)
  <2>1. cached[i] \in I!CachedRow /\ cached[i].state \in States /\ cached[i].state # "absent"
    BY <1>2, <1>6, CachedShape
  <2>2. s \in Said /\ s # "" /\ s \in States
    BY DEF Said, States, I!Transitional
  <2>3. /\ e \in I!Event /\ ~MarksIt(e) /\ e.type # "syncStarted" /\ StateOf(e) = s
        /\ \A j : Sets(e, j) <=> (j = i /\ s # "")
        /\ \A j : Asks(e, j) <=> (j = i /\ s = "")
    <3> HIDE DEF s
    <3> QED BY <2>2, UpdatedEvent
  <2>4. bus' = Append(bus, e)
    BY <1>6
  <2>8. Legal(cached[i].state, s)
    BY DEF Legal, I!Stable, I!Transitional
  <2> HIDE DEF s, e, g
  <2>9. /\ cached'[i].state = s /\ cached'[i].ip = cached[i].ip
        /\ \A j \in Instances : j # i => cached'[j] = cached[j]
        /\ cached' \in [Instances -> I!CachedRow \union {I!Absent}]
    <3>1. [cached[i] EXCEPT !.state = s] \in I!CachedRow
      BY <2>1, <2>2 DEF I!CachedRow, States
    <3>2. cached' = [cached EXCEPT ![i] = [cached[i] EXCEPT !.state = s]]
      BY <1>2, <1>6 DEF RowsTyped
    <3>3. [cached[i] EXCEPT !.state = s].state = s /\ [cached[i] EXCEPT !.state = s].ip = cached[i].ip
      BY <2>1 DEF I!CachedRow
    <3> QED BY <1>2, <3>1, <3>2, <3>3 DEF RowsTyped
  <2>10. \A j \in Instances : Tells(e, j, cached[j], cached'[j])
    BY <2>1, <2>2, <2>3, <2>8, <2>9 DEF Tells
  <2>11. RowsTyped'
    <3>2. bus \in Seq(I!Event)
      BY <1>2 DEF RowsTyped
    <3>3. e \in I!Event
      BY <2>3
    <3>1. bus' \in Seq(I!Event)
      BY <2>4, <3>2, <3>3
    <3> QED BY <1>1, <1>2, <1>3, <1>5, <2>9, <3>1 DEF RowsTyped, IsRows
  <2>12. \A a \in replies' \ replies :
           /\ a.kind # "list" /\ rows[a.id].state # "absent"
           /\ a.kind = "action" /\ ~a.failed =>
                /\ cached[a.id].state \in I!Stable /\ rows[a.id].state \in I!Stable
                /\ Sets(e, a.id) /\ StateOf(e) = a.state
    BY <1>4, <1>5
  <2>13. replies \subseteq replies'
    BY <1>5
  <2> QED BY <1>1, <1>3, <2>3, <2>4, <2>10, <2>11, <2>12, <2>13, PublishStep
<1>7. CASE UNCHANGED <<cached, bus>>
  <2> HIDE DEF g
  <2>1. RowsTyped'
    BY <1>1, <1>2, <1>3, <1>5, <1>7 DEF RowsTyped, IsRows
  <2>2. \A a \in replies' : a \in replies \/ Fresh(a)
    BY <1>4, <1>5 DEF Fresh
  <2>3. ~Refreshing' => ~Refreshing
    BY <1>1, <1>5 DEF Refreshing
  <2> QED BY <1>1, <1>3, <1>7, <2>1, <2>2, <2>3, QuietStep
<1> QED BY <1>6, <1>7 DEF I!Terminate

LEMMA AsksToSynchronise ==
  ASSUME RowsInv, I!SyncNow
  PROVE  RowsInv'
<1>1. UNCHANGED <<cached, handled, reads, replies, rows, soon, late>>
  BY DEF I!SyncNow
<1>2. CASE syncing' = TRUE /\ syncJob' = TRUE /\ bus' = Append(bus, [type |-> "syncStarted"])
  <2> DEFINE e == [type |-> "syncStarted"]
  <2>1. bus' = Append(bus, e) /\ e \in I!Event /\ MarksIt(e) /\ \A j : ~Sets(e, j)
    BY <1>2, MarkEvent
  <2> HIDE DEF e
  <2>2. \A j \in Instances : Tells(e, j, cached[j], cached'[j])
    BY <1>1, <2>1 DEF Tells
  <2>3. RowsTyped'
    <3>1. bus' \in Seq(I!Event)
      BY <2>1 DEF RowsInv, RowsTyped
    <3> QED BY <1>1, <3>1 DEF RowsInv, RowsTyped
  <2>4. \A i \in Instances : rows'[i].state = rows[i].state /\ rows'[i].ip = rows[i].ip
    BY <1>1
  <2>5. replies \subseteq replies' /\ replies' \ replies = {}
    BY <1>1
  <2> HIDE DEF RowsInv
  <2> QED BY <1>1, <1>2, <2>1, <2>2, <2>3, <2>4, <2>5, PublishStep
<1>3. CASE UNCHANGED <<syncing, syncJob, bus>>
  <2>1. RowsTyped' /\ (~Refreshing' => ~Refreshing)
    BY <1>1, <1>3 DEF RowsInv, RowsTyped, Refreshing
  <2>2. /\ \A i \in Instances : rows'[i].state = rows[i].state /\ rows'[i].ip = rows[i].ip
        /\ \A a \in replies' : a \in replies
    BY <1>1
  <2> QED BY <1>1, <1>3, <2>1, <2>2, QuietStep
<1> QED BY <1>2, <1>3 DEF I!SyncNow

-----------------------------------------------------------------------------
(* Reads, timers and answers.                                               *)

LEMMA ReadsAgain ==
  ASSUME RowsInv, I!Refresh \/ I!RefreshSoon
  PROVE  RowsInv'
<1>1. /\ UNCHANGED <<bus, handled, cached, syncJob, replies, rows, syncing, late>>
      /\ reads' = reads + 1
  BY DEF I!Refresh, I!RefreshSoon, I!serverVars
<1>2. RowsTyped' /\ Refreshing'
  BY <1>1 DEF RowsInv, RowsTyped, Refreshing
<1>3. /\ \A i \in Instances : rows'[i].state = rows[i].state /\ rows'[i].ip = rows[i].ip
      /\ \A a \in replies' : a \in replies
  BY <1>1
<1> QED BY <1>1, <1>2, <1>3, QuietStep

LEMMA Serves ==
  ASSUME RowsInv, I!ServeList
  PROVE  RowsInv'
<1> DEFINE g == [kind |-> "list", rows |-> cached, syncing |-> syncJob, at |-> handled + Len(bus)]
<1>1. /\ UNCHANGED <<bus, handled, cached, syncJob, rows, syncing, soon, late>>
      /\ reads > 0 /\ reads' = reads - 1 /\ replies' = replies \union {g}
  BY DEF I!ServeList, I!serverVars
<1>2. /\ g.kind = "list" /\ g.at = Published /\ g.rows = cached /\ g.syncing = syncJob
  BY DEF Published
<1>3. IsAnswer(g)
  <2>1. cached \in [Instances -> I!CachedRow \union {I!Absent}] /\ handled + Len(bus) \in Nat
    BY DEF RowsInv, RowsTyped
  <2> QED BY <2>1, Zenon DEF IsAnswer
<1> HIDE DEF g
<1>4. RowsTyped'
  BY <1>1, <1>3 DEF RowsInv, RowsTyped
<1>5. Refreshing'
  BY <1>1, <1>2 DEF Refreshing
<1>6. \A a \in replies' : a \in replies \/ Fresh(a)
  BY <1>1, <1>2 DEF Fresh
<1>7. \A i \in Instances : rows'[i].state = rows[i].state /\ rows'[i].ip = rows[i].ip
  BY <1>1
<1> QED BY <1>1, <1>4, <1>5, <1>6, <1>7, QuietStep

LEMMA ReadFails ==
  ASSUME RowsInv, NEW a \in replies, I!ListFails(a)
  PROVE  RowsInv'
<1>1. /\ UNCHANGED <<bus, handled, cached, syncJob, reads, rows, syncing, soon>>
      /\ late' = TRUE /\ replies' = replies \ {a}
  BY DEF I!ListFails, I!serverVars
<1>2. RowsTyped'
  BY <1>1 DEF RowsInv, RowsTyped
<1>3. \A b \in replies' : b \in replies
  BY <1>1
<1>4. \A i \in Instances : rows'[i].state = rows[i].state
  BY <1>1
<1> QED BY <1>1, <1>2, <1>3, <1>4, QuietStep

LEMMA HighlightStops ==
  ASSUME RowsInv, NEW i \in Instances, I!EndHighlight(i)
  PROVE  RowsInv'
<1>1. /\ UNCHANGED <<bus, handled, cached, syncJob, reads, replies, syncing, soon, late>>
      /\ rows' = IF rows[i] = I!NoRow THEN rows ELSE [rows EXCEPT ![i].settled = FALSE]
  BY DEF I!EndHighlight, I!serverVars
<1>2. RowsTyped
  BY DEF RowsInv
<1>3. /\ IsRows(rows')
      /\ \A j \in Instances : rows'[j].state = rows[j].state /\ rows'[j].ip = rows[j].ip
  <2>1. CASE rows[i] = I!NoRow
    BY <1>1, <1>2, <2>1 DEF IsRows, RowsTyped
  <2>2. CASE rows[i] # I!NoRow
    <3>1. PICK b, h, s, ip : /\ rows[i] = [state |-> s, ip |-> ip, busy |-> b, settled |-> h]
                             /\ s \in States /\ ip \in Nat
      BY <1>2, <2>2 DEF RowsTyped, IsRow
    <3>6. rows' = [rows EXCEPT ![i].settled = FALSE] /\ DOMAIN rows = Instances
      BY <1>1, <1>2, <2>2 DEF RowsTyped
    <3>7. rows'[i] = [rows[i] EXCEPT !.settled = FALSE]
      BY <3>6
    <3>8. \A v : [rows[i] EXCEPT !.settled = v] = [state |-> s, ip |-> ip, busy |-> b, settled |-> v]
      BY <3>1
    <3>2. rows'[i] = [state |-> s, ip |-> ip, busy |-> b, settled |-> FALSE]
      BY <3>7, <3>8
    <3>3. DOMAIN rows' = Instances /\ \A j \in Instances : j # i => rows'[j] = rows[j]
      BY <1>1, <1>2, <2>2 DEF RowsTyped
    <3>4. rows'[i].state = rows[i].state /\ rows'[i].ip = rows[i].ip
      BY <3>1, <3>2
    <3>5. IsRow(rows'[i])
      BY <3>1, <3>2, Zenon DEF IsRow
    <3> QED BY <1>2, <3>3, <3>4, <3>5 DEF IsRows, RowsTyped
  <2> QED BY <2>1, <2>2
<1>4. RowsTyped' /\ (~Refreshing' => ~Refreshing)
  BY <1>1, <1>2, <1>3 DEF RowsTyped, IsRows, Refreshing
<1>5. \A a \in replies' : a \in replies
  BY <1>1
<1> QED BY <1>1, <1>3, <1>4, <1>5, QuietStep

LEMMA TerminationAnswered ==
  ASSUME RowsInv, NEW a \in replies, I!EndTerminate(a)
  PROVE  RowsInv'
<1>1. /\ UNCHANGED <<bus, handled, cached, syncJob, reads, syncing, soon, late>>
      /\ a.kind = "terminate" /\ replies' = replies \ {a}
      /\ rows' = IF a.attached THEN [rows EXCEPT ![a.id].busy = FALSE] ELSE rows
  BY DEF I!EndTerminate, I!serverVars
<1>2. RowsTyped
  BY DEF RowsInv
<1>3. a.id \in Instances /\ (a.attached => rows[a.id] # I!NoRow)
  <2>1. a.id \in Instances
    BY <1>1, <1>2 DEF RowsTyped, IsAnswer
  <2>2. a.attached => rows[a.id].state # "absent"
    BY <1>1 DEF RowsInv, AnswersRight
  <2> QED BY <1>2, <2>1, <2>2, RowShape
<1>4. /\ IsRows(rows')
      /\ \A j \in Instances : rows'[j].state = rows[j].state /\ rows'[j].ip = rows[j].ip
  <2>1. CASE a.attached
    BY <1>1, <1>2, <1>3, <2>1, BusyRow
  <2>2. CASE ~a.attached
    BY <1>1, <1>2, <2>2 DEF IsRows, RowsTyped
  <2> QED BY <2>1, <2>2
<1>5. RowsTyped'
  BY <1>1, <1>2, <1>4 DEF RowsTyped, IsRows
<1>6. \A b \in replies' : b \in replies
  BY <1>1
<1>7. ~Refreshing' => ~Refreshing
  BY <1>1 DEF Refreshing
<1> QED BY <1>1, <1>4, <1>5, <1>6, <1>7, QuietStep

LEMMA ActionAnswered ==
  ASSUME RowsInv, NEW a \in replies, I!EndAction(a)
  PROVE  RowsInv'
<1> DEFINE s == IF a.failed THEN a.previous ELSE a.state
<1>1. /\ UNCHANGED <<bus, handled, cached, syncJob, reads, syncing, soon>>
      /\ a.kind = "action" /\ replies' = replies \ {a}
      /\ rows' = IF a.attached THEN [rows EXCEPT ![a.id].busy = FALSE, ![a.id].state = s] ELSE rows
      /\ late' = (late \/ (a.attached /\ IF a.failed THEN rows[a.id].state # a.previous
                                         ELSE rows[a.id].state = "TERMINATING"))
  BY DEF I!EndAction, I!serverVars
<1>2. RowsTyped
  BY DEF RowsInv
<1>3. /\ a.id \in Instances /\ a.previous \in I!Stable /\ a.state \in I!Transitional
  BY <1>1, <1>2 DEF RowsTyped, IsAnswer
<1>4. s \in States /\ s # "absent"
  BY <1>3 DEF States, I!Stable, I!Transitional
<1>5. ~Refreshing' => ~Refreshing
  BY <1>1 DEF Refreshing
<1>6. late => late'
  BY <1>1
<1>7. \A b \in replies' : b \in replies
  BY <1>1
<1>8. CASE ~a.attached
  <2>1. rows' = rows
    BY <1>1, <1>8
  <2>2. RowsTyped'
    BY <1>1, <1>2, <2>1 DEF RowsTyped
  <2>3. \A i \in Instances : rows'[i].state = rows[i].state /\ rows'[i].ip = rows[i].ip
    BY <2>1
  <2> QED BY <1>1, <1>5, <1>6, <1>7, <2>2, <2>3, QuietStep
<1>9. CASE a.attached
  <2>1. rows[a.id] # I!NoRow /\ rows[a.id].state # "absent"
    <3>1. rows[a.id].state # "absent"
      BY <1>1, <1>9 DEF RowsInv, AnswersRight
    <3> QED BY <1>2, <1>3, <3>1, RowShape
  <2>2. PICK b, h, z, ip : /\ rows[a.id] = [state |-> z, ip |-> ip, busy |-> b, settled |-> h]
                           /\ z \in States /\ ip \in Nat
    BY <1>2, <1>3, <2>1, ZenonT(40) DEF RowsTyped, IsRow
  <2>3. rows'[a.id] = [state |-> s, ip |-> ip, busy |-> FALSE, settled |-> h]
    <3> HIDE DEF s
    <3>1. /\ rows' = [rows EXCEPT ![a.id].busy = FALSE, ![a.id].state = s]
          /\ DOMAIN rows = Instances
      BY <1>1, <1>2, <1>9 DEF RowsTyped
    <3>2. rows'[a.id] = [rows[a.id] EXCEPT !.busy = FALSE, !.state = s]
      BY <1>3, <3>1
    <3> DEFINE q == rows'[a.id]
    <3>3. q.busy = FALSE /\ q.state = s /\ q.ip = ip /\ q.settled = h
      BY <2>2, <3>2
    <3>4. q = [x \in {"state", "ip", "busy", "settled"} |-> q[x]]
      BY <2>2, <3>2
    <3> QED BY <3>3, <3>4
  <2>4. DOMAIN rows' = Instances /\ \A j \in Instances : j # a.id => rows'[j] = rows[j]
    BY <1>1, <1>2, <1>9 DEF RowsTyped
  <2> HIDE DEF s
  <2>5. /\ rows'[a.id].state = s /\ rows'[a.id].ip = rows[a.id].ip
        /\ rows[a.id].state = z
    BY <2>2, <2>3
  <2>6. IsRow(rows'[a.id])
    BY <1>4, <2>2, <2>3, Zenon DEF IsRow
  <2>7. RowsTyped'
    BY <1>1, <1>2, <2>4, <2>6 DEF RowsTyped
  <2>8. CASE a.failed \/ z = "TERMINATING"
    <3>1. ~late' => s = z
      BY <1>1, <1>9, <2>5, <2>8 DEF s
    <3>2. \A i \in Instances : /\ rows[i].state # "absent" => rows'[i].state # "absent"
                               /\ ~late' => rows'[i].state = rows[i].state /\ rows'[i].ip = rows[i].ip
      BY <1>4, <2>4, <2>5, <3>1
    <3> QED BY <1>1, <1>5, <1>6, <1>7, <2>7, <3>2, QuietStep
  <2>9. CASE ~a.failed /\ z # "TERMINATING"
    <3>4. late' = (late \/ (a.attached /\ rows[a.id].state = "TERMINATING"))
      BY <1>1, <2>9
    <3>5. rows[a.id].state # "TERMINATING"
      BY <2>5, <2>9
    <3>1. (late => late') /\ (late' => late)
      BY <3>4, <3>5
    <3>2. s = a.state
      BY <2>9 DEF s
    <3>3. \A i \in Instances \ {a.id} : rows'[i] = rows[i]
      BY <2>4
    <3> QED BY <1>1, <1>9, <2>5, <2>7, <2>9, <3>1, <3>2, <3>3, <3>5, WriteStep
  <2> QED BY <2>8, <2>9
<1> QED BY <1>8, <1>9

-----------------------------------------------------------------------------
(* A list is put in place, and requests in flight lose their rows.          *)

LEMMA DetachedAnswer ==
  ASSUME NEW b, IsAnswer(b), b.kind # "list"
  PROVE  /\ IsAnswer([b EXCEPT !.attached = FALSE])
         /\ [b EXCEPT !.attached = FALSE].kind # "list"
         /\ ~[b EXCEPT !.attached = FALSE].attached
<1> DEFINE d == [b EXCEPT !.attached = FALSE]
<1>1. CASE b.kind = "action"
  <2>1. PICK t, f, i, p, s :
          /\ i \in Instances /\ p \in I!Stable /\ s \in I!Transitional \ {"TERMINATING"}
          /\ b = [kind |-> "action", id |-> i, attached |-> t, failed |-> f, previous |-> p, state |-> s]
    BY <1>1 DEF IsAnswer
  <2>2. \A v : [b EXCEPT !.attached = v] =
          [kind |-> "action", id |-> i, attached |-> v, failed |-> f, previous |-> p, state |-> s]
    BY <2>1
  <2>3. d = [kind |-> "action", id |-> i, attached |-> FALSE, failed |-> f, previous |-> p, state |-> s]
    BY <2>2
  <2>4. \A v : IsAnswer([kind |-> "action", id |-> i, attached |-> v, failed |-> f, previous |-> p, state |-> s])
    BY <2>1 DEF IsAnswer
  <2>5. d.kind = "action" /\ d.attached = FALSE
    BY <2>3
  <2> QED BY <2>3, <2>4, <2>5
<1>2. CASE b.kind = "terminate"
  <2>1. PICK t, i : i \in Instances /\ b = [kind |-> "terminate", id |-> i, attached |-> t]
    BY <1>2 DEF IsAnswer
  <2>2. \A v : [b EXCEPT !.attached = v] = [kind |-> "terminate", id |-> i, attached |-> v]
    BY <2>1
  <2>3. d = [kind |-> "terminate", id |-> i, attached |-> FALSE]
    BY <2>2
  <2>4. IsAnswer(d)
    BY <2>1, <2>3, Zenon DEF IsAnswer
  <2>5. d.kind = "terminate" /\ d.attached = FALSE
    BY <2>3
  <2> QED BY <2>4, <2>5
<1>3. b.kind \in {"list", "action", "terminate"}
  BY DEF IsAnswer
<1> QED BY <1>1, <1>2, <1>3

LEMMA DetachedAnswers ==
  ASSUME NEW set, \A a \in set : IsAnswer(a), NEW ids, NEW b \in I!Detach(set, ids)
  PROVE  /\ IsAnswer(b)
         /\ \/ b \in set /\ (b.kind = "list" \/ b.id \notin ids)
            \/ b.kind # "list" /\ ~b.attached
<1>1. PICK a \in set :
        b = IF a.kind # "list" /\ a.id \in ids THEN [a EXCEPT !.attached = FALSE] ELSE a
  BY DEF I!Detach
<1>2. CASE a.kind # "list" /\ a.id \in ids
  <2>1. b = [a EXCEPT !.attached = FALSE] /\ IsAnswer(a)
    BY <1>1, <1>2
  <2> QED BY <1>2, <2>1, DetachedAnswer
<1>3. CASE ~(a.kind # "list" /\ a.id \in ids)
  BY <1>1, <1>3
<1> QED BY <1>2, <1>3

LEMMA ReloadedRow ==
  ASSUME NEW i \in Instances, NEW c \in I!CachedRow \union {I!Absent}, NEW q, q = I!Reloaded(i, c)
  PROVE  /\ IsRow(q) /\ q.state = c.state
         /\ q.state # "absent" => q.ip = c.ip
         /\ (q # I!NoRow /\ q.settled) => (rows[i] # I!NoRow /\ rows[i].settled)
<1>1. CASE c = I!Absent
  <2>1. q = I!NoRow
    BY <1>1 DEF I!Reloaded
  <2>2. q.state = "absent" /\ c.state = "absent"
    BY <1>1, <2>1 DEF I!NoRow, I!Absent
  <2> QED BY <2>1, <2>2 DEF IsRow
<1>2. CASE c # I!Absent
  <2> DEFINE r(b, h) == [state |-> c.state, ip |-> c.ip, busy |-> b, settled |-> h]
             b0 == rows[i] # I!NoRow /\ rows[i].busy
             h0 == rows[i] # I!NoRow /\ rows[i].settled
  <2>1. c.state \in States /\ c.ip \in Nat
    BY <1>2 DEF I!CachedRow, States
  <2>2. q = r(b0, h0)
    BY <1>2, Zenon DEF I!Reloaded
  <2>3. \A b, h : r(b, h).state = c.state /\ r(b, h).ip = c.ip /\ r(b, h).settled = h
    OBVIOUS
  <2>4. \A b, h : IsRow(r(b, h))
    BY <2>1, Zenon DEF IsRow
  <2> HIDE DEF r, b0, h0
  <2>5. IsRow(q) /\ q.state = c.state /\ q.ip = c.ip
    <3>1. IsRow(r(b0, h0)) /\ r(b0, h0).state = c.state /\ r(b0, h0).ip = c.ip
      BY <2>3, <2>4, Zenon
    <3> QED BY <2>2, <3>1
  <2>6. q.settled = h0
    BY <2>2, <2>3, Zenon
  <2>7. q.settled => rows[i] # I!NoRow /\ rows[i].settled
    BY <2>6, Zenon DEF h0
  <2> QED BY <2>5, <2>7
<1> QED BY <1>1, <1>2

LEMMA Loads ==
  ASSUME RowsInv, NEW a \in replies, I!LoadInstances(a)
  PROVE  RowsInv'
<1>1. /\ UNCHANGED <<bus, handled, cached, syncJob, reads, soon>>
      /\ a.kind = "list" /\ replies' = I!Detach(replies \ {a}, Instances)
      /\ rows' = [i \in Instances |-> I!Reloaded(i, a.rows[i])]
      /\ syncing' = a.syncing /\ late' = (late \/ a.at < handled)
  BY DEF I!LoadInstances, I!serverVars
<1>2. RowsTyped
  BY DEF RowsInv
<1>3. \A i \in Instances : a.rows[i] \in I!CachedRow \union {I!Absent}
  BY <1>1, <1>2 DEF RowsTyped, IsAnswer
<1>4. ASSUME NEW i \in Instances
      PROVE  /\ IsRow(rows'[i]) /\ rows'[i].state = a.rows[i].state
             /\ rows'[i].state # "absent" => rows'[i].ip = a.rows[i].ip
  <2>1. rows'[i] = I!Reloaded(i, a.rows[i])
    BY <1>1
  <2> QED BY <1>3, <2>1, ReloadedRow
<1>5. ASSUME NEW b \in replies'
      PROVE  /\ IsAnswer(b)
             /\ b \in replies \/ (b.kind # "list" /\ ~b.attached)
             /\ b.kind # "list" => ~b.attached
  <2>1. \A d \in replies \ {a} : IsAnswer(d)
    BY <1>2 DEF RowsTyped
  <2>2. b \in I!Detach(replies \ {a}, Instances)
    BY <1>1
  <2>3. /\ IsAnswer(b)
        /\ \/ b \in replies \ {a} /\ (b.kind = "list" \/ b.id \notin Instances)
           \/ b.kind # "list" /\ ~b.attached
    BY <2>1, <2>2, DetachedAnswers
  <2>4. b.kind # "list" => b.id \in Instances
    BY <2>3 DEF IsAnswer
  <2> QED BY <2>3, <2>4
<1>6. RowsTyped'
  <2>1. DOMAIN rows' = Instances
    BY <1>1
  <2> QED BY <1>1, <1>2, <1>4, <1>5, <2>1 DEF RowsTyped
<1> QED BY <1>1, <1>4, <1>5, <1>6, ReloadStep

-----------------------------------------------------------------------------
(* The events, one by one.                                                  *)

LEMMA RowParts ==
  ASSUME RowsTyped, NEW i \in Instances, rows[i] # I!NoRow
  PROVE  \E b, h : \E s \in States, ip \in Nat :
           rows[i] = [state |-> s, ip |-> ip, busy |-> b, settled |-> h]
BY DEF RowsTyped, IsRow

LEMMA HandledTyped ==
  ASSUME RowsTyped, bus # <<>>, bus' = Tail(bus), handled' = handled + 1, reads' \in Nat,
         cached' = cached, IsRows(rows'), \A a \in replies' : IsAnswer(a)
  PROVE  RowsTyped'
<1>1. bus' \in Seq(I!Event) /\ handled' \in Nat
  BY PendingDropped DEF RowsTyped
<1> QED BY <1>1 DEF RowsTyped, IsRows

\* Nothing is detached, and the rows that are there stay.
LEMMA HandledKept ==
  ASSUME RowsInv, bus # <<>>, bus' = Tail(bus), handled' = handled + 1, reads' \in Nat,
         UNCHANGED <<cached, syncJob, late, replies>>, IsRows(rows'),
         \A i \in Instances : rows[i].state # "absent" => rows'[i].state # "absent",
         NEW e, e = Head(bus),
         reads' >= reads, soon => soon',
         MarksIt(e) => Refreshing' \/ (e.type = "syncStarted" /\ syncing' = TRUE),
         ~MarksIt(e) => syncing' = syncing,
         ~Refreshing' => \A i \in Instances : HandlesRow(e, i, rows[i], rows'[i])
  PROVE  RowsInv'
<1>1. RowsTyped
  BY DEF RowsInv
<1>2. RowsTyped'
  <2>1. \A a \in replies' : IsAnswer(a)
    BY <1>1 DEF RowsTyped
  <2> QED BY <1>1, <2>1, HandledTyped
<1>3. Refreshing => Refreshing'
  BY <1>1 DEF Refreshing, RowsTyped
<1>4. \A a \in replies' : a.kind = "list" => a \in replies
  OBVIOUS
<1>5. \A a \in replies' : a.kind # "list" /\ a.attached => a \in replies /\ rows'[a.id].state # "absent"
  <2>1. \A a \in replies : a.kind # "list" => a.id \in Instances
    BY <1>1 DEF RowsTyped, IsAnswer
  <2> QED BY <2>1 DEF RowsInv, AnswersRight
<1> HIDE DEF RowsInv, RowsTyped
<1> QED BY <1>2, <1>3, <1>4, <1>5, HandleStep

LEMMA HandlesUpdate ==
  ASSUME RowsInv, bus # <<>>, bus' = Tail(bus), handled' = handled + 1,
         UNCHANGED <<cached, syncJob, late, replies, syncing>>,
         NEW e, e = Head(bus), e \in I!Event,
         e.type = "updated", rows[e.id] # I!NoRow, I!ApplyUpdate(e.id, e.state)
  PROVE  RowsInv'
<1> DEFINE i == e.id
           previous == rows[i].state
           next == IF e.state = "" THEN previous ELSE e.state
           lands == previous \in I!Transitional /\ next \notin I!Transitional
<1>1. RowsTyped
  BY DEF RowsInv
<1>2. i \in Instances /\ e.state \in States \union {""}
  BY EventShape
<1>3. PICK b, h, z, ip : /\ rows[i] = [state |-> z, ip |-> ip, busy |-> b, settled |-> h]
                         /\ z \in States /\ ip \in Nat
  <2>1. \A j \in Instances : rows[j] # I!NoRow =>
          \E b, h : \E s \in States, ip \in Nat :
            rows[j] = [state |-> s, ip |-> ip, busy |-> b, settled |-> h]
    BY <1>1, RowParts
  <2>2. \E b, h : \E s \in States, ip \in Nat :
          rows[i] = [state |-> s, ip |-> ip, busy |-> b, settled |-> h]
    BY <1>2, <2>1, Zenon
  <2> QED BY <2>2, Zenon
<1>4. previous = z /\ next \in States /\ previous # "absent" /\ next # "absent"
  <2>1. previous = z
    BY <1>3
  <2>2. "absent" \notin States
    BY SMTT(30) DEF States, I!Stable, I!Transitional
  <2> QED BY <1>2, <1>3, <2>1, <2>2
<1>5. /\ rows' = [rows EXCEPT ![i].state = next, ![i].busy = FALSE, ![i].settled = @ \/ lands]
      /\ reads' = IF lands THEN reads + 1 ELSE reads
      /\ soon' = (soon \/ (~lands /\ previous = next))
  BY DEF I!ApplyUpdate, I!isTransitional
<1> HIDE DEF lands, next, i
<1>6. PICK g : rows'[i] = [state |-> next, ip |-> ip, busy |-> FALSE, settled |-> g]
  <2> DEFINE q == rows'[i]
  <2>1. PICK g : q = [rows[i] EXCEPT !.state = next, !.busy = FALSE, !.settled = g]
    <3>1. DOMAIN rows = Instances
      BY <1>1 DEF RowsTyped
    <3> QED BY <1>2, <1>5, <3>1
  <2>2. q.state = next /\ q.busy = FALSE /\ q.ip = ip /\ q.settled = g
    BY <1>3, <2>1
  <2>3. q = [x \in {"state", "ip", "busy", "settled"} |-> q[x]]
    BY <1>3, <2>1
  <2>4. q = [state |-> next, ip |-> ip, busy |-> FALSE, settled |-> g]
    BY <2>2, <2>3
  <2> QED BY <2>4
<1>7. DOMAIN rows' = Instances /\ \A j \in Instances : j # i => rows'[j] = rows[j]
  BY <1>1, <1>5 DEF RowsTyped
<1>8. IsRow(rows'[i]) /\ rows'[i].state = next /\ rows'[i].ip = rows[i].ip
  <2>1. IsRow(rows'[i])
    BY <1>3, <1>4, <1>6, Zenon DEF IsRow
  <2> QED BY <1>3, <1>6, <2>1
<1>9. IsRows(rows') /\ \A j \in Instances : rows[j].state # "absent" => rows'[j].state # "absent"
  BY <1>1, <1>4, <1>7, <1>8 DEF IsRows, RowsTyped
<1>10. reads' \in Nat /\ reads' >= reads /\ (soon => soon')
  <2>1. soon => soon'
    BY <1>5, Zenon
  <2> QED BY <1>1, <1>5, <2>1 DEF RowsTyped
<1>11. ~MarksIt(e)
  BY DEF MarksIt
<1>12. ASSUME ~Refreshing', NEW j \in Instances PROVE HandlesRow(e, j, rows[j], rows'[j])
  <2>1. CASE j # i
    <3>1. ~Sets(e, j) /\ ~Asks(e, j)
      BY <2>1 DEF Sets, Asks, i
    <3> QED BY <1>7, <2>1, <3>1 DEF HandlesRow
  <2>2. CASE j = i
    <3>1. ~(reads' > 0) /\ ~soon'
      BY <1>12 DEF Refreshing
    <3>2. ~lands /\ previous # next
      <4>1. ~lands
        BY <1>1, <1>5, <3>1 DEF RowsTyped
      <4> QED BY <1>5, <3>1, <4>1, Zenon
    <3>3. e.state # "" /\ next = e.state
      BY <3>2 DEF next
    <3>4. Sets(e, i) /\ StateOf(e) = next
      BY <3>3 DEF Sets, StateOf, i
    <3>5. previous \in I!Transitional => next \notin I!Stable
      BY <3>2, <1>4 DEF lands, I!Stable, I!Transitional
    <3> QED BY <1>3, <1>4, <1>8, <2>2, <3>2, <3>4, <3>5 DEF HandlesRow
  <2> QED BY <2>1, <2>2
<1> QED BY <1>9, <1>10, <1>11, <1>12, HandledKept

LEMMA HandlesRemoval ==
  ASSUME RowsInv, bus # <<>>, bus' = Tail(bus), handled' = handled + 1,
         UNCHANGED <<cached, syncJob, late, syncing, reads, soon>>,
         NEW e, e = Head(bus), e \in I!Event,
         e.type = "removed", rows' = [rows EXCEPT ![e.id] = I!NoRow],
         replies' = I!Detach(replies, {e.id})
  PROVE  RowsInv'
<1>1. RowsTyped
  BY DEF RowsInv
<1>2. e.id \in Instances
  BY EventShape
<1>3. /\ DOMAIN rows' = Instances /\ rows'[e.id] = I!NoRow
      /\ \A j \in Instances : j # e.id => rows'[j] = rows[j]
  BY <1>1, <1>2 DEF RowsTyped
<1>4. IsRows(rows')
  <2>1. IsRow(I!NoRow)
    BY DEF IsRow
  <2> QED BY <1>1, <1>3, <2>1 DEF IsRows, RowsTyped
<1>5. ASSUME NEW b \in replies'
      PROVE  /\ IsAnswer(b)
             /\ \/ b \in replies /\ (b.kind = "list" \/ b.id # e.id)
                \/ b.kind # "list" /\ ~b.attached
  <2>1. (\A d \in replies : IsAnswer(d)) /\ b \in I!Detach(replies, {e.id})
    BY <1>1 DEF RowsTyped
  <2>2. /\ IsAnswer(b)
        /\ \/ b \in replies /\ (b.kind = "list" \/ b.id \notin {e.id})
           \/ b.kind # "list" /\ ~b.attached
    BY <2>1, DetachedAnswers
  <2> QED BY <2>2
<1>6. RowsTyped'
  <2>1. reads' \in Nat
    BY <1>1 DEF RowsTyped
  <2> QED BY <1>1, <1>4, <1>5, <2>1, HandledTyped
<1>7. Refreshing => Refreshing'
  <2>1. \A a \in replies : a.kind = "list" => a \in replies'
    BY DEF I!Detach
  <2> QED BY <2>1 DEF Refreshing
<1>8. ~MarksIt(e)
  BY DEF MarksIt
<1>9. ASSUME NEW j \in Instances PROVE HandlesRow(e, j, rows[j], rows'[j])
  <2>1. CASE j # e.id
    <3>1. ~Sets(e, j) /\ ~Asks(e, j)
      BY <2>1 DEF Sets, Asks
    <3> QED BY <1>3, <2>1, <3>1 DEF HandlesRow
  <2>2. CASE j = e.id
    <3>1. Sets(e, j) /\ StateOf(e) = "absent" /\ rows'[j].state = "absent"
      BY <1>3, <2>2 DEF Sets, StateOf, I!NoRow
    <3> QED BY <3>1 DEF HandlesRow
  <2> QED BY <2>1, <2>2
<1>10. \A a \in replies' : a.kind = "list" => a \in replies
  BY <1>5
<1>11. \A a \in replies' : a.kind # "list" /\ a.attached => a \in replies /\ rows'[a.id].state # "absent"
  <2> SUFFICES ASSUME NEW a \in replies', a.kind # "list", a.attached
               PROVE  a \in replies /\ rows'[a.id].state # "absent"
    OBVIOUS
  <2>1. a \in replies /\ a.id # e.id /\ a.id \in Instances
    <3>1. IsAnswer(a) /\ a \in replies /\ a.id # e.id
      BY <1>5
    <3>2. a.id \in Instances
      BY <3>1 DEF IsAnswer
    <3> QED BY <3>1, <3>2
  <2> QED BY <1>3, <2>1 DEF RowsInv, AnswersRight
<1> HIDE DEF RowsInv, RowsTyped
<1> QED BY <1>6, <1>7, <1>8, <1>9, <1>10, <1>11, HandleStep

LEMMA HandlesAddress ==
  ASSUME RowsInv, bus # <<>>, bus' = Tail(bus), handled' = handled + 1,
         UNCHANGED <<cached, syncJob, late, replies, syncing, soon>>,
         NEW e, e = Head(bus), e \in I!Event,
         e.type = "changedIp", reads' = reads + 1,
         rows' = IF rows[e.id] = I!NoRow THEN rows ELSE [rows EXCEPT ![e.id].ip = e.ip]
  PROVE  RowsInv'
<1>1. RowsTyped
  BY DEF RowsInv
<1>2. e.id \in Instances /\ e.ip \in Nat
  BY EventShape
<1>3. IsRows(rows') /\ \A j \in Instances : rows[j].state # "absent" => rows'[j].state # "absent"
  <2>1. CASE rows[e.id] = I!NoRow
    BY <1>1, <2>1 DEF IsRows, RowsTyped
  <2>2. CASE rows[e.id] # I!NoRow
    <3>1. PICK b, h, z, ip : /\ rows[e.id] = [state |-> z, ip |-> ip, busy |-> b, settled |-> h]
                             /\ z \in States /\ ip \in Nat
      <4>1. \A j \in Instances : rows[j] # I!NoRow =>
              \E b, h : \E s \in States, ip \in Nat :
                rows[j] = [state |-> s, ip |-> ip, busy |-> b, settled |-> h]
        BY <1>1, RowParts
      <4>2. \E b, h : \E s \in States, ip \in Nat :
              rows[e.id] = [state |-> s, ip |-> ip, busy |-> b, settled |-> h]
        BY <1>2, <2>2, <4>1, Zenon
      <4> QED BY <4>2, Zenon
    <3>2. rows'[e.id] = [rows[e.id] EXCEPT !.ip = e.ip]
      BY <1>1, <1>2, <2>2 DEF RowsTyped
    <3>3. \A v : [rows[e.id] EXCEPT !.ip = v] = [state |-> z, ip |-> v, busy |-> b, settled |-> h]
      BY <3>1
    <3>4. rows'[e.id] = [state |-> z, ip |-> e.ip, busy |-> b, settled |-> h]
      BY <3>2, <3>3
    <3>5. DOMAIN rows' = Instances /\ \A j \in Instances : j # e.id => rows'[j] = rows[j]
      BY <1>1, <2>2 DEF RowsTyped
    <3>6. rows'[e.id].state = rows[e.id].state
      BY <3>1, <3>4
    <3>7. IsRow(rows'[e.id])
      BY <1>2, <3>1, <3>4, Zenon DEF IsRow
    <3> QED BY <1>1, <3>5, <3>6, <3>7 DEF IsRows, RowsTyped
  <2> QED BY <2>1, <2>2
<1>4. reads' \in Nat /\ reads' >= reads /\ Refreshing' /\ ~MarksIt(e)
  BY <1>1 DEF RowsTyped, Refreshing, MarksIt
<1> QED BY <1>3, <1>4, HandledKept

LEMMA HandlesError ==
  ASSUME RowsInv, bus # <<>>, bus' = Tail(bus), handled' = handled + 1,
         UNCHANGED <<cached, syncJob, late, replies, syncing, soon, reads>>,
         NEW e, e = Head(bus), e \in I!Event, e.type = "error",
         rows' = IF rows[e.id] = I!NoRow THEN rows ELSE [rows EXCEPT ![e.id].busy = FALSE]
  PROVE  RowsInv'
<1>1. RowsTyped
  BY DEF RowsInv
<1>2. e.id \in Instances
  BY EventShape
<1>3. /\ IsRows(rows')
      /\ \A j \in Instances : rows'[j].state = rows[j].state /\ rows'[j].ip = rows[j].ip
  <2>1. CASE rows[e.id] = I!NoRow
    BY <1>1, <2>1 DEF IsRows, RowsTyped
  <2>2. CASE rows[e.id] # I!NoRow
    BY <1>1, <1>2, <2>2, BusyRow
  <2> QED BY <2>1, <2>2
<1>4. reads' \in Nat /\ reads' >= reads /\ ~MarksIt(e)
  BY <1>1 DEF RowsTyped, MarksIt
<1>5. \A j \in Instances : HandlesRow(e, j, rows[j], rows'[j])
  BY <1>3 DEF HandlesRow, Sets, Asks
<1> QED BY <1>3, <1>4, <1>5, HandledKept

\* An event that leaves the rows alone, asks for a read or tells of the mark.
LEMMA HandlesMark ==
  ASSUME RowsInv, bus # <<>>, bus' = Tail(bus), handled' = handled + 1,
         UNCHANGED <<cached, syncJob, late, replies, soon, rows>>,
         NEW e, e = Head(bus),
         \/ e.type = "syncStarted" /\ syncing' = TRUE /\ reads' = reads
         \/ e.type \in {"syncFinished", "syncFailed"} /\ reads' = reads + 1
         \/ e.type = "updated" /\ syncing' = syncing /\ reads' = reads + 1
  PROVE  RowsInv'
<1>1. RowsTyped
  BY DEF RowsInv
<1>2. IsRows(rows') /\ \A j \in Instances : rows[j].state # "absent" => rows'[j].state # "absent"
  BY <1>1 DEF IsRows, RowsTyped
<1>3. /\ reads' \in Nat /\ reads' >= reads
      /\ e.type = "syncStarted" \/ Refreshing'
  BY <1>1 DEF RowsTyped, Refreshing
<1>4. /\ MarksIt(e) => Refreshing' \/ (e.type = "syncStarted" /\ syncing' = TRUE)
      /\ ~MarksIt(e) => syncing' = syncing
  BY <1>3 DEF MarksIt
<1>5. ~Refreshing' => \A j \in Instances : HandlesRow(e, j, rows[j], rows'[j])
  BY <1>3 DEF HandlesRow, Sets, Asks
<1> QED BY <1>2, <1>3, <1>4, <1>5, HandledKept

LEMMA Handles ==
  ASSUME RowsInv, I!ApplyEvent
  PROVE  RowsInv'
<1>1. PICK e : e = Head(bus)
  OBVIOUS
<1>2. bus # <<>> /\ bus' = Tail(bus) /\ handled' = handled + 1 /\ UNCHANGED <<cached, syncJob, late>>
  BY DEF I!ApplyEvent, I!serverVars
<1>3. e \in I!Event
  BY <1>1, <1>2, PendingDropped DEF RowsInv
<1>4. \/ /\ e.type = "updated" /\ rows[e.id] = I!NoRow /\ reads' = reads + 1
         /\ UNCHANGED <<replies, rows, syncing, soon>>
      \/ /\ e.type = "updated" /\ rows[e.id] # I!NoRow /\ I!ApplyUpdate(e.id, e.state)
         /\ UNCHANGED <<replies, syncing>>
      \/ /\ e.type = "removed" /\ rows' = [rows EXCEPT ![e.id] = I!NoRow]
         /\ replies' = I!Detach(replies, {e.id}) /\ UNCHANGED <<reads, syncing, soon>>
      \/ /\ e.type = "error"
         /\ rows' = IF rows[e.id] = I!NoRow THEN rows ELSE [rows EXCEPT ![e.id].busy = FALSE]
         /\ UNCHANGED <<replies, reads, syncing, soon>>
      \/ /\ e.type = "changedIp" /\ reads' = reads + 1
         /\ rows' = IF rows[e.id] = I!NoRow THEN rows ELSE [rows EXCEPT ![e.id].ip = e.ip]
         /\ UNCHANGED <<replies, syncing, soon>>
      \/ /\ e.type = "syncStarted" /\ syncing' = TRUE
         /\ UNCHANGED <<replies, reads, rows, soon>>
      \/ /\ e.type = "syncFinished" /\ syncing' = FALSE /\ reads' = reads + 1
         /\ UNCHANGED <<replies, rows, soon>>
      \/ /\ e.type = "syncFailed" /\ reads' = reads + 1
         /\ UNCHANGED <<replies, rows, syncing, soon>>
  BY <1>1 DEF I!ApplyEvent
<1> HIDE DEF RowsInv
<1> QED BY <1>1, <1>2, <1>3, <1>4, HandlesUpdate, HandlesRemoval, HandlesAddress, HandlesError, HandlesMark

-----------------------------------------------------------------------------
(* The steps together.                                                      *)

LEMMA RowsStart == I!Init => RowsInv
<1> SUFFICES ASSUME I!Init PROVE RowsInv
  OBVIOUS
<1>1. /\ handled = 0 /\ reads = 0 /\ bus = <<>> /\ replies = {} /\ syncing = syncJob
      /\ cached \in [Instances -> {I!Absent} \union [state : I!Stable, ip : {0}]]
      /\ rows = [i \in Instances |->
                   IF cached[i] = I!Absent THEN I!NoRow
                   ELSE [state |-> cached[i].state, ip |-> 0, busy |-> FALSE, settled |-> FALSE]]
  BY DEF I!Init
<1>2. ASSUME NEW i \in Instances
      PROVE  /\ cached[i] \in I!CachedRow \union {I!Absent} /\ IsRow(rows[i])
             /\ rows[i].state = cached[i].state /\ rows[i].ip = cached[i].ip
  <2>1. CASE cached[i] = I!Absent
    <3>1. rows[i] = I!NoRow
      BY <1>1, <2>1
    <3> QED BY <2>1, <3>1 DEF IsRow, I!NoRow, I!Absent
  <2>2. CASE cached[i] # I!Absent
    <3>1. cached[i] \in [state : I!Stable, ip : {0}]
      BY <1>1, <2>2
    <3>2. cached[i].state \in States /\ cached[i].ip = 0 /\ cached[i] \in I!CachedRow
      BY <3>1 DEF States, I!CachedRow
    <3>3. rows[i] = [state |-> cached[i].state, ip |-> 0, busy |-> FALSE, settled |-> FALSE]
      BY <1>1, <2>2
    <3>4. IsRow(rows[i])
      <4>1. 0 \in Nat
        OBVIOUS
      <4> QED BY <3>2, <3>3, <4>1, Zenon DEF IsRow
    <3> QED BY <3>2, <3>3, <3>4
  <2> QED BY <2>1, <2>2
<1>3. RowsTyped
  <2>1. bus \in Seq(I!Event)
    BY <1>1
  <2> QED BY <1>1, <1>2, <2>1 DEF RowsTyped
<1>4. DOMAIN Pending = {}
  BY <1>1 DEF Pending
<1>5. EventsRight /\ ListsRight /\ AnswersRight
  BY <1>1, <1>4 DEF EventsRight, ListsRight, AnswersRight, IsPath, EndsAt, IsLast, SetsState,
                    Follows, MarkEnds
<1>6. RowsRight
  BY <1>1, <1>2, <1>4 DEF RowsRight, MarkKnown, Knows, FirstIsChange
<1> QED BY <1>3, <1>5, <1>6 DEF RowsInv

LEMMA RowsStutter == ASSUME RowsInv, UNCHANGED I!vars PROVE RowsInv'
<1>1. /\ UNCHANGED <<bus, handled, cached, syncJob, reads, soon, late, syncing, replies, rows>>
  BY DEF I!vars
<1>2. RowsTyped' /\ (~Refreshing' => ~Refreshing)
  BY <1>1 DEF RowsInv, RowsTyped, Refreshing
<1>3. /\ \A i \in Instances : rows'[i].state = rows[i].state /\ rows'[i].ip = rows[i].ip
      /\ \A a \in replies' : a \in replies
  BY <1>1
<1> QED BY <1>1, <1>2, <1>3, QuietStep

LEMMA RowsStep == ASSUME RowsInv, I!Next PROVE RowsInv'
<1> HIDE DEF RowsInv
<1>1. CASE \E i \in Instances :
             \/ I!Appear(i) \/ I!ElsewhereActs(i) \/ I!Settle(i) \/ I!Complete(i) \/ I!ChangeIpEnds(i)
             \/ I!RecordFailure(i)
  BY <1>1, Appears, ActsElsewhere, Settles, Completes, RecordsFailure
<1>2. CASE \E i \in Instances : I!RunAction(i) \/ I!Terminate(i) \/ I!EndHighlight(i)
  BY <1>2, RunsAction, Terminates, HighlightStops
<1>3. CASE I!SyncBegins \/ I!SyncEnds
  BY <1>3, Synchronises
<1>4. CASE I!ServeList \/ I!SyncNow \/ I!Refresh \/ I!ApplyEvent \/ I!RefreshSoon
  BY <1>4, Serves, AsksToSynchronise, ReadsAgain, Handles
<1>5. CASE \E a \in replies : I!EndAction(a) \/ I!EndTerminate(a) \/ I!LoadInstances(a) \/ I!ListFails(a)
  BY <1>5, ActionAnswered, TerminationAnswered, Loads, ReadFails
<1> QED BY <1>1, <1>2, <1>3, <1>4, <1>5 DEF I!Next

-----------------------------------------------------------------------------
(* Highlights, and what the invariant shows.                                *)

HasTimer == \A i \in Instances : rows[i].settled => i \in timers

LEMMA SettledKept ==
  ASSUME NEW r, IsRow(r), NEW v
  PROVE  /\ [r EXCEPT !.busy = v].settled = r.settled
         /\ [r EXCEPT !.ip = v].settled = r.settled
         /\ \A w : [r EXCEPT !.busy = w, !.state = v].settled = r.settled
BY DEF IsRow, I!NoRow

LEMMA TimersKept ==
  ASSUME RowsTyped, HasTimer, timers \subseteq timers',
         \A i \in Instances : rows'[i].settled => rows[i].settled \/ i \in timers'
  PROVE  HasTimer'
BY DEF HasTimer

\* One mark of a row is set, if it is there.
LEMMA MarkKeepsTimer ==
  ASSUME RowsTyped, HasTimer, timers' = timers, NEW i \in Instances, NEW v, NEW w,
         \/ rows' = rows
         \/ rows' = [rows EXCEPT ![i].busy = v]
         \/ rows' = [rows EXCEPT ![i].ip = v]
         \/ rows' = [rows EXCEPT ![i].busy = w, ![i].state = v]
         \/ rows' = [rows EXCEPT ![i] = I!NoRow]
  PROVE  HasTimer'
<1>1. DOMAIN rows = Instances /\ IsRow(rows[i])
  BY DEF RowsTyped
<1>2. I!NoRow.settled = FALSE
  BY DEF I!NoRow
<1>3. \A j \in Instances : j # i => rows'[j] = rows[j]
  BY <1>1
<1>4. \/ rows'[i] = rows[i]
      \/ rows'[i] = [rows[i] EXCEPT !.busy = v]
      \/ rows'[i] = [rows[i] EXCEPT !.ip = v]
      \/ rows'[i] = [rows[i] EXCEPT !.busy = w, !.state = v]
      \/ rows'[i] = I!NoRow
  BY <1>1
<1>5. /\ [rows[i] EXCEPT !.busy = v].settled = rows[i].settled
      /\ [rows[i] EXCEPT !.ip = v].settled = rows[i].settled
      /\ [rows[i] EXCEPT !.busy = w, !.state = v].settled = rows[i].settled
  BY <1>1, SettledKept
<1>6. rows'[i].settled = rows[i].settled \/ rows'[i].settled = FALSE
  BY <1>2, <1>4, <1>5
<1>7. \A j \in Instances : rows'[j].settled => rows[j].settled
  BY <1>3, <1>6
<1> QED BY <1>7, TimersKept

LEMMA UpdateSetsTimer ==
  ASSUME RowsTyped, HasTimer, NEW i \in Instances, NEW s, I!ApplyUpdate(i, s)
  PROVE  HasTimer'
<1> DEFINE previous == rows[i].state
           next == IF s = "" THEN previous ELSE s
           lands == previous \in I!Transitional /\ next \notin I!Transitional
           mark == rows[i].settled \/ lands
<1>1. /\ rows' = [rows EXCEPT ![i].state = next, ![i].busy = FALSE, ![i].settled = @ \/ lands]
      /\ timers' = IF lands THEN timers \union {i} ELSE timers
  BY DEF I!ApplyUpdate, I!isTransitional
<1>2. DOMAIN rows = Instances /\ IsRow(rows[i])
  BY DEF RowsTyped
<1>3. rows'[i] = [rows[i] EXCEPT !.state = next, !.busy = FALSE, !.settled = @ \/ lands]
  BY <1>1, <1>2
<1>4. \A j \in Instances : j # i => rows'[j] = rows[j]
  BY <1>1, <1>2
<1> HIDE DEF lands, next
<1>5. rows'[i].settled => rows[i].settled \/ lands
  <2>1. rows'[i].settled = (rows[i].settled \/ lands)
    BY <1>2, <1>3 DEF IsRow, I!NoRow
  <2> QED BY <2>1, Zenon
<1>6. timers \subseteq timers' /\ (lands => i \in timers')
  BY <1>1
<1> QED BY <1>4, <1>5, <1>6, TimersKept

LEMMA HighlightStep ==
  ASSUME RowsInv, HasTimer, I!Next
  PROVE  HasTimer'
<1>1. RowsTyped
  BY DEF RowsInv
<1>2. CASE UNCHANGED <<rows, timers>>
  BY <1>2 DEF HasTimer
<1>3. CASE \E i \in Instances : I!RunAction(i) \/ I!Terminate(i)
  BY <1>1, <1>3, MarkKeepsTimer DEF I!RunAction, I!Terminate
<1>4. ASSUME NEW i \in Instances, I!EndHighlight(i) PROVE HasTimer'
  <2>1. /\ timers' = timers \ {i}
        /\ rows' = IF rows[i] = I!NoRow THEN rows ELSE [rows EXCEPT ![i].settled = FALSE]
        /\ DOMAIN rows = Instances /\ IsRow(rows[i])
    BY <1>1, <1>4 DEF I!EndHighlight, RowsTyped
  <2>2. \A j \in Instances : j # i => rows'[j] = rows[j]
    BY <2>1
  <2>3. rows'[i].settled = FALSE
    <3>1. CASE rows[i] = I!NoRow
      BY <2>1, <3>1 DEF I!NoRow
    <3>2. CASE rows[i] # I!NoRow
      <4>1. rows'[i] = [rows[i] EXCEPT !.settled = FALSE]
        BY <2>1, <3>2
      <4> QED BY <2>1, <4>1 DEF IsRow, I!NoRow
    <3> QED BY <3>1, <3>2
  <2> QED BY <2>1, <2>2, <2>3 DEF HasTimer
<1>5. ASSUME NEW a \in replies, I!EndAction(a) \/ I!EndTerminate(a) PROVE HasTimer'
  <2>1. a.kind \in {"action", "terminate"} /\ timers' = timers
    BY <1>5 DEF I!EndAction, I!EndTerminate
  <2>2. a.id \in Instances
    BY <1>1, <2>1 DEF RowsTyped, IsAnswer
  <2>3. \/ rows' = rows
        \/ rows' = [rows EXCEPT ![a.id].busy = FALSE]
        \/ rows' = [rows EXCEPT ![a.id].busy = FALSE,
                                ![a.id].state = IF a.failed THEN a.previous ELSE a.state]
    BY <1>5 DEF I!EndAction, I!EndTerminate
  <2> QED BY <1>1, <2>1, <2>2, <2>3, MarkKeepsTimer
<1>6. ASSUME NEW a \in replies, I!LoadInstances(a) PROVE HasTimer'
  <2>1. /\ a.kind = "list" /\ timers' = timers
        /\ rows' = [i \in Instances |-> I!Reloaded(i, a.rows[i])]
    BY <1>6 DEF I!LoadInstances
  <2>2. \A i \in Instances : a.rows[i] \in I!CachedRow \union {I!Absent}
    BY <1>1, <2>1 DEF RowsTyped, IsAnswer
  <2>3. ASSUME NEW i \in Instances PROVE rows'[i].settled => rows[i].settled
    <3>1. rows'[i] = I!Reloaded(i, a.rows[i])
      BY <2>1
    <3>2. (rows'[i] # I!NoRow /\ rows'[i].settled) => (rows[i] # I!NoRow /\ rows[i].settled)
      BY <2>2, <3>1, ReloadedRow
    <3>3. I!NoRow.settled = FALSE
      BY DEF I!NoRow
    <3> QED BY <3>2, <3>3
  <2> QED BY <1>1, <2>1, <2>3, TimersKept
<1>7. CASE I!ApplyEvent
  <2>1. PICK e : e = Head(bus)
    OBVIOUS
  <2>2. e \in I!Event
    BY <1>1, <1>7, <2>1, PendingDropped DEF I!ApplyEvent
  <2>3. \/ UNCHANGED <<rows, timers>>
        \/ e.type = "updated" /\ I!ApplyUpdate(e.id, e.state)
        \/ e.type = "removed" /\ rows' = [rows EXCEPT ![e.id] = I!NoRow] /\ timers' = timers
        \/ e.type = "error" /\ rows' = [rows EXCEPT ![e.id].busy = FALSE] /\ timers' = timers
        \/ e.type = "changedIp" /\ rows' = [rows EXCEPT ![e.id].ip = e.ip] /\ timers' = timers
    BY <1>7, <2>1 DEF I!ApplyEvent
  <2>4. e.type \in {"updated", "removed", "error", "changedIp"} => e.id \in Instances
    BY <2>2, EventShape
  <2> QED BY <1>1, <1>2, <2>3, <2>4, MarkKeepsTimer, UpdateSetsTimer
<1>8. \/ UNCHANGED <<rows, timers>>
      \/ \E i \in Instances : I!RunAction(i) \/ I!Terminate(i) \/ I!EndHighlight(i)
      \/ \E a \in replies : I!EndAction(a) \/ I!EndTerminate(a) \/ I!LoadInstances(a)
      \/ I!ApplyEvent
  BY DEF I!Next, I!Appear, I!ElsewhereActs, I!Settle, I!Complete, I!ChangeIpEnds, I!RecordFailure,
         I!SyncBegins, I!SyncEnds, I!ServeList, I!SyncNow, I!Refresh, I!RefreshSoon, I!ListFails
<1> QED BY <1>2, <1>3, <1>4, <1>5, <1>6, <1>7, <1>8

RowsHold == RowsInv /\ HasTimer

LEMMA RowsHoldAtFirst == I!Init => RowsHold
<1> SUFFICES ASSUME I!Init PROVE HasTimer
  BY RowsStart DEF RowsHold
<1>1. \A i \in Instances : rows[i].settled = FALSE
  BY DEF I!Init, I!NoRow
<1> QED BY <1>1 DEF HasTimer

LEMMA RowsHoldOn == RowsHold /\ [I!Next]_(I!vars) => RowsHold'
<1> SUFFICES ASSUME RowsHold, [I!Next]_(I!vars) PROVE RowsHold'
  OBVIOUS
<1>1. CASE I!Next
  BY <1>1, RowsStep, HighlightStep DEF RowsHold
<1>2. CASE UNCHANGED I!vars
  <2>1. HasTimer'
    BY <1>2 DEF RowsHold, HasTimer, I!vars
  <2> QED BY <1>2, <2>1, RowsStutter DEF RowsHold
<1> QED BY <1>1, <1>2

LEMMA RowsShow == RowsHold => I!PageCatchesUp /\ I!HighlightEnds
<1> SUFFICES ASSUME RowsInv, HasTimer PROVE I!PageCatchesUp /\ I!HighlightEnds
  BY DEF RowsHold
<1>1. I!HighlightEnds
  BY DEF HasTimer, I!HighlightEnds
<1>2. RowsTyped
  BY DEF RowsInv
<1>3. ASSUME I!Quiet, ~late
      PROVE  /\ syncing = syncJob
             /\ \A i \in Instances :
                  IF cached[i] = I!Absent THEN rows[i] = I!NoRow
                  ELSE rows[i] # I!NoRow /\ rows[i].state = cached[i].state /\ rows[i].ip = cached[i].ip
  <2>1. bus = <<>> /\ replies = {} /\ reads = 0 /\ ~soon
    BY <1>3 DEF I!Quiet
  <2>2. ~Refreshing /\ DOMAIN Pending = {}
    BY <1>2, <2>1 DEF Refreshing, Pending, RowsTyped
  <2>3. /\ MarkKnown(Pending, handled, syncing, syncJob)
        /\ \A i \in Instances : Knows(Pending, handled, rows[i].state, rows[i].ip, cached[i], i)
    BY <1>3, <2>2 DEF RowsInv, RowsRight
  <2>4. syncing = syncJob
    BY <2>2, <2>3 DEF MarkKnown, MarkMoves
  <2>5. ASSUME NEW i \in Instances
        PROVE  /\ rows[i].state = cached[i].state
               /\ rows[i].state # "absent" => rows[i].ip = cached[i].ip
    <3>1. Silent(Pending, handled, i) /\ ~SureToRead(Pending, handled, rows[i].state, i)
          /\ ~Repeats(Pending, handled, rows[i].state, i)
      BY <2>2 DEF Silent, SureToRead, Repeats
    <3> QED BY <2>3, <3>1 DEF Knows
  <2>6. ASSUME NEW i \in Instances
        PROVE  IF cached[i] = I!Absent THEN rows[i] = I!NoRow
               ELSE rows[i] # I!NoRow /\ rows[i].state = cached[i].state /\ rows[i].ip = cached[i].ip
    <3>1. /\ rows[i].state = cached[i].state
          /\ rows[i].state # "absent" => rows[i].ip = cached[i].ip
      BY <2>5
    <3>2. /\ cached[i] = I!Absent <=> cached[i].state = "absent"
          /\ rows[i] = I!NoRow <=> rows[i].state = "absent"
      BY <1>2, CachedShape, RowShape
    <3> QED BY <3>1, <3>2
  <2> QED BY <2>4, <2>6
<1> QED BY <1>1, <1>3 DEF I!PageCatchesUp

\* The page asks for the list again whenever an event does not carry all that
\* changed, for any rows, bounds and order of events and answers: when all is
\* handled, and nothing overtook an answer, it shows what the server has; and no
\* highlight is left without the timer that ends it.
THEOREM RowsCatchUp == I!Spec => [](I!PageCatchesUp /\ I!HighlightEnds)
BY RowsHoldAtFirst, RowsHoldOn, RowsShow, PTL DEF I!Spec

-----------------------------------------------------------------------------
(* The elements that a list keeps.                                          *)

LEMMA SameSize == \A T : D!Cardinality(T) = Cardinality(T)
BY DEF D!Cardinality, Cardinality

LEMMA KeptPlaces ==
  ASSUME NEW n \in Nat, NEW K \in SUBSET (1 .. n)
  PROVE  /\ Cardinality(K) \in Nat
         /\ \A m \in 1 .. Cardinality(K) : \E k \in K : Cardinality({j \in K : j <= k}) = m
<1> DEFINE upTo(k) == {j \in K : j <= k}
<1>0. \A k \in K : k \in Nat
  OBVIOUS
<1>1. IsFiniteSet(K) /\ Cardinality(K) \in Nat
  <2>1. IsFiniteSet(1 .. n)
    BY FS_Interval
  <2> QED BY <2>1, FS_Subset, FS_CardinalityType
<1>2. ASSUME NEW k \in K
      PROVE  /\ IsFiniteSet(upTo(k)) /\ Cardinality(upTo(k)) \in Nat
             /\ Cardinality(upTo(k)) <= Cardinality(K) /\ Cardinality(upTo(k)) # 0
  <2>1. upTo(k) \subseteq K /\ k \in upTo(k)
    OBVIOUS
  <2>2. IsFiniteSet(upTo(k)) /\ Cardinality(upTo(k)) <= Cardinality(K)
    BY <1>1, <2>1, FS_Subset
  <2>3. Cardinality(upTo(k)) \in Nat /\ Cardinality(upTo(k)) # 0
    BY <2>1, <2>2, FS_CardinalityType, FS_EmptySet
  <2> QED BY <2>2, <2>3
<1>3. ASSUME NEW k \in K, NEW l \in K, k < l
      PROVE  Cardinality(upTo(k)) < Cardinality(upTo(l))
  <2>1. upTo(k) \subseteq upTo(l) /\ upTo(k) # upTo(l)
    <3>1. l \in upTo(l) /\ l \notin upTo(k)
      BY <1>0, <1>3
    <3>2. \A j \in K : j <= k => j <= l
      BY <1>0, <1>3
    <3>3. upTo(k) \subseteq upTo(l)
      BY <3>2
    <3> QED BY <3>1, <3>3
  <2>2. IsFiniteSet(upTo(l)) /\ Cardinality(upTo(k)) \in Nat /\ Cardinality(upTo(l)) \in Nat
    BY <1>2
  <2> HIDE DEF upTo
  <2>3. upTo(k) \in SUBSET upTo(l)
    BY <2>1
  <2>4. /\ Cardinality(upTo(k)) <= Cardinality(upTo(l))
        /\ Cardinality(upTo(l)) = Cardinality(upTo(k)) => upTo(l) = upTo(k)
    BY <2>2, <2>3, FS_Subset
  <2> QED BY <2>1, <2>2, <2>4
<1>4. ASSUME NEW m \in 1 .. Cardinality(K), \A k \in K : Cardinality(upTo(k)) # m
      PROVE  FALSE
  <2> DEFINE T == (1 .. Cardinality(K)) \ {m}
             f == [k \in K |-> Cardinality(upTo(k))]
  <2>1. IsFiniteSet(1 .. Cardinality(K)) /\ Cardinality(1 .. Cardinality(K)) = Cardinality(K)
    BY <1>1, FS_Interval
  <2>2. IsFiniteSet(T) /\ Cardinality(T) = Cardinality(K) - 1
    BY <1>4, <2>1, FS_RemoveElement, ZenonT(40)
  <2>3. f \in [K -> T]
    <3>1. \A k \in K : Cardinality(upTo(k)) \in T
      <4> HIDE DEF upTo
      <4> QED BY <1>1, <1>2, <1>4
    <3> QED BY <3>1
  <2>4. Cardinality(T) < Cardinality(K)
    BY <1>1, <2>2
  <2>5. \E k, l \in K : k # l /\ f[k] = f[l]
    <3> HIDE DEF f, T
    <3> QED BY <1>1, <2>2, <2>3, <2>4, FS_PigeonHole
  <2>6. PICK k \in K, l \in K : k # l /\ Cardinality(upTo(k)) = Cardinality(upTo(l))
    BY <2>5
  <2>7. k < l \/ l < k
    BY <2>6
  <2>8. Cardinality(upTo(k)) \in Nat /\ Cardinality(upTo(l)) \in Nat
    BY <1>2
  <2> HIDE DEF upTo
  <2> QED BY <1>3, <2>6, <2>7, <2>8
<1> QED BY <1>1, <1>4

LEMMA KeptList ==
  ASSUME NEW A, NEW s \in Seq(A), NEW K \in SUBSET (1 .. Len(s))
  PROVE  /\ D!Kept(s, K) \in Seq(A)
         /\ \A m \in DOMAIN D!Kept(s, K) : \E k \in K : D!Kept(s, K)[m] = s[k]
<1> DEFINE c == Cardinality(K)
<1>1. c \in Nat /\ \A m \in 1 .. c : D!Nth(K, m) \in K
  <2>1. Len(s) \in Nat
    OBVIOUS
  <2>2. c \in Nat /\ \A m \in 1 .. c : \E k \in K : Cardinality({j \in K : j <= k}) = m
    BY <2>1, KeptPlaces
  <2>3. \A m : D!Nth(K, m) = CHOOSE k \in K : Cardinality({j \in K : j <= k}) = m
    BY SameSize DEF D!Nth
  <2> QED BY <2>2, <2>3
<1>2. D!Kept(s, K) = [m \in 1 .. c |-> s[D!Nth(K, m)]]
  BY SameSize DEF D!Kept
<1> HIDE DEF c
<1>3. ASSUME NEW m \in 1 .. c PROVE s[D!Nth(K, m)] \in A
  <2>1. D!Nth(K, m) \in 1 .. Len(s)
    BY <1>1
  <2> QED BY <2>1
<1> DEFINE q == [m \in 1 .. c |-> s[D!Nth(K, m)]]
<1>4. q \in Seq(A)
  BY <1>1, <1>3
<1>5. \A m \in DOMAIN q : \E k \in K : q[m] = s[k]
  BY <1>1
<1> QED BY <1>2, <1>4, <1>5

LEMMA SplicedList ==
  ASSUME NEW A, NEW s \in Seq(A), NEW n \in 1 .. Len(s)
  PROVE  /\ D!RemoveAt(s, n) \in Seq(A)
         /\ \A m \in DOMAIN D!RemoveAt(s, n) : \E k \in DOMAIN s : D!RemoveAt(s, n)[m] = s[k]
<1> DEFINE a == SubSeq(s, 1, n - 1)
           b == SubSeq(s, n + 1, Len(s))
<1>0. Len(s) \in Nat /\ n \in Nat /\ 1 <= n /\ n <= Len(s) /\ DOMAIN s = 1 .. Len(s)
  OBVIOUS
<1>1. /\ a \in Seq(A) /\ Len(a) = n - 1 /\ \A m \in 1 .. n - 1 : a[m] = s[m]
      /\ b \in Seq(A) /\ Len(b) = Len(s) - n /\ \A m \in 1 .. Len(s) - n : b[m] = s[n + m]
  <2>1. a \in Seq(A) /\ b \in Seq(A)
    <3>1. /\ \A m \in 1 .. n - 1 : s[m] \in A
          /\ \A m \in n + 1 .. Len(s) : s[m] \in A
      BY <1>0
    <3> QED BY <1>0, <3>1
  <2>2. Len(a) = n - 1 /\ \A m \in 1 .. n - 1 : a[m] = s[m]
    BY <1>0
  <2>3. Len(b) = Len(s) - n /\ \A m \in 1 .. Len(s) - n : b[m] = s[n + m]
    <3>1. \A m \in n + 1 .. Len(s) : s[m] \in A
      BY <1>0
    <3>2. n + 1 \in Int /\ Len(s) \in Int /\ Len(s) - (n + 1) + 1 = Len(s) - n
      BY <1>0
    <3>3. /\ Len(b) = IF n + 1 <= Len(s) THEN Len(s) - (n + 1) + 1 ELSE 0
          /\ \A m \in 1 .. Len(s) - (n + 1) + 1 : b[m] = s[n + 1 + m - 1]
      BY <3>1, <3>2, SubSeqProperties
    <3>4. ASSUME NEW m \in 1 .. Len(s) - n PROVE b[m] = s[n + m]
      <4>1. n + 1 + m - 1 = n + m
        BY <1>0
      <4>2. b[m] = s[n + 1 + m - 1]
        BY <3>2, <3>3
      <4> QED BY <4>1, <4>2
    <3>5. Len(b) = Len(s) - n
      <4>1. Len(b) = IF n + 1 <= Len(s) THEN Len(s) - (n + 1) + 1 ELSE 0
        BY <3>3
      <4> HIDE DEF b
      <4>2. CASE n + 1 <= Len(s)
        BY <3>2, <4>1, <4>2
      <4>3. CASE n = Len(s)
        BY <1>0, <4>1, <4>3, SMTT(30)
      <4>4. n + 1 <= Len(s) \/ n = Len(s)
        <5>1. \A x, y \in Nat : x <= y => x + 1 <= y \/ x = y
          OBVIOUS
        <5> QED BY <1>0, <5>1
      <4> QED BY <4>2, <4>3, <4>4
    <3> QED BY <3>4, <3>5
  <2> QED BY <2>1, <2>2, <2>3
<1>2. D!RemoveAt(s, n) = a \o b
  BY DEF D!RemoveAt
<1> HIDE DEF a, b
<1> DEFINE q == a \o b
<1>3. q \in Seq(A) /\ Len(q) = Len(s) - 1
  <2>1. a \in Seq(A) /\ b \in Seq(A)
    BY <1>1
  <2>2. q \in Seq(A) /\ Len(q) = Len(a) + Len(b)
    BY <2>1, ConcatProperties
  <2> QED BY <1>0, <1>1, <2>2
<1>4. ASSUME NEW m \in DOMAIN q PROVE \E k \in DOMAIN s : q[m] = s[k]
  <2>1. m \in 1 .. Len(s) - 1
    BY <1>3
  <2>2. CASE m <= n - 1
    <3>1. m \in 1 .. Len(a) /\ m \in DOMAIN s
      BY <1>0, <1>1, <2>1, <2>2
    <3>2. q[m] = a[m]
      BY <1>1, <3>1
    <3> QED BY <1>0, <1>1, <2>1, <2>2, <3>1, <3>2
  <2>3. CASE ~(m <= n - 1)
    <3>1. m - Len(a) \in 1 .. Len(b) /\ n + (m - Len(a)) \in DOMAIN s /\ m > Len(a)
      BY <1>0, <1>1, <2>1, <2>3
    <3>2. q[m] = b[m - Len(a)]
      <4>1. a \in Seq(A) /\ b \in Seq(A) /\ m \in 1 .. Len(a) + Len(b) /\ ~(m <= Len(a))
        BY <1>0, <1>1, <2>1, <3>1, SMTT(30)
      <4> QED BY <4>1
    <3> QED BY <1>1, <3>1, <3>2
  <2> QED BY <2>2, <2>3
<1> QED BY <1>2, <1>3, <1>4

-----------------------------------------------------------------------------
(* The demonstration: instances have accounts.                              *)

\* The jobs are of instances, and the list holds instances.
DemoTyped ==
  /\ machines \in Seq(Machines)
  /\ \A w \in working : w.on \subseteq Machines /\ w.on # {}

DemoInv == DemoTyped /\ D!InstancesHaveAccounts

LEMMA ListedFacts ==
  /\ D!Listed = {machines[n] : n \in DOMAIN machines}
  /\ D!Listed' = {machines'[n] : n \in DOMAIN machines'}
BY DEF D!Listed, D!Range

\* The list keeps some of its elements, and the accounts of those stay.
LEMMA ListShrinks ==
  ASSUME DemoInv, machines' \in Seq(Machines), \A w \in working' : w \in working,
         \A m \in DOMAIN machines' : \E n \in DOMAIN machines :
           machines'[m] = machines[n] /\ (OwnerOf(machines[n]) \in accounts => OwnerOf(machines[n]) \in accounts')
  PROVE  DemoInv'
<1>1. DemoTyped'
  BY DEF DemoInv, DemoTyped
<1>2. ASSUME NEW x \in D!Listed' PROVE OwnerOf(x) \in accounts'
  <2>1. PICK m \in DOMAIN machines' : x = machines'[m]
    BY <1>2, ListedFacts
  <2>2. PICK n \in DOMAIN machines :
          machines'[m] = machines[n] /\ (OwnerOf(machines[n]) \in accounts => OwnerOf(machines[n]) \in accounts')
    OBVIOUS
  <2>3. OwnerOf(machines[n]) \in accounts
    BY ListedFacts DEF DemoInv, D!InstancesHaveAccounts
  <2> QED BY <2>1, <2>2, <2>3
<1> QED BY <1>1, <1>2 DEF DemoInv, D!InstancesHaveAccounts

\* A job is submitted, or something else is asked for.
LEMMA ListStays ==
  ASSUME DemoInv, machines' = machines, accounts \subseteq accounts',
         \A w \in working' : w \in working \/ (w.on \subseteq Machines /\ w.on # {})
  PROVE  DemoInv'
<1>1. DemoTyped'
  BY DEF DemoInv, DemoTyped
<1>2. D!Listed' = D!Listed
  BY ListedFacts
<1> QED BY <1>1, <1>2 DEF DemoInv, D!InstancesHaveAccounts

LEMMA Submits ==
  ASSUME DemoInv, NEW on \in SUBSET Machines, on # {}, NEW kind, NEW card, NEW action,
         D!submit(kind, on, card, action)
  PROVE  DemoInv'
<1>1. /\ working' = working \union {[id |-> orders + 1, kind |-> kind, on |-> on, card |-> card,
                                     action |-> action]}
      /\ machines' = machines /\ accounts' = accounts
  BY DEF D!submit, D!world
<1>2. [id |-> orders + 1, kind |-> kind, on |-> on, card |-> card, action |-> action].on = on
  OBVIOUS
<1>3. \A w \in working' : w \in working \/ (w.on \subseteq Machines /\ w.on # {})
  BY <1>1, <1>2
<1> QED BY <1>1, <1>3, ListStays

\* An account is deleted with its rows.
LEMMA AccountGoes ==
  ASSUME DemoInv, NEW a, D!DeleteAccount(a)
  PROVE  DemoInv'
<1> DEFINE K == {n \in DOMAIN machines : OwnerOf(machines[n]) # a}
<1>1. accounts' = accounts \ {a} /\ machines' = D!Kept(machines, K) /\ working' = working
  BY DEF D!DeleteAccount
<1>2. machines \in Seq(Machines) /\ K \in SUBSET (1 .. Len(machines))
  BY DEF DemoInv, DemoTyped
<1>3. \A n \in K : n \in DOMAIN machines /\ OwnerOf(machines[n]) # a
  OBVIOUS
<1> HIDE DEF K
<1>4. /\ machines' \in Seq(Machines)
      /\ \A m \in DOMAIN machines' : \E n \in K : machines'[m] = machines[n]
  BY <1>1, <1>2, KeptList
<1>5. \A m \in DOMAIN machines' : \E n \in DOMAIN machines :
        machines'[m] = machines[n] /\ (OwnerOf(machines[n]) \in accounts => OwnerOf(machines[n]) \in accounts')
  BY <1>1, <1>3, <1>4
<1> QED BY <1>1, <1>4, <1>5, ListShrinks

LEMMA Spliced ==
  ASSUME NEW s \in Seq(Machines), NEW x
  PROVE  /\ D!SpliceOut(s, x) \in Seq(Machines)
         /\ \A m \in DOMAIN D!SpliceOut(s, x) : \E n \in DOMAIN s : D!SpliceOut(s, x)[m] = s[n]
<1>1. CASE s = <<>>
  BY <1>1 DEF D!SpliceOut
<1>2. CASE s # <<>>
  <2>1. Len(s) \in 1 .. Len(s) /\ DOMAIN s = 1 .. Len(s)
    BY <1>2
  <2>2. x \in D!Range(s) => D!IndexOf(s, x) \in 1 .. Len(s)
    <3>1. SUFFICES ASSUME x \in D!Range(s) PROVE D!IndexOf(s, x) \in 1 .. Len(s)
      OBVIOUS
    <3> DEFINE I0 == {n \in 1 .. Len(s) : s[n] = x}
    <3>2. I0 \in SUBSET Nat /\ I0 # {}
      BY <2>1, <3>1 DEF D!Range
    <3>3. PICK n \in I0 : \A k \in I0 : n <= k
      BY <3>2, Least
    <3>4. n \in DOMAIN s /\ s[n] = x /\ \A k \in 1 .. n - 1 : s[k] # x
      BY <2>1, <3>3
    <3>5. D!IndexOf(s, x) \in DOMAIN s
      BY <3>4 DEF D!IndexOf
    <3> QED BY <2>1, <3>5
  <2>3. PICK n \in 1 .. Len(s) : D!SpliceOut(s, x) = D!RemoveAt(s, n)
    BY <1>2, <2>1, <2>2 DEF D!SpliceOut
  <2> QED BY <2>3, SplicedList
<1> QED BY <1>1, <1>2

\* A termination takes its instance out of the list, or the last one.
LEMMA InstanceGoes ==
  ASSUME DemoInv, NEW w \in working, D!RunTerminate(w)
  PROVE  DemoInv'
<1>1. PICK x : /\ machines' = D!SpliceOut(machines, x) /\ working' = working \ {w}
               /\ accounts' = accounts
  BY DEF D!RunTerminate, D!Ends
<1>2. machines \in Seq(Machines)
  BY DEF DemoInv, DemoTyped
<1>3. /\ machines' \in Seq(Machines)
      /\ \A m \in DOMAIN machines' : \E n \in DOMAIN machines : machines'[m] = machines[n]
  BY <1>1, <1>2, Spliced
<1> QED BY <1>1, <1>3, ListShrinks

\* A launch finds its account, or fails.
LEMMA InstanceComes ==
  ASSUME DemoInv, NEW w \in working, D!RunLaunch(w)
  PROVE  DemoInv'
<1> DEFINE m == CHOOSE x \in w.on : TRUE
<1>1. /\ working' = working \ {w} /\ accounts' = accounts
      /\ machines' = machines \/ (OwnerOf(m) \in accounts /\ machines' = Append(machines, m))
  BY DEF D!RunLaunch, D!Ends
<1>2. m \in Machines /\ machines \in Seq(Machines)
  BY DEF DemoInv, DemoTyped
<1> HIDE DEF m
<1>3. CASE machines' = machines
  BY <1>1, <1>3, ListStays
<1>4. CASE OwnerOf(m) \in accounts /\ machines' = Append(machines, m)
  <2>1. DemoTyped'
    BY <1>1, <1>2, <1>4 DEF DemoInv, DemoTyped
  <2>2. \A k \in DOMAIN machines' : machines'[k] = m \/ (k \in DOMAIN machines /\ machines'[k] = machines[k])
    BY <1>2, <1>4
  <2>3. \A x \in D!Listed' : x = m \/ x \in D!Listed
    BY <2>2, ListedFacts
  <2> QED BY <1>1, <1>4, <2>1, <2>3 DEF DemoInv, D!InstancesHaveAccounts
<1> QED BY <1>1, <1>3, <1>4

LEMMA DemoStart == D!Init => DemoInv
<1> SUFFICES ASSUME D!Init PROVE DemoInv
  OBVIOUS
<1>1. machines = First /\ working = {} /\ accounts = {OwnerOf(m) : m \in D!Range(First)}
  BY DEF D!Init
<1>2. DemoTyped
  BY <1>1, FirstAssumption DEF DemoTyped
<1>3. D!InstancesHaveAccounts
  BY <1>1 DEF D!InstancesHaveAccounts, D!Listed
<1> QED BY <1>2, <1>3 DEF DemoInv

LEMMA DemoStep == DemoInv /\ [D!Next]_(D!vars) => DemoInv'
<1> SUFFICES ASSUME DemoInv, [D!Next]_(D!vars) PROVE DemoInv'
  OBVIOUS
<1>1. CASE /\ machines' = machines /\ accounts \subseteq accounts' /\ working' \subseteq working
  BY <1>1, ListStays
<1>2. CASE D!Accounting
  <2>1. ASSUME NEW a \in Accounts, D!DeleteAccount(a) PROVE DemoInv'
    BY <2>1, AccountGoes
  <2>2. (\E a \in Accounts : D!DeleteAccount(a)) \/
        (machines' = machines /\ accounts \subseteq accounts' /\ working' = working)
    BY <1>2 DEF D!Accounting, D!CreateAccount, D!Bind, D!world
  <2> QED BY <1>1, <2>1, <2>2
<1>3. CASE D!Machine
  <2>1. PICK m \in Machines :
          \/ \E action \in DOMAIN D!TRANSITIONS : D!Power(m, action)
          \/ D!Terminate(m) \/ D!Launch(m) \/ D!AttachVnic(m)
          \/ \E card \in D!Cards : D!DetachVnic(m, card)
    BY <1>3 DEF D!Machine
  <2>2. \/ \E kind, card, action : D!submit(kind, {m}, card, action)
        \/ machines' = machines /\ accounts' = accounts /\ working' = working
    BY <2>1 DEF D!Power, D!Terminate, D!Launch, D!AttachVnic, D!DetachVnic
  <2>3. {m} \in SUBSET Machines /\ {m} # {}
    OBVIOUS
  <2> QED BY <1>1, <2>2, <2>3, Submits
<1>4. CASE \E on \in SUBSET Machines, action \in DOMAIN D!TRANSITIONS : D!Bulk(on, action)
  BY <1>4, Submits DEF D!Bulk
<1>5. CASE D!JobTimer
  <2>1. PICK w \in working : D!StartJob(w) \/ D!RunJob(w)
    BY <1>5 DEF D!JobTimer
  <2>2. \/ D!RunTerminate(w) \/ D!RunLaunch(w)
        \/ machines' = machines /\ accounts' = accounts /\ working' \subseteq working
    BY <2>1 DEF D!RunJob, D!StartJob, D!RunAttach, D!RunDetach, D!RunBulk, D!Ends, D!world
  <2> QED BY <1>1, <2>2, InstanceGoes, InstanceComes
<1>6. CASE D!Login \/ D!Logout \/ D!Settings \/ D!ClearJobs \/ D!StateTimer \/ UNCHANGED D!vars
  <2>1. machines' = machines /\ accounts' = accounts /\ working' = working
    BY <1>6 DEF D!Login, D!Logout, D!Settings, D!ClearJobs, D!StateTimer, D!EndTransition, D!vars, D!world
  <2> QED BY <1>1, <2>1
<1> QED BY <1>2, <1>3, <1>4, <1>5, <1>6 DEF D!Next

\* For any accounts, instances and requests: an instance never outlives its account
\* in the list, and no job that was under way brings one back.
THEOREM AccountsOfInstances == D!Spec => []D!InstancesHaveAccounts
<1>1. DemoInv => D!InstancesHaveAccounts
  BY DEF DemoInv
<1> QED BY <1>1, DemoStart, DemoStep, PTL DEF D!Spec

-----------------------------------------------------------------------------
(* The world that TLC runs: in each view the part of it moves by its own      *)
(* steps, and the others stand still.                                       *)

\* For the jobs of a page, in every view.
THEOREM JobsOfPage == PageSpec => [](CallbackRunsOnce /\ EndIsAnnounced)
<1>1. PageInit => Init
  BY DEF PageInit
<1>2. [PageNext]_all => [Next]_vars
  BY DEF PageNext, all
<1> QED BY <1>1, <1>2, CallbacksRunOnce, EndsAreAnnounced, PTL DEF PageSpec, Spec

SessionInView == view = "session" => SessionInv

\* When everything has been answered the page is where its session says, and its
\* forms are enabled (PlacedBySession).
THEOREM PageIsPlaced == PageSpec => []PlacedBySession
<1>1. PageInit => SessionInView
  BY SessionStart DEF PageInit, SessionInView
<1>2. SessionInView /\ [PageNext]_all => SessionInView'
  <2> SUFFICES ASSUME SessionInView, [PageNext]_all, view' = "session" PROVE SessionInv'
    BY DEF SessionInView
  <2>1. view = "session" /\ ([S!Next]_(S!vars))
    BY DEF PageNext, all, sessionVars, S!vars, S!page, S!server
  <2> QED BY <2>1, SessionStep DEF SessionInView
<1>3. SessionInView => PlacedBySession
  BY SessionShow DEF SessionInView, PlacedBySession
<1> QED BY <1>1, <1>2, <1>3, PTL DEF PageSpec

RowsInView == view = "instances" => RowsHold

\* When all is handled the rows, the addresses and the mark of synchronisation are
\* the server's, and every highlight has its timer (PageCatchesUp).
THEOREM PageIsCurrent == PageSpec => []PageCatchesUp
<1>1. PageInit => RowsInView
  BY RowsHoldAtFirst DEF PageInit, RowsInView
<1>2. RowsInView /\ [PageNext]_all => RowsInView'
  <2> SUFFICES ASSUME RowsInView, [PageNext]_all, view' = "instances" PROVE RowsHold'
    BY DEF RowsInView
  <2>1. view = "instances" /\ ([I!Next]_(I!vars))
    BY DEF PageNext, all, instancesVars, I!vars
  <2> QED BY <2>1, RowsHoldOn DEF RowsInView
<1>3. RowsInView => PageCatchesUp
  BY RowsShow DEF RowsInView, PageCatchesUp
<1> QED BY <1>1, <1>2, <1>3, PTL DEF PageSpec

DemoInView == view = "demo" => DemoInv

\* In the demonstration no instance of the list is without its account
\* (InstancesHaveAccounts).
THEOREM DemoIsConsistent == PageSpec => []InstancesHaveAccounts
<1>1. PageInit => DemoInView
  BY DemoStart DEF PageInit, DemoInView
<1>2. DemoInView /\ [PageNext]_all => DemoInView'
  <2> SUFFICES ASSUME DemoInView, [PageNext]_all, view' = "demo" PROVE DemoInv'
    BY DEF DemoInView
  <2>1. view = "demo" /\ ([D!Next]_(D!vars))
    BY DEF PageNext, all, demoVars, D!vars, D!world, D!tables
  <2> QED BY <2>1, DemoStep DEF DemoInView
<1>3. DemoInView => InstancesHaveAccounts
  BY DEF DemoInView, InstancesHaveAccounts, DemoInv
<1> QED BY <1>1, <1>2, <1>3, PTL DEF PageSpec
=============================================================================
