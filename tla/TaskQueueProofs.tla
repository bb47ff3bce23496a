--------------------------- MODULE TaskQueueProofs ---------------------------
(* Proofs about TaskQueue, for any deployments, submissions and faults:     *)
(*   part 1  the invariant IInv, that a submission is in one place;         *)
(*   part 2  what the queue loses and what it says of a submission;         *)
(*   part 3  the specifications of a job (Job), of the lock (InstanceLock)  *)
(*           and of the whole service (Delivery), which TaskQueue implements. *)
EXTENDS TaskQueue, Integers, FiniteSetTheorems, TLAPS

USE DEF memory

\* The progress of a test that remains to be run is below 100.
LEMMA TestProgress ==
    ASSUME NEW n \in Nat \ {0}, NEW k \in Nat, k < n
    PROVE  20 + (k * 80) \div n \in 20..99
<1> DEFINE q == (k * 80) \div n
<1>1. q \in Int /\ n * q <= k * 80 /\ k * 80 < n * q + n
  OBVIOUS
<1>2. q >= 0
  BY <1>1
<1>3. q < 80
  BY <1>1
<1> QED BY <1>1, <1>2, <1>3

\* Initially nothing is anywhere.
LEMMA InitIInv == Init => IInv
<1> SUFFICES ASSUME Init
             PROVE  IInv
  OBVIOUS
<1> USE TaskQueueAssumption DEF Init
<1>1. TypeOK
  BY DEF TypeOK, Stage, Status
<1>2. HoldsJob
  BY DEF HoldsJob, Held
<1>3. OnePlace /\ UnpushedNowhere
  BY DEF OnePlace, UnpushedNowhere, Queued, Reported, Grading
<1> QED BY <1>1, <1>2, <1>3 DEF IInv

\* What report_status writes is a status, if its progress is in range.
LEMMA ReportStatusType ==
    ASSUME TypeOK, NEW s \in Submission, NEW stage, NEW progress,
           [stage |-> stage, progress |-> progress] \in Status,
           report_status(s, stage, progress)
    PROVE  status' \in [Submission -> Status] /\ faults' \in 0..MaxFaults
<1> DEFINE rec == [stage |-> stage, progress |-> progress]
<1>1. faults' \in 0..MaxFaults
  BY TaskQueueAssumption DEF TypeOK, report_status, Fault, NoFault
<1>2. status \in [Submission -> Status]
  BY DEF TypeOK
<1>3. status' = [status EXCEPT ![s] = rec] \/ status' = status
  BY DEF report_status
<1>4. [status EXCEPT ![s] = rec] \in [Submission -> Status]
  <2>1. rec \in Status
    OBVIOUS
  <2> HIDE DEF rec
  <2> QED BY <1>2, <2>1
<1> QED BY <1>1, <1>2, <1>3, <1>4

\* The end of a process leaves its variables well typed.
LEMMA ExitType ==
    ASSUME TypeOK, NEW w \in Worker, Exit(w)
    PROVE  /\ pc' \in [Worker -> Stage]
           /\ job' \in [Worker -> Submission \cup {NoJob}]
           /\ interrupted' \in [Worker -> BOOLEAN]
           /\ test' \in [Worker -> 0..NTests]
           /\ result' \in [Worker -> Verdict \cup {"none"}]
BY TaskQueueAssumption DEF TypeOK, Exit, Goto, Stage

\* A lock that is forgotten keeps its type.
LEMMA ForgetType ==
    ASSUME TypeOK, NEW w \in Worker, Forget(w)
    PROVE  lock' \in [Name -> Worker \cup {Gone}]
BY DEF TypeOK, Forget

\* A client's step preserves the types.
LEMMA ClientTypeOK ==
    ASSUME TypeOK, NEW s \in Submission, ClientStep(s)
    PROVE  TypeOK'
<1> USE TaskQueueAssumption DEF TypeOK, redis, local, Level
<1>1. CASE PutFile(s)
  BY <1>1 DEF PutFile
<1>2. CASE AddToOrder(s)
  BY <1>2 DEF AddToOrder
<1>3. CASE Push(s)
  BY <1>3 DEF Push
<1>4. CASE Subscribe(s)
  BY <1>4 DEF Subscribe
<1>5. CASE GiveUp(s)
  BY <1>5 DEF GiveUp
<1> QED BY <1>1, <1>2, <1>3, <1>4, <1>5 DEF ClientStep

\* A step of main or fetch_submission preserves the types.
LEMMA FetchTypeOK ==
    ASSUME TypeOK, HoldsJob, NEW w \in Worker, Start(w) \/ Fetch(w)
    PROVE  TypeOK'
<1> USE TaskQueueAssumption DEF TypeOK, redis, Goto, SetLock, Stage, Held
<1>1. CASE Start(w)
  BY <1>1 DEF Start
<1>2. CASE Quit(w) \/ DropPopped(w)
  BY <1>2, ExitType, ForgetType DEF Quit, DropPopped
<1>3. CASE PreCheck(w)
  BY <1>3, ExitType, ForgetType DEF PreCheck
<1>4. CASE GetSet(w)
  BY <1>4, ExitType DEF GetSet
<1>5. CASE Pop(w)
  <2>1. PICK l \in Level : /\ Served(l)
                          /\ job' = [job EXCEPT ![w] = Head(queue[l])]
                          /\ queue' = [queue EXCEPT ![l] = Tail(@)]
    BY <1>5 DEF Pop
  <2>2. Head(queue[l]) \in Submission /\ Tail(queue[l]) \in Seq(Submission)
    BY <2>1 DEF Served
  <2> QED BY <1>5, <2>1, <2>2 DEF Pop
<1>6. CASE PollEmpty(w) \/ Reconnect(w)
  BY <1>6 DEF PollEmpty, Reconnect
<1>7. CASE ZRem(w)
  <2>1. job[w] \in Submission
    BY <1>7 DEF ZRem, HoldsJob
  <2> QED BY <1>7, <2>1 DEF ZRem, Level
<1> QED BY <1>1, <1>2, <1>3, <1>4, <1>5, <1>6, <1>7 DEF Fetch

\* A step of process_submission preserves the types.
LEMMA ProcessTypeOK ==
    ASSUME TypeOK, HoldsJob, NEW w \in Worker, Process(w)
    PROVE  TypeOK'
<1> USE TaskQueueAssumption
<1> DEFINE Local == /\ pc' \in [Worker -> Stage]
                    /\ job' \in [Worker -> Submission \cup {NoJob}]
                    /\ interrupted' \in [Worker -> BOOLEAN]
                    /\ test' \in [Worker -> 0..NTests]
                    /\ result' \in [Worker -> Verdict \cup {"none"}]
<1>1. job[w] \in Submission
  BY DEF Process, Prepare, recreate_workdir, Download, Compile, Test, Done, Publish, HoldsJob, Held,
         TypeOK
<1>2. CASE Prepare(w)
  <2>1. status' \in [Submission -> Status] /\ faults' \in 0..MaxFaults
    BY <1>1, <1>2, ReportStatusType DEF Prepare, recreate_workdir, Status
  <2>2. Local /\ lock' \in [Name -> Worker \cup {Gone}]
    <3>1. CASE Exit(w) /\ Forget(w)
      BY <3>1, ExitType, ForgetType
    <3>2. CASE UNCHANGED lock /\ InternalError(w)
      BY <3>2 DEF InternalError, TypeOK, Goto, Stage, Held, Verdict
    <3>3. CASE UNCHANGED <<lock, memory>> /\ Goto(w, "download")
      BY <3>3 DEF TypeOK, Goto, Stage, Held
    <3> QED BY <1>2, <3>1, <3>2, <3>3 DEF Prepare, recreate_workdir
  <2> QED BY <1>2, <2>1, <2>2 DEF Prepare, recreate_workdir, TypeOK
<1>3. CASE Download(w)
  <2>1. CASE hash[job[w]] # {}
    <3>1. {job[w]} \X hash[job[w]] \subseteq Submission \X File
      BY <1>1 DEF TypeOK
    <3>2. Local
      BY <1>3, <2>1 DEF Download, TypeOK, Goto, Stage, Held
    <3>3. hash' \in [Submission -> SUBSET File]
      BY <1>3, <2>1 DEF Download, TypeOK
    <3>4. work' \in [Name -> SUBSET (Submission \X File)]
      <4> DEFINE files == {job[w]} \X hash[job[w]]
      <4>1. work' = [work EXCEPT ![NameOf[w]] = files]
        BY <1>3, <2>1 DEF Download
      <4>2. files \in SUBSET (Submission \X File)
        BY <3>1
      <4>3. work \in [Name -> SUBSET (Submission \X File)]
        BY DEF TypeOK
      <4> HIDE DEF files
      <4> QED BY <4>1, <4>2, <4>3
    <3> QED BY <1>3, <2>1, <3>2, <3>3, <3>4 DEF Download, TypeOK
  <2>2. CASE hash[job[w]] = {}
    BY <1>3, <2>2, ExitType, ForgetType DEF Download, TypeOK
  <2> QED BY <2>1, <2>2
<1>4. CASE Compile(w)
  <2>1. status' \in [Submission -> Status] /\ faults' \in 0..MaxFaults
    BY <1>1, <1>4, ReportStatusType DEF Compile, Status
  <2>2. Local
    BY <1>4 DEF Compile, InternalError, TypeOK, Goto, Stage, Held, Verdict
  <2> QED BY <1>4, <2>1, <2>2 DEF Compile, TypeOK
<1>5. CASE Test(w)
  <2>1. test[w] \in 0..NTests /\ test[w] < NTests
    BY <1>5 DEF Test, HoldsJob, TypeOK
  <2>2. 20 + (test[w] * 80) \div NTests \in 20..99
    <3>1. test[w] \in Nat
      BY <2>1
    <3> QED BY <2>1, <3>1, TestProgress
  <2>3. status' \in [Submission -> Status] /\ faults' \in 0..MaxFaults
    BY <1>1, <1>5, <2>2, ReportStatusType DEF Test, AnnounceTest, Status
  <2>4. Local
    <3>1. test' \in [Worker -> 0..NTests]
      <4>1. test[w] + 1 \in 0..NTests
        BY <2>1
      <4>2. test' = test \/ test' = [test EXCEPT ![w] = test[w] + 1]
        BY <1>5 DEF Test, InternalError
      <4> QED BY <4>1, <4>2 DEF TypeOK
    <3> QED BY <1>5, <3>1 DEF Test, InternalError, TypeOK, Goto, Stage, Held, Verdict
  <2> QED BY <1>5, <2>3, <2>4 DEF Test, TypeOK
<1>6. CASE Done(w)
  <2>1. status' \in [Submission -> Status] /\ faults' \in 0..MaxFaults
    BY <1>1, <1>6, ReportStatusType DEF Done, Status
  <2> QED BY <1>6, <2>1 DEF Done, TypeOK, Goto, Stage, Held
<1>7. CASE Publish(w)
  <2>1. result[w] \in Verdict
    BY <1>7 DEF Publish, HoldsJob
  <2> QED BY <1>1, <1>7, <2>1 DEF Publish, Deliver, TypeOK, Goto, Stage, redis
<1> QED BY <1>2, <1>3, <1>4, <1>5, <1>6, <1>7 DEF Process

\* A fault preserves the types.
LEMMA MishapTypeOK ==
    ASSUME TypeOK, HoldsJob, NEW w \in Worker, Mishap(w)
    PROVE  TypeOK'
<1> USE TaskQueueAssumption
<1>1. ASSUME NEW kind, Fault(kind)
      PROVE  faults' \in 0..MaxFaults
  BY <1>1 DEF Fault, TypeOK
<1>2. CASE StartLost(w)
  BY <1>1, <1>2 DEF StartLost, TypeOK, SetLock, local
<1>3. CASE ConnectionLost(w)
  <2>1. queue' \in [Level -> Seq(Submission)]
    <3>1. CASE UNCHANGED queue
      BY <3>1 DEF TypeOK
    <3>2. ASSUME NEW l \in Level, Served(l), queue' = [queue EXCEPT ![l] = Tail(@)]
          PROVE  queue' \in [Level -> Seq(Submission)]
      <4>1. Tail(queue[l]) \in Seq(Submission)
        BY <3>2 DEF Served, TypeOK
      <4> QED BY <3>2, <4>1 DEF TypeOK
    <3> QED BY <1>3, <3>1, <3>2 DEF ConnectionLost
  <2>2. lock' \in [Name -> Worker \cup {Gone}]
    BY <1>3 DEF ConnectionLost, SetLock, TypeOK
  <2> QED BY <1>1, <1>3, <2>1, <2>2 DEF ConnectionLost, TypeOK, Goto, Stage
<1>4. CASE Signal(w)
  BY <1>1, <1>4 DEF Signal, TypeOK, redis
<1>5. CASE Crash(w)
  BY <1>1, <1>5, ExitType, ForgetType DEF Crash, TypeOK
<1>6. CASE DropFatal(w)
  <2>1. job[w] \in Submission
    BY <1>6 DEF DropFatal, HoldsJob, Held, TypeOK
  <2>2. pc[w] = "publish" => result[w] \in Verdict
    BY DEF HoldsJob
  <2>3. /\ hash' \in [Submission -> SUBSET File]
        /\ order' \in [Level -> SUBSET Submission]
        /\ reports' \in [Submission -> Seq(Verdict)]
        /\ client' \in [Submission -> {"upload", "listed", "queued", "subscribed",
                                      "got", "gaveup"}]
    <3>1. CASE UNCHANGED <<hash, order, reports, client>>
      BY <3>1 DEF TypeOK
    <3>2. CASE /\ order' = [order EXCEPT ![LevelOf[job[w]]] = @ \ {job[w]}]
               /\ UNCHANGED <<hash, reports, client>>
      BY <3>2 DEF TypeOK
    <3>3. CASE /\ hash' = [hash EXCEPT ![job[w]] = {}]
               /\ UNCHANGED <<order, reports, client>>
      BY <3>3 DEF TypeOK
    <3>4. CASE /\ pc[w] = "publish"
               /\ Deliver(job[w], result[w])
               /\ UNCHANGED <<hash, order>>
      BY <2>1, <2>2, <3>4 DEF Deliver, TypeOK
    <3> QED BY <1>6, <3>1, <3>2, <3>3, <3>4 DEF DropFatal
  <2> QED BY <1>1, <1>6, <2>3, ExitType, ForgetType DEF DropFatal, TypeOK
<1> QED BY <1>2, <1>3, <1>4, <1>5, <1>6 DEF Mishap

\* Every step preserves the types.
LEMMA StepTypeOK ==
    ASSUME TypeOK, HoldsJob, [Next]_vars
    PROVE  TypeOK'
<1>1. CASE UNCHANGED vars
  BY <1>1 DEF vars, redis, local, TypeOK
<1> QED BY <1>1, ClientTypeOK, FetchTypeOK, ProcessTypeOK, MishapTypeOK DEF Next

-----------------------------------------------------------------------------
(* Part 1.  A submission is in one place.  Four lemmas say how a submission *)
(* moves; each action of the specification is an instance of one of them.   *)

Apart == OnePlace /\ UnpushedNowhere

\* The elements of what BLPOP leaves of a list.
LEMMA TailElements ==
    ASSUME NEW S, NEW q \in Seq(S), q # <<>>
    PROVE  /\ Head(q) = q[1] /\ 1 \in DOMAIN q
           /\ \A i \in DOMAIN Tail(q) : i + 1 \in DOMAIN q /\ Tail(q)[i] = q[i + 1]
OBVIOUS

\* Nothing moves, or a worker drops what it holds.
LEMMA StayOrDrop ==
    ASSUME TypeOK, Apart, UNCHANGED <<queue, reports>>,
           \A v \in Worker : job'[v] \in {job[v], NoJob},
           Pushed \subseteq Pushed'
    PROVE  Apart'
<1> USE TaskQueueAssumption
<1>1. Queued' = Queued /\ Reported' = Reported
  BY DEF Queued, Reported
<1>2. Grading' \subseteq Grading
  BY DEF Grading
<1>3. OnePlace'
  BY <1>1, <1>2 DEF Apart, OnePlace
<1>4. UnpushedNowhere'
  BY <1>1, <1>2 DEF Apart, UnpushedNowhere
<1> QED BY <1>3, <1>4 DEF Apart

\* A client pushes a submission that was nowhere.
LEMMA MovePush ==
    ASSUME TypeOK, Apart, NEW s \in Submission, Push(s)
    PROVE  Apart'
<1> USE TaskQueueAssumption
<1> DEFINE l == LevelOf[s]
<1>1. /\ l \in Level /\ queue[l] \in Seq(Submission)
      /\ queue' = [queue EXCEPT ![l] = Append(queue[l], s)]
      /\ UNCHANGED <<job, reports>>
  BY DEF TypeOK, Push, local
<1>2. s \notin Pushed /\ Pushed' = Pushed \cup {s}
  BY DEF Push, Pushed, TypeOK
<1>3. s \notin Queued \cup Grading \cup Reported
  BY <1>2 DEF Apart, UnpushedNowhere
<1>4. /\ \A m \in Level \ {l} : queue'[m] = queue[m]
      /\ DOMAIN queue'[l] = DOMAIN queue[l] \cup {Len(queue[l]) + 1}
      /\ \A i \in DOMAIN queue[l] : queue'[l][i] = queue[l][i]
      /\ queue'[l][Len(queue[l]) + 1] = s
  BY <1>1 DEF TypeOK
<1>5. Queued' = Queued \cup {s}
  BY <1>1, <1>4 DEF Queued
<1>6. Grading' = Grading /\ Reported' = Reported
  BY <1>1 DEF Grading, Reported
<1>7. \A m \in Level : \A i \in DOMAIN queue[m] : queue[m][i] # s
  BY <1>3 DEF Queued
<1>8. OnePlace'
  <2>1. \A m \in Level : \A i, j \in DOMAIN queue'[m] :
           queue'[m][i] = queue'[m][j] => i = j
    BY <1>4, <1>7 DEF Apart, OnePlace
  <2>2. \A m \in Level : \A i \in DOMAIN queue'[m] : LevelOf[queue'[m][i]] = m
    BY <1>4 DEF Apart, OnePlace
  <2> QED BY <1>1, <1>3, <1>5, <1>6, <2>1, <2>2 DEF Apart, OnePlace
<1>9. UnpushedNowhere'
  BY <1>2, <1>5, <1>6 DEF Apart, UnpushedNowhere
<1> QED BY <1>8, <1>9 DEF Apart

\* A submission leaves the queue, for an idle worker or, its reply lost, for
\* nobody.
LEMMA MovePop ==
    ASSUME TypeOK, HoldsJob, Apart, NEW w \in Worker, NEW l \in Level,
           queue[l] # <<>>, pc[w] = "pop",
           queue' = [queue EXCEPT ![l] = Tail(queue[l])],
           UNCHANGED <<reports, client>>,
           job' = job \/ job' = [job EXCEPT ![w] = Head(queue[l])]
    PROVE  Apart'
<1> USE TaskQueueAssumption
<1> DEFINE s == Head(queue[l])
<1>1. queue[l] \in Seq(Submission) /\ job[w] = NoJob
  BY DEF TypeOK, HoldsJob, Held
<1>2. /\ s = queue[l][1] /\ 1 \in DOMAIN queue[l]
      /\ \A i \in DOMAIN Tail(queue[l]) :
            i + 1 \in DOMAIN queue[l] /\ Tail(queue[l])[i] = queue[l][i + 1]
  BY <1>1, TailElements
<1>3. s \in Submission
  BY <1>1, <1>2
<1>4. s \in Queued /\ LevelOf[s] = l
  BY <1>2, <1>3 DEF Queued, Apart, OnePlace
<1>5. \A m \in Level : queue'[m] = IF m = l THEN Tail(queue[l]) ELSE queue[m]
  BY DEF TypeOK
<1>6. \A i \in DOMAIN Tail(queue[l]) : i + 1 # 1
  BY <1>1
<1>7. \A i \in DOMAIN Tail(queue[l]) : Tail(queue[l])[i] # s
  BY <1>2, <1>6 DEF Apart, OnePlace
<1>8. Queued' \subseteq Queued
  BY <1>2, <1>5 DEF Queued
<1>9. s \notin Queued'
  <2>1. \A m \in Level \ {l} : \A i \in DOMAIN queue[m] : queue[m][i] # s
    BY <1>4 DEF Apart, OnePlace
  <2>2. \A m \in Level : \A i \in DOMAIN queue'[m] : queue'[m][i] # s
    <3>1. \A i \in DOMAIN queue'[l] : queue'[l][i] # s
      BY <1>5, <1>7
    <3>2. \A m \in Level \ {l} : \A i \in DOMAIN queue'[m] : queue'[m][i] # s
      BY <1>5, <2>1
    <3> QED BY <3>1, <3>2
  <2> HIDE DEF s
  <2> QED BY <2>2 DEF Queued
<1>10. Reported' = Reported /\ Pushed' = Pushed
  BY DEF Reported, Pushed
<1>11. s \in Pushed /\ s \notin Grading \cup Reported
  BY <1>4 DEF Apart, OnePlace, UnpushedNowhere
<1>12. Grading' \subseteq Grading \cup {s}
  BY <1>3 DEF Grading, TypeOK
<1>13. OnePlace'
  <2>1. \A m \in Level : \A i, j \in DOMAIN queue'[m] :
           queue'[m][i] = queue'[m][j] => i = j
    <3>1. \A i, j \in DOMAIN Tail(queue[l]) :
             Tail(queue[l])[i] = Tail(queue[l])[j] => i = j
      <4>1. \A i, j \in DOMAIN Tail(queue[l]) :
               Tail(queue[l])[i] = Tail(queue[l])[j] => i + 1 = j + 1
        BY <1>2 DEF Apart, OnePlace
      <4>2. \A i \in DOMAIN Tail(queue[l]) : i \in Nat
        BY <1>1
      <4>3. \A i, j \in Nat : i + 1 = j + 1 => i = j
        OBVIOUS
      <4> QED BY <4>1, <4>2, <4>3
    <3> QED BY <1>5, <3>1 DEF Apart, OnePlace
  <2>2. \A m \in Level : \A i \in DOMAIN queue'[m] : LevelOf[queue'[m][i]] = m
    BY <1>2, <1>5 DEF Apart, OnePlace
  <2>3. \A u, v \in Worker : job'[u] = job'[v] /\ job'[u] # NoJob => u = v
    <3>1. \A v \in Worker : job[v] # s
      BY <1>3, <1>11 DEF Grading
    <3>2. job' = job \/ job' = [job EXCEPT ![w] = s]
      OBVIOUS
    <3> HIDE DEF s
    <3>3. \A v \in Worker : job'[v] = job[v] \/ (v = w /\ job'[v] = s)
      BY <3>2 DEF TypeOK
    <3> QED BY <3>1, <3>3 DEF Apart, OnePlace
  <2>4. Queued' \cap Grading' = {}
    BY <1>8, <1>9, <1>12 DEF Apart, OnePlace
  <2>5. Reported' \cap (Queued' \cup Grading') = {}
    BY <1>8, <1>10, <1>11, <1>12 DEF Apart, OnePlace
  <2>6. \A t \in Reported' : Len(reports'[t]) = 1
    BY <1>10 DEF Apart, OnePlace
  <2> QED BY <2>1, <2>2, <2>3, <2>4, <2>5, <2>6 DEF OnePlace
<1>14. UnpushedNowhere'
  BY <1>8, <1>10, <1>11, <1>12 DEF Apart, UnpushedNowhere
<1> QED BY <1>13, <1>14 DEF Apart

\* A worker publishes the submission it holds and lets go of it.
LEMMA MovePublish ==
    ASSUME TypeOK, HoldsJob, Apart, NEW w \in Worker, pc[w] = "publish",
           Deliver(job[w], result[w]), UNCHANGED queue,
           job' = [job EXCEPT ![w] = NoJob]
    PROVE  Apart'
<1> USE TaskQueueAssumption
<1> DEFINE s == job[w]
<1>1. s \in Submission /\ result[w] \in Verdict
  BY DEF HoldsJob, Held, TypeOK
<1>2. s \in Grading
  BY <1>1 DEF Grading
<1>3. reports[s] = <<>> /\ s \notin Queued /\ s \in Pushed
  BY <1>1, <1>2 DEF Apart, OnePlace, UnpushedNowhere, Reported
<1>4. \A t \in Submission :
         reports'[t] = IF t = s THEN <<result[w]>> ELSE reports[t]
  BY <1>1, <1>3 DEF Deliver, TypeOK
<1>5. Pushed' = Pushed /\ Queued' = Queued
  BY DEF Deliver, Pushed, Queued, TypeOK
<1>6. Reported' = Reported \cup {s}
  BY <1>1, <1>4 DEF Reported
<1>7. /\ \A v \in Worker \ {w} : job'[v] = job[v] /\ job[v] # s
      /\ job'[w] = NoJob
  BY <1>1 DEF TypeOK, Apart, OnePlace
<1>8. Grading' \subseteq Grading \ {s}
  BY <1>1, <1>7 DEF Grading
<1>9. OnePlace'
  <2>1. \A u, v \in Worker : job'[u] = job'[v] /\ job'[u] # NoJob => u = v
    BY <1>7 DEF Apart, OnePlace
  <2>2. \A t \in Reported' : Len(reports'[t]) = 1
    <3>1. Len(<<result[w]>>) = 1
      OBVIOUS
    <3>2. \A t \in Reported : t \in Submission /\ Len(reports[t]) = 1
      BY DEF Apart, OnePlace, Reported
    <3> QED BY <1>1, <1>4, <1>6, <3>1, <3>2
  <2>3. Queued' \cap Grading' = {}
    BY <1>5, <1>8 DEF Apart, OnePlace
  <2>4. Reported' \cap (Queued' \cup Grading') = {}
    BY <1>3, <1>5, <1>6, <1>8 DEF Apart, OnePlace
  <2> QED BY <2>1, <2>2, <2>3, <2>4 DEF Apart, OnePlace
<1>10. UnpushedNowhere'
  BY <1>3, <1>5, <1>6, <1>8 DEF Apart, UnpushedNowhere
<1> QED BY <1>9, <1>10 DEF Apart

-----------------------------------------------------------------------------
(* Each action is one of those moves, and preserves HoldsJob.              *)

\* A process that ends takes no submission.
LEMMA ExitDrops ==
    ASSUME TypeOK, NEW w \in Worker, Exit(w)
    PROVE  \A v \in Worker : job'[v] \in {job[v], NoJob}
BY DEF Exit, TypeOK

\* A client's step.
LEMMA ClientApart ==
    ASSUME TypeOK, HoldsJob, Apart, NEW s \in Submission, ClientStep(s)
    PROVE  HoldsJob' /\ Apart'
<1>1. HoldsJob'
  BY DEF ClientStep, PutFile, AddToOrder, Push, Subscribe, GiveUp, HoldsJob, local
<1>2. CASE Push(s)
  BY <1>1, <1>2, MovePush
<1>3. CASE PutFile(s) \/ AddToOrder(s) \/ Subscribe(s) \/ GiveUp(s)
  <2>1. UNCHANGED <<queue, reports, job>>
    BY <1>3 DEF PutFile, AddToOrder, Subscribe, GiveUp, redis, local
  <2>2. Pushed \subseteq Pushed'
    BY <1>3 DEF PutFile, AddToOrder, Subscribe, GiveUp, Pushed, TypeOK
  <2> QED BY <1>1, <2>1, <2>2, StayOrDrop
<1> QED BY <1>2, <1>3 DEF ClientStep

\* A step of main or fetch_submission.
LEMMA FetchApart ==
    ASSUME TypeOK, HoldsJob, Apart, NEW w \in Worker, Start(w) \/ Fetch(w)
    PROVE  HoldsJob' /\ Apart'
<1> USE TaskQueueAssumption
<1>1. CASE Pop(w)
  <2>1. PICK l \in Level : /\ Served(l)
                          /\ job' = [job EXCEPT ![w] = Head(queue[l])]
                          /\ queue' = [queue EXCEPT ![l] = Tail(queue[l])]
    BY <1>1 DEF Pop
  <2>2. queue[l] # <<>> /\ pc[w] = "pop" /\ UNCHANGED <<reports, client>>
    BY <1>1, <2>1 DEF Pop, Served
  <2>3. Apart'
    BY <2>1, <2>2, MovePop
  <2>4. Head(queue[l]) \in Submission
    BY <2>2 DEF TypeOK
  <2>5. HoldsJob'
    BY <1>1, <2>1, <2>4 DEF Pop, Goto, HoldsJob, Held, TypeOK
  <2> QED BY <2>3, <2>5
<1>2. CASE ~Pop(w)
  <2>1. UNCHANGED <<queue, reports, client>>
    BY <1>2 DEF Fetch, Start, Quit, PreCheck, GetSet, PollEmpty, Reconnect, DropPopped,
                ZRem, redis
  <2>2. \A v \in Worker : job'[v] \in {job[v], NoJob}
    BY <1>2, ExitDrops DEF Fetch, Start, Quit, PreCheck, GetSet, PollEmpty, Reconnect,
                           DropPopped, ZRem
  <2>3. Pushed \subseteq Pushed'
    BY <2>1 DEF Pushed
  <2>4. Apart'
    BY <2>1, <2>2, <2>3, StayOrDrop
  <2>5. HoldsJob'
    BY <1>2 DEF Fetch, Start, Quit, PreCheck, GetSet, PollEmpty, Reconnect, DropPopped,
                ZRem, Exit, Goto, HoldsJob, Held, TypeOK
  <2> QED BY <2>4, <2>5
<1> QED BY <1>1, <1>2

\* A step of process_submission.
LEMMA ProcessApart ==
    ASSUME TypeOK, HoldsJob, Apart, NEW w \in Worker, Process(w)
    PROVE  HoldsJob' /\ Apart'
<1> USE TaskQueueAssumption
<1>1. CASE Publish(w)
  <2>1. Apart'
    BY <1>1, MovePublish DEF Publish, redis
  <2>2. HoldsJob'
    BY <1>1 DEF Publish, Goto, HoldsJob, Held, TypeOK
  <2> QED BY <2>1, <2>2
<1>2. CASE ~Publish(w)
  <2>1. UNCHANGED <<queue, reports, client>>
    BY <1>2 DEF Process, Prepare, recreate_workdir, Download, Compile, Test, Done
  <2>2. \A v \in Worker : job'[v] \in {job[v], NoJob}
    BY <1>2, ExitDrops DEF Process, Prepare, recreate_workdir, Download, Compile,
                           Test, Done, InternalError
  <2>3. Pushed \subseteq Pushed'
    BY <2>1 DEF Pushed
  <2>4. Apart'
    BY <2>1, <2>2, <2>3, StayOrDrop
  <2>5. HoldsJob'
    <3>1. CASE Prepare(w)
      <4>1. CASE Exit(w)
        BY <4>1 DEF Exit, Goto, HoldsJob, Held, TypeOK
      <4>2. CASE InternalError(w)
        BY <3>1, <4>2 DEF Prepare, recreate_workdir, InternalError, Goto, HoldsJob,
                          Held, TypeOK, Verdict
      <4>3. CASE Goto(w, "download") /\ UNCHANGED memory
        BY <3>1, <4>3 DEF Prepare, recreate_workdir, Goto, HoldsJob, Held, TypeOK
      <4> QED BY <3>1, <4>1, <4>2, <4>3 DEF Prepare, recreate_workdir
    <3>2. CASE Download(w)
      BY <3>2 DEF Download, Exit, Goto, HoldsJob, Held, TypeOK
    <3>3. CASE Compile(w)
      BY <3>3 DEF Compile, InternalError, Goto, HoldsJob, Held, TypeOK, Verdict
    <3>4. CASE Test(w)
      BY <3>4 DEF Test, InternalError, Goto, HoldsJob, Held, TypeOK, Verdict
    <3>5. CASE Done(w)
      BY <3>5 DEF Done, Goto, HoldsJob, Held, TypeOK
    <3> QED BY <1>2, <3>1, <3>2, <3>3, <3>4, <3>5 DEF Process
  <2> QED BY <2>4, <2>5
<1> QED BY <1>1, <1>2

\* A fault.
LEMMA MishapApart ==
    ASSUME TypeOK, HoldsJob, Apart, NEW w \in Worker, Mishap(w)
    PROVE  HoldsJob' /\ Apart'
<1> USE TaskQueueAssumption
<1>1. HoldsJob'
  BY DEF Mishap, StartLost, ConnectionLost, Signal, Crash, DropFatal, Exit, Goto, local,
         HoldsJob, Held, TypeOK
<1>2. CASE StartLost(w) \/ Signal(w) \/ Crash(w)
  <2>1. UNCHANGED <<queue, reports, client>>
    BY <1>2 DEF StartLost, Signal, Crash, redis
  <2>2. \A v \in Worker : job'[v] \in {job[v], NoJob}
    BY <1>2, ExitDrops DEF StartLost, Signal, Crash, local
  <2> QED BY <1>1, <2>1, <2>2, StayOrDrop DEF Pushed
<1>3. CASE ConnectionLost(w)
  <2>1. UNCHANGED <<reports, client, job>>
    BY <1>3 DEF ConnectionLost
  <2>2. CASE UNCHANGED queue
    BY <1>1, <2>1, <2>2, StayOrDrop DEF Pushed
  <2>3. ASSUME NEW l \in Level, pc[w] = "pop", Served(l),
               queue' = [queue EXCEPT ![l] = Tail(queue[l])]
        PROVE  Apart'
    BY <2>1, <2>3, MovePop DEF Served
  <2> QED BY <1>1, <1>3, <2>2, <2>3 DEF ConnectionLost
<1>4. CASE DropFatal(w)
  <2>1. UNCHANGED queue /\ \A v \in Worker : job'[v] \in {job[v], NoJob}
    BY <1>4, ExitDrops DEF DropFatal
  <2>2. CASE UNCHANGED <<reports, client>>
    BY <1>1, <2>1, <2>2, StayOrDrop DEF Pushed
  <2>3. CASE pc[w] = "publish" /\ Deliver(job[w], result[w])
    BY <1>1, <1>4, <2>1, <2>3, MovePublish DEF DropFatal, Exit
  <2> QED BY <1>4, <2>2, <2>3 DEF DropFatal
<1> QED BY <1>2, <1>3, <1>4 DEF Mishap

\* The inductive invariant holds in every reachable state: a worker holds a
\* submission exactly from BLPOP to PUBLISH, and nothing is anywhere before RPUSH.
THEOREM Invariance == Spec => []IInv
<1>1. IInv /\ [Next]_vars => IInv'
  <2> SUFFICES ASSUME IInv, [Next]_vars
               PROVE  IInv'
    OBVIOUS
  <2>1. TypeOK /\ HoldsJob /\ Apart
    BY DEF IInv, Apart
  <2>2. TypeOK'
    BY <2>1, StepTypeOK
  <2>3. CASE UNCHANGED vars
    <3>1. UNCHANGED <<pc, test, result, job, queue, reports, client>>
      BY <2>3 DEF vars, redis, local
    <3>2. HoldsJob'
      BY <2>1, <3>1 DEF HoldsJob
    <3>3. Apart'
      BY <2>1, <3>1, StayOrDrop DEF Pushed
    <3> QED BY <2>2, <3>2, <3>3 DEF IInv, Apart
  <2>4. CASE Next
    BY <2>1, <2>2, <2>4, ClientApart, FetchApart, ProcessApart, MishapApart
       DEF Next, IInv, Apart
  <2> QED BY <2>3, <2>4
<1> QED BY InitIInv, <1>1, PTL DEF Spec

\* The variables of the model always have their types.
THEOREM TypeCorrect == Spec => []TypeOK
<1>1. IInv => TypeOK
  BY DEF IInv
<1> QED BY Invariance, <1>1, PTL

\* No submission is ever in two places, nor reported twice, whatever the number
\* of workers and faults and whatever names the workers share.
THEOREM EachInOnePlace == Spec => []OnePlace
<1>1. IInv => OnePlace
  BY DEF IInv
<1> QED BY Invariance, <1>1, PTL

-----------------------------------------------------------------------------
(* Part 2.  How a step of a worker moves submissions.                      *)

WorkerStep(w) == Start(w) \/ Fetch(w) \/ Process(w) \/ Mishap(w)

\* The other workers keep what they have.
OthersStay(w) ==
    \A v \in Worker \ {w} :
        /\ pc'[v] = pc[v] /\ job'[v] = job[v]
        /\ interrupted'[v] = interrupted[v] /\ result'[v] = result[v] /\ test'[v] = test[v]

\* A worker's step changes the memory of no other worker.
LEMMA OthersStayLemma ==
    ASSUME TypeOK, NEW w \in Worker, WorkerStep(w)
    PROVE  OthersStay(w)
<1> USE DEF TypeOK, OthersStay, Goto, Exit
<1>1. CASE Start(w) \/ Fetch(w)
  BY <1>1 DEF Start, Fetch, Quit, PreCheck, GetSet, Pop, PollEmpty, Reconnect, DropPopped, ZRem
<1>2. CASE Process(w)
  BY <1>2 DEF Process, Prepare, recreate_workdir, Download, Compile, Test, Done,
              Publish, InternalError
<1>3. CASE Mishap(w)
  BY <1>3 DEF Mishap, StartLost, ConnectionLost, Signal, Crash, DropFatal, local
<1> QED BY <1>1, <1>2, <1>3 DEF WorkerStep

\* A submission leaves the queue, for the worker or, its reply lost, for nobody.
Takes(w, s) ==
    /\ pc[w] = "pop" /\ s \in Queued
    /\ Queued' \subseteq Queued /\ Queued \subseteq Queued' \cup {s}
    /\ UNCHANGED <<client, reports>>
    /\ job' \in {job, [job EXCEPT ![w] = s]}

Keeps == UNCHANGED <<queue, reports, client, job>>

\* The worker lets go of what it holds, if anything.
Drops(w) == UNCHANGED <<queue, reports, client>> /\ job' = [job EXCEPT ![w] = NoJob]

Publishes(w) ==
    /\ pc[w] = "publish" /\ UNCHANGED queue
    /\ Deliver(job[w], result[w])
    /\ job' = [job EXCEPT ![w] = NoJob]

\* What BLPOP leaves of a queue.
LEMMA PopTakes ==
    ASSUME TypeOK, NEW w \in Worker, pc[w] = "pop", NEW l \in Level, Served(l),
           queue' = [queue EXCEPT ![l] = Tail(queue[l])],
           UNCHANGED <<client, reports>>,
           job' \in {job, [job EXCEPT ![w] = Head(queue[l])]}
    PROVE  \E s \in Submission : Takes(w, s) /\ job' \in {job, [job EXCEPT ![w] = s]}
                                 /\ s = Head(queue[l])
<1> DEFINE q == queue[l]
           s == Head(q)
<1>1. q \in Seq(Submission) /\ q # <<>>
  BY DEF TypeOK, Served
<1>2. /\ s = q[1] /\ 1 \in DOMAIN q
      /\ \A i \in DOMAIN Tail(q) : i + 1 \in DOMAIN q /\ Tail(q)[i] = q[i + 1]
  BY <1>1, TailElements
<1>3. \A i \in DOMAIN q : i # 1 => i - 1 \in DOMAIN Tail(q) /\ Tail(q)[i - 1] = q[i]
  BY <1>1
<1>4. \A m \in Level : queue'[m] = IF m = l THEN Tail(q) ELSE queue[m]
  BY DEF TypeOK
<1>5. s \in Submission /\ s \in Queued
  BY <1>1, <1>2 DEF Queued
<1>6. Queued' \subseteq Queued
  BY <1>2, <1>4 DEF Queued
<1>7. Queued \subseteq Queued' \cup {s}
  <2> SUFFICES ASSUME NEW t \in Queued, t # s
               PROVE  t \in Queued'
    OBVIOUS
  <2>1. PICK m \in Level : \E i \in DOMAIN queue[m] : queue[m][i] = t
    BY DEF Queued
  <2>2. PICK i \in DOMAIN queue[m] : queue[m][i] = t
    BY <2>1
  <2>3. CASE m # l
    BY <1>4, <2>2, <2>3 DEF Queued
  <2>4. CASE m = l
    <3>1. i - 1 \in DOMAIN Tail(q) /\ Tail(q)[i - 1] = t
      BY <1>2, <1>3, <2>2, <2>4
    <3> HIDE DEF q
    <3> QED BY <1>4, <3>1 DEF Queued
  <2> QED BY <2>3, <2>4
<1> HIDE DEF s
<1>8. Takes(w, s)
  BY <1>5, <1>6, <1>7 DEF Takes, s
<1> QED BY <1>5, <1>8 DEF s

\* Every step of a worker is one of these.
LEMMA Moves ==
    ASSUME TypeOK, HoldsJob, NEW w \in Worker, WorkerStep(w)
    PROVE  Keeps \/ Drops(w) \/ Publishes(w) \/ \E s \in Submission : Takes(w, s)
<1>1. CASE Start(w) \/ Fetch(w)
  <2>1. CASE Pop(w)
    BY <2>1, PopTakes DEF Pop
  <2>2. CASE ~Pop(w)
    BY <1>1, <2>2
       DEF Start, Fetch, Quit, PreCheck, GetSet, PollEmpty, Reconnect, DropPopped, ZRem, Exit,
           redis, Keeps, Drops
  <2> QED BY <2>1, <2>2
<1>2. CASE Process(w)
  <2>1. CASE Publish(w)
    BY <2>1 DEF Publish, Publishes, redis
  <2>2. CASE ~Publish(w)
    BY <1>2, <2>2
       DEF Process, Prepare, recreate_workdir, Download, Compile, Test, Done,
           InternalError, Exit, Keeps, Drops
  <2> QED BY <2>1, <2>2
<1>3. CASE Mishap(w)
  <2>1. CASE StartLost(w) \/ Signal(w) \/ Crash(w)
    BY <2>1 DEF StartLost, Signal, Crash, Exit, redis, local, Keeps, Drops
  <2>2. CASE ConnectionLost(w)
    <3>1. CASE UNCHANGED queue
      BY <2>2, <3>1 DEF ConnectionLost, Keeps
    <3>2. CASE pc[w] = "pop" /\ \E l \in Level : Served(l) /\ queue' = [queue EXCEPT ![l] = Tail(queue[l])]
      BY <2>2, <3>2, PopTakes DEF ConnectionLost
    <3> QED BY <2>2, <3>1, <3>2 DEF ConnectionLost
  <2>3. CASE DropFatal(w)
    BY <2>3 DEF DropFatal, Exit, Drops, Publishes
  <2> QED BY <1>3, <2>1, <2>2, <2>3 DEF Mishap
<1> QED BY <1>1, <1>2, <1>3 DEF WorkerStep

\* What a worker's step does to the places.
LEMMA Places ==
    ASSUME IInv, IInv', NEW w \in Worker, WorkerStep(w)
    PROVE  /\ Queued' \subseteq Queued /\ Pushed' = Pushed /\ Lost \subseteq Lost'
           /\ \A s \in Submission : client'[s] = "listed" <=> client[s] = "listed"
           /\ \A s \in Submission : client'[s] = "upload" <=> client[s] = "upload"
           /\ Reported' \subseteq Reported \cup {job[w]}
           /\ job'[w] \in {job[w], NoJob} \/ job'[w] \in Queued
<1> USE TaskQueueAssumption
<1>1. TypeOK /\ HoldsJob
  BY DEF IInv
<1>2. CASE Keeps
  BY <1>2 DEF Keeps, Queued, Pushed, Lost, Grading, Reported
<1>3. CASE Drops(w)
  <2>1. job'[w] = NoJob /\ Grading' \subseteq Grading
    BY <1>1, <1>3 DEF Drops, Grading, TypeOK
  <2> QED BY <1>3, <2>1 DEF Drops, Queued, Pushed, Lost, Reported
<1>4. CASE Publishes(w)
  <2>1. job'[w] = NoJob /\ Grading' \subseteq Grading
    BY <1>1, <1>4 DEF Publishes, Grading, TypeOK
  <2>2. /\ Pushed' = Pushed /\ Queued' = Queued
        /\ \A s \in Submission : client'[s] = "listed" <=> client[s] = "listed"
        /\ \A s \in Submission : client'[s] = "upload" <=> client[s] = "upload"
    BY <1>1, <1>4 DEF Publishes, Deliver, Pushed, Queued, TypeOK
  <2>3. \A s \in Submission : s # job[w] => reports'[s] = reports[s]
    BY <1>1, <1>4 DEF Publishes, Deliver, TypeOK
  <2>4. Reported' \subseteq Reported \cup {job[w]}
    BY <2>3 DEF Reported
  <2>5. job[w] \in Grading
    BY <1>1, <1>4 DEF Publishes, HoldsJob, Held, Grading, TypeOK
  <2> QED BY <2>1, <2>2, <2>4, <2>5 DEF Lost
<1>5. ASSUME NEW s \in Submission, Takes(w, s)
      PROVE  /\ Queued' \subseteq Queued /\ Pushed' = Pushed /\ Lost \subseteq Lost'
             /\ Reported' = Reported /\ UNCHANGED client
             /\ job'[w] \in {job[w], NoJob} \/ job'[w] \in Queued
  <2>1. job'[w] \in {job[w], s} /\ Grading' \subseteq Grading \cup {s}
    BY <1>1, <1>5 DEF Takes, Grading, TypeOK
  <2>2. Pushed' = Pushed /\ Reported' = Reported /\ s \in Queued /\ Queued' \subseteq Queued
    BY <1>5 DEF Takes, Pushed, Reported
  <2> QED BY <1>5, <2>1, <2>2 DEF Takes, Lost
<1> QED BY <1>1, <1>2, <1>3, <1>4, <1>5, Moves

\* What a client's step does to them.
LEMMA ClientPlaces ==
    ASSUME IInv, IInv', NEW s \in Submission, ClientStep(s)
    PROVE  /\ UNCHANGED <<pc, job, interrupted, result, reports, faults, status>>
           /\ Grading' = Grading /\ Reported' = Reported /\ Lost' = Lost
           /\ Queued' \subseteq Queued \cup {t \in Submission : client[t] = "listed"}
           /\ Pushed \subseteq Pushed' /\ Queued \subseteq Queued'
           /\ \A t \in Submission : client[t] = "listed" => client'[t] = "listed" \/ t \in Queued'
<1> USE TaskQueueAssumption
<1>1. UNCHANGED <<pc, job, interrupted, result, reports, faults, status>>
  BY DEF ClientStep, PutFile, AddToOrder, Push, Subscribe, GiveUp, redis, local
<1>2. Grading' = Grading /\ Reported' = Reported
  BY <1>1 DEF Grading, Reported
<1>3. CASE Push(s)
  <2> DEFINE l == LevelOf[s]
             q == queue[l]
  <2>1. /\ l \in Level /\ q \in Seq(Submission) /\ client[s] = "listed"
        /\ queue' = [queue EXCEPT ![l] = Append(q, s)]
    BY <1>3 DEF IInv, TypeOK, Push
  <2>2. /\ \A m \in Level \ {l} : queue'[m] = queue[m]
        /\ DOMAIN queue'[l] = DOMAIN q \cup {Len(q) + 1}
        /\ \A i \in DOMAIN q : queue'[l][i] = q[i]
        /\ queue'[l][Len(q) + 1] = s
    BY <2>1 DEF IInv, TypeOK
  <2>3. Queued' = Queued \cup {s}
    BY <2>1, <2>2 DEF Queued
  <2>4. Pushed' = Pushed \cup {s}
    BY <1>3 DEF Push, Pushed, IInv, TypeOK
  <2>5. Lost' = Lost
    BY <1>2, <2>3, <2>4, <2>1 DEF Lost, Pushed
  <2>6. \A t \in Submission \ {s} : client'[t] = client[t]
    BY <1>3 DEF Push, IInv, TypeOK
  <2> QED BY <1>1, <1>2, <2>1, <2>3, <2>4, <2>5, <2>6
<1>4. CASE PutFile(s) \/ AddToOrder(s) \/ Subscribe(s) \/ GiveUp(s)
  <2>1. UNCHANGED queue
    BY <1>4 DEF PutFile, AddToOrder, Subscribe, GiveUp, redis
  <2>2. Pushed' = Pushed
    BY <1>4 DEF PutFile, AddToOrder, Subscribe, GiveUp, Pushed, IInv, TypeOK
  <2>3. Queued' = Queued
    BY <2>1 DEF Queued
  <2>4. \A t \in Submission : client[t] = "listed" => client'[t] = "listed"
    BY <1>4 DEF PutFile, AddToOrder, Subscribe, GiveUp, IInv, TypeOK
  <2> QED BY <1>1, <1>2, <2>2, <2>3, <2>4 DEF Lost
<1> QED BY <1>3, <1>4 DEF ClientStep

-----------------------------------------------------------------------------
(* The files of a submission are in Redis until a worker has them.         *)

\* Nobody downloads a submission before all its files are there.
Early == {"popped", "prepare", "download"}

ToDownload(s) ==
    \/ client[s] = "listed"
    \/ s \in Queued
    \/ \E v \in Worker : job[v] = s /\ pc[v] \in Early

Stored == \A s \in Submission : ToDownload(s) => hash[s] = FilesOf[s]

\* Clients keep complete what they have queued,
LEMMA ClientStored ==
    ASSUME IInv, IInv', Stored, NEW s \in Submission, ClientStep(s)
    PROVE  Stored'
<1>1. CASE PutFile(s)
  <2>1. client[s] = "upload" /\ client' = client /\ \A t \in Submission \ {s} : hash'[t] = hash[t]
    BY <1>1 DEF PutFile, IInv, TypeOK
  <2>2. s \notin Pushed
    BY <2>1 DEF Pushed
  <2>3. ~ToDownload(s)
    BY <2>1, <2>2 DEF ToDownload, IInv, UnpushedNowhere, Grading
  <2>4. \A t \in Submission : ToDownload(t)' => ToDownload(t)
    BY <1>1, <2>1 DEF PutFile, ToDownload, Queued, local
  <2> QED BY <2>1, <2>3, <2>4 DEF Stored
<1>2. CASE ~PutFile(s)
  <2>1. hash' = hash
    BY <1>2 DEF ClientStep, AddToOrder, Push, Subscribe, GiveUp, redis
  <2>2. \A t \in Submission : ToDownload(t)' => ToDownload(t) \/ hash[t] = FilesOf[t]
    <3>1. \A t \in Submission : client'[t] = "listed" => client[t] = "listed" \/ hash[t] = FilesOf[t]
      BY <1>2 DEF ClientStep, AddToOrder, Push, Subscribe, GiveUp, IInv, TypeOK
    <3> QED BY <3>1, ClientPlaces DEF ToDownload
  <2> QED BY <2>1, <2>2 DEF Stored
<1> QED BY <1>1, <1>2

\* and workers what nobody has downloaded yet.
LEMMA WorkerStored ==
    ASSUME IInv, IInv', Stored, NEW w \in Worker, WorkerStep(w)
    PROVE  Stored'
<1> USE TaskQueueAssumption
<1>1. OthersStay(w)
  BY OthersStayLemma DEF IInv
<1>2. pc'[w] \in Early => pc[w] \in Early \/ (pc[w] = "pop" /\ pc'[w] = "popped")
  BY DEF WorkerStep, Start, Fetch, Quit, PreCheck, GetSet, Pop, PollEmpty, Reconnect,
         DropPopped, ZRem, Process, Prepare, recreate_workdir, Download, Compile,
         Test, Done, Publish,
         InternalError, Mishap, StartLost, ConnectionLost, Signal, Crash, DropFatal, Exit, Goto,
         local, IInv, TypeOK, Early
<1>3. \A t \in Submission : ToDownload(t)' => ToDownload(t)
  <2> SUFFICES ASSUME NEW t \in Submission, ToDownload(t)'
               PROVE  ToDownload(t)
    OBVIOUS
  <2>1. CASE client'[t] = "listed" \/ t \in Queued'
    BY <2>1, Places DEF ToDownload
  <2>2. ASSUME NEW v \in Worker, job'[v] = t, pc'[v] \in Early
        PROVE  ToDownload(t)
    <3>1. CASE v # w
      BY <1>1, <2>2, <3>1 DEF OthersStay, ToDownload
    <3>2. CASE v = w
      <4>1. t # NoJob
        OBVIOUS
      <4>2. CASE t \in Queued
        BY <4>2 DEF ToDownload
      <4>3. CASE job[w] = t
        <5>1. pc[w] # "pop"
          BY <4>1, <4>3 DEF IInv, HoldsJob, Held
        <5> QED BY <1>2, <2>2, <3>2, <4>3, <5>1 DEF ToDownload
      <4> QED BY <2>2, <3>2, <4>1, <4>2, <4>3, Places
    <3> QED BY <3>1, <3>2
  <2> QED BY <2>1, <2>2 DEF ToDownload
<1>4. CASE UNCHANGED hash
  BY <1>3, <1>4 DEF Stored
<1>5. CASE pc[w] = "download" /\ pc'[w] \notin Early /\ hash' = [hash EXCEPT ![job[w]] = {}]
  <2>1. PICK s \in Submission : s = job[w] /\ s \in Grading
    BY <1>5 DEF IInv, HoldsJob, Held, TypeOK, Grading
  <2>2. s \in Pushed /\ s \notin Queued /\ client[s] # "listed"
    BY <2>1 DEF IInv, OnePlace, UnpushedNowhere, Pushed
  <2>3. \A v \in Worker \ {w} : job[v] # s
    BY <2>1 DEF IInv, OnePlace
  <2>4. ~ToDownload(s)'
    <3>1. client'[s] # "listed" /\ s \notin Queued'
      BY <2>1, <2>2, Places
    <3>2. \A v \in Worker : job'[v] = s => pc'[v] \notin Early
      BY <1>1, <1>5, <2>3 DEF OthersStay
    <3> QED BY <3>1, <3>2 DEF ToDownload
  <2>5. \A t \in Submission \ {s} : hash'[t] = hash[t]
    BY <1>5, <2>1 DEF IInv, TypeOK
  <2> QED BY <1>3, <2>4, <2>5 DEF Stored
<1>6. UNCHANGED hash \/ (pc[w] = "download" /\ pc'[w] \notin Early /\ hash' = [hash EXCEPT ![job[w]] = {}])
  <2>1. CASE Start(w) \/ Fetch(w)
    BY <2>1 DEF Start, Fetch, Quit, PreCheck, GetSet, Pop, PollEmpty, Reconnect, DropPopped, ZRem, redis
  <2>2. CASE Process(w)
    BY <2>2 DEF Process, Prepare, recreate_workdir, Download, Compile, Test, Done,
                Publish, redis, Goto, Early, IInv, TypeOK
  <2>3. CASE Mishap(w)
    BY <2>3 DEF Mishap, StartLost, ConnectionLost, Signal, Crash, DropFatal, redis, Exit, Goto, Early, IInv, TypeOK
  <2> QED BY <2>1, <2>2, <2>3 DEF WorkerStep
<1> QED BY <1>4, <1>5, <1>6

\* What is still to be downloaded is complete in every reachable state.
LEMMA StoredInvariance == Spec => []Stored
<1>1. Init => Stored
  BY DEF Init, Stored, ToDownload, Queued, Early
<1>2. IInv /\ IInv' /\ Stored /\ [Next]_vars => Stored'
  <2> SUFFICES ASSUME IInv, IInv', Stored, [Next]_vars
               PROVE  Stored'
    OBVIOUS
  <2>1. CASE UNCHANGED vars
    BY <2>1 DEF vars, redis, local, Stored, ToDownload, Queued
  <2> QED BY <2>1, ClientStored, WorkerStored DEF Next, WorkerStep
<1> QED BY Invariance, <1>1, <1>2, PTL DEF Spec

-----------------------------------------------------------------------------
(* Losses.                                                                 *)

\* What is lost although it could be graded, and who has been told to stop.
Wasted == Lost \ Ungradable
Warned == {w \in Worker : interrupted[w]}

\* A signal pays for what its worker may drop later.
Accounts ==
    /\ IsFiniteSet(Wasted) /\ IsFiniteSet(Warned)
    /\ Cardinality(Wasted) + Cardinality(Warned) <= faults

\* How many there are in a subset,
LEMMA SubsetCard ==
    ASSUME NEW S, IsFiniteSet(S), NEW T, T \subseteq S
    PROVE  /\ IsFiniteSet(T) /\ Cardinality(T) \in Nat /\ Cardinality(S) \in Nat
           /\ Cardinality(T) <= Cardinality(S)
BY FS_Subset, FS_CardinalityType

\* in a set with one more at most,
LEMMA OneMoreCard ==
    ASSUME NEW S, IsFiniteSet(S), NEW x, NEW T, T \subseteq S \cup {x}
    PROVE  /\ IsFiniteSet(T) /\ Cardinality(T) \in Nat /\ Cardinality(S) \in Nat
           /\ Cardinality(T) <= Cardinality(S) + 1
<1>1. /\ IsFiniteSet(S \cup {x}) /\ Cardinality(S) \in Nat
      /\ Cardinality(S \cup {x}) \in {Cardinality(S), Cardinality(S) + 1}
  BY FS_AddElement, FS_CardinalityType
<1>2. IsFiniteSet(T) /\ Cardinality(T) \in Nat /\ Cardinality(T) <= Cardinality(S \cup {x})
  BY <1>1, SubsetCard
<1> QED BY <1>1, <1>2

\* and in a set without one of its members.
LEMMA OneLessCard ==
    ASSUME NEW S, IsFiniteSet(S), NEW x \in S, NEW T, T \subseteq S \ {x}
    PROVE  /\ IsFiniteSet(T) /\ Cardinality(T) \in Nat /\ Cardinality(S) \in Nat
           /\ Cardinality(T) <= Cardinality(S) - 1
<1>1. /\ IsFiniteSet(S \ {x}) /\ Cardinality(S) \in Nat
      /\ Cardinality(S \ {x}) = Cardinality(S) - 1
  BY FS_RemoveElement, FS_CardinalityType
<1>2. IsFiniteSet(T) /\ Cardinality(T) \in Nat /\ Cardinality(T) <= Cardinality(S \ {x})
  BY <1>1, SubsetCard
<1> QED BY <1>1, <1>2

\* The ways a step can be paid for.
LEMMA NothingWasted ==
    ASSUME Accounts, faults \in Nat, faults' \in Nat, faults' >= faults,
           Wasted' \subseteq Wasted, Warned' \subseteq Warned
    PROVE  Accounts'
<1>1. /\ IsFiniteSet(Wasted') /\ Cardinality(Wasted') \in Nat /\ Cardinality(Wasted) \in Nat
      /\ Cardinality(Wasted') <= Cardinality(Wasted)
  BY SubsetCard DEF Accounts
<1>2. /\ IsFiniteSet(Warned') /\ Cardinality(Warned') \in Nat /\ Cardinality(Warned) \in Nat
      /\ Cardinality(Warned') <= Cardinality(Warned)
  BY SubsetCard DEF Accounts
<1> QED BY <1>1, <1>2 DEF Accounts

\* A fault pays for one submission lost now,
LEMMA PaidByFault ==
    ASSUME Accounts, faults \in Nat, faults' = faults + 1, NEW s,
           Wasted' \subseteq Wasted \cup {s}, Warned' \subseteq Warned
    PROVE  Accounts'
<1>1. /\ IsFiniteSet(Wasted') /\ Cardinality(Wasted') \in Nat /\ Cardinality(Wasted) \in Nat
      /\ Cardinality(Wasted') <= Cardinality(Wasted) + 1
  BY OneMoreCard DEF Accounts
<1>2. /\ IsFiniteSet(Warned') /\ Cardinality(Warned') \in Nat /\ Cardinality(Warned) \in Nat
      /\ Cardinality(Warned') <= Cardinality(Warned)
  BY SubsetCard DEF Accounts
<1> QED BY <1>1, <1>2 DEF Accounts

\* or for one that a signalled worker may lose later;
LEMMA PaidInAdvance ==
    ASSUME Accounts, faults \in Nat, faults' = faults + 1, NEW w,
           Wasted' \subseteq Wasted, Warned' \subseteq Warned \cup {w}
    PROVE  Accounts'
<1>1. /\ IsFiniteSet(Wasted') /\ Cardinality(Wasted') \in Nat /\ Cardinality(Wasted) \in Nat
      /\ Cardinality(Wasted') <= Cardinality(Wasted)
  BY SubsetCard DEF Accounts
<1>2. /\ IsFiniteSet(Warned') /\ Cardinality(Warned') \in Nat /\ Cardinality(Warned) \in Nat
      /\ Cardinality(Warned') <= Cardinality(Warned) + 1
  BY OneMoreCard DEF Accounts
<1> QED BY <1>1, <1>2 DEF Accounts

\* then its loss costs nothing more.
LEMMA PaidBySignal ==
    ASSUME Accounts, faults \in Nat, faults' = faults, NEW w \in Warned, NEW s,
           Wasted' \subseteq Wasted \cup {s}, Warned' \subseteq Warned \ {w}
    PROVE  Accounts'
<1>1. /\ IsFiniteSet(Wasted') /\ Cardinality(Wasted') \in Nat /\ Cardinality(Wasted) \in Nat
      /\ Cardinality(Wasted') <= Cardinality(Wasted) + 1
  BY OneMoreCard DEF Accounts
<1>2. /\ IsFiniteSet(Warned') /\ Cardinality(Warned') \in Nat /\ Cardinality(Warned) \in Nat
      /\ Cardinality(Warned') <= Cardinality(Warned) - 1
  BY OneLessCard DEF Accounts
<1> QED BY <1>1, <1>2 DEF Accounts

\* What a step of a worker can add to the losses: what it holds, or what it takes.
LEMMA LostByMove ==
    ASSUME IInv, IInv', NEW w \in Worker, WorkerStep(w)
    PROVE  /\ \E s : Lost' \subseteq Lost \cup {s}
           /\ Keeps => Lost' \subseteq Lost
           /\ Drops(w) => Lost' \subseteq Lost \cup {job[w]}
           /\ Publishes(w) => Lost' \subseteq Lost
           /\ \A s \in Submission : Takes(w, s) /\ job' = [job EXCEPT ![w] = s] => Lost' \subseteq Lost
<1> USE TaskQueueAssumption
<1>1. TypeOK /\ HoldsJob
  BY DEF IInv
<1>2. Pushed' = Pushed
  BY Places
<1>3. Keeps => Lost' \subseteq Lost
  BY DEF Keeps, Lost, Pushed, Queued, Grading, Reported
<1>4. ASSUME Drops(w)
      PROVE  Lost' \subseteq Lost \cup {job[w]}
  <2>1. \A s \in Grading : s # job[w] => s \in Grading'
    <3> SUFFICES ASSUME NEW s \in Grading, s # job[w]
                 PROVE  s \in Grading'
      OBVIOUS
    <3>1. PICK v \in Worker : job[v] = s
      BY DEF Grading
    <3>2. v # w /\ job'[v] = s
      BY <1>1, <1>4, <3>1 DEF Drops, TypeOK
    <3> QED BY <3>2 DEF Grading
  <2>2. Queued' = Queued /\ Reported' = Reported
    BY <1>4 DEF Drops, Queued, Reported
  <2> QED BY <1>2, <2>1, <2>2 DEF Lost
<1>5. ASSUME Publishes(w)
      PROVE  Lost' \subseteq Lost
  <2>1. job[w] \in Submission
    BY <1>1, <1>5 DEF Publishes, HoldsJob, Held, TypeOK
  <2>2. job[w] \in Reported'
    <3>1. reports[job[w]] \in Seq(Verdict)
      BY <1>1, <2>1 DEF TypeOK
    <3>2. Append(reports[job[w]], result[w]) # <<>>
      BY <3>1
    <3>3. reports'[job[w]] = Append(reports[job[w]], result[w])
      BY <1>1, <1>5, <2>1 DEF Publishes, Deliver, TypeOK
    <3> QED BY <2>1, <3>2, <3>3 DEF Reported
  <2>3. \A s \in Reported : s \in Reported'
    <3>1. \A s \in Submission : s # job[w] => reports'[s] = reports[s]
      BY <1>1, <1>5 DEF Publishes, Deliver, TypeOK
    <3> QED BY <2>2, <3>1 DEF Reported
  <2>4. \A s \in Grading : s # job[w] => s \in Grading'
    <3> SUFFICES ASSUME NEW s \in Grading, s # job[w]
                 PROVE  s \in Grading'
      OBVIOUS
    <3>1. PICK v \in Worker : job[v] = s
      BY DEF Grading
    <3>2. v # w /\ job'[v] = s
      BY <1>1, <1>5, <3>1 DEF Publishes, TypeOK
    <3> QED BY <3>2 DEF Grading
  <2>5. Queued' = Queued
    BY <1>5 DEF Publishes, Queued
  <2> QED BY <1>2, <2>2, <2>3, <2>4, <2>5 DEF Lost
<1>6. ASSUME NEW s \in Submission, Takes(w, s)
      PROVE  /\ Lost' \subseteq Lost \cup {s}
             /\ job' = [job EXCEPT ![w] = s] => Lost' \subseteq Lost
  <2>1. job[w] = NoJob
    BY <1>1, <1>6 DEF Takes, HoldsJob, Held
  <2>2. \A v \in Worker : v # w => job'[v] = job[v]
    BY <1>1, <1>6 DEF Takes, TypeOK
  <2>3. Grading \subseteq Grading'
    BY <2>1, <2>2 DEF Grading
  <2>4. Queued \subseteq Queued' \cup {s} /\ Reported' = Reported
    BY <1>6 DEF Takes, Reported
  <2>5. job' = [job EXCEPT ![w] = s] => s \in Grading'
    BY <1>1 DEF Grading, TypeOK
  <2> QED BY <1>2, <2>3, <2>4, <2>5 DEF Lost
<1>7. \E s : Lost' \subseteq Lost \cup {s}
  BY <1>1, <1>3, <1>4, <1>5, <1>6, Moves
<1> QED BY <1>3, <1>4, <1>5, <1>6, <1>7

\* A worker that holds nothing, or something that cannot be graded, loses nothing.
LEMMA FreeDrop ==
    ASSUME IInv, IInv', NEW w \in Worker, WorkerStep(w), Drops(w),
           job[w] \in Ungradable \cup {NoJob}
    PROVE  Wasted' \subseteq Wasted
<1>1. Lost' \subseteq Lost \cup {job[w]}
  BY LostByMove
<1>2. NoJob \notin Submission
  BY TaskQueueAssumption
<1>3. Lost' \subseteq Submission
  BY DEF Lost, Pushed
<1> QED BY <1>1, <1>2, <1>3 DEF Wasted, Ungradable

\* The loop of fetch_submission loses what a warned worker has just taken.
LEMMA FetchAccounts ==
    ASSUME IInv, IInv', Accounts, NEW w \in Worker, Start(w) \/ Fetch(w)
    PROVE  Accounts'
<1> USE TaskQueueAssumption
<1>1. TypeOK /\ HoldsJob /\ faults \in Nat /\ WorkerStep(w)
  BY DEF IInv, TypeOK, WorkerStep
<1>2. faults' = faults
  BY DEF Fetch, Start, Quit, PreCheck, GetSet, Pop, PollEmpty, Reconnect, DropPopped, ZRem
<1>3. Warned' \subseteq Warned
  BY <1>1 DEF Fetch, Start, Quit, PreCheck, GetSet, Pop, PollEmpty, Reconnect, DropPopped, ZRem,
              Exit, Warned, TypeOK
<1>4. CASE DropPopped(w)
  <2>1. w \in Warned /\ Warned' \subseteq Warned \ {w} /\ Drops(w)
    BY <1>1, <1>4 DEF DropPopped, Exit, Warned, Drops, TypeOK
  <2>2. Wasted' \subseteq Wasted \cup {job[w]}
    BY <1>1, <2>1, LostByMove DEF Wasted, Ungradable
  <2> QED BY <1>1, <1>2, <2>1, <2>2, PaidBySignal
<1>5. CASE ~DropPopped(w)
  <2>1. CASE Keeps
    BY <1>1, <1>2, <1>3, <2>1, LostByMove, NothingWasted DEF Wasted, Ungradable
  <2>2. CASE Pop(w)
    <3>1. \E s \in Submission : Takes(w, s) /\ job' = [job EXCEPT ![w] = s]
      <4>1. PICK l \in Level : /\ Served(l)
                              /\ job' = [job EXCEPT ![w] = Head(queue[l])]
                              /\ queue' = [queue EXCEPT ![l] = Tail(queue[l])]
        BY <2>2 DEF Pop
      <4>2. pc[w] = "pop" /\ UNCHANGED <<client, reports>>
        BY <2>2 DEF Pop
      <4> QED BY <1>1, <4>1, <4>2, PopTakes
    <3>2. Lost' \subseteq Lost
      BY <1>1, <3>1, LostByMove
    <3> QED BY <1>1, <1>2, <1>3, <3>2, NothingWasted DEF Wasted, Ungradable
  <2>3. CASE Drops(w) /\ pc[w] \notin Held
    <3>1. job[w] = NoJob
      BY <1>1, <2>3 DEF HoldsJob
    <3> QED BY <1>1, <1>2, <1>3, <2>3, <3>1, FreeDrop, NothingWasted
  <2>4. Keeps \/ Pop(w) \/ (Drops(w) /\ pc[w] \notin Held)
    BY <1>5 DEF Fetch, Start, Quit, PreCheck, GetSet, PollEmpty, Reconnect, ZRem, redis,
                Keeps, Drops, Exit, Held
  <2> QED BY <2>1, <2>2, <2>3, <2>4
<1> QED BY <1>4, <1>5

\* process_submission loses only what cannot be graded, since all the files of a
\* submission are stored until its worker has them.
LEMMA ProcessAccounts ==
    ASSUME IInv, IInv', Stored, Accounts, NEW w \in Worker, Process(w)
    PROVE  Accounts'
<1> USE TaskQueueAssumption
<1>1. TypeOK /\ HoldsJob /\ faults \in Nat /\ faults' \in Nat /\ WorkerStep(w)
  BY DEF IInv, TypeOK, WorkerStep
<1>2. faults' >= faults
  <2>1. faults' = faults \/ faults' = faults + 1
    BY DEF Process, Prepare, recreate_workdir, Download, Compile, Test, AnnounceTest, Done, Publish,
           report_status, NoFault, Fault
  <2> QED BY <1>1, <2>1
<1>3. Warned' \subseteq Warned
  BY <1>1 DEF Process, Prepare, recreate_workdir, Download, Compile, Test, Done,
              Publish, InternalError, Exit,
              Warned, TypeOK
<1>4. CASE Keeps \/ Publishes(w)
  BY <1>1, <1>2, <1>3, <1>4, LostByMove, NothingWasted DEF Wasted, Ungradable
<1>5. CASE Drops(w) /\ job[w] \in Ungradable
  BY <1>1, <1>2, <1>3, <1>5, FreeDrop, NothingWasted
<1>6. CASE Prepare(w)
  BY <1>4, <1>5, <1>6 DEF Prepare, recreate_workdir, InternalError, Exit, Keeps, Drops, Ungradable
<1>7. CASE Download(w)
  <2>1. CASE hash[job[w]] = {}
    <3>1. job[w] \in Submission /\ pc[w] = "download"
      BY <1>1, <1>7 DEF Download, HoldsJob, Held, TypeOK
    <3>2. ToDownload(job[w])
      BY <3>1 DEF ToDownload, Early
    <3>3. FilesOf[job[w]] = {}
      BY <2>1, <3>1, <3>2 DEF Stored
    <3> QED BY <1>5, <1>7, <2>1, <3>1, <3>3 DEF Download, Exit, Drops, Ungradable
  <2>2. CASE hash[job[w]] # {}
    BY <1>4, <1>7, <2>2 DEF Download, Keeps
  <2> QED BY <2>1, <2>2
<1>8. CASE Compile(w) \/ Test(w) \/ Done(w) \/ Publish(w)
  BY <1>4, <1>8 DEF Compile, Test, Done, Publish, InternalError, Keeps, Publishes, redis
<1> QED BY <1>6, <1>7, <1>8 DEF Process

\* A fault loses one submission at most, or warns one worker.
LEMMA MishapAccounts ==
    ASSUME IInv, IInv', Accounts, NEW w \in Worker, Mishap(w)
    PROVE  Accounts'
<1> USE TaskQueueAssumption
<1>1. TypeOK /\ HoldsJob /\ faults \in Nat /\ WorkerStep(w)
  BY DEF IInv, TypeOK, WorkerStep
<1>2. faults' = faults + 1
  BY DEF Mishap, StartLost, ConnectionLost, Signal, Crash, DropFatal, Fault
<1>3. CASE Signal(w)
  <2>1. Keeps /\ Warned' \subseteq Warned \cup {w}
    BY <1>1, <1>3 DEF Signal, Keeps, redis, Warned, TypeOK
  <2> QED BY <1>1, <1>2, <2>1, LostByMove, PaidInAdvance DEF Wasted, Ungradable
<1>4. CASE ~Signal(w)
  <2>1. Warned' \subseteq Warned
    BY <1>1, <1>4 DEF Mishap, StartLost, ConnectionLost, Crash, DropFatal, Exit, local, Warned, TypeOK
  <2>2. PICK s : Lost' \subseteq Lost \cup {s}
    BY <1>1, LostByMove
  <2>3. Wasted' \subseteq Wasted \cup {s}
    BY <2>2 DEF Wasted, Ungradable
  <2> QED BY <1>1, <1>2, <2>1, <2>3, PaidByFault
<1> QED BY <1>3, <1>4

\* Losses and warnings are paid for in every reachable state.
LEMMA AccountsInvariance == Spec => []Accounts
<1>1. Init => Accounts
  <2> SUFFICES ASSUME Init
               PROVE  Accounts
    OBVIOUS
  <2>1. Wasted = {} /\ Warned = {} /\ faults = 0
    BY DEF Init, Wasted, Lost, Pushed, Warned
  <2> QED BY <2>1, FS_EmptySet DEF Accounts
<1>2. IInv /\ IInv' /\ Stored /\ Accounts /\ [Next]_vars => Accounts'
  <2> SUFFICES ASSUME IInv, IInv', Stored, Accounts, [Next]_vars
               PROVE  Accounts'
    OBVIOUS
  <2>1. faults \in Nat
    BY TaskQueueAssumption DEF IInv, TypeOK
  <2>2. CASE UNCHANGED vars
    BY <2>2 DEF vars, redis, local, Accounts, Wasted, Warned, Lost, Pushed, Queued, Grading,
                Reported, Ungradable
  <2>3. ASSUME NEW s \in Submission, ClientStep(s)
        PROVE  Accounts'
    <3>1. Wasted' = Wasted /\ Warned' = Warned /\ faults' = faults
      BY <2>3, ClientPlaces DEF Wasted, Ungradable, Warned
    <3> QED BY <2>1, <3>1, NothingWasted
  <2> QED BY <2>2, <2>3, FetchAccounts, ProcessAccounts, MishapAccounts DEF Next
<1> QED BY Invariance, StoredInvariance, <1>1, <1>2, PTL DEF Spec

\* Every crash, lost connection or signal loses at most one submission that could
\* be graded, for any number of workers, whatever names they share and in
\* whatever order the faults come.
THEOREM LossBoundedThm == Spec => []LossBounded
<1>1. IInv /\ Accounts => LossBounded
  <2> SUFFICES ASSUME IInv, Accounts
               PROVE  LossBounded
    OBVIOUS
  <2>1. faults \in Nat /\ Cardinality(Wasted) \in Nat /\ Cardinality(Warned) \in Nat
    BY FS_CardinalityType, TaskQueueAssumption DEF IInv, TypeOK, Accounts
  <2> QED BY <2>1 DEF Accounts, LossBounded, Wasted
<1> QED BY Invariance, AccountsInvariance, <1>1, PTL

-----------------------------------------------------------------------------
(* The status "done".                                                      *)

Good == {"ok", "compile_error"}

\* A worker about to announce the end has a verdict that stands, and what was
\* announced is out of the queue.
Announced ==
    /\ DoneMeansGraded
    /\ \A w \in Worker : pc[w] = "done" => result[w] \in Good
    /\ \A s \in Submission : status[s].stage = "done" => s \in Pushed /\ s \notin Queued

\* A worker writes the status of what it holds, and "done" at one place only.
LEMMA StatusWritten ==
    ASSUME TypeOK, HoldsJob, NEW w \in Worker, WorkerStep(w)
    PROVE  /\ \A s \in Submission : s # job[w] => status'[s] = status[s]
           /\ \A s \in Submission :
                 status'[s].stage = "done" => status[s].stage = "done" \/ Done(w)
<1>1. CASE UNCHANGED status
  BY <1>1
<1>2. ASSUME NEW stage, NEW progress, report_status(job[w], stage, progress),
             stage = "done" => Done(w)
      PROVE  /\ \A s \in Submission : s # job[w] => status'[s] = status[s]
             /\ \A s \in Submission :
                   status'[s].stage = "done" => status[s].stage = "done" \/ Done(w)
  <2>1. \/ status' = status
        \/ status' = [status EXCEPT ![job[w]] = [stage |-> stage, progress |-> progress]]
    BY <1>2 DEF report_status
  <2>2. CASE status' = status
    BY <2>2
  <2>3. CASE status' = [status EXCEPT ![job[w]] = [stage |-> stage, progress |-> progress]]
    <3>1. \A s \in Submission :
             status'[s] = IF s = job[w] THEN [stage |-> stage, progress |-> progress] ELSE status[s]
      BY <2>3 DEF TypeOK
    <3> QED BY <1>2, <3>1
  <2> QED BY <2>1, <2>2, <2>3
<1>3. CASE Start(w) \/ Fetch(w) \/ Mishap(w)
  <2>1. UNCHANGED status
    BY <1>3 DEF Start, Fetch, Quit, PreCheck, GetSet, Pop, PollEmpty, Reconnect, DropPopped, ZRem,
                Mishap, StartLost, ConnectionLost, Signal, Crash, DropFatal, redis
  <2> QED BY <1>1, <2>1
<1>4. CASE Process(w)
  <2>1. CASE Prepare(w)
    BY <1>2, <2>1 DEF Prepare, recreate_workdir
  <2>2. CASE Compile(w)
    BY <1>2, <2>2 DEF Compile
  <2>3. CASE Test(w)
    BY <1>2, <2>3 DEF Test, AnnounceTest
  <2>4. CASE Done(w)
    <3>1. report_status(job[w], "done", 100)
      BY <2>4 DEF Done
    <3> QED BY <1>2, <2>4, <3>1
  <2>5. CASE Download(w) \/ Publish(w)
    BY <1>1, <2>5 DEF Download, Publish, redis
  <2> QED BY <1>4, <2>1, <2>2, <2>3, <2>4, <2>5 DEF Process
<1> QED BY <1>3, <1>4 DEF WorkerStep

\* What a worker that stays at "publish" has, and where its verdict came from.
LEMMA VerdictKept ==
    ASSUME TypeOK, HoldsJob, NEW w \in Worker, WorkerStep(w)
    PROVE  /\ pc[w] = "publish" => \/ job'[w] = NoJob
                                   \/ pc'[w] = "publish" /\ result'[w] = result[w]
           /\ pc'[w] = "done" => result'[w] \in Good \/ (pc[w] = "done" /\ result'[w] = result[w])
           /\ Done(w) => pc[w] = "done" /\ pc'[w] = "publish" /\ result' = result /\ job' = job
           /\ job'[w] \notin {job[w], NoJob} => pc'[w] = "popped"
<1> DEFINE Stays == pc[w] = "publish" => \/ job'[w] = NoJob
                                         \/ pc'[w] = "publish" /\ result'[w] = result[w]
           Ends == pc'[w] = "done" => result'[w] \in Good \/ (pc[w] = "done" /\ result'[w] = result[w])
           Picks == job'[w] \notin {job[w], NoJob} => pc'[w] = "popped"
<1>1. CASE Exit(w)
  <2>1. job'[w] = NoJob /\ pc'[w] = "off"
    BY <1>1 DEF Exit, Goto, TypeOK
  <2>2. ~Done(w)
    BY <2>1 DEF Done, Goto, TypeOK
  <2> QED BY <2>1, <2>2
<1>2. CASE ~Exit(w) /\ (Start(w) \/ Fetch(w))
  <2>1. pc[w] # "publish" /\ pc'[w] # "done"
    BY <1>2 DEF Start, Fetch, Quit, PreCheck, GetSet, Pop, PollEmpty, Reconnect, DropPopped, ZRem,
                Goto, TypeOK
  <2>2. Picks
    BY <1>2 DEF Start, Fetch, Quit, PreCheck, GetSet, Pop, PollEmpty, Reconnect, DropPopped, ZRem,
                Goto, TypeOK
  <2>3. ~Done(w)
    BY <1>2 DEF Start, Fetch, Quit, PreCheck, GetSet, Pop, PollEmpty, Reconnect, DropPopped, ZRem,
                Done
  <2> QED BY <2>1, <2>2, <2>3
<1>3. CASE ~Exit(w) /\ Process(w)
  <2>1. CASE Prepare(w) \/ Download(w) \/ Compile(w) \/ Test(w)
    <3>1. pc[w] \notin {"publish", "done"} /\ job' = job
      BY <1>3, <2>1 DEF Prepare, recreate_workdir, Download, Compile, Test, InternalError
    <3>2. Ends
      BY <1>3, <2>1 DEF Prepare, recreate_workdir, Download, Compile, Test,
                        InternalError, Goto, Good, TypeOK
    <3> QED BY <3>1, <3>2 DEF Done
  <2>2. CASE Done(w)
    BY <2>2 DEF Done, Goto, TypeOK
  <2>3. CASE Publish(w)
    <3>1. pc[w] = "publish" /\ pc'[w] = "get" /\ job'[w] = NoJob
      BY <2>3 DEF Publish, Goto, TypeOK
    <3>2. ~Done(w)
      BY <3>1 DEF Done
    <3> QED BY <3>1, <3>2
  <2> QED BY <1>3, <2>1, <2>2, <2>3 DEF Process
<1>4. CASE ~Exit(w) /\ Mishap(w)
  <2>1. CASE Signal(w)
    BY <2>1 DEF Signal, Done, Goto, TypeOK
  <2>2. CASE StartLost(w) \/ ConnectionLost(w)
    <3>1. pc[w] \notin {"publish", "done"} /\ pc'[w] # "done" /\ job' = job
      BY <2>2 DEF StartLost, ConnectionLost, Goto, local, TypeOK
    <3> QED BY <3>1 DEF Done
  <2> QED BY <1>4, <2>1, <2>2 DEF Mishap, Crash, DropFatal
<1> QED BY <1>1, <1>2, <1>3, <1>4 DEF WorkerStep

\* A worker's step keeps what is known of announced submissions.
LEMMA WorkerAnnounced ==
    ASSUME IInv, IInv', Announced, NEW w \in Worker, WorkerStep(w)
    PROVE  Announced'
<1> USE TaskQueueAssumption
<1>1. TypeOK /\ HoldsJob /\ OthersStay(w)
  BY OthersStayLemma DEF IInv
<1>2. \A v \in Worker : pc'[v] = "done" => result'[v] \in Good
  BY <1>1, VerdictKept DEF Announced, OthersStay
<1>3. \A s \in Submission : status[s].stage = "done" =>
         \A v \in Worker : job'[v] = s => pc'[v] = "publish" /\ result'[v] \in Good
  <2> SUFFICES ASSUME NEW s \in Submission, status[s].stage = "done",
                      NEW v \in Worker, job'[v] = s
               PROVE  pc'[v] = "publish" /\ result'[v] \in Good
    OBVIOUS
  <2>1. CASE v # w
    BY <1>1, <2>1 DEF OthersStay, Announced, DoneMeansGraded, Good
  <2>2. CASE v = w
    <3>1. s # NoJob /\ s \notin Queued
      BY DEF Announced
    <3>2. job[w] = s
      BY <2>2, <3>1, Places
    <3>3. pc[w] = "publish" /\ result[w] \in Good
      BY <3>2 DEF Announced, DoneMeansGraded, Good
    <3> QED BY <1>1, <2>2, <3>1, <3>3, VerdictKept
  <2> QED BY <2>1, <2>2
<1>4. \A s \in Submission : status[s].stage = "done" /\ s \in Reported' => Head(reports'[s]) # "internal_error"
  <2> SUFFICES ASSUME NEW s \in Submission, status[s].stage = "done", s \in Reported'
               PROVE  Head(reports'[s]) # "internal_error"
    OBVIOUS
  <2>1. CASE reports'[s] = reports[s]
    BY <2>1 DEF Announced, DoneMeansGraded, Reported
  <2>2. CASE reports'[s] # reports[s]
    <3>1. Publishes(w)
      BY <1>1, <2>2, Moves DEF Keeps, Drops, Takes
    <3>2. s = job[w]
      BY <1>1, <2>2, <3>1 DEF Publishes, Deliver, TypeOK
    <3>3. s \notin Reported
      BY <3>2 DEF IInv, OnePlace, Grading
    <3>4. reports[s] = <<>>
      BY <3>3 DEF Reported
    <3>5. reports'[s] = Append(<<>>, result[w])
      BY <1>1, <3>1, <3>2, <3>4 DEF Publishes, Deliver, TypeOK
    <3>6. Head(reports'[s]) = result[w]
      BY <3>5
    <3>7. result[w] \in Good
      BY <3>2 DEF Announced, DoneMeansGraded, Good
    <3> QED BY <3>6, <3>7 DEF Good
  <2> QED BY <2>1, <2>2
<1>5. \A s \in Submission : status[s].stage = "done" => s \in Pushed' /\ s \notin Queued'
  BY Places DEF Announced
<1>6. ASSUME NEW s \in Submission, status'[s].stage = "done", status[s].stage # "done"
      PROVE  /\ \A v \in Worker : job'[v] = s => pc'[v] = "publish" /\ result'[v] \in Good
             /\ s \notin Reported' /\ s \in Pushed' /\ s \notin Queued'
  <2>1. Done(w) /\ s = job[w]
    BY <1>1, <1>6, StatusWritten
  <2>2. pc[w] = "done" /\ pc'[w] = "publish" /\ result' = result /\ job' = job
    BY <1>1, <2>1, VerdictKept
  <2>3. s \in Grading /\ Reported' = Reported
    BY <2>1 DEF Grading, Done, Reported
  <2>4. s \notin Reported /\ s \notin Queued /\ s \in Pushed
    BY <2>3 DEF IInv, OnePlace, UnpushedNowhere
  <2>5. \A v \in Worker : job[v] = s => v = w
    BY <2>1 DEF IInv, OnePlace
  <2>6. result[w] \in Good
    BY <2>2 DEF Announced
  <2> QED BY <2>1, <2>2, <2>3, <2>4, <2>5, <2>6, Places
<1>7. DoneMeansGraded'
  <2> SUFFICES ASSUME NEW s \in Submission, status'[s].stage = "done"
               PROVE  /\ \A v \in Worker : job'[v] = s => pc'[v] = "publish" /\ result'[v] \in Good
                      /\ s \in Reported' => Head(reports'[s]) # "internal_error"
    BY DEF DoneMeansGraded, Good
  <2> QED BY <1>3, <1>4, <1>6
<1>8. \A s \in Submission : status'[s].stage = "done" => s \in Pushed' /\ s \notin Queued'
  BY <1>5, <1>6
<1> QED BY <1>2, <1>7, <1>8 DEF Announced

\* "done" is announced only for a submission whose verdict stands, and never for
\* an internal error (worker.py), whatever faults come between the writes.
THEOREM DoneMeansGradedThm == Spec => []DoneMeansGraded
<1>1. Init => Announced
  BY DEF Init, Announced, DoneMeansGraded
<1>2. IInv /\ IInv' /\ Announced /\ [Next]_vars => Announced'
  <2> SUFFICES ASSUME IInv, IInv', Announced, [Next]_vars
               PROVE  Announced'
    OBVIOUS
  <2>1. CASE UNCHANGED vars
    BY <2>1 DEF vars, redis, local, Announced, DoneMeansGraded, Pushed, Queued, Reported
  <2>2. ASSUME NEW s \in Submission, ClientStep(s)
        PROVE  Announced'
    <3>1. /\ UNCHANGED <<pc, job, result, reports, status>> /\ Reported' = Reported
          /\ Pushed \subseteq Pushed'
          /\ Queued' \subseteq Queued \cup {t \in Submission : client[t] = "listed"}
      BY <2>2, ClientPlaces
    <3>2. \A t \in Submission : t \in Pushed /\ t \notin Queued => t \in Pushed' /\ t \notin Queued'
      BY <3>1 DEF Pushed
    <3> QED BY <3>1, <3>2 DEF Announced, DoneMeansGraded
  <2> QED BY <2>1, <2>2, WorkerAnnounced DEF Next, WorkerStep
<1>3. Announced => DoneMeansGraded
  BY DEF Announced
<1> QED BY Invariance, <1>1, <1>2, <1>3, PTL DEF Spec

-----------------------------------------------------------------------------
(* The sorted set that dump_queue.py prints.                               *)

\* A client lists what it is about to queue.
Indexed ==
    /\ OrderIndexesQueue
    /\ \A s \in Submission : client[s] = "listed" => s \in order[LevelOf[s]]

Removed(s) == [order EXCEPT ![LevelOf[s]] = @ \ {s}]

\* ZREM takes one submission out of the order and no other.
LEMMA RemovedIs ==
    ASSUME TypeOK, NEW s \in Submission, order' = Removed(s)
    PROVE  \A t \in Submission : t \in order'[LevelOf[t]] <=> t # s /\ t \in order[LevelOf[t]]
<1> DEFINE L == LevelOf[s]
<1>1. L \in Level /\ \A t \in Submission : LevelOf[t] \in Level
  BY TaskQueueAssumption
<1>2. \A l \in Level : order'[l] = IF l = L THEN order[l] \ {s} ELSE order[l]
  BY <1>1 DEF TypeOK, Removed
<1> HIDE DEF L
<1>3. \A t \in Submission : LevelOf[t] # L => t # s
  BY DEF L
<1> QED BY <1>1, <1>2, <1>3

\* A worker removes from the order what it has popped, when it stops to be so.
LEMMA OrderMoves ==
    ASSUME TypeOK, NEW w \in Worker, WorkerStep(w)
    PROVE  order' = order \/ (pc[w] = "popped" /\ order' = Removed(job[w]))
<1>1. CASE Start(w) \/ Fetch(w)
  BY <1>1 DEF Start, Fetch, Quit, PreCheck, GetSet, Pop, PollEmpty, Reconnect, DropPopped, ZRem,
              redis, Removed
<1>2. CASE Process(w)
  BY <1>2 DEF Process, Prepare, recreate_workdir, Download, Compile, Test, Done, Publish, redis
<1>3. CASE Mishap(w)
  BY <1>3 DEF Mishap, StartLost, ConnectionLost, Signal, Crash, DropFatal, redis, Removed
<1> QED BY <1>1, <1>2, <1>3 DEF WorkerStep

\* A submission just popped stays in the order only while it is in this hand.
LEMMA PoppedStays ==
    ASSUME TypeOK, HoldsJob, NEW w \in Worker, WorkerStep(w), pc[w] = "popped", order' = order
    PROVE  \/ pc'[w] = "popped" /\ job' = job
           \/ Drops(w)
           \/ job[w] \notin order[LevelOf[job[w]]]
<1>1. CASE Start(w) \/ Fetch(w)
  <2>1. CASE ZRem(w)
    <3>1. order' = Removed(job[w])
      BY <2>1 DEF ZRem, Removed
    <3>2. job[w] \in Submission
      BY DEF HoldsJob, Held, TypeOK
    <3> QED BY <3>1, <3>2, RemovedIs
  <2>2. CASE ~ZRem(w)
    BY <1>1, <2>2 DEF Start, Fetch, Quit, PreCheck, GetSet, Pop, PollEmpty, Reconnect, DropPopped,
                      Exit, Drops
  <2> QED BY <2>1, <2>2
<1>2. CASE Process(w)
  BY <1>2 DEF Process, Prepare, recreate_workdir, Download, Compile, Test, Done, Publish
<1>3. CASE Mishap(w)
  BY <1>3 DEF Mishap, StartLost, ConnectionLost, Signal, Crash, DropFatal, redis, Exit, Drops
<1> QED BY <1>1, <1>2, <1>3 DEF WorkerStep

\* A worker's step keeps the order an index of the queue,
LEMMA WorkerIndexed ==
    ASSUME IInv, IInv', Indexed, NEW w \in Worker, WorkerStep(w)
    PROVE  Indexed'
<1> USE TaskQueueAssumption
<1>1. TypeOK /\ HoldsJob /\ OthersStay(w)
  BY OthersStayLemma DEF IInv
<1>2. pc[w] = "popped" => job[w] \in Grading /\ job[w] \in Submission
  BY DEF IInv, HoldsJob, Held, TypeOK, Grading
<1>3. \A s \in Submission : s # job[w] => (s \in order'[LevelOf[s]] <=> s \in order[LevelOf[s]])
  BY <1>1, <1>2, OrderMoves, RemovedIs
<1>4. \A s \in Submission : s \in order'[LevelOf[s]] => s \in order[LevelOf[s]]
  BY <1>1, <1>2, OrderMoves, RemovedIs
<1>5. \A s \in Submission : s \in Queued' \/ client'[s] = "listed" => s \in order'[LevelOf[s]]
  <2> SUFFICES ASSUME NEW s \in Submission, s \in Queued' \/ client'[s] = "listed"
               PROVE  s \in order'[LevelOf[s]]
    OBVIOUS
  <2>1. s \in Queued \/ client[s] = "listed"
    BY Places
  <2>2. s \notin Grading
    BY <2>1 DEF IInv, OnePlace, UnpushedNowhere, Pushed
  <2>3. s \in order[LevelOf[s]]
    BY <2>1 DEF Indexed, OrderIndexesQueue, Printed
  <2>4. CASE order' = order
    BY <2>3, <2>4
  <2>5. CASE pc[w] = "popped"
    BY <1>2, <1>3, <2>2, <2>3, <2>5
  <2> QED BY <1>1, <2>4, <2>5, OrderMoves
<1>6. ASSUME NEW s \in Submission, s \in Queued, s \notin Queued'
      PROVE  s \in Lost' \/ (job'[w] = s /\ pc'[w] = "popped")
  <2>1. PICK t \in Submission : Takes(w, t)
    BY <1>1, <1>6, Moves DEF Keeps, Drops, Publishes, Queued
  <2>2. s = t
    BY <1>6, <2>1 DEF Takes
  <2>3. s \notin Grading /\ s \notin Reported /\ s \in Pushed
    BY <1>6 DEF IInv, OnePlace, UnpushedNowhere
  <2>4. CASE job' = job
    <3>1. Grading' = Grading /\ Reported' = Reported /\ Pushed' = Pushed
      BY <2>1, <2>4 DEF Takes, Grading, Reported, Pushed
    <3> QED BY <1>6, <2>3, <3>1 DEF Lost
  <2>5. CASE job'[w] = s
    BY <1>1, <2>3, <2>5, VerdictKept DEF Grading
  <2> QED BY <1>1, <2>1, <2>2, <2>4, <2>5 DEF Takes, TypeOK
<1>7. ASSUME NEW s \in Submission, job[w] = s, pc[w] = "popped", s \in order'[LevelOf[s]]
      PROVE  s \in Lost' \/ (job'[w] = s /\ pc'[w] = "popped")
  <2>1. order' = order
    <3>1. CASE order' = Removed(s)
      <4>1. s \notin order'[LevelOf[s]]
        BY <1>1, <3>1, RemovedIs
      <4> QED BY <1>7, <4>1
    <3> QED BY <1>1, <1>7, <3>1, OrderMoves
  <2>2. CASE Drops(w)
    <3>1. s \notin Queued /\ s \notin Reported /\ s \in Pushed
      BY <1>2, <1>7 DEF IInv, OnePlace, UnpushedNowhere
    <3>2. Queued' = Queued /\ Reported' = Reported /\ Pushed' = Pushed
      BY <2>2 DEF Drops, Queued, Reported, Pushed
    <3>3. s \notin Grading'
      <4>1. \A v \in Worker : job[v] = s => v = w
        BY <1>7 DEF IInv, OnePlace
      <4>2. \A v \in Worker : job'[v] # s
        BY <1>1, <2>2, <4>1 DEF Drops, TypeOK
      <4> QED BY <4>2 DEF Grading
    <3> QED BY <3>1, <3>2, <3>3 DEF Lost
  <2> QED BY <1>1, <1>4, <1>7, <2>1, <2>2, PoppedStays
<1>8. OrderIndexesQueue'
  <2> SUFFICES ASSUME NEW s \in Submission, s \in order'[LevelOf[s]]
               PROVE  \/ client'[s] = "listed"
                      \/ s \in Queued' \cup Lost'
                      \/ \E v \in Worker : job'[v] = s /\ pc'[v] = "popped"
    BY <1>5 DEF OrderIndexesQueue, Printed
  <2>1. \/ client[s] = "listed"
        \/ s \in Queued \cup Lost
        \/ \E v \in Worker : job[v] = s /\ pc[v] = "popped"
    BY <1>4 DEF Indexed, OrderIndexesQueue, Printed
  <2>2. CASE client[s] = "listed" \/ s \in Lost
    BY <2>2, Places
  <2>3. CASE s \in Queued
    BY <1>6, <2>3
  <2>4. ASSUME NEW v \in Worker, job[v] = s, pc[v] = "popped"
        PROVE  s \in Lost' \/ \E u \in Worker : job'[u] = s /\ pc'[u] = "popped"
    <3>1. CASE v = w
      BY <1>7, <2>4, <3>1
    <3>2. CASE v # w
      BY <1>1, <2>4, <3>2 DEF OthersStay
    <3> QED BY <3>1, <3>2
  <2> QED BY <2>1, <2>2, <2>3, <2>4
<1> QED BY <1>5, <1>8 DEF Indexed

\* and so does a client's.
LEMMA ClientIndexed ==
    ASSUME IInv, IInv', Indexed, NEW s \in Submission, ClientStep(s)
    PROVE  Indexed'
<1>1. \/ order' = order /\ \A t \in Submission : client'[t] = "listed" => client[t] = "listed"
      \/ /\ order' = [order EXCEPT ![LevelOf[s]] = @ \cup {s}]
         /\ client[s] = "upload"
         /\ client' = [client EXCEPT ![s] = "listed"]
  BY DEF ClientStep, PutFile, AddToOrder, Push, Subscribe, GiveUp, redis, IInv, TypeOK
<1>2. \A t \in Submission : t \in Queued' => t \in Queued \/ client[t] = "listed"
  BY ClientPlaces
<1>3. \/ order' = order /\ \A t \in Submission : client'[t] = "listed" => client[t] = "listed"
      \/ /\ client'[s] = "listed"
         /\ \A t \in Submission : t # s => client'[t] = client[t]
         /\ \A t \in Submission : t \in order'[LevelOf[t]] <=> t = s \/ t \in order[LevelOf[t]]
  <2>1. \A t \in Submission : LevelOf[t] \in Level
    BY TaskQueueAssumption
  <2>2. CASE order' = [order EXCEPT ![LevelOf[s]] = @ \cup {s}] /\ client' = [client EXCEPT ![s] = "listed"]
    <3> DEFINE L == LevelOf[s]
    <3>1. \A l \in Level : order'[l] = IF l = L THEN order[l] \cup {s} ELSE order[l]
      BY <2>1, <2>2 DEF IInv, TypeOK
    <3>2. client'[s] = "listed" /\ \A t \in Submission : t # s => client'[t] = client[t]
      BY <2>2 DEF IInv, TypeOK
    <3> HIDE DEF L
    <3>3. \A t \in Submission : LevelOf[t] # L => t # s
      BY DEF L
    <3>4. LevelOf[s] = L
      BY DEF L
    <3> QED BY <2>1, <3>1, <3>2, <3>3, <3>4
  <2> QED BY <1>1, <2>2
<1>4. \A t \in Submission : client'[t] = "listed" => t \in order'[LevelOf[t]]
  BY <1>3 DEF Indexed
<1>5. \A t \in Submission : t \in order'[LevelOf[t]] => t \in order[LevelOf[t]] \/ client'[t] = "listed"
  BY <1>3
<1>6. OrderIndexesQueue'
  <2> SUFFICES ASSUME NEW t \in Submission
               PROVE  /\ t \in Queued' => t \in order'[LevelOf[t]]
                      /\ t \in order'[LevelOf[t]] =>
                            \/ client'[t] = "listed"
                            \/ t \in Queued' \cup Lost'
                            \/ \E w \in Worker : job'[w] = t /\ pc'[w] = "popped"
    BY DEF OrderIndexesQueue, Printed
  <2>1. t \in Queued' => t \in order'[LevelOf[t]]
    BY <1>2, <1>3 DEF Indexed, OrderIndexesQueue, Printed
  <2>2. ASSUME t \in order[LevelOf[t]]
        PROVE  \/ client'[t] = "listed"
               \/ t \in Queued' \cup Lost'
               \/ \E w \in Worker : job'[w] = t /\ pc'[w] = "popped"
    BY <2>2, ClientPlaces DEF Indexed, OrderIndexesQueue, Printed
  <2> QED BY <1>5, <2>1, <2>2
<1> QED BY <1>4, <1>6 DEF Indexed

\* The sorted set lists every queued submission, and beside them only what is
\* about to be queued, just popped, or lost (submit.py, fetch_submission).
THEOREM OrderIndexesQueueThm == Spec => []OrderIndexesQueue
<1>1. Init => Indexed
  BY TaskQueueAssumption DEF Init, Indexed, OrderIndexesQueue, Printed, Queued
<1>2. IInv /\ IInv' /\ Indexed /\ [Next]_vars => Indexed'
  <2> SUFFICES ASSUME IInv, IInv', Indexed, [Next]_vars
               PROVE  Indexed'
    OBVIOUS
  <2>1. CASE UNCHANGED vars
    BY <2>1 DEF vars, redis, local, Indexed, OrderIndexesQueue, Printed, Queued, Lost, Pushed, Grading,
                Reported
  <2> QED BY <2>1, ClientIndexed, WorkerIndexed DEF Next, WorkerStep
<1>3. Indexed => OrderIndexesQueue
  BY DEF Indexed
<1> QED BY Invariance, <1>1, <1>2, <1>3, PTL DEF Spec

-----------------------------------------------------------------------------
(* The work directory.                                                     *)

Graded == {"compile", "test"}

\* A worker fills the directory of its own name, with what Redis has of its job.
LEMMA WorkMoves ==
    ASSUME TypeOK, NEW w \in Worker, WorkerStep(w)
    PROVE  /\ \A n \in Name \ {NameOf[w]} : work'[n] = work[n]
           /\ pc'[w] \in Graded =>
                 /\ job'[w] = job[w]
                 /\ \/ pc[w] \in Graded /\ work' = work
                    \/ pc[w] = "download" /\ work'[NameOf[w]] = {job[w]} \X hash[job[w]]
<1> USE TaskQueueAssumption
<1>1. CASE Exit(w) \/ Start(w) \/ Fetch(w)
  <2>1. pc'[w] \notin Graded
    BY <1>1 DEF Start, Fetch, Quit, PreCheck, GetSet, Pop, PollEmpty, Reconnect, DropPopped, ZRem,
                Exit, Goto, TypeOK, Graded
  <2>2. \A n \in Name \ {NameOf[w]} : work'[n] = work[n]
    BY <1>1 DEF WorkerStep, Start, Fetch, Quit, PreCheck, GetSet, Pop, PollEmpty, Reconnect,
                DropPopped, ZRem, Process, Prepare, recreate_workdir, Download,
                Compile, Test, Done, Publish,
                Mishap, StartLost, ConnectionLost, Signal, Crash, DropFatal, local, TypeOK
  <2> QED BY <2>1, <2>2
<1>2. CASE ~Exit(w) /\ Process(w)
  <2>1. CASE Prepare(w)
    BY <1>2, <2>1 DEF Prepare, recreate_workdir, InternalError, Goto, TypeOK, Graded
  <2>2. CASE Download(w)
    <3>1. /\ pc[w] = "download" /\ job' = job
          /\ work' = [work EXCEPT ![NameOf[w]] = {job[w]} \X hash[job[w]]]
      BY <1>2, <2>2 DEF Download
    <3> QED BY <3>1 DEF TypeOK
  <2>3. CASE Compile(w) \/ Test(w)
    BY <2>3 DEF Compile, Test, InternalError, Goto, TypeOK, Graded
  <2>4. CASE Done(w) \/ Publish(w)
    BY <2>4 DEF Done, Publish, Goto, TypeOK, Graded
  <2> QED BY <1>2, <2>1, <2>2, <2>3, <2>4 DEF Process
<1>3. CASE ~Exit(w) /\ Mishap(w)
  <2>1. CASE StartLost(w) \/ ConnectionLost(w)
    BY <2>1 DEF StartLost, ConnectionLost, Goto, local, TypeOK, Graded
  <2>2. CASE Signal(w)
    BY <2>2 DEF Signal
  <2> QED BY <1>3, <2>1, <2>2 DEF Mishap, Crash, DropFatal
<1> QED BY <1>1, <1>2, <1>3 DEF WorkerStep

\* Where every deployment has a name of its own, a worker compiles and tests
\* exactly the files its client uploaded, whatever its directory held before.
THEOREM OwnFilesThm ==
    ASSUME \A v, w \in Worker : NameOf[v] = NameOf[w] => v = w
    PROVE  Spec => []OwnFiles
<1> USE TaskQueueAssumption
<1>1. Init => OwnFiles
  BY DEF Init, OwnFiles
<1>2. IInv /\ IInv' /\ Stored /\ OwnFiles /\ [Next]_vars => OwnFiles'
  <2> SUFFICES ASSUME IInv, IInv', Stored, OwnFiles, [Next]_vars
               PROVE  OwnFiles'
    OBVIOUS
  <2>1. CASE UNCHANGED vars
    BY <2>1 DEF vars, local, OwnFiles
  <2>2. ASSUME NEW s \in Submission, ClientStep(s)
        PROVE  OwnFiles'
    <3>1. UNCHANGED <<pc, job, work>>
      BY <2>2 DEF ClientStep, PutFile, AddToOrder, Push, Subscribe, GiveUp, local
    <3> QED BY <3>1 DEF OwnFiles
  <2>3. ASSUME NEW w \in Worker, WorkerStep(w)
        PROVE  OwnFiles'
    <3> SUFFICES ASSUME NEW v \in Worker, pc'[v] \in Graded
                 PROVE  work'[NameOf[v]] = {job'[v]} \X FilesOf[job'[v]]
      BY DEF OwnFiles, Graded
    <3>1. CASE v # w
      <4>1. NameOf[v] \in Name \ {NameOf[w]}
        BY <3>1
      <4>2. work'[NameOf[v]] = work[NameOf[v]] /\ pc'[v] = pc[v] /\ job'[v] = job[v]
        BY <2>3, <3>1, <4>1, WorkMoves, OthersStayLemma DEF IInv, OthersStay
      <4> QED BY <4>2 DEF OwnFiles, Graded
    <3>2. CASE v = w /\ pc[w] \in Graded /\ work' = work
      BY <2>3, <3>2, WorkMoves DEF IInv, OwnFiles, Graded
    <3>3. CASE v = w /\ pc[w] = "download" /\ work'[NameOf[w]] = {job[w]} \X hash[job[w]]
      <4>1. job'[v] = job[v]
        BY <2>3, <3>3, WorkMoves DEF IInv
      <4>2. job[w] \in Submission
        BY <3>3 DEF IInv, HoldsJob, Held, TypeOK
      <4>3. hash[job[w]] = FilesOf[job[w]]
        BY <3>3, <4>2 DEF Stored, ToDownload, Early
      <4> QED BY <3>3, <4>1, <4>3
    <3> QED BY <2>3, <3>1, <3>2, <3>3, WorkMoves DEF IInv
  <2> QED BY <2>1, <2>2, <2>3 DEF Next, WorkerStep
<1> QED BY Invariance, StoredInvariance, <1>1, <1>2, PTL DEF Spec

-----------------------------------------------------------------------------
(* The status only goes forward.                                           *)

\* How far along each status is.
LEMMA Ranks ==
    /\ Rank([stage |-> "preparing", progress |-> 0]) = 1
    /\ Rank([stage |-> "compiling", progress |-> 0]) = 2
    /\ Rank([stage |-> "done", progress |-> 100]) = 104
    /\ \A p \in Int : Rank([stage |-> "testing", progress |-> p]) = p + 3
    /\ \A st \in Status : Rank(st) \in 0..104
BY DEF Rank, Status

\* The progress announced before the test k of n tests grows with k.
LEMMA TestsGrow ==
    ASSUME NEW n \in Nat \ {0}, NEW k \in Nat
    PROVE  /\ (k * 80) \div n \in Nat
           /\ (k * 80) \div n <= ((k + 1) * 80) \div n
<1> DEFINE p == (k * 80) \div n
           q == ((k + 1) * 80) \div n
<1>1. p \in Int /\ n * p <= k * 80 /\ k * 80 < n * p + n
  OBVIOUS
<1>2. q \in Int /\ n * q <= (k + 1) * 80 /\ (k + 1) * 80 < n * q + n
  OBVIOUS
<1>3. p >= 0
  BY <1>1
<1>4. p <= q
  <2> SUFFICES ASSUME q + 1 <= p PROVE FALSE
    BY <1>1, <1>2
  <2>1. n * (q + 1) <= n * p
    BY <1>1, <1>2
  <2>2. n * (q + 1) = n * q + n
    BY <1>2
  <2> QED BY <1>1, <1>2, <2>1, <2>2
<1> QED BY <1>1, <1>3, <1>4

\* The progress that the next test of w announces.
NextProgress(w) == 20 + (test[w] * 80) \div NTests

\* What a worker writes next is not below what is there; nothing is written of a
\* submission before it is popped.
Progressed ==
    /\ \A s \in Submission : s \notin Pushed \/ s \in Queued => Rank(status[s]) = 0
    /\ \A w \in Worker :
          /\ pc[w] \in {"popped", "prepare"} => Rank(status[job[w]]) = 0
          /\ pc[w] \in {"download", "compile"} => Rank(status[job[w]]) <= 1
          /\ pc[w] = "test" => Rank(status[job[w]]) <= NextProgress(w) + 3

\* The status that the step of a worker may write.
Announces(w, st) == status' \in {status, [status EXCEPT ![job[w]] = st]}

Continues(w, from, to) == pc[w] = from /\ pc'[w] = to /\ job'[w] = job[w]

\* How a worker gets on with its job and what it says of it.
LEMMA WorkerTells ==
    ASSUME TypeOK, HoldsJob, NEW w \in Worker, WorkerStep(w)
    PROVE  \/ /\ status' = status
              /\ \/ pc'[w] = "popped" /\ job'[w] # job[w]
                 \/ pc'[w] = pc[w] /\ job'[w] = job[w] /\ test'[w] = test[w]
                 \/ Continues(w, "popped", "prepare")
                 \/ Continues(w, "download", "compile")
                 \/ pc'[w] \notin Early \cup Graded
           \/ /\ pc[w] = "prepare" /\ Announces(w, [stage |-> "preparing", progress |-> 0])
              /\ pc'[w] \notin Early \cup Graded \/ Continues(w, "prepare", "download")
           \/ /\ pc[w] = "compile" /\ Announces(w, [stage |-> "compiling", progress |-> 0])
              /\ pc'[w] \notin Early \cup Graded \/ Continues(w, "compile", "test")
           \/ /\ pc[w] = "test"
              /\ Announces(w, [stage |-> "testing", progress |-> NextProgress(w)])
              /\ \/ pc'[w] \notin Early \cup Graded
                 \/ Continues(w, "test", "test") /\ test'[w] = test[w] + 1
           \/ /\ pc[w] = "done" /\ Announces(w, [stage |-> "done", progress |-> 100])
              /\ pc'[w] \notin Early \cup Graded
<1> USE TaskQueueAssumption DEF TypeOK, Goto, Early, Graded, Continues
<1>1. CASE Start(w) \/ Fetch(w)
  <2>1. status' = status
    BY <1>1 DEF Start, Fetch, Quit, PreCheck, GetSet, Pop, PollEmpty, Reconnect, DropPopped, ZRem, redis
  <2>2. CASE Pop(w)
    <3>1. pc'[w] = "popped" /\ job[w] = NoJob
      BY <2>2 DEF Pop, HoldsJob, Held
    <3>2. \E l \in Level : queue[l] # <<>> /\ job'[w] = Head(queue[l])
      BY <2>2 DEF Pop, Served
    <3>3. job'[w] \in Submission
      BY <3>2
    <3> QED BY <2>1, <3>1, <3>3
  <2> QED BY <1>1, <2>1, <2>2
          DEF Start, Fetch, Quit, PreCheck, GetSet, PollEmpty, Reconnect, DropPopped, ZRem, Exit
<1>2. CASE Prepare(w)
  BY <1>2 DEF Prepare, recreate_workdir, report_status, Announces, InternalError, Exit
<1>3. CASE Download(w)
  BY <1>3 DEF Download, Exit
<1>4. CASE Compile(w)
  BY <1>4 DEF Compile, report_status, Announces, InternalError
<1>5. CASE Test(w)
  <2>1. Announces(w, [stage |-> "testing", progress |-> NextProgress(w)]) /\ pc[w] = "test"
    BY <1>5 DEF Test, AnnounceTest, report_status, Announces, NextProgress
  <2>2. \/ pc'[w] \notin Early \cup Graded
        \/ Continues(w, "test", "test") /\ test'[w] = test[w] + 1
    BY <1>5 DEF Test, InternalError
  <2> QED BY <2>1, <2>2
<1>6. CASE Done(w)
  BY <1>6 DEF Done, report_status, Announces
<1>7. CASE Publish(w)
  BY <1>7 DEF Publish, redis
<1>8. CASE Mishap(w)
  BY <1>8 DEF Mishap, StartLost, ConnectionLost, Signal, Crash, DropFatal, Exit, local, redis
<1> QED BY <1>1, <1>2, <1>3, <1>4, <1>5, <1>6, <1>7, <1>8 DEF WorkerStep, Process

\* A worker's step moves no status back and keeps Progressed.
LEMMA WorkerProgress ==
    ASSUME IInv, IInv', Progressed, NEW w \in Worker, WorkerStep(w)
    PROVE  /\ \A s \in Submission : Rank(status[s]) <= Rank(status'[s])
           /\ Progressed'
<1> USE TaskQueueAssumption
<1>1. TypeOK /\ HoldsJob /\ TypeOK' /\ HoldsJob' /\ OthersStay(w)
  BY OthersStayLemma DEF IInv
<1>2. \A s \in Submission : Rank(status[s]) \in 0..104 /\ Rank(status'[s]) \in 0..104
  BY <1>1, Ranks DEF TypeOK
<1>3. \A v \in Worker : test[v] \in Nat /\ test'[v] \in Nat /\ NextProgress(v) \in Nat
  <2>1. \A v \in Worker : test[v] \in Nat /\ test'[v] \in Nat
    BY <1>1 DEF TypeOK
  <2> QED BY <2>1, TestsGrow DEF NextProgress
<1>4. \A v \in Worker : pc[v] \in Early \cup Graded => job[v] \in Submission /\ job[v] \in Grading
  BY <1>1 DEF HoldsJob, Held, Early, Graded, TypeOK, Grading
<1>5. \A s \in Submission : s # job[w] => status'[s] = status[s]
  BY <1>1, StatusWritten
<1>6. ASSUME NEW v \in Worker \ {w}
      PROVE  /\ pc'[v] \in {"popped", "prepare"} => Rank(status'[job'[v]]) = 0
             /\ pc'[v] \in {"download", "compile"} => Rank(status'[job'[v]]) <= 1
             /\ pc'[v] = "test" => Rank(status'[job'[v]]) <= NextProgress(v)' + 3
  <2>1. pc'[v] = pc[v] /\ job'[v] = job[v] /\ NextProgress(v)' = NextProgress(v)
    BY <1>1 DEF OthersStay, NextProgress
  <2>2. pc[v] \in Early \cup Graded => job[v] \in Submission /\ job[v] # job[w]
    BY <1>4 DEF IInv, OnePlace
  <2> QED BY <1>5, <2>1, <2>2 DEF Progressed, Early, Graded
<1>7. ASSUME NEW s \in Submission, s \notin Pushed' \/ s \in Queued'
      PROVE  Rank(status'[s]) = 0
  <2>1. s \notin Pushed \/ s \in Queued
    BY <1>7, Places
  <2>2. s # job[w]
    BY <2>1 DEF IInv, OnePlace, UnpushedNowhere, Grading
  <2> QED BY <1>5, <2>1, <2>2 DEF Progressed
<1> DEFINE Mine == /\ pc'[w] \in {"popped", "prepare"} => Rank(status'[job'[w]]) = 0
                   /\ pc'[w] \in {"download", "compile"} => Rank(status'[job'[w]]) <= 1
                   /\ pc'[w] = "test" => Rank(status'[job'[w]]) <= NextProgress(w)' + 3
           Up == \A s \in Submission : Rank(status[s]) <= Rank(status'[s])
<1>8. ASSUME NEW st, Announces(w, st), job[w] \in Submission
      PROVE  \A s \in Submission :
                status'[s] = status[s] \/ (s = job[w] /\ status'[s] = st)
  BY <1>1, <1>8 DEF Announces, TypeOK
<1>9. Up /\ Mine
  <2>1. CASE /\ status' = status
             /\ \/ pc'[w] = "popped" /\ job'[w] # job[w]
                \/ pc'[w] = pc[w] /\ job'[w] = job[w] /\ test'[w] = test[w]
                \/ Continues(w, "popped", "prepare")
                \/ Continues(w, "download", "compile")
                \/ pc'[w] \notin Early \cup Graded
    <3>1. Up
      BY <1>2, <2>1
    <3>2. CASE pc'[w] = "popped" /\ job'[w] # job[w]
      <4>1. job'[w] # NoJob
        BY <1>1, <3>2 DEF HoldsJob, Held
      <4>2. job'[w] \in Queued /\ job'[w] \in Submission
        BY <3>2, <4>1, Places DEF Queued
      <4> QED BY <2>1, <3>1, <3>2, <4>2 DEF Progressed
    <3>3. CASE pc'[w] = pc[w] /\ job'[w] = job[w] /\ test'[w] = test[w]
      BY <2>1, <3>1, <3>3 DEF Progressed, NextProgress
    <3>4. CASE Continues(w, "popped", "prepare") \/ Continues(w, "download", "compile")
      BY <2>1, <3>1, <3>4 DEF Progressed, Continues
    <3>5. CASE pc'[w] \notin Early \cup Graded
      BY <3>1, <3>5 DEF Early, Graded
    <3> QED BY <2>1, <3>2, <3>3, <3>4, <3>5
  <2>2. CASE /\ pc[w] = "prepare" /\ Announces(w, [stage |-> "preparing", progress |-> 0])
             /\ pc'[w] \notin Early \cup Graded \/ Continues(w, "prepare", "download")
    <3>1. job[w] \in Submission /\ Rank(status[job[w]]) = 0
      BY <1>4, <2>2 DEF Progressed, Early
    <3>2. \A s \in Submission : Rank(status'[s]) = Rank(status[s]) \/ (s = job[w] /\ Rank(status'[s]) = 1)
      BY <1>8, <2>2, <3>1, Ranks
    <3> QED BY <1>2, <2>2, <3>1, <3>2 DEF Continues, Early, Graded
  <2>3. CASE /\ pc[w] = "compile" /\ Announces(w, [stage |-> "compiling", progress |-> 0])
             /\ pc'[w] \notin Early \cup Graded \/ Continues(w, "compile", "test")
    <3>1. job[w] \in Submission /\ Rank(status[job[w]]) <= 1
      BY <1>4, <2>3 DEF Progressed, Graded
    <3>2. \A s \in Submission : Rank(status'[s]) = Rank(status[s]) \/ (s = job[w] /\ Rank(status'[s]) = 2)
      BY <1>8, <2>3, <3>1, Ranks
    <3>3. NextProgress(w)' \in Nat
      BY <1>1, TestsGrow DEF NextProgress, TypeOK
    <3> QED BY <1>2, <2>3, <3>1, <3>2, <3>3 DEF Continues, Early, Graded
  <2>4. CASE /\ pc[w] = "test"
             /\ Announces(w, [stage |-> "testing", progress |-> NextProgress(w)])
             /\ \/ pc'[w] \notin Early \cup Graded
                \/ Continues(w, "test", "test") /\ test'[w] = test[w] + 1
    <3>1. job[w] \in Submission /\ Rank(status[job[w]]) <= NextProgress(w) + 3
      BY <1>4, <2>4 DEF Progressed, Graded
    <3>2. \A s \in Submission : Rank(status'[s]) = Rank(status[s])
                                   \/ (s = job[w] /\ Rank(status'[s]) = NextProgress(w) + 3)
      BY <1>3, <1>8, <2>4, <3>1, Ranks
    <3>3. test'[w] = test[w] + 1 => NextProgress(w)' >= NextProgress(w) /\ NextProgress(w)' \in Nat
      BY <1>3, TestsGrow DEF NextProgress
    <3> QED BY <1>2, <1>3, <2>4, <3>1, <3>2, <3>3 DEF Continues, Early, Graded
  <2>5. CASE /\ pc[w] = "done" /\ Announces(w, [stage |-> "done", progress |-> 100])
             /\ pc'[w] \notin Early \cup Graded
    <3>1. job[w] \in Submission
      BY <1>1, <2>5 DEF HoldsJob, Held, TypeOK
    <3>2. \A s \in Submission : Rank(status'[s]) = Rank(status[s]) \/ Rank(status'[s]) = 104
      BY <1>8, <2>5, <3>1, Ranks
    <3> QED BY <1>2, <2>5, <3>2 DEF Early, Graded
  <2> QED BY <1>1, <2>1, <2>2, <2>3, <2>4, <2>5, WorkerTells
<1> QED BY <1>6, <1>7, <1>9 DEF Progressed

\* The status of a submission only goes forward, whichever of its writes are lost
\* and whoever crashes between them, for any number of tests.
THEOREM ProgressMonotoneThm == Spec => ProgressMonotone
<1>1. Init => Progressed
  BY DEF Init, Progressed, Rank
<1>2. IInv /\ IInv' /\ Progressed /\ [Next]_vars =>
         Progressed' /\ \A s \in Submission : Rank(status[s]) <= Rank(status'[s])
  <2> SUFFICES ASSUME IInv, IInv', Progressed, [Next]_vars
               PROVE  /\ Progressed'
                      /\ \A s \in Submission : Rank(status[s]) <= Rank(status'[s])
    OBVIOUS
  <2>1. \A s \in Submission : Rank(status[s]) \in 0..104
    BY Ranks DEF IInv, TypeOK
  <2>2. CASE UNCHANGED vars
    BY <2>1, <2>2 DEF vars, redis, local, Progressed, NextProgress, Pushed, Queued
  <2>3. ASSUME NEW s \in Submission, ClientStep(s)
        PROVE  /\ Progressed'
               /\ \A t \in Submission : Rank(status[t]) <= Rank(status'[t])
    <3>1. UNCHANGED <<pc, job, status, test>>
      BY <2>3 DEF ClientStep, PutFile, AddToOrder, Push, Subscribe, GiveUp, redis, local
    <3>2. \A t \in Submission : t \notin Pushed' \/ t \in Queued' => t \notin Pushed \/ t \in Queued
      BY <2>3, ClientPlaces DEF Pushed
    <3> QED BY <2>1, <3>1, <3>2 DEF Progressed, NextProgress
  <2> QED BY <2>2, <2>3, WorkerProgress DEF Next, WorkerStep
<1>3. IInv /\ IInv' /\ Progressed /\ [Next]_vars =>
         [\A s \in Submission : Rank(status[s]) <= Rank(status'[s])]_vars
  BY <1>2
<1> QED BY Invariance, <1>1, <1>2, <1>3, PTL DEF Spec, ProgressMonotone

-----------------------------------------------------------------------------
(* Part 3.  TaskQueue implements InstanceLock.                             *)

\* A key holds the uuid of a worker of its own name only.
OwnKey == \A n \in Name : lock[n] \in Worker => NameOf[lock[n]] = n

\* The key of one name after the end of w.
Forgotten(w) == \A n \in Name : lock'[n] = IF lock[n] = w THEN Gone ELSE lock[n]

\* The step of w sets its name's key, or none.
Sets(w, value) == \A n \in Name : lock'[n] = IF n = NameOf[w] THEN value ELSE lock[n]

Becomes(w, from, to) == LockStage(w) = from /\ LockStage(w)' = to

\* What the step of a worker is for its lock.
LEMMA LockMoves ==
    ASSUME TypeOK, NEW w \in Worker, WorkerStep(w)
    PROVE  \/ Becomes(w, "off", "get") /\ Sets(w, w)
           \/ Becomes(w, "off", "off") /\ Sets(w, Gone)
           \/ Becomes(w, "get", "getset") /\ Owns(w) /\ lock' = lock
           \/ Becomes(w, "get", "off") /\ ~Owns(w) /\ Forgotten(w)
           \/ Becomes(w, "getset", "pop") /\ Owns(w) /\ lock' = lock
           \/ Becomes(w, "getset", "off") /\ ~Owns(w) /\ Sets(w, Gone)
           \/ Becomes(w, "pop", "get") /\ lock' = lock
           \/ Becomes(w, "pop", "busy") /\ lock' = lock
           \/ Becomes(w, "busy", "get") /\ lock' = lock
           \/ LockStage(w) \in {"get", "getset", "pop"} /\ LockStage(w)' = "retry" /\ lock' = lock
           \/ Becomes(w, "getset", "retry") /\ Sets(w, w)
           \/ Becomes(w, "retry", "get") /\ lock' = lock
           \/ LockStage(w) # "off" /\ LockStage(w)' = "off" /\ Forgotten(w)
           \/ LockStage(w)' = LockStage(w) /\ lock' = lock
<1> USE TaskQueueAssumption DEF TypeOK, Goto, Exit, Becomes, LockStage, Held, Stage
<1>1. Forget(w) => Forgotten(w)
  BY DEF Forget, Forgotten
<1>2. \A value : SetLock(w, value) => Sets(w, value)
  BY DEF SetLock, Sets
<1>3. CASE Start(w)
  BY <1>2, <1>3 DEF Start
<1>4. CASE Quit(w) \/ DropPopped(w)
  BY <1>1, <1>4 DEF Quit, DropPopped
<1>5. CASE PreCheck(w)
  BY <1>1, <1>5 DEF PreCheck
<1>6. CASE GetSet(w)
  BY <1>2, <1>6 DEF GetSet
<1>7. CASE Pop(w) \/ PollEmpty(w) \/ Reconnect(w) \/ ZRem(w)
  BY <1>7 DEF Pop, PollEmpty, Reconnect, ZRem, redis
<1>8. CASE Prepare(w)
  BY <1>1, <1>8 DEF Prepare, recreate_workdir, InternalError
<1>9. CASE Download(w)
  BY <1>1, <1>9 DEF Download
<1>10. CASE Compile(w) \/ Test(w) \/ Done(w) \/ Publish(w)
  BY <1>10 DEF Compile, Test, Done, Publish, InternalError, redis
<1>11. CASE StartLost(w) \/ ConnectionLost(w) \/ Signal(w)
  BY <1>2, <1>11 DEF StartLost, ConnectionLost, Signal, local, redis
<1>12. CASE Crash(w) \/ DropFatal(w)
  BY <1>1, <1>12 DEF Crash, DropFatal
<1> QED BY <1>3, <1>4, <1>5, <1>6, <1>7, <1>8, <1>9, <1>10, <1>11, <1>12
        DEF WorkerStep, Fetch, Process, Mishap

\* It keeps OwnKey.
LEMMA WorkerOwnKey ==
    ASSUME TypeOK, OwnKey, NEW w \in Worker, WorkerStep(w)
    PROVE  OwnKey'
<1>1. lock' = lock \/ Forgotten(w) \/ Sets(w, w) \/ Sets(w, Gone)
  BY LockMoves
<1> QED BY <1>1, TaskQueueAssumption DEF OwnKey, Forgotten, Sets

\* The stage of one worker changes in what InstanceLock sees, or of none.
LEMMA StagesMove ==
    ASSUME TypeOK, NEW w \in Worker, WorkerStep(w)
    PROVE  /\ \A to : w \in Deployed(AnyName) /\ LockStage(w)' = to => Lock!Goto(w, to)
           /\ w \notin Deployed(AnyName) \/ LockStage(w)' = LockStage(w) =>
                 [v \in Deployed(AnyName) |-> LockStage(v)]' = [v \in Deployed(AnyName) |-> LockStage(v)]
<1>1. Deployed(AnyName)' = Deployed(AnyName)
  BY DEF Deployed
<1>2. \A v \in Deployed(AnyName) : v # w => LockStage(v)' = LockStage(v)
  BY OthersStayLemma DEF OthersStay, LockStage, Deployed
<1> HIDE DEF LockStage, Deployed
<1> QED BY <1>1, <1>2 DEF Lock!Goto

\* It is a step of InstanceLock, or nothing InstanceLock sees.
LEMMA LockSteps ==
    ASSUME TypeOK, OwnKey, NEW w \in Worker, WorkerStep(w)
    PROVE  [Lock!Next]_(Lock!vars)
<1> USE TaskQueueAssumption
<1>1. CASE w \notin Deployed(AnyName)
  <2>1. NameOf[w] # AnyName
    BY <1>1 DEF Deployed
  <2>2. lock[AnyName] # w
    BY <2>1 DEF OwnKey
  <2>3. lock'[AnyName] = lock[AnyName]
    BY <2>1, <2>2, LockMoves DEF Forgotten, Sets
  <2> QED BY <1>1, <2>3, StagesMove DEF Lock!vars
<1>2. CASE w \in Deployed(AnyName)
  <2>1. NameOf[w] = AnyName
    BY <1>2 DEF Deployed
  <2> DEFINE from == LockStage(w)
             to == LockStage(w)'
  <2>2. [v \in Deployed(AnyName) |-> LockStage(v)][w] = from
    BY <1>2
  <2>3. Lock!Goto(w, to)
    BY <1>2, StagesMove
  <2>4. Forgotten(w) => Lock!Forget(w)
    BY DEF Forgotten, Lock!Forget
  <2>5. \A value : Sets(w, value) => lock'[AnyName] = value
    BY <2>1 DEF Sets
  <2>6. Owns(w) <=> lock[AnyName] = w
    BY <2>1 DEF Owns
  <2>7. lock' = lock => lock'[AnyName] = lock[AnyName]
    OBVIOUS
  <2>8. to = from => [v \in Deployed(AnyName) |-> LockStage(v)]' = [v \in Deployed(AnyName) |-> LockStage(v)]
    BY StagesMove
  <2> HIDE DEF from, to
  <2>9. \/ from = "off" /\ to = "get" /\ lock'[AnyName] = w
        \/ from = "off" /\ to = "off" /\ lock'[AnyName] = Gone
        \/ from = "get" /\ to = "getset" /\ lock[AnyName] = w /\ lock'[AnyName] = lock[AnyName]
        \/ from = "get" /\ to = "off" /\ lock[AnyName] # w /\ Lock!Forget(w)
        \/ from = "getset" /\ to = "pop" /\ lock[AnyName] = w /\ lock'[AnyName] = lock[AnyName]
        \/ from = "getset" /\ to = "off" /\ lock[AnyName] # w /\ lock'[AnyName] = Gone
        \/ from = "pop" /\ to = "get" /\ lock'[AnyName] = lock[AnyName]
        \/ from = "pop" /\ to = "busy" /\ lock'[AnyName] = lock[AnyName]
        \/ from = "busy" /\ to = "get" /\ lock'[AnyName] = lock[AnyName]
        \/ from \in {"get", "getset", "pop"} /\ to = "retry" /\ lock'[AnyName] = lock[AnyName]
        \/ from = "getset" /\ to = "retry" /\ lock'[AnyName] = w
        \/ from = "retry" /\ to = "get" /\ lock'[AnyName] = lock[AnyName]
        \/ from # "off" /\ to = "off" /\ Lock!Forget(w)
        \/ from = to /\ lock'[AnyName] = lock[AnyName]
    BY <2>4, <2>5, <2>6, <2>7, LockMoves DEF from, to, Becomes
  <2>10. to = from /\ lock'[AnyName] = lock[AnyName] => UNCHANGED Lock!vars
    BY <2>8 DEF Lock!vars
  <2> QED BY <1>2, <2>2, <2>3, <2>8, <2>9, <2>10
          DEF Lock!Next, Lock!Step, Lock!Start, Lock!StartLost, Lock!PreCheck, Lock!GetSet,
              Lock!PollEmpty, Lock!Pop, Lock!Finish, Lock!ConnectionLost, Lock!ReplyLost,
              Lock!Reconnect, Lock!Stop, Lock!Running, Lock!_compare_instance_key
<1> QED BY <1>1, <1>2

\* Whatever a worker does with submissions, its rounds of GET, GETSET and checks are
\* those of InstanceLock, in which a worker that lost the key pops once more at most
\* (task_queue.py, for any name and any deployments that share it).
THEOREM SharedLockThm == Spec => SharedLock
<1> USE TaskQueueAssumption
<1>1. Init => Lock!Init /\ OwnKey
  BY DEF Init, Lock!Init, OwnKey, LockStage, Held, Deployed
<1>2. IInv /\ OwnKey /\ [Next]_vars => OwnKey' /\ [Lock!Next]_(Lock!vars)
  <2> SUFFICES ASSUME IInv, OwnKey, [Next]_vars
               PROVE  OwnKey' /\ [Lock!Next]_(Lock!vars)
    OBVIOUS
  <2>1. CASE UNCHANGED <<lock, pc>>
    BY <2>1 DEF OwnKey, Lock!vars, LockStage
  <2>2. ASSUME NEW s \in Submission, ClientStep(s)
        PROVE  UNCHANGED <<lock, pc>>
    BY <2>2 DEF ClientStep, PutFile, AddToOrder, Push, Subscribe, GiveUp, redis, local
  <2>3. UNCHANGED vars => UNCHANGED <<lock, pc>>
    BY DEF vars, redis, local
  <2> QED BY <2>1, <2>2, <2>3, WorkerOwnKey, LockSteps DEF Next, WorkerStep, IInv
<1> QED BY Invariance, <1>1, <1>2, PTL DEF Spec, SharedLock, Lock!Spec

-----------------------------------------------------------------------------
(* TaskQueue implements Job.                                               *)

\* Before its job has a verdict, a worker has none.
Unjudged == \A w \in Worker : pc[w] \notin {"done", "publish"} => result[w] = "none"

\* The step of w as its job sees it.
LEMMA JobMoves ==
    ASSUME TypeOK, HoldsJob, Unjudged, NEW w \in Worker, WorkerStep(w)
    PROVE  /\ pc'[w] \notin {"done", "publish"} => result'[w] = "none"
           /\ \/ JobStage(w) = "away" /\ pc'[w] = "prepare" /\ result'[w] = result[w]
              \/ JobStage(w) = "away" /\ JobStage(w)' = "away"
              \/ pc'[w] = pc[w] /\ test'[w] = test[w] /\ result'[w] = result[w]
              \/ pc[w] = "prepare" /\ pc'[w] = "download" /\ result'[w] = result[w]
              \/ pc[w] = "download" /\ pc'[w] = "compile" /\ result'[w] = result[w]
              \/ /\ pc[w] = "compile" /\ pc'[w] = "test"
                 /\ test'[w] = test[w] /\ result'[w] = result[w]
              \/ pc[w] = "compile" /\ pc'[w] = "done" /\ result'[w] = "compile_error"
              \/ /\ pc[w] = "test" /\ pc'[w] = "test" /\ test[w] + 1 < NTests
                 /\ test'[w] = test[w] + 1 /\ result'[w] = result[w]
              \/ /\ pc[w] = "test" /\ pc'[w] = "done" /\ test[w] + 1 = NTests
                 /\ result'[w] = "ok"
              \/ pc[w] = "done" /\ pc'[w] = "publish" /\ result'[w] = result[w]
              \/ /\ pc[w] \in {"prepare", "compile", "test"} /\ pc'[w] = "publish"
                 /\ result'[w] = "internal_error"
              \/ JobStage(w) # "away" /\ JobStage(w)' = "away" /\ result'[w] = "none"
<1> USE TaskQueueAssumption DEF TypeOK, Goto, Exit, JobStage, Held, Unjudged
<1>1. CASE Start(w) \/ Fetch(w)
  BY <1>1 DEF Start, Fetch, Quit, PreCheck, GetSet, Pop, PollEmpty, Reconnect, DropPopped, ZRem
<1>2. CASE Prepare(w)
  BY <1>2 DEF Prepare, recreate_workdir, InternalError
<1>3. CASE Download(w)
  <2>1. pc[w] = "download" /\ result[w] = "none"
    BY <1>3 DEF Download
  <2>2. CASE hash[job[w]] # {}
    <3>1. pc'[w] = "compile" /\ result' = result
      BY <1>3, <2>2 DEF Download
    <3> QED BY <2>1, <3>1
  <2>3. CASE hash[job[w]] = {}
    <3>1. pc'[w] = "off" /\ result'[w] = "none"
      BY <1>3, <2>3 DEF Download
    <3> QED BY <2>1, <3>1
  <2> QED BY <2>2, <2>3
<1>4. CASE Compile(w)
  BY <1>4 DEF Compile, InternalError
<1>5. CASE Test(w)
  BY <1>5 DEF Test, InternalError
<1>6. CASE Done(w) \/ Publish(w)
  BY <1>6 DEF Done, Publish
<1>7. CASE Mishap(w)
  BY <1>7 DEF Mishap, StartLost, ConnectionLost, Signal, Crash, DropFatal, local
<1> QED BY <1>1, <1>2, <1>3, <1>4, <1>5, <1>6, <1>7 DEF WorkerStep, Process

\* It keeps Unjudged.
LEMMA WorkerUnjudged ==
    ASSUME TypeOK, HoldsJob, Unjudged, NEW w \in Worker, WorkerStep(w)
    PROVE  Unjudged'
BY JobMoves, OthersStayLemma DEF Unjudged, OthersStay

\* It is a step of Job for the worker it is of, and nothing for the others.
LEMMA JobFollows ==
    ASSUME IInv, IInv', Unjudged, NEW w \in Worker, WorkerStep(w)
    PROVE  [J!JobNext]_(J!jobvars)
<1> USE TaskQueueAssumption
<1>1. TypeOK /\ HoldsJob /\ Unjudged'
  BY WorkerUnjudged DEF IInv
<1>2. CASE AnyWorker # w
  BY <1>1, <1>2, OthersStayLemma DEF OthersStay, JobStage, TestsLeft, J!jobvars
<1>3. CASE AnyWorker = w
  <2>1. test[w] \in Nat /\ test'[w] \in Nat /\ NTests \in Nat \ {0}
    BY DEF IInv, TypeOK
  <2>2. pc[w] = "test" => test[w] < NTests
    BY DEF IInv, HoldsJob
  <2>3. pc'[w] = "test" => test'[w] < NTests
    BY DEF IInv, HoldsJob
  <2>4. JobStage(w) = "away" => pc[w] \notin {"done", "publish"}
    BY DEF JobStage, Held
  <2>5. JobStage(w)' = "away" => pc'[w] \notin {"done", "publish"}
    BY DEF JobStage, Held
  <2>6. JobStage(w) = "away" => TestsLeft(w) = 0 /\ result[w] = "none"
    BY <2>4 DEF JobStage, TestsLeft, Held, Unjudged
  <2>7. JobStage(w)' = "away" => TestsLeft(w)' = 0 /\ result'[w] = "none"
    BY <1>1, <2>5 DEF JobStage, TestsLeft, Held, Unjudged
  <2> USE <1>3 DEF J!JobNext, J!jobvars, J!Goes
  <2>8. CASE JobStage(w) = "away" /\ pc'[w] = "prepare" /\ result'[w] = result[w]
    BY <2>6, <2>8 DEF J!Take, JobStage, TestsLeft, Held
  <2>9. CASE JobStage(w) = "away" /\ JobStage(w)' = "away"
    BY <2>6, <2>7, <2>9
  <2>10. CASE pc'[w] = pc[w] /\ test'[w] = test[w] /\ result'[w] = result[w]
    BY <2>10 DEF JobStage, TestsLeft
  <2>11. CASE pc[w] = "prepare" /\ pc'[w] = "download" /\ result'[w] = result[w]
    BY <2>11 DEF J!Prepared, JobStage, TestsLeft, Held
  <2>12. CASE pc[w] = "download" /\ pc'[w] = "compile" /\ result'[w] = result[w]
    BY <2>12 DEF J!Downloaded, JobStage, TestsLeft, Held
  <2>13. CASE pc[w] = "compile" /\ pc'[w] = "test" /\ result'[w] = result[w]
    BY <2>1, <2>3, <2>13 DEF J!Compiled, JobStage, TestsLeft, Held
  <2>14. CASE pc[w] = "compile" /\ pc'[w] = "done" /\ result'[w] = "compile_error"
    BY <2>14 DEF J!Rejected, JobStage, TestsLeft, Held
  <2>15. CASE /\ pc[w] = "test" /\ pc'[w] = "test" /\ test[w] + 1 < NTests
              /\ test'[w] = test[w] + 1 /\ result'[w] = result[w]
    BY <2>1, <2>2, <2>15 DEF J!Tested, JobStage, TestsLeft, Held
  <2>16. CASE pc[w] = "test" /\ pc'[w] = "done" /\ test[w] + 1 = NTests /\ result'[w] = "ok"
    BY <2>1, <2>16 DEF J!Graded, JobStage, TestsLeft, Held
  <2>17. CASE pc[w] = "done" /\ pc'[w] = "publish" /\ result'[w] = result[w]
    BY <2>17 DEF J!Announced, JobStage, TestsLeft, Held
  <2>18. CASE /\ pc[w] \in {"prepare", "compile", "test"} /\ pc'[w] = "publish"
              /\ result'[w] = "internal_error"
    BY <2>18 DEF J!Failed, JobStage, TestsLeft, Held
  <2>19. CASE JobStage(w) # "away" /\ JobStage(w)' = "away" /\ result'[w] = "none"
    BY <2>7, <2>19 DEF J!Left
  <2> QED BY <1>1, <2>8, <2>9, <2>10, <2>11, <2>12, <2>13, <2>14, <2>15, <2>16, <2>17, <2>18,
             <2>19, JobMoves
<1> QED BY <1>2, <1>3

\* Any worker takes its jobs one after the other through the stages of Job, with as
\* many tests as the package has, whatever the others and the faults do.
THEOREM JobsFollowed == Spec => J!JobSpec
<1> USE TaskQueueAssumption
<1>1. Init => J!JobInit /\ Unjudged
  BY DEF Init, J!JobInit, JobStage, TestsLeft, Held, Unjudged
<1>2. IInv /\ IInv' /\ Unjudged /\ [Next]_vars => Unjudged' /\ [J!JobNext]_(J!jobvars)
  <2> SUFFICES ASSUME IInv, IInv', Unjudged, [Next]_vars
               PROVE  Unjudged' /\ [J!JobNext]_(J!jobvars)
    OBVIOUS
  <2>1. CASE UNCHANGED <<pc, test, result>>
    BY <2>1 DEF Unjudged, J!jobvars, JobStage, TestsLeft
  <2>2. ASSUME NEW s \in Submission, ClientStep(s)
        PROVE  UNCHANGED <<pc, test, result>>
    BY <2>2 DEF ClientStep, PutFile, AddToOrder, Push, Subscribe, GiveUp, redis, local
  <2>3. UNCHANGED vars => UNCHANGED <<pc, test, result>>
    BY DEF vars, local
  <2> QED BY <2>1, <2>2, <2>3, WorkerUnjudged, JobFollows DEF Next, WorkerStep, IInv
<1> QED BY Invariance, <1>1, <1>2, PTL DEF Spec, J!JobSpec

-----------------------------------------------------------------------------
(* TaskQueue implements Delivery.                                          *)

\* A worker's step moves no submission, ends what its worker held, answers it, or
\* takes the next one in turn: for the worker, or for nobody by a fault.
LEMMA TurnsMove ==
    ASSUME TypeOK, HoldsJob, NEW w \in Worker, WorkerStep(w)
    PROVE  /\ faults' \in {faults, faults + 1}
           /\ \/ Keeps \/ Drops(w) \/ Publishes(w)
              \/ \E l \in Level :
                    /\ pc[w] = "pop" /\ Served(l) /\ queue' = [queue EXCEPT ![l] = Tail(queue[l])]
                    /\ UNCHANGED <<client, reports>>
                    /\ \/ job' = [job EXCEPT ![w] = Head(queue[l])] /\ faults' = faults
                       \/ job' = job /\ faults' = faults + 1
<1>1. CASE Start(w) \/ Fetch(w)
  <2>1. faults' = faults
    BY <1>1 DEF Start, Fetch, Quit, PreCheck, GetSet, Pop, PollEmpty, Reconnect, DropPopped, ZRem
  <2>2. CASE Pop(w)
    BY <2>1, <2>2 DEF Pop
  <2>3. CASE ~Pop(w)
    BY <1>1, <2>1, <2>3
       DEF Start, Fetch, Quit, PreCheck, GetSet, PollEmpty, Reconnect, DropPopped, ZRem, Exit,
           redis, Keeps, Drops
  <2> QED BY <2>2, <2>3, <2>1
<1>2. CASE Process(w)
  <2>1. faults' \in {faults, faults + 1}
    BY <1>2 DEF Process, Prepare, recreate_workdir, Download, Compile, Test,
                AnnounceTest, Done, Publish,
                report_status, NoFault, Fault
  <2>2. CASE Publish(w)
    BY <2>1, <2>2 DEF Publish, Publishes, redis
  <2>3. CASE ~Publish(w)
    BY <1>2, <2>1, <2>3
       DEF Process, Prepare, recreate_workdir, Download, Compile, Test, Done,
           InternalError, Exit, Keeps, Drops
  <2> QED BY <2>2, <2>3
<1>3. CASE Mishap(w)
  <2>1. faults' = faults + 1
    BY <1>3 DEF Mishap, StartLost, ConnectionLost, Signal, Crash, DropFatal, Fault
  <2>2. CASE StartLost(w) \/ Signal(w) \/ Crash(w)
    BY <2>1, <2>2 DEF StartLost, Signal, Crash, Exit, redis, local, Keeps, Drops
  <2>3. CASE ConnectionLost(w)
    BY <2>1, <2>3 DEF ConnectionLost, Keeps
  <2>4. CASE DropFatal(w)
    BY <2>1, <2>4 DEF DropFatal, Exit, Drops, Publishes
  <2> QED BY <1>3, <2>2, <2>3, <2>4 DEF Mishap
<1> QED BY <1>1, <1>2, <1>3 DEF WorkerStep

\* Only finitely many submissions are lost at any time, however many there are: a
\* worker's step loses one at most.
LostFinite == IsFiniteSet(Lost)

\* No reachable state has lost infinitely many.
LEMMA LostFiniteInvariance == Spec => []LostFinite
<1>1. Init => LostFinite
  <2> SUFFICES ASSUME Init
               PROVE  LostFinite
    OBVIOUS
  <2>1. Lost = {}
    BY DEF Init, Lost, Pushed
  <2> QED BY <2>1, FS_EmptySet DEF LostFinite
<1>2. IInv /\ IInv' /\ LostFinite /\ [Next]_vars => LostFinite'
  <2> SUFFICES ASSUME IInv, IInv', LostFinite, [Next]_vars
               PROVE  LostFinite'
    OBVIOUS
  <2>1. CASE UNCHANGED vars
    BY <2>1 DEF vars, redis, local, LostFinite, Lost, Pushed, Queued, Grading, Reported
  <2>2. ASSUME NEW s \in Submission, ClientStep(s)
        PROVE  LostFinite'
    BY <2>2, ClientPlaces DEF LostFinite
  <2>3. ASSUME NEW w \in Worker, WorkerStep(w)
        PROVE  LostFinite'
    BY <2>3, LostByMove, OneMoreCard DEF LostFinite
  <2> QED BY <2>1, <2>2, <2>3 DEF Next, WorkerStep
<1> QED BY Invariance, <1>1, <1>2, PTL DEF Spec

\* The mishaps of Delivery: faults, and submissions lost that could not be graded.
Mishaps == faults + Cardinality(Lost \cap Ungradable)

\* There are at least as many mishaps as losses: Delivery asks for one more before a
\* loss.
LossesPaid ==
    /\ Mishaps \in Nat /\ Cardinality(Lost) \in Nat
    /\ faults \in Nat /\ Cardinality(Lost \cap Ungradable) \in Nat
    /\ Cardinality(Lost) <= Mishaps

\* What faults paid for and what could not be graded anyway make up all that is lost.
LEMMA MishapsPay == IInv /\ Accounts /\ LostFinite => LossesPaid
<1> SUFFICES ASSUME IInv, Accounts, LostFinite
             PROVE  LossesPaid
  OBVIOUS
<1>1. IsFiniteSet(Lost \cap Ungradable) /\ Cardinality(Lost \cap Ungradable) \in Nat
  BY FS_Subset, FS_CardinalityType DEF LostFinite
<1>2. IsFiniteSet(Wasted) /\ Cardinality(Wasted) \in Nat /\ Cardinality(Warned) \in Nat
  BY FS_CardinalityType DEF Accounts
<1>3. faults \in Nat
  BY TaskQueueAssumption DEF IInv, TypeOK
<1>4. Lost = Wasted \cup (Lost \cap Ungradable) /\ Wasted \cap (Lost \cap Ungradable) = {}
  BY DEF Wasted
<1>5. Cardinality(Lost) = Cardinality(Wasted) + Cardinality(Lost \cap Ungradable)
  <2>1. Cardinality(Wasted \cup (Lost \cap Ungradable))
           = Cardinality(Wasted) + Cardinality(Lost \cap Ungradable)
                - Cardinality(Wasted \cap (Lost \cap Ungradable))
    BY <1>1, <1>2, FS_Union
  <2>2. Cardinality(Wasted \cap (Lost \cap Ungradable)) = 0
    BY <1>4, FS_EmptySet
  <2>3. Cardinality(Wasted \cup (Lost \cap Ungradable)) = Cardinality(Lost)
    BY <1>4
  <2> QED BY <1>1, <1>2, <2>1, <2>2, <2>3
<1>6. Cardinality(Wasted) + Cardinality(Warned) <= faults
  BY DEF Accounts
<1> QED BY <1>1, <1>2, <1>3, <1>5, <1>6 DEF Mishaps, LossesPaid

\* Nothing is lost: the mishaps count faults only.
LEMMA SameLost ==
    ASSUME Lost' = Lost, faults \in Nat, faults' \in {faults, faults + 1},
           Cardinality(Lost \cap Ungradable) \in Nat
    PROVE  Mishaps' \in {Mishaps, Mishaps + 1}
BY DEF Mishaps, Ungradable

\* One submission more is lost: it was paid for.
LEMMA OneMoreLost ==
    ASSUME IInv, IInv', Accounts, Accounts', LostFinite, LostFinite',
           NEW s, s \notin Lost, Lost' = Lost \cup {s}, faults' \in {faults, faults + 1}
    PROVE  Mishaps' \in Mishaps..(Mishaps + 2) /\ Cardinality(Lost) < Mishaps'
<1>1. Cardinality(Lost') = Cardinality(Lost) + 1
  BY FS_AddElement DEF LostFinite
<1>2. LossesPaid /\ LossesPaid'
  BY MishapsPay, PTL
<1>3. Ungradable' = Ungradable
  BY DEF Ungradable
<1>4. IsFiniteSet(Lost \cap Ungradable)
  BY FS_Subset DEF LostFinite
<1>5. Cardinality((Lost \cup {s}) \cap Ungradable)
         \in {Cardinality(Lost \cap Ungradable), Cardinality(Lost \cap Ungradable) + 1}
  <2>1. CASE s \in Ungradable
    <3>1. (Lost \cup {s}) \cap Ungradable = (Lost \cap Ungradable) \cup {s}
      BY <2>1
    <3> QED BY <1>4, <3>1, FS_AddElement
  <2>2. CASE s \notin Ungradable
    <3>1. (Lost \cup {s}) \cap Ungradable = Lost \cap Ungradable
      BY <2>2
    <3> QED BY <3>1
  <2> QED BY <2>1, <2>2
<1>6. Mishaps' = faults' + Cardinality((Lost \cup {s}) \cap Ungradable)
  BY <1>3 DEF Mishaps
<1> QED BY <1>1, <1>2, <1>5, <1>6 DEF Mishaps, LossesPaid

\* The queues hold what Delivery calls waiting.
LEMMA WaitingIsQueued == TypeOK => Service!Waiting = Queued /\ DOMAIN Service!Urgency = Level
<1> SUFFICES ASSUME TypeOK
             PROVE  Service!Waiting = Queued /\ DOMAIN Service!Urgency = Level
  OBVIOUS
<1>1. DOMAIN Service!Urgency = Level
  BY DEF Service!Urgency, Level
<1>2. \A l \in Level : \A i \in DOMAIN queue[l] : queue[l][i] \in Submission
  BY DEF TypeOK
<1> QED BY <1>1, <1>2 DEF Service!Waiting, Queued

\* A client's step queues its submission, or changes nothing that Delivery sees.
LEMMA ClientServes ==
    ASSUME IInv, IInv', NEW s \in Submission, ClientStep(s)
    PROVE  [Service!DNext]_(Service!dvars)
<1>1. Grading' = Grading /\ Reported' = Reported /\ Lost' = Lost /\ faults' = faults
  BY ClientPlaces
<1>2. Cardinality(Lost \cap Ungradable)' = Cardinality(Lost \cap Ungradable)
  BY <1>1 DEF Ungradable
<1>3. CASE Push(s)
  <2>1. s \notin Pushed /\ queue' = [queue EXCEPT ![LevelOf[s]] = Append(@, s)]
    BY <1>3 DEF Push, Pushed
  <2>2. s \notin Queued \cup Grading \cup Reported \cup Lost
    BY <2>1 DEF IInv, UnpushedNowhere, Lost
  <2>3. Service!Enqueue(s)
    BY <1>1, <1>2, <2>1, <2>2, WaitingIsQueued DEF Service!Enqueue, IInv
  <2> QED BY <2>3 DEF Service!DNext
<1>4. CASE ~Push(s)
  <2>1. queue' = queue
    BY <1>4 DEF ClientStep, PutFile, AddToOrder, Subscribe, GiveUp, redis
  <2> QED BY <1>1, <1>2, <2>1 DEF Service!dvars
<1> QED BY <1>3, <1>4

\* What a worker's step does to the sets of Delivery.
LEMMA KeepsPlaces ==
    ASSUME Keeps
    PROVE  Queued' = Queued /\ Grading' = Grading /\ Reported' = Reported /\ Lost' = Lost
BY DEF Keeps, Queued, Grading, Reported, Lost, Pushed

\* A worker that drops its submission loses it,
LEMMA DropsPlaces ==
    ASSUME IInv, IInv', NEW w \in Worker, WorkerStep(w), Drops(w), job[w] # NoJob
    PROVE  /\ job[w] \in Submission /\ job[w] \in Grading
           /\ Grading' = Grading \ {job[w]} /\ Reported' = Reported
           /\ job[w] \notin Lost /\ Lost' = Lost \cup {job[w]}
<1> USE TaskQueueAssumption
<1>1. job[w] \in Submission /\ job[w] \in Grading
  BY DEF IInv, TypeOK, Grading
<1>2. \A v \in Worker : job'[v] = IF v = w THEN NoJob ELSE job[v]
  BY DEF Drops, IInv, TypeOK
<1>3. \A v \in Worker : job[v] = job[w] => v = w
  BY DEF IInv, OnePlace
<1>4. Grading' = Grading \ {job[w]}
  BY <1>1, <1>2, <1>3 DEF Grading
<1>5. Reported' = Reported /\ Queued' = Queued /\ Pushed' = Pushed
  BY DEF Drops, Reported, Queued, Pushed
<1>6. job[w] \in Pushed /\ job[w] \notin Queued \cup Reported
  BY <1>1 DEF IInv, OnePlace, UnpushedNowhere
<1>7. Lost' = Lost \cup {job[w]}
  BY <1>1, <1>4, <1>5, <1>6 DEF Lost
<1> QED BY <1>1, <1>4, <1>5, <1>7 DEF Lost

\* one that publishes it answers it,
LEMMA PublishesPlaces ==
    ASSUME IInv, IInv', NEW w \in Worker, WorkerStep(w), Publishes(w)
    PROVE  /\ job[w] \in Submission /\ job[w] \in Grading
           /\ Grading' = Grading \ {job[w]} /\ Reported' = Reported \cup {job[w]}
           /\ Lost' = Lost
<1> USE TaskQueueAssumption
<1>1. job[w] \in Submission /\ job[w] \in Grading
  BY DEF Publishes, IInv, HoldsJob, Held, TypeOK, Grading
<1>2. \A v \in Worker : job'[v] = IF v = w THEN NoJob ELSE job[v]
  BY DEF Publishes, IInv, TypeOK
<1>3. \A v \in Worker : job[v] = job[w] => v = w
  BY <1>1 DEF IInv, OnePlace
<1>4. Grading' = Grading \ {job[w]}
  BY <1>1, <1>2, <1>3 DEF Grading
<1>5. \A t \in Submission :
         reports'[t] = IF t = job[w] THEN Append(reports[t], result[w]) ELSE reports[t]
  BY <1>1 DEF Publishes, Deliver, IInv, TypeOK
<1>6. reports'[job[w]] # <<>>
  <2>1. reports[job[w]] \in Seq(Verdict)
    BY <1>1 DEF IInv, TypeOK
  <2>2. Append(reports[job[w]], result[w]) # <<>>
    BY <2>1
  <2> QED BY <1>1, <1>5, <2>2
<1>7. Reported' = Reported \cup {job[w]}
  BY <1>1, <1>5, <1>6 DEF Reported
<1>8. Lost' = Lost
  BY LostByMove, Places
<1> QED BY <1>1, <1>4, <1>7, <1>8

\* What leaves the head of its queue is in no queue.
LEMMA HeadLeaves ==
    ASSUME TypeOK, OnePlace, NEW l \in Level, queue[l] # <<>>,
           queue' = [queue EXCEPT ![l] = Tail(queue[l])]
    PROVE  Head(queue[l]) \notin Queued'
<1> DEFINE q == queue[l]
           s == Head(q)
<1>1. q \in Seq(Submission) /\ q # <<>> /\ s = q[1] /\ 1 \in DOMAIN q
  BY DEF TypeOK
<1>2. \A i \in DOMAIN Tail(q) : i + 1 \in DOMAIN q /\ i + 1 # 1 /\ Tail(q)[i] = q[i + 1]
  BY <1>1, TailElements
<1>3. \A i \in DOMAIN q : q[i] = s => i = 1
  BY <1>1 DEF OnePlace
<1>4. \A m \in Level : queue'[m] = IF m = l THEN Tail(q) ELSE queue[m]
  BY DEF TypeOK
<1>5. LevelOf[s] = l
  BY <1>1 DEF OnePlace
<1>6. \A m \in Level \ {l} : \A i \in DOMAIN queue[m] : queue[m][i] # s
  BY <1>5 DEF OnePlace
<1>7. \A i \in DOMAIN Tail(q) : Tail(q)[i] # s
  BY <1>2, <1>3
<1> HIDE DEF q, s
<1>8. ASSUME NEW m \in Level
      PROVE  \A i \in DOMAIN queue'[m] : queue'[m][i] # s
  <2>1. CASE m = l
    <3>1. queue'[m] = Tail(q)
      BY <1>4, <2>1
    <3> QED BY <1>7, <3>1
  <2>2. CASE m # l
    <3>1. queue'[m] = queue[m]
      BY <1>4, <2>2
    <3> QED BY <1>6, <2>2, <3>1
  <2> QED BY <2>1, <2>2
<1>9. s \notin Queued'
  BY <1>8 DEF Queued
<1> QED BY <1>9 DEF s, q

\* and one that pops it takes it, or loses it with the reply.
LEMMA TakesPlaces ==
    ASSUME IInv, IInv', NEW w \in Worker, WorkerStep(w), pc[w] = "pop",
           NEW l \in Level, Served(l), queue' = [queue EXCEPT ![l] = Tail(queue[l])],
           UNCHANGED <<client, reports>>,
           NEW s, s = Head(queue[l]),
           job' \in {job, [job EXCEPT ![w] = s]}
    PROVE  /\ s \in Submission /\ s \in Queued /\ s \notin Lost
           /\ Reported' = Reported
           /\ job' # job => Grading' = Grading \cup {s} /\ Lost' = Lost
           /\ job' = job => Grading' = Grading /\ Lost' = Lost \cup {s}
<1> USE TaskQueueAssumption
<1>1. TypeOK /\ OnePlace /\ job[w] = NoJob
  BY DEF IInv, HoldsJob, Held
<1>2. /\ s \in Submission /\ s \in Queued
      /\ Queued' \subseteq Queued /\ Queued \subseteq Queued' \cup {s}
  <2>1. PICK t \in Submission : Takes(w, t) /\ t = Head(queue[l])
    BY <1>1, PopTakes
  <2>2. t = s
    BY <2>1
  <2> QED BY <2>1, <2>2 DEF Takes
<1>3. Reported' = Reported /\ Pushed' = Pushed
  BY DEF Reported, Pushed
<1>4. s \notin Grading /\ s \notin Reported /\ s \in Pushed /\ s \notin Lost
  BY <1>2 DEF IInv, OnePlace, UnpushedNowhere, Lost
<1>5. ASSUME job' # job
      PROVE  Grading' = Grading \cup {s} /\ Lost' = Lost
  <2>1. \A v \in Worker : job'[v] = IF v = w THEN s ELSE job[v]
    BY <1>1, <1>5 DEF TypeOK
  <2>2. Grading' = Grading \cup {s}
    BY <1>1, <1>2, <2>1 DEF Grading
  <2> QED BY <1>2, <1>3, <2>2 DEF Lost
<1>6. ASSUME job' = job
      PROVE  Grading' = Grading /\ Lost' = Lost \cup {s}
  <2>1. Grading' = Grading
    BY <1>6 DEF Grading
  <2>2. s \notin Queued'
    BY <1>1, HeadLeaves DEF Served
  <2> QED BY <1>2, <1>3, <1>4, <2>1, <2>2 DEF Lost
<1> QED BY <1>2, <1>3, <1>4, <1>5, <1>6

\* BLPOP serves the queues in the order of their urgency.
LEMMA PopsInTurn ==
    ASSUME TypeOK, NEW l \in Level, Served(l), queue' = [queue EXCEPT ![l] = Tail(queue[l])]
    PROVE  Service!Dequeue(Head(queue[l]))
<1>1. \A m \in Level : Service!Urgency[m] > Service!Urgency[l] => queue[m] = <<>>
  BY DEF Service!Urgency, Level, Served
<1> QED BY <1>1, WaitingIsQueued DEF Service!Dequeue, Served

\* Delivery extends FiniteSets itself.
LEMMA SameCardinality == ASSUME NEW S PROVE Service!Cardinality(S) = Cardinality(S)
BY DEF Service!Cardinality, Cardinality

\* A worker's step is one of Delivery, or nothing Delivery sees.
LEMMA WorkerServes ==
    ASSUME IInv, IInv', Accounts, Accounts', LostFinite, LostFinite',
           NEW w \in Worker, WorkerStep(w)
    PROVE  [Service!DNext]_(Service!dvars)
<1> USE TaskQueueAssumption
<1>1. TypeOK /\ HoldsJob
  BY DEF IInv
<1>2. faults' \in {faults, faults + 1}
  BY <1>1, TurnsMove
<1>3. LossesPaid
  BY MishapsPay
<1>4. Lost' = Lost => Mishaps' \in {Mishaps, Mishaps + 1}
  BY <1>2, <1>3, SameLost DEF LossesPaid
<1>5. ASSUME UNCHANGED queue, Grading' = Grading, Reported' = Reported, Lost' = Lost
      PROVE  [Service!DNext]_(Service!dvars)
  BY <1>4, <1>5 DEF Service!DNext, Service!Mishap, Service!dvars, Mishaps
<1>6. CASE Keeps
  BY <1>5, <1>6, KeepsPlaces DEF Keeps
<1>7. CASE Drops(w) /\ job[w] = NoJob
  <2>1. Keeps
    BY <1>1, <1>7 DEF Drops, Keeps, TypeOK
  <2> QED BY <1>6, <2>1
<1>8. CASE Drops(w) /\ job[w] # NoJob
  <2>1. /\ job[w] \in Submission /\ job[w] \in Grading
        /\ Grading' = Grading \ {job[w]} /\ Reported' = Reported
        /\ job[w] \notin Lost /\ Lost' = Lost \cup {job[w]}
    BY <1>8, DropsPlaces
  <2>2. Mishaps' \in Mishaps..(Mishaps + 2) /\ Cardinality(Lost) < Mishaps'
    BY <1>2, <2>1, OneMoreLost
  <2>3. Service!LoseTaken(job[w])
    BY <1>8, <2>1, <2>2, SameCardinality DEF Service!LoseTaken, Service!Lose, Drops, Mishaps
  <2> QED BY <2>1, <2>3 DEF Service!DNext
<1>9. CASE Publishes(w)
  <2>1. /\ job[w] \in Submission /\ job[w] \in Grading
        /\ Grading' = Grading \ {job[w]} /\ Reported' = Reported \cup {job[w]}
        /\ Lost' = Lost
    BY <1>9, PublishesPlaces
  <2>2. Service!Answer(job[w])
    BY <1>4, <1>9, <2>1 DEF Service!Answer, Publishes, Mishaps
  <2> QED BY <2>1, <2>2 DEF Service!DNext
<1>10. ASSUME NEW l \in Level, pc[w] = "pop", Served(l),
              queue' = [queue EXCEPT ![l] = Tail(queue[l])], UNCHANGED <<client, reports>>,
              \/ job' = [job EXCEPT ![w] = Head(queue[l])] /\ faults' = faults
              \/ job' = job /\ faults' = faults + 1
       PROVE  [Service!DNext]_(Service!dvars)
  <2> DEFINE s == Head(queue[l])
  <2>1. Service!Dequeue(s)
    BY <1>1, <1>10, PopsInTurn
  <2>2. /\ s \in Submission /\ s \in Queued /\ s \notin Lost
        /\ Reported' = Reported
        /\ job' # job => Grading' = Grading \cup {s} /\ Lost' = Lost
        /\ job' = job => Grading' = Grading /\ Lost' = Lost \cup {s}
    BY <1>10, TakesPlaces
  <2> HIDE DEF s
  <2>3. CASE job' # job
    <3>1. faults' = faults
      BY <1>10, <2>3
    <3>2. Mishaps' = Mishaps
      BY <2>2, <2>3, <3>1 DEF Mishaps, Ungradable
    <3>3. Service!Take(s)
      BY <2>1, <2>2, <2>3, <3>2 DEF Service!Take, Mishaps
    <3> QED BY <2>2, <3>3 DEF Service!DNext
  <2>4. CASE job' = job
    <3>1. Mishaps' \in Mishaps..(Mishaps + 2) /\ Cardinality(Lost) < Mishaps'
      BY <1>2, <2>2, <2>4, OneMoreLost
    <3>2. Service!LoseWaiting(s)
      BY <2>1, <2>2, <2>4, <3>1, SameCardinality
         DEF Service!LoseWaiting, Service!Lose, Mishaps
    <3> QED BY <2>2, <3>2 DEF Service!DNext
  <2> QED BY <2>3, <2>4
<1> QED BY <1>1, <1>6, <1>7, <1>8, <1>9, <1>10, TurnsMove

\* The engine serves submissions by urgency and then in the order of their arrival,
\* answers each at most once, and loses one only at the price of a crash, a lost
\* connection or a signal, or when it has no files or no package: task_queue.py and
\* worker.py implement Delivery, for any deployments, submissions and faults.
THEOREM InOrder == Spec => Service!DSpec
<1>1. Init => Service!DInit
  <2> SUFFICES ASSUME Init
               PROVE  Service!DInit
    OBVIOUS
  <2>1. Lost = {} /\ Grading = {} /\ Reported = {}
    BY TaskQueueAssumption DEF Init, Lost, Pushed, Grading, Reported
  <2>2. Cardinality(Lost \cap Ungradable) = 0
    <3>1. Lost \cap Ungradable = {}
      BY <2>1
    <3> QED BY <3>1, FS_EmptySet
  <2>3. queue = [l \in DOMAIN Service!Urgency |-> <<>>]
    BY DEF Init, Service!Urgency, Level
  <2> QED BY <2>1, <2>2, <2>3 DEF Init, Service!DInit
<1>2. /\ IInv /\ IInv' /\ Accounts /\ Accounts' /\ LostFinite /\ LostFinite'
      /\ [Next]_vars
      => [Service!DNext]_(Service!dvars)
  <2> SUFFICES ASSUME IInv, IInv', Accounts, Accounts', LostFinite, LostFinite', [Next]_vars
               PROVE  [Service!DNext]_(Service!dvars)
    OBVIOUS
  <2>1. CASE UNCHANGED vars
    BY <2>1 DEF vars, redis, local, Service!dvars, Lost, Pushed, Queued, Grading, Reported, Ungradable
  <2>2. ASSUME NEW s \in Submission, ClientStep(s)
        PROVE  [Service!DNext]_(Service!dvars)
    BY <2>2, ClientServes
  <2>3. ASSUME NEW w \in Worker, WorkerStep(w)
        PROVE  [Service!DNext]_(Service!dvars)
    BY <2>3, WorkerServes
  <2> QED BY <2>1, <2>2, <2>3 DEF Next, WorkerStep
<1> QED BY Invariance, AccountsInvariance, LostFiniteInvariance, <1>1, <1>2, PTL
        DEF Spec, Service!DSpec

-----------------------------------------------------------------------------
(* What Delivery comes to for two submissions.                             *)

\* s and t are in one queue, s before t.
Before(s, t) ==
    \E l \in Level : \E i, j \in DOMAIN queue[l] :
        i < j /\ queue[l][i] = s /\ queue[l][j] = t

MoreUrgent(l) ==
    CASE l = "high" -> {} [] l = "medium" -> {"high"} [] OTHER -> {"high", "medium"}

\* Nothing passes a submission in its queue, it leaves only while no more urgent one
\* waits, and never comes back.
Turns ==
    \A s \in Submission :
        /\ \A t \in Submission : Before(s, t) /\ s \in Queued' => Before(s, t)'
        /\ s \in Queued /\ s \notin Queued' =>
              \A l \in MoreUrgent(LevelOf[s]) : queue[l] = <<>>
        /\ s \in Pushed /\ s \notin Queued => s \notin Queued'

InTurn == [][Turns]_vars

\* A client's step adds at the end of a queue what was never in one.
LEMMA ClientTurns ==
    ASSUME IInv, IInv', NEW c \in Submission, ClientStep(c)
    PROVE  Turns
<1>1. /\ Queued' \subseteq Queued \cup {t \in Submission : client[t] = "listed"}
      /\ Queued \subseteq Queued'
  BY ClientPlaces
<1>2. \A l \in Level : \A i \in DOMAIN queue[l] :
         i \in DOMAIN queue'[l] /\ queue'[l][i] = queue[l][i]
  <2>1. CASE Push(c)
    <3>1. LevelOf[c] \in Level /\ queue \in [Level -> Seq(Submission)]
      BY TaskQueueAssumption DEF IInv, TypeOK
    <3>2. SUFFICES ASSUME NEW l \in Level
                   PROVE  \A i \in DOMAIN queue[l] :
                             i \in DOMAIN queue'[l] /\ queue'[l][i] = queue[l][i]
      OBVIOUS
    <3>3. queue'[l] = queue[l] \/ queue'[l] = Append(queue[l], c)
      BY <2>1, <3>1 DEF Push
    <3>4. \A q \in Seq(Submission) : \A i \in DOMAIN q :
             i \in DOMAIN Append(q, c) /\ Append(q, c)[i] = q[i]
      OBVIOUS
    <3>5. queue[l] \in Seq(Submission)
      BY <3>1
    <3> QED BY <3>3, <3>4, <3>5
  <2>2. CASE ~Push(c)
    BY <2>2 DEF ClientStep, PutFile, AddToOrder, Subscribe, GiveUp, redis
  <2> QED BY <2>1, <2>2
<1>3. \A s, t \in Submission : Before(s, t) => Before(s, t)'
  BY <1>2 DEF Before
<1>4. \A s \in Submission : s \in Pushed => client[s] # "listed"
  BY DEF Pushed
<1> QED BY <1>1, <1>3, <1>4 DEF Turns

\* A worker's step leaves the queues alone or takes the head of one.
LEMMA WorkerTurns ==
    ASSUME IInv, NEW w \in Worker, WorkerStep(w)
    PROVE  Turns
<1>1. TypeOK /\ HoldsJob /\ OnePlace
  BY DEF IInv
<1>2. ASSUME queue' = queue
      PROVE  Turns
  BY <1>2 DEF Turns, Before, Queued
<1>3. ASSUME NEW l \in Level, pc[w] = "pop", Served(l), UNCHANGED <<client, reports>>,
             queue' = [queue EXCEPT ![l] = Tail(queue[l])],
             job' \in {job, [job EXCEPT ![w] = Head(queue[l])]}
      PROVE  Turns
  <2> DEFINE q == queue[l]
  <2>1. q \in Seq(Submission) /\ q # <<>> /\ Head(q) = q[1] /\ 1 \in DOMAIN q
    BY <1>1, <1>3 DEF TypeOK, Served
  <2>2. Head(q) \notin Queued' /\ LevelOf[Head(q)] = l
    <3>1. Head(q) \notin Queued'
      BY <1>1, <1>3, <2>1, HeadLeaves
    <3> QED BY <1>1, <2>1, <3>1 DEF OnePlace
  <2>3. Queued' \subseteq Queued /\ Queued \subseteq Queued' \cup {Head(q)}
    <3>1. PICK s \in Submission : Takes(w, s) /\ s = Head(q)
      BY <1>1, <1>3, PopTakes
    <3> QED BY <3>1 DEF Takes
  <2>4. \A m \in Level : queue'[m] = IF m = l THEN Tail(q) ELSE queue[m]
    BY <1>1, <1>3 DEF TypeOK
  <2>5. \A i \in DOMAIN q : i # 1 => i - 1 \in DOMAIN Tail(q) /\ Tail(q)[i - 1] = q[i]
    BY <2>1
  <2>6. \A i, j \in DOMAIN q : i < j => j # 1 /\ i - 1 < j - 1
    BY <2>1
  <2>7. ASSUME NEW s \in Submission, NEW t \in Submission, Before(s, t), s \in Queued'
        PROVE  Before(s, t)'
    <3>1. PICK m, i, j : /\ m \in Level /\ i \in DOMAIN queue[m] /\ j \in DOMAIN queue[m]
                         /\ i < j /\ queue[m][i] = s /\ queue[m][j] = t
      BY <2>7 DEF Before
    <3>2. CASE m # l
      <4>1. queue'[m] = queue[m]
        BY <2>4, <3>1, <3>2
      <4> QED BY <3>1, <4>1 DEF Before
    <3>3. CASE m = l
      <4>1. i # 1
        BY <2>1, <2>2, <2>7, <3>1, <3>3
      <4>2. queue'[m] = Tail(q)
        BY <2>4, <3>3
      <4>3. /\ i - 1 \in DOMAIN queue'[m] /\ j - 1 \in DOMAIN queue'[m] /\ i - 1 < j - 1
            /\ queue'[m][i - 1] = s /\ queue'[m][j - 1] = t
        BY <2>5, <2>6, <3>1, <3>3, <4>1, <4>2
      <4> QED BY <3>1, <4>3 DEF Before
    <3> QED BY <3>2, <3>3
  <2>8. \A m \in MoreUrgent(l) : queue[m] = <<>>
    BY <1>3 DEF Served, MoreUrgent, Level
  <2> QED BY <2>2, <2>3, <2>7, <2>8 DEF Turns
<1>4. ASSUME Publishes(w) \/ Drops(w) \/ Keeps
      PROVE  queue' = queue
  BY <1>4 DEF Publishes, Drops, Keeps
<1> QED BY <1>1, <1>2, <1>3, <1>4, TurnsMove

\* First come, first served: whoever pops, crashes or loses a reply, no submission passes
\* an earlier one of its queue, none leaves while a more urgent one waits, and none is
\* queued twice (BLPOP in task_queue.py, RPUSH in contrib/submit.py).
THEOREM InTurnThm == Spec => InTurn
<1>1. IInv /\ IInv' /\ [Next]_vars => [Turns]_vars
  <2> SUFFICES ASSUME IInv, IInv', Next
               PROVE  Turns
    OBVIOUS
  <2> QED BY ClientTurns, WorkerTurns DEF Next, WorkerStep
<1> QED BY Invariance, <1>1, PTL DEF Spec, InTurn
=============================================================================
