---------------------------- MODULE RunnerProofs ----------------------------
(* Proofs about Runner, for any timeout, slack and speed of the container. *)
EXTENDS Runner, Integers, TLAPS

\* Between tests there is no container; before it runs, nothing is finished.
Boxes ==
    /\ pc \in {"idle", "make", "result"} => box = "none"
    /\ pc = "start" => box = "created"
    /\ asleep => pc \in {"await_ready", "await_finished"}
    /\ verdict # "none" => pc = "idle"

\* The files and the stamps agree, and happen in their order.
Stamps ==
    /\ "finished" \in files <=> finished_at # Never
    /\ pc \in {"make", "start", "await_ready", "reset", "open"} => "ready_ok" \notin files
    /\ pc = "await_finished" => "ready_ok" \in files
    /\ "ready_ok" \in files => opened <= clock
    /\ box \in {"running", "told"} \/ finished_at # Never => "ready_ok" \in files
    /\ pc = "make" \/ box \in {"created", "booting", "ready", "running", "told"}
          => finished_at = Never
    /\ box \in {"running", "told"} => opened <= began /\ began <= clock
    /\ box = "told" => stdout # NoReport /\ began + stdout.exec_time <= clock

\* Once finished was created, the report of this run is on stdout.
Told ==
    /\ finished_at # Never =>
          /\ stdout # NoReport /\ began # Never /\ opened <= began
          /\ began + stdout.exec_time <= finished_at
    /\ pc \in {"stats", "stop", "logs", "remove", "result"} /\ test_finished
          => finished_at # Never
    /\ pc \in {"remove", "result"} /\ test_finished => logs = stdout

\* What is known when the worker has waited for n steps and seen nothing.
Waited(n) ==
    \/ clock = MaxClock
    \/ /\ opened + n <= clock + 1
       /\ finished_at = Never \/ opened + n <= finished_at + 1

Patience ==
    /\ pc = "await_finished" /\ elapsed > 0 => Waited(elapsed)
    /\ pc = "await_finished" /\ ~asleep => clock = MaxClock \/ opened + elapsed <= clock
    /\ pc \in {"stats", "stop", "logs", "remove", "result"} /\ ~test_finished
          => Waited(Timeout + Slack)
    /\ verdict = "hard_timeout" => Waited(Timeout + Slack)

IInv == TypeOK /\ Boxes /\ Stamps /\ Told /\ Patience

USE RunnerAssumption
USE DEF worker, container, stamps

\* No report is one of the reports.
LEMMA NoReportType == NoReport \in Report
BY DEF Report

\* The time in a report is one of the clock.
LEMMA ReportTime == \A r \in Report : r # NoReport => r.exec_time \in 0..MaxClock
BY DEF Report

-----------------------------------------------------------------------------
(* The types.                                                              *)

\* The types hold at first.
LEMMA InitTypeOK == Init => TypeOK
<1> SUFFICES ASSUME Init
             PROVE  TypeOK
  OBVIOUS
<1>1. WorkerTypeOK
  <2>1. elapsed \in 0..(Timeout + Slack + ReadyLimit)
    BY DEF Init
  <2> QED BY <2>1, NoReportType DEF Init, WorkerTypeOK
<1>2. ContainerTypeOK
  BY NoReportType DEF Init, ContainerTypeOK
<1>3. TimeTypeOK
  BY DEF Init, TimeTypeOK, Never
<1> QED BY <1>1, <1>2, <1>3 DEF TypeOK

\* A step of the worker.
LEMMA CallTypeOK == TypeOK /\ (Prepare \/ Call) => TypeOK'
<1> SUFFICES ASSUME TypeOK, Prepare \/ Call
             PROVE  TypeOK'
  OBVIOUS
<1>1. WorkerTypeOK'
  <2> USE DEF TypeOK, WorkerTypeOK, ContainerTypeOK
  <2>1. CASE Prepare
    <3>1. elapsed' \in 0..(Timeout + Slack + ReadyLimit)
      BY <2>1 DEF Prepare
    <3> QED BY <2>1, <3>1, NoReportType DEF Prepare
  <2>2. CASE Make \/ StartBox \/ ResetPeak \/ Open \/ Stats \/ StopBox \/ Logs \/ Remove
    BY <2>2 DEF Make, StartBox, ResetPeak, Open, Stats, StopBox, Logs, Remove
  <2>3. CASE SleepForReady \/ SleepForFinished
    <3>1. elapsed' \in 0..(Timeout + Slack + ReadyLimit)
      BY <2>3 DEF SleepForReady, SleepForFinished, Sleep, Limit
    <3>2. UNCHANGED <<pc, test_finished, logs, verdict>> /\ asleep' = TRUE
      BY <2>3 DEF SleepForReady, SleepForFinished, Sleep
    <3> QED BY <3>1, <3>2
  <2>4. CASE EndAwaitReady
    BY <2>4 DEF EndAwaitReady
  <2>5. CASE EndAwaitFinished
    BY <2>5 DEF EndAwaitFinished
  <2>6. CASE MakeResult
    BY <2>6 DEF MakeResult
  <2>7. CASE Handle \/ Restart
    BY <2>7 DEF Handle, Restart
  <2> QED BY <2>1, <2>2, <2>3, <2>4, <2>5, <2>6, <2>7 DEF Call
<1>2. ContainerTypeOK'
  BY NoReportType
     DEF TypeOK, ContainerTypeOK, Call, Prepare, Make, StartBox, ResetPeak, Open, Stats,
         StopBox, Logs, Remove, SleepForReady, SleepForFinished, Sleep, EndAwaitReady,
         EndAwaitFinished, MakeResult, Handle, Restart
<1>3. TimeTypeOK'
  BY DEF TypeOK, TimeTypeOK, Never, Call, Prepare, Make, StartBox, ResetPeak, Open, Stats,
         StopBox, Logs, Remove, SleepForReady, SleepForFinished, Sleep, EndAwaitReady,
         EndAwaitFinished, MakeResult, Handle, Restart
<1> QED BY <1>1, <1>2, <1>3 DEF TypeOK

\* A step of the container, of time, or a fault.
LEMMA OtherTypeOK ==
    TypeOK /\ Stamps /\ (Script \/ Tick \/ DockerRaises \/ Die) => TypeOK'
<1> SUFFICES ASSUME TypeOK, Stamps, Script \/ Tick \/ DockerRaises \/ Die
             PROVE  TypeOK'
  OBVIOUS
<1>1. CASE EndProgram
  <2>1. clock - began \in 0..MaxClock
    BY <1>1 DEF EndProgram, Stamps, TypeOK, TimeTypeOK
  <2>2. \A code \in {0, 1} : [exit_code |-> code, exec_time |-> clock - began] \in Report
    BY <2>1 DEF Report
  <2>3. stdout' \in Report
    BY <1>1, <2>2 DEF EndProgram
  <2> QED BY <1>1, <2>3 DEF EndProgram, TypeOK, WorkerTypeOK, ContainerTypeOK, TimeTypeOK
<1>2. CASE TouchReady \/ StartProgram \/ TouchFinished
  <2>1. WorkerTypeOK'
    BY <1>2 DEF TouchReady, StartProgram, TouchFinished, TypeOK, WorkerTypeOK
  <2>2. ContainerTypeOK'
    BY <1>2 DEF TouchReady, StartProgram, TouchFinished, TypeOK, ContainerTypeOK
  <2>3. TimeTypeOK'
    BY <1>2 DEF TouchReady, StartProgram, TouchFinished, TypeOK, TimeTypeOK, Never
  <2> QED BY <2>1, <2>2, <2>3 DEF TypeOK
<1>3. CASE Tick
  <2>1. asleep' \in BOOLEAN
    BY <1>3 DEF Tick, TypeOK, WorkerTypeOK
  <2>2. clock' \in 0..MaxClock
    BY <1>3 DEF Tick, TypeOK, TimeTypeOK
  <2> QED BY <1>3, <2>1, <2>2 DEF Tick, TypeOK, WorkerTypeOK, ContainerTypeOK, TimeTypeOK
<1>4. CASE DockerRaises
  BY <1>4 DEF DockerRaises, TypeOK, WorkerTypeOK, ContainerTypeOK, TimeTypeOK
<1>5. CASE Die
  BY <1>5 DEF Die, TypeOK, WorkerTypeOK, ContainerTypeOK, TimeTypeOK
<1> QED BY <1>1, <1>2, <1>3, <1>4, <1>5 DEF Script

-----------------------------------------------------------------------------
(* The other conjuncts, action by action.                                  *)

\* Each step preserves what is known of the container.
LEMMA StepBoxes == TypeOK /\ Boxes /\ Next => Boxes'
<1> SUFFICES ASSUME TypeOK, Boxes, Next
             PROVE  Boxes'
  OBVIOUS
<1> USE DEF Boxes
<1>1. CASE Prepare
  BY <1>1 DEF Prepare
<1>2. CASE Make \/ StartBox \/ ResetPeak \/ Open \/ Stats \/ StopBox \/ Logs \/ Remove
  BY <1>2 DEF Make, StartBox, ResetPeak, Open, Stats, StopBox, Logs, Remove
<1>3. CASE SleepForReady \/ SleepForFinished
  BY <1>3 DEF SleepForReady, SleepForFinished, Sleep
<1>4. CASE EndAwaitReady \/ EndAwaitFinished
  BY <1>4 DEF EndAwaitReady, EndAwaitFinished, Unlocked, TimedOut
<1>5. CASE MakeResult \/ Handle \/ Restart
  BY <1>5 DEF MakeResult, Handle, Restart
<1>6. CASE Script
  BY <1>6 DEF Script, TouchReady, StartProgram, EndProgram, TouchFinished
<1>7. CASE Tick
  <2>1. asleep' => asleep
    BY <1>7, Zenon DEF Tick
  <2> QED BY <1>7, <2>1 DEF Tick
<1>8. CASE DockerRaises \/ Die
  BY <1>8 DEF DockerRaises, Die
<1> QED BY <1>1, <1>2, <1>3, <1>4, <1>5, <1>6, <1>7, <1>8 DEF Next, Call

\* Each step keeps the signals and their times in order.
LEMMA StepStamps == TypeOK /\ Boxes /\ Stamps /\ Next => Stamps'
<1> SUFFICES ASSUME TypeOK, Boxes, Stamps, Next
             PROVE  Stamps'
  OBVIOUS
<1>0. clock \in 0..MaxClock /\ stdout \in Report
  BY DEF TypeOK, TimeTypeOK, ContainerTypeOK
<1> USE <1>0 DEF Stamps
<1>1. CASE Prepare
  BY <1>1 DEF Prepare, Boxes, Never
<1>2. CASE Make \/ StartBox
  BY <1>2 DEF Make, StartBox, Boxes
<1>3. CASE Open
  BY <1>3 DEF Open
<1>4. CASE ResetPeak \/ Stats \/ StopBox \/ Logs \/ Remove
  BY <1>4 DEF ResetPeak, Stats, StopBox, Logs, Remove
<1>5. CASE SleepForReady \/ SleepForFinished \/ EndAwaitReady \/ EndAwaitFinished
  BY <1>5 DEF SleepForReady, SleepForFinished, Sleep, EndAwaitReady, EndAwaitFinished
<1>6. CASE MakeResult \/ Handle \/ Restart
  BY <1>6 DEF MakeResult, Handle, Restart
<1>7. CASE TouchReady \/ StartProgram
  BY <1>7 DEF TouchReady, StartProgram, TypeOK, TimeTypeOK, Never
<1>8. CASE EndProgram
  <2>1. stdout'.exec_time = clock - began /\ stdout' # NoReport
    BY <1>8 DEF EndProgram, NoReport, Never, TypeOK, TimeTypeOK
  <2> QED BY <1>8, <2>1 DEF EndProgram, TypeOK, TimeTypeOK
<1>9. CASE TouchFinished
  BY <1>9 DEF TouchFinished, Boxes, Never
<1>10. CASE Tick
  BY <1>10, ReportTime DEF Tick, TypeOK, TimeTypeOK, Never
<1>11. CASE DockerRaises
  BY <1>11 DEF DockerRaises, Boxes
<1>12. CASE Die
  BY <1>12 DEF Die
<1> QED
  BY <1>1, <1>2, <1>3, <1>4, <1>5, <1>6, <1>7, <1>8, <1>9, <1>10, <1>11, <1>12
     DEF Next, Call, Script

\* Each step preserves that a finished run has reported.
LEMMA StepTold == TypeOK /\ Boxes /\ Stamps /\ Told /\ Next => Told'
<1> SUFFICES ASSUME TypeOK, Boxes, Stamps, Told, Next
             PROVE  Told'
  OBVIOUS
<1> USE DEF Told
<1>1. CASE Prepare
  BY <1>1 DEF Prepare
<1>2. CASE Make
  BY <1>2 DEF Make, Stamps
<1>3. CASE StartBox \/ ResetPeak \/ Stats \/ StopBox \/ Logs \/ Remove
  BY <1>3 DEF StartBox, ResetPeak, Stats, StopBox, Logs, Remove
<1>4. CASE Open
  BY <1>4 DEF Open, Stamps
<1>5. CASE SleepForReady \/ SleepForFinished
  BY <1>5 DEF SleepForReady, SleepForFinished, Sleep
<1>6. CASE EndAwaitReady
  BY <1>6 DEF EndAwaitReady
<1>7. CASE EndAwaitFinished
  BY <1>7 DEF EndAwaitFinished, Unlocked, Stamps
<1>8. CASE MakeResult \/ Handle \/ Restart
  BY <1>8 DEF MakeResult, Handle, Restart
<1>9. CASE TouchReady \/ StartProgram \/ EndProgram
  BY <1>9 DEF TouchReady, StartProgram, EndProgram, Stamps
<1>10. CASE TouchFinished
  BY <1>10 DEF TouchFinished, Stamps, TypeOK, TimeTypeOK, Never
<1>11. CASE Tick
  BY <1>11 DEF Tick
<1>12. CASE DockerRaises
  BY <1>12 DEF DockerRaises
<1>13. CASE Die
  BY <1>13 DEF Die
<1> QED
  BY <1>1, <1>2, <1>3, <1>4, <1>5, <1>6, <1>7, <1>8, <1>9, <1>10, <1>11, <1>12, <1>13
     DEF Next, Call, Script

-----------------------------------------------------------------------------
(* What the worker knows when it gives up.                                 *)

\* Waiting is not undone by the passing of time.
LEMMA WaitedTick ==
    ASSUME TypeOK, NEW n \in Nat, Waited(n), Tick
    PROVE  Waited(n)'
BY DEF Waited, Tick, TypeOK, TimeTypeOK

\* Nor by a signal that arrives after the wait.
LEMMA WaitedTouch ==
    ASSUME TypeOK, NEW n \in Nat, Waited(n), TouchFinished
    PROVE  Waited(n)'
BY DEF Waited, TouchFinished, TypeOK, TimeTypeOK

\* A wait that was long enough stays so.
LEMMA WaitedStays ==
    ASSUME NEW n, Waited(n), UNCHANGED <<clock, opened, finished_at>>
    PROVE  Waited(n)'
BY DEF Waited

\* Each step preserves what the worker's waiting tells it.
LEMMA StepPatience == TypeOK /\ Boxes /\ Stamps /\ Patience /\ Next => Patience'
<1> SUFFICES ASSUME TypeOK, Boxes, Stamps, Patience, Next
             PROVE  Patience'
  OBVIOUS
<1> USE DEF Patience
<1>0. elapsed \in Nat /\ Timeout + Slack \in Nat /\ Timeout + Slack > 0
  BY DEF TypeOK, WorkerTypeOK
<1>1. CASE Prepare
  BY <1>1 DEF Prepare
<1>2. CASE Make \/ StartBox \/ ResetPeak \/ Logs \/ Remove \/ Stats \/ StopBox
  <2>1. UNCHANGED <<clock, opened, finished_at, test_finished, verdict>>
    BY <1>2 DEF Make, StartBox, ResetPeak, Logs, Remove, Stats, StopBox
  <2>2. Waited(Timeout + Slack) => Waited(Timeout + Slack)'
    BY <2>1, WaitedStays
  <2> QED
    BY <1>2, <2>1, <2>2 DEF Make, StartBox, ResetPeak, Logs, Remove, Stats, StopBox
<1>3. CASE Open
  BY <1>3 DEF Open, Boxes, TypeOK, TimeTypeOK
<1>4. CASE SleepForReady
  BY <1>4 DEF SleepForReady, Sleep, Boxes
<1>5. CASE SleepForFinished
  <2>1. finished_at = Never /\ (clock = MaxClock \/ opened + elapsed <= clock)
    BY <1>5 DEF SleepForFinished, Sleep, Stamps
  <2>2. Waited(elapsed + 1)
    BY <1>0, <2>1 DEF Waited, TypeOK, TimeTypeOK
  <2>3. elapsed' = elapsed + 1 /\ asleep' = TRUE /\ pc' = pc /\ verdict' = verdict
    BY <1>5 DEF SleepForFinished, Sleep
  <2>4. UNCHANGED <<clock, opened, finished_at>>
    BY <1>5 DEF SleepForFinished, Sleep
  <2>5. Waited(elapsed)'
    BY <2>2, <2>3, <2>4 DEF Waited
  <2> QED BY <1>5, <2>3, <2>5 DEF SleepForFinished, Boxes
<1>6. CASE EndAwaitReady
  BY <1>6 DEF EndAwaitReady, Boxes
<1>7. CASE EndAwaitFinished
  <2>1. UNCHANGED <<clock, opened, finished_at, verdict>> /\ pc = "await_finished"
    BY <1>7 DEF EndAwaitFinished
  <2>2. ~test_finished' => elapsed >= Timeout + Slack
    BY <1>7 DEF EndAwaitFinished, TimedOut, Limit
  <2>3. ~test_finished' => Waited(Timeout + Slack)
    BY <1>0, <2>1, <2>2 DEF Waited, TypeOK, TimeTypeOK
  <2>4. ~test_finished' => Waited(Timeout + Slack)'
    BY <2>1, <2>3, WaitedStays
  <2> QED BY <1>7, <2>1, <2>4 DEF EndAwaitFinished, Boxes
<1>8. CASE MakeResult
  <2>1. Waited(Timeout + Slack) => Waited(Timeout + Slack)'
    BY <1>8, WaitedStays DEF MakeResult
  <2> QED BY <1>8, <2>1 DEF MakeResult, Boxes
<1>9. CASE Handle \/ Restart \/ DockerRaises \/ Die
  <2>1. verdict' = "none" /\ UNCHANGED <<clock, opened, finished_at>>
    BY <1>9 DEF Handle, Restart, DockerRaises, Die, Boxes
  <2> QED BY <1>9, <2>1 DEF Handle, Restart, DockerRaises, Die
<1>10. CASE TouchReady \/ StartProgram \/ EndProgram
  <2>1. UNCHANGED <<clock, opened, finished_at, worker>>
    BY <1>10 DEF TouchReady, StartProgram, EndProgram
  <2>2. \A n \in Nat : Waited(n) => Waited(n)'
    BY <2>1, WaitedStays
  <2> QED BY <1>0, <2>1, <2>2
<1>11. CASE TouchFinished
  <2>1. UNCHANGED <<clock, opened, worker>>
    BY <1>11 DEF TouchFinished
  <2>2. \A n \in Nat : Waited(n) => Waited(n)'
    BY <1>11, WaitedTouch
  <2> QED BY <1>0, <2>1, <2>2
<1>12. CASE Tick
  <2>1. UNCHANGED <<pc, elapsed, test_finished, verdict, opened, finished_at>>
    BY <1>12 DEF Tick
  <2>2. \A n \in Nat : Waited(n) => Waited(n)'
    BY <1>12, WaitedTick
  <2>3. pc = "await_finished" => clock' = MaxClock \/ opened + elapsed <= clock'
    <3>1. clock' = MaxClock \/ (clock # MaxClock /\ clock' = clock + 1)
      BY <1>12 DEF Tick, TypeOK, TimeTypeOK
    <3>2. CASE pc = "await_finished" /\ elapsed > 0
      <4>1. clock = MaxClock \/ opened + elapsed <= clock + 1
        BY <3>2 DEF Waited
      <4>2. clock \in Nat /\ opened \in Int /\ MaxClock \in Nat
        BY DEF TypeOK, TimeTypeOK, Never
      <4>3. CASE clock # MaxClock /\ clock' = clock + 1
        BY <1>0, <4>1, <4>2, <4>3
      <4>4. CASE clock' = MaxClock
        BY <4>4
      <4> QED BY <3>1, <4>3, <4>4
    <3>3. CASE pc = "await_finished" /\ elapsed = 0
      BY <1>0, <3>1, <3>3 DEF Stamps, TypeOK, TimeTypeOK
    <3> QED BY <1>0, <3>2, <3>3
  <2> QED BY <1>0, <2>1, <2>2, <2>3
<1> QED
  BY <1>1, <1>2, <1>3, <1>4, <1>5, <1>6, <1>7, <1>8, <1>9, <1>10, <1>11, <1>12
     DEF Next, Call, Script

-----------------------------------------------------------------------------
(* The inductive invariant and what follows from it.                       *)

\* The invariant holds at first.
LEMMA InitIInv == Init => IInv
<1>1. Init => Boxes /\ Stamps /\ Told
  BY DEF Init, Boxes, Stamps, Told
<1>2. Init => Patience
  BY DEF Init, Patience
<1> QED BY <1>1, <1>2, InitTypeOK DEF IInv

\* The wrapper and the worker agree on what happened, in every reachable state.
THEOREM Invariance == Spec => []IInv
<1>1. IInv /\ [Next]_vars => IInv'
  <2> SUFFICES ASSUME IInv, [Next]_vars
               PROVE  IInv'
    OBVIOUS
  <2>1. CASE Next
    <3>1. TypeOK'
      BY <2>1, CallTypeOK, OtherTypeOK DEF Next, IInv
    <3> QED BY <2>1, <3>1, StepBoxes, StepStamps, StepTold, StepPatience DEF IInv
  <2>2. CASE UNCHANGED vars
    <3>1. TypeOK'
      BY <2>2 DEF vars, IInv, TypeOK, WorkerTypeOK, ContainerTypeOK, TimeTypeOK
    <3>2. Boxes' /\ Stamps' /\ Told'
      BY <2>2 DEF vars, IInv, Boxes, Stamps, Told
    <3>3. Patience'
      BY <2>2 DEF vars, IInv, Patience, Waited
    <3> QED BY <3>1, <3>2, <3>3 DEF IInv
  <2> QED BY <2>1, <2>2
<1> QED BY InitIInv, <1>1, PTL DEF Spec

\* No failed call and no death of the worker leaves a container behind for the
\* next test.
THEOREM NoStrayThm == Spec => []NoStray
<1>1. IInv => NoStray
  BY DEF IInv, Boxes, NoStray
<1> QED BY Invariance, <1>1, PTL

\* Whenever the worker has seen finished, the report of this very run is there.
THEOREM FinishedMeansToldThm == Spec => []FinishedMeansTold
<1>1. IInv => FinishedMeansTold
  BY DEF IInv, Told, FinishedMeansTold
<1> QED BY Invariance, <1>1, PTL

\* A script that finished within the limit is never called a hard timeout, for
\* any timeout and slack and however late the worker polls.
THEOREM PatientTimeoutThm == Spec => []PatientTimeout
<1>1. IInv => PatientTimeout
  BY DEF IInv, Patience, Waited, PatientTimeout, TypeOK, TimeTypeOK
<1> QED BY Invariance, <1>1, PTL

\* The types, for any limits.
THEOREM TypeCorrect == Spec => []TypeOK
<1>1. IInv => TypeOK
  BY DEF IInv
<1> QED BY Invariance, <1>1, PTL

-----------------------------------------------------------------------------
(* The memory peak.                                                        *)

\* The counter is reset before ready_ok exists, and only ready_ok lets the script
\* go on to the program.
Peaks ==
    /\ "ready_ok" \in files \/ pc = "open" => peak # "boot"
    /\ box \in {"running", "told", "asleep"} => "ready_ok" \in files /\ peak = "program"

\* The worker's calls keep what is known of the peaks,
LEMMA CallPeaks ==
    ASSUME IInv, Peaks, Prepare \/ Call
    PROVE  Peaks'
<1> USE DEF Peaks, IInv, Boxes, Stamps, TypeOK, ContainerTypeOK
<1>1. CASE Prepare \/ Make \/ StartBox
  BY <1>1 DEF Prepare, Make, StartBox
<1>2. CASE SleepForReady \/ SleepForFinished
  BY <1>2 DEF SleepForReady, SleepForFinished, Sleep
<1>3. CASE EndAwaitReady \/ EndAwaitFinished
  BY <1>3 DEF EndAwaitReady, EndAwaitFinished
<1>4. CASE ResetPeak
  BY <1>4 DEF ResetPeak
<1>5. CASE Open
  BY <1>5 DEF Open
<1>6. CASE Stats \/ StopBox \/ Logs \/ Remove \/ MakeResult \/ Handle \/ Restart
  BY <1>6 DEF Stats, StopBox, Logs, Remove, MakeResult, Handle, Restart
<1> QED BY <1>1, <1>2, <1>3, <1>4, <1>5, <1>6 DEF Call

\* and so do the script, the clock and the failures.
LEMMA OtherPeaks ==
    ASSUME IInv, Peaks, Script \/ Tick \/ DockerRaises \/ Die
    PROVE  Peaks'
<1> USE DEF Peaks, IInv, Boxes, Stamps, TypeOK, ContainerTypeOK
<1>1. CASE Script
  BY <1>1 DEF Script, TouchReady, StartProgram, EndProgram, TouchFinished
<1>2. CASE Tick \/ Die
  BY <1>2 DEF Tick, Die
<1>3. CASE DockerRaises
  BY <1>3 DEF DockerRaises
<1> QED BY <1>1, <1>2, <1>3

\* The peak that do_wait reads is that of the program and never of the start of
\* its container (bin.py:90-91), however the two interleave.
THEOREM PeakIsOfProgramThm == Spec => []PeakIsOfProgram
<1>1. Init => Peaks
  BY DEF Init, Peaks
<1>2. IInv /\ Peaks /\ [Next]_vars => Peaks'
  <2>1. ASSUME Peaks, UNCHANGED vars
        PROVE  Peaks'
    BY <2>1 DEF vars, Peaks
  <2> QED BY <2>1, CallPeaks, OtherPeaks DEF Next
<1>3. Peaks => PeakIsOfProgram
  BY DEF Peaks, PeakIsOfProgram
<1> QED BY Invariance, <1>1, <1>2, <1>3, PTL DEF Spec
=============================================================================
