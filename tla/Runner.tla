-------------------------------- MODULE Runner --------------------------------
(***************************************************************************)
(* runners/bin.py and runners/bin/run-bin.sh: one test at a time in a      *)
(* container of its own.  The worker and the wrapper script inside the     *)
(* container share a directory and signal each other by creating files in  *)
(* it (ready, ready_ok, finished) that the other one polls; the worker     *)
(* gives up after a number of polls.  Around them, the ways a test can be  *)
(* cut short: a Docker call that raises, the handlers of main that remove  *)
(* the containers left behind, the death of the worker.                    *)
(*                                                                         *)
(* Time is counted in steps of file_spinlock.  A sleep lasts at least one  *)
(* step and may last longer; the container runs at its own speed.          *)
(***************************************************************************)
EXTENDS Naturals

CONSTANTS
    Timeout,        \* limits.timeout of the package
    Slack,          \* what do_wait adds to it, 0.5 seconds
    ReadyLimit,     \* how long do_run waits for "ready", 1 second
    MaxClock,       \* bound: the clock of a test stops there
    Unreliable      \* Docker calls may raise and the worker may die

ASSUME RunnerAssumption ==
    /\ Timeout \in Nat \ {0} /\ Slack \in Nat /\ ReadyLimit \in Nat \ {0}
    /\ MaxClock \in Nat /\ MaxClock > Timeout + Slack + ReadyLimit
    /\ Unreliable \in BOOLEAN

VARIABLES
    \* the worker
    pc,             \* its next call
    elapsed,        \* of the file_spinlock it is in
    asleep,         \* between two polls
    test_finished,  \* what the second file_spinlock returned
    logs,           \* the stdout that destroy_container collected
    verdict,        \* the status of the last ExecStatus
    \* the container
    box,            \* what its wrapper script does
    files,          \* the signals in the directories it shares with the worker
    stdout,         \* the JSON it printed
    peak,           \* what the memory peak counter measures
    \* time, since do_prepare
    clock,
    opened,         \* when ready_ok was created
    began,          \* TIMESTART
    finished_at     \* when finished was created

worker == <<pc, elapsed, asleep, test_finished, logs, verdict>>
container == <<box, files, stdout, peak>>
stamps == <<opened, began, finished_at>>
vars == <<worker, container, clock, stamps>>

Never == MaxClock + 1
NoReport == [exit_code |-> 0, exec_time |-> Never]
Report == [exit_code : {0, 1}, exec_time : 0..MaxClock] \cup {NoReport}

WorkerTypeOK ==
    /\ pc \in {"idle", "make", "start", "await_ready", "reset", "open", "await_finished",
               "stats", "stop", "logs", "remove", "result", "raised", "down"}
    /\ elapsed \in 0..(Timeout + Slack + ReadyLimit)
    /\ asleep \in BOOLEAN
    /\ test_finished \in BOOLEAN
    /\ logs \in Report
    /\ verdict \in {"none", "ok", "bad_exit_code", "soft_timeout", "hard_timeout"}

ContainerTypeOK ==
    /\ box \in {"none", "created", "stopped", "booting", "ready", "running", "told", "asleep"}
    /\ files \subseteq {"ready", "ready_ok", "finished"}
    /\ stdout \in Report
    /\ peak \in {"nothing", "boot", "program"}

TimeTypeOK ==
    /\ clock \in 0..MaxClock
    /\ opened \in 0..Never
    /\ began \in 0..Never
    /\ finished_at \in 0..Never

TypeOK == WorkerTypeOK /\ ContainerTypeOK /\ TimeTypeOK

Init ==
    /\ pc = "idle" /\ elapsed = 0 /\ asleep = FALSE /\ test_finished = FALSE
    /\ logs = NoReport /\ verdict = "none"
    /\ box = "none" /\ files = {} /\ stdout = NoReport /\ peak = "nothing"
    /\ clock = 0 /\ opened = Never /\ began = Never /\ finished_at = Never

-----------------------------------------------------------------------------
(* do_prepare and do_run.                                                  *)

\* Faulty variant: the directory of the last test is reused.
PrepareKeepsFiles ==
    /\ pc = "idle"
    /\ pc' = "make"
    /\ elapsed' = 0 /\ test_finished' = FALSE /\ logs' = NoReport /\ verdict' = "none"
    /\ clock' = 0 /\ opened' = Never /\ began' = Never /\ finished_at' = Never
    /\ UNCHANGED <<asleep, container>>

\* do_prepare: a fresh directory for a fresh test, of which nothing is known.
Prepare ==
    /\ pc = "idle"
    /\ pc' = "make"
    /\ files' = {}
    /\ elapsed' = 0 /\ test_finished' = FALSE /\ logs' = NoReport /\ verdict' = "none"
    /\ clock' = 0 /\ opened' = Never /\ began' = Never /\ finished_at' = Never
    /\ UNCHANGED <<asleep, box, stdout, peak>>

\* make_container.
Make ==
    /\ pc = "make"
    /\ pc' = "start"
    /\ box' = "created"
    /\ stdout' = NoReport
    /\ UNCHANGED <<elapsed, asleep, test_finished, logs, verdict, files, peak, clock, stamps>>

\* docker_cli.start, and the first file_spinlock begins.
StartBox ==
    /\ pc = "start"
    /\ pc' = "await_ready"
    /\ elapsed' = 0
    /\ box' = "booting"
    /\ peak' = "boot"
    /\ UNCHANGED <<asleep, test_finished, logs, verdict, files, stdout, clock, stamps>>

\* Faulty variant: the steps are not counted.
SleepUncounted(file, limit) ==
    /\ ~asleep
    /\ elapsed < limit
    /\ file \notin files
    /\ asleep' = TRUE
    /\ UNCHANGED <<pc, elapsed, test_finished, logs, verdict, container, clock, stamps>>

\* file_spinlock finds nothing and sleeps for a step.
Sleep(file, limit) ==
    /\ ~asleep
    /\ elapsed < limit
    /\ file \notin files
    /\ elapsed' = elapsed + 1
    /\ asleep' = TRUE
    /\ UNCHANGED <<pc, test_finished, logs, verdict, container, clock, stamps>>

\* file_spinlock returns TRUE, or FALSE when its time is over: without looking
\* once more after its last sleep.
Unlocked(file, limit) == ~asleep /\ elapsed < limit /\ file \in files
TimedOut(limit) == ~asleep /\ elapsed >= limit

SleepForReady == pc = "await_ready" /\ Sleep("ready", ReadyLimit)

\* The wrapper answered, or do_run raises RuntimeError.
EndAwaitReady ==
    /\ pc = "await_ready"
    /\ \/ Unlocked("ready", ReadyLimit) /\ pc' = "reset"
       \/ TimedOut(ReadyLimit) /\ pc' = "raised"
    /\ UNCHANGED <<elapsed, asleep, test_finished, logs, verdict, container, clock, stamps>>

\* reset_memory_peak.
ResetPeak ==
    /\ pc = "reset"
    /\ pc' = "open"
    /\ peak' = IF box = "running" THEN "program" ELSE "nothing"
    /\ UNCHANGED <<elapsed, asleep, test_finished, logs, verdict, box, files, stdout, clock, stamps>>

\* ready_ok is created; do_run returns and do_wait begins.
Open ==
    /\ pc = "open"
    /\ pc' = "await_finished"
    /\ elapsed' = 0
    /\ files' = files \cup {"ready_ok"}
    /\ opened' = clock
    /\ UNCHANGED <<asleep, test_finished, logs, verdict, box, stdout, peak, clock, began, finished_at>>

-----------------------------------------------------------------------------
(* do_wait and make_result.                                                *)

\* Faulty variant: no time is left for the container to start and report.
LimitWithoutSlack == Timeout

\* limit_sec of do_wait.
Limit == Timeout + Slack

SleepForFinished == pc = "await_finished" /\ Sleep("finished", Limit)

EndAwaitFinished ==
    /\ pc = "await_finished"
    /\ \/ Unlocked("finished", Limit) /\ test_finished' = TRUE
       \/ TimedOut(Limit) /\ test_finished' = FALSE
    /\ pc' = "stats"
    /\ UNCHANGED <<elapsed, asleep, logs, verdict, container, clock, stamps>>

\* quickly_get_stats, or docker_cli.stats when it is not available.
Stats ==
    /\ pc = "stats"
    /\ pc' = "stop"
    /\ UNCHANGED <<elapsed, asleep, test_finished, logs, verdict, container, clock, stamps>>

\* destroy_container: stop, logs, remove.
StopBox ==
    /\ pc = "stop"
    /\ pc' = "logs"
    /\ box' = "stopped"
    /\ UNCHANGED <<elapsed, asleep, test_finished, logs, verdict, files, stdout, peak, clock, stamps>>

Logs ==
    /\ pc = "logs"
    /\ pc' = "remove"
    /\ logs' = stdout
    /\ UNCHANGED <<elapsed, asleep, test_finished, verdict, container, clock, stamps>>

Remove ==
    /\ pc = "remove"
    /\ pc' = "result"
    /\ box' = "none"
    /\ UNCHANGED <<elapsed, asleep, test_finished, logs, verdict, files, stdout, peak, clock, stamps>>

\* make_result; json.loads of a missing report raises.
MakeResult ==
    /\ pc = "result"
    /\ verdict' = IF ~test_finished THEN "hard_timeout"
                  ELSE IF logs = NoReport THEN verdict
                  ELSE IF logs.exit_code # 0 THEN "bad_exit_code"
                  ELSE IF logs.exec_time < Timeout THEN "ok"
                  ELSE "soft_timeout"
    /\ pc' = IF test_finished /\ logs = NoReport THEN "raised" ELSE "idle"
    /\ UNCHANGED <<elapsed, asleep, test_finished, logs, container, clock, stamps>>

-----------------------------------------------------------------------------
(* run-bin.sh.                                                             *)

TouchReady ==
    /\ box = "booting"
    /\ box' = "ready"
    /\ files' = files \cup {"ready"}
    /\ UNCHANGED <<worker, stdout, peak, clock, stamps>>

\* Faulty variant: TIMESTART is not taken.
StartProgramUntimed ==
    /\ box = "ready"
    /\ "ready_ok" \in files
    /\ box' = "running"
    /\ peak' = IF peak = "nothing" THEN "program" ELSE peak
    /\ UNCHANGED <<worker, files, stdout, clock, stamps>>

\* The loop ends and the program starts.
StartProgram ==
    /\ box = "ready"
    /\ "ready_ok" \in files
    /\ box' = "running"
    /\ peak' = IF peak = "nothing" THEN "program" ELSE peak
    /\ began' = clock
    /\ UNCHANGED <<worker, files, stdout, clock, opened, finished_at>>

\* The program exits; the script prints what it measured.
EndProgram ==
    /\ box = "running"
    /\ box' = "told"
    /\ \E code \in {0, 1} :
          stdout' = [exit_code |-> code, exec_time |-> clock - began]
    /\ UNCHANGED <<worker, files, peak, clock, stamps>>

\* Faulty variant: finished is created before the report is printed.
TouchFinishedEarly ==
    /\ box = "running"
    /\ box' = "running"
    /\ files' = files \cup {"finished"}
    /\ finished_at' = IF finished_at = Never THEN clock ELSE finished_at
    /\ UNCHANGED <<worker, stdout, peak, clock, opened, began>>

\* Then it creates finished, and sleeps until it is stopped.
TouchFinished ==
    /\ box = "told"
    /\ box' = "asleep"
    /\ files' = files \cup {"finished"}
    /\ finished_at' = clock
    /\ UNCHANGED <<worker, stdout, peak, clock, opened, began>>

Script == TouchReady \/ StartProgram \/ EndProgram \/ TouchFinished

-----------------------------------------------------------------------------
(* Time, faults, and what main does about them.                            *)

\* A step of time; a worker that sleeps may wake.
Tick ==
    /\ pc # "idle"
    /\ clock' = IF clock < MaxClock THEN clock + 1 ELSE clock
    /\ asleep' \in {asleep, FALSE}
    /\ UNCHANGED <<pc, elapsed, test_finished, logs, verdict, container, stamps>>

\* The last step of a sleep.
Wake == asleep /\ Tick /\ ~asleep'

\* A Docker call raises, done or not.
DockerRaises ==
    /\ Unreliable
    /\ pc \in {"make", "start", "reset", "stats", "stop", "logs", "remove"}
    /\ pc' = "raised"
    /\ \/ pc = "make" /\ box' = "created"
       \/ pc = "start" /\ box' = "booting"
       \/ pc = "stop" /\ box' = "stopped"
       \/ pc = "remove" /\ box' = "none"
       \/ UNCHANGED box
    /\ UNCHANGED <<elapsed, asleep, test_finished, logs, verdict, files, stdout, peak, clock, stamps>>

\* Faulty variant: the handler reports and cleans nothing up.
HandleWithoutCleanup ==
    /\ pc = "raised"
    /\ pc' = "idle"
    /\ UNCHANGED <<elapsed, asleep, test_finished, logs, verdict, container, clock, stamps>>

\* main catches PluginError: check_lost_containers removes what is left.
Handle ==
    /\ pc = "raised"
    /\ pc' = "idle"
    /\ box' = "none"
    /\ UNCHANGED <<elapsed, asleep, test_finished, logs, verdict, files, stdout, peak, clock, stamps>>

\* The worker dies: killed, or of a Docker call that raises inside the handler.
Die ==
    /\ Unreliable
    /\ pc \notin {"idle", "down"}
    /\ pc' = "down"
    /\ asleep' = FALSE
    /\ UNCHANGED <<elapsed, test_finished, logs, verdict, container, clock, stamps>>

\* systemd starts it again: check_lost_containers comes before the first job.
Restart ==
    /\ pc = "down"
    /\ pc' = "idle"
    /\ box' = "none"
    /\ UNCHANGED <<elapsed, asleep, test_finished, logs, verdict, files, stdout, peak, clock, stamps>>

Call ==
    Make \/ StartBox \/ SleepForReady \/ EndAwaitReady \/ ResetPeak \/ Open
        \/ SleepForFinished \/ EndAwaitFinished \/ Stats \/ StopBox \/ Logs \/ Remove
        \/ MakeResult \/ Handle \/ Restart

Next == Prepare \/ Call \/ Script \/ Tick \/ DockerRaises \/ Die

Spec == Init /\ [][Next]_vars

\* The worker goes on and its sleeps end; the container owes nobody a step.
FairSpec == Spec /\ WF_vars(Call) /\ WF_vars(Wake)

-----------------------------------------------------------------------------
\* Between two tests no container is left, whatever call failed and wherever
\* the worker died: a leaked container would keep running the program.
NoStray == pc = "idle" => box = "none"

\* What the script measured is there whenever the worker has seen finished, and
\* is of this run: the signal comes after the report, and never from the test
\* before.
FinishedMeansTold ==
    pc = "result" /\ test_finished =>
        /\ logs # NoReport
        /\ began # Never /\ opened <= began
        /\ began + logs.exec_time <= finished_at

\* A program whose script finished within the limit after ready_ok is never
\* called a hard timeout, however long the worker's own sleeps are.  The last
\* poll is one step before the limit.  (A clock at its bound is not exact.)
PatientTimeout ==
    verdict = "hard_timeout" /\ clock < MaxClock =>
        finished_at = Never \/ finished_at >= opened + Timeout + Slack - 1

\* The peak is measured from the start of the program: "we need to reset the
\* counter to zero after the container has initialized" (bin.py:90-91), and the
\* program must not run before that.
PeakIsOfProgram == box \in {"running", "told", "asleep"} => peak = "program"

\* Every test ends, though the program may never: the worker returns to its loop.
TestEnds == pc = "make" ~> pc = "idle"
=============================================================================
