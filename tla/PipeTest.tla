------------------------------- MODULE PipeTest -------------------------------
(***************************************************************************)
(* env_provider/pipe.py: one test of a program that talks to a service of  *)
(* the package, each in a container of its own, through two named pipes.   *)
(* The worker starts the service's container, then the program's, waits    *)
(* for the service to say that it has opened both pipes, then for the      *)
(* program and for the service, and grades what the service printed.       *)
(*                                                                         *)
(* Runner has the handshake with one container in detail; here it is one   *)
(* step to let a script go.  Time is left out: a wait may expire whenever  *)
(* what it waits for has not happened.                                     *)
(***************************************************************************)
EXTENDS Naturals

CONSTANTS
    Troubles,       \* what may go wrong
    NoResult        \* no output of the service that json.loads accepts

Box == {"srv", "exc"}   \* srv_container and exc_container

ASSUME PipeTestAssumption ==
    /\ Troubles \subseteq
          {"boot", "unready", "slow_exc", "slow_srv", "crash", "garbled", "docker"}
    /\ NoResult \notin {0, 1}

VARIABLES
    pc,             \* what the worker does next
    at,             \* and with which container
    box,            \* how far the script in each container is
    ready_ok,       \* the containers whose script was let go
    srv_ready,      \* work/srv/out/srv-ready exists
    exit,           \* exit code of each program
    output,         \* the points in work/srv/out/output.txt
    res,            \* the status of exc_res and svc_res
    verdict,        \* the status of the TestStatus, or internal_error
    points,         \* its points
    trouble         \* what went wrong in this test

worker == <<pc, at, res, verdict, points>>
programs == <<exit, output, srv_ready>>
vars == <<worker, box, ready_ok, programs, trouble>>

Opening == {"open_in", "open_out"}
Timeout == {"soft_timeout", "hard_timeout"}

TypeOK ==
    /\ pc \in {"idle", "run", "boot", "await_service", "wait", "stop", "grade", "raised"}
    /\ at \in Box
    /\ box \in [Box -> {"none", "booting", "ready", "greet", "running", "ended", "told"} \cup Opening]
    /\ ready_ok \subseteq Box
    /\ srv_ready \in BOOLEAN
    /\ exit \in [Box -> {0, 1}]
    /\ output \in {0, 1, NoResult}
    /\ res \in [Box -> {"none", "ok", "bad_exit_code"} \cup Timeout]
    /\ verdict \in {"none", "ok", "bad_exit_code", "hard_timeout", "internal_error"}
    /\ points \in {0, 1}
    /\ trouble \subseteq Troubles

Init ==
    /\ pc = "idle" /\ at = "srv"
    /\ box = [c \in Box |-> "none"] /\ ready_ok = {} /\ srv_ready = FALSE
    /\ exit = [c \in Box |-> 0] /\ output = NoResult /\ res = [c \in Box |-> "none"]
    /\ verdict = "none" /\ points = 0 /\ trouble = {}

\* What goes wrong is on record for the test.
Trouble(what) == what \in Troubles /\ trouble' = trouble \cup {what}

Fine == UNCHANGED trouble

-----------------------------------------------------------------------------
(* do_run_test.                                                            *)

\* Both directories are made anew, with the pipes in the program's.
Prepare ==
    /\ pc = "idle"
    /\ pc' = "run" /\ at' = "srv"
    /\ ready_ok' = {} /\ srv_ready' = FALSE
    /\ exit' = [c \in Box |-> 0] /\ output' = NoResult /\ res' = [c \in Box |-> "none"]
    /\ verdict' = "none" /\ points' = 0 /\ trouble' = {}
    /\ UNCHANGED box

\* do_run of a container begins.
Run ==
    /\ pc = "run"
    /\ pc' = "boot"
    /\ box' = [box EXCEPT ![at] = "booting"]
    /\ UNCHANGED <<at, ready_ok, programs, res, verdict, points, trouble>>

\* Its script is ready and is let go; the program's container comes after the
\* service's.
Unlock ==
    /\ pc = "boot" /\ box[at] = "ready"
    /\ ready_ok' = ready_ok \cup {at}
    /\ \/ at = "srv" /\ pc' = "run" /\ at' = "exc"
       \/ at = "exc" /\ pc' = "await_service" /\ UNCHANGED at
    /\ UNCHANGED <<box, programs, res, verdict, points, trouble>>

\* The script does not say ready within a second.
NotReady ==
    /\ pc = "boot" /\ box[at] # "ready"
    /\ Trouble("boot")
    /\ pc' = "raised"
    /\ UNCHANGED <<at, box, ready_ok, programs, res, verdict, points>>

\* Faulty variant: the program is timed at once.
AwaitServiceNot ==
    /\ pc = "await_service"
    /\ pc' = "wait" /\ at' = "exc"
    /\ UNCHANGED <<box, ready_ok, programs, res, verdict, points, trouble>>

\* srv-ready appears, or "Service didn't started within 1 second."
AwaitService ==
    /\ pc = "await_service"
    /\ \/ srv_ready /\ pc' = "wait" /\ at' = "exc" /\ Fine
       \/ ~srv_ready /\ pc' = "raised" /\ Trouble("unready") /\ UNCHANGED at
    /\ UNCHANGED <<box, ready_ok, programs, res, verdict, points>>

SlowOf(c) == IF c = "srv" THEN "slow_srv" ELSE "slow_exc"

\* Faulty variant: the wait for finished has no limit.
WaitForever ==
    /\ pc = "wait"
    /\ box[at] = "told"
    /\ res' = [res EXCEPT ![at] = IF exit[at] = 0 THEN "ok" ELSE "bad_exit_code"]
    /\ pc' = "stop"
    /\ UNCHANGED <<at, box, ready_ok, programs, verdict, points, trouble>>

\* do_wait of a container: the script has told the exit code and the time, or
\* the wait expires.  The max_time of 0.0 for a service whose program timed out
\* is no maximum.
Wait ==
    /\ pc = "wait"
    /\ \/ /\ box[at] = "told"
          /\ res' = [res EXCEPT ![at] = IF exit[at] = 0 THEN "ok" ELSE "bad_exit_code"]
          /\ Fine
       \/ /\ box[at] = "told" /\ exit[at] = 0
          /\ res' = [res EXCEPT ![at] = "soft_timeout"]
          /\ Trouble(SlowOf(at))
       \/ /\ box[at] # "told"
          /\ res' = [res EXCEPT ![at] = "hard_timeout"]
          /\ Trouble(SlowOf(at))
    /\ pc' = "stop"
    /\ UNCHANGED <<at, box, ready_ok, programs, verdict, points>>

\* Faulty variant: nobody waits for the service of a program that timed out.
StopReturnsEarly ==
    /\ pc = "stop"
    /\ box' = [box EXCEPT ![at] = "none"]
    /\ IF at = "exc" /\ res["exc"] \in Timeout
       THEN pc' = "idle" /\ verdict' = "hard_timeout" /\ UNCHANGED at
       ELSE /\ pc' = IF at = "exc" THEN "wait" ELSE "grade"
            /\ at' = "srv"
            /\ UNCHANGED verdict
    /\ UNCHANGED <<ready_ok, programs, res, points, trouble>>

\* destroy_container; the service's turn comes after the program's.
Stop ==
    /\ pc = "stop"
    /\ box' = [box EXCEPT ![at] = "none"]
    /\ \/ at = "exc" /\ pc' = "wait" /\ at' = "srv"
       \/ at = "srv" /\ pc' = "grade" /\ UNCHANGED at
    /\ UNCHANGED <<ready_ok, programs, res, verdict, points, trouble>>

Conclude(status, given) ==
    /\ pc' = "idle"
    /\ verdict' = status
    /\ points' = given

\* Faulty variant: the service is looked at before the program.
GradeServiceFirst ==
    /\ pc = "grade"
    /\ \/ res["srv"] = "bad_exit_code" /\ pc' = "raised" /\ UNCHANGED <<verdict, points>>
       \/ /\ res["srv"] # "bad_exit_code"
          /\ res["srv"] \in Timeout \/ res["exc"] \in Timeout
          /\ Conclude("hard_timeout", 0)
       \/ /\ res["srv"] = "ok" /\ res["exc"] \notin Timeout /\ output # NoResult
          /\ Conclude(res["exc"], output)
    /\ UNCHANGED <<at, box, ready_ok, programs, res, trouble>>

\* Faulty variant: a slow program keeps the status the runner gave it.
GradeKeepsStatus ==
    /\ pc = "grade"
    /\ \/ res["exc"] \in Timeout /\ Conclude(res["exc"], 0)
       \/ res["exc"] \notin Timeout /\ Conclude("internal_error", 0)
    /\ UNCHANGED <<at, box, ready_ok, programs, res, trouble>>

\* The end of do_run_test: a slow program, "Service crashed.", a slow service,
\* an output that json.loads does not accept, or the points the service gave.
Grade ==
    /\ pc = "grade"
    /\ \/ res["exc"] \in Timeout /\ Conclude("hard_timeout", 0)
       \/ /\ res["exc"] \notin Timeout
          /\ \/ res["srv"] = "bad_exit_code" /\ pc' = "raised" /\ UNCHANGED <<verdict, points>>
             \/ res["srv"] \in Timeout /\ Conclude("hard_timeout", 0)
             \/ res["srv"] = "ok" /\ output = NoResult /\ pc' = "raised" /\ UNCHANGED <<verdict, points>>
             \/ res["srv"] = "ok" /\ output # NoResult /\ Conclude(res["exc"], output)
    /\ UNCHANGED <<at, box, ready_ok, programs, res, trouble>>

\* A Docker call raises, done or not: creating and starting a container, resetting
\* its memory peak, reading its statistics, stopping and removing it.
DockerRaises ==
    /\ pc \in {"run", "boot", "wait", "stop"}
    /\ Trouble("docker")
    /\ pc' = "raised"
    /\ \/ UNCHANGED box
       \/ pc = "run" /\ box' = [box EXCEPT ![at] = "booting"]
       \/ pc = "stop" /\ box' = [box EXCEPT ![at] = "none"]
    /\ UNCHANGED <<at, ready_ok, programs, res, verdict, points>>

\* main catches PluginError: the containers of the name are removed and the
\* submission ends as internal_error.
Handle ==
    /\ pc = "raised"
    /\ box' = [c \in Box |-> "none"]
    /\ Conclude("internal_error", 0)
    /\ UNCHANGED <<at, ready_ok, programs, res, trouble>>

-----------------------------------------------------------------------------
(* run-bin.sh in both containers, the service and the program.             *)

Moves(c, from, to) == box[c] = from /\ box' = [box EXCEPT ![c] = to]

Boot(c) ==
    /\ Moves(c, "booting", "ready")
    /\ UNCHANGED <<worker, ready_ok, programs, trouble>>

\* Faulty variant: the service opens the pipes in the other order.
BeginCrosswise(c) ==
    /\ Moves(c, "ready", IF c = "srv" THEN "open_out" ELSE "open_in")
    /\ c \in ready_ok
    /\ UNCHANGED <<worker, ready_ok, programs, trouble>>

\* The script leaves its loop.  The shell opens input.txt, then output.txt, for
\* the program; the service opens the other ends in the same order.
Begin(c) ==
    /\ Moves(c, "ready", "open_in")
    /\ c \in ready_ok
    /\ UNCHANGED <<worker, ready_ok, programs, trouble>>

\* Opening a pipe blocks until the other end is opened too.
Meet ==
    /\ \/ /\ \A c \in Box : box[c] = "open_in"
          /\ box' = [c \in Box |-> "open_out"]
       \/ /\ \A c \in Box : box[c] = "open_out"
          /\ box' = [srv |-> "greet", exc |-> "running"]
    /\ UNCHANGED <<worker, ready_ok, programs, trouble>>

Greet ==
    /\ Moves("srv", "greet", "running")
    /\ srv_ready' = TRUE
    /\ UNCHANGED <<worker, ready_ok, exit, output, trouble>>

\* The program ends, by itself or because the service is gone.
EndProgram ==
    /\ Moves("exc", "running", "ended")
    /\ \E code \in {0, 1} : exit' = [exit EXCEPT !["exc"] = code]
    /\ UNCHANGED <<worker, ready_ok, srv_ready, output, trouble>>

\* The service writes its result and ends: the dialogue is over, or the pipe
\* is broken.  Another service than the sample may write no JSON.
EndService ==
    /\ Moves("srv", "running", "ended")
    /\ \/ output' \in {0, 1} /\ Fine
       \/ output' = NoResult /\ Trouble("garbled")
    /\ UNCHANGED <<worker, ready_ok, srv_ready, exit>>

\* The service raises.
CrashService ==
    /\ box["srv"] \in Opening \cup {"greet", "running"}
    /\ box' = [box EXCEPT !["srv"] = "ended"]
    /\ exit' = [exit EXCEPT !["srv"] = 1]
    /\ Trouble("crash")
    /\ UNCHANGED <<worker, ready_ok, srv_ready, output>>

\* The script prints the exit code and creates finished.
Tell(c) ==
    /\ Moves(c, "ended", "told")
    /\ UNCHANGED <<worker, ready_ok, programs, trouble>>

-----------------------------------------------------------------------------
Call == Run \/ Unlock \/ NotReady \/ AwaitService \/ Wait \/ Stop \/ Grade \/ Handle

Script ==
    \/ Meet \/ Greet \/ EndProgram \/ EndService \/ CrashService
    \/ \E c \in Box : Boot(c) \/ Begin(c) \/ Tell(c)

Next == Prepare \/ Call \/ DockerRaises \/ Script

Spec == Init /\ [][Next]_vars

\* The worker goes on; its waits expire.  The containers owe nobody a step.
FairSpec == Spec /\ WF_vars(Call)

-----------------------------------------------------------------------------
\* No container of either kind is left between two tests, wherever one ended.
NoStray == pc = "idle" => \A c \in Box : box[c] = "none"

\* The limit do_wait puts on the program does not begin before the two have met
\* and the service is there to talk to.  (The script's own clock does: TIMESTART
\* of run-bin.sh is taken before the shell opens the pipes.)
TimedFromMeeting ==
    pc = "wait" /\ at = "exc" =>
        /\ srv_ready
        /\ box["exc"] \in {"running", "ended", "told"}
        /\ box["srv"] \in {"running", "ended", "told"}

\* The script and the service never wait for each other at different pipes.
NoEmbrace ==
    \A b, c \in Box : box[b] \in Opening /\ box[c] \in Opening => box[b] = box[c]

\* Each side answers for itself.  A program that was too slow is told so whatever
\* its service did when it was gone; the engine blames itself only for Docker, for
\* a script that did not start, and for a service that failed or wrote no result;
\* and a verdict with points is of a program and a service that both ended.
EachForItself ==
    verdict # "none" =>
        /\ res["exc"] \in Timeout /\ "docker" \notin trouble => verdict = "hard_timeout"
        /\ verdict = "hard_timeout" => trouble \cap {"slow_exc", "slow_srv"} # {}
        /\ verdict = "internal_error" =>
              trouble \cap {"docker", "boot", "unready", "crash", "garbled"} # {}
        /\ verdict \in {"ok", "bad_exit_code"} =>
              /\ exit["srv"] = 0 /\ points = output
              /\ verdict = "ok" <=> exit["exc"] = 0
        /\ points > 0 => verdict \in {"ok", "bad_exit_code"}

\* Every test ends, whoever is stuck at a pipe.
TestEnds == pc = "run" ~> pc = "idle"
=============================================================================
