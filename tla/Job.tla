--------------------------------- MODULE Job ---------------------------------
(***************************************************************************)
(* What a worker does with a submission, as its surroundings see it: the   *)
(* stages in their order and the verdict they lead to.  TaskQueue, where   *)
(* Redis is, and Grading, where the plug-ins are, both implement it: they  *)
(* tell of the same job.                                                   *)
(***************************************************************************)
EXTENDS Naturals

VARIABLES
    stage,      \* where the job is; "away" if the worker has none
    left,       \* tests still to pass or fail, once they are known
    verdict     \* status of the report

jobvars == <<stage, left, verdict>>

JobInit == stage = "away" /\ left = 0 /\ verdict = "none"

Goes(from, to) == stage = from /\ stage' = to

Take == Goes("away", "prepare") /\ UNCHANGED <<left, verdict>>

Prepared == Goes("prepare", "download") /\ UNCHANGED <<left, verdict>>

Downloaded == Goes("download", "compile") /\ UNCHANGED <<left, verdict>>

\* At least one test.
Compiled ==
    /\ Goes("compile", "test")
    /\ left' \in Nat \ {0}
    /\ UNCHANGED verdict

Rejected ==
    /\ Goes("compile", "done")
    /\ verdict' = "compile_error"
    /\ UNCHANGED left

Tested ==
    /\ Goes("test", "test")
    /\ left > 1 /\ left' = left - 1
    /\ UNCHANGED verdict

\* Only the last test is followed by the verdict.
Graded ==
    /\ Goes("test", "done")
    /\ left = 1 /\ left' = 0
    /\ verdict' = "ok"

Announced == Goes("done", "publish") /\ UNCHANGED <<left, verdict>>

\* An internal error is published and never announced as done.
Failed ==
    /\ stage \in {"prepare", "compile", "test"}
    /\ stage' = "publish"
    /\ left' = 0
    /\ verdict' = "internal_error"

\* The report is sent, or the worker died.
Left ==
    /\ stage # "away"
    /\ stage' = "away"
    /\ left' = 0
    /\ verdict' = "none"

JobNext ==
    \/ Take \/ Prepared \/ Downloaded \/ Compiled \/ Rejected \/ Tested \/ Graded
    \/ Announced \/ Failed \/ Left

JobSpec == JobInit /\ [][JobNext]_jobvars

\* A job does not last for ever.
JobEnds == stage # "away" ~> stage = "away"
=============================================================================
