------------------------------- MODULE Grading -------------------------------
(***************************************************************************)
(* One worker between a submission and its report: process_submission in   *)
(* worker.py with the plug-ins it calls.  The compilation is module Build, *)
(* the tests of the file environment are FileTests, the configuration is   *)
(* Config, the points are Evaluator; a test of the pipe environment is one *)
(* step with any result of PipeTest.  Redis, faults and other workers are  *)
(* in TaskQueue: here a command succeeds, or what it asks for is missing.  *)
(***************************************************************************)
EXTENDS Build, FileTests, Evaluator, Config

CONSTANT Task   \* the submissions and their packages

(***************************************************************************)
(* A task is                                                               *)
(*   raw, config_name   the package's config.yml and what of it to use     *)
(*   package            "there", "missing" or "broken" (no or a bad yml)   *)
(*   files, uploaded    the package's files by name, those of the project  *)
(*   strip              what strip does with its options                   *)
(*   layout             the directories of tests                           *)
(*   behaviour          what executing the program may come to             *)
(*   services           what a service may return: a set of [points, time] *)
(***************************************************************************)

VARIABLES
    stage,          \* what process_submission or main does next
    task,           \* s_data and its package
    config,         \* pack.config
    report          \* the FinalResult: [status, score, tests]

jobvars == <<stage, task, config, report>>
evalvars == vars
gradingvars == <<jobvars, buildvars, testvars, evalvars>>

NoReport == [status |-> "none", score |-> 0, tests |-> <<>>]

NoConf == [scale |-> "other", penalty |-> 0, threshold |-> 0]

NoTask == [raw |-> EmptyMapping, config_name |-> "", package |-> "missing",
           files |-> [k \in {} |-> k], uploaded |-> {}, strip |-> "none",
           layout |-> [k \in {} |-> k], behaviour |-> {}, services |-> {}]

\* evaluator_conf, of the configuration c.
EvaluatorConf(c) ==
    LET custom == CustomConfig(c, "evaluator") IN
    [scale |-> Get(custom, "slow_program_scale").value,
     penalty |-> Get(custom, "slow_program_penalty").value,
     threshold |-> Get(custom, "slow_program_threshold").value]

\* What the constants are: of a package that configures its plug-ins at all, the
\* settings that count points are numbers.
ASSUME GradingAssumption ==
    /\ NoTask \notin Task
    /\ \A t \in Task :
          /\ t.layout \in Layout /\ t.behaviour \subseteq Outcome
          /\ \A o \in t.behaviour : o.time \in Nat
          /\ \A s \in t.services : s.points \in Int /\ s.max_points \in Nat /\ s.time \in Nat
          /\ \A i \in DOMAIN UnitsOf(t.layout) : UnitsOf(t.layout)[i].group \in Group \cup {NoGroup}
          /\ LET c == parse_config(t.raw, t.config_name)
                 options(i) == Options(c, UnitsOf(t.layout)[i].name)
             IN  /\ Lookup(c, "evaluator") = "found" => EvaluatorConf(c) \in Conf
                 /\ Lookup(c, "env") = "found" =>
                       \A i \in DOMAIN UnitsOf(t.layout) :
                           IsMapping(options(i)) => MaxPoints(options(i)) \in Nat

\* What deep_update is given for a task, with the path to it.
Trees(t) == Nodes(t.raw) \cup {<< <<>>, EmptyMapping >>}

\* deep_update calls itself, and no configuration is nested deeper than Depth.
ASSUME MergeAssumption ==
    /\ Depth \in Nat
    /\ \A t \in Task :
          /\ Level(t.raw)[Depth + 1] = {}
          /\ \A b \in Nodes(t.raw) : b[2] # Uncaught
          /\ \A s, o \in Trees(t) : Merge(s[2], o[2]) = deep_update(s[2], o[2])

GradingInit ==
    /\ stage = "idle" /\ task = NoTask /\ config = EmptyMapping /\ report = NoReport
    /\ BuildInit
    /\ TestsInit
    /\ InitWith(NoConf, <<>>)

-----------------------------------------------------------------------------
Goto(next_stage) == stage' = next_stage

\* Only jobvars change.
Alone == UNCHANGED <<buildvars, testvars, evalvars>>

\* Faulty variant: the handler leaves what the job has got so far in the report.
InternalErrorKeeping ==
    /\ report' = [NoReport EXCEPT !.status = "internal_error", !.tests = returned]
    /\ box' = FALSE /\ script' = "off"
    /\ Goto("publish")

\* A RuntimeError: the handler of main removes the containers and makes a report
\* without score and tests.  Every exception of a plug-in is one, by
\* safe_plugin_call.
InternalError ==
    /\ report' = [NoReport EXCEPT !.status = "internal_error"]
    /\ box' = FALSE /\ script' = "off"
    /\ Goto("publish")

\* InternalError of a step that does nothing else.
EndsInError ==
    /\ InternalError
    /\ UNCHANGED <<task, config, sources, recipe, todo, seq, obj, prog, exit, build,
                   testvars, evalvars>>

\* An exception that nothing catches.
Dies ==
    /\ Goto("died")
    /\ UNCHANGED <<task, config, report>>
    /\ Alone

-----------------------------------------------------------------------------
\* fetch_submission returns.  recreate_workdir, do_prepare and the locals of the
\* functions make what is left of an earlier job unreachable, so the one job of a
\* behaviour begins where all is new.
Take ==
    /\ stage = "idle" /\ task = NoTask
    /\ task' \in Task
    /\ Goto("package")
    /\ UNCHANGED <<config, report>>
    /\ Alone

\* get_package: a PackageLoadError is a RuntimeError, the KeyError of
\* download_files is not.
GetPackage ==
    /\ stage = "package"
    /\ \/ task.package = "there" /\ Goto("parse") /\ UNCHANGED <<task, config, report>> /\ Alone
       \/ task.package = "broken" /\ EndsInError
       \/ task.package = "missing" /\ Dies

ParseConfig ==
    /\ stage = "parse"
    /\ config' = parse_config(task.raw, task.config_name)
    /\ Goto(IF parse_config(task.raw, task.config_name) = Uncaught THEN "died" ELSE "compiler")
    /\ UNCHANGED <<task, report>>
    /\ Alone

\* plugin_loader.get for the compiler, and do_prepare.
GetCompiler ==
    /\ stage = "compiler"
    /\ \/ Lookup(config, "compiler") = "uncaught" /\ Dies
       \/ Lookup(config, "compiler") = "raises" /\ EndsInError
       \/ /\ Lookup(config, "compiler") = "found"
          /\ DoPrepare
          /\ Goto("download")
          /\ UNCHANGED <<task, config, report, testvars, evalvars>>

\* download_project raises KeyError if there are no files.
Download ==
    /\ stage = "download"
    /\ \/ task.uploaded = {} /\ Dies
       \/ /\ task.uploaded # {}
          /\ DownloadProject(task.uploaded)
          /\ Goto("compile")
          /\ UNCHANGED <<task, config, report, testvars, evalvars>>

\* compiler_conf as Build needs it.
CompilerConf ==
    LET custom == CustomConfig(config, "compiler")
        names == Get(custom, "inject_files").value
    IN  [inject |-> {task.files[n] : n \in names \cap DOMAIN task.files},
         missing |-> ~(names \subseteq DOMAIN task.files),
         strip |-> task.strip,
         resources |-> HasLimit(custom, "resources"),
         timeout |-> IF ~HasLimit(custom, "timeout") \/ IsMapping(Get(Get(custom, "limits"), "timeout"))
                     THEN "absent"
                     ELSE IF Get(Get(custom, "limits"), "timeout").value < 1000 THEN "zero"
                     ELSE "positive"]

\* A step of the compilation.
Compile ==
    /\ stage = "compile"
    /\ Start(CompilerConf) \/ Wait \/ Script
    /\ UNCHANGED <<jobvars, testvars, evalvars>>

\* Faulty variant: only an error of the compiler counts.
AcceptedUnlessError(status) == status # "error"

\* compile_success
Accepted(status) == status = "ok"

\* perform_compilation returns.
EndCompile ==
    /\ stage = "compile"
    /\ \/ build = "raised" /\ EndsInError
       \/ /\ build \in {"ok", "error", "timeout"} /\ ~Accepted(build)
          /\ report' = [NoReport EXCEPT !.status = "compile_error"]
          /\ Goto("announce")
          /\ UNCHANGED <<task, config>> /\ Alone
       \/ /\ build \in {"ok", "error", "timeout"} /\ Accepted(build)
          /\ Goto("units")
          /\ UNCHANGED <<task, config, report>> /\ Alone

-----------------------------------------------------------------------------
\* plugin_loader.get for the environment and the evaluator.
Found == Lookup(config, "env") = "found" /\ Lookup(config, "evaluator") = "found"

\* do_create_test_units of both environments, which is common.py's, succeeds.
HasUnits == UnitsOf(task.layout) # <<>> /\ ~TestsUnreadable(config)

GetEnvironment ==
    /\ stage = "units" /\ run = "off"
    /\ \/ /\ \/ Lookup(config, "env") = "uncaught"
             \/ Lookup(config, "env") = "found" /\ Lookup(config, "evaluator") = "uncaught"
          /\ Dies
       \/ /\ \/ Lookup(config, "env") = "raises"
             \/ Lookup(config, "env") = "found" /\ Lookup(config, "evaluator") = "raises"
          /\ EndsInError
       \/ Found /\ ~HasUnits /\ EndsInError
       \/ /\ Found /\ HasUnits
          /\ CreateUnits(task.layout)
          /\ Goto("tests")
          /\ UNCHANGED <<task, config, report, buildvars, evalvars>>

Env == NameIn(config, "env")

\* The options of the test in hand.
TestOptions == Options(config, units[current].name)

\* Each test asks for the runner; do_run reads its resources, do_wait its timeout.
RunnerLacks(limit) ==
    Lookup(config, "runner") # "found" \/ ~HasLimit(CustomConfig(config, "runner"), limit)

RunnerWorks == ~RunnerLacks("resources") /\ ~RunnerLacks("timeout")

\* A step of do_run_test of the file environment.
FileTest ==
    /\ stage = "tests" /\ Env = "file"
    /\ \/ Lookup(config, "runner") = "found" /\ PrepareTest
       \/ RunnerWorks /\ \E o \in task.behaviour : Execute(o)
       \/ ExecuteRaises
       \/ Compare
       \/ run = "record" /\ IsMapping(TestOptions) /\ Record(MaxPoints(TestOptions))
    /\ UNCHANGED <<jobvars, buildvars, evalvars>>

\* do_run_test of the pipe environment (module PipeTest): any points, or it raises.
PipeTest ==
    /\ stage = "tests" /\ Env = "pipe" /\ run = "prepare" /\ Len(returned) < Len(units)
    /\ RunnerWorks /\ Lookup(config, "service_runner") = "found"
    /\ \E s \in task.services :
        returned' = Append(returned,
            [name |-> units[current].name, group |-> units[current].group,
             status |-> "ok", time |-> s.time, points |-> s.points, max_points |-> s.max_points])
    /\ UNCHANGED <<jobvars, buildvars, evalvars, units, outcomes, rundir, exec, line, cmp, run>>

\* The test in hand raises, for itself or for what the configuration lacks.
Raises ==
    \/ run = "raised"
    \/ /\ run = "prepare" /\ Len(returned) < Len(units)
       /\ Env = "pipe" \/ Lookup(config, "runner") # "found"
    \/ run = "record" /\ ~IsMapping(TestOptions)

\* Faulty variant: the test is tried again.
TestRaisesRetried ==
    /\ stage = "tests" /\ Raises
    /\ run' = "prepare"
    /\ UNCHANGED <<jobvars, buildvars, evalvars, units, returned, outcomes, rundir, exec, line, cmp>>

\* safe_plugin_call makes it an internal error of the whole submission.
TestRaises ==
    /\ stage = "tests" /\ Raises
    /\ EndsInError

\* The TestStatus as Evaluator knows it; times are in quarters of the timeout.
AsResult(r) ==
    [group |-> r.group, points |-> r.points, max_points |-> r.max_points,
     time |-> r.time, timeout |-> 4]

\* The loop over the tests ends, do_process_results is called.
EndTests ==
    /\ stage = "tests" /\ run = "prepare" /\ Len(returned) = Len(units)
    /\ Goto("evaluate")
    /\ conf' = EvaluatorConf(config)
    /\ given' = [i \in DOMAIN returned |-> AsResult(returned[i])]
    /\ results' = [i \in DOMAIN returned |-> AsResult(returned[i])]
    /\ UNCHANGED <<passed_test_groups, next, total_points, max_points, score, pc>>
    /\ UNCHANGED <<task, config, report, buildvars, testvars>>

Evaluate ==
    /\ stage = "evaluate"
    /\ Next
    /\ UNCHANGED <<jobvars, buildvars, testvars>>

EndEvaluate ==
    /\ stage = "evaluate"
    /\ \/ pc = "error" /\ EndsInError
       \/ /\ pc = "done"
          /\ report' = [status |-> "ok", score |-> score, tests |-> results]
          /\ Goto("announce")
          /\ UNCHANGED <<task, config>> /\ Alone

\* report_status "done".
Announce ==
    /\ stage = "announce"
    /\ Goto("publish")
    /\ UNCHANGED <<task, config, report>> /\ Alone

\* send_report_async.
Publish ==
    /\ stage = "publish"
    /\ Goto("idle")
    /\ UNCHANGED <<task, config, report>> /\ Alone

\* systemd starts the worker again, and main removes its containers.
Restart ==
    /\ stage = "died"
    /\ Goto("idle")
    /\ box' = FALSE /\ script' = "off"
    /\ UNCHANGED <<task, config, report, sources, recipe, todo, seq, obj, prog, exit, build,
                   testvars, evalvars>>

-----------------------------------------------------------------------------
Work ==
    \/ GetPackage \/ ParseConfig \/ GetCompiler \/ Download \/ Compile \/ EndCompile
    \/ GetEnvironment \/ FileTest \/ PipeTest \/ TestRaises \/ EndTests \/ Evaluate
    \/ EndEvaluate \/ Announce \/ Publish \/ Restart

\* Waiting for the next submission.
Waiting == stage = "idle" /\ task # NoTask /\ UNCHANGED gradingvars

GradingNext == Take \/ Work \/ Waiting

\* A job goes on: Docker and the runner answer, or a wait of the worker ends.
GradingSpec == GradingInit /\ [][GradingNext]_gradingvars /\ WF_gradingvars(Work)

-----------------------------------------------------------------------------
\* What the package owes to the engine: its absence ends the worker.
Malformed ==
    \/ task.package = "missing" \/ task.uploaded = {}
    \/ config = Uncaught
    \/ \E s \in {"compiler", "env", "evaluator"} : Lookup(config, s) = "uncaught"

\* The results tell of all tests of the directory and of nothing else, in order.
EachTestOnce(dir, tests) ==
    \E at \in [DOMAIN tests -> DOMAIN dir] :
        /\ \A i, j \in DOMAIN tests : i < j => at[i] < at[j]
        /\ \A i \in DOMAIN tests :
              dir[at[i]].test /\ dir[at[i]].group = tests[i].group
        /\ \A k \in DOMAIN dir : dir[k].test => \E i \in DOMAIN tests : at[i] = k

\* The report says "ok" only with an accepted build and one result for each test
\* in the directory of the package, in its order, whose points and score come from
\* what the tests returned; anything else has no score and no tests.  Whatever was raised and
\* wherever, no container is left and the worker lives, unless the submission or
\* the configuration of its package is malformed.
WholeReport ==
    /\ stage = "publish" =>
          /\ ~box
          /\ report.status # "ok" => report.score = 0 /\ report.tests = <<>>
          /\ report.status = "ok" =>
                /\ build = "ok" /\ prog # {}
                /\ EachTestOnce(Directory(task.layout), report.tests)
                /\ \A i \in DOMAIN report.tests :
                      report.tests[i].points > 0 => returned[i].points > 0
                /\ report.score = 100 <=>
                      \A i \in DOMAIN report.tests :
                          report.tests[i].points = report.tests[i].max_points
    /\ stage = "died" => Malformed

\* The configuration of the job is the package's "_base" with exactly what the
\* named part overrides replaced; a part that would override the inside of a
\* value ends the worker, and nothing else that parse_config does.
ConfigMerged ==
    stage \notin {"idle", "package", "parse"} /\ task.package = "there"
        /\ IsMapping(task.raw) /\ "configs" \in Keys(task.raw)
        /\ IsMapping(Get(task.raw, "configs")) =>
        MergeIsRight(Part(task.raw, "_base", EmptyMapping),
                     Part(task.raw, task.config_name, EmptyMapping), config)

\* The stage of the job as Job and TaskQueue have it.
JobStage ==
    CASE stage \in {"idle", "died"} -> "away"
      [] stage \in {"package", "parse", "compiler"} -> "prepare"
      [] stage \in {"compile", "units"} -> "compile"
      [] stage \in {"tests", "evaluate"} -> "test"
      [] stage = "announce" -> "done"
      [] OTHER -> stage

JobLeft == IF JobStage = "test" THEN Larger(1, Len(units) - Len(returned)) ELSE 0

JobVerdict == IF JobStage = "away" THEN "none" ELSE report.status

J == INSTANCE Job WITH stage <- JobStage, left <- JobLeft, verdict <- JobVerdict

\* The plug-ins behave as TaskQueue takes them to: the same job, and it ends.
GradingIsJob == J!JobSpec /\ J!JobEnds
=============================================================================
