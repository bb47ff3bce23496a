# A verification project for algochecker-engine

algochecker-engine grades programs. Clients upload a submission to Redis and
push its uuid on a queue; workers (`worker.py`) take submissions off the
queue, download them, compile them, run them against tests in Docker
containers, compute a score and publish a report. This directory holds TLA+
modules that model the parts of the engine where things can go wrong between
steps, configurations that check them with TLC on small instances, and proofs
that TLAPS checks for all values of the constants. `PROJECT.json` maps every
definition to the lines it stands for, and lists the runs, the hazards and the
theorems.

## Inventory

| Part | State | Operations | Talks to |
|---|---|---|---|
| instance lock (`task_queue.py`, `worker.py`) | the Redis key `instance_lock:<name>`, the uuid of each process | GETSET at start, GET and GETSET checks before each BLPOP, `_retry_ping` | other workers of the name, through the key |
| task queue and main loop (`task_queue.py`, `worker.py`) | the lists and sorted sets of three levels, the hash of each submission, the status keys, the job in hand, the flag `interrupted` | `fetch_submission`, `process_submission`, `report_status`, `send_report_async`, the handlers of `main` | clients and other workers through Redis; plug-ins by calls |
| clients (`contrib/submit.py`, `contrib/collect.py`, `contrib/dump_queue.py`) | how far they are | upload, ZADD, RPUSH, subscribe, give up | Redis |
| package cache (`package.py`, `download_files`) | `packages/` of each worker, the hash of a package | prune, download from Redis or a URL, DEL of what is not persistent | other workers through the hash |
| package upload (`contrib/dynamic_package.py`) | none | DEL, HSET of each file | the same hash |
| runner (`runners/bin.py`, `run-bin.sh`) | files `ready`, `ready_ok`, `finished`, the container, its stdout and memory peak | prepare, start, wait, collect, make the result | Docker; the script in the container, through files |
| containers (`container.py`) | the containers with the label of the name | make, destroy, spinlock, removal of lost ones | Docker |
| evaluator (`evaluators/basic.py`) | the results, the groups, the totals | two loops and a division | called by `perform_run` |
| environment file (`env_provider/file.py`, `common.py`) | the list of test units, the results so far, the directory `work/run` | list the tests of a package, prepare and run one, compare the output with the expected file | runner, evaluator |
| environment pipe (`env_provider/pipe.py`) | two containers and two pipes | run the program and a service of the package against each other | runner, evaluator |
| compilers (`compilers/gcc.py`, `common.py`, `gcc.sh`) | `work/compile` (sources, objects, program), the container | prepare, copy injected files, compile, wait, read the exit code | containers; the script in the container, through its exit code |
| configuration (`package.py`, `plugin_loader.py`) | none | merge `_base` with the part a submission names and with the defaults of a plug-in; look plug-ins up | every stage of a job |
| images, networks, package server | | start-up work and helpers | |
| work directory, service unit | the directory of an instance name | `recreate_workdir`; restart | task queue |

What is hard here: every Redis command of a worker can interleave with those
of other workers and clients, can fail with its effect done or not, and can be
the last one before the process dies; SIGTERM sets a flag that is read much
later; systemd restarts whatever ends; the worker and the script in the
container signal each other by creating files that the other polls, against
timeouts measured by counting sleeps; Docker calls raise inside the handlers
that clean up after Docker calls; a package in Redis is shared and may be
deleted by its first reader. `PROJECT.json` lists each of these hazards with
the line where it bites.

## Modules

| Module | Models |
|---|---|
| `InstanceLock` | the lock of one instance name, from a start to the end of the process |
| `InstanceLockHistory` | the same with two ghost variables: what a worker took since it lost the key, and who ran at the same time |
| `Delivery` | abstract: what the engine promises about submissions |
| `TaskQueue` | the path of a submission, one action per Redis command |
| `Job` | abstract: the stages of one job and the verdict they lead to |
| `Grading` | one worker from a submission to its report: `process_submission` with what the plug-ins do, return and raise |
| `Build` | one compilation: the worker and the script in the container |
| `FileTests` | the tests of a package in the environment `file`, one after the other |
| `Config` | `deep_update`, the merging of two configurations, and what it should be; the parts of a configuration, the defaults and the lookup of plug-ins, as functions |
| `Evaluator` | `do_process_results` |
| `Runner` | one test at a time in a container of its own |
| `PipeTest` | one test of a program and a service that talk through two pipes |
| `PackageCache` | the directories and the hash of one package |
| `MC...` | instances for TLC |
| `...Proofs` | theorems about the module of that name; `GradingProofs` also has `Build` and `FileTests` |

How they fit: `TaskQueue` INSTANCEs `InstanceLock` (a job is its stage
"busy"), `Job` and `Delivery`, and implements all three. The lock is that of one
name and the job that of one worker, `AnyName` and `AnyWorker`: constants that
stand for any of them. In `TaskQueue` the plug-ins succeed, reject or raise. `Grading` EXTENDS `Build`,
`FileTests`, `Evaluator` and `Config` and says when they do: its state is
theirs and the local variables of `process_submission`. It calls `deep_update`
by the constant `Merge`: of what is proved of a job only `ConfigMerged` depends
on how configurations are merged. `TaskQueue` and `Grading` both implement `Job`, so that the two tell of
one job: the stages that one assumes are those the other has. `Runner`, `PipeTest`
and `PackageCache` have a state of their own and meet the others only through
these outcomes: an execution is one step of `FileTests`, a test with a service
one step of `Grading`, the fetch of a package one step of `TaskQueue`.

### InstanceLock

`lock` is the key, where `Gone` stands for a uuid no running process has; `pc`
is the stage of each process. `Start` is `main` up to its loop, where
`set_instance_lock(False)` overwrites the key unasked. `PreCheck` and `GetSet`
are the two commands of `set_instance_lock(True)`; a mismatch ends the
process, and after the GETSET the key then holds the uuid of a dead one.
`ConnectionLost`, `ReplyLost` and `Reconnect` are the `except` branch of
`fetch_submission`. A command of a dead process is not executed after its
death. The key is never empty once a worker has run: a key that somebody
deletes (`None.decode`) is outside the model.

### TaskQueue

Redis is `hash`, `queue`, `order`, `lock` and `status`. Each worker has a
`pc` that names its next command and the job it holds; `work` is its input
directory, which belongs to the instance name, so that workers with the same
name share it. Clients are `PutFile`, `AddToOrder`, `Push`, `Subscribe`,
`GiveUp`; `Watched` says for which submissions somebody waits. The
worker's loop is `PreCheck`, `GetSet`, `Pop` or `PollEmpty`, `DropPopped` or
`ZRem`, then `Prepare`, `Download`, `Compile`, `Test`, `Done`,
`Publish`. `recreate_workdir` in `Prepare` empties the input directory, and
`Printed` is the list that `dump_queue.py` shows. Errors: `InternalError` (a `RuntimeError`, caught and published),
`Exit` (what `main` does not catch: `KeyError` for a missing package or
submission, `AttributeError` from `e.message`), `ConnectionLost` inside the
loop, `DropFatal` outside it, `Signal`, `Crash`. A fault is counted in
`faults` and bounded by `MaxFaults`.

`Download` is one action although it is many commands: nobody else writes or
reads the hash of a submission once it was pushed. Downloads of packages,
where that is not so, are in `PackageCache`.

### Job and Grading

`Job` has the stage of one job, the number of tests left, and the verdict. Its
actions say what may follow what: only the last test leads to "ok", an
internal error goes straight to the report and is never announced as done.

`Grading` is one worker and one job. `Take` chooses the submission and what is
in its package; then each call of `process_submission`, `perform_compilation`
and `perform_run` is an action: `GetPackage`, `ParseConfig`, `GetCompiler`,
`Download`, the steps of `Build`, `EndCompile`, `GetEnvironment`, the steps of
`FileTests` or `PipeTest`, `EndTests`, the steps of `Evaluator`, `EndEvaluate`,
`Announce`, `Publish`. `EndsInError` is an exception of a plug-in, which
`safe_plugin_call` makes a `RuntimeError` and `main` a report
"internal_error"; `Dies` is any other exception, which ends the process, and
`Restart` what systemd and the start of `main` do then. A behaviour has one
job: `recreate_workdir`, `do_prepare` and the locals leave nothing of an
earlier one. Lost connections, signals and crashes are left to `TaskQueue`.

### Build

A file is its path, its base name, its kind and whether `g++` accepts it. The
script reads the sources and then the injected files one by one (`todo`), names
each object after the base name and the counter `seq`, and links what is in
`obj`. The loop over the sources runs in a subshell of a pipe, so that the
counter starts again from 1 for the injected files, and `EndSources` says
so: an injected file may overwrite the object of a source of the same base
name. `WholeProgram` says what still holds. `Wait` is `common_compile` around
the container: creating it may raise before there is one, the timeout may come
at any moment, a kill, a removal or a wait may raise, and a container may
outlive each. Names that begin with a dot
are left out (`cp in/*` does not copy those at the top).

### FileTests

A line is the text that `strip()` leaves and the white space it removes; a
file may be missing or impossible to decode. `UnitsOf` is the directory
listing, `PrepareTest` the fresh `work/run` with the input and the data of this
test, `Execute` any outcome a runner returns, `CompareLine` one turn of the
loop of `compare`, `Record` the verdict with the points. `binary_mode` of
`compare` is passed by nobody and is not modelled. `outcomes` is a history
variable.

### Config

A configuration is a tree of mappings and values; `Uncaught` stands for the
exceptions that a tree lets through where the code does not expect it.
`deep_update` is the function of `package.py`: `Updated` stores what the calls
for the `Nested` keys returned, and the constant `Merge` stands for the function
where it calls itself. In `MCGrading` it is the RECURSIVE operator that TLC runs,
in the proofs any operator with `Merge(s, o) = deep_update(s, o)`
(`MergeAssumption` of `Grading`, which TLC evaluates). `MergeIsRight` says what the
function should return, by the paths of the two trees and not by levels.
`parse_config` takes the two parts of a configuration and merges them. `Lookup` is
`plugin_loader.get` with its three ends: found, a plug-in that is not there, a
key that is not there.

### Evaluator

Points are integers, the configuration is in per cent, and a division by zero
or an unknown scale ends in "error", as the exceptions do. `given` keeps the
input, since the code updates `results` in place. The code's floats are
replaced by integer division in the share of a penalty; no property depends
on the fraction lost.

### Runner

The unit of time is one step of `file_spinlock`, which counts its sleeps and
not time: `Sleep` counts a step and falls asleep, `Tick` lets time pass and may
wake the worker, so that a sleep lasts one step or any number of them.
`TouchReady`, `StartProgram`, `EndProgram`, `TouchFinished` are the wrapper
script at its own speed. `DockerRaises` fails any Docker call, with or without
its effect; `Handle` is the handler of `main`, `Die` and `Restart` the death of
the worker and `check_lost_containers` of the next one. The `sleep 60` after
which the script ends by itself, and a container that Docker kills, are not
modelled.

### PipeTest

`do_run_test` of `env_provider/pipe.py`. `box` says how far the script in each
of the two containers is, `at` which of them the worker is busy with. The
handshake that `Runner` has in detail is `Unlock` here, the collection of a
result is `Wait`, and time is left out: a wait expires whenever what it waits
for has not happened, and a script that was let go may take for ever. `Meet`
is the opening of a pipe from both sides, which blocks whoever comes first.
The service is the sample of the repository (`contrib/package/test-pipe`),
with any points for its result. A service that raises is the trouble "crash",
whatever drove it there; the sample raises when the program closes its output
instead of printing a number (`int("")`, line 51), and then the submission of
such a program ends as `internal_error`. The trouble "garbled" is a service
whose output `json.loads` does not accept, `NoResult`. `DockerRaises` fails the
calls that make, start, stop or remove a container, reset its memory peak or
read its statistics; a `Handle` that fails itself is in `Runner`. `trouble` is a ghost that keeps what went wrong in the test.

### PackageCache

One package. `hash` has its fields, among them the option; `cached` and
`torn` are the files written, and those opened and never written, in each
worker's directory. `GetPackage` prunes and looks, `FetchUrl` and `Extract`
are the download from a URL, `ListFiles`, `GetFile`, `CheckPersistent` and
`Delete` are `download_files`, command by command. `Hour` makes a directory
`old`, more than an hour unused. `Drop` and `Crash` stop a worker anywhere,
perhaps with a file open. `config.json` counts as the configuration file. A
package has been uploaded at the start; `BeginUpload` and `PutFile` upload it
again at any time, with or without the option, and nothing makes a worker wait
for them. `dynamic_package.py` uploads under the final name, so that a fetch
that meets a second upload gets a part of the package: `PersistentWhole` and
`KeptBySomebody` therefore speak of a package that was uploaded once
(`UploadedOnce`). `PersistentFetched` also speaks of what follows a second
upload: once it is complete and no DEL of a worker is on its way (`Settled`),
whoever begins a fetch gets the whole.

## Runs

| Run | Instance | Shows |
|---|---|---|
| `InstanceLock` | three processes of one name, faults unbounded | a worker that lost the key takes at most one more submission (`LateAtMostOne`); one that is stopped did run beside another (`NoFalseAlarm`); once nobody starts and GETSET replies arrive, one process remains (`EventuallyExclusive`). Both conditions are needed: without either TLC finds two processes taking the key from each other for ever |
| `QueueFaults` | two workers, two submissions (two files, one file), two tests, two faults | a submission is in one place; each fault loses at most one; the printed order lists the queue; a worker grades its own files only; `done` stands for a verdict; the status never goes back |
| `QueueSameName` | two workers of one name, one submission without a package, one fault | the lock rounds of `TaskQueue` under `AnyName` are those of `InstanceLock`; losses stay bounded while the workers stop each other |
| `QueueDelivery` | two levels, a submission without files, two tests, nobody waiting for reports, two faults, fairness | the worker `AnyWorker` of `TaskQueue` implements `Job` (`JobSteps`; the two workers are alike), and `TaskQueue` implements `Delivery`: urgent first, then in order, answered at most once, lost only by a fault or because it cannot be graded, and everything queued is answered or lost; a worker told to stop ends, also while Redis is away |
| `Grading` | see below | points and score stay in range whatever services return; groups are all or nothing; a penalty takes no more than configured; a build that is "ok" is the whole program; a test is passed exactly if its own output is the expected one; the configuration of a job is base and part merged, or the worker dies; a report "ok" has all results of this job and any other has none; no container is left; `Grading` implements `Job` and every job ends |
| `Runner` | timeout 2, slack 2, ready limit 2, clock to 7, faults unbounded | no container is left between tests; the report read belongs to the run; hard timeouts are deserved; the peak is the program's; every test ends |
| `PipeTest` | two containers, tests one after the other, any trouble any number of times | no container is left wherever a test ended; the worker's limit for the program begins after the two have met; the two never block at different pipes; each side gets the verdict of its own doing; every test ends |
| `PackageCache` | two workers, two files, both sources, two uploads, two faults | a persistent package that is uploaded once is shared whole; one that is complete in Redis is fetched whole, also after a second upload and whatever it left in the directories; a package leaves Redis only when a worker has all of it; no failure keeps a worker from its loop |
| `QueueSigterm` | one signal | violated: see the first disagreement below |
| `QueueReportKept` | no fault | violated: the second |
| `EvaluatorSlow` | one test | violated: the third |
| `PackageConsumed` | no fault | violated: the fourth |

The bounds are enough for what the properties compare. Two workers and two
submissions give every pair an order, and a third of either adds no new kind
of conflict, since commands touch one key and one submission. Two faults let
one meet the recovery from another. Two files make an upload or a download
that is half done. Two tests make progress that could go back. Three processes
are needed where the lock is taken from one that took it. In `Grading` each part of the model gets the
tasks that vary what it looks at, and plain ones elsewhere: every project made
of four files (two with one base name, one that does not compile, one that is
no source) with every useful set of injected files and both ends of `strip`;
two tests with 13 outcomes of the program against five kinds of expected
file; 14 base configurations by 12 parts and malformed ones; and, for
`Evaluator`, every list of up to two results of seven kinds over two groups and
none under every evaluator configuration, and the lists of three with two tests
in one group under two of them. A conflict of names needs two files, an
all-or-nothing group two tests beside one that is not in it, and a wrong end of
`compare` files that differ in the last line, in length or in white space only.
In `Runner` the
limits are small numbers of polls with room on both sides, and the clock goes
beyond their sum, so that every timeout can be met, met late and missed. The
clock stops at its bound, and `PatientTimeout` says nothing there.

Fairness. A worker that is up goes on, because commands answer or raise, BLPOP
has a timeout, containers are limited in time, and `_retry_ping` returns
(weak fairness of the worker's step); systemd restarts a worker that is off
(`Restart=always`, weak fairness of `Start` and `Restart`). In `InstanceLock`
faults are unbounded, and the two checks get strong fairness: the connection
does not fail them each time. Clients, signals, faults and the program under
test owe nobody a step, nor do the containers of `PipeTest`; a sleep of the
worker ends, and so does each of its waits. In `Grading` the worker's step has
weak fairness: Docker answers or the wait times out, which `Build` and
`FileTests` have as outcomes, and systemd starts a worker that died.

### Where the code and its words disagree

1. `task_queue.py:106` tests `interrupted` before it looks at what BLPOP
   returned. `worker.py:32` says the worker "will terminate soon after
   finishing current job."; the submission just taken is lost.
2. `task_queue.py:188-189` says the report is added "to the bottom (right) of
   the report_queue". It is published, and gone for who subscribes later.
3. `evaluators/basic.yml:8-9` says that a slow test loses points. Those
   without a group do not (`basic.py:50-66`).
4. `package.py:67` says "Fetch package with matching name and version". Where
   the package has no `options:persistent` one worker's DEL tears another's
   download, and the half-filled directory is used after the restart.

Others met while modelling, not checked by a run: `bin.py:102` says "(timeout +
0.2) seconds" and the code adds 0.5; a group in which a passed test is worth 0
points counts as failed (`basic.py:38`, "all tests in particular group were
passed" in line 29); `upload_test_output` is called for a field that no result
has, so outputs are never uploaded (`env_provider/file.py:74-80`); the environments
read the section `runner` of the package, and the default `service_runner` of
`pipe.yml` is never used, since `pipe.py:26` looks the name up in the package's
configuration; a header among the injected files is compiled like a source and
its output, not an object file, makes the link fail (`gcc.sh:41-60`); the sample
`contrib/package/test-file` configures points for `basic.test1`, a test it does
not have, and `extract_group` looks for a hyphen and not a dot.

## Proofs

All from the assumptions named in the modules and from nothing else.

- `InstanceLockProofs`: `LateAtMostOne` and `NoFalseAlarm` for any number of
  processes. Neither is inductive. `HInv` adds where a worker with a late
  submission can be and that it does not own the key (`LateIsCaught`: the
  pre-check it meets next stops it, since only a start writes the key without
  asking), and that running processes have met (`PairsOverlap`).
- `TaskQueueProofs`: `Spec => []IInv`, and from it `TypeOK` and `OnePlace`, for
  any workers, names, submissions and faults. `OnePlace` needs to know that a
  worker holds a job exactly between BLPOP and PUBLISH (`HoldsJob`), and that
  what is not pushed is nowhere (`UnpushedNowhere`), or `Push` would double
  it. The counter of tests is in `HoldsJob` so that progress stays below 100.
  What the queue loses: `LossBounded`, `DoneMeansGraded` and
  `OrderIndexesQueue` for any workers, names and faults, and `OwnFiles` where
  no two deployments share a name. All rest on `IInv` and on a lemma that says
  how one step of a worker moves submissions (`Moves`). `LossBounded` follows
  from two invariants: what is still to be downloaded is complete in Redis
  (`Stored`), so that nothing gradable is lost without a fault; and lost
  submissions and signalled workers together are not more than the faults
  (`Accounts`), since a signal costs a fault when it comes and a submission
  perhaps later. `DoneMeansGraded` needs that what was announced stays out of
  the queue (`Announced`), `OrderIndexesQueue` that a client lists before it
  queues (`Indexed`).

  `ProgressMonotone` needs what a worker is about to write to be no less than
  what is there (`Progressed`), although writes are lost, and that the integer
  division in the progress grows with the number of tests done (`TestsGrow`).

  The refinements, for any constants. `SharedLockThm`: `TaskQueue` implements
  `InstanceLock`; the one invariant it needs is that a key never holds the uuid
  of a worker of another name (`OwnKey`), for the death of that worker would
  otherwise change the key. `JobsFollowed`: it implements `Job`, with the
  invariant that a verdict exists only after the last stage (`Unjudged`).
  `InOrder`: it implements `Delivery`, which orders what BLPOP serves and makes
  each loss cost a mishap. The mapping takes as mishaps the faults and the
  submissions lost that could not be graded; `Delivery` asks for more mishaps
  than there were losses before each, and `Accounts` gives just that. That the
  set of the lost is finite (`LostFinite`) is proved too, since the constants
  may be infinite.

  `InTurn`, of two submissions and for any constants: none passes an earlier one of
  its queue, none leaves while a more urgent one waits, and none is queued twice.
  It follows from `OnePlace` (the head of a queue stands in it once, so that the
  one popped is gone: `HeadLeaves`), and no run checks it: it says of each step
  what `InOrder` says of the queues as a whole.
- `GradingProofs`: `WholeProgram` of `Build` for any files, projects and
  packages. The invariant says which objects exist in each phase of the script
  (`Phases`): an object numbered below the counter cannot be overwritten in its
  own loop, and in the second loop only an injected file of the same base name
  may take its place. `OwnVerdict` of `FileTests` for files of any length and
  any number of tests; the heart is the invariant of the loop of `compare`: the
  files agree in the lines read so far (`Agree`). `UnitsAreTests`: what the
  loop over a directory (`Listed`) makes of it is all its tests, each once and in
  order. It is by induction over the names, as is that the recursive function of
  the loop exists (`Recursion`); `WholeReport` needs it, because it speaks of the
  directory and not of the units.

  Then the composition: `WholeReport` of `Grading`, for any task, any `Merge`
  and any outcomes. Its invariant `GradingInv` says at each stage of the job
  which of the three parts are at rest, in which state the one at work is, and
  how the locals of `process_submission` and the report follow from them. The
  invariants of `Build`, `FileTests` and `Evaluator` are among its conjuncts, so that
  what these promise alone they keep inside a job (`PartsKept`). `JobFollowed`:
  `Grading` implements `Job`, one test left for each result that is missing.
  `GradingAssumption` says what TLC evaluates on the run's configurations: the
  values a merged configuration has for the evaluator and for the points of a
  test are in the range that `Evaluator` expects (a package that configures
  negative points, or per cents that are no numbers, is outside the model).
  `ConfigMerged`, for any task whose configuration is nested no deeper than
  `Depth`. The invariant says from which trees the configuration of the job
  was merged (`Parsed`); the rest is `MergeRightThm` of `ConfigProofs`.
- `ConfigProofs`: `deep_update` returns what `MergeIsRight` says, for trees of
  any shape and depth. The library's induction theorems are out of reach, but
  those on well-founded orders in terms of sets are not: `NatLessThanWellFounded`
  and `WFMin` give a least element of a set of numbers (`Least`), this gives
  induction over a set (`Induction`), and induction gives that the recursive
  function in `Level` exists (`LevelDef`). The proof of the merge is by
  induction over the depth of the two trees (`CallIsRight`, `MergeOfAll`): the
  leaves of a mapping are those of its entries with a key before the path
  (`LevelByKey`), and so are the overridden leaves and the incompatibilities
  (`OverriddenByKey`, `IncompatibleByKey`). `MergeAssumption` says no more than that
  `Merge` is the function that `deep_update` defines, on the trees of the task, and that
  these trees have a bounded depth; a configuration parsed from YAML is finite.
- `EvaluatorProofs`: `ScoreInRange`, `GroupAllOrNothing` and `PenaltyCapped` for
  every list of results and every configuration. The inductive invariant
  relates `total_points` and `max_points` and says what is left of each result
  already processed; the division is bounded by two arithmetic lemmas.
  `GroupAllOrNothing` adds that after the first loop the table of groups is
  final and right about every result (`GroupInv`). `ScoreIsEarned` adds an
  invariant about what is left of each result (`ScoreInv`): 100 means that no
  test lost a point, and nobody gets points from nowhere.
- `RunnerProofs`: `TypeOK`, `NoStray`, `FinishedMeansTold`, `PatientTimeout` and
  `PeakIsOfProgram` for all limits. The invariant ties the stage of the worker to that of the container
  and to the files that exist, orders the time stamps, and bounds `elapsed` by
  the time since `ready_ok`; `Peaks` says what each peak was measured over.
- `PipeTestProofs`: `TypeOK`, `NoStray`, `NoEmbrace`, `TimedFromMeeting` and
  `EachForItself` for every set of troubles. The invariant says which containers
  exist at each stage of the worker (`Stages`), how far the two sides are from
  each other (`Meeting`: nobody is past a pipe the other has not reached), what
  each result goes back to (`Results`), and that only Docker makes the worker
  raise once the program has timed out (`Raised`).

- `PackageCacheProofs`: `TypeOK`, `PersistentWhole` and `KeptBySomebody` for any
  workers and files, whatever is pruned and when; `KeptBySomebody` under any
  faults. The invariant says, of a package not uploaded a second time, that Redis
  holds all of it or nothing (`WholeHash`), that what a fetching worker has
  written and what it has still to write make the whole (`Fetching`), and that
  with the option and without a fault nobody deletes and every directory not
  being filled is whole (`Sharing`). The first two do not depend on the option,
  so that they also say what a worker that deletes must have.

Model-checked only. The liveness properties and the fairness in the
refinements: `EventuallyExclusive`, `GracefulStop`, `TestEnds`, `BackToWork`,
`PersistentFetched`, the ends of jobs in `JobSteps` and `GradingIsJob`, and
`DeliversAll` beyond `InOrder` (liveness and ENABLED are out of reach of these
provers). The only RECURSIVE operator is `MCMerge` in `MCGrading`.

## Not modelled

Expiry of `status:` (60 s) and `alive_workers:` (120 s) keys; scores of the
sorted set, which two interleaving clients may give in another order than
they push; submissions without `async_report`, whose result is only logged;
malformed JSON in the queue; loss of data in Redis itself, and commands
redis-py sends again on its own; debug mode; two workers of one name that
remove each other's containers at a start; the binary mode of `compare`;
hidden files of a project and a build timeout below a second as a number (it is
the value "zero"); how long the worker waits for the service of a program that
timed out (its `max_time` of 0.0 means no maximum). What the code itself leaves
open is not claimed either: a submission can be lost by a crash after its status
was "done", and of two workers of one name both may end before systemd restarts
them. Of `container.py` the leak report, `chown_recursive`,
`shrink_logs`, and the checks of images and networks at start-up are Docker
calls and text without a part in the properties. The package server, the code
under `_not_ported`, the integration tests, the banner and the named tuples
have no state that interacts with the rest.

## Plan

1. Done: `InstanceLock`, `Delivery`, `TaskQueue`, `Evaluator`, `Runner`,
   `PipeTest`, `PackageCache`, their runs, and their proofs.
2. Done: `FileTests`, `Build`, `Config`, and `Grading`, which composes them with
   `Evaluator`; `Job`, which joins `Grading` and `TaskQueue`.
3. Done: every safety invariant and safety action property that a run checks is
   a theorem.
4. Done: the safety half of the refinements: `TaskQueue` implements
   `InstanceLock`, `Job` and `Delivery`, and `Grading` implements `Job`.
5. Done: what `Delivery` comes to for two submissions of one queue (`InTurn`).
6. Left: that a report "ok" follows `NTests` tests, as a theorem about `Job` which
   `JobsFollowed` then carries over to `TaskQueue`; `LateAtMostOne` for the workers
   of `TaskQueue`, which needs the history of `InstanceLockHistory` beside it.
