------------------------------ MODULE TaskQueue ------------------------------
(***************************************************************************)
(* The path of a submission through the engine: uploaded to Redis by       *)
(* contrib/submit.py, fetched by one of the workers (task_queue.py,        *)
(* worker.py), downloaded, compiled, tested, and published on the channel  *)
(* "reports", where contrib/collect.py may or may not be listening.        *)
(*                                                                         *)
(* One action stands for one Redis command and the code up to the next     *)
(* one, since other processes, signals, crashes and lost connections come  *)
(* between any two commands.  What the plug-ins do between them (package   *)
(* cache, containers, points) is the subject of other modules; here they   *)
(* succeed, fail a compilation, or raise.                                  *)
(***************************************************************************)
EXTENDS Naturals, Sequences, FiniteSets

CONSTANTS
    Worker,         \* deployments of worker.py, each restarted by systemd
    Name,           \* the instance names
    NameOf,         \* INSTANCE_NAME in the worker_conf.py of each deployment
    Submission,     \* the uuids of the submissions
    File,           \* names of source files
    FilesOf,        \* the files of each submission's directory
    LevelOf,        \* the queue each submission is pushed to
    Unpackaged,     \* submissions whose package Redis does not hold
    Watched,        \* submissions whose client waits for the report
    NTests,         \* test units of the package
    Gone,           \* an instance lock that no running process wrote
    NoJob,          \* no submission
    AnyName,        \* the instance name whose lock SharedLock looks at
    AnyWorker,      \* the deployment whose jobs JobSteps looks at
    FaultKinds,     \* the faults that may happen
    MaxFaults       \* bound: how many of them in a behaviour

Level == {"high", "medium", "low"}

ASSUME TaskQueueAssumption ==
    /\ NameOf \in [Worker -> Name]
    /\ FilesOf \in [Submission -> SUBSET File]
    /\ LevelOf \in [Submission -> Level]
    /\ Unpackaged \subseteq Submission
    /\ Watched \subseteq Submission
    /\ NTests \in Nat \ {0}
    /\ Gone \notin Worker
    /\ NoJob \notin Submission
    /\ AnyName \in Name /\ AnyWorker \in Worker
    /\ FaultKinds \subseteq {"drop", "crash", "signal"}
    /\ MaxFaults \in Nat

VARIABLES
    \* Redis
    hash,           \* submission:<uuid>, the files stored in it
    queue,          \* queue:<level>, the list blpop takes from
    order,          \* queue:<level>:order, the members of the sorted set
    lock,           \* instance_lock:<name>, whose uuid it holds
    status,         \* status:<uuid>
    \* the clients
    client,         \* how far submit.py and then collect.py are
    reports,        \* the results published for each submission, in order
    \* the workers
    pc,             \* the next command of each worker
    job,            \* the submission it holds
    interrupted,    \* task_queue.interrupted, set by sigterm_handler
    test,           \* tests done
    result,         \* status of the FinalResult to publish
    work,           \* /tmp/algochecker/<name>/work/compile/in
    faults          \* faults so far

redis == <<hash, queue, order, lock, status>>
memory == <<job, interrupted, test, result>>
local == <<pc, memory>>
vars == <<redis, client, reports, local, work, faults>>

Verdict == {"ok", "compile_error", "internal_error"}

\* Partial statuses in the order a submission goes through them; the tests
\* spread over 20 + int(len(results) * 80 / len(test_units)) percent.
Status ==
    {[stage |-> "none", progress |-> 0],
     [stage |-> "preparing", progress |-> 0],
     [stage |-> "compiling", progress |-> 0],
     [stage |-> "done", progress |-> 100]}
        \cup [stage : {"testing"}, progress : 20..99]

Held == {"popped", "prepare", "download", "compile", "test", "done", "publish"}
Stage == Held \cup {"off", "get", "getset", "pop", "retry"}

TypeOK ==
    /\ hash \in [Submission -> SUBSET File]
    /\ queue \in [Level -> Seq(Submission)]
    /\ order \in [Level -> SUBSET Submission]
    /\ lock \in [Name -> Worker \cup {Gone}]
    /\ status \in [Submission -> Status]
    /\ client \in [Submission -> {"upload", "listed", "queued", "subscribed",
                                  "got", "gaveup"}]
    /\ reports \in [Submission -> Seq(Verdict)]
    /\ pc \in [Worker -> Stage]
    /\ job \in [Worker -> Submission \cup {NoJob}]
    /\ interrupted \in [Worker -> BOOLEAN]
    /\ test \in [Worker -> 0..NTests]
    /\ result \in [Worker -> Verdict \cup {"none"}]
    /\ work \in [Name -> SUBSET (Submission \X File)]
    /\ faults \in 0..MaxFaults

Init ==
    /\ hash = [s \in Submission |-> {}]
    /\ queue = [l \in Level |-> <<>>]
    /\ order = [l \in Level |-> {}]
    /\ lock = [n \in Name |-> Gone]
    /\ status = [s \in Submission |-> [stage |-> "none", progress |-> 0]]
    /\ client = [s \in Submission |-> "upload"]
    /\ reports = [s \in Submission |-> <<>>]
    /\ pc = [w \in Worker |-> "off"]
    /\ job = [w \in Worker |-> NoJob]
    /\ interrupted = [w \in Worker |-> FALSE]
    /\ test = [w \in Worker |-> 0]
    /\ result = [w \in Worker |-> "none"]
    /\ work = [n \in Name |-> {}]
    /\ faults = 0

-----------------------------------------------------------------------------
(* upload_submission and fetch_evaluation, for the submission s.           *)

\* HSET of one file of the submission's directory.
PutFile(s) ==
    /\ client[s] = "upload"
    /\ \E f \in FilesOf[s] \ hash[s] : hash' = [hash EXCEPT ![s] = @ \cup {f}]
    /\ UNCHANGED <<queue, order, lock, status, client, reports, local, work, faults>>

\* Faulty variant: the submission is listed before all its files are stored.
AddToOrderEarly(s) ==
    /\ client[s] = "upload"
    /\ order' = [order EXCEPT ![LevelOf[s]] = @ \cup {s}]
    /\ client' = [client EXCEPT ![s] = "listed"]
    /\ UNCHANGED <<hash, queue, lock, status, reports, local, work, faults>>

\* INCRBY of the counter and ZADD of its value.
AddToOrder(s) ==
    /\ client[s] = "upload"
    /\ hash[s] = FilesOf[s]
    /\ order' = [order EXCEPT ![LevelOf[s]] = @ \cup {s}]
    /\ client' = [client EXCEPT ![s] = "listed"]
    /\ UNCHANGED <<hash, queue, lock, status, reports, local, work, faults>>

\* RPUSH: from here on a worker may fetch it.
Push(s) ==
    /\ client[s] = "listed"
    /\ queue' = [queue EXCEPT ![LevelOf[s]] = Append(@, s)]
    /\ client' = [client EXCEPT ![s] = "queued"]
    /\ UNCHANGED <<hash, order, lock, status, reports, local, work, faults>>

\* fetch_evaluation is called with the uuid upload_submission returned.
Subscribe(s) ==
    /\ s \in Watched
    /\ client[s] = "queued"
    /\ client' = [client EXCEPT ![s] = "subscribed"]
    /\ UNCHANGED <<redis, reports, local, work, faults>>

\* EvaluationFetchTimeout.
GiveUp(s) ==
    /\ client[s] = "subscribed"
    /\ client' = [client EXCEPT ![s] = "gaveup"]
    /\ UNCHANGED <<redis, reports, local, work, faults>>

-----------------------------------------------------------------------------
(* Pieces the worker's actions are made of.                                *)

NoFault == UNCHANGED faults

Fault(kind) ==
    /\ kind \in FaultKinds
    /\ faults < MaxFaults
    /\ faults' = faults + 1

Goto(w, stage) == pc' = [pc EXCEPT ![w] = stage]

\* The process ends.  Its memory is gone, and so is its uuid: a lock that
\* holds it holds nobody's.
Exit(w) ==
    /\ Goto(w, "off")
    /\ job' = [job EXCEPT ![w] = NoJob]
    /\ interrupted' = [interrupted EXCEPT ![w] = FALSE]
    /\ test' = [test EXCEPT ![w] = 0]
    /\ result' = [result EXCEPT ![w] = "none"]

Forget(w) ==
    lock' = [n \in Name |-> IF lock[n] = w THEN Gone ELSE lock[n]]

SetLock(w, value) == lock' = [lock EXCEPT ![NameOf[w]] = value]

Owns(w) == lock[NameOf[w]] = w

\* report_status: SETEX, or a ConnectionError that is only logged.
report_status(s, stage, progress) ==
    \/ /\ status' = [status EXCEPT ![s] = [stage |-> stage, progress |-> progress]]
       /\ NoFault
    \/ UNCHANGED status /\ Fault("drop")

\* Faulty variant: a RuntimeError only ends the job.
InternalErrorUnreported(w) ==
    /\ Goto(w, "get")
    /\ job' = [job EXCEPT ![w] = NoJob]
    /\ test' = [test EXCEPT ![w] = 0]
    /\ UNCHANGED <<interrupted, result>>

\* Faulty variant: an internal error is announced as done.
InternalErrorAnnounced(w) ==
    /\ Goto(w, "done")
    /\ result' = [result EXCEPT ![w] = "internal_error"]
    /\ UNCHANGED <<job, interrupted, test>>

\* A RuntimeError out of process_submission: main catches it, removes the
\* containers and publishes internal_error.
InternalError(w) ==
    /\ Goto(w, "publish")
    /\ result' = [result EXCEPT ![w] = "internal_error"]
    /\ UNCHANGED <<job, interrupted, test>>

-----------------------------------------------------------------------------
(* main and fetch_submission.                                              *)

\* main up to its loop; set_instance_lock(False) takes the lock unasked.
Start(w) ==
    /\ pc[w] = "off"
    /\ SetLock(w, w)
    /\ Goto(w, "get")
    /\ UNCHANGED <<hash, queue, order, status, client, reports, memory, work, faults>>

\* The same with a lost reply: nothing catches the ConnectionError.
StartLost(w) ==
    /\ pc[w] = "off"
    /\ SetLock(w, Gone)
    /\ Fault("drop")
    /\ UNCHANGED <<hash, queue, order, status, client, reports, local, work>>

\* Faulty variant: _retry_ping waits for Redis whatever happens.
QuitOnlyOnline(w) ==
    /\ pc[w] = "get"
    /\ interrupted[w]
    /\ Exit(w)
    /\ Forget(w)
    /\ UNCHANGED <<hash, queue, order, status, client, reports, work, faults>>

\* The loop ends when interrupted; fetch_submission raises KeyboardInterrupt
\* and main exits.
Quit(w) ==
    /\ pc[w] \in {"get", "retry"}
    /\ interrupted[w]
    /\ Exit(w)
    /\ Forget(w)
    /\ UNCHANGED <<hash, queue, order, status, client, reports, work, faults>>

\* Faulty variant: the pre-check is not made.
PreCheckSkipped(w) ==
    /\ pc[w] = "get"
    /\ ~interrupted[w]
    /\ Goto(w, "getset")
    /\ UNCHANGED <<redis, client, reports, memory, work, faults>>

\* set_instance_lock: GET and the pre-check.
PreCheck(w) ==
    /\ pc[w] = "get"
    /\ ~interrupted[w]
    /\ \/ Owns(w) /\ Goto(w, "getset") /\ UNCHANGED <<lock, memory>>
       \/ ~Owns(w) /\ Exit(w) /\ Forget(w)
    /\ UNCHANGED <<hash, queue, order, status, client, reports, work, faults>>

\* set_instance_lock: GETSET and the second check, on the value it replaced.
GetSet(w) ==
    /\ pc[w] = "getset"
    /\ \/ Owns(w) /\ Goto(w, "pop") /\ UNCHANGED <<lock, memory>>
       \/ ~Owns(w) /\ Exit(w) /\ SetLock(w, Gone)
    /\ UNCHANGED <<hash, queue, order, status, client, reports, work, faults>>

\* Faulty variants: keys in another order, and one key only.
ServedMediumFirst(l) ==
    /\ queue[l] # <<>>
    /\ l \in {"high", "low"} => queue["medium"] = <<>>

ServedMediumOnly(l) == l = "medium" /\ queue[l] # <<>>

ServedHighOnly(l) == l = "high" /\ queue[l] # <<>>

\* The queue BLPOP serves: the first nonempty one of its keys.
Served(l) ==
    /\ queue[l] # <<>>
    /\ l \in {"medium", "low"} => queue["high"] = <<>>
    /\ l = "low" => queue["medium"] = <<>>

\* Faulty variant: the submission is read and not removed.
PopKeeps(w) ==
    /\ pc[w] = "pop"
    /\ \E l \in Level : Served(l) /\ job' = [job EXCEPT ![w] = Head(queue[l])]
    /\ Goto(w, "popped")
    /\ UNCHANGED <<redis, client, reports, interrupted, test, result, work, faults>>

\* BLPOP returns a submission, and the loop ends with the data in hand.
Pop(w) ==
    /\ pc[w] = "pop"
    /\ \E l \in Level :
        /\ Served(l)
        /\ job' = [job EXCEPT ![w] = Head(queue[l])]
        /\ queue' = [queue EXCEPT ![l] = Tail(@)]
    /\ Goto(w, "popped")
    /\ UNCHANGED <<hash, order, lock, status, client, reports, interrupted, test, result, work, faults>>

\* BLPOP times out: back to the head of the loop.
PollEmpty(w) ==
    /\ pc[w] = "pop"
    /\ \A l \in Level : queue[l] = <<>>
    /\ Goto(w, "get")
    /\ UNCHANGED <<redis, client, reports, memory, work, faults>>

\* A ConnectionError inside the loop: the command may have been executed, so
\* GETSET may have set the lock and BLPOP may have taken a submission.
ConnectionLost(w) ==
    /\ pc[w] \in {"get", "getset", "pop"}
    /\ Fault("drop")
    /\ Goto(w, "retry")
    /\ \/ UNCHANGED <<queue, lock>>
       \/ pc[w] = "getset" /\ SetLock(w, w) /\ UNCHANGED queue
       \/ /\ pc[w] = "pop"
          /\ \E l \in Level : Served(l) /\ queue' = [queue EXCEPT ![l] = Tail(@)]
          /\ UNCHANGED lock
    /\ UNCHANGED <<hash, order, status, client, reports, memory, work>>

\* _retry_ping returns and the loop goes on.
Reconnect(w) ==
    /\ pc[w] = "retry"
    /\ ~interrupted[w]
    /\ Goto(w, "get")
    /\ UNCHANGED <<redis, client, reports, memory, work, faults>>

\* After the loop "if interrupted: raise KeyboardInterrupt()" comes first.
DropPopped(w) ==
    /\ pc[w] = "popped"
    /\ interrupted[w]
    /\ Exit(w)
    /\ Forget(w)
    /\ UNCHANGED <<hash, queue, order, status, client, reports, work, faults>>

\* Faulty variant: no ZREM.
ZRemMissing(w) ==
    /\ pc[w] = "popped"
    /\ ~interrupted[w]
    /\ Goto(w, "prepare")
    /\ UNCHANGED <<redis, client, reports, memory, work, faults>>

\* ZREM from the order of the queue the data came from.
ZRem(w) ==
    /\ pc[w] = "popped"
    /\ ~interrupted[w]
    /\ order' = [order EXCEPT ![LevelOf[job[w]]] = @ \ {job[w]}]
    /\ Goto(w, "prepare")
    /\ UNCHANGED <<hash, queue, lock, status, client, reports, memory, work, faults>>

-----------------------------------------------------------------------------
(* process_submission, for the submission the worker holds.                *)

\* The directory "work" of the instance name is emptied.
recreate_workdir(w) == work' = [work EXCEPT ![NameOf[w]] = {}]

\* "preparing", recreate_workdir, get_package, parse_config, do_prepare.  A
\* package that Redis does not hold raises KeyError, which main does not catch.
Prepare(w) ==
    /\ pc[w] = "prepare"
    /\ report_status(job[w], "preparing", 0)
    /\ recreate_workdir(w)
    /\ \/ job[w] \notin Unpackaged /\ Goto(w, "download") /\ UNCHANGED <<lock, memory>>
       \/ job[w] \in Unpackaged /\ Exit(w) /\ Forget(w)
       \/ InternalError(w) /\ UNCHANGED lock
    /\ UNCHANGED <<hash, queue, order, client, reports>>

\* download_project: every file of the hash into a fresh directory, then DEL.
\* A hash with no field raises KeyError, which main does not catch.
Download(w) ==
    /\ pc[w] = "download"
    /\ IF hash[job[w]] # {}
       THEN /\ work' = [work EXCEPT ![NameOf[w]] = {job[w]} \X hash[job[w]]]
            /\ hash' = [hash EXCEPT ![job[w]] = {}]
            /\ Goto(w, "compile")
            /\ UNCHANGED <<lock, memory>>
       ELSE /\ work' = [work EXCEPT ![NameOf[w]] = {}]
            /\ Exit(w)
            /\ Forget(w)
            /\ UNCHANGED hash
    /\ UNCHANGED <<queue, order, status, client, reports, faults>>

\* "compiling", do_compile: it succeeds, rejects the code, or raises.
Compile(w) ==
    /\ pc[w] = "compile"
    /\ report_status(job[w], "compiling", 0)
    /\ \/ Goto(w, "test") /\ UNCHANGED <<memory>>
       \/ /\ Goto(w, "done")
          /\ result' = [result EXCEPT ![w] = "compile_error"]
          /\ UNCHANGED <<job, interrupted, test>>
       \/ InternalError(w)
    /\ UNCHANGED <<hash, queue, order, lock, client, reports, work>>

\* Faulty variant: the last test announces the end before it is graded.
AnnounceEnd(w) ==
    IF test[w] + 1 = NTests
    THEN report_status(job[w], "done", 100)
    ELSE report_status(job[w], "testing", 20 + (test[w] * 80) \div NTests)

\* The status written before each test.
AnnounceTest(w) ==
    report_status(job[w], "testing", 20 + (test[w] * 80) \div NTests)

\* "testing", do_run_test; do_process_results follows the last test.
Test(w) ==
    /\ pc[w] = "test"
    /\ AnnounceTest(w)
    /\ \/ /\ test[w] + 1 < NTests
          /\ test' = [test EXCEPT ![w] = @ + 1]
          /\ UNCHANGED <<pc, job, interrupted, result>>
       \/ /\ test[w] + 1 = NTests
          /\ test' = [test EXCEPT ![w] = @ + 1]
          /\ Goto(w, "done")
          /\ result' = [result EXCEPT ![w] = "ok"]
          /\ UNCHANGED <<job, interrupted>>
       \/ InternalError(w)
    /\ UNCHANGED <<hash, queue, order, lock, client, reports, work>>

\* Faulty variant: the last status is that of a job that has only begun.
DoneRestarts(w) ==
    /\ pc[w] = "done"
    /\ report_status(job[w], "preparing", 0)
    /\ Goto(w, "publish")
    /\ UNCHANGED <<hash, queue, order, lock, client, reports, memory, work>>

\* "done", 100: the last status of a graded or rejected submission.
Done(w) ==
    /\ pc[w] = "done"
    /\ report_status(job[w], "done", 100)
    /\ Goto(w, "publish")
    /\ UNCHANGED <<hash, queue, order, lock, client, reports, memory, work>>

\* PUBLISH reaches whoever is subscribed at that moment.
Deliver(s, verdict) ==
    /\ reports' = [reports EXCEPT ![s] = Append(@, verdict)]
    /\ client' = [client EXCEPT ![s] = IF @ = "subscribed" THEN "got" ELSE @]

\* Faulty variant: the number of tests done survives into the next job.
PublishKeepsCount(w) ==
    /\ pc[w] = "publish"
    /\ Deliver(job[w], result[w])
    /\ Goto(w, "get")
    /\ job' = [job EXCEPT ![w] = NoJob]
    /\ result' = [result EXCEPT ![w] = "none"]
    /\ UNCHANGED <<redis, interrupted, test, work, faults>>

\* send_report_async, then back to fetch_submission.
Publish(w) ==
    /\ pc[w] = "publish"
    /\ Deliver(job[w], result[w])
    /\ Goto(w, "get")
    /\ job' = [job EXCEPT ![w] = NoJob]
    /\ test' = [test EXCEPT ![w] = 0]
    /\ result' = [result EXCEPT ![w] = "none"]
    /\ UNCHANGED <<redis, interrupted, work, faults>>

-----------------------------------------------------------------------------
(* What can go wrong around a worker.                                      *)

\* SIGTERM or SIGINT: sigterm_handler only sets a flag.
Signal(w) ==
    /\ pc[w] # "off"
    /\ ~interrupted[w]
    /\ Fault("signal")
    /\ interrupted' = [interrupted EXCEPT ![w] = TRUE]
    /\ UNCHANGED <<redis, client, reports, pc, job, test, result, work>>

\* The process is killed, or dies of an exception nothing catches.
Crash(w) ==
    /\ pc[w] # "off"
    /\ Fault("crash")
    /\ Exit(w)
    /\ Forget(w)
    /\ UNCHANGED <<hash, queue, order, status, client, reports, work>>

\* A ConnectionError outside the loop of fetch_submission kills the worker: in
\* ZREM, in PUBLISH, and in download_files for a package or a submission, whose
\* handler reads e.message and so raises AttributeError.  The command may have
\* been executed.
DropFatal(w) ==
    /\ pc[w] \in {"popped", "prepare", "download", "publish"}
    /\ pc[w] = "popped" => ~interrupted[w]
    /\ Fault("drop")
    /\ Exit(w)
    /\ Forget(w)
    /\ \/ UNCHANGED <<hash, order, reports, client>>
       \/ /\ pc[w] = "popped"
          /\ order' = [order EXCEPT ![LevelOf[job[w]]] = @ \ {job[w]}]
          /\ UNCHANGED <<hash, reports, client>>
       \/ /\ pc[w] = "download"
          /\ hash' = [hash EXCEPT ![job[w]] = {}]
          /\ UNCHANGED <<order, reports, client>>
       \/ /\ pc[w] = "publish"
          /\ Deliver(job[w], result[w])
          /\ UNCHANGED <<hash, order>>
    /\ UNCHANGED <<queue, status, work>>

-----------------------------------------------------------------------------
Fetch(w) ==
    \/ Quit(w) \/ PreCheck(w) \/ GetSet(w) \/ Pop(w) \/ PollEmpty(w)
    \/ Reconnect(w) \/ DropPopped(w) \/ ZRem(w)

Process(w) ==
    Prepare(w) \/ Download(w) \/ Compile(w) \/ Test(w) \/ Done(w) \/ Publish(w)

Mishap(w) ==
    StartLost(w) \/ ConnectionLost(w) \/ Signal(w) \/ Crash(w) \/ DropFatal(w)

ClientStep(s) ==
    PutFile(s) \/ AddToOrder(s) \/ Push(s) \/ Subscribe(s) \/ GiveUp(s)

Next ==
    \/ \E s \in Submission : ClientStep(s)
    \/ \E w \in Worker : Start(w) \/ Fetch(w) \/ Process(w) \/ Mishap(w)

Spec == Init /\ [][Next]_vars

(***************************************************************************)
(* systemd restarts a worker that is off (Restart=always), and a running   *)
(* one goes on: commands answer, plug-ins end (containers are limited in   *)
(* time).  Clients, signals and faults owe nobody a step.                  *)
(***************************************************************************)
Fairness ==
    \A w \in Worker : WF_vars(Start(w)) /\ WF_vars(Fetch(w) \/ Process(w))

FairSpec == Spec /\ Fairness
-----------------------------------------------------------------------------
(* Where a submission is.                                                  *)

Pushed ==
    {s \in Submission : client[s] \in {"queued", "subscribed", "got", "gaveup"}}
Queued == {s \in Submission : \E l \in Level : \E i \in DOMAIN queue[l] : queue[l][i] = s}
Grading == {s \in Submission : \E w \in Worker : job[w] = s}
Reported == {s \in Submission : reports[s] # <<>>}

\* Those nobody will ever report: out of the queue, and held by no worker.
Lost == Pushed \ (Queued \cup Grading \cup Reported)

\* An uploaded submission is in one place at a time: once in one queue, held by
\* one worker, or reported once.  RPUSH, BLPOP and PUBLISH by clients and
\* workers that crash, lose replies and steal each other's lock never grade it
\* twice.
OnePlace ==
    /\ \A l \in Level : \A i, j \in DOMAIN queue[l] :
          queue[l][i] = queue[l][j] => i = j
    /\ \A l \in Level : \A i \in DOMAIN queue[l] : LevelOf[queue[l][i]] = l
    /\ \A v, w \in Worker : job[v] = job[w] /\ job[v] # NoJob => v = w
    /\ \A s \in Reported : Len(reports[s]) = 1
    /\ Queued \cap Grading = {}
    /\ Reported \cap (Queued \cup Grading) = {}

\* The inductive strengthening of OnePlace: a worker holds a submission exactly
\* from BLPOP to PUBLISH and has its verdict at the end, and what is not pushed
\* yet is nowhere.
HoldsJob ==
    \A w \in Worker :
        /\ pc[w] \in Held <=> job[w] # NoJob
        /\ pc[w] \notin {"done", "publish"} => test[w] < NTests
        /\ pc[w] \in {"done", "publish"} => result[w] \in Verdict

UnpushedNowhere == Queued \cup Grading \cup Reported \subseteq Pushed

IInv == TypeOK /\ HoldsJob /\ OnePlace /\ UnpushedNowhere

\* Those with no file or no package: Download and Prepare lose them.
Ungradable == Unpackaged \cup {s \in Submission : FilesOf[s] = {}}

\* Every crash, lost connection or signal loses at most one submission, however
\* they combine.
LossBounded == Cardinality(Lost \ Ungradable) <= faults

\* No submission is lost.
NothingLost == Lost = {}

\* What dump_queue.py prints of a level: ZRANGE queue:<level>:order.
Printed(level) == order[level]

\* The sorted set that dump_queue.py prints lists every submission in the
\* queue; what else it lists is about to be queued, was just popped, or is lost
\* for good.
OrderIndexesQueue ==
    \A s \in Submission :
        /\ s \in Queued => s \in Printed(LevelOf[s])
        /\ s \in Printed(LevelOf[s]) =>
              \/ client[s] = "listed"
              \/ s \in Queued \cup Lost
              \/ \E w \in Worker : job[w] = s /\ pc[w] = "popped"

\* What a worker compiles and tests is all of its submission's files and nothing
\* else, although the upload takes many commands and the directory is reused.
OwnFiles ==
    \A w \in Worker :
        pc[w] \in {"compile", "test"} =>
            work[NameOf[w]] = {job[w]} \X FilesOf[job[w]]

\* The status "done" appears only for submissions whose verdict stands: an
\* internal error is never announced as done.
DoneMeansGraded ==
    \A s \in Submission :
        status[s].stage = "done" =>
            /\ \A w \in Worker : job[w] = s =>
                  pc[w] = "publish" /\ result[w] \in {"ok", "compile_error"}
            /\ s \in Reported => Head(reports[s]) # "internal_error"

\* A PUBLISH is not lost on a client that has not subscribed yet: "adds to the
\* bottom (right) of the report_queue" (the docstring of send_report_async).
ReportKept ==
    \A s \in Reported : client[s] # "subscribed"

Rank(st) ==
    st.progress + CASE st.stage = "none" -> 0
                    [] st.stage = "preparing" -> 1
                    [] st.stage = "compiling" -> 2
                    [] st.stage = "testing" -> 3
                    [] st.stage = "done" -> 4

\* The status of a submission never goes back, whatever worker writes it and
\* whichever writes are lost.
ProgressMonotone ==
    [][\A s \in Submission : Rank(status[s]) <= Rank(status'[s])]_vars

\* A worker that was told to terminate does, even while Redis is unreachable.
GracefulStop == \A w \in Worker : interrupted[w] ~> pc[w] = "off"

-----------------------------------------------------------------------------
(* The specifications this one implements.                                 *)

\* The lock round as InstanceLock sees it: all of a job is "busy".
LockStage(w) == IF pc[w] \in Held THEN "busy" ELSE pc[w]

\* The deployments that share the lock of the name n.
Deployed(n) == {w \in Worker : NameOf[w] = n}

Lock == INSTANCE InstanceLock WITH
    Worker <- Deployed(AnyName),
    lock <- lock[AnyName],
    pc <- [w \in Deployed(AnyName) |-> LockStage(w)]

\* The workers of one name use its lock as InstanceLock says, whatever they do
\* with submissions: the pre-check, the GETSET and its check come before every
\* pop, and nothing but these and a start writes the key.
SharedLock == Lock!Spec

JobStage(w) == IF pc[w] \in Held \ {"popped"} THEN pc[w] ELSE "away"

TestsLeft(w) == IF pc[w] = "test" THEN NTests - test[w] ELSE 0

J == INSTANCE Job WITH
    stage <- JobStage(AnyWorker), left <- TestsLeft(AnyWorker), verdict <- result[AnyWorker]

\* A worker takes its jobs one after the other through the stages of Job,
\* whatever the other workers and the faults do, and every job ends.
JobSteps == J!JobSpec /\ J!JobEnds

Service == INSTANCE Delivery WITH
    pending <- queue,
    taken <- Grading,
    answered <- Reported,
    lost <- Lost,
    mishaps <- faults + Cardinality(Lost \cap Ungradable)

\* The engine serves by urgency and then in order, answers once, and loses a
\* submission only by a fault or because it cannot be graded.  Whatever is left
\* pending by a fault is in the end answered, or lost in this sense.
DeliversAll == Service!DFairSpec
=============================================================================
