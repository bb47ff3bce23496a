---------------------------- MODULE InstanceLock ----------------------------
(***************************************************************************)
(* The instance lock of task_queue.py: the workers configured with one     *)
(* INSTANCE_NAME, the Redis key instance_lock:<INSTANCE_NAME> they share,  *)
(* and the round of commands (GET, compare, GETSET, compare) that every    *)
(* pass of the loop in fetch_submission makes before its BLPOP.            *)
(*                                                                         *)
(* A process writes the uuid4 it drew when it was started, so the only     *)
(* question ever asked of the key is whether it holds the asking process's *)
(* own uuid.  The variable lock is therefore the running process whose     *)
(* uuid the key holds, or Gone when it holds no running process's uuid     *)
(* (nothing was written yet, or its writer has terminated).                *)
(***************************************************************************)
CONSTANTS
    Worker,     \* the deployments that share one INSTANCE_NAME
    Gone        \* the key holds no running process's uuid

ASSUME GoneAssumption == Gone \notin Worker

VARIABLES
    lock,       \* whose uuid instance_lock:<INSTANCE_NAME> holds
    pc          \* the command each worker issues next

vars == <<lock, pc>>

(***************************************************************************)
(* "off"     no process is running                                         *)
(* "get"     about to GET the key                                          *)
(* "getset"  the pre-check passed, about to GETSET the key                 *)
(* "pop"     the lock round is over, in SETEX alive_workers / BLPOP        *)
(* "busy"    processing the submission it popped                           *)
(* "retry"   inside _retry_ping after a ConnectionError                    *)
(***************************************************************************)
Stage == {"off", "get", "getset", "pop", "busy", "retry"}

TypeOK ==
    /\ lock \in Worker \cup {Gone}
    /\ pc \in [Worker -> Stage]

Running(w) == pc[w] # "off"

\* Faulty variant: no comparison is made.
NeverMismatch(w, redis_value) == TRUE

\* _compare_instance_key: the value read is the caller's own uuid.
_compare_instance_key(w, redis_value) == redis_value = w

Goto(w, stage) == pc' = [pc EXCEPT ![w] = stage]

\* A process's uuid dies with it: if the key holds it, it is nobody's now.
Forget(w) == lock' = IF lock = w THEN Gone ELSE lock

Init ==
    /\ lock = Gone
    /\ pc = [w \in Worker |-> "off"]

-----------------------------------------------------------------------------
\* Faulty variant: main does not write the lock before its loop.
StartWithoutLock(w) ==
    /\ pc[w] = "off"
    /\ Goto(w, "get")
    /\ UNCHANGED lock

\* main up to its loop: set_instance_lock(False) overwrites the key unasked.
Start(w) ==
    /\ pc[w] = "off"
    /\ lock' = w
    /\ Goto(w, "get")

\* The same command was executed but its reply was lost: main does not catch
\* the ConnectionError, and a dead process's uuid stays in the key.
StartLost(w) ==
    /\ pc[w] = "off"
    /\ lock' = Gone
    /\ UNCHANGED pc

\* set_instance_lock: GET and the pre-check; a mismatch raises RuntimeError,
\* which nothing catches around fetch_submission.
PreCheck(w) ==
    /\ pc[w] = "get"
    /\ \/ /\ _compare_instance_key(w, lock)
          /\ Goto(w, "getset")
          /\ UNCHANGED lock
       \/ /\ ~_compare_instance_key(w, lock)
          /\ Goto(w, "off")
          /\ Forget(w)

\* set_instance_lock: GETSET and the second check, on the value replaced.  The
\* worker that fails it has already overwritten the key with its own uuid.
GetSet(w) ==
    /\ pc[w] = "getset"
    /\ \/ /\ _compare_instance_key(w, lock)
          /\ Goto(w, "pop")
          /\ lock' = w
       \/ /\ ~_compare_instance_key(w, lock)
          /\ Goto(w, "off")
          /\ lock' = Gone

\* BLPOP returned nothing within its 5 seconds: the loop starts over.
PollEmpty(w) ==
    /\ pc[w] = "pop"
    /\ Goto(w, "get")
    /\ UNCHANGED lock

\* BLPOP returned a submission: the loop ends and the job is processed.
Pop(w) ==
    /\ pc[w] = "pop"
    /\ Goto(w, "busy")
    /\ UNCHANGED lock

\* Faulty variant: the lock round is made once, outside the loop.
FinishWithoutCheck(w) ==
    /\ pc[w] = "busy"
    /\ Goto(w, "pop")
    /\ UNCHANGED lock

\* The job was reported and main calls fetch_submission again.
Finish(w) ==
    /\ pc[w] = "busy"
    /\ Goto(w, "get")
    /\ UNCHANGED lock

\* A command of the loop raises ConnectionError and changed nothing in Redis:
\* the worker goes to _retry_ping.
ConnectionLost(w) ==
    /\ pc[w] \in {"get", "getset", "pop"}
    /\ Goto(w, "retry")
    /\ UNCHANGED lock

\* GETSET was executed and its reply lost: the second check is skipped, and
\* the next round compares the worker's uuid with what it wrote itself.
ReplyLost(w) ==
    /\ pc[w] = "getset"
    /\ Goto(w, "retry")
    /\ lock' = w

\* safe_ping succeeds and the while loop of fetch_submission goes round again.
Reconnect(w) ==
    /\ pc[w] = "retry"
    /\ Goto(w, "get")
    /\ UNCHANGED lock

\* The process ends: SIGTERM honoured between two jobs, a crash, a kill, or an
\* exception main does not catch.
Stop(w) ==
    /\ Running(w)
    /\ Goto(w, "off")
    /\ Forget(w)

Step(w) == PreCheck(w) \/ GetSet(w) \/ PollEmpty(w) \/ Pop(w) \/ Finish(w)

Next ==
    \E w \in Worker :
        Start(w) \/ StartLost(w) \/ Step(w) \/ ConnectionLost(w)
            \/ ReplyLost(w) \/ Reconnect(w) \/ Stop(w)

(***************************************************************************)
(* A running process keeps going: the commands answer or raise, BLPOP has  *)
(* a timeout, a job ends (its containers are limited).  The two checks get *)
(* strong fairness: an unreliable connection cannot fail them for ever,    *)
(* however often it sends the worker to _retry_ping in between.            *)
(***************************************************************************)
Fairness ==
    \A w \in Worker :
        /\ WF_vars(PollEmpty(w) \/ Pop(w))
        /\ WF_vars(Finish(w))
        /\ WF_vars(Reconnect(w))
        /\ SF_vars(PreCheck(w))
        /\ SF_vars(GetSet(w))

Spec == Init /\ [][Next]_vars

FairSpec == Spec /\ Fairness

\* Once nobody starts workers of this name any more and GETSET replies get
\* through, at most one process of the name survives: every process whose uuid
\* was overwritten finds out and ends.  This is what the lock is for (the
\* comment at worker.py:185-187).  Both conditions are needed: two processes
\* whose GETSET replies keep being lost take the key from each other unnoticed.
EventuallyExclusive ==
    (<>[][\A w \in Worker : ~Start(w) /\ ~ReplyLost(w)]_vars)
        => <>[](\A v, w \in Worker : Running(v) /\ Running(w) => v = w)
=============================================================================
