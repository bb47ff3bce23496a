------------------------- MODULE InstanceLockHistory -------------------------
(***************************************************************************)
(* InstanceLock with two history variables that record what its safety     *)
(* properties are about.  They only observe: every behaviour of            *)
(* InstanceLock has a history, and no guard reads one.                     *)
(***************************************************************************)
EXTENDS InstanceLock, Naturals

VARIABLES
    late,       \* submissions a process popped since its uuid was overwritten
    overlap     \* the process ran at the same time as another of its name

hvars == <<lock, pc, late, overlap>>

HTypeOK ==
    /\ TypeOK
    /\ late \in [Worker -> Nat]
    /\ overlap \in [Worker -> BOOLEAN]

HInit ==
    /\ Init
    /\ late = [w \in Worker |-> 0]
    /\ overlap = [w \in Worker |-> FALSE]

\* A start that reaches Redis is seen by every process running then; the one
\* that starts overlaps with each of them as well.
Observe(w, survives) ==
    overlap' = [v \in Worker |->
                  IF v = w
                  THEN survives /\ \E u \in Worker \ {w} : Running(u)
                  ELSE Running(v) /\ (overlap[v] \/ v # w)]

HStart(w) ==
    /\ Start(w)
    /\ late' = [late EXCEPT ![w] = 0]
    /\ Observe(w, TRUE)

HStartLost(w) ==
    /\ StartLost(w)
    /\ late' = [late EXCEPT ![w] = 0]
    /\ Observe(w, FALSE)

HPop(w) ==
    /\ Pop(w)
    /\ late' = [late EXCEPT ![w] = IF lock = w THEN 0 ELSE @ + 1]
    /\ UNCHANGED overlap

HOther(w) ==
    /\ \/ PreCheck(w)
       \/ GetSet(w)
       \/ PollEmpty(w)
       \/ Finish(w)
       \/ ConnectionLost(w)
       \/ ReplyLost(w)
       \/ Reconnect(w)
       \/ Stop(w)
    /\ late' = [late EXCEPT ![w] = IF lock' = w THEN 0 ELSE @]
    /\ UNCHANGED overlap

HNext == \E w \in Worker : HStart(w) \/ HStartLost(w) \/ HPop(w) \/ HOther(w)

HSpec == HInit /\ [][HNext]_hvars

-----------------------------------------------------------------------------
\* A worker whose uuid another process of its name has overwritten takes at
\* most one more submission off the queue before it finds out: the lock round
\* of set_instance_lock comes before every BLPOP (task_queue.py:97-102), and
\* the pre-check does not write.
LateAtMostOne == \A w \in Worker : late[w] <= 1

\* "Instance lock was stolen ... two workers are running on the same instance
\* name" (task_queue.py:53-55) is never a false alarm: a running process whose
\* uuid is not in the key has run at the same time as another of its name,
\* through crashes, restarts and replies that were lost.
NoFalseAlarm == \A w \in Worker : Running(w) /\ lock # w => overlap[w]

\* Why LateAtMostOne holds: a worker that popped late is not the owner, and the
\* next check it meets is the one that stops it.
LateIsCaught ==
    \A w \in Worker :
        late[w] > 0 => /\ late[w] = 1
                       /\ pc[w] \in {"busy", "get", "retry", "off"}
                       /\ lock # w

\* Why NoFalseAlarm holds: the key changes hands between running processes
\* only while both run, and then both have met.
PairsOverlap ==
    \A v, w \in Worker : Running(v) /\ Running(w) /\ v # w => overlap[v]

\* The inductive invariant the proofs use.
HInv == HTypeOK /\ LateIsCaught /\ PairsOverlap /\ NoFalseAlarm
=============================================================================
