------------------------- MODULE InstanceLockProofs -------------------------
(* Proofs about InstanceLockHistory, for any set of workers.               *)
EXTENDS InstanceLockHistory, TLAPS

\* The initial state has no running process and nothing late.
LEMMA InitHInv == HInit => HInv
  BY GoneAssumption
     DEF HInit, Init, HInv, HTypeOK, TypeOK, Stage, LateIsCaught, PairsOverlap,
         NoFalseAlarm, Running

\* Each action preserves the types of the four variables.
LEMMA StepHTypeOK ==
    ASSUME HTypeOK, [HNext]_hvars
    PROVE  HTypeOK'
<1> USE DEF HTypeOK, TypeOK, Stage, Running
<1>1. CASE UNCHANGED hvars
  BY <1>1 DEF hvars
<1>2. ASSUME NEW w \in Worker, HStart(w)
      PROVE  HTypeOK'
  BY <1>2 DEF HStart, Start, Goto, Observe
<1>3. ASSUME NEW w \in Worker, HStartLost(w)
      PROVE  HTypeOK'
  BY <1>3 DEF HStartLost, StartLost, Observe
<1>4. ASSUME NEW w \in Worker, HPop(w)
      PROVE  HTypeOK'
  BY <1>4 DEF HPop, Pop, Goto
<1>5. ASSUME NEW w \in Worker, HOther(w)
      PROVE  HTypeOK'
  <2>1. late' \in [Worker -> Nat] /\ overlap' \in [Worker -> BOOLEAN]
    BY <1>5 DEF HOther
  <2>2. TypeOK'
    BY <1>5 DEF HOther, PreCheck, GetSet, PollEmpty, Finish, ConnectionLost,
                ReplyLost, Reconnect, Stop, Goto, Forget
  <2> QED BY <2>1, <2>2
<1> QED BY <1>1, <1>2, <1>3, <1>4, <1>5 DEF HNext

\* Only Pop makes a worker late, and the check that follows it fails.
LEMMA StepLateIsCaught ==
    ASSUME HTypeOK, LateIsCaught, [HNext]_hvars
    PROVE  LateIsCaught'
<1> USE GoneAssumption
<1> USE DEF HTypeOK, TypeOK, Stage, LateIsCaught, Goto
<1>1. CASE UNCHANGED hvars
  BY <1>1 DEF hvars
<1>2. ASSUME NEW w \in Worker, HStart(w)
      PROVE  LateIsCaught'
  BY <1>2 DEF HStart, Start
<1>3. ASSUME NEW w \in Worker, HStartLost(w)
      PROVE  LateIsCaught'
  BY <1>3 DEF HStartLost, StartLost
<1>4. ASSUME NEW w \in Worker, HPop(w)
      PROVE  LateIsCaught'
  <2>1. late[w] = 0
    BY <1>4 DEF HPop, Pop
  <2> QED BY <1>4, <2>1 DEF HPop, Pop
<1>5. ASSUME NEW w \in Worker, HOther(w)
      PROVE  LateIsCaught'
  <2>1. CASE PreCheck(w) \/ GetSet(w) \/ Stop(w)
    BY <1>5, <2>1 DEF HOther, PreCheck, GetSet, Stop, Forget, Running,
                      _compare_instance_key
  <2>2. CASE PollEmpty(w) \/ Finish(w) \/ Reconnect(w)
    BY <1>5, <2>2 DEF HOther, PollEmpty, Finish, Reconnect
  <2>3. CASE ConnectionLost(w) \/ ReplyLost(w)
    BY <1>5, <2>3 DEF HOther, ConnectionLost, ReplyLost
  <2> QED BY <1>5, <2>1, <2>2, <2>3 DEF HOther
<1> QED BY <1>1, <1>2, <1>3, <1>4, <1>5 DEF HNext

\* Two processes of the name run together only after a start both witnessed,
\* and the key leaves a running process only through another running one.
LEMMA StepOverlap ==
    ASSUME HTypeOK, PairsOverlap, NoFalseAlarm, [HNext]_hvars
    PROVE  PairsOverlap' /\ NoFalseAlarm'
<1> USE GoneAssumption
<1> USE DEF HTypeOK, TypeOK, Stage, PairsOverlap, NoFalseAlarm, Running, Goto
<1>1. CASE UNCHANGED hvars
  BY <1>1 DEF hvars
<1>2. ASSUME NEW w \in Worker, HStart(w)
      PROVE  PairsOverlap' /\ NoFalseAlarm'
  BY <1>2 DEF HStart, Start, Observe
<1>3. ASSUME NEW w \in Worker, HStartLost(w)
      PROVE  PairsOverlap' /\ NoFalseAlarm'
  BY <1>3 DEF HStartLost, StartLost, Observe
<1>4. ASSUME NEW w \in Worker, HPop(w)
      PROVE  PairsOverlap' /\ NoFalseAlarm'
  BY <1>4 DEF HPop, Pop
<1>5. ASSUME NEW w \in Worker, HOther(w)
      PROVE  PairsOverlap' /\ NoFalseAlarm'
  <2>1. CASE PreCheck(w) \/ GetSet(w) \/ Stop(w)
    BY <1>5, <2>1 DEF HOther, PreCheck, GetSet, Stop, Forget,
                      _compare_instance_key
  <2>2. CASE PollEmpty(w) \/ Finish(w) \/ Reconnect(w)
    BY <1>5, <2>2 DEF HOther, PollEmpty, Finish, Reconnect
  <2>3. CASE ConnectionLost(w) \/ ReplyLost(w)
    BY <1>5, <2>3 DEF HOther, ConnectionLost, ReplyLost
  <2> QED BY <1>5, <2>1, <2>2, <2>3 DEF HOther
<1> QED BY <1>1, <1>2, <1>3, <1>4, <1>5 DEF HNext

\* The inductive invariant holds in every reachable state: where a worker that
\* lost the key can be, and who has met whom.
THEOREM Invariance == HSpec => []HInv
<1>1. HInv /\ [HNext]_hvars => HInv'
  BY StepHTypeOK, StepLateIsCaught, StepOverlap DEF HInv
<1> QED BY InitHInv, <1>1, PTL DEF HSpec

\* A worker whose uuid was overwritten pops at most one more submission before
\* set_instance_lock stops it, whatever the number of workers of its name.
THEOREM LateAtMostOneThm == HSpec => []LateAtMostOne
<1>1. HInv => LateAtMostOne
  <2> SUFFICES ASSUME HInv, NEW w \in Worker
               PROVE  late[w] <= 1
    BY DEF LateAtMostOne
  <2>1. late[w] \in Nat
    BY DEF HInv, HTypeOK
  <2>2. late[w] > 0 => late[w] = 1
    BY DEF HInv, LateIsCaught
  <2> QED BY <2>1, <2>2
<1> QED BY Invariance, <1>1, PTL

\* A worker is told that its lock was stolen only if another process of its
\* name really ran at the same time, through crashes and lost replies.
THEOREM NoFalseAlarmThm == HSpec => []NoFalseAlarm
<1>1. HInv => NoFalseAlarm
  BY DEF HInv
<1> QED BY Invariance, <1>1, PTL
=============================================================================
