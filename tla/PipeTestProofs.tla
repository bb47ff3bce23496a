--------------------------- MODULE PipeTestProofs ---------------------------
(***************************************************************************)
(* Proofs about PipeTest: whatever may go wrong, no container is left      *)
(* between two tests, the service and the program never block at different *)
(* pipes, the worker times the program from their meeting, and each side   *)
(* gets the verdict of its own doing.                                      *)
(***************************************************************************)
EXTENDS PipeTest, TLAPS

\* Which containers exist at each stage of the worker.
Stages ==
    /\ pc = "idle" => \A c \in Box : box[c] = "none"
    /\ pc = "run" => box[at] = "none"
    /\ pc \in {"run", "boot"} /\ at = "srv" => box["exc"] = "none"
    /\ pc = "boot" => box[at] # "none"
    /\ pc \in {"run", "boot"} /\ at = "exc" => box["srv"] # "none"
    /\ pc = "await_service" => at = "exc" /\ \A c \in Box : box[c] # "none"
    /\ pc \in {"wait", "stop"} /\ at = "srv" => box["exc"] = "none"
    /\ pc = "grade" => \A c \in Box : box[c] = "none"

\* How far the two are from each other.  The first conjunct is about those who
\* have met at both pipes, the next two about those who have met at one.
Meeting ==
    /\ box["srv"] \in {"greet", "running"} \/ srv_ready =>
           pc # "run" /\ box["exc"] \in {"running", "ended", "told", "none"}
    /\ box["srv"] = "open_out" => pc # "run" /\ box["exc"] \in {"open_out", "none"}
    /\ box["exc"] = "open_out" => box["srv"] \in {"open_out", "ended", "told", "none"}
    /\ srv_ready => box["srv"] \in {"running", "ended", "told", "none"}
    /\ TimedFromMeeting

\* The results there are at each stage, and what each of them goes back to.
Results ==
    /\ pc \in {"run", "boot", "await_service"} => \A c \in Box : res[c] = "none"
    /\ pc = "wait" /\ at = "exc" => res["exc"] = "none"
    /\ (pc = "wait" /\ at = "srv") \/ pc = "stop" => res["exc"] # "none"
    /\ pc = "grade" \/ (pc = "stop" /\ at = "srv") => \A c \in Box : res[c] # "none"
    /\ \A c \in Box :
          /\ res[c] \in Timeout => SlowOf(c) \in trouble
          /\ res[c] = "ok" => exit[c] = 0 /\ box[c] \in {"told", "none"}
          /\ res[c] = "bad_exit_code" => exit[c] = 1 /\ box[c] \in {"told", "none"}
          /\ res[c] # "none" => pc # "run"
    /\ exit["srv"] = 1 => "crash" \in trouble
    /\ output = NoResult /\ exit["srv"] = 0 /\ box["srv"] \in {"ended", "told"} =>
          "garbled" \in trouble
    /\ output = NoResult /\ res["srv"] = "ok" => "garbled" \in trouble

\* Only Docker makes the worker raise once the program has timed out.
Raised ==
    pc = "raised" =>
        /\ trouble \cap {"docker", "boot", "unready", "crash", "garbled"} # {}
        /\ res["exc"] \in Timeout => "docker" \in trouble

\* A verdict stands until the next test begins.
Verdicts ==
    /\ verdict # "none" => pc = "idle"
    /\ EachForItself

IInv == TypeOK /\ Stages /\ Meeting /\ Results /\ Raised /\ Verdicts

\* Every step keeps the types.
LEMMA TypeStep ==
    ASSUME TypeOK, [Next]_vars
    PROVE  TypeOK'
<1> USE PipeTestAssumption DEF TypeOK, Box, Opening, Timeout, SlowOf, Moves,
        Trouble, Fine, vars, worker, programs, Conclude
<1>1. CASE Prepare
  BY <1>1 DEF Prepare
<1>2. CASE Run
  BY <1>2 DEF Run
<1>3. CASE Unlock
  BY <1>3 DEF Unlock
<1>4. CASE NotReady
  BY <1>4 DEF NotReady
<1>5. CASE AwaitService
  BY <1>5 DEF AwaitService
<1>6. CASE Wait
  <2>1. res' \in [Box -> {"none", "ok", "bad_exit_code"} \cup Timeout]
    BY <1>6 DEF Wait
  <2>2. trouble' \subseteq Troubles
    <3>1. trouble' = trouble \/ \E what \in Troubles : trouble' = trouble \cup {what}
      BY <1>6 DEF Wait
    <3> QED BY <3>1
  <2> QED
    BY <1>6, <2>1, <2>2 DEF Wait
<1>7. CASE Stop
  BY <1>7 DEF Stop
<1>8. CASE Grade
  BY <1>8 DEF Grade
<1>9. CASE Handle
  BY <1>9 DEF Handle
<1>10. CASE DockerRaises
  BY <1>10 DEF DockerRaises
<1>11. CASE Meet
  BY <1>11 DEF Meet
<1>12. CASE Greet
  BY <1>12 DEF Greet
<1>13. CASE EndProgram
  BY <1>13 DEF EndProgram
<1>14. CASE EndService
  BY <1>14 DEF EndService
<1>15. CASE CrashService
  BY <1>15 DEF CrashService
<1>16. ASSUME NEW c \in Box, Boot(c) PROVE TypeOK'
  BY <1>16 DEF Boot
<1>17. ASSUME NEW c \in Box, Begin(c) PROVE TypeOK'
  BY <1>17 DEF Begin
<1>18. ASSUME NEW c \in Box, Tell(c) PROVE TypeOK'
  BY <1>18 DEF Tell
<1>19. CASE UNCHANGED vars
  BY <1>19
<1> QED
  BY <1>1, <1>2, <1>3, <1>4, <1>5, <1>6, <1>7, <1>8, <1>9, <1>10,
     <1>11, <1>12, <1>13, <1>14, <1>15, <1>16, <1>17, <1>18, <1>19
  DEF Next, Call, Script

\* No step starts or removes a container out of turn.
LEMMA StagesStep ==
    ASSUME TypeOK /\ Stages, [Next]_vars
    PROVE  Stages'
<1> USE PipeTestAssumption DEF TypeOK, Stages, Box, Opening, Timeout, SlowOf,
        Moves, Trouble, Fine, vars, worker, programs, Conclude
<1>1. CASE Prepare
  BY <1>1 DEF Prepare
<1>2. CASE Run
  BY <1>2 DEF Run
<1>3. CASE Unlock
  BY <1>3 DEF Unlock
<1>4. CASE NotReady
  BY <1>4 DEF NotReady
<1>5. CASE AwaitService
  BY <1>5 DEF AwaitService
<1>6. CASE Wait
  BY <1>6 DEF Wait
<1>7. CASE Stop
  BY <1>7 DEF Stop
<1>8. CASE Grade
  BY <1>8 DEF Grade
<1>9. CASE Handle
  BY <1>9 DEF Handle
<1>10. CASE DockerRaises
  BY <1>10 DEF DockerRaises
<1>11. CASE Meet
  BY <1>11 DEF Meet
<1>12. CASE Greet
  BY <1>12 DEF Greet
<1>13. CASE EndProgram
  BY <1>13 DEF EndProgram
<1>14. CASE EndService
  BY <1>14 DEF EndService
<1>15. CASE CrashService
  BY <1>15 DEF CrashService
<1>16. ASSUME NEW c \in Box, Boot(c) PROVE Stages'
  BY <1>16 DEF Boot
<1>17. ASSUME NEW c \in Box, Begin(c) PROVE Stages'
  BY <1>17 DEF Begin
<1>18. ASSUME NEW c \in Box, Tell(c) PROVE Stages'
  BY <1>18 DEF Tell
<1>19. CASE UNCHANGED vars
  BY <1>19
<1> QED
  BY <1>1, <1>2, <1>3, <1>4, <1>5, <1>6, <1>7, <1>8, <1>9, <1>10,
     <1>11, <1>12, <1>13, <1>14, <1>15, <1>16, <1>17, <1>18, <1>19
  DEF Next, Call, Script

\* No step gets one side past a pipe without the other.
LEMMA MeetingStep ==
    ASSUME TypeOK /\ Stages /\ Meeting, [Next]_vars
    PROVE  Meeting'
<1> USE PipeTestAssumption DEF TypeOK, Stages, Meeting, Box, Opening, Timeout,
        SlowOf, Moves, Trouble, Fine, vars, worker, programs, TimedFromMeeting, Conclude
<1>1. CASE Prepare
  BY <1>1 DEF Prepare
<1>2. CASE Run
  BY <1>2 DEF Run
<1>3. CASE Unlock
  BY <1>3 DEF Unlock
<1>4. CASE NotReady
  BY <1>4 DEF NotReady
<1>5. CASE AwaitService
  BY <1>5 DEF AwaitService
<1>6. CASE Wait
  BY <1>6 DEF Wait
<1>7. CASE Stop
  BY <1>7 DEF Stop
<1>8. CASE Grade
  BY <1>8 DEF Grade
<1>9. CASE Handle
  BY <1>9 DEF Handle
<1>10. CASE DockerRaises
  BY <1>10 DEF DockerRaises
<1>11. CASE Meet
  BY <1>11 DEF Meet
<1>12. CASE Greet
  BY <1>12 DEF Greet
<1>13. CASE EndProgram
  BY <1>13 DEF EndProgram
<1>14. CASE EndService
  BY <1>14 DEF EndService
<1>15. CASE CrashService
  BY <1>15 DEF CrashService
<1>16. ASSUME NEW c \in Box, Boot(c) PROVE Meeting'
  BY <1>16 DEF Boot
<1>17. ASSUME NEW c \in Box, Begin(c) PROVE Meeting'
  BY <1>17 DEF Begin
<1>18. ASSUME NEW c \in Box, Tell(c) PROVE Meeting'
  BY <1>18 DEF Tell
<1>19. CASE UNCHANGED vars
  BY <1>19
<1> QED
  BY <1>1, <1>2, <1>3, <1>4, <1>5, <1>6, <1>7, <1>8, <1>9, <1>10,
     <1>11, <1>12, <1>13, <1>14, <1>15, <1>16, <1>17, <1>18, <1>19
  DEF Next, Call, Script

\* No step takes a result from a container that did not give it.
LEMMA ResultsStep ==
    ASSUME TypeOK /\ Stages /\ Results, [Next]_vars
    PROVE  Results'
<1> USE PipeTestAssumption DEF TypeOK, Stages, Results, Box, Opening, Timeout,
        SlowOf, Moves, Trouble, Fine, vars, worker, programs, Conclude
<1>1. CASE Prepare
  BY <1>1 DEF Prepare
<1>2. CASE Run
  BY <1>2 DEF Run
<1>3. CASE Unlock
  BY <1>3 DEF Unlock
<1>4. CASE NotReady
  BY <1>4 DEF NotReady
<1>5. CASE AwaitService
  BY <1>5 DEF AwaitService
<1>6. CASE Wait
  BY <1>6 DEF Wait
<1>7. CASE Stop
  BY <1>7 DEF Stop
<1>8. CASE Grade
  BY <1>8 DEF Grade
<1>9. CASE Handle
  BY <1>9 DEF Handle
<1>10. CASE DockerRaises
  BY <1>10 DEF DockerRaises
<1>11. CASE Meet
  BY <1>11 DEF Meet
<1>12. CASE Greet
  BY <1>12 DEF Greet
<1>13. CASE EndProgram
  BY <1>13 DEF EndProgram
<1>14. CASE EndService
  BY <1>14 DEF EndService
<1>15. CASE CrashService
  BY <1>15 DEF CrashService
<1>16. ASSUME NEW c \in Box, Boot(c) PROVE Results'
  BY <1>16 DEF Boot
<1>17. ASSUME NEW c \in Box, Begin(c) PROVE Results'
  BY <1>17 DEF Begin
<1>18. ASSUME NEW c \in Box, Tell(c) PROVE Results'
  BY <1>18 DEF Tell
<1>19. CASE UNCHANGED vars
  BY <1>19
<1> QED
  BY <1>1, <1>2, <1>3, <1>4, <1>5, <1>6, <1>7, <1>8, <1>9, <1>10,
     <1>11, <1>12, <1>13, <1>14, <1>15, <1>16, <1>17, <1>18, <1>19
  DEF Next, Call, Script

\* No step raises for the sake of a program that is only slow.
LEMMA RaisedStep ==
    ASSUME TypeOK /\ Stages /\ Results /\ Raised, [Next]_vars
    PROVE  Raised'
<1> USE PipeTestAssumption DEF TypeOK, Stages, Results, Raised, Box, Opening,
        Timeout, SlowOf, Moves, Trouble, Fine, vars, worker, programs, Conclude
<1>1. CASE Prepare
  BY <1>1 DEF Prepare
<1>2. CASE Run
  BY <1>2 DEF Run
<1>3. CASE Unlock
  BY <1>3 DEF Unlock
<1>4. CASE NotReady
  BY <1>4 DEF NotReady
<1>5. CASE AwaitService
  BY <1>5 DEF AwaitService
<1>6. CASE Wait
  BY <1>6 DEF Wait
<1>7. CASE Stop
  BY <1>7 DEF Stop
<1>8. CASE Grade
  BY <1>8 DEF Grade
<1>9. CASE Handle
  BY <1>9 DEF Handle
<1>10. CASE DockerRaises
  BY <1>10 DEF DockerRaises
<1>11. CASE Meet
  BY <1>11 DEF Meet
<1>12. CASE Greet
  BY <1>12 DEF Greet
<1>13. CASE EndProgram
  BY <1>13 DEF EndProgram
<1>14. CASE EndService
  BY <1>14 DEF EndService
<1>15. CASE CrashService
  BY <1>15 DEF CrashService
<1>16. ASSUME NEW c \in Box, Boot(c) PROVE Raised'
  BY <1>16 DEF Boot
<1>17. ASSUME NEW c \in Box, Begin(c) PROVE Raised'
  BY <1>17 DEF Begin
<1>18. ASSUME NEW c \in Box, Tell(c) PROVE Raised'
  BY <1>18 DEF Tell
<1>19. CASE UNCHANGED vars
  BY <1>19
<1> QED
  BY <1>1, <1>2, <1>3, <1>4, <1>5, <1>6, <1>7, <1>8, <1>9, <1>10,
     <1>11, <1>12, <1>13, <1>14, <1>15, <1>16, <1>17, <1>18, <1>19
  DEF Next, Call, Script

\* No step gives a verdict that the results do not bear out.
LEMMA VerdictsStep ==
    ASSUME TypeOK /\ Stages /\ Results /\ Raised /\ Verdicts, [Next]_vars
    PROVE  Verdicts'
<1> USE PipeTestAssumption DEF TypeOK, Stages, Results, Raised, Verdicts, Box,
        Opening, Timeout, SlowOf, Moves, Trouble, Fine, vars, worker, programs, EachForItself, Conclude
<1>1. CASE Prepare
  BY <1>1 DEF Prepare
<1>2. CASE Run
  BY <1>2 DEF Run
<1>3. CASE Unlock
  BY <1>3 DEF Unlock
<1>4. CASE NotReady
  BY <1>4 DEF NotReady
<1>5. CASE AwaitService
  BY <1>5 DEF AwaitService
<1>6. CASE Wait
  BY <1>6 DEF Wait
<1>7. CASE Stop
  BY <1>7 DEF Stop
<1>8. CASE Grade
  BY <1>8 DEF Grade
<1>9. CASE Handle
  BY <1>9 DEF Handle
<1>10. CASE DockerRaises
  BY <1>10 DEF DockerRaises
<1>11. CASE Meet
  BY <1>11 DEF Meet
<1>12. CASE Greet
  BY <1>12 DEF Greet
<1>13. CASE EndProgram
  BY <1>13 DEF EndProgram
<1>14. CASE EndService
  BY <1>14 DEF EndService
<1>15. CASE CrashService
  BY <1>15 DEF CrashService
<1>16. ASSUME NEW c \in Box, Boot(c) PROVE Verdicts'
  BY <1>16 DEF Boot
<1>17. ASSUME NEW c \in Box, Begin(c) PROVE Verdicts'
  BY <1>17 DEF Begin
<1>18. ASSUME NEW c \in Box, Tell(c) PROVE Verdicts'
  BY <1>18 DEF Tell
<1>19. CASE UNCHANGED vars
  BY <1>19
<1> QED
  BY <1>1, <1>2, <1>3, <1>4, <1>5, <1>6, <1>7, <1>8, <1>9, <1>10,
     <1>11, <1>12, <1>13, <1>14, <1>15, <1>16, <1>17, <1>18, <1>19
  DEF Next, Call, Script

\* The parts hold together in every reachable state.
THEOREM Invariance == Spec => []IInv
<1>1. Init => IInv
  <2> SUFFICES ASSUME Init PROVE IInv
    OBVIOUS
  <2> USE DEF Init, Box, Opening, Timeout
  <2>1. TypeOK
    BY DEF TypeOK
  <2>2. Stages
    BY DEF Stages
  <2>3. Meeting
    BY DEF Meeting, TimedFromMeeting
  <2>4. Results
    BY DEF Results
  <2>5. Raised
    BY DEF Raised
  <2>6. Verdicts
    BY DEF Verdicts, EachForItself
  <2> QED
    BY <2>1, <2>2, <2>3, <2>4, <2>5, <2>6 DEF IInv
<1>2. IInv /\ [Next]_vars => IInv'
  BY TypeStep, StagesStep, MeetingStep, ResultsStep, RaisedStep, VerdictsStep DEF IInv
<1> QED
  BY <1>1, <1>2, PTL DEF Spec

\* The worker leaves no container when a test ends, wherever it ended.
THEOREM NoStrayThm == Spec => []NoStray
<1>1. IInv => NoStray
  BY DEF IInv, Stages, NoStray
<1> QED
  BY <1>1, Invariance, PTL

\* The limit of do_wait for the program begins after both pipes are open and the
\* service is ready.
THEOREM TimedFromMeetingThm == Spec => []TimedFromMeeting
<1>1. IInv => TimedFromMeeting
  BY DEF IInv, Meeting
<1> QED
  BY <1>1, Invariance, PTL

\* The shell of the program and the service never wait at different pipes.
THEOREM NoEmbraceThm == Spec => []NoEmbrace
<1>1. IInv => NoEmbrace
  BY DEF IInv, TypeOK, Meeting, NoEmbrace, Box, Opening
<1> QED
  BY <1>1, Invariance, PTL

\* The verdict of do_run_test is that of the side that earned it.
THEOREM EachForItselfThm == Spec => []EachForItself
<1>1. IInv => EachForItself
  BY DEF IInv, Verdicts
<1> QED
  BY <1>1, Invariance, PTL

\* The types, for every set of troubles.
THEOREM TypeCorrect == Spec => []TypeOK
<1>1. IInv => TypeOK
  BY DEF IInv
<1> QED
  BY <1>1, Invariance, PTL
=============================================================================
