---------------------------- MODULE GradingProofs ----------------------------
(***************************************************************************)
(* Proofs about a whole job, for any packages, projects, programs and      *)
(* services: first about Build and FileTests by themselves, then about     *)
(* Grading, which puts them and Evaluator together.                        *)
(***************************************************************************)
EXTENDS Grading, EvaluatorProofs, ConfigProofs

-----------------------------------------------------------------------------
(* PART 1: a build is only "ok" with the whole program.                    *)

\* What the object of f is called when SEQ is k.
Object(f, k) == [name |-> <<f.base, k>>, of |-> f]

\* f was compiled in the present loop, and is out of reach of the rest of it.
Numbered(f) == \E k \in Nat : k < seq /\ Object(f, k) \in obj

\* The object of f is there, whatever its number.
Made(f) == \E k \in Nat : Object(f, k) \in obj

\* An injected file may take the place of f.
Shadowed(f) == \E g \in recipe.inject : g.base = f.base

\* Objects and programs are made of the files of this job.
Ours ==
    /\ seq \in Nat
    /\ \A o \in obj : o.of \in sources \cup recipe.inject
    /\ build \in {"off", "ready", "loaded"} => obj = {} /\ prog = {} /\ script = "off" /\ ~box

\* How far each phase of the script is.
Phases ==
    /\ script \in {"sources", "inject", "link"} => exit = 0
    /\ script = "sources" =>
          /\ todo \subseteq Units(sources)
          /\ \A f \in Units(sources) \ todo : Numbered(f)
    /\ script = "inject" =>
          /\ todo \subseteq recipe.inject
          /\ \A g \in recipe.inject \ todo : Numbered(g)
          /\ \A f \in Units(sources) : Made(f) \/ Shadowed(f)
    /\ script = "link" =>
          /\ \A g \in recipe.inject : Made(g)
          /\ \A f \in Units(sources) : Made(f) \/ Shadowed(f)

\* What WholeProgram says of prog, and that there is one.
Whole ==
    /\ prog # {}
    /\ recipe.inject \subseteq prog
    /\ prog \subseteq sources \cup recipe.inject
    /\ \A f \in Units(sources) \ prog : Shadowed(f)

\* An exit code of 0 means a whole program, until the worker knows it.
Ends ==
    /\ script = "over" /\ exit = 0 => Whole
    /\ build = "stop" => script = "over"
    /\ build = "ok" => Whole
    /\ build \in {"ok", "error", "timeout"} => ~box /\ script = "off"

BuildInv == Ours /\ Phases /\ Ends

USE DEF buildvars

\* The invariant of Build holds at first.
LEMMA InitBuildInv == BuildInit => BuildInv
BY DEF BuildInit, BuildInv, Ours, Phases, Ends, Units

-----------------------------------------------------------------------------
\* What is numbered below SEQ, or has another base name, survives a compilation.
LEMMA EmitKeeps ==
    ASSUME seq \in Nat, NEW f, Emit(f), NEW g, NEW k \in Nat,
           Object(g, k) \in obj, k < seq \/ g.base # f.base
    PROVE  Object(g, k) \in obj'
<1>1. Object(g, k).name = <<g.base, k>>
  BY DEF Object
<1>2. <<g.base, k>> # <<f.base, seq>>
  OBVIOUS
<1> QED BY <1>1, <1>2 DEF Emit

\* g++ makes one object, which may replace another of the same name,
LEMMA EmitMakes ==
    ASSUME seq \in Nat, NEW f, Emit(f)
    PROVE  /\ seq' = seq + 1
           /\ todo' = todo \ {f}
           /\ Object(f, seq) \in obj'
           /\ \A o \in obj' : o \in obj \/ o.of = f
           /\ UNCHANGED <<script, exit>>
BY DEF Emit, Object

\* and never one that has a number below the counter.
LEMMA EmitNumbered ==
    ASSUME seq \in Nat, NEW f, Emit(f)
    PROVE  Numbered(f)' /\ \A g : Numbered(g) => Numbered(g)'
<1>1. seq' = seq + 1 /\ Object(f, seq) \in obj'
  BY EmitMakes
<1>2. Numbered(f)'
  BY <1>1 DEF Numbered, Object
<1>3. ASSUME NEW g, Numbered(g)
      PROVE  Numbered(g)'
  <2>1. PICK k \in Nat : k < seq /\ Object(g, k) \in obj
    BY <1>3 DEF Numbered
  <2>2. Object(g, k) \in obj'
    BY <2>1, EmitKeeps
  <2>3. k < seq'
    BY <1>1, <2>1
  <2> QED BY <2>2, <2>3 DEF Numbered, Object
<1> QED BY <1>2, <1>3

\* In the second loop an object disappears only for one of the same base name.
LEMMA EmitShadows ==
    ASSUME seq \in Nat, NEW f \in recipe.inject, Emit(f), recipe' = recipe,
           NEW g, Made(g) \/ Shadowed(g)
    PROVE  Made(g)' \/ Shadowed(g)'
<1>1. CASE Shadowed(g) \/ g.base = f.base
  BY <1>1 DEF Shadowed
<1>2. CASE Made(g) /\ g.base # f.base
  <2>1. PICK k \in Nat : Object(g, k) \in obj
    BY <1>2 DEF Made
  <2>2. Object(g, k) \in obj'
    BY <1>2, <2>1, EmitKeeps
  <2> QED BY <2>2 DEF Made, Object
<1> QED BY <1>1, <1>2

-----------------------------------------------------------------------------
(* The worker.                                                             *)

\* The worker's side of a build keeps the invariant;
LEMMA WorkerBuildInv ==
    ASSUME BuildInv,
           \/ DoPrepare
           \/ \E s : DownloadProject(s)
           \/ Wait
    PROVE  BuildInv'
<1> USE DEF BuildInv
<1>1. CASE DoPrepare
  BY <1>1 DEF DoPrepare, Return, Ours, Phases, Ends, Whole
<1>2. CASE \E s : DownloadProject(s)
  BY <1>2 DEF DownloadProject, Return, Ours, Phases, Ends, Whole
<1>3. CASE Wait
  <2>1. UNCHANGED <<sources, recipe, todo, seq, obj, prog, exit>>
    BY <1>3 DEF Wait, TimeoutRaises, WaitReturns, TimesOut, Destroy, DockerRaises
  <2>2. Ours'
    BY <1>3, <2>1 DEF Ours, Wait, TimeoutRaises, WaitReturns, TimesOut, Destroy, DockerRaises, Return
  <2>3. script' = script \/ script' = "off"
    BY <1>3 DEF Wait, TimeoutRaises, WaitReturns, TimesOut, Destroy, DockerRaises
  <2>4. Phases'
    BY <2>1, <2>3 DEF Phases, Numbered, Made, Shadowed
  <2>5. Ends'
    BY <1>3, <2>1, <2>3
       DEF Ends, Whole, Shadowed, Wait, TimeoutRaises, WaitReturns, TimesOut, Destroy,
           DockerRaises, Return
  <2> QED BY <2>2, <2>4, <2>5
<1> QED BY <1>1, <1>2, <1>3

\* The script starts on an empty directory of objects.
LEMMA StartBuildInv ==
    ASSUME BuildInv, NEW c, Start(c)
    PROVE  BuildInv'
<1> USE DEF BuildInv
<1>1. obj = {} /\ prog = {} /\ script = "off"
  BY DEF Ours, Start
<1>2. Ours'
  BY <1>1 DEF Ours, Start, Return
<1>3. Phases'
  BY <1>1 DEF Phases, Start, Return, Units
<1>4. Ends'
  BY <1>1 DEF Ends, Start, Return
<1> QED BY <1>2, <1>3, <1>4

-----------------------------------------------------------------------------
(* The script.                                                             *)

\* A compilation of a file of this job keeps what Ours says.
LEMMA EmitOurs ==
    ASSUME BuildInv, box, NEW f \in sources \cup recipe.inject, Emit(f),
           UNCHANGED <<sources, recipe, prog, box, build>>
    PROVE  Ours'
<1>1. seq' \in Nat /\ \A o \in obj' : o \in obj \/ o.of = f
  BY EmitMakes DEF BuildInv, Ours
<1>2. build \notin {"off", "ready", "loaded"}
  BY DEF BuildInv, Ours
<1> QED BY <1>1, <1>2 DEF BuildInv, Ours

\* "exit" ends a loop and the script with it.
LEMMA GiveUpBuildInv ==
    ASSUME BuildInv, box, script \in {"sources", "inject"}, NEW code \in {1, 2}, GiveUp(code),
           UNCHANGED <<sources, recipe, prog, box, build>>
    PROVE  BuildInv'
<1> USE DEF BuildInv
<1>1. Ours'
  BY DEF Ours, GiveUp
<1>2. Phases'
  BY DEF Phases, GiveUp
<1>3. Ends'
  BY DEF Ends, GiveUp
<1> QED BY <1>1, <1>2, <1>3

\* so do the loop over the sources,
LEMMA SourceBuildInv ==
    ASSUME BuildInv, CompileSource
    PROVE  BuildInv'
<1>1. PICK f \in todo : Emit(f) \/ GiveUp(1) \/ GiveUp(2)
  BY DEF CompileSource
<1>2. box /\ script = "sources" /\ UNCHANGED <<sources, recipe, prog, box, build>>
  BY DEF CompileSource, Running
<1>3. CASE Emit(f)
  <2>1. seq \in Nat /\ f \in sources
    BY <1>2 DEF BuildInv, Ours, Phases, Units
  <2>2. Ours'
    BY <1>2, <1>3, <2>1, EmitOurs
  <2>3. todo' = todo \ {f} /\ script' = script /\ exit' = exit
    BY <1>3, <2>1, EmitMakes
  <2>4. Numbered(f)' /\ \A g : Numbered(g) => Numbered(g)'
    BY <1>3, <2>1, EmitNumbered
  <2>5. Phases'
    BY <1>2, <2>3, <2>4 DEF BuildInv, Phases, Units
  <2>6. Ends'
    BY <1>2, <2>3 DEF BuildInv, Ends
  <2> QED BY <2>2, <2>5, <2>6 DEF BuildInv
<1> QED BY <1>1, <1>2, <1>3, GiveUpBuildInv

\* the loop over the injected files
LEMMA InjectedBuildInv ==
    ASSUME BuildInv, CompileInjected
    PROVE  BuildInv'
<1>1. PICK f \in todo : Emit(f) \/ GiveUp(2)
  BY DEF CompileInjected
<1>2. box /\ script = "inject" /\ UNCHANGED <<sources, recipe, prog, box, build>>
  BY DEF CompileInjected, Running
<1>3. CASE Emit(f)
  <2>1. seq \in Nat /\ f \in recipe.inject
    BY <1>2 DEF BuildInv, Ours, Phases
  <2>2. Ours'
    BY <1>2, <1>3, <2>1, EmitOurs
  <2>3. todo' = todo \ {f} /\ script' = script /\ exit' = exit
    BY <1>3, <2>1, EmitMakes
  <2>4. Numbered(f)' /\ \A g : Numbered(g) => Numbered(g)'
    BY <1>3, <2>1, EmitNumbered
  <2>5. ASSUME NEW g \in Units(sources)
        PROVE  Made(g)' \/ Shadowed(g)'
    <3>1. Made(g) \/ Shadowed(g)
      BY <1>2, <2>5 DEF BuildInv, Phases
    <3> QED BY <1>2, <1>3, <2>1, <3>1, EmitShadows
  <2>6. Phases'
    BY <1>2, <2>3, <2>4, <2>5 DEF BuildInv, Phases, Units
  <2>7. Ends'
    BY <1>2, <2>3 DEF BuildInv, Ends
  <2> QED BY <2>2, <2>6, <2>7 DEF BuildInv
<1> QED BY <1>1, <1>2, <1>3, GiveUpBuildInv

\* A loop that is through has compiled all of its files.
LEMMA EndLoopBuildInv ==
    ASSUME BuildInv, EndSources \/ EndInjected
    PROVE  BuildInv'
<1>1. /\ todo = {} /\ seq' = 1
      /\ UNCHANGED <<sources, recipe, obj, prog, exit, box, build>>
  BY DEF EndSources, EndInjected
<1>2. Ours'
  BY <1>1 DEF EndSources, EndInjected, Running, BuildInv, Ours
<1>3. \A f : Numbered(f) => Made(f)
  BY DEF Numbered, Made
<1>4. Phases'
  BY <1>1, <1>3 DEF EndSources, EndInjected, Running, BuildInv, Phases, Made, Shadowed
<1>5. Ends'
  BY <1>1 DEF EndSources, EndInjected, Running, BuildInv, Ends, Whole, Shadowed
<1> QED BY <1>2, <1>4, <1>5 DEF BuildInv

\* and the link.
LEMMA LinkBuildInv ==
    ASSUME BuildInv, Link
    PROVE  BuildInv'
<1>1. /\ box /\ script = "link" /\ script' = "over"
      /\ UNCHANGED <<sources, recipe, todo, seq, obj, box, build>>
  BY DEF Link, Running
<1>2. Ours'
  BY <1>1 DEF BuildInv, Ours
<1>3. Phases'
  BY <1>1 DEF Phases
<1>4. CASE exit' = 0
  <2>1. prog' = {o.of : o \in obj}
    BY <1>4 DEF Link
  <2>2. \A f : Made(f) => f \in prog'
    BY <2>1 DEF Made, Object
  <2>3. Whole'
    <3>1. prog' # {}
      <4>1. PICK o \in obj : TRUE
        BY <1>4 DEF Link, Linkable
      <4> QED BY <2>1, <4>1
    <3> QED BY <1>1, <2>1, <2>2, <3>1 DEF BuildInv, Ours, Phases, Whole, Shadowed
  <2> QED BY <1>1, <1>2, <1>3, <2>3 DEF BuildInv, Ends
<1>5. CASE exit' # 0
  BY <1>1, <1>2, <1>3, <1>5 DEF BuildInv, Ends
<1> QED BY <1>4, <1>5

-----------------------------------------------------------------------------
\* Every step of a build keeps it.
LEMMA NextBuildInv == BuildInv /\ [BuildNext]_buildvars => BuildInv'
<1> SUFFICES ASSUME BuildInv, [BuildNext]_buildvars
             PROVE  BuildInv'
  OBVIOUS
<1>1. CASE \/ DoPrepare
           \/ \E s \in SUBSET File : DownloadProject(s)
           \/ Wait
  BY <1>1, WorkerBuildInv
<1>2. CASE \E c \in Recipe : Start(c)
  BY <1>2, StartBuildInv
<1>3. CASE CompileSource
  BY <1>3, SourceBuildInv
<1>4. CASE CompileInjected
  BY <1>4, InjectedBuildInv
<1>5. CASE EndSources \/ EndInjected
  BY <1>5, EndLoopBuildInv
<1>6. CASE Link
  BY <1>6, LinkBuildInv
<1>7. CASE UNCHANGED buildvars
  BY <1>7 DEF BuildInv, Ours, Phases, Ends, Whole, Numbered, Made, Shadowed
<1> QED BY <1>1, <1>2, <1>3, <1>4, <1>5, <1>6, <1>7 DEF BuildNext, Script

\* A build is "ok" only with the whole program, whatever the files are called and
\* whenever the script, Docker or the time breaks off (gcc.sh, common_compile).
THEOREM WholeProgramThm == BuildSpec => []WholeProgram
<1>1. BuildInv => WholeProgram
  BY DEF BuildInv, Ends, Whole, WholeProgram, Shadowed
<1> QED BY InitBuildInv, NextBuildInv, <1>1, PTL DEF BuildSpec

-----------------------------------------------------------------------------
(* PART 2: the verdict of each test is its own and right.                  *)

\* The lists, and which tests the loop is at.
Lists ==
    /\ IsSequence(units) /\ IsSequence(returned) /\ IsSequence(outcomes)
    /\ Len(outcomes) = Len(returned)
    /\ \A i \in DOMAIN units : IsFile(units[i].expected)
    /\ run = "off" => outcomes = <<>>
    /\ run # "off" => Len(returned) <= Len(units)
    /\ run \in {"execute", "compare", "record"} => Len(returned) < Len(units)

\* Two files agree in their first n lines.
Agree(f, g, n) ==
    /\ n <= Len(f.lines) /\ n <= Len(g.lines)
    /\ \A i \in 1..n : f.lines[i].text = g.lines[i].text

\* The loop of compare, and what it comes to.
Comparing ==
    /\ run \in {"compare", "record"} => IsFile(exec.output)
    /\ run = "compare" =>
          /\ line \in Nat
          /\ BothText => Agree(Actual, Expected, line)
    /\ run = "record" => (cmp <=> SameText(exec.output, units[current].expected))

\* What OwnVerdict says of the test i.
RightVerdict(i) ==
    /\ returned[i].status = "ok" <=>
          outcomes[i].status = "ok" /\ SameText(outcomes[i].output, units[i].expected)
    /\ returned[i].points \in {0, returned[i].max_points}
    /\ returned[i].points > 0 => returned[i].status = "ok"

TestsInv ==
    /\ Lists /\ Comparing /\ OwnDirectory
    /\ \A i \in DOMAIN outcomes : RightVerdict(i)

USE DEF testvars

-----------------------------------------------------------------------------
(* Sequences.                                                              *)

\* The length and domain of a sequence,
LEMMA SequenceShape ==
    ASSUME NEW s, IsSequence(s)
    PROVE  Len(s) \in Nat /\ DOMAIN s = 1..Len(s)
BY DEF IsSequence

\* of one with another element,
LEMMA AppendShape ==
    ASSUME NEW s, IsSequence(s), NEW x
    PROVE  /\ IsSequence(Append(s, x))
           /\ Len(Append(s, x)) = Len(s) + 1
           /\ DOMAIN Append(s, x) = 1..Len(s) + 1
           /\ \A i \in DOMAIN s : Append(s, x)[i] = s[i]
           /\ Append(s, x)[Len(s) + 1] = x
<1> DEFINE S == {s[i] : i \in DOMAIN s}
           T == S \cup {x}
           a == Append(s, x)
           A == {a[i] : i \in DOMAIN a}
<1>1. s \in Seq(T)
  BY DEF IsSequence
<1>2. /\ a \in Seq(T) /\ Len(a) = Len(s) + 1 /\ Len(s) \in Nat
      /\ \A i \in 1..Len(s) : a[i] = s[i]
      /\ a[Len(s) + 1] = x
  BY <1>1
<1>3. DOMAIN s = 1..Len(s) /\ DOMAIN a = 1..Len(a)
  BY <1>1, <1>2
<1>4. a \in Seq(A)
  <2>1. \A i \in 1..Len(a) : a[i] \in A
    BY <1>3
  <2> HIDE DEF A, a
  <2>2. a \in [1..Len(a) -> T]
    BY <1>2
  <2>3. a \in [1..Len(a) -> A]
    BY <2>1, <2>2
  <2> QED BY <2>3, <1>2
<1> QED BY <1>2, <1>3, <1>4 DEF IsSequence

-----------------------------------------------------------------------------
(* Comparing two files.                                                    *)

\* and of the lines of a file.
LEMMA LinesShape ==
    ASSUME NEW f, IsFile(f)
    PROVE  Len(f.lines) \in Nat /\ DOMAIN f.lines = 1..Len(f.lines)
BY DEF IsFile

\* What the loop finds after n lines, in terms of the lengths.
LEMMA VerdictCases ==
    ASSUME NEW f, NEW g, IsFile(f), IsFile(g), NEW n \in Nat
    PROVE  /\ VerdictAtLine(f, g, n) = "go on" =>
                 /\ n + 1 <= Len(f.lines) /\ n + 1 <= Len(g.lines)
                 /\ f.lines[n + 1].text = g.lines[n + 1].text
           /\ n = Len(f.lines) /\ n = Len(g.lines) => VerdictAtLine(f, g, n) = "equal"
           /\ n < Len(f.lines) /\ n < Len(g.lines) =>
                 \/ VerdictAtLine(f, g, n) = "go on"
                 \/ /\ VerdictAtLine(f, g, n) = "different"
                    /\ f.lines[n + 1].text # g.lines[n + 1].text
           /\ n = Len(f.lines) /\ n < Len(g.lines) => VerdictAtLine(f, g, n) = "different"
           /\ n < Len(f.lines) /\ n = Len(g.lines) => VerdictAtLine(f, g, n) = "different"
<1>1. Len(f.lines) \in Nat /\ Len(g.lines) \in Nat
  BY LinesShape
<1> QED BY <1>1 DEF VerdictAtLine

\* The loop goes on as long as the files agree ...
LEMMA AgreeOn ==
    ASSUME NEW f, NEW g, IsFile(f), IsFile(g)
    PROVE  \A n \in Nat : Agree(f, g, n) /\ VerdictAtLine(f, g, n) = "go on"
               => Agree(f, g, n + 1)
<1>1. ASSUME NEW n \in Nat, Agree(f, g, n), VerdictAtLine(f, g, n) = "go on"
      PROVE  Agree(f, g, n + 1)
  <2>1. /\ n + 1 <= Len(f.lines) /\ n + 1 <= Len(g.lines)
        /\ f.lines[n + 1].text = g.lines[n + 1].text
    BY <1>1, VerdictCases
  <2>2. \A i \in 1..n : f.lines[i].text = g.lines[i].text
    BY <1>1 DEF Agree
  <2>3. \A i \in 1..(n + 1) : i \in 1..n \/ i = n + 1
    OBVIOUS
  <2>4. \A i \in 1..(n + 1) : f.lines[i].text = g.lines[i].text
    BY <2>1, <2>2, <2>3
  <2> QED BY <2>1, <2>4 DEF Agree
<1> QED BY <1>1

\* ... and where it ends, it tells files that are the same from others.
LEMMA VerdictIsRight ==
    ASSUME NEW f, NEW g, IsFile(f), IsFile(g), f.kind = "text", g.kind = "text"
    PROVE  \A n \in Nat : Agree(f, g, n) /\ VerdictAtLine(f, g, n) # "go on"
               => (VerdictAtLine(f, g, n) = "equal" <=> SameText(f, g))
<1> DEFINE F == Len(f.lines)
           G == Len(g.lines)
<1>1. F \in Nat /\ G \in Nat /\ DOMAIN f.lines = 1..F
  BY LinesShape
<1>2. SameText(f, g) <=> F = G /\ \A i \in 1..F : f.lines[i].text = g.lines[i].text
  BY <1>1 DEF SameText
<1>3. ASSUME NEW n \in Nat, Agree(f, g, n), VerdictAtLine(f, g, n) # "go on"
      PROVE  VerdictAtLine(f, g, n) = "equal" <=> SameText(f, g)
  <2> DEFINE V == VerdictAtLine(f, g, n)
  <2>1. n <= F /\ n <= G /\ \A i \in 1..n : f.lines[i].text = g.lines[i].text
    BY <1>3 DEF Agree
  <2>2. /\ V # "go on"
        /\ n = F /\ n = G => V = "equal"
        /\ n < F /\ n < G => V = "different" /\ f.lines[n + 1].text # g.lines[n + 1].text
        /\ n = F /\ n < G => V = "different"
        /\ n < F /\ n = G => V = "different"
    BY <1>3, VerdictCases
  <2> HIDE DEF V, F, G
  <2>3. n = F /\ n = G => (V = "equal" <=> SameText(f, g))
    BY <1>2, <2>1, <2>2
  <2>4. n < F /\ n < G => (V = "equal" <=> SameText(f, g))
    <3>1. n < F => n + 1 \in 1..F
      BY <1>1
    <3> QED BY <1>2, <2>2, <3>1
  <2>5. (n = F /\ n < G) \/ (n < F /\ n = G) => (V = "equal" <=> SameText(f, g))
    BY <1>1, <1>2, <2>2
  <2>6. V = "equal" <=> SameText(f, g)
    BY <1>1, <2>1, <2>3, <2>4, <2>5
  <2> QED BY <2>6 DEF V
<1> QED BY <1>3

-----------------------------------------------------------------------------
(* The tests of a directory.                                               *)

\* There is a function that this start and these steps define.
Defines(S, start, step) ==
    \E f \in [Nat -> S] : f[0] = start /\ \A n \in Nat : f[n + 1] = step[n][f[n]]

\* Recursion over the natural numbers defines a function.
LEMMA Recursion ==
    ASSUME NEW S, NEW start \in S, NEW step \in [Nat -> [S -> S]]
    PROVE  Defines(S, start, step)
<1> DEFINE Until(f, n) ==
        /\ f \in [0..n -> S] /\ f[0] = start
        /\ \A i \in 0..n : i + 1 \in 0..n => f[i + 1] = step[i][f[i]]
<1>1. \A n \in Nat : \E f : Until(f, n)
  <2> DEFINE N == {n \in Nat : \E f : Until(f, n)}
  <2>1. 0 \in N
    <3>1. Until([i \in 0..0 |-> start], 0)
      OBVIOUS
    <3> QED BY <3>1
  <2>2. ASSUME NEW n \in Nat, n \in N PROVE n + 1 \in N
    <3>1. PICK f : Until(f, n)
      BY <2>2
    <3> DEFINE g == [i \in 0..n + 1 |-> IF i = n + 1 THEN step[n][f[n]] ELSE f[i]]
    <3>2. g \in [0..n + 1 -> S] /\ g[0] = start
      BY <3>1
    <3>3. ASSUME NEW i \in 0..n + 1, i + 1 \in 0..n + 1 PROVE g[i + 1] = step[i][g[i]]
      <4>1. i \in 0..n /\ g[i] = f[i]
        BY <3>3
      <4>2. CASE i = n
        BY <4>1, <4>2
      <4>3. CASE i # n
        <5>1. i + 1 \in 0..n /\ g[i + 1] = f[i + 1]
          BY <4>1, <4>3
        <5> QED BY <3>1, <4>1, <5>1
      <4> QED BY <4>2, <4>3
    <3> HIDE DEF g
    <3>4. Until(g, n + 1)
      BY <3>2, <3>3
    <3> QED BY <3>4
  <2> HIDE DEF N, Until
  <2>3. \A n \in Nat : n \in N
    BY <2>1, <2>2, Induction
  <2> QED BY <2>3 DEF N
<1>2. ASSUME NEW n \in Nat, NEW m \in Nat, n <= m, NEW f, NEW g, Until(f, n), Until(g, m)
      PROVE  \A i \in Nat : i <= n => f[i] = g[i]
  <2> DEFINE N == {i \in Nat : i <= n => f[i] = g[i]}
  <2>1. 0 \in N
    BY <1>2
  <2>2. ASSUME NEW i \in Nat, i \in N PROVE i + 1 \in N
    <3>1. SUFFICES ASSUME i + 1 <= n PROVE f[i + 1] = g[i + 1]
      OBVIOUS
    <3>2. i \in 0..n /\ i + 1 \in 0..n /\ i \in 0..m /\ i + 1 \in 0..m
      BY <1>2, <3>1
    <3>3. f[i] = g[i]
      BY <2>2, <3>1
    <3> QED BY <1>2, <3>2, <3>3
  <2> HIDE DEF N
  <2>3. \A i \in Nat : i \in N
    BY <2>1, <2>2, Induction
  <2> QED BY <2>3 DEF N
<1> DEFINE U(n) == CHOOSE f : Until(f, n)
           F == [n \in Nat |-> U(n)[n]]
<1>3. \A n \in Nat : Until(U(n), n)
  <2> HIDE DEF Until
  <2> QED BY <1>1
<1>4. ASSUME NEW n \in Nat
      PROVE  F[n + 1] = step[n][F[n]] /\ F[n] \in S
  <2>1. n + 1 \in Nat /\ n <= n + 1 /\ n <= n
    OBVIOUS
  <2>2. U(n)[n] = U(n + 1)[n]
    <3> HIDE DEF Until, U
    <3> QED BY <1>2, <1>3, <2>1
  <2>3. F[n] = U(n)[n] /\ F[n + 1] = U(n + 1)[n + 1]
    BY <2>1
  <2>4. Until(U(n), n) /\ Until(U(n + 1), n + 1)
    BY <1>3, <2>1
  <2> HIDE DEF U, F
  <2>5. n \in 0..n /\ n \in 0..n + 1 /\ n + 1 \in 0..n + 1
    OBVIOUS
  <2> QED BY <2>2, <2>3, <2>4, <2>5
<1>5. F[0] = start
  BY <1>3
<1>6. F \in [Nat -> S]
  <2>1. \A n \in Nat : F[n] \in S
    BY <1>4
  <2>2. F = [n \in Nat |-> F[n]]
    OBVIOUS
  <2> HIDE DEF F
  <2> QED BY <2>1, <2>2
<1> HIDE DEF F
<1> QED BY <1>4, <1>5, <1>6 DEF Defines

\* The loop over the names of a directory.
LEMMA ListedDef ==
    ASSUME NEW dir, IsSequence(dir)
    PROVE  /\ Listed(dir)[0] = <<>>
           /\ \A n \in 0..Len(dir) : n # 0 =>
                 Listed(dir)[n] = IF dir[n].test THEN Append(Listed(dir)[n - 1], dir[n])
                                  ELSE Listed(dir)[n - 1]
<1> DEFINE E == {dir[i] : i \in DOMAIN dir}
           S == Seq(E)
           L == 0..Len(dir)
           Grown(n, u) == IF dir[n].test THEN Append(u, dir[n]) ELSE u
           IsListing(f) == f = [n \in L |-> IF n = 0 THEN <<>> ELSE Grown(n, f[n - 1])]
           step == [n \in Nat |-> [u \in S |-> IF n + 1 \in L THEN Grown(n + 1, u) ELSE u]]
<1>1. Len(dir) \in Nat /\ DOMAIN dir = 1..Len(dir)
  BY SequenceShape
<1>2. step \in [Nat -> [S -> S]]
  <2>1. ASSUME NEW n \in Nat, NEW u \in S PROVE (IF n + 1 \in L THEN Grown(n + 1, u) ELSE u) \in S
    <3>1. CASE n + 1 \in L
      <4>1. dir[n + 1] \in E
        BY <1>1, <3>1
      <4> HIDE DEF E
      <4>2. Append(u, dir[n + 1]) \in S
        BY <4>1
      <4> QED BY <3>1, <4>2
    <3> QED BY <3>1
  <2> HIDE DEF S, L, Grown
  <2> QED BY <2>1
<1>3. <<>> \in S
  OBVIOUS
<1>4. PICK f \in [Nat -> S] : f[0] = <<>> /\ \A n \in Nat : f[n + 1] = step[n][f[n]]
  <2> HIDE DEF E, S, L, Grown, IsListing, step
  <2>1. Defines(S, <<>>, step)
    BY <1>2, <1>3, Recursion
  <2> QED BY <2>1 DEF Defines
<1> DEFINE g == [n \in L |-> f[n]]
<1>5. ASSUME NEW n \in L, n # 0 PROVE g[n] = Grown(n, g[n - 1])
  <2>1. n - 1 \in Nat /\ n - 1 \in L /\ (n - 1) + 1 = n
    BY <1>1, <1>5
  <2>2. f[n] = step[n - 1][f[n - 1]] /\ f[n - 1] \in S
    <3> HIDE DEF S, step, L
    <3> QED BY <1>4, <2>1
  <2>3. f[n] = Grown(n, f[n - 1])
    <3> HIDE DEF S, L, Grown
    <3> QED BY <1>5, <2>1, <2>2
  <2> HIDE DEF L, Grown
  <2> QED BY <1>5, <2>1, <2>3
<1>6. g[0] = <<>>
  BY <1>1, <1>4
<1>7. IsListing(g)
  <2>1. \A n \in L : g[n] = IF n = 0 THEN <<>> ELSE Grown(n, g[n - 1])
    BY <1>5, <1>6
  <2>2. g = [n \in L |-> g[n]]
    OBVIOUS
  <2> HIDE DEF g, L, Grown
  <2> QED BY <2>1, <2>2
<1>8. Listed(dir) = CHOOSE h : IsListing(h)
  BY DEF Listed
<1>9. IsListing(Listed(dir))
  <2> HIDE DEF IsListing, g
  <2> QED BY <1>7, <1>8
<1>10. Listed(dir) = [n \in L |-> IF n = 0 THEN <<>> ELSE Grown(n, Listed(dir)[n - 1])]
  BY <1>9
<1>11. 0 \in L
  BY <1>1
<1>12. Listed(dir)[0] = <<>>
  <2> HIDE DEF Grown, L
  <2> QED BY <1>10, <1>11
<1>13. \A n \in L : n # 0 => Listed(dir)[n] = Grown(n, Listed(dir)[n - 1])
  <2> HIDE DEF Grown, L
  <2> QED BY <1>10
<1> QED BY <1>12, <1>13

\* What the loop over the first n names has found: all tests among them, once and in order.
AllFound(dir, n, tests) ==
    /\ IsSequence(tests)
    /\ \E at \in [DOMAIN tests -> 1..n] :
          /\ \A i, j \in DOMAIN tests : i < j => at[i] < at[j]
          /\ \A i \in DOMAIN tests : dir[at[i]].test /\ tests[i] = dir[at[i]]
          /\ \A k \in 1..n : dir[k].test => \E i \in DOMAIN tests : at[i] = k

\* One more name.
LEMMA FindNext ==
    ASSUME NEW dir, NEW n \in Nat, NEW tests, AllFound(dir, n, tests), dir[n + 1].test \in BOOLEAN
    PROVE  AllFound(dir, n + 1, IF dir[n + 1].test THEN Append(tests, dir[n + 1]) ELSE tests)
<1>1. IsSequence(tests) /\ Len(tests) \in Nat /\ DOMAIN tests = 1..Len(tests)
  <2>1. IsSequence(tests)
    BY DEF AllFound
  <2> QED BY <2>1, SequenceShape
<1>2. PICK at \in [DOMAIN tests -> 1..n] :
          /\ \A i, j \in DOMAIN tests : i < j => at[i] < at[j]
          /\ \A i \in DOMAIN tests : dir[at[i]].test /\ tests[i] = dir[at[i]]
          /\ \A k \in 1..n : dir[k].test => \E i \in DOMAIN tests : at[i] = k
  BY DEF AllFound
<1>3. CASE ~dir[n + 1].test
  <2>1. at \in [DOMAIN tests -> 1..n + 1]
    OBVIOUS
  <2>2. \A k \in 1..n + 1 : dir[k].test => \E i \in DOMAIN tests : at[i] = k
    BY <1>2, <1>3
  <2>3. AllFound(dir, n + 1, tests)
    BY <1>1, <1>2, <2>1, <2>2 DEF AllFound
  <2> QED BY <1>3, <2>3
<1>4. CASE dir[n + 1].test
  <2> DEFINE more == Append(tests, dir[n + 1])
             bt == [i \in DOMAIN more |-> IF i = Len(tests) + 1 THEN n + 1 ELSE at[i]]
  <2>1. /\ IsSequence(more) /\ DOMAIN more = 1..Len(tests) + 1
        /\ \A i \in DOMAIN tests : more[i] = tests[i]
        /\ more[Len(tests) + 1] = dir[n + 1]
    BY <1>1, AppendShape
  <2> HIDE DEF more
  <2>2. bt \in [DOMAIN more -> 1..n + 1]
    BY <1>1, <2>1
  <2>3. /\ bt[Len(tests) + 1] = n + 1
        /\ \A i \in DOMAIN tests : bt[i] = at[i] /\ i \in DOMAIN more /\ at[i] < n + 1
    BY <1>1, <2>1
  <2> HIDE DEF bt
  <2>4. \A i \in DOMAIN more : i \in DOMAIN tests \/ i = Len(tests) + 1
    BY <1>1, <2>1
  <2>5. ASSUME NEW i \in DOMAIN more, NEW j \in DOMAIN more, i < j PROVE bt[i] < bt[j]
    <3>1. i \in DOMAIN tests
      BY <1>1, <2>1, <2>5
    <3>2. CASE j \in DOMAIN tests
      BY <1>2, <2>3, <2>5, <3>1, <3>2
    <3>3. CASE j = Len(tests) + 1
      BY <2>3, <3>1, <3>3
    <3> QED BY <2>4, <3>2, <3>3
  <2>6. \A i \in DOMAIN more : dir[bt[i]].test /\ more[i] = dir[bt[i]]
    BY <1>2, <1>4, <2>1, <2>3, <2>4
  <2>7. ASSUME NEW k \in 1..n + 1, dir[k].test PROVE \E i \in DOMAIN more : bt[i] = k
    <3>1. CASE k = n + 1
      <4>1. Len(tests) + 1 \in DOMAIN more
        BY <1>1, <2>1
      <4> QED BY <2>3, <3>1, <4>1
    <3>2. CASE k # n + 1
      <4>1. k \in 1..n
        BY <3>2
      <4>2. PICK i \in DOMAIN tests : at[i] = k
        BY <1>2, <2>7, <4>1
      <4> QED BY <2>3, <4>2
    <3> QED BY <3>1, <3>2
  <2>8. AllFound(dir, n + 1, more)
    BY <2>1, <2>2, <2>5, <2>6, <2>7 DEF AllFound
  <2> QED BY <1>4, <2>8 DEF more
<1> QED BY <1>3, <1>4

\* The units that do_create_test_units (env_provider/common.py) makes of a directory are all
\* its tests, once and in their order.
THEOREM UnitsAreTests ==
    ASSUME NEW dir, IsSequence(dir), \A i \in DOMAIN dir : dir[i].test \in BOOLEAN
    PROVE  AllFound(dir, Len(dir), Listed(dir)[Len(dir)])
<1> DEFINE S == {n \in Nat : n <= Len(dir) => AllFound(dir, n, Listed(dir)[n])}
<1>1. Len(dir) \in Nat /\ DOMAIN dir = 1..Len(dir)
  BY SequenceShape
<1>2. 0 \in S
  <2>1. AllFound(dir, 0, <<>>)
    <3>1. IsSequence(<<>>) /\ DOMAIN <<>> = {}
      BY DEF IsSequence
    <3>2. [i \in {} |-> i] \in [{} -> 1..0]
      OBVIOUS
    <3>3. 1..0 = {}
      OBVIOUS
    <3> QED BY <3>1, <3>2, <3>3 DEF AllFound
  <2> QED BY <2>1, ListedDef
<1>3. ASSUME NEW n \in Nat, n \in S PROVE n + 1 \in S
  <2>1. SUFFICES ASSUME n + 1 <= Len(dir) PROVE AllFound(dir, n + 1, Listed(dir)[n + 1])
    OBVIOUS
  <2>2. AllFound(dir, n, Listed(dir)[n])
    BY <1>1, <1>3, <2>1
  <2>3. n + 1 \in 0..Len(dir) /\ n + 1 # 0 /\ (n + 1) - 1 = n /\ n + 1 \in DOMAIN dir
    BY <1>1, <2>1
  <2> HIDE DEF S
  <2>4. Listed(dir)[n + 1] = IF dir[n + 1].test THEN Append(Listed(dir)[n], dir[n + 1])
                             ELSE Listed(dir)[n]
    BY <2>3, ListedDef
  <2> QED BY <2>2, <2>3, <2>4, FindNext
<1> HIDE DEF S
<1>4. \A n \in Nat : n \in S
  BY <1>2, <1>3, Induction
<1> QED BY <1>1, <1>4 DEF S

\* What is in the directory of a package,
LEMMA UnitsShape ==
    ASSUME NEW l \in Layout
    PROVE  /\ AllFound(Directory(l), Len(Directory(l)), UnitsOf(l))
           /\ IsSequence(Directory(l)) /\ DOMAIN Directory(l) = 1..Len(Directory(l))
           /\ IsSequence(UnitsOf(l)) /\ \A i \in DOMAIN UnitsOf(l) : IsFile(UnitsOf(l)[i].expected)
<1>1. /\ IsSequence(Directory(l))
      /\ \A i \in DOMAIN Directory(l) :
            Directory(l)[i].test \in BOOLEAN /\ IsFile(Directory(l)[i].expected)
  BY FilesAssumption
<1>2. DOMAIN Directory(l) = 1..Len(Directory(l))
  BY <1>1, SequenceShape
<1>3. AllFound(Directory(l), Len(Directory(l)), UnitsOf(l))
  BY <1>1, UnitsAreTests DEF UnitsOf
<1>4. \A i \in DOMAIN UnitsOf(l) : \E k \in DOMAIN Directory(l) : UnitsOf(l)[i] = Directory(l)[k]
  BY <1>2, <1>3 DEF AllFound
<1>5. IsSequence(UnitsOf(l))
  BY <1>3 DEF AllFound
<1> QED BY <1>1, <1>2, <1>3, <1>4, <1>5

-----------------------------------------------------------------------------
(* The steps.                                                              *)

\* The invariant of FileTests holds at first.
LEMMA InitTestsInv == TestsInit => TestsInv
BY DEF TestsInit, TestsInv, Lists, Comparing, OwnDirectory, IsSequence

\* Listing the tests keeps it,
LEMMA CreateTestsInv ==
    ASSUME TestsInv, NEW l \in Layout, CreateUnits(l)
    PROVE  TestsInv'
<1>1. IsSequence(units') /\ \A i \in DOMAIN units' : IsFile(units'[i].expected)
  BY UnitsShape DEF CreateUnits
<1>2. returned = <<>> /\ outcomes = <<>>
  BY SequenceShape DEF CreateUnits, TestsInv, Lists, IsSequence
<1>3. Len(units') \in Nat
  BY <1>1, SequenceShape
<1>4. Lists'
  BY <1>1, <1>2, <1>3 DEF CreateUnits, TestsInv, Lists
<1>5. Comparing' /\ OwnDirectory'
  BY DEF CreateUnits, Comparing, OwnDirectory
<1>6. DOMAIN outcomes' = {}
  BY <1>2 DEF CreateUnits
<1> QED BY <1>4, <1>5, <1>6 DEF TestsInv

\* the fresh directory of a test keeps it,
LEMMA PrepareTestsInv ==
    ASSUME TestsInv, PrepareTest
    PROVE  TestsInv'
<1>1. UNCHANGED <<units, returned, outcomes, exec, line, cmp>> /\ run' = "execute"
  BY DEF PrepareTest
<1>2. Lists'
  BY <1>1 DEF PrepareTest, TestsInv, Lists
<1>3. Comparing'
  BY <1>1 DEF Comparing
<1>4. OwnDirectory'
  BY <1>1 DEF PrepareTest, OwnDirectory, Prepared, Fresh, current
<1>5. \A i \in DOMAIN outcomes' : RightVerdict(i)'
  BY <1>1 DEF TestsInv, RightVerdict
<1> QED BY <1>2, <1>3, <1>4, <1>5 DEF TestsInv

\* What is compared is what this program wrote, since the directory was empty.
LEMMA ExecuteTestsInv ==
    ASSUME TestsInv, NEW o \in Outcome, Execute(o)
    PROVE  TestsInv'
<1>1. /\ UNCHANGED <<units, returned, outcomes, cmp>>
      /\ run' = "compare" /\ exec' = o /\ line' = 0
  BY DEF Execute
<1>2. rundir'.output = o.output
  BY DEF Execute, TestsInv, OwnDirectory
<1>3. IsFile(o.output)
  BY FilesAssumption
<1>4. Lists'
  BY <1>1 DEF Execute, TestsInv, Lists
<1>5. IsFile(units[current].expected)
  BY SequenceShape DEF Execute, TestsInv, Lists, current
<1>6. Agree(o.output, units[current].expected, 0)
  BY <1>3, <1>5, LinesShape DEF Agree
<1>7. Comparing'
  BY <1>1, <1>2, <1>3, <1>6 DEF Comparing, Actual, Expected, current
<1>8. OwnDirectory'
  BY <1>1, <1>2 DEF OwnDirectory
<1>9. \A i \in DOMAIN outcomes' : RightVerdict(i)'
  BY <1>1 DEF TestsInv, RightVerdict
<1> QED BY <1>4, <1>7, <1>8, <1>9 DEF TestsInv

\* an exception keeps it,
LEMMA RaiseTestsInv ==
    ASSUME TestsInv, run # "off", Raise
    PROVE  TestsInv'
<1>1. UNCHANGED <<units, returned, outcomes, rundir, exec, line, cmp>> /\ run' = "raised"
  BY DEF Raise
<1>2. Lists' /\ Comparing' /\ OwnDirectory'
  BY <1>1 DEF TestsInv, Lists, Comparing, OwnDirectory
<1>3. \A i \in DOMAIN outcomes' : RightVerdict(i)'
  BY <1>1 DEF TestsInv, RightVerdict
<1> QED BY <1>2, <1>3 DEF TestsInv

\* compare returns what is true of the two files.
LEMMA ComparedTestsInv ==
    ASSUME TestsInv, run = "compare", NEW result \in BOOLEAN, Compared(result),
           result <=> SameText(exec.output, units[current].expected)
    PROVE  TestsInv'
<1>1. /\ UNCHANGED <<units, returned, outcomes, rundir, exec, line>>
      /\ run' = "record" /\ cmp' = result
  BY DEF Compared
<1>2. Lists' /\ OwnDirectory'
  BY <1>1 DEF TestsInv, Lists, OwnDirectory
<1>3. Comparing'
  BY <1>1 DEF TestsInv, Comparing, SameText, current
<1>4. \A i \in DOMAIN outcomes' : RightVerdict(i)'
  BY <1>1 DEF TestsInv, RightVerdict
<1> QED BY <1>2, <1>3, <1>4 DEF TestsInv

\* and so does each turn of compare.
LEMMA CompareTestsInv ==
    ASSUME TestsInv, Compare
    PROVE  TestsInv'
<1>1. run = "compare"
  BY DEF Compare, CompareRaises, GarbledDiffers, CompareLine, CompareEnds
<1>2. Actual = exec.output /\ IsFile(Actual)
  BY <1>1 DEF TestsInv, OwnDirectory, Comparing, Actual
<1>3. Expected = units[current].expected /\ IsFile(Expected)
  BY <1>1, SequenceShape DEF TestsInv, Lists, Expected, current
<1>4. CASE CompareRaises
  BY <1>1, <1>4, RaiseTestsInv DEF CompareRaises
<1>5. CASE GarbledDiffers
  <2>1. ~SameText(Actual, Expected)
    BY <1>5 DEF GarbledDiffers, SameText
  <2> QED BY <1>1, <1>2, <1>3, <1>5, <2>1, ComparedTestsInv DEF GarbledDiffers
<1>6. CASE CompareLine
  <2>1. line \in Nat /\ Agree(Actual, Expected, line)
    BY <1>1, <1>6 DEF CompareLine, TestsInv, Comparing
  <2>2. Agree(Actual, Expected, line + 1)
    BY <1>2, <1>3, <1>6, <2>1, AgreeOn DEF CompareLine
  <2>3. /\ UNCHANGED <<units, returned, outcomes, rundir, exec, cmp, run>>
        /\ line' = line + 1
    BY <1>6 DEF CompareLine
  <2>4. Actual' = Actual /\ Expected' = Expected
    BY <2>3 DEF Actual, Expected, current
  <2>5. Agree(Actual, Expected, line)'
    BY <2>2, <2>3, <2>4 DEF Agree
  <2>6. Comparing'
    BY <1>1, <1>2, <2>1, <2>3, <2>5 DEF Comparing
  <2>7. Lists' /\ OwnDirectory'
    BY <2>3 DEF TestsInv, Lists, OwnDirectory, current
  <2>8. \A i \in DOMAIN outcomes' : RightVerdict(i)'
    BY <2>3 DEF TestsInv, RightVerdict
  <2> QED BY <2>6, <2>7, <2>8 DEF TestsInv
<1>7. CASE CompareEnds
  <2>1. line \in Nat /\ Agree(Actual, Expected, line)
    BY <1>1, <1>7 DEF CompareEnds, TestsInv, Comparing
  <2>2. Actual.kind = "text" /\ Expected.kind = "text"
    BY <1>7 DEF CompareEnds, BothText
  <2>3. VerdictAtLine(Actual, Expected, line) = "equal" <=> SameText(Actual, Expected)
    BY <1>2, <1>3, <1>7, <2>1, <2>2, VerdictIsRight DEF CompareEnds
  <2> QED BY <1>1, <1>2, <1>3, <1>7, <2>3, ComparedTestsInv DEF CompareEnds
<1> QED BY <1>4, <1>5, <1>6, <1>7 DEF Compare

\* The status of the run, the comparison and the points become one verdict.
LEMMA RecordTestsInv ==
    ASSUME TestsInv, NEW p, Record(p)
    PROVE  TestsInv'
<1> DEFINE r == [name |-> units[current].name, group |-> units[current].group,
                 status |-> StatusOf(exec, cmp), time |-> exec.time,
                 points |-> IF StatusOf(exec, cmp) = "ok" THEN p ELSE 0, max_points |-> p]
<1>1. /\ returned' = Append(returned, r) /\ outcomes' = Append(outcomes, exec)
      /\ UNCHANGED <<units, rundir, exec, line, cmp>>
      /\ run = "record" /\ run' = "prepare"
  BY DEF Record
<1>2. /\ IsSequence(returned) /\ IsSequence(outcomes) /\ IsSequence(units)
      /\ Len(outcomes) = Len(returned) /\ Len(returned) < Len(units)
  BY <1>1 DEF TestsInv, Lists
<1>3. /\ Len(units) \in Nat /\ Len(returned) \in Nat
      /\ DOMAIN returned = 1..Len(returned) /\ DOMAIN outcomes = 1..Len(returned)
  BY <1>2, SequenceShape
<1>4. /\ IsSequence(returned') /\ IsSequence(outcomes')
      /\ Len(returned') = Len(returned) + 1 /\ Len(outcomes') = Len(returned) + 1
      /\ DOMAIN outcomes' = 1..Len(returned) + 1
      /\ \A i \in 1..Len(returned) : returned'[i] = returned[i] /\ outcomes'[i] = outcomes[i]
      /\ returned'[Len(returned) + 1] = r /\ outcomes'[Len(returned) + 1] = exec
  <2> HIDE DEF r
  <2> QED BY <1>1, <1>2, <1>3, AppendShape
<1>5. Lists'
  BY <1>1, <1>2, <1>3, <1>4 DEF TestsInv, Lists
<1>6. Comparing' /\ OwnDirectory'
  BY <1>1 DEF Comparing, OwnDirectory
<1>7. ASSUME NEW i \in DOMAIN outcomes'
      PROVE  RightVerdict(i)'
  <2>1. CASE i \in 1..Len(returned)
    <3>1. RightVerdict(i)
      BY <1>3, <2>1 DEF TestsInv
    <3> QED BY <1>1, <1>4, <2>1, <3>1 DEF RightVerdict
  <2>2. CASE i = current
    <3>1. cmp <=> SameText(exec.output, units[current].expected)
      BY <1>1 DEF TestsInv, Comparing
    <3>2. returned'[i] = r /\ outcomes'[i] = exec
      BY <1>4, <2>2 DEF current
    <3>3. StatusOf(exec, cmp) = "ok" <=> exec.status = "ok" /\ cmp
      BY DEF StatusOf
    <3>4. /\ r.status = StatusOf(exec, cmp) /\ r.max_points = p
          /\ r.points = IF StatusOf(exec, cmp) = "ok" THEN p ELSE 0
      OBVIOUS
    <3> HIDE DEF r
    <3> QED BY <1>1, <2>2, <3>1, <3>2, <3>3, <3>4 DEF RightVerdict
  <2> QED BY <1>3, <1>4, <1>7, <2>1, <2>2 DEF current
<1> QED BY <1>5, <1>6, <1>7 DEF TestsInv

-----------------------------------------------------------------------------
\* Every step of the tests keeps it.
LEMMA NextTestsInv == TestsInv /\ [TestsNext]_testvars => TestsInv'
<1> SUFFICES ASSUME TestsInv, [TestsNext]_testvars
             PROVE  TestsInv'
  OBVIOUS
<1>1. CASE \E l \in Layout : CreateUnits(l)
  BY <1>1, CreateTestsInv
<1>2. CASE PrepareTest
  BY <1>2, PrepareTestsInv
<1>3. CASE \E o \in Outcome : Execute(o)
  BY <1>3, ExecuteTestsInv
<1>4. CASE ExecuteRaises
  BY <1>4, RaiseTestsInv DEF ExecuteRaises
<1>5. CASE Compare
  BY <1>5, CompareTestsInv
<1>6. CASE \E p \in Nat : Record(p)
  BY <1>6, RecordTestsInv
<1>7. CASE UNCHANGED testvars
  BY <1>7 DEF TestsInv, Lists, Comparing, OwnDirectory, RightVerdict, BothText, Actual,
              Expected, current, Agree, SameText
<1> QED BY <1>1, <1>2, <1>3, <1>4, <1>5, <1>6, <1>7 DEF TestsNext

\* Whatever files the tests have and whatever the programs write, a test is passed
\* exactly if its own program ended well and wrote the expected lines (file.py).
THEOREM OwnVerdictThm == TestsSpec => []OwnVerdict
<1>1. TestsInv => OwnVerdict
  BY DEF TestsInv, OwnVerdict, RightVerdict
<1> QED BY InitTestsInv, NextTestsInv, <1>1, PTL DEF TestsSpec

-----------------------------------------------------------------------------
(* PART 3: the whole job.                                                  *)

\* What is read off the package's configuration.
Configured == config = parse_config(task.raw, task.config_name)

\* What Grading starts with, until there is a submission.
Untaken == stage = "idle" /\ task = NoTask

BeforeTests == {"package", "parse", "compiler", "download", "compile", "units"}

JobPart ==
    /\ stage \in BeforeTests \cup {"idle", "tests", "evaluate", "announce", "publish", "died"}
    /\ Untaken \/ task \in Task
    /\ stage \in {"compiler", "download", "compile", "units", "tests", "evaluate"} => Configured
    /\ stage \in {"tests", "evaluate"} => Found
    /\ stage = "died" => Malformed

\* How far the build is at each stage: outside "compile" there is no container.
BuildPart ==
    /\ BuildInv
    /\ Untaken \/ stage \in {"package", "parse", "compiler"} => build = "off"
    /\ stage = "download" => build = "ready"
    /\ stage = "compile" => build \notin {"off", "ready"}
    /\ stage \in {"units", "tests", "evaluate"} => build = "ok"
    /\ stage # "compile" => build # "stop" /\ ~box

\* The tests of the pipe environment execute no program.
PipeTests ==
    /\ IsSequence(units) /\ IsSequence(returned) /\ Len(returned) <= Len(units)
    /\ outcomes = <<>> /\ run = "prepare"

\* A result is that of its own test, and one Evaluator can count.
OwnResult(i) ==
    returned[i].group = units[i].group /\ AsResult(returned[i]) \in Result

TestsPart ==
    /\ TestsInv \/ PipeTests
    /\ Untaken \/ stage \in BeforeTests => TestsInit
    /\ stage = "tests" => IF Env = "pipe" THEN PipeTests ELSE TestsInv
    /\ stage = "tests" /\ run \in {"compare", "record"} => exec.time \in Nat
    /\ stage \in {"tests", "evaluate"} =>
          /\ units = UnitsOf(task.layout)
          /\ \A i \in DOMAIN returned : OwnResult(i)
    /\ stage = "evaluate" => Len(returned) = Len(units)

EvalPart ==
    /\ ScoreInv
    /\ Untaken \/ stage \in BeforeTests \cup {"tests"} => InitWith(NoConf, <<>>)
    /\ stage = "evaluate" => given = [i \in DOMAIN returned |-> AsResult(returned[i])]

\* What WholeReport says of the report, with the units in the place of the directory.
Reported ==
    /\ report.status # "ok" => report.score = 0 /\ report.tests = <<>>
    /\ report.status = "ok" =>
          /\ build = "ok" /\ prog # {}
          /\ DOMAIN report.tests = DOMAIN UnitsOf(task.layout)
          /\ \A i \in DOMAIN report.tests :
                /\ report.tests[i].group = UnitsOf(task.layout)[i].group
                /\ report.tests[i].points > 0 => returned[i].points > 0
          /\ report.score = 100 <=>
                \A i \in DOMAIN report.tests :
                    report.tests[i].points = report.tests[i].max_points

ReportPart ==
    /\ Untaken \/ stage \in BeforeTests \cup {"tests", "evaluate"} => report = NoReport
    /\ stage \in {"announce", "publish"} => Reported

GradingInv == JobPart /\ BuildPart /\ TestsPart /\ EvalPart /\ ReportPart

-----------------------------------------------------------------------------
(* What a step leaves alone stays as it is.                                *)

\* While Build rests its invariant stays,
LEMMA BuildSame ==
    ASSUME UNCHANGED buildvars, BuildInv
    PROVE  BuildInv'
BY NextBuildInv

\* while the tests rest what is known of them stays,
LEMMA TestsSame ==
    ASSUME UNCHANGED testvars
    PROVE  /\ TestsInv => TestsInv'
           /\ PipeTests => PipeTests'
           /\ TestsInit => TestsInit'
           /\ \A i : OwnResult(i) => OwnResult(i)'
<1>1. TestsInv => TestsInv'
  BY NextTestsInv
<1>2. PipeTests => PipeTests'
  BY DEF PipeTests
<1>3. TestsInit => TestsInit'
  BY DEF TestsInit
<1>4. \A i : OwnResult(i) => OwnResult(i)'
  BY DEF OwnResult, AsResult
<1> QED BY <1>1, <1>2, <1>3, <1>4

\* and while the evaluator rests its invariant stays.
LEMMA EvalSame ==
    ASSUME UNCHANGED evalvars
    PROVE  /\ ScoreInv => ScoreInv'
           /\ InitWith(NoConf, <<>>) => InitWith(NoConf, <<>>)'
<1>1. ScoreInv => ScoreInv'
  BY NextScoreInv DEF evalvars
<1>2. InitWith(NoConf, <<>>) => InitWith(NoConf, <<>>)'
  BY DEF InitWith, evalvars, vars
<1> QED BY <1>1, <1>2

\* After an error no container and no result is left.
LEMMA ErrorKeeps ==
    ASSUME GradingInv, EndsInError, task \in Task, build # "stop"
    PROVE  GradingInv'
<1>1. /\ stage' = "publish" /\ ~box' /\ script' = "off"
      /\ report' = [NoReport EXCEPT !.status = "internal_error"]
      /\ UNCHANGED <<task, config, sources, recipe, todo, seq, obj, prog, exit, build,
                     testvars, evalvars>>
  BY DEF EndsInError, InternalError, Goto
<1>2. BuildInv'
  <2>1. Ours'
    BY <1>1 DEF GradingInv, BuildPart, BuildInv, Ours
  <2>2. Phases'
    BY <1>1 DEF Phases
  <2>3. Ends'
    BY <1>1 DEF GradingInv, BuildPart, BuildInv, Ends, Whole, Shadowed
  <2> QED BY <2>1, <2>2, <2>3 DEF BuildInv
<1>3. JobPart' /\ BuildPart'
  BY <1>1, <1>2 DEF JobPart, BuildPart, BeforeTests, Untaken
<1>4. TestsPart' /\ EvalPart'
  BY <1>1, TestsSame, EvalSame DEF GradingInv, TestsPart, EvalPart, BeforeTests, Untaken
<1>5. ReportPart'
  BY <1>1 DEF ReportPart, Untaken, BeforeTests, Reported, NoReport
<1> QED BY <1>3, <1>4, <1>5 DEF GradingInv

\* A worker dies only of a malformed package or submission.
LEMMA DiesKeeps ==
    ASSUME GradingInv, Dies, task \in Task, stage # "compile", Malformed
    PROVE  GradingInv'
<1>1. stage' = "died" /\ UNCHANGED <<task, config, report, buildvars, testvars, evalvars>>
  BY DEF Dies, Alone, Goto
<1>2. JobPart'
  BY <1>1 DEF JobPart, Untaken, Malformed, BeforeTests
<1>3. BuildPart'
  BY <1>1, BuildSame DEF GradingInv, BuildPart, Untaken
<1>4. TestsPart' /\ EvalPart'
  BY <1>1, TestsSame, EvalSame DEF GradingInv, TestsPart, EvalPart, BeforeTests, Untaken
<1> QED BY <1>1, <1>2, <1>3, <1>4 DEF GradingInv, ReportPart, Untaken, BeforeTests

-----------------------------------------------------------------------------
(* The steps of a job, up to the compilation.                              *)

\* Before the first job everything is at rest.
LEMMA InitGradingInv == GradingInit => GradingInv
<1> SUFFICES ASSUME GradingInit PROVE GradingInv
  OBVIOUS
<1>1. JobPart
  BY DEF GradingInit, JobPart, Untaken
<1>2. BuildPart
  BY InitBuildInv DEF GradingInit, BuildPart, BuildInit, Untaken
<1>3. TestsPart
  BY InitTestsInv DEF GradingInit, TestsPart, Untaken
<1>4. EvalPart
  <2>1. NoConf \in Conf /\ <<>> \in Seq(Result)
    BY DEF NoConf, Conf
  <2>2. InitWith(NoConf, <<>>)
    BY DEF GradingInit
  <2>3. Init
    BY <2>1, <2>2 DEF Init
  <2> QED BY <2>2, <2>3, InitScoreInv DEF GradingInit, EvalPart
<1> QED BY <1>1, <1>2, <1>3, <1>4 DEF GradingInv, ReportPart, GradingInit

\* A job is taken with the parts as at first.
LEMMA TakeKeeps ==
    ASSUME GradingInv, Take
    PROVE  GradingInv'
<1>1. /\ Untaken /\ stage' = "package" /\ task' \in Task
      /\ UNCHANGED <<report, buildvars, testvars, evalvars>>
  BY DEF Take, Untaken, Goto, Alone
<1>2. JobPart'
  BY <1>1 DEF JobPart, BeforeTests
<1>3. BuildPart'
  BY <1>1, BuildSame DEF GradingInv, BuildPart, Untaken
<1>4. TestsPart' /\ EvalPart'
  BY <1>1, TestsSame, EvalSame DEF GradingInv, TestsPart, EvalPart, BeforeTests, Untaken
<1> QED BY <1>1, <1>2, <1>3, <1>4 DEF GradingInv, ReportPart, Untaken, BeforeTests

\* A step to another stage before the tests that changes nothing but the build.
LEMMA EarlyKeeps ==
    ASSUME GradingInv, task \in Task, stage \in BeforeTests, stage' \in BeforeTests,
           UNCHANGED <<task, report, testvars, evalvars>>, BuildPart',
           stage' \in {"package", "parse"} \/ Configured'
    PROVE  GradingInv'
<1>1. JobPart'
  BY DEF JobPart, BeforeTests, Untaken
<1>2. TestsPart' /\ EvalPart'
  BY TestsSame, EvalSame DEF GradingInv, TestsPart, EvalPart, BeforeTests, Untaken
<1> QED BY <1>1, <1>2 DEF GradingInv, ReportPart, BeforeTests

\* A package is found, or the job ends without a build.
LEMMA PackageKeeps ==
    ASSUME GradingInv, GetPackage
    PROVE  GradingInv'
<1>1. stage = "package" /\ task \in Task /\ build # "stop"
  BY DEF GetPackage, GradingInv, JobPart, BuildPart, Untaken
<1>2. CASE task.package = "there" /\ Goto("parse") /\ UNCHANGED <<task, config, report>> /\ Alone
  <2>1. BuildPart'
    BY <1>1, <1>2, BuildSame DEF GradingInv, BuildPart, Untaken, Goto, Alone
  <2> QED BY <1>1, <1>2, <2>1, EarlyKeeps DEF BeforeTests, Goto, Alone
<1>3. CASE task.package = "broken" /\ EndsInError
  BY <1>1, <1>3, ErrorKeeps
<1>4. CASE task.package = "missing" /\ Dies
  BY <1>1, <1>4, DiesKeeps DEF Malformed
<1> QED BY <1>2, <1>3, <1>4 DEF GetPackage

\* The configuration is that of the task, or the worker ends.
LEMMA ParseKeeps ==
    ASSUME GradingInv, ParseConfig
    PROVE  GradingInv'
<1>1. /\ stage = "parse" /\ task \in Task /\ Configured'
      /\ UNCHANGED <<task, report, buildvars, testvars, evalvars>>
  BY DEF ParseConfig, GradingInv, JobPart, Untaken, Configured, Alone
<1>2. CASE stage' = "compiler"
  <2>1. BuildPart'
    BY <1>1, <1>2, BuildSame DEF GradingInv, BuildPart, Untaken
  <2> QED BY <1>1, <1>2, <2>1, EarlyKeeps DEF BeforeTests
<1>3. CASE stage' = "died" /\ config' = Uncaught
  <2>1. JobPart'
    BY <1>1, <1>3 DEF JobPart, Untaken, BeforeTests, Malformed
  <2>2. BuildPart'
    BY <1>1, <1>3, BuildSame DEF GradingInv, BuildPart, Untaken
  <2>3. TestsPart' /\ EvalPart'
    BY <1>1, <1>3, TestsSame, EvalSame
       DEF GradingInv, TestsPart, EvalPart, BeforeTests, Untaken
  <2> QED BY <1>1, <1>3, <2>1, <2>2, <2>3 DEF GradingInv, ReportPart, Untaken, BeforeTests
<1> QED BY <1>2, <1>3 DEF ParseConfig, Goto

\* The compiler is found and prepares, or the job ends.
LEMMA CompilerKeeps ==
    ASSUME GradingInv, GetCompiler
    PROVE  GradingInv'
<1>1. /\ stage = "compiler" /\ task \in Task /\ build # "stop" /\ ~box /\ Configured
      /\ BuildInv
  BY DEF GetCompiler, GradingInv, JobPart, BuildPart, Untaken
<1>2. CASE Lookup(config, "compiler") = "uncaught" /\ Dies
  BY <1>1, <1>2, DiesKeeps DEF Malformed
<1>3. CASE Lookup(config, "compiler") = "raises" /\ EndsInError
  BY <1>1, <1>3, ErrorKeeps
<1>4. CASE DoPrepare /\ Goto("download") /\ UNCHANGED <<task, config, report, testvars, evalvars>>
  <2>1. BuildInv'
    BY <1>1, <1>4, WorkerBuildInv
  <2>2. BuildPart'
    BY <1>1, <1>4, <2>1 DEF BuildPart, Untaken, DoPrepare, Return, Goto
  <2> QED BY <1>1, <1>4, <2>2, EarlyKeeps DEF BeforeTests, Goto, Configured
<1> QED BY <1>2, <1>3, <1>4 DEF GetCompiler

\* The project of this job is downloaded into the prepared directory.
LEMMA DownloadKeeps ==
    ASSUME GradingInv, Download
    PROVE  GradingInv'
<1>1. stage = "download" /\ task \in Task /\ ~box /\ Configured /\ BuildInv
  BY DEF Download, GradingInv, JobPart, BuildPart, Untaken
<1>2. CASE task.uploaded = {} /\ Dies
  BY <1>1, <1>2, DiesKeeps DEF Malformed
<1>3. CASE /\ DownloadProject(task.uploaded) /\ Goto("compile")
           /\ UNCHANGED <<task, config, report, testvars, evalvars>>
  <2>1. BuildInv'
    BY <1>1, <1>3, WorkerBuildInv
  <2>2. BuildPart'
    BY <1>1, <1>3, <2>1 DEF BuildPart, Untaken, DownloadProject, Return, Goto
  <2> QED BY <1>1, <1>3, <2>2, EarlyKeeps DEF BeforeTests, Goto, Configured
<1> QED BY <1>2, <1>3 DEF Download

\* A build goes on under its own invariant.
LEMMA CompileKeeps ==
    ASSUME GradingInv, Compile
    PROVE  GradingInv'
<1>1. /\ stage = "compile" /\ stage' = stage /\ task \in Task /\ Configured /\ BuildInv
      /\ build \notin {"off", "ready"}
      /\ UNCHANGED <<jobvars, testvars, evalvars>>
  BY DEF Compile, GradingInv, JobPart, BuildPart, Untaken, jobvars
<1>2. BuildInv'
  BY <1>1, StartBuildInv, WorkerBuildInv, SourceBuildInv, InjectedBuildInv, EndLoopBuildInv,
     LinkBuildInv DEF Compile, Script
<1>3. build' \notin {"off", "ready"}
  BY <1>1
     DEF Compile, Start, Return, Wait, TimeoutRaises, WaitReturns, TimesOut, Destroy, DockerRaises,
         Script, CompileSource, EndSources, CompileInjected, EndInjected, Link
<1>4. BuildPart'
  BY <1>1, <1>2, <1>3 DEF BuildPart, Untaken
<1> QED BY <1>1, <1>4, EarlyKeeps DEF BeforeTests, jobvars, Configured

\* A build ends with its verdict in the report, and without a container.
LEMMA EndCompileKeeps ==
    ASSUME GradingInv, EndCompile
    PROVE  GradingInv'
<1>1. stage = "compile" /\ task \in Task /\ Configured /\ BuildInv
  BY DEF EndCompile, GradingInv, JobPart, BuildPart, Untaken
<1>2. CASE build = "raised" /\ EndsInError
  BY <1>1, <1>2, ErrorKeeps
<1>3. build \in {"ok", "error", "timeout"} => ~box
  BY <1>1 DEF BuildInv, Ends
<1>4. CASE /\ build \in {"ok", "error", "timeout"} /\ Goto("announce")
           /\ report' = [NoReport EXCEPT !.status = "compile_error"]
           /\ UNCHANGED <<task, config>> /\ Alone
  <2>1. JobPart'
    BY <1>1, <1>4 DEF JobPart, Untaken, BeforeTests, Goto
  <2>2. BuildPart'
    BY <1>1, <1>3, <1>4, BuildSame DEF BuildPart, Untaken, Goto, Alone
  <2>3. TestsPart' /\ EvalPart'
    BY <1>1, <1>4, TestsSame, EvalSame
       DEF GradingInv, TestsPart, EvalPart, BeforeTests, Untaken, Goto, Alone
  <2>4. ReportPart'
    BY <1>1, <1>4, GradingAssumption DEF ReportPart, Untaken, BeforeTests, Reported, NoReport, Goto
  <2> QED BY <2>1, <2>2, <2>3, <2>4 DEF GradingInv
<1>5. CASE /\ Accepted(build) /\ Goto("units")
           /\ UNCHANGED <<task, config, report>> /\ Alone
  <2>1. BuildPart'
    BY <1>1, <1>3, <1>5, BuildSame DEF BuildPart, Untaken, Goto, Alone, Accepted
  <2> QED BY <1>1, <1>5, <2>1, EarlyKeeps DEF BeforeTests, Goto, Alone, Configured
<1> QED BY <1>2, <1>4, <1>5 DEF EndCompile

-----------------------------------------------------------------------------
(* The tests and the evaluation.                                           *)

\* The container is gone while the tests are run and counted.
LEMMA BuiltKeeps ==
    ASSUME GradingInv, stage \in {"units", "tests", "evaluate"},
           stage' \in {"tests", "evaluate", "announce", "publish"}, UNCHANGED buildvars
    PROVE  BuildPart'
BY BuildSame DEF GradingInv, BuildPart, Untaken

\* The tests of this package are listed, or the job ends.
LEMMA EnvironmentKeeps ==
    ASSUME GradingInv, GetEnvironment
    PROVE  GradingInv'
<1>1. /\ stage = "units" /\ task \in Task /\ Configured /\ build # "stop" /\ TestsInit
      /\ TestsInv \/ PipeTests
  BY DEF GetEnvironment, GradingInv, JobPart, BuildPart, TestsPart, Untaken, BeforeTests
<1>2. CASE Dies /\ (Lookup(config, "env") = "uncaught" \/ Lookup(config, "evaluator") = "uncaught")
  BY <1>1, <1>2, DiesKeeps DEF Malformed
<1>3. CASE EndsInError
  BY <1>1, <1>3, ErrorKeeps
<1>4. CASE /\ Found /\ HasUnits /\ CreateUnits(task.layout) /\ Goto("tests")
           /\ UNCHANGED <<task, config, report, buildvars, evalvars>>
  <2>1. JobPart'
    BY <1>1, <1>4 DEF JobPart, Untaken, BeforeTests, Configured, Found, Goto
  <2>2. BuildPart'
    BY <1>1, <1>4, BuiltKeeps DEF Goto
  <2>3. task.layout \in Layout
    BY <1>1, GradingAssumption
  <2>4. TestsInv
    BY <1>1, InitTestsInv
  <2>5. TestsInv'
    BY <1>4, <2>3, <2>4, CreateTestsInv
  <2>6. /\ units' = UnitsOf(task.layout) /\ run' = "prepare" /\ returned' = <<>> /\ outcomes' = <<>>
    BY <1>1, <1>4 DEF CreateUnits, HasUnits, TestsInit
  <2>7. PipeTests'
    BY <2>5, <2>6 DEF PipeTests, TestsInv, Lists
  <2>8. TestsPart'
    BY <1>4, <2>5, <2>6, <2>7 DEF TestsPart, Untaken, BeforeTests, Goto
  <2>9. EvalPart'
    BY <1>1, <1>4, EvalSame DEF GradingInv, EvalPart, BeforeTests, Untaken, Goto
  <2> QED BY <1>1, <1>4, <2>1, <2>2, <2>8, <2>9 DEF GradingInv, ReportPart, Untaken, BeforeTests, Goto
<1> QED BY <1>2, <1>3, <1>4 DEF GetEnvironment

\* A step of the tests leaves the rest as it is.
LEMMA TestingKeeps ==
    ASSUME GradingInv, stage = "tests", UNCHANGED <<jobvars, buildvars, evalvars>>, TestsPart'
    PROVE  GradingInv'
<1>1. JobPart'
  BY DEF GradingInv, JobPart, Untaken, Configured, Found, jobvars
<1>2. BuildPart'
  BY BuiltKeeps DEF jobvars
<1>3. EvalPart'
  BY EvalSame DEF GradingInv, EvalPart, BeforeTests, Untaken, jobvars
<1> QED BY <1>1, <1>2, <1>3 DEF GradingInv, ReportPart, jobvars

\* One result more: the others stay what they are.
LEMMA ResultAppended ==
    ASSUME IsSequence(returned), \A i \in DOMAIN returned : OwnResult(i), UNCHANGED units,
           NEW r, returned' = Append(returned, r),
           r.group = units[current].group, AsResult(r) \in Result
    PROVE  \A i \in DOMAIN returned' : OwnResult(i)'
<1>1. /\ DOMAIN returned' = DOMAIN returned \cup {current}
      /\ returned'[current] = r
      /\ \A i \in DOMAIN returned : returned'[i] = returned[i]
  BY AppendShape, SequenceShape DEF current
<1> QED BY <1>1 DEF OwnResult, AsResult

\* What a test hands to the evaluator is of the right types.
LEMMA ResultType ==
    ASSUME NEW r, r.group \in Group \cup {NoGroup}, r.points \in Int, r.max_points \in Nat,
           r.time \in Nat
    PROVE  AsResult(r) \in Result
BY DEF AsResult, Result

\* The next test has one of the groups.
LEMMA CurrentGroup ==
    ASSUME GradingInv, stage = "tests", Len(returned) < Len(units)
    PROVE  /\ current \in DOMAIN units /\ task \in Task /\ units = UnitsOf(task.layout)
           /\ units[current].group \in Group \cup {NoGroup}
<1>1. IsSequence(units) /\ IsSequence(returned) /\ units = UnitsOf(task.layout) /\ task \in Task
  BY DEF GradingInv, JobPart, TestsPart, TestsInv, Lists, PipeTests, Untaken
<1>2. current \in DOMAIN units
  BY <1>1, SequenceShape DEF current
<1> QED BY <1>1, <1>2, GradingAssumption

\* A test in the environment file goes on under its own invariant.
LEMMA FileTestKeeps ==
    ASSUME GradingInv, FileTest
    PROVE  GradingInv'
<1>1. /\ stage = "tests" /\ Env = "file" /\ task \in Task /\ Configured /\ TestsInv
      /\ units = UnitsOf(task.layout) /\ \A i \in DOMAIN returned : OwnResult(i)
      /\ run \in {"compare", "record"} => exec.time \in Nat
      /\ UNCHANGED <<jobvars, buildvars, evalvars>>
  BY DEF FileTest, GradingInv, JobPart, TestsPart, Untaken
<1>2. ASSUME TestsInv', UNCHANGED units, \A i \in DOMAIN returned' : OwnResult(i)',
             run' \in {"compare", "record"} => exec'.time \in Nat
      PROVE  GradingInv'
  <2>1. Env' = Env /\ Env # "pipe"
    BY <1>1 DEF Env, jobvars
  <2>2. TestsPart'
    BY <1>1, <1>2, <2>1 DEF TestsPart, Untaken, BeforeTests, jobvars
  <2> QED BY <1>1, <2>2, TestingKeeps
<1>3. ASSUME UNCHANGED <<units, returned>>
      PROVE  \A i \in DOMAIN returned' : OwnResult(i)'
  BY <1>1, <1>3 DEF OwnResult, AsResult
<1>4. CASE PrepareTest
  BY <1>1, <1>2, <1>3, <1>4, PrepareTestsInv DEF PrepareTest
<1>5. ASSUME NEW o \in task.behaviour, Execute(o)
      PROVE  GradingInv'
  <2>1. o \in Outcome /\ o.time \in Nat
    BY <1>1, GradingAssumption
  <2> QED BY <1>1, <1>2, <1>3, <1>5, <2>1, ExecuteTestsInv DEF Execute
<1>6. CASE ExecuteRaises
  BY <1>1, <1>2, <1>3, <1>6, RaiseTestsInv DEF ExecuteRaises, Raise
<1>7. CASE Compare
  <2>1. run = "compare" /\ UNCHANGED <<units, returned, exec>>
    BY <1>7 DEF Compare, CompareRaises, GarbledDiffers, CompareLine, CompareEnds, Raise, Compared
  <2> QED BY <1>1, <1>2, <1>3, <1>7, <2>1, CompareTestsInv
<1>8. CASE run = "record" /\ IsMapping(TestOptions) /\ Record(MaxPoints(TestOptions))
  <2> DEFINE p == MaxPoints(TestOptions)
             r == [name |-> units[current].name, group |-> units[current].group,
                   status |-> StatusOf(exec, cmp), time |-> exec.time,
                   points |-> IF StatusOf(exec, cmp) = "ok" THEN p ELSE 0, max_points |-> p]
  <2>1. Len(returned) < Len(units) /\ IsSequence(returned)
    BY <1>1, <1>8 DEF TestsInv, Lists
  <2>2. current \in DOMAIN units /\ units[current].group \in Group \cup {NoGroup}
    BY <1>1, <2>1, CurrentGroup
  <2>3. p \in Nat
    <3>1. Lookup(config, "env") = "found"
      BY <1>1 DEF GradingInv, JobPart, Found
    <3> QED BY <1>1, <1>8, <2>2, <3>1, GradingAssumption DEF Configured, TestOptions
  <2>4. /\ returned' = Append(returned, r) /\ units' = units /\ run' = "prepare"
    BY <1>8 DEF Record
  <2>5. r.group = units[current].group /\ r.points \in Int /\ r.max_points = p /\ r.time = exec.time
    BY <2>3
  <2>6. TestsInv'
    BY <1>1, <1>8, RecordTestsInv
  <2> HIDE DEF r, p
  <2>7. AsResult(r) \in Result
    BY <1>1, <1>8, <2>2, <2>3, <2>5, ResultType
  <2>8. \A i \in DOMAIN returned' : OwnResult(i)'
    BY <1>1, <2>1, <2>4, <2>5, <2>7, ResultAppended
  <2> QED BY <1>2, <2>4, <2>6, <2>8
<1> QED BY <1>4, <1>5, <1>6, <1>7, <1>8 DEF FileTest

\* A test with a service adds one result.
LEMMA PipeTestKeeps ==
    ASSUME GradingInv, PipeTest
    PROVE  GradingInv'
<1>1. /\ stage = "tests" /\ Env = "pipe" /\ task \in Task /\ PipeTests
      /\ Len(returned) < Len(units) /\ \A i \in DOMAIN returned : OwnResult(i)
      /\ units = UnitsOf(task.layout)
      /\ UNCHANGED <<jobvars, buildvars, evalvars, units, outcomes, run>>
  BY DEF PipeTest, GradingInv, JobPart, TestsPart, Untaken
<1>2. PICK s \in task.services :
         returned' = Append(returned,
            [name |-> units[current].name, group |-> units[current].group,
             status |-> "ok", time |-> s.time, points |-> s.points, max_points |-> s.max_points])
  BY DEF PipeTest
<1> DEFINE r == [name |-> units[current].name, group |-> units[current].group,
                 status |-> "ok", time |-> s.time, points |-> s.points,
                 max_points |-> s.max_points]
<1>3. s.points \in Int /\ s.max_points \in Nat /\ s.time \in Nat
  BY <1>1, GradingAssumption
<1>4. r.group = units[current].group /\ r.points \in Int /\ r.max_points \in Nat /\ r.time \in Nat
  BY <1>3
<1>5. returned' = Append(returned, r)
  BY <1>2
<1> HIDE DEF r
<1>6. AsResult(r) \in Result
  BY <1>1, <1>4, CurrentGroup, ResultType
<1>7. \A i \in DOMAIN returned' : OwnResult(i)'
  BY <1>1, <1>4, <1>5, <1>6, ResultAppended DEF PipeTests
<1>8. PipeTests'
  BY <1>1, <1>5, AppendShape, SequenceShape DEF PipeTests
<1>9. TestsPart'
  <2>1. Env' = Env
    BY <1>1 DEF Env, jobvars
  <2> QED BY <1>1, <1>7, <1>8, <2>1 DEF TestsPart, PipeTests, Untaken, BeforeTests, jobvars
<1> QED BY <1>1, <1>9, TestingKeeps

\* A test that raises ends the job in an error, whatever was done before.
LEMMA TestRaisesKeeps ==
    ASSUME GradingInv, TestRaises
    PROVE  GradingInv'
<1>1. stage = "tests" /\ task \in Task /\ build # "stop" /\ EndsInError
  BY DEF TestRaises, GradingInv, JobPart, BuildPart, Untaken
<1> QED BY <1>1, ErrorKeeps

\* The evaluator begins with the results of all tests and nothing else.
LEMMA EndTestsKeeps ==
    ASSUME GradingInv, EndTests
    PROVE  GradingInv'
<1>1. /\ stage = "tests" /\ stage' = "evaluate" /\ task \in Task /\ Len(returned) = Len(units)
      /\ UNCHANGED <<task, config, report, buildvars, testvars>>
      /\ conf' = EvaluatorConf(config)
      /\ given' = [i \in DOMAIN returned |-> AsResult(returned[i])] /\ results' = given'
      /\ UNCHANGED <<passed_test_groups, next, total_points, max_points, score, pc>>
  BY DEF EndTests, GradingInv, JobPart, Untaken, Goto
<1>2. JobPart'
  BY <1>1 DEF GradingInv, JobPart, Untaken, BeforeTests, Configured, Found
<1>3. BuildPart'
  BY <1>1, BuiltKeeps
<1>4. /\ units = UnitsOf(task.layout) /\ \A i \in DOMAIN returned : OwnResult(i)
      /\ IsSequence(returned)
  BY <1>1 DEF GradingInv, TestsPart, TestsInv, Lists, PipeTests
<1>5. TestsPart'
  BY <1>1, TestsSame DEF GradingInv, TestsPart, Untaken, BeforeTests
<1>6. given' \in Seq(Result)
  <2>1. DOMAIN returned = 1..Len(returned) /\ Len(returned) \in Nat
    BY <1>4, SequenceShape
  <2> QED BY <1>1, <1>4, <2>1 DEF OwnResult
<1>7. EvaluatorConf(config) \in Conf
  BY <1>1, GradingAssumption DEF GradingInv, JobPart, Configured, Found
<1>8. /\ passed_test_groups' = [g \in Group |-> "absent"] /\ next' = 1
      /\ total_points' = 0 /\ max_points' = 0 /\ score' = 0 /\ pc' = "first"
  BY <1>1 DEF GradingInv, EvalPart, InitWith, Untaken
<1>9. Init'
  <2>1. conf' \in Conf /\ given' \in Seq(Result) /\ results' = given'
    BY <1>1, <1>6, <1>7
  <2>2. \E c \in Conf, r \in Seq(Result) :
           /\ conf' = c /\ given' = r /\ results' = r
           /\ passed_test_groups' = [g \in Group |-> "absent"] /\ next' = 1
           /\ total_points' = 0 /\ max_points' = 0 /\ score' = 0 /\ pc' = "first"
    <3> USE <2>1
    <3> WITNESS conf' \in Conf, given' \in Seq(Result)
    <3> QED BY <1>8
  <2> QED BY ONLY <2>2, Zenon DEF Init, InitWith
<1>10. ScoreInv'
  BY <1>9, InitScoreInv, PTL
<1>11. EvalPart'
  BY <1>1, <1>10 DEF EvalPart, Untaken, BeforeTests
<1> QED BY <1>1, <1>2, <1>3, <1>5, <1>11 DEF GradingInv, ReportPart

\* It goes on under its own invariant.
LEMMA EvaluateKeeps ==
    ASSUME GradingInv, Evaluate
    PROVE  GradingInv'
<1>1. /\ stage = "evaluate" /\ Next /\ UNCHANGED <<jobvars, buildvars, testvars>>
  BY DEF Evaluate
<1>2. given' = given
  BY <1>1 DEF Next, CheckGroup, EndFirstLoop, AddPoints, RaiseInLoop, ComputeScore
<1>3. ScoreInv'
  BY <1>1, NextScoreInv DEF GradingInv, EvalPart
<1>4. EvalPart'
  BY <1>1, <1>2, <1>3 DEF GradingInv, EvalPart, Untaken, BeforeTests, jobvars, testvars
<1>5. JobPart'
  BY <1>1 DEF GradingInv, JobPart, Untaken, Configured, Found, jobvars
<1>6. BuildPart'
  BY <1>1, BuiltKeeps DEF jobvars
<1>7. TestsPart'
  BY <1>1, TestsSame DEF GradingInv, TestsPart, Untaken, BeforeTests, jobvars
<1> QED BY <1>1, <1>4, <1>5, <1>6, <1>7 DEF GradingInv, ReportPart, jobvars

\* The report of a job that was evaluated.
LEMMA EvaluatedIsReported ==
    ASSUME GradingInv, stage = "evaluate", pc = "done",
           UNCHANGED <<task, buildvars, testvars>>,
           report' = [status |-> "ok", score |-> score, tests |-> results]
    PROVE  Reported'
<1>1. /\ units = UnitsOf(task.layout) /\ Len(returned) = Len(units) /\ IsSequence(returned)
      /\ \A i \in DOMAIN returned : OwnResult(i)
      /\ given = [i \in DOMAIN returned |-> AsResult(returned[i])]
      /\ ScoreInv /\ BuildInv /\ build = "ok"
  BY DEF GradingInv, TestsPart, TestsInv, Lists, PipeTests, EvalPart, BuildPart
<1>2. prog # {}
  BY <1>1 DEF BuildInv, Ends, Whole
<1>3. /\ results \in Seq(Result) /\ given \in Seq(Result) /\ Len(results) = Len(given)
      /\ Processed = DOMAIN given
  BY <1>1 DEF ScoreInv, GroupInv, GroupsKnown, EvalInv, TypeOK, Processed
<1>4. DOMAIN results = DOMAIN returned /\ DOMAIN results = DOMAIN UnitsOf(task.layout)
  <2>1. task \in Task
    BY DEF GradingInv, JobPart, Untaken
  <2>2. IsSequence(units)
    BY <1>1, <2>1, UnitsShape, GradingAssumption
  <2> QED BY <1>1, <1>3, <2>2, SequenceShape
<1>5. ASSUME NEW i \in DOMAIN results
      PROVE  /\ results[i].group = UnitsOf(task.layout)[i].group
             /\ results[i].points > 0 => returned[i].points > 0
  <2>1. Earned(i) /\ OwnResult(i) /\ given[i] = AsResult(returned[i])
    BY <1>1, <1>3, <1>4, <1>5 DEF ScoreInv
  <2> QED BY <1>1, <2>1 DEF Earned, OwnResult, AsResult
<1>6. score = 100 <=> \A i \in DOMAIN results : results[i].points = results[i].max_points
  BY <1>1, <1>3, <1>4 DEF ScoreInv, FullPoints
<1>7. UnitsOf(task'.layout) = UnitsOf(task.layout) /\ prog' = prog /\ build' = build
      /\ returned' = returned
  OBVIOUS
<1> QED BY <1>1, <1>2, <1>4, <1>5, <1>6, <1>7 DEF Reported

\* Its results and score go into the report, or the job ends in an error.
LEMMA EndEvaluateKeeps ==
    ASSUME GradingInv, EndEvaluate
    PROVE  GradingInv'
<1>1. stage = "evaluate" /\ task \in Task /\ build # "stop"
  BY DEF EndEvaluate, GradingInv, JobPart, BuildPart, Untaken
<1>2. CASE EndsInError
  BY <1>1, <1>2, ErrorKeeps
<1>3. CASE /\ pc = "done" /\ Goto("announce")
           /\ report' = [status |-> "ok", score |-> score, tests |-> results]
           /\ UNCHANGED <<task, config>> /\ Alone
  <2>1. JobPart'
    BY <1>1, <1>3 DEF JobPart, Untaken, BeforeTests, Goto
  <2>2. BuildPart'
    BY <1>1, <1>3, BuiltKeeps DEF Goto, Alone
  <2>3. TestsPart' /\ EvalPart'
    BY <1>1, <1>3, TestsSame, EvalSame
       DEF GradingInv, TestsPart, EvalPart, BeforeTests, Untaken, Goto, Alone
  <2>4. Reported'
    BY <1>1, <1>3, EvaluatedIsReported DEF Alone
  <2> QED BY <1>1, <1>3, <2>1, <2>2, <2>3, <2>4 DEF GradingInv, ReportPart, Untaken, BeforeTests, Goto
<1> QED BY <1>2, <1>3 DEF EndEvaluate

\* The way to the client, and back to the loop.
LEMMA LateKeeps ==
    ASSUME GradingInv, Announce \/ Publish \/ Restart
    PROVE  GradingInv'
<1>1. /\ stage \in {"announce", "publish", "died"} /\ stage' \in {"publish", "idle"}
      /\ stage' = "publish" => stage = "announce"
      /\ task \in Task /\ task # NoTask /\ build # "stop" /\ ~box /\ BuildInv
      /\ UNCHANGED <<task, config, report, sources, recipe, todo, seq, obj, prog, exit, build,
                     testvars, evalvars>>
      /\ UNCHANGED <<box, script>> \/ (~box' /\ script' = "off")
  BY GradingAssumption
     DEF Announce, Publish, Restart, GradingInv, JobPart, BuildPart, Untaken, Goto, Alone
<1>2. BuildInv'
  <2>1. Ours'
    BY <1>1 DEF BuildInv, Ours
  <2>2. Phases'
    BY <1>1 DEF BuildInv, Phases, Numbered, Made, Shadowed
  <2>3. Ends'
    BY <1>1 DEF BuildInv, Ends, Whole, Shadowed
  <2> QED BY <2>1, <2>2, <2>3 DEF BuildInv
<1>3. JobPart' /\ BuildPart'
  BY <1>1, <1>2 DEF JobPart, BuildPart, BeforeTests, Untaken
<1>4. TestsPart' /\ EvalPart'
  BY <1>1, TestsSame, EvalSame DEF GradingInv, TestsPart, EvalPart, BeforeTests, Untaken
<1>5. ReportPart'
  BY <1>1 DEF GradingInv, ReportPart, Untaken, BeforeTests, Reported
<1> QED BY <1>3, <1>4, <1>5 DEF GradingInv

\* Nothing happens.
LEMMA StutterKeeps ==
    ASSUME GradingInv, UNCHANGED gradingvars
    PROVE  GradingInv'
<1>1. UNCHANGED <<stage, task, config, report, buildvars, testvars, evalvars>>
  BY DEF gradingvars, jobvars
<1>2. JobPart'
  BY <1>1 DEF GradingInv, JobPart, Untaken, Configured, Found, Malformed
<1>3. BuildPart'
  BY <1>1, BuildSame DEF GradingInv, BuildPart, Untaken
<1>4. TestsPart'
  BY <1>1, TestsSame DEF GradingInv, TestsPart, Untaken, Env
<1>5. EvalPart'
  BY <1>1, EvalSame DEF GradingInv, EvalPart, Untaken, evalvars, vars
<1>6. ReportPart'
  BY <1>1 DEF GradingInv, ReportPart, Untaken, BeforeTests, Reported
<1> QED BY <1>2, <1>3, <1>4, <1>5, <1>6 DEF GradingInv

\* Every step of a job keeps the invariant.
LEMMA NextGradingInv == GradingInv /\ [GradingNext]_gradingvars => GradingInv'
BY TakeKeeps, PackageKeeps, ParseKeeps, CompilerKeeps, DownloadKeeps, CompileKeeps, EndCompileKeeps,
   EnvironmentKeeps, FileTestKeeps, PipeTestKeeps, TestRaisesKeeps, EndTestsKeeps, EvaluateKeeps,
   EndEvaluateKeeps, LateKeeps, StutterKeeps
   DEF GradingNext, Work, Waiting

\* At each stage of a job the parts that are not at work are at rest, the one at work keeps
\* its own invariant, and locals and report follow from them.
THEOREM GradingInvariance == GradingSpec => []GradingInv
BY InitGradingInv, NextGradingInv, PTL DEF GradingSpec

\* Whatever the package, the project, the programs and the services are like, and
\* wherever the compilation, a test, the runner or the evaluator breaks off, the
\* report is whole or empty, no container is left, and only a malformed package
\* or submission ends the worker.
THEOREM WholeReportThm == GradingSpec => []WholeReport
<1>1. ASSUME GradingInv, stage = "publish", report.status = "ok"
      PROVE  EachTestOnce(Directory(task.layout), report.tests)
  <2> DEFINE dir == Directory(task.layout)
             tests == UnitsOf(task.layout)
  <2>1. task.layout \in Layout
    BY <1>1, GradingAssumption DEF GradingInv, JobPart, Untaken
  <2>2. AllFound(dir, Len(dir), tests) /\ DOMAIN dir = 1..Len(dir)
    BY <2>1, UnitsShape
  <2>3. /\ DOMAIN report.tests = DOMAIN tests
        /\ \A i \in DOMAIN tests : report.tests[i].group = tests[i].group
    BY <1>1 DEF GradingInv, ReportPart, Reported
  <2> HIDE DEF dir, tests
  <2>4. PICK at \in [DOMAIN tests -> 1..Len(dir)] :
            /\ \A i, j \in DOMAIN tests : i < j => at[i] < at[j]
            /\ \A i \in DOMAIN tests : dir[at[i]].test /\ tests[i] = dir[at[i]]
            /\ \A k \in 1..Len(dir) : dir[k].test => \E i \in DOMAIN tests : at[i] = k
    BY <2>2 DEF AllFound
  <2>5. EachTestOnce(dir, report.tests)
    BY <2>2, <2>3, <2>4 DEF EachTestOnce
  <2> QED BY <2>5 DEF dir
<1>2. GradingInv => WholeReport
  BY <1>1 DEF GradingInv, JobPart, BuildPart, ReportPart, Reported, WholeReport
<1> QED BY <1>2, GradingInvariance, PTL

\* After parse_config the configuration stays what it made of the task.
Parsed ==
    stage \notin {"idle", "package", "parse"} /\ task.package = "there" => Configured

\* Later steps touch neither the task nor its configuration.
LEMMA LaterSteps ==
    ASSUME \/ GetCompiler \/ Download \/ Compile \/ EndCompile \/ GetEnvironment \/ FileTest
           \/ PipeTest \/ TestRaises \/ EndTests \/ Evaluate \/ EndEvaluate \/ Announce
           \/ Publish \/ Restart
    PROVE  UNCHANGED <<task, config>> /\ stage \notin {"idle", "package", "parse"}
<1> USE DEF EndsInError, Dies, jobvars
<1>1. CASE GetCompiler \/ Download \/ Compile \/ EndCompile
  BY <1>1 DEF GetCompiler, Download, Compile, EndCompile
<1>2. CASE GetEnvironment \/ FileTest \/ PipeTest \/ TestRaises \/ EndTests
  BY <1>2 DEF GetEnvironment, FileTest, PipeTest, TestRaises, EndTests
<1>3. CASE Evaluate \/ EndEvaluate \/ Announce \/ Publish \/ Restart
  BY <1>3 DEF Evaluate, EndEvaluate, Announce, Publish, Restart
<1> QED BY <1>1, <1>2, <1>3

\* No step but those of parse_config changes the configuration.
LEMMA NextParsed == Parsed /\ [GradingNext]_gradingvars => Parsed'
<1> SUFFICES ASSUME Parsed, [GradingNext]_gradingvars PROVE Parsed'
  OBVIOUS
<1>1. CASE Take
  BY <1>1 DEF Take, Parsed, Goto
<1>2. CASE GetPackage
  <2>1. task.package # "there" \/ stage' = "parse"
    BY <1>2 DEF GetPackage, Goto
  <2>2. UNCHANGED task
    BY <1>2 DEF GetPackage, EndsInError, Dies
  <2> QED BY <2>1, <2>2 DEF Parsed
<1>3. CASE ParseConfig
  BY <1>3 DEF ParseConfig, Parsed, Configured
<1>4. CASE UNCHANGED <<task, config>> /\ stage \notin {"idle", "package", "parse"}
  BY <1>4 DEF Parsed, Configured
<1>5. CASE UNCHANGED gradingvars
  BY <1>5 DEF Parsed, Configured, gradingvars, jobvars
<1> QED BY <1>1, <1>2, <1>3, <1>4, <1>5, LaterSteps DEF GradingNext, Work, Waiting

\* The trees of a task are closed under what deep_update does with them.
LEMMA TreesOfTask ==
    ASSUME NEW t \in Task
    PROVE  \E T :
               /\ EmptyMapping \in T /\ t.raw \in T
               /\ \A u \in T : u # Uncaught /\ \A k \in Keys(u) : Get(u, k) \in T
               /\ \A s, o \in T : Merge(s, o) = deep_update(s, o)
               /\ \A u \in T : Level(u)[Depth + 1] = {}
<1> DEFINE T == {b[2] : b \in Trees(t)}
<1>1. T = {EmptyMapping} \cup {b[2] : b \in Nodes(t.raw)}
  <2>1. << <<>>, EmptyMapping >>[2] = EmptyMapping
    OBVIOUS
  <2> QED BY <2>1 DEF Trees
<1>2. Depth \in Nat /\ Level(t.raw)[Depth + 1] = {}
  BY MergeAssumption
<1>3. EmptyMapping \in T /\ t.raw \in T
  <2>1. << <<>>, t.raw >> \in Nodes(t.raw)
    BY <1>2, LevelDef DEF Nodes
  <2>2. << <<>>, t.raw >>[2] = t.raw
    OBVIOUS
  <2> QED BY <1>1, <2>1, <2>2
<1>4. ASSUME NEW u \in T PROVE u # Uncaught
  <2>1. \A b \in Nodes(t.raw) : b[2] # Uncaught
    BY MergeAssumption
  <2>2. EmptyMapping # Uncaught
    <3>1. EmptyMapping.kind = "mapping" /\ Uncaught.kind = "uncaught"
      BY DEF EmptyMapping, Mapping, Uncaught
    <3> QED BY <3>1
  <2> QED BY <1>1, <2>1, <2>2
<1>5. ASSUME NEW u \in T, NEW k \in Keys(u) PROVE Get(u, k) \in T
  <2>1. PICK b \in Nodes(t.raw) : u = b[2]
    BY <1>1, LeavesOfEmpty
  <2>2. PICK n \in 0..Depth : b \in Level(t.raw)[n]
    BY <2>1 DEF Nodes
  <2> DEFINE c == <<Append(b[1], k), Get(b[2], k)>>
  <2>3. c[2] = Get(u, k) /\ c \in NodesBelow(b)
    BY <2>1 DEF NodesBelow
  <2> HIDE DEF c
  <2>4. n \in Nat /\ c \in Level(t.raw)[n + 1]
    BY <1>2, <2>2, <2>3, LevelDef
  <2>5. n + 1 \in 0..Depth
    BY <1>2, <2>2, <2>4
  <2>6. c \in Nodes(t.raw)
    BY <2>4, <2>5 DEF Nodes
  <2> QED BY <2>3, <2>6, <1>1
<1>6. \A s, o \in T : Merge(s, o) = deep_update(s, o)
  BY MergeAssumption
<1>7. ASSUME NEW u \in T PROVE Level(u)[Depth + 1] = {}
  <2>1. CASE u = EmptyMapping
    BY <2>1, <1>2, LeavesOfEmpty, LowerBelow
  <2>2. CASE u # EmptyMapping
    <3>1. PICK b \in Nodes(t.raw) : u = b[2]
      BY <1>1, <2>2
    <3>2. PICK n \in 0..Depth : b \in Level(t.raw)[n]
      BY <3>1 DEF Nodes
    <3>3. n \in Nat /\ Depth + 1 \in Nat
      BY <1>2, <3>2
    <3> QED BY <3>1, <3>2, <3>3, <1>2, NoHigher
  <2> QED BY <2>1, <2>2
<1> QED BY <1>3, <1>4, <1>5, <1>6, <1>7

\* The configuration of every job (parse_config in package.py) is its package's "_base" with
\* exactly what the named part overrides replaced, or the worker ended on a part that would
\* override the inside of a value.
THEOREM ConfigMergedThm == GradingSpec => []ConfigMerged
<1>1. GradingInv /\ Parsed => ConfigMerged
  <2> SUFFICES ASSUME GradingInv, Parsed,
                      stage \notin {"idle", "package", "parse"}, task.package = "there",
                      IsMapping(task.raw), "configs" \in Keys(task.raw),
                      IsMapping(Get(task.raw, "configs"))
               PROVE  MergeIsRight(Part(task.raw, "_base", EmptyMapping),
                                   Part(task.raw, task.config_name, EmptyMapping), config)
    BY DEF ConfigMerged
  <2> DEFINE s == Part(task.raw, "_base", EmptyMapping)
             o == Part(task.raw, task.config_name, EmptyMapping)
  <2>1. task \in Task
    BY DEF GradingInv, JobPart, Untaken
  <2>2. PICK T : /\ EmptyMapping \in T /\ task.raw \in T
                 /\ \A u \in T : u # Uncaught /\ \A k \in Keys(u) : Get(u, k) \in T
                 /\ \A t, u \in T : Merge(t, u) = deep_update(t, u)
                 /\ \A u \in T : Level(u)[Depth + 1] = {}
    BY <2>1, TreesOfTask
  <2>3. s \in T /\ o \in T
    BY <2>2 DEF Part
  <2>4. config = Merge(s, o)
    BY DEF Parsed, Configured, parse_config
  <2> HIDE DEF s, o
  <2>5. Depth \in Nat
    BY MergeAssumption
  <2>6. MergeIsRight(s, o, Merge(s, o))
    BY <2>2, <2>3, <2>5, MergeRightThm
  <2> QED BY <2>4, <2>6 DEF s, o
<1>2. GradingInit => Parsed
  BY DEF GradingInit, Parsed
<1>3. GradingSpec => []Parsed
  BY <1>2, NextParsed, PTL DEF GradingSpec
<1> QED BY <1>1, <1>3, GradingInvariance, PTL

\* What Build, FileTests and Evaluator promise by themselves they keep inside a job.
THEOREM PartsKept ==
    GradingSpec => []WholeProgram /\ []OwnVerdict /\ []ScoreInRange
                      /\ []GroupAllOrNothing /\ []PenaltyCapped
<1>1. GradingInv => WholeProgram
  BY DEF GradingInv, BuildPart, BuildInv, Ends, Whole, WholeProgram, Shadowed
<1>2. GradingInv => OwnVerdict
  BY DEF GradingInv, TestsPart, TestsInv, PipeTests, OwnVerdict, OwnDirectory, RightVerdict
<1>3. GradingInv => ScoreInRange
  BY DEF GradingInv, EvalPart, ScoreInv, GroupInv, EvalInv
<1>4. GradingInv => GroupAllOrNothing
  BY GroupIsAllOrNothing DEF GradingInv, EvalPart, ScoreInv
<1>5. GradingInv => PenaltyCapped
  BY PenaltyIsCapped DEF GradingInv, EvalPart, ScoreInv
<1> QED BY <1>1, <1>2, <1>3, <1>4, <1>5, GradingInvariance, PTL

-----------------------------------------------------------------------------
(* PART 4: Grading implements Job.                                         *)

\* What Job sees at each stage,
LEMMA JobStages ==
    /\ stage \in {"idle", "died"} => JobStage = "away" /\ JobLeft = 0 /\ JobVerdict = "none"
    /\ stage \in {"package", "parse", "compiler"} =>
          JobStage = "prepare" /\ JobLeft = 0 /\ JobVerdict = report.status
    /\ stage = "download" => JobStage = "download" /\ JobLeft = 0 /\ JobVerdict = report.status
    /\ stage \in {"compile", "units"} =>
          JobStage = "compile" /\ JobLeft = 0 /\ JobVerdict = report.status
    /\ stage \in {"tests", "evaluate"} =>
          /\ JobStage = "test" /\ JobLeft = Larger(1, Len(units) - Len(returned))
          /\ JobVerdict = report.status
    /\ stage = "announce" => JobStage = "done" /\ JobLeft = 0 /\ JobVerdict = report.status
    /\ stage = "publish" => JobStage = "publish" /\ JobLeft = 0 /\ JobVerdict = report.status
BY DEF JobStage, JobLeft, JobVerdict

\* and after a step.
LEMMA JobStagesNext ==
    /\ stage' \in {"idle", "died"} => JobStage' = "away" /\ JobLeft' = 0 /\ JobVerdict' = "none"
    /\ stage' \in {"package", "parse", "compiler"} =>
          JobStage' = "prepare" /\ JobLeft' = 0 /\ JobVerdict' = report'.status
    /\ stage' = "download" => JobStage' = "download" /\ JobLeft' = 0 /\ JobVerdict' = report'.status
    /\ stage' \in {"compile", "units"} =>
          JobStage' = "compile" /\ JobLeft' = 0 /\ JobVerdict' = report'.status
    /\ stage' \in {"tests", "evaluate"} =>
          /\ JobStage' = "test" /\ JobLeft' = Larger(1, Len(units') - Len(returned'))
          /\ JobVerdict' = report'.status
    /\ stage' = "announce" => JobStage' = "done" /\ JobLeft' = 0 /\ JobVerdict' = report'.status
    /\ stage' = "publish" => JobStage' = "publish" /\ JobLeft' = 0 /\ JobVerdict' = report'.status
BY DEF JobStage, JobLeft, JobVerdict

\* How many tests are left.
LEMMA TestsLeft ==
    ASSUME GradingInv
    PROVE  /\ stage \in {"tests", "evaluate"} =>
                 Len(units) \in Nat /\ Len(returned) \in Nat /\ Len(returned) <= Len(units)
           /\ stage = "evaluate" => Len(returned) = Len(units)
           /\ stage \in BeforeTests => units = <<>> /\ returned = <<>>
<1>1. TestsInv \/ PipeTests
  BY DEF GradingInv, TestsPart
<1>2. IsSequence(units) /\ IsSequence(returned) /\ Len(returned) <= Len(units)
  BY <1>1 DEF TestsInv, Lists, PipeTests
<1> QED BY <1>2, SequenceShape DEF GradingInv, TestsPart, TestsInit, BeforeTests

\* An error ends the job with its verdict, wherever in a plug-in it comes from.
LEMMA ErrorFails ==
    ASSUME EndsInError, stage \in {"package", "compiler", "compile", "units", "tests", "evaluate"}
    PROVE  J!Failed
<1>1. stage' = "publish" /\ report'.status = "internal_error"
  BY DEF EndsInError, InternalError, Goto, NoReport
<1> QED BY <1>1, JobStages, JobStagesNext DEF J!Failed

\* A worker that dies leaves its job.
LEMMA DeathLeaves ==
    ASSUME Dies, stage \in BeforeTests
    PROVE  J!Left
<1>1. stage' = "died"
  BY DEF Dies, Goto
<1> QED BY <1>1, JobStages, JobStagesNext DEF J!Left, BeforeTests

\* The steps up to the tests.
LEMMA EarlySteps ==
    ASSUME GradingInv,
           Take \/ GetPackage \/ ParseConfig \/ GetCompiler \/ Download \/ Compile \/ EndCompile
    PROVE  [J!JobNext]_(J!jobvars)
<1> USE JobStages, JobStagesNext DEF J!JobNext, J!jobvars, J!Goes
<1>1. CASE Take
  <2>1. stage = "idle" /\ stage' = "package" /\ report' = report /\ report.status = "none"
    BY <1>1 DEF Take, Goto, GradingInv, ReportPart, Untaken, NoReport
  <2> QED BY <2>1 DEF J!Take
<1>2. CASE GetPackage
  <2>1. stage = "package"
    BY <1>2 DEF GetPackage
  <2>2. CASE Goto("parse") /\ UNCHANGED report
    BY <2>1, <2>2 DEF Goto
  <2> QED BY <1>2, <2>1, <2>2, ErrorFails, DeathLeaves DEF GetPackage, BeforeTests
<1>3. CASE ParseConfig
  <2>1. stage = "parse" /\ stage' \in {"died", "compiler"} /\ report' = report
    BY <1>3 DEF ParseConfig, Goto
  <2> QED BY <2>1 DEF J!Left
<1>4. CASE GetCompiler
  <2>1. stage = "compiler"
    BY <1>4 DEF GetCompiler
  <2>2. CASE Goto("download") /\ UNCHANGED report
    BY <2>1, <2>2 DEF Goto, J!Prepared
  <2> QED BY <1>4, <2>1, <2>2, ErrorFails, DeathLeaves DEF GetCompiler, BeforeTests
<1>5. CASE Download
  <2>1. stage = "download"
    BY <1>5 DEF Download
  <2>2. CASE Goto("compile") /\ UNCHANGED report
    BY <2>1, <2>2 DEF Goto, J!Downloaded
  <2> QED BY <1>5, <2>1, <2>2, DeathLeaves DEF Download, BeforeTests
<1>6. CASE Compile
  <2>1. stage = "compile" /\ UNCHANGED <<stage, report>>
    BY <1>6 DEF Compile, jobvars
  <2> QED BY <2>1
<1>7. CASE EndCompile
  <2>1. stage = "compile"
    BY <1>7 DEF EndCompile
  <2>2. CASE Goto("announce") /\ report' = [NoReport EXCEPT !.status = "compile_error"]
    BY <2>1, <2>2 DEF Goto, NoReport, J!Rejected
  <2>3. CASE Goto("units") /\ UNCHANGED report
    BY <2>1, <2>3 DEF Goto
  <2> QED BY <1>7, <2>1, <2>2, <2>3, ErrorFails DEF EndCompile
<1> QED BY <1>1, <1>2, <1>3, <1>4, <1>5, <1>6, <1>7

\* A result is one test less to do, but for the last.
LEMMA ResultSteps ==
    ASSUME GradingInv, GradingInv', stage = "tests", UNCHANGED <<stage, report, units>>, NEW r,
           returned' = Append(returned, r) \/ returned' = returned
    PROVE  [J!JobNext]_(J!jobvars)
<1>1. /\ Len(units) \in Nat /\ Len(returned) \in Nat /\ Len(returned) <= Len(units)
      /\ Len(returned') <= Len(units)
  BY TestsLeft DEF GradingInv, TestsPart, TestsInv, Lists, PipeTests
<1>2. IsSequence(returned)
  BY DEF GradingInv, TestsPart, TestsInv, Lists, PipeTests
<1>3. Len(returned') = Len(returned) + 1 \/ returned' = returned
  BY <1>2, AppendShape
<1> QED BY <1>1, <1>3, JobStages, JobStagesNext
        DEF J!JobNext, J!jobvars, J!Goes, J!Tested, Larger

\* A step of the tests: the count falls by one with each result.
LEMMA TestSteps ==
    ASSUME GradingInv, GradingInv', GetEnvironment \/ FileTest \/ PipeTest \/ TestRaises \/ EndTests
    PROVE  [J!JobNext]_(J!jobvars)
<1> USE JobStages, JobStagesNext DEF J!JobNext, J!jobvars, J!Goes
<1>1. CASE GetEnvironment
  <2>1. stage = "units"
    BY <1>1 DEF GetEnvironment
  <2>2. CASE HasUnits /\ CreateUnits(task.layout) /\ Goto("tests") /\ UNCHANGED report
    <3>1. Len(units') \in Nat /\ returned' = <<>>
      BY <2>1, <2>2, TestsLeft DEF CreateUnits, BeforeTests, Goto
    <3> QED BY <2>1, <2>2, <3>1 DEF Goto, J!Compiled, Larger
  <2> QED BY <1>1, <2>1, <2>2, ErrorFails, DeathLeaves DEF GetEnvironment, BeforeTests
<1>2. CASE FileTest
  <2>1. stage = "tests" /\ UNCHANGED <<stage, report>>
    BY <1>2 DEF FileTest, jobvars
  <2>2. ASSUME NEW o, Execute(o)
        PROVE  UNCHANGED <<units, returned>>
    BY <2>2 DEF Execute
  <2>3. PrepareTest \/ ExecuteRaises \/ Compare => UNCHANGED <<units, returned>>
    BY DEF PrepareTest, ExecuteRaises, Compare, CompareRaises, GarbledDiffers, CompareLine,
           CompareEnds, Raise, Compared
  <2>4. ASSUME NEW p, Record(p)
        PROVE  units' = units /\ \E r : returned' = Append(returned, r)
    BY <2>4 DEF Record
  <2>5. units' = units /\ \E r : returned' = Append(returned, r) \/ returned' = returned
    BY <1>2, <2>2, <2>3, <2>4 DEF FileTest
  <2> QED BY ONLY GradingInv, GradingInv', <2>1, <2>5, ResultSteps
<1>3. CASE PipeTest
  <2>1. stage = "tests" /\ UNCHANGED <<stage, report, units>> /\ \E r : returned' = Append(returned, r)
    BY <1>3 DEF PipeTest, jobvars
  <2> QED BY ONLY GradingInv, GradingInv', <2>1, ResultSteps
<1>4. CASE TestRaises
  BY <1>4, ErrorFails DEF TestRaises
<1>5. CASE EndTests
  <2>1. stage = "tests" /\ stage' = "evaluate" /\ UNCHANGED <<report, units, returned>>
    BY <1>5 DEF EndTests, Goto, testvars
  <2> QED BY <2>1
<1> QED BY <1>1, <1>2, <1>3, <1>4, <1>5

\* The steps after the tests.
LEMMA LateSteps ==
    ASSUME GradingInv, Evaluate \/ EndEvaluate \/ Announce \/ Publish \/ Restart
                         \/ UNCHANGED gradingvars
    PROVE  [J!JobNext]_(J!jobvars)
<1> USE JobStages, JobStagesNext DEF J!JobNext, J!jobvars, J!Goes
<1>1. CASE Evaluate
  <2>1. stage = "evaluate" /\ UNCHANGED <<stage, report, units, returned>>
    BY <1>1 DEF Evaluate, jobvars, testvars
  <2> QED BY <2>1
<1>2. CASE EndEvaluate
  <2>1. stage = "evaluate"
    BY <1>2 DEF EndEvaluate
  <2>2. CASE Goto("announce") /\ report' = [status |-> "ok", score |-> score, tests |-> results]
    <3>1. JobLeft = 1
      BY <2>1, TestsLeft DEF Larger
    <3>2. stage' = "announce" /\ report'.status = "ok"
      BY <2>2 DEF Goto
    <3> QED BY <2>1, <3>1, <3>2 DEF J!Graded
  <2> QED BY <1>2, <2>1, <2>2, ErrorFails DEF EndEvaluate
<1>3. CASE Announce
  <2>1. stage = "announce" /\ stage' = "publish" /\ report' = report
    BY <1>3 DEF Announce, Goto
  <2> QED BY <2>1 DEF J!Announced
<1>4. CASE Publish
  <2>1. stage = "publish" /\ stage' = "idle"
    BY <1>4 DEF Publish, Goto
  <2> QED BY <2>1 DEF J!Left
<1>5. CASE Restart
  <2>1. stage = "died" /\ stage' = "idle"
    BY <1>5 DEF Restart, Goto
  <2> QED BY <2>1
<1>6. CASE UNCHANGED gradingvars
  <2>1. UNCHANGED <<stage, report, units, returned>>
    BY <1>6 DEF gradingvars, jobvars, testvars
  <2> QED BY <2>1 DEF JobStage, JobLeft, JobVerdict
<1> QED BY <1>1, <1>2, <1>3, <1>4, <1>5, <1>6

\* The worker with its plug-ins does what TaskQueue takes a job to be: the stages in
\* their order, one result for each test, the verdict only after the last, an error
\* published without being announced.
THEOREM JobFollowed == GradingSpec => J!JobSpec
<1>1. GradingInit => J!JobInit
  BY JobStages DEF GradingInit, J!JobInit
<1>2. GradingInv /\ GradingInv' /\ [GradingNext]_gradingvars => [J!JobNext]_(J!jobvars)
  BY EarlySteps, TestSteps, LateSteps DEF GradingNext, Work, Waiting
<1> QED BY <1>1, <1>2, GradingInvariance, PTL DEF GradingSpec, J!JobSpec
=============================================================================
