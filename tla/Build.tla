-------------------------------- MODULE Build --------------------------------
(***************************************************************************)
(* One compilation: compilers/common.py and gcc.py in the worker, gcc.sh   *)
(* in the container.  The worker prepares the directory, has the           *)
(* submission downloaded into it, copies the files the package injects,    *)
(* starts the container and waits; the script compiles every source, then  *)
(* every injected file, and links the objects.                             *)
(*                                                                         *)
(* What a file contains is only whether g++ accepts it.  The name of an    *)
(* object file is the base name of its source and a counter, as in the     *)
(* script, since two sources whose objects have one name are one object.   *)
(***************************************************************************)
EXTENDS Naturals

CONSTANT File   \* [path, base, kind, good]: the files of projects and packages

VARIABLES
    sources,    \* work/compile/in
    recipe,     \* compiler_conf, as far as it matters
    todo,       \* what the loop of the script has not read yet
    seq,        \* SEQ
    obj,        \* work/compile/work/obj
    prog,       \* the files in work/compile/out/prog, none if there is no such file
    script,     \* where the script is
    exit,       \* its exit code
    box,        \* is there a container?
    build       \* where the worker is, and in the end what it returns

buildvars == <<sources, recipe, todo, seq, obj, prog, script, exit, box, build>>

\* Of the limits, timeout is apart since it is read when the container runs.
Recipe == [inject : SUBSET File, missing : BOOLEAN, strip : {"none", "works", "fails"},
           resources : BOOLEAN, timeout : {"absent", "zero", "positive"}]

Verdicts == {"ok", "error", "timeout", "raised"}

BuildTypeOK ==
    /\ sources \subseteq File
    /\ recipe \in Recipe
    /\ todo \subseteq File
    /\ seq \in Nat \ {0}
    /\ obj \subseteq [name : {f.base : f \in File} \X (Nat \ {0}), of : File]
    /\ prog \subseteq File
    /\ script \in {"off", "sources", "inject", "link", "over"}
    /\ exit \in {0, 1, 2}
    /\ box \in BOOLEAN
    /\ build \in {"off", "ready", "loaded", "wait", "stop", "late"} \cup Verdicts

NoRecipe == [inject |-> {}, missing |-> FALSE, strip |-> "none",
             resources |-> TRUE, timeout |-> "positive"]

BuildInit ==
    /\ sources = {} /\ recipe = NoRecipe /\ todo = {} /\ seq = 1 /\ obj = {} /\ prog = {}
    /\ script = "off" /\ exit = 0 /\ box = FALSE /\ build = "off"

-----------------------------------------------------------------------------
(* The worker.                                                             *)

Return(verdict) == build' = verdict

\* do_prepare: the directories are made anew.
DoPrepare ==
    /\ build = "off"
    /\ sources' = {} /\ obj' = {} /\ prog' = {}
    /\ Return("ready")
    /\ UNCHANGED <<recipe, todo, seq, script, exit, box>>

\* download_project into work/compile/in.
DownloadProject(files) ==
    /\ build = "ready"
    /\ sources' = files
    /\ Return("loaded")
    /\ UNCHANGED <<recipe, todo, seq, obj, prog, script, exit, box>>

\* What find prints: -name "*.cpp" -o -name "*.c".
Units(files) == {f \in files : f.kind = "source"}

\* do_compile up to docker_cli.start: a file to inject that the package does not
\* have raises, so do missing limits of the container, and create_container may.
Start(c) ==
    /\ build = "loaded"
    /\ recipe' = c
    /\ \/ /\ Return("raised")
          /\ UNCHANGED <<todo, script, box>>
       \/ /\ ~c.missing /\ c.resources
          /\ box' = TRUE
          /\ script' = "sources" /\ todo' = Units(sources)
          /\ Return("wait")
    /\ seq' = 1 /\ exit' = 0
    /\ UNCHANGED <<sources, obj, prog>>

\* int(timeout / 1000) of a limit that is not there.
TimeoutRaises ==
    /\ build = "wait" /\ recipe.timeout = "absent"
    /\ Return("raised")
    /\ UNCHANGED <<sources, recipe, todo, seq, obj, prog, script, exit, box>>

\* docker_cli.wait returns the exit code (never within 0 seconds).
WaitReturns ==
    /\ build = "wait" /\ recipe.timeout = "positive"
    /\ script = "over"
    /\ Return("stop")
    /\ UNCHANGED <<sources, recipe, todo, seq, obj, prog, script, exit, box>>

\* ReadTimeout, while the script runs or just after it has ended.
TimesOut ==
    /\ build = "wait" /\ recipe.timeout # "absent"
    /\ Return("late")
    /\ UNCHANGED <<sources, recipe, todo, seq, obj, prog, script, exit, box>>

\* destroy_container, then the status.
Destroy ==
    /\ build \in {"stop", "late"}
    /\ box' = FALSE
    /\ script' = "off"
    /\ Return(IF build = "late" THEN "timeout" ELSE IF exit = 0 THEN "ok" ELSE "error")
    /\ UNCHANGED <<sources, recipe, todo, seq, obj, prog, exit>>

\* A call to Docker raises something else than ReadTimeout: starting, waiting
\* (also for a timeout of 0 seconds), or removing the container.
DockerRaises ==
    /\ build \in {"wait", "stop", "late"}
    /\ Return("raised")
    /\ UNCHANGED <<sources, recipe, todo, seq, obj, prog, script, exit, box>>

-----------------------------------------------------------------------------
(* The script.                                                             *)

Running(part) == box /\ script = part

\* Faulty variant: the exit code of the subshell is not looked at.
GiveUpLoopOnly(code) ==
    /\ script' = IF script = "sources" THEN "inject" ELSE "link"
    /\ todo' = IF script = "sources" THEN recipe.inject ELSE {}
    /\ UNCHANGED <<exit, seq, obj>>

\* "exit" in a loop ends the subshell, and the test after the loop the script.
GiveUp(code) ==
    /\ script' = "over"
    /\ exit' = code
    /\ UNCHANGED <<todo, seq, obj>>

\* Faulty variant: the objects of a loop are not counted.
EmitUncounted(f) ==
    /\ obj' = {o \in obj : o.name # <<f.base, seq>>}
                 \cup {[name |-> <<f.base, seq>>, of |-> f]}
    /\ todo' = todo \ {f}
    /\ UNCHANGED <<seq, script, exit>>

\* g++ -c replaces what has the name of its object file.
Emit(f) ==
    /\ obj' = {o \in obj : o.name # <<f.base, seq>>}
                 \cup {[name |-> <<f.base, seq>>, of |-> f]}
    /\ seq' = seq + 1
    /\ todo' = todo \ {f}
    /\ UNCHANGED <<script, exit>>

\* One turn of the first loop, in the order find prints the files.
CompileSource ==
    /\ Running("sources")
    /\ \E f \in todo :
        \/ f.good /\ recipe.strip # "fails" /\ Emit(f)
        \/ ~f.good /\ GiveUp(1)
        \/ f.good /\ recipe.strip = "fails" /\ GiveUp(2)
    /\ UNCHANGED <<sources, recipe, prog, box, build>>

\* The loop was a subshell: SEQ is 1 again.
EndSources ==
    /\ Running("sources") /\ todo = {}
    /\ script' = "inject" /\ todo' = recipe.inject
    /\ seq' = 1
    /\ UNCHANGED <<sources, recipe, obj, prog, exit, box, build>>

\* One turn of the second loop: every file, headers too.
CompileInjected ==
    /\ Running("inject")
    /\ \E f \in todo : (f.good /\ Emit(f)) \/ (~f.good /\ GiveUp(2))
    /\ UNCHANGED <<sources, recipe, prog, box, build>>

EndInjected ==
    /\ Running("inject") /\ todo = {}
    /\ script' = "link"
    /\ seq' = 1
    /\ UNCHANGED <<sources, recipe, todo, obj, prog, exit, box, build>>

\* Objects the linker takes: g++ -c of a header makes none.
Linkable == obj # {} /\ \A o \in obj : o.of.kind = "source"

\* g++ obj/*.o -o prog, and mv to /mnt/out: it fails for what is no object, and
\* may fail for what is missing or defined twice.
Link ==
    /\ Running("link")
    /\ script' = "over"
    /\ \/ Linkable /\ prog' = {o.of : o \in obj} /\ exit' = 0
       \/ exit' = 1 /\ UNCHANGED prog
    /\ UNCHANGED <<sources, recipe, todo, seq, obj, box, build>>

-----------------------------------------------------------------------------
Script == CompileSource \/ EndSources \/ CompileInjected \/ EndInjected \/ Link

Wait == TimeoutRaises \/ WaitReturns \/ TimesOut \/ Destroy \/ DockerRaises

BuildNext ==
    \/ DoPrepare
    \/ \E s \in SUBSET File : DownloadProject(s)
    \/ \E c \in Recipe : Start(c)
    \/ Wait
    \/ Script

BuildSpec == BuildInit /\ [][BuildNext]_buildvars

\* A build is "ok" only with the whole program: every injected file, every source
\* of the submission, and nothing else.  The one source that can be missing has
\* the base name of an injected file, whose object may have replaced its own.
WholeProgram ==
    build = "ok" =>
        /\ recipe.inject \subseteq prog
        /\ prog \subseteq sources \cup recipe.inject
        /\ \A f \in Units(sources) \ prog : \E g \in recipe.inject : g.base = f.base
=============================================================================
