------------------------------ MODULE FileTests ------------------------------
(***************************************************************************)
(* The tests of a package in env_provider/file.py and common.py, one after *)
(* the other: the units are the files of a directory; each is prepared in  *)
(* the runner's directory, executed by the runner (module Runner) and its  *)
(* output compared line by line with the expected one.                     *)
(*                                                                         *)
(* A line is [text, space]: what strip() leaves of it, and the white space *)
(* it removes.  A file is [kind, lines]; one of kind "garbled" cannot be   *)
(* decoded, and NoFile is not there.                                       *)
(***************************************************************************)
EXTENDS Naturals, Sequences

CONSTANTS
    Layout,     \* directories of packages: functions from their names to entries
    Outcome     \* [status, time, output]: what executing a program may come to

NoFile == [kind |-> "missing", lines |-> <<>>]

VARIABLES
    units,      \* test_units
    returned,   \* results, the TestStatus of each test so far
    outcomes,   \* the outcomes behind them (a history of the executions)
    rundir,     \* work/run: whose input and data it has, and the output
    exec,       \* exc_res
    line,       \* the lines compare has read of both files
    cmp,        \* cmp_res
    run         \* what comes next

testvars == <<units, returned, outcomes, rundir, exec, line, cmp, run>>

Fresh == [input |-> 0, data |-> 0, output |-> NoFile]

NoOutcome == [status |-> "none", time |-> 0, output |-> NoFile]

TestsInit ==
    /\ units = <<>> /\ returned = <<>> /\ outcomes = <<>>
    /\ rundir = Fresh
    /\ exec = NoOutcome
    /\ line = 0 /\ cmp = FALSE
    /\ run = "off"

current == Len(returned) + 1

-----------------------------------------------------------------------------
\* The old directory is preferred; there may be none.
Directory(layout) ==
    IF "input" \in DOMAIN layout THEN layout["input"]
    ELSE IF "tests" \in DOMAIN layout THEN layout["tests"] ELSE <<>>

\* The loop over the sorted names: those that are no tests, hidden in "input" or
\* without the prefix "in-" in "tests", are skipped.
Listed(dir) ==
    LET listed[n \in 0..Len(dir)] ==
            IF n = 0 THEN <<>>
            ELSE IF dir[n].test THEN Append(listed[n - 1], dir[n]) ELSE listed[n - 1]
    IN  listed

UnitsOf(layout) == Listed(Directory(layout))[Len(Directory(layout))]

\* do_create_test_units: EnvConfigurationError if there is no test.
CreateUnits(layout) ==
    /\ run = "off"
    /\ units' = UnitsOf(layout)
    /\ run' = IF UnitsOf(layout) = <<>> THEN "raised" ELSE "prepare"
    /\ UNCHANGED <<returned, outcomes, rundir, exec, line, cmp>>

\* Faulty variant: the directory keeps what the test before left.
Reused == rundir

\* runner.do_prepare makes work/run anew.
Prepared == Fresh

\* The program, the data of the test if it has any, and its input are copied.
PrepareTest ==
    /\ run = "prepare" /\ Len(returned) < Len(units)
    /\ rundir' = [input |-> current,
                  data |-> IF units[current].data THEN current ELSE Prepared.data,
                  output |-> Prepared.output]
    /\ run' = "execute"
    /\ UNCHANGED <<units, returned, outcomes, exec, line, cmp>>

\* do_run and do_wait; a container that says ready too late, an overwritten
\* stdout or Docker raise.
Execute(o) ==
    /\ run = "execute"
    /\ exec' = o
    /\ rundir' = [rundir EXCEPT !.output = IF o.output = NoFile THEN @ ELSE o.output]
    /\ line' = 0
    /\ run' = "compare"
    /\ UNCHANGED <<units, returned, outcomes, cmp>>

Raise ==
    /\ run' = "raised"
    /\ UNCHANGED <<units, returned, outcomes, rundir, exec, line, cmp>>

ExecuteRaises == run = "execute" /\ Raise

\* What the constants are: outputs and expected outputs are files, and a directory is
\* a sequence of names.
IsFile(f) ==
    /\ f.kind \in {"text", "garbled", "missing"}
    /\ f.lines \in Seq([text : STRING, space : STRING])

IsSequence(s) == s \in Seq({s[i] : i \in DOMAIN s})

ASSUME FilesAssumption ==
    /\ \A o \in Outcome : IsFile(o.output)
    /\ \A l \in Layout :
          /\ IsSequence(Directory(l))
          /\ \A i \in DOMAIN Directory(l) :
                Directory(l)[i].test \in BOOLEAN /\ IsFile(Directory(l)[i].expected)

-----------------------------------------------------------------------------
(* compare, which is called whatever the status of the execution is.       *)

Actual == rundir.output
Expected == units[current].expected

\* open raises for a file that is not there, readline for one it cannot decode.
CompareRaises ==
    /\ run = "compare"
    /\ Actual.kind # "text" \/ Expected.kind # "text"
    /\ Raise

Compared(result) ==
    /\ cmp' = result
    /\ run' = "record"
    /\ UNCHANGED <<units, returned, outcomes, rundir, exec, line>>

\* A difference before the part that cannot be decoded.
GarbledDiffers ==
    /\ run = "compare"
    /\ {Actual.kind, Expected.kind} \subseteq {"text", "garbled"}
    /\ "garbled" \in {Actual.kind, Expected.kind}
    /\ Compared(FALSE)

\* Faulty variant: the shorter file decides.
VerdictAtLineShort(f, g, n) ==
    IF n >= Len(f.lines) \/ n >= Len(g.lines) THEN "equal"
    ELSE IF f.lines[n + 1].text = g.lines[n + 1].text THEN "go on"
    ELSE "different"

\* One turn of the loop, after n lines: one file ended, both did, or two lines.
VerdictAtLine(f, g, n) ==
    IF n >= Len(f.lines) /\ n >= Len(g.lines) THEN "equal"
    ELSE IF n < Len(f.lines) /\ n < Len(g.lines) /\ f.lines[n + 1].text = g.lines[n + 1].text
         THEN "go on"
    ELSE "different"

BothText == Actual.kind = "text" /\ Expected.kind = "text"

CompareLine ==
    /\ run = "compare" /\ BothText
    /\ VerdictAtLine(Actual, Expected, line) = "go on"
    /\ line' = line + 1
    /\ UNCHANGED <<units, returned, outcomes, rundir, exec, cmp, run>>

CompareEnds ==
    /\ run = "compare" /\ BothText
    /\ VerdictAtLine(Actual, Expected, line) # "go on"
    /\ Compared(VerdictAtLine(Actual, Expected, line) = "equal")

\* The status of the execution comes first.
StatusOf(o, equal) ==
    IF o.status # "ok" THEN o.status ELSE IF equal THEN "ok" ELSE "bad_answer"

\* The TestStatus, with the maximum of points the options give the test.
Record(max_points) ==
    /\ run = "record"
    /\ returned' = Append(returned,
           [name |-> units[current].name, group |-> units[current].group,
            status |-> StatusOf(exec, cmp), time |-> exec.time,
            points |-> IF StatusOf(exec, cmp) = "ok" THEN max_points ELSE 0,
            max_points |-> max_points])
    /\ outcomes' = Append(outcomes, exec)
    /\ run' = "prepare"
    /\ UNCHANGED <<units, rundir, exec, line, cmp>>

-----------------------------------------------------------------------------
Compare == CompareRaises \/ GarbledDiffers \/ CompareLine \/ CompareEnds

TestsNext ==
    \/ \E l \in Layout : CreateUnits(l)
    \/ PrepareTest
    \/ \E o \in Outcome : Execute(o)
    \/ ExecuteRaises
    \/ Compare
    \/ \E p \in Nat : Record(p)

TestsSpec == TestsInit /\ [][TestsNext]_testvars

\* Files that are equal but for white space around their lines.
SameText(f, g) ==
    /\ f.kind = "text" /\ g.kind = "text"
    /\ Len(f.lines) = Len(g.lines)
    /\ \A n \in DOMAIN f.lines : f.lines[n].text = g.lines[n].text

\* While a program runs, its directory has its own input, its own data or none,
\* and no output of another; what is compared is what it wrote.
OwnDirectory ==
    /\ run = "execute" =>
          rundir = [input |-> current, data |-> IF units[current].data THEN current ELSE 0,
                    output |-> NoFile]
    /\ run \in {"compare", "record"} => rundir.output = exec.output

\* A test is passed exactly if its own program run on its own input ended well in
\* time and wrote the expected lines, up to white space around them; and then
\* alone it has its points.
OwnVerdict ==
    /\ OwnDirectory
    /\ \A i \in DOMAIN outcomes :
          /\ returned[i].status = "ok" <=>
                outcomes[i].status = "ok" /\ SameText(outcomes[i].output, units[i].expected)
          /\ returned[i].points \in {0, returned[i].max_points}
          /\ returned[i].points > 0 => returned[i].status = "ok"
=============================================================================
