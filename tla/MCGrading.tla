------------------------------ MODULE MCGrading ------------------------------
(* TLC instance of Grading.  Each part of the model gets tasks that vary what *)
(* that part looks at and are plain elsewhere.                                *)
EXTENDS Grading, MCEvaluator

CONSTANTS g1, g2      \* the groups

-----------------------------------------------------------------------------
(* Files of projects and packages.                                         *)

Source(p, b, g) == [path |-> p, base |-> b, kind |-> "source", good |-> g]

Main == Source("in/main.cpp", "main", TRUE)
SameBase == Source("in/lib/main.c", "main", TRUE)
Broken == Source("in/util.c", "util", FALSE)
Readme == [path |-> "in/README", base |-> "README", kind |-> "other", good |-> FALSE]

PackageFiles ==
    "main.c" :> Source("package/main.c", "main", TRUE)
        @@ "check.c" :> Source("package/check.c", "check", TRUE)
        @@ "typo.c" :> Source("package/typo.c", "typo", FALSE)
        @@ "check.h" :> [path |-> "package/check.h", base |-> "check", kind |-> "header", good |-> TRUE]

MCFile == {Main, SameBase, Broken, Readme} \cup {PackageFiles[n] : n \in DOMAIN PackageFiles}

-----------------------------------------------------------------------------
(* Configurations.                                                         *)

Named(n) == Mapping("name" :> Value(n))
With(t, key, value) == Mapping(key :> value @@ t.entries)
Without(t, key) == Mapping([k \in Keys(t) \ {key} |-> Get(t, k)])

Sections(env) ==
    Mapping([compiler |-> Named("gcc"), env |-> Named(env), runner |-> Named("bin"),
             service_runner |-> Named("bin"), evaluator |-> Named("basic")])

Raw(base) == Mapping("configs" :> Mapping("_base" :> base))
RawWith(base, part) == Mapping("configs" :> Mapping("_base" :> base @@ "fast" :> part))

Points(n) == Mapping("points" :> Value(n))
TestPoints == With(Named("file"), "tests", Mapping("t1" :> Points(2) @@ "t2" :> Points(4)))

Bases ==
    {Sections("file"),
     With(Sections("file"), "env", TestPoints),
     With(Sections("file"), "env", With(Named("file"), "tests", Mapping("t1" :> Value(5)))),
     With(Sections("file"), "runner", With(Named("bin"), "limits", Mapping("timeout" :> Value(2000)))),
     With(Sections("file"), "compiler", With(Named("gcc"), "limits", Limits(2000))),
     EmptyMapping}
        \cup {Without(Sections("file"), s) : s \in {"compiler", "env", "evaluator", "runner"}}
        \cup {With(Sections("file"), s, Named("other")) : s \in {"compiler", "env", "evaluator", "runner"}}

Parts ==
    {EmptyMapping,
     Value("none"),
     Sections("file"),
     Mapping("env" :> Mapping("tests" :> Mapping("t1" :> Points(6)))),
     Mapping("env" :> Mapping("tests" :> EmptyMapping)),
     Mapping("env" :> Mapping("tests" :> Value("none"))),
     Mapping("evaluator" :> Mapping("name" :> Named("basic"))),
     Mapping("runner" :> Value("bin")),
     Mapping("runner" :> Mapping("limits" :> Mapping("resources" :> Value(1)))),
     Mapping("compiler" :> Mapping("limits" :> Mapping("timeout" :> Value(500)))),
     Mapping("compiler" :> Mapping("limits" :> Mapping("resources" :> Value(1)))),
     Mapping("compiler" :> Mapping("limits" :> Mapping("resources" :> Value(1) @@ "timeout" :> Named("x"))))}

Raws ==
    {RawWith(b, p) : b \in Bases, p \in Parts}
        \cup {Value("none"), EmptyMapping, Mapping("configs" :> Value("none")), Raw(Value("none"))}

-----------------------------------------------------------------------------
(* Tests.                                                                  *)

L(text, space) == [text |-> text, space |-> space]
Text(lines) == [kind |-> "text", lines |-> lines]
Missing == [kind |-> "missing", lines |-> <<>>]
Garbled == [kind |-> "garbled", lines |-> <<>>]

a == L("a", "")
b == L("b", "")

Entry(n, g, expected, data) ==
    [name |-> n, group |-> g, test |-> TRUE, expected |-> expected, data |-> data]

\* A hidden file, or one of the expected outputs.
NoTest == [name |-> "x", group |-> NoGroup, test |-> FALSE, expected |-> Missing, data |-> FALSE]

OneTest == "tests" :> <<NoTest, Entry("t1", NoGroup, Text(<<a>>), FALSE)>>

ExpectedFiles == {Text(<<a>>), Text(<<a, L("b", "tab")>>), Text(<<>>), Missing, Garbled}

Layouts ==
    {"tests" :> <<Entry("t1", g1, e, TRUE), NoTest, Entry("t2", g1, f, FALSE)>> :
        e, f \in ExpectedFiles}
    \cup {"input" :> <<NoTest>>, [k \in {} |-> k],
          "input" :> <<Entry("t1", g1, Text(<<a>>), TRUE)>> @@ OneTest}

O(status, time, output) == [status |-> status, time |-> time, output |-> output]

Behaviours ==
    {O("ok", 1, f) : f \in {Text(<<>>), Text(<<a>>), Text(<<L("a", "cr"), b>>), Text(<<b>>),
                           Text(<<a, L("", "nl")>>), Text(<<a, b, b>>), Missing, Garbled}}
    \cup {O("ok", 3, Text(<<a>>)), O("bad_exit_code", 1, Text(<<a>>)),
          O("soft_timeout", 4, Text(<<a>>)), O("hard_timeout", 6, Text(<<a>>)),
          O("hard_timeout", 6, Missing)}

-----------------------------------------------------------------------------
(* Tasks.                                                                  *)

Plain ==
    [raw |-> Raw(Sections("file")), config_name |-> "none", package |-> "there",
     files |-> PackageFiles, uploaded |-> {Main}, strip |-> "none",
     layout |-> OneTest, behaviour |-> {O("ok", 1, Text(<<a>>))}, services |-> {}]

Unavailable ==
    {[Plain EXCEPT !.package = "missing"], [Plain EXCEPT !.package = "broken"],
     [Plain EXCEPT !.uploaded = {}]}

Configured == {[Plain EXCEPT !.raw = r, !.config_name = n] : r \in Raws, n \in {"none", "fast"}}

Injecting(names) ==
    Raw(With(Sections("file"), "compiler", With(Named("gcc"), "inject_files", Value(names))))

Built ==
    {[Plain EXCEPT !.uploaded = u, !.strip = s, !.raw = Injecting(names)] :
        u \in SUBSET {Main, SameBase, Broken, Readme} \ {{}}, s \in {"none", "fails"},
        names \in {{}, {"main.c"}, {"main.c", "check.c"}, {"check.h"}, {"typo.c", "main.c"}, {"lost.c"}}}

Tested ==
    {[Plain EXCEPT !.layout = l, !.behaviour = Behaviours,
                   !.raw = Raw(With(Sections("file"), "env", TestPoints))] : l \in Layouts}

\* The results MCEvaluator has, from a service.
Services == {[points |-> r.points, max_points |-> r.max_points, time |-> r.time] : r \in Returned(NoGroup)}

Scored(c) ==
    Raw(With(Sections("pipe"), "evaluator",
             Mapping("name" :> Value("basic") @@ "slow_program_scale" :> Value(c.scale)
                        @@ "slow_program_penalty" :> Value(c.penalty)
                        @@ "slow_program_threshold" :> Value(c.threshold))))

PipeTask(c, gs) ==
    [Plain EXCEPT !.raw = Scored(c), !.services = Services,
                  !.layout = "tests" :> [i \in DOMAIN gs |-> Entry("t", gs[i], Missing, FALSE)]]

\* Lists of three in which two or more tests are of one group.
Threes == {<<g1, g1, g1>>, <<NoGroup, g1, g1>>, <<g1, NoGroup, g1>>, <<g1, g1, NoGroup>>,
           <<g2, g1, g1>>, <<g1, g2, g1>>, <<g1, g1, g2>>}

Evaluated ==
    {PipeTask(c, gs) : c \in Configurations,
                       gs \in BoundedSeq(Group \cup {NoGroup}, MaxTests) \ {<<>>}}
        \cup {PipeTask([scale |-> s, penalty |-> 50, threshold |-> 50], gs) :
                s \in {"linear", "constant"}, gs \in Threes}

MCTask == Unavailable \cup Configured \cup Built \cup Tested \cup Evaluated

\* deep_update, which calls itself.
RECURSIVE MCMerge(_, _)
MCMerge(source, overrides) ==
    Updated(source, overrides,
            [k \in Nested(overrides) |-> MCMerge(Child(source, k), Get(overrides, k))])

MCLayout == {t.layout : t \in MCTask}
MCOutcome == Behaviours
=============================================================================
