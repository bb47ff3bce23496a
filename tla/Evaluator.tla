------------------------------ MODULE Evaluator ------------------------------
(***************************************************************************)
(* evaluators/basic.py: do_process_results turns the results of the tests  *)
(* into points and a score.  Its two loops are the steps of this module,   *)
(* so that what they keep true of the running totals can be proved.        *)
(*                                                                         *)
(* Points are integers here, in a unit fine enough for the fractions that  *)
(* matter; slow_program_threshold and slow_program_penalty are per cents   *)
(* (the penalty of scale "constant" is in points).                         *)
(***************************************************************************)
EXTENDS Integers, Sequences

CONSTANTS
    Group,      \* prefixes of test names, what extract_group returns
    NoGroup     \* of a test whose name has no dash

ASSUME NoGroupAssumption == NoGroup \notin Group

VARIABLES
    conf,                   \* the evaluator's configuration
    given,                  \* the results as the tests produced them
    results,                \* the same list, which the code updates in place
    passed_test_groups,     \* the dictionary of the first loop
    next,                   \* index of the result the loop looks at
    total_points,
    max_points,
    score,
    pc

vars == <<conf, given, results, passed_test_groups, next, total_points,
          max_points, score, pc>>

Result == [group : Group \cup {NoGroup},
           points : Int, max_points : Nat, time : Nat, timeout : Nat \ {0}]

Conf == [scale : {"linear", "constant", "other"}, penalty : Nat, threshold : 0..100]

TypeOK ==
    /\ conf \in Conf
    /\ given \in Seq(Result)
    /\ results \in Seq(Result) /\ Len(results) = Len(given)
    /\ passed_test_groups \in [Group -> {"absent", "passed", "failed"}]
    /\ next \in 1..Len(given) + 1
    /\ total_points \in Int /\ max_points \in Nat /\ score \in Int
    /\ pc \in {"first", "second", "done", "error"}

\* A run starts on whatever the tests returned.
InitWith(c, r) ==
    /\ conf = c
    /\ given = r
    /\ results = r
    /\ passed_test_groups = [g \in Group |-> "absent"]
    /\ next = 1
    /\ total_points = 0
    /\ max_points = 0
    /\ score = 0
    /\ pc = "first"

-----------------------------------------------------------------------------
Smaller(a, b) == IF a <= b THEN a ELSE b
Larger(a, b) == IF a >= b THEN a ELSE b

\* result['timeout'] * slow_program_threshold < result['time']
IsSlow(r) == r.timeout * conf.threshold < 100 * r.time

\* Faulty variant: the share is not capped at the timeout.
SlowShareUncapped(r) ==
    (100 * (100 * r.time - r.timeout * conf.threshold))
        \div (r.timeout * (100 - conf.threshold))

\* min(threshold_sub / threshold_max, 1), in per cent.
SlowShare(r) ==
    Smaller(100, (100 * (100 * r.time - r.timeout * conf.threshold))
                     \div (r.timeout * (100 - conf.threshold)))

\* The points a slow test loses.
Penalty(r) ==
    IF conf.scale = "linear"
    THEN (r.max_points * SlowShare(r) * conf.penalty) \div 10000
    ELSE conf.penalty

\* An unknown scale raises, and so does the division by threshold_max.
CannotPenalise(r) ==
    conf.scale = "other" \/ (conf.scale = "linear" /\ conf.threshold = 100)

\* Faulty variant: points above the maximum are not cut.
NormalizedBelow(r, points) == Larger(points, 0)

\* max(min(points, max_points), 0)
Normalized(r, points) == Larger(Smaller(points, r.max_points), 0)

\* The body of the second loop before it normalises.
PointsOf(r) ==
    IF r.group = NoGroup THEN r.points
    ELSE IF passed_test_groups[r.group] = "failed" THEN 0
    ELSE IF IsSlow(r) THEN r.points - Penalty(r)
    ELSE r.points

-----------------------------------------------------------------------------
\* Faulty variant: the last test of a group decides.
CheckGroupLast ==
    /\ pc = "first" /\ next <= Len(results)
    /\ LET r == results[next] IN
       passed_test_groups' =
           IF r.group = NoGroup THEN passed_test_groups
           ELSE [passed_test_groups EXCEPT ![r.group] =
                    IF r.points <= 0 THEN "failed" ELSE "passed"]
    /\ next' = next + 1
    /\ UNCHANGED <<conf, given, results, total_points, max_points, score, pc>>

\* First loop: a group passes unless one of its tests got no points.
CheckGroup ==
    /\ pc = "first" /\ next <= Len(results)
    /\ LET r == results[next] IN
       passed_test_groups' =
           IF r.group = NoGroup THEN passed_test_groups
           ELSE [passed_test_groups EXCEPT ![r.group] =
                    IF r.points <= 0 THEN "failed" ELSE IF @ = "absent" THEN "passed" ELSE @]
    /\ next' = next + 1
    /\ UNCHANGED <<conf, given, results, total_points, max_points, score, pc>>

EndFirstLoop ==
    /\ pc = "first" /\ next = Len(results) + 1
    /\ next' = 1
    /\ pc' = "second"
    /\ UNCHANGED <<conf, given, results, passed_test_groups, total_points, max_points, score>>

\* The test in hand is penalised by a configuration that cannot be applied.
Fails(r) ==
    /\ r.group # NoGroup
    /\ passed_test_groups[r.group] # "failed"
    /\ IsSlow(r)
    /\ CannotPenalise(r)

\* Second loop: the final points of one test are added up.
AddPoints ==
    /\ pc = "second" /\ next <= Len(results)
    /\ LET r == results[next]
           points == Normalized(r, PointsOf(r))
       IN  /\ ~Fails(r)
           /\ results' = [results EXCEPT ![next].points = points]
           /\ total_points' = total_points + points
           /\ max_points' = max_points + r.max_points
    /\ next' = next + 1
    /\ UNCHANGED <<conf, given, passed_test_groups, score, pc>>

\* EvaluatorConfigurationError or ZeroDivisionError inside the loop.
RaiseInLoop ==
    /\ pc = "second" /\ next <= Len(results)
    /\ Fails(results[next])
    /\ pc' = "error"
    /\ UNCHANGED <<conf, given, results, passed_test_groups, next, total_points,
                   max_points, score>>

\* int(total_points * 100 / max_points), a ZeroDivisionError if nothing counts.
ComputeScore ==
    /\ pc = "second" /\ next = Len(results) + 1
    /\ \/ max_points > 0 /\ score' = (total_points * 100) \div max_points /\ pc' = "done"
       \/ max_points = 0 /\ pc' = "error" /\ UNCHANGED score
    /\ UNCHANGED <<conf, given, results, passed_test_groups, next, total_points, max_points>>

Next == CheckGroup \/ EndFirstLoop \/ AddPoints \/ RaiseInLoop \/ ComputeScore

Init == \E c \in Conf, r \in Seq(Result) : InitWith(c, r)

Spec == Init /\ [][Next]_vars

-----------------------------------------------------------------------------
\* The results the second loop is done with.
Processed == IF pc = "first" THEN {} ELSE 1..next - 1

\* However many points the tests or the service claim, and whatever the penalty
\* takes away, a test ends with 0 to max_points points, the totals keep that
\* proportion, and the score is a percentage.
ScoreInRange ==
    /\ \A i \in Processed : results[i].points \in 0..results[i].max_points
    /\ 0 <= total_points /\ total_points <= max_points
    /\ score \in 0..100

\* A group is all or nothing: one test without points takes the points of the
\* whole group, wherever in the list its tests are.
GroupAllOrNothing ==
    pc = "done" =>
        \A i, j \in DOMAIN given :
            given[i].group # NoGroup /\ given[i].group = given[j].group /\ given[j].points <= 0
                => results[i].points = 0

\* "no more than 50% of total score will be subtracted" (basic.yml:9): a passed
\* test never loses more than the configured part of its maximum.
PenaltyCapped ==
    pc = "done" /\ conf.scale = "linear" =>
        \A i \in DOMAIN given :
            \/ given[i].group # NoGroup /\ passed_test_groups[given[i].group] = "failed"
            \/ given[i].points > given[i].max_points
            \/ 100 * results[i].points
                   >= 100 * given[i].points - given[i].max_points * conf.penalty

\* "if the test is running longer than 50% of its timeout, then the points are
\* subtracted" (basic.yml:8): every test, in a group or not.
SlowIsPenalised ==
    pc = "done" /\ conf.scale = "linear" =>
        \A i \in DOMAIN given :
            IsSlow(given[i]) /\ ~CannotPenalise(given[i]) /\ Penalty(given[i]) > 0
                => results[i].points < given[i].max_points

=============================================================================
