--------------------------- MODULE EvaluatorProofs ---------------------------
(* Proofs about Evaluator, for any groups, configuration and results.      *)
EXTENDS Evaluator, TLAPS

\* A test ends with 0 to max_points points.
LEMMA NormalizedInRange ==
    ASSUME NEW r, r.max_points \in Nat, NEW points \in Int
    PROVE  Normalized(r, points) \in 0..r.max_points
BY DEF Normalized, Smaller, Larger

\* A part of a total is a percentage of it.
LEMMA PercentInRange ==
    ASSUME NEW m \in Nat \ {0}, NEW t \in 0..m
    PROVE  (t * 100) \div m \in 0..100
<1> DEFINE q == (t * 100) \div m
<1>1. q \in Int /\ m * q <= t * 100 /\ t * 100 < m * q + m
  OBVIOUS
<1>2. q >= 0
  BY <1>1
<1>3. m * q <= m * 100
  BY <1>1
<1>4. q <= 100
  BY <1>1, <1>3
<1> QED BY <1>1, <1>2, <1>4

\* The share of the penalty is an integer unless its denominator is zero.
LEMMA SlowShareInt ==
    ASSUME conf \in Conf, NEW r \in Result, conf.threshold # 100
    PROVE  SlowShare(r) \in Int
<1> DEFINE d == r.timeout * (100 - conf.threshold)
           n == 100 * (100 * r.time - r.timeout * conf.threshold)
<1>1. /\ r.timeout \in Nat \ {0} /\ r.time \in Nat /\ conf.threshold \in 0..99
  BY DEF Result, Conf
<1>2. d \in Nat \ {0} /\ n \in Int
  <2> DEFINE k == 100 - conf.threshold
  <2>1. k \in Nat \ {0}
    BY <1>1
  <2>2. r.timeout * k \in Nat \ {0}
    BY <1>1, <2>1
  <2> QED BY <1>1, <2>2
<1>3. n \div d \in Int
  <2> HIDE DEF n, d
  <2> QED BY <1>2
<1> QED BY <1>3 DEF SlowShare, Smaller

\* The points before normalisation are an integer, whatever is subtracted.
LEMMA PointsInt ==
    ASSUME TypeOK, NEW r \in Result, ~Fails(r)
    PROVE  PointsOf(r) \in Int
<1>1. r.points \in Int /\ r.max_points \in Nat /\ conf \in Conf
  BY DEF TypeOK, Result
<1>2. CASE r.group = NoGroup \/ passed_test_groups[r.group] = "failed" \/ ~IsSlow(r)
  BY <1>1, <1>2 DEF PointsOf
<1>3. CASE r.group # NoGroup /\ passed_test_groups[r.group] # "failed" /\ IsSlow(r)
  <2>1. ~CannotPenalise(r)
    BY <1>3 DEF Fails
  <2>2. Penalty(r) \in Int
    <3>1. conf.penalty \in Nat
      BY <1>1 DEF Conf
    <3>2. CASE conf.scale = "linear"
      <4>1. SlowShare(r) \in Int
        BY <1>1, <2>1, <3>2, SlowShareInt DEF CannotPenalise
      <4>2. (r.max_points * SlowShare(r) * conf.penalty) \div 10000 \in Int
        BY <1>1, <3>1, <4>1
      <4> QED BY <3>2, <4>2 DEF Penalty
    <3> QED BY <3>1, <3>2 DEF Penalty
  <2> QED BY <1>1, <1>3, <2>2 DEF PointsOf
<1> QED BY <1>2, <1>3

-----------------------------------------------------------------------------
(* ScoreInRange is inductive together with the types.                      *)

EvalInv == TypeOK /\ ScoreInRange

\* At first the types and ranges hold.
LEMMA InitEvalInv == Init => EvalInv
BY DEF Init, InitWith, EvalInv, TypeOK, ScoreInRange, Processed, Conf

\* The first loop leaves results and totals alone.
LEMMA FirstLoopEvalInv ==
    ASSUME EvalInv, CheckGroup \/ EndFirstLoop
    PROVE  EvalInv'
<1>1. CASE CheckGroup
  <2>1. results[next] \in Result
    BY <1>1 DEF CheckGroup, EvalInv, TypeOK
  <2>2. passed_test_groups' \in [Group -> {"absent", "passed", "failed"}]
    BY <1>1, <2>1 DEF CheckGroup, EvalInv, TypeOK, Result
  <2> QED BY <1>1, <2>2 DEF CheckGroup, EvalInv, TypeOK, ScoreInRange, Processed
<1>2. CASE EndFirstLoop
  BY <1>2 DEF EndFirstLoop, EvalInv, TypeOK, ScoreInRange, Processed
<1> QED BY <1>1, <1>2

\* The second loop adds up points that are in range.
LEMMA AddPointsEvalInv ==
    ASSUME EvalInv, AddPoints
    PROVE  EvalInv'
<1> DEFINE r == results[next]
           points == Normalized(r, PointsOf(r))
<1>1. /\ next \in DOMAIN results /\ r \in Result /\ pc = "second" /\ ~Fails(r)
      /\ Len(results) = Len(given)
  BY DEF AddPoints, EvalInv, TypeOK
<1>2. points \in 0..r.max_points /\ r.max_points \in Nat
  BY <1>1, PointsInt, NormalizedInRange DEF EvalInv, Result
<1>3. /\ results' = [results EXCEPT ![next] = [r EXCEPT !.points = points]]
      /\ total_points' = total_points + points
      /\ max_points' = max_points + r.max_points
      /\ next' = next + 1
      /\ UNCHANGED <<conf, given, passed_test_groups, score, pc>>
  BY DEF AddPoints
<1> DEFINE q == [r EXCEPT !.points = points]
<1>4. q \in Result /\ q.points = points /\ q.max_points = r.max_points
  BY <1>1, <1>2 DEF Result
<1> HIDE DEF points
<1>5. /\ results' \in Seq(Result) /\ Len(results') = Len(given)
      /\ \A i \in DOMAIN results : results'[i] = IF i = next THEN q ELSE results[i]
  <2>1. results \in Seq(Result)
    BY DEF EvalInv, TypeOK
  <2>2. results' = [results EXCEPT ![next] = q]
    BY <1>3
  <2> HIDE DEF q, r
  <2> QED BY <1>1, <1>4, <2>1, <2>2
<1>6. TypeOK'
  BY <1>1, <1>2, <1>3, <1>5 DEF EvalInv, TypeOK
<1>7. \A i \in Processed' : results'[i].points \in 0..results'[i].max_points
  <2> SUFFICES ASSUME NEW i \in 1..next
               PROVE  results'[i].points \in 0..results'[i].max_points
    BY <1>1, <1>3 DEF Processed, EvalInv, TypeOK
  <2>1. i \in DOMAIN results
    BY <1>1 DEF EvalInv, TypeOK
  <2>2. CASE i = next
    BY <1>2, <1>4, <1>5, <2>1, <2>2
  <2>3. CASE i # next
    BY <1>1, <1>5, <2>1, <2>3 DEF EvalInv, ScoreInRange, Processed, TypeOK
  <2> QED BY <2>2, <2>3
<1>8. 0 <= total_points' /\ total_points' <= max_points' /\ score' \in 0..100
  BY <1>2, <1>3 DEF EvalInv, ScoreInRange, TypeOK
<1> QED BY <1>6, <1>7, <1>8 DEF EvalInv, ScoreInRange

\* The score is the percentage the totals make.
LEMMA ComputeScoreEvalInv ==
    ASSUME EvalInv, ComputeScore
    PROVE  EvalInv'
<1>1. score' \in 0..100
  <2>1. CASE max_points > 0
    <3>1. total_points \in 0..max_points /\ max_points \in Nat \ {0}
      BY <2>1 DEF EvalInv, TypeOK, ScoreInRange
    <3> QED BY <2>1, <3>1, PercentInRange DEF ComputeScore
  <2>2. CASE max_points = 0
    BY <2>2 DEF ComputeScore, EvalInv, ScoreInRange
  <2> QED BY <2>1, <2>2 DEF ComputeScore
<1> QED BY <1>1 DEF ComputeScore, EvalInv, TypeOK, ScoreInRange, Processed

\* Every step keeps them.
LEMMA NextEvalInv == EvalInv /\ [Next]_vars => EvalInv'
<1> SUFFICES ASSUME EvalInv, [Next]_vars
             PROVE  EvalInv'
  OBVIOUS
<1>1. CASE RaiseInLoop
  BY <1>1 DEF RaiseInLoop, EvalInv, TypeOK, ScoreInRange, Processed
<1>2. CASE UNCHANGED vars
  BY <1>2 DEF vars, EvalInv, TypeOK, ScoreInRange, Processed
<1> QED BY <1>1, <1>2, FirstLoopEvalInv, AddPointsEvalInv, ComputeScoreEvalInv DEF Next

\* The types and ranges hold in every reachable state.
THEOREM EvalInvariance == Spec => []EvalInv
BY InitEvalInv, NextEvalInv, PTL DEF Spec

\* Whatever points the tests or the service claim and whatever the penalty
\* takes, every result and the totals stay in range and the score is a
\* percentage (basic.py:68-73).
THEOREM ScoreAlwaysInRange == Spec => []ScoreInRange
<1>1. EvalInv => ScoreInRange
  BY DEF EvalInv
<1> QED BY EvalInvariance, <1>1, PTL

-----------------------------------------------------------------------------
(* What became of each test.                                               *)

\* The test j of the given list fails its group.
FailsGroup(j) == given[j].group # NoGroup /\ given[j].points <= 0

\* The groups that are known to have failed, and what the loops have not touched.
GroupsKnown ==
    /\ \A i \in DOMAIN given : i \notin Processed => results[i] = given[i]
    /\ \A j \in DOMAIN given :
          FailsGroup(j) /\ (pc = "first" => j < next)
              => passed_test_groups[given[j].group] = "failed"
    /\ pc = "done" => next = Len(given) + 1

OfFailedGroup(i) ==
    given[i].group # NoGroup /\ passed_test_groups[given[i].group] = "failed"

\* What PenaltyCapped says of the test i.
LosesNoMore(i) ==
    \/ OfFailedGroup(i)
    \/ given[i].points > given[i].max_points
    \/ 100 * results[i].points >= 100 * given[i].points - given[i].max_points * conf.penalty

\* What is settled for a processed test.
Settled(i) ==
    /\ OfFailedGroup(i) => results[i].points = 0
    /\ conf.scale = "linear" => LosesNoMore(i)

GroupInv == EvalInv /\ GroupsKnown /\ \A i \in Processed : Settled(i)

\* The linear penalty is at most the configured per cents of the maximum.
LEMMA PenaltyBounded ==
    ASSUME conf \in Conf, NEW r \in Result, conf.scale = "linear", conf.threshold # 100
    PROVE  Penalty(r) \in Int /\ 100 * Penalty(r) <= r.max_points * conf.penalty
<1> DEFINE m == r.max_points
           s == SlowShare(r)
           p == conf.penalty
           a == m * s * p
<1>1. m \in Nat /\ p \in Nat
  BY DEF Result, Conf
<1>2. s \in Int
  BY SlowShareInt
<1>3. s <= 100
  BY <1>2 DEF SlowShare, Smaller
<1>4. Penalty(r) = a \div 10000
  BY DEF Penalty
<1> HIDE DEF m, s, p
<1>5. m * s \in Int /\ m * s <= m * 100
  BY <1>1, <1>2, <1>3
<1>6. (m * s) * p <= (m * 100) * p
  <2> DEFINE x == m * s
             y == m * 100
  <2>1. x \in Int /\ y \in Int /\ x <= y
    BY <1>1, <1>5
  <2> HIDE DEF x, y
  <2>2. x * p <= y * p
    BY <1>1, <2>1
  <2> QED BY <2>2 DEF x, y
<1>7. a \in Int /\ a <= 100 * (m * p)
  BY <1>1, <1>2, <1>5, <1>6
<1> HIDE DEF a
<1>8. a \div 10000 \in Int /\ 10000 * (a \div 10000) <= a
  BY <1>7
<1>9. m * p \in Int
  BY <1>1
<1>10. 100 * (a \div 10000) <= m * p
  <2> DEFINE q == a \div 10000
             k == m * p
  <2>1. q \in Int /\ k \in Int /\ 10000 * q <= a /\ a <= 100 * k /\ a \in Int
    BY <1>7, <1>8, <1>9
  <2> HIDE DEF q, k
  <2>2. 100 * q <= k
    BY <2>1
  <2> QED BY <2>2 DEF q, k
<1> QED BY <1>4, <1>8, <1>10 DEF m, p

\* The points of a test whose group has not failed.
LEMMA PointsKept ==
    ASSUME TypeOK, NEW r \in Result, ~Fails(r), conf.scale = "linear",
           r.points <= r.max_points,
           r.group = NoGroup \/ passed_test_groups[r.group] # "failed"
    PROVE  100 * Normalized(r, PointsOf(r)) >= 100 * r.points - r.max_points * conf.penalty
<1> DEFINE m == r.max_points
           p == conf.penalty
           k == m * p
           n == Normalized(r, PointsOf(r))
<1>1. r.points \in Int /\ m \in Nat /\ p \in Nat /\ conf \in Conf
  BY DEF TypeOK, Result, Conf
<1>2. k \in Nat
  BY <1>1
<1>3. CASE r.group # NoGroup /\ IsSlow(r)
  <2> DEFINE q == Penalty(r)
  <2>1. conf.threshold # 100
    BY <1>3 DEF Fails, CannotPenalise
  <2>2. q \in Int /\ 100 * q <= k
    BY <1>1, <2>1, PenaltyBounded
  <2>3. PointsOf(r) = r.points - q
    BY <1>3 DEF PointsOf
  <2> HIDE DEF q, k
  <2>4. n >= r.points - q \/ n >= r.points
    BY <1>1, <2>2, <2>3 DEF Normalized, Smaller, Larger
  <2>5. n \in Int
    BY <1>1, <2>2, <2>3 DEF Normalized, Smaller, Larger
  <2> HIDE DEF n
  <2>6. 100 * n >= 100 * r.points - k
    BY <1>1, <1>2, <2>2, <2>4, <2>5
  <2> QED BY <2>6 DEF n, k
<1>4. CASE r.group = NoGroup \/ ~IsSlow(r)
  <2>1. PointsOf(r) = r.points
    BY <1>4 DEF PointsOf
  <2> HIDE DEF k
  <2>2. n \in Int /\ n >= r.points
    BY <1>1, <2>1 DEF Normalized, Smaller, Larger
  <2> HIDE DEF n
  <2>3. 100 * n >= 100 * r.points - k
    BY <1>1, <1>2, <2>2
  <2> QED BY <2>3 DEF n, k
<1> QED BY <1>3, <1>4

\* The first loop marks every group in which a test has no points.
LEMMA FirstLoopGroups ==
    ASSUME GroupInv, CheckGroup \/ EndFirstLoop
    PROVE  GroupsKnown' /\ \A i \in Processed' : Settled(i)'
<1>1. pc = "first" /\ results = given /\ given \in Seq(Result) /\ next \in 1..Len(given) + 1
  <2>1. /\ pc = "first" /\ results \in Seq(Result) /\ given \in Seq(Result)
        /\ Len(results) = Len(given) /\ next \in 1..Len(given) + 1
    BY DEF CheckGroup, EndFirstLoop, GroupInv, EvalInv, TypeOK
  <2>2. \A i \in DOMAIN given : results[i] = given[i]
    BY <2>1 DEF GroupInv, GroupsKnown, Processed
  <2> QED BY <2>1, <2>2
<1>2. CASE CheckGroup
  <2> DEFINE r == given[next]
  <2>1. /\ next \in DOMAIN given /\ r \in Result
        /\ passed_test_groups' =
             IF r.group = NoGroup THEN passed_test_groups
             ELSE [passed_test_groups EXCEPT ![r.group] =
                      IF r.points <= 0 THEN "failed" ELSE IF @ = "absent" THEN "passed" ELSE @]
        /\ next' = next + 1 /\ UNCHANGED <<conf, given, results, pc>>
    BY <1>1, <1>2 DEF CheckGroup
  <2>2. Processed' = {} /\ Processed = {}
    BY <1>1, <2>1 DEF Processed
  <2>3. ASSUME NEW j \in DOMAIN given, FailsGroup(j), j < next + 1
        PROVE  passed_test_groups'[given[j].group] = "failed"
    <3>1. given[j].group \in Group /\ r.group \in Group \cup {NoGroup}
      <4>1. given[j] \in Result
        BY <1>1
      <4>2. given[j].group \in Group \cup {NoGroup} /\ r.group \in Group \cup {NoGroup}
        BY <2>1, <4>1 DEF Result
      <4> QED BY <2>3, <4>2 DEF FailsGroup
    <3>2. passed_test_groups \in [Group -> {"absent", "passed", "failed"}]
      BY DEF GroupInv, EvalInv, TypeOK
    <3>3. CASE j = next
      BY <2>1, <2>3, <3>1, <3>2, <3>3 DEF FailsGroup
    <3>4. CASE j # next
      <4>1. j < next
        BY <1>1, <2>3, <3>4
      <4>2. passed_test_groups[given[j].group] = "failed"
        BY <1>1, <2>3, <4>1 DEF GroupInv, GroupsKnown
      <4> QED BY <2>1, <3>1, <3>2, <4>2
    <3> QED BY <3>3, <3>4
  <2> QED BY <1>1, <2>1, <2>2, <2>3 DEF GroupsKnown, FailsGroup
<1>3. CASE EndFirstLoop
  <2>1. /\ next' = 1 /\ pc' = "second" /\ next = Len(results) + 1
        /\ UNCHANGED <<conf, given, results, passed_test_groups>>
    BY <1>3 DEF EndFirstLoop
  <2>2. Processed' = {}
    BY <2>1 DEF Processed
  <2>3. \A j \in DOMAIN given : j < next
    BY <1>1, <2>1
  <2> QED BY <1>1, <2>1, <2>2, <2>3 DEF GroupInv, GroupsKnown, FailsGroup
<1> QED BY <1>2, <1>3

\* The second loop settles one test more.
LEMMA AddPointsGroups ==
    ASSUME GroupInv, AddPoints
    PROVE  GroupsKnown' /\ \A i \in Processed' : Settled(i)'
<1> DEFINE r == given[next]
           points == Normalized(r, PointsOf(r))
<1>1. /\ pc = "second" /\ next \in DOMAIN given /\ next \in Nat \ {0} /\ given \in Seq(Result)
      /\ results \in Seq(Result) /\ DOMAIN results = DOMAIN given
  BY DEF AddPoints, GroupInv, EvalInv, TypeOK
<1>2. results[next] = r /\ r \in Result
  BY <1>1 DEF GroupInv, GroupsKnown, Processed
<1>3. /\ ~Fails(r) /\ next' = next + 1 /\ UNCHANGED <<conf, given, passed_test_groups, pc>>
      /\ results' = [results EXCEPT ![next].points = points]
  BY <1>2 DEF AddPoints
<1>4. Processed = 1..next - 1 /\ Processed' = 1..next
  BY <1>1, <1>3 DEF Processed
<1>5. points \in 0..r.max_points /\ r.max_points \in Nat /\ r.points \in Int
  BY <1>2, <1>3, PointsInt, NormalizedInRange DEF GroupInv, EvalInv, Result
<1>6. results'[next].points = points /\ \A i \in DOMAIN given : i # next => results'[i] = results[i]
  <2> HIDE DEF points
  <2> QED BY <1>1, <1>2, <1>3 DEF Result
<1>7. GroupsKnown'
  <2>1. \A i \in DOMAIN given : i \notin 1..next => results'[i] = given[i]
    BY <1>1, <1>4, <1>6 DEF GroupInv, GroupsKnown
  <2> QED BY <1>1, <1>3, <1>4, <2>1 DEF GroupInv, GroupsKnown, FailsGroup
<1>8. ASSUME NEW i \in 1..next - 1
      PROVE  Settled(i)'
  <2>1. i \in DOMAIN given /\ i # next
    BY <1>1
  <2>2. Settled(i) /\ results'[i] = results[i]
    BY <1>4, <1>6, <2>1 DEF GroupInv
  <2> QED BY <1>3, <2>2 DEF Settled, LosesNoMore, OfFailedGroup
<1>9. ASSUME NEW i, i = next
      PROVE  Settled(i)'
  <2>1. OfFailedGroup(i) => points = 0
    BY <1>5, <1>9 DEF OfFailedGroup, PointsOf, Normalized, Smaller, Larger
  <2>2. conf.scale = "linear" /\ ~OfFailedGroup(i) /\ r.points <= r.max_points
            => 100 * points >= 100 * r.points - r.max_points * conf.penalty
    BY <1>2, <1>3, <1>9, PointsKept DEF OfFailedGroup, GroupInv, EvalInv
  <2>3. r.points > r.max_points \/ r.points <= r.max_points
    BY <1>5
  <2>4. results'[i].points = points /\ given[i] = r
    BY <1>6, <1>9
  <2> HIDE DEF points, r
  <2>5. OfFailedGroup(i)' <=> OfFailedGroup(i)
    BY <1>3 DEF OfFailedGroup
  <2> QED BY <1>3, <2>1, <2>2, <2>3, <2>4, <2>5 DEF Settled, LosesNoMore
<1>10. \A i \in 1..next : i \in 1..next - 1 \/ i = next
  BY <1>1
<1>11. \A i \in 1..next : Settled(i)'
  BY <1>8, <1>9, <1>10
<1> QED BY <1>4, <1>7, <1>11

\* Before the first result there is nothing to know of groups.
LEMMA InitGroupInv == Init => GroupInv
<1>1. Init => GroupsKnown /\ \A i \in Processed : Settled(i)
  BY DEF Init, InitWith, GroupsKnown, Processed
<1> QED BY <1>1, InitEvalInv DEF GroupInv

\* What is settled stays so.
LEMMA NextGroupInv == GroupInv /\ [Next]_vars => GroupInv'
<1> SUFFICES ASSUME GroupInv, [Next]_vars
             PROVE  GroupsKnown' /\ \A i \in Processed' : Settled(i)'
  BY NextEvalInv DEF GroupInv
<1>1. CASE RaiseInLoop \/ ComputeScore
  <2>1. /\ UNCHANGED <<conf, given, results, passed_test_groups, next>>
        /\ pc = "second" /\ pc' # "first"
        /\ pc' = "done" => next = Len(given) + 1
    BY <1>1 DEF RaiseInLoop, ComputeScore, GroupInv, EvalInv, TypeOK
  <2>2. Processed' = Processed
    BY <2>1 DEF Processed
  <2> QED
    BY <2>1, <2>2 DEF GroupInv, GroupsKnown, FailsGroup, Settled, LosesNoMore, OfFailedGroup
<1>2. CASE UNCHANGED vars
  BY <1>2
     DEF vars, GroupInv, GroupsKnown, FailsGroup, Settled, LosesNoMore, OfFailedGroup, Processed
<1> QED BY <1>1, <1>2, FirstLoopGroups, AddPointsGroups DEF Next

\* What is known of groups and points holds in every reachable state.
LEMMA GroupInvariance == Spec => []GroupInv
BY InitGroupInv, NextGroupInv, PTL DEF Spec

\* When the loops have ended, every test is processed.
LEMMA AllProcessed ==
    ASSUME GroupInv, pc = "done"
    PROVE  \A i \in DOMAIN given : Settled(i)
<1>1. given \in Seq(Result)
  BY DEF GroupInv, EvalInv, TypeOK
<1>2. Processed = DOMAIN given
  BY <1>1 DEF GroupInv, GroupsKnown, Processed
<1> QED BY <1>2 DEF GroupInv

\* At the end it gives the rule of groups
LEMMA GroupIsAllOrNothing == GroupInv => GroupAllOrNothing
<1> SUFFICES ASSUME GroupInv, pc = "done",
                    NEW i \in DOMAIN given, NEW j \in DOMAIN given,
                    given[i].group # NoGroup, given[i].group = given[j].group,
                    given[j].points <= 0
             PROVE  results[i].points = 0
  BY DEF GroupAllOrNothing
<1>1. OfFailedGroup(i)
  BY DEF GroupInv, GroupsKnown, FailsGroup, OfFailedGroup
<1> QED BY <1>1, AllProcessed DEF Settled

\* and the cap of the penalty.
LEMMA PenaltyIsCapped == GroupInv => PenaltyCapped
BY AllProcessed DEF PenaltyCapped, Settled, LosesNoMore, OfFailedGroup

\* One test without points takes the points of its whole group, however many
\* tests there are and wherever they are in the list (basic.py:29-66).
THEOREM GroupAllOrNothingThm == Spec => []GroupAllOrNothing
BY GroupInvariance, GroupIsAllOrNothing, PTL

\* "no more than 50% of total score will be subtracted" (basic.yml:9), for any
\* configured per cents: a passed test loses no more than that of its maximum.
THEOREM PenaltyCappedThm == Spec => []PenaltyCapped
BY GroupInvariance, PenaltyIsCapped, PTL

-----------------------------------------------------------------------------
(* The score, and what the results have in common with those of the tests. *)

\* The totals are equal only if every test they count has all of its points.
FullPoints ==
    /\ total_points = max_points
          <=> \A i \in Processed : results[i].points = results[i].max_points
    /\ pc = "done" => (score = 100 <=> total_points = max_points)

\* The test i keeps its group, and got no points that it did not have.
Earned(i) ==
    /\ results[i].group = given[i].group
    /\ results[i].points > 0 => given[i].points > 0

ScoreInv == GroupInv /\ FullPoints /\ \A i \in Processed : Earned(i)

\* Before the first result no points were given.
LEMMA InitScoreInv == Init => ScoreInv
<1>1. Init => FullPoints /\ \A i \in Processed : Earned(i)
  BY DEF Init, InitWith, FullPoints, Processed
<1> QED BY <1>1, InitGroupInv DEF ScoreInv

\* Points are 100 per cent of the maximum only if they are the maximum.
LEMMA FullPercent ==
    ASSUME NEW m \in Nat \ {0}, NEW t \in 0..m
    PROVE  (t * 100) \div m = 100 <=> t = m
<1> DEFINE q == (t * 100) \div m
<1>1. q \in Int /\ m * q <= t * 100 /\ t * 100 < m * q + m
  OBVIOUS
<1>2. q = 100 => t = m
  BY <1>1
<1>3. t = m => q = 100
  <2> SUFFICES ASSUME t = m PROVE q = 100
    OBVIOUS
  <2>1. m * q <= m * 100 /\ m * 100 < m * (q + 1)
    BY <1>1
  <2> HIDE DEF q
  <2>2. q <= 100 /\ 100 < q + 1
    BY <1>1, <2>1
  <2> QED BY <1>1, <2>2
<1> QED BY <1>2, <1>3

\* Adding the points of one result keeps the totals equal exactly if it is full.
LEMMA AddPointsScore ==
    ASSUME ScoreInv, AddPoints
    PROVE  FullPoints' /\ \A i \in Processed' : Earned(i)'
<1> DEFINE r == given[next]
           points == Normalized(r, PointsOf(r))
<1>1. /\ pc = "second" /\ next \in DOMAIN given /\ next \in Nat \ {0} /\ given \in Seq(Result)
      /\ results \in Seq(Result) /\ DOMAIN results = DOMAIN given /\ results[next] = r
      /\ r \in Result
  BY DEF AddPoints, ScoreInv, GroupInv, GroupsKnown, Processed, EvalInv, TypeOK
<1>2. /\ ~Fails(r) /\ next' = next + 1 /\ UNCHANGED <<conf, given, passed_test_groups, pc>>
      /\ results' = [results EXCEPT ![next].points = points]
      /\ total_points' = total_points + points /\ max_points' = max_points + r.max_points
  BY <1>1 DEF AddPoints
<1>3. points \in 0..r.max_points /\ r.max_points \in Nat /\ r.points \in Int
  BY <1>1, <1>2, PointsInt, NormalizedInRange DEF ScoreInv, GroupInv, EvalInv, Result
<1>4. Processed' = Processed \cup {next} /\ next \notin Processed /\ Processed \subseteq DOMAIN given
  BY <1>1, <1>2 DEF Processed
<1>5. /\ results'[next].points = points /\ results'[next].max_points = r.max_points
      /\ results'[next].group = r.group
      /\ \A i \in Processed : results'[i] = results[i]
  <2> HIDE DEF points, r
  <2> QED BY <1>1, <1>2, <1>4 DEF Result
<1>6. r.points <= 0 => points = 0
  <2> SUFFICES ASSUME r.points <= 0 PROVE points = 0
    OBVIOUS
  <2>1. CASE r.group = NoGroup
    BY <1>3, <2>1 DEF PointsOf, Normalized, Smaller, Larger
  <2>2. CASE r.group # NoGroup
    <3>1. passed_test_groups[r.group] = "failed"
      BY <1>1, <2>2 DEF ScoreInv, GroupInv, GroupsKnown, FailsGroup
    <3> QED BY <1>3, <2>2, <3>1 DEF PointsOf, Normalized, Smaller, Larger
  <2> QED BY <2>1, <2>2
<1>7. ASSUME NEW i, i = next
      PROVE  Earned(i)'
  <2>1. results'[i].points = points /\ results'[i].group = r.group /\ given'[i] = r
    BY <1>2, <1>5, <1>7
  <2> HIDE DEF points, r
  <2> QED BY <1>3, <1>6, <2>1 DEF Earned
<1>8. \A i \in Processed : Earned(i)'
  <2> HIDE DEF points, r
  <2> QED BY <1>2, <1>5 DEF ScoreInv, Earned
<1>9. total_points \in Int /\ max_points \in Int /\ total_points <= max_points
  BY DEF ScoreInv, GroupInv, EvalInv, TypeOK, ScoreInRange
<1>10. total_points' = max_points' <=> total_points = max_points /\ points = r.max_points
  <2> HIDE DEF points, r
  <2> QED BY <1>2, <1>3, <1>9
<1>11. FullPoints'
  <2> HIDE DEF points, r
  <2>1. points = r.max_points <=> results'[next].points = results'[next].max_points
    BY <1>5
  <2>2. pc' # "done"
    BY <1>1, <1>2
  <2>3. total_points = max_points
           <=> \A i \in Processed : results'[i].points = results'[i].max_points
    BY <1>5 DEF ScoreInv, FullPoints
  <2> QED BY <1>4, <1>10, <2>1, <2>2, <2>3 DEF FullPoints
<1> QED BY <1>4, <1>7, <1>8, <1>11

\* Every step keeps what is known of the score.
LEMMA NextScoreInv == ScoreInv /\ [Next]_vars => ScoreInv'
<1> SUFFICES ASSUME ScoreInv, [Next]_vars
             PROVE  FullPoints' /\ \A i \in Processed' : Earned(i)'
  BY NextGroupInv DEF ScoreInv
<1> USE DEF ScoreInv, FullPoints, Earned, Processed
<1>1. CASE CheckGroup \/ EndFirstLoop
  BY <1>1 DEF CheckGroup, EndFirstLoop
<1>2. CASE RaiseInLoop \/ UNCHANGED vars
  BY <1>2 DEF RaiseInLoop, vars
<1>3. CASE ComputeScore
  <2>1. CASE max_points = 0
    BY <1>3, <2>1 DEF ComputeScore
  <2>2. CASE max_points > 0
    <3>1. max_points \in Nat \ {0} /\ total_points \in 0..max_points
      BY <2>2 DEF GroupInv, EvalInv, TypeOK, ScoreInRange
    <3>2. score' = 100 <=> total_points = max_points
      BY <1>3, <3>1, FullPercent DEF ComputeScore
    <3> QED BY <1>3, <3>2 DEF ComputeScore
  <2> QED BY <1>3, <2>1, <2>2 DEF ComputeScore
<1> QED BY <1>1, <1>2, <1>3, AddPointsScore DEF Next

\* The score is 100 exactly if every test has all of its points, and no test ends
\* with points that it did not return, for any list of results.
THEOREM ScoreIsEarned == Spec => [](pc = "done" =>
                                      /\ \A i \in DOMAIN given : Earned(i)
                                      /\ score = 100 <=> \A i \in DOMAIN given :
                                            results[i].points = results[i].max_points)
<1>1. ScoreInv /\ pc = "done" => Processed = DOMAIN given
  BY DEF ScoreInv, GroupInv, GroupsKnown, EvalInv, TypeOK, Processed
<1>2. ScoreInv => (pc = "done" => /\ \A i \in DOMAIN given : Earned(i)
                                  /\ score = 100 <=> \A i \in DOMAIN given :
                                        results[i].points = results[i].max_points)
  BY <1>1 DEF ScoreInv, FullPoints
<1> QED BY InitScoreInv, NextScoreInv, <1>2, PTL DEF Spec
=============================================================================
