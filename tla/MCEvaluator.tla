----------------------------- MODULE MCEvaluator -----------------------------
(* TLC instances of Evaluator: every list of up to MaxTests results.       *)
EXTENDS Evaluator, FiniteSets, SequencesExt

CONSTANTS MaxTests, Penalties

\* Times in quarters of the timeout: below, at and beyond half of it, and beyond it.
Test(g, points, max, time) ==
    [group |-> g, points |-> points, max_points |-> max, time |-> time, timeout |-> 4]

\* What file.py and pipe.py return: full marks in time, slowly or too late, none,
\* a test worth nothing, and points a service got wrong.
Returned(g) ==
    {Test(g, 4, 4, t) : t \in {2, 3, 6}}
        \cup {Test(g, 0, 4, 5), Test(g, 0, 0, 1), Test(g, 6, 4, 1), Test(g, -1, 4, 1)}

Inputs == BoundedSeq(UNION {Returned(g) : g \in Group \cup {NoGroup}}, MaxTests)

Configurations ==
    [scale : {"linear", "constant"}, penalty : Penalties, threshold : {50}]
        \cup {[scale |-> "linear", penalty |-> 50, threshold |-> 100],
              [scale |-> "other", penalty |-> 50, threshold |-> 50]}

MCInit == \E c \in Configurations, r \in Inputs : InitWith(c, r)

Stopped == pc \in {"done", "error"} /\ UNCHANGED vars

MCSpec == MCInit /\ [][Next \/ Stopped]_vars
=============================================================================
