------------------------------- MODULE Delivery -------------------------------
(***************************************************************************)
(* What the engine promises about submissions, without saying how: they    *)
(* are served in the order they were queued, those of a more urgent queue  *)
(* first; each is answered at most once; and one is lost only at the price *)
(* of a mishap.  TaskQueue implements this specification.                  *)
(***************************************************************************)
EXTENDS Naturals, Sequences, FiniteSets

CONSTANTS
    Submission,
    LevelOf         \* the queue of each submission

VARIABLES
    pending,        \* the submissions waiting in each queue
    taken,          \* those being graded
    answered,       \* those whose result was published
    lost,           \* those nobody will answer
    mishaps         \* crashes, lost connections, signals and submissions that
                    \* cannot be graded so far

dvars == <<pending, taken, answered, lost, mishaps>>

Urgency == [high |-> 3, medium |-> 2, low |-> 1]

DInit ==
    /\ pending = [l \in DOMAIN Urgency |-> <<>>]
    /\ taken = {}
    /\ answered = {}
    /\ lost = {}
    /\ mishaps = 0

Waiting == UNION {{pending[l][i] : i \in DOMAIN pending[l]} : l \in DOMAIN Urgency}

\* A client queues a submission, once.
Enqueue(s) ==
    /\ s \notin Waiting \cup taken \cup answered \cup lost
    /\ pending' = [pending EXCEPT ![LevelOf[s]] = Append(@, s)]
    /\ UNCHANGED <<taken, answered, lost, mishaps>>

\* The longest waiting submission of the most urgent queue leaves it.
Dequeue(s) ==
    \E l \in DOMAIN Urgency :
        /\ pending[l] # <<>> /\ s = Head(pending[l])
        /\ \A m \in DOMAIN Urgency : Urgency[m] > Urgency[l] => pending[m] = <<>>
        /\ pending' = [pending EXCEPT ![l] = Tail(@)]

Take(s) ==
    /\ Dequeue(s)
    /\ taken' = taken \cup {s}
    /\ UNCHANGED <<answered, lost, mishaps>>

Answer(s) ==
    /\ s \in taken
    /\ taken' = taken \ {s}
    /\ answered' = answered \cup {s}
    /\ mishaps' \in {mishaps, mishaps + 1}
    /\ UNCHANGED <<pending, lost>>

Mishap ==
    /\ mishaps' = mishaps + 1
    /\ UNCHANGED <<pending, taken, answered, lost>>

\* A submission is lost; the mishap may have happened just now or some time ago,
\* and a crash may meet a submission that could not be graded anyway.
Lose(s) ==
    /\ mishaps' \in mishaps..(mishaps + 2)
    /\ Cardinality(lost) < mishaps'
    /\ lost' = lost \cup {s}
    /\ UNCHANGED answered

\* On the way out of the queue.
LoseWaiting(s) == Dequeue(s) /\ Lose(s) /\ UNCHANGED taken

\* While it is graded.
LoseTaken(s) == s \in taken /\ taken' = taken \ {s} /\ Lose(s) /\ UNCHANGED pending

DNext ==
    \/ Mishap
    \/ \E s \in Submission :
          Enqueue(s) \/ Take(s) \/ Answer(s) \/ LoseWaiting(s) \/ LoseTaken(s)

DSpec == DInit /\ [][DNext]_dvars

\* The engine owes every queued submission an answer, mishaps aside.
DFairSpec ==
    /\ DSpec
    /\ WF_dvars(\E s \in Submission : Take(s) \/ LoseWaiting(s))
    /\ \A s \in Submission : WF_dvars(Answer(s) \/ LoseTaken(s))
=============================================================================
