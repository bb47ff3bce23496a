----------------------------- MODULE MCTaskQueue -----------------------------
(* TLC instances of TaskQueue.                                             *)
EXTENDS TaskQueue, TLC

CONSTANTS w1, w2, n1, n2, s1, s2, f1, f2

\* Each worker has a name of its own, as worker_conf.py.dist asks.
OwnNames == w1 :> n1 @@ w2 :> n2

\* Two workers were deployed with the same worker_conf.py.
SameName == w1 :> n1 @@ w2 :> n1

TwoFiles == s1 :> {f1, f2} @@ s2 :> {f1}
OneFile == s1 :> {f1} @@ s2 :> {f1}
OneEmpty == s1 :> {} @@ s2 :> {f1}

\* submit.py uses "medium" only; the web frontend may use the others.
AllMedium == s1 :> "medium" @@ s2 :> "medium"
TwoLevels == s1 :> "medium" @@ s2 :> "high"
=============================================================================
