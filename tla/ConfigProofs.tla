---------------------------- MODULE ConfigProofs ----------------------------
(***************************************************************************)
(* deep_update, which calls itself, does what it should of paths, for any  *)
(* trees.  The proof is by induction on the depth of the trees.            *)
(***************************************************************************)
EXTENDS Config, WellFoundedInduction, SequenceTheorems, TLAPS

-----------------------------------------------------------------------------
(* Induction over the natural numbers.                                     *)

\* A set of numbers that is not empty has a least one, since < is well founded.
LEMMA Least ==
    ASSUME NEW T, T \subseteq Nat, T # {}
    PROVE  \E n \in T : \A m \in T : ~(m < n)
<1> DEFINE Less == {ss \in Nat \X Nat : ss[1] < ss[2]}
<1>1. IsWellFoundedOn(Less, Nat)
  BY NatLessThanWellFounded DEF OpToRel
<1>2. \E n \in T : \A m \in T : ~(<<m, n>> \in Less)
  <2> HIDE DEF Less
  <2> QED BY <1>1, WFMin
<1>3. PICK n \in T : \A m \in T : ~(<<m, n>> \in Less)
  BY <1>2
<1>4. \A m \in T : ~(m < n)
  BY <1>3
<1> QED BY <1>4

\* What holds of 0 and of n + 1 if it holds of n, holds of all: the least number of which
\* it does not hold cannot be. A set takes the place of the predicate.
LEMMA Induction ==
    ASSUME NEW S, 0 \in S, \A n \in Nat : n \in S => n + 1 \in S
    PROVE  \A n \in Nat : n \in S
<1> DEFINE T == {n \in Nat : n \notin S}
<1>1. SUFFICES ASSUME T # {} PROVE FALSE
  OBVIOUS
<1>2. PICK n \in T : \A m \in T : ~(m < n)
  BY <1>1, Least
<1>3. n # 0 /\ n - 1 \in Nat /\ n - 1 < n
  BY <1>2
<1>4. n - 1 \in S
  BY <1>2, <1>3
<1>5. (n - 1) + 1 \in S
  BY <1>3, <1>4
<1> QED BY <1>2, <1>3, <1>5

-----------------------------------------------------------------------------
(* The recursive function in Level.                                        *)

\* What a node has below it.
NodesBelow(b) == {<<Append(b[1], k), Get(b[2], k)>> : k \in Keys(b[2])}

\* The equations of the recursive function in Level: there is such a function, made of
\* ones up to n that agree with each other.
LEMMA LevelDef ==
    ASSUME NEW t
    PROVE  /\ Level(t)[0] = {<< <<>>, t >>}
           /\ \A n \in Nat : Level(t)[n + 1] = UNION {NodesBelow(b) : b \in Level(t)[n]}
<1> DEFINE After(B) == UNION {NodesBelow(b) : b \in B}
           Goes(f, i) == IF i = 0 THEN {<< <<>>, t >>} ELSE After(f[i - 1])
           Until(f, n) == f = [i \in 0..n |-> Goes(f, i)]
           F == [n \in Nat |-> (CHOOSE f : Until(f, n))[n]]
<1>a. \A B : After(B) = UNION {NodesBelow(b) : b \in B}
  OBVIOUS
<1> HIDE DEF After
<1>1. \A n \in Nat : \E f : Until(f, n)
  <2> DEFINE S == {n \in Nat : \E f : Until(f, n)}
  <2>1. 0 \in S
    <3> DEFINE f == [i \in 0..0 |-> {<< <<>>, t >>}]
    <3>1. Until(f, 0)
      OBVIOUS
    <3> QED BY <3>1
  <2>2. ASSUME NEW n \in Nat, n \in S PROVE n + 1 \in S
    <3>1. PICK f : Until(f, n)
      BY <2>2
    <3> DEFINE g == [i \in 0..n + 1 |-> IF i = n + 1 THEN After(f[n]) ELSE f[i]]
    <3>2. ASSUME NEW i \in 0..n + 1 PROVE g[i] = Goes(g, i)
      <4>1. CASE i = n + 1
        BY <4>1
      <4>2. CASE i # n + 1
        <5>1. i \in 0..n
          BY <4>2
        <5>2. f[i] = Goes(f, i)
          BY <3>1, <5>1
        <5>3. i # 0 => i - 1 \in 0..n
          BY <5>1
        <5> QED BY <4>2, <5>1, <5>2, <5>3
      <4> QED BY <4>1, <4>2
    <3>3. Until(g, n + 1)
      BY <3>2
    <3> HIDE DEF Until, g
    <3> QED BY <3>3
  <2> HIDE DEF S, Until
  <2>3. \A n \in Nat : n \in S
    BY <2>1, <2>2, Induction
  <2> QED BY <2>3 DEF S
<1>2. ASSUME NEW n \in Nat, NEW m \in Nat, NEW f, NEW g, Until(f, n), Until(g, m)
      PROVE  \A i \in Nat : i <= n /\ i <= m => f[i] = g[i]
  <2> DEFINE S == {i \in Nat : i <= n /\ i <= m => f[i] = g[i]}
  <2>0. /\ \A i \in 0..n : f[i] = Goes(f, i)
        /\ \A i \in 0..m : g[i] = Goes(g, i)
    BY <1>2
  <2>1. 0 \in S
    <3>1. 0 \in 0..n /\ 0 \in 0..m
      OBVIOUS
    <3>2. f[0] = Goes(f, 0) /\ g[0] = Goes(g, 0)
      BY <2>0, <3>1
    <3> QED BY <3>2
  <2>2. ASSUME NEW i \in Nat, i \in S PROVE i + 1 \in S
    <3>1. SUFFICES ASSUME i + 1 <= n, i + 1 <= m PROVE f[i + 1] = g[i + 1]
      OBVIOUS
    <3>2. i + 1 \in 0..n /\ i + 1 \in 0..m /\ i + 1 # 0 /\ (i + 1) - 1 = i
      BY <3>1
    <3>3. f[i] = g[i]
      BY <2>2, <3>1
    <3>4. f[i + 1] = After(f[i]) /\ g[i + 1] = After(g[i])
      BY <2>0, <3>2
    <3> QED BY <3>3, <3>4
  <2>3. \A i \in Nat : i \in S
    <3> HIDE DEF S
    <3> QED BY <2>1, <2>2, Induction
  <2> QED BY <2>3
<1>3. ASSUME NEW n \in Nat PROVE F[n] = Goes(F, n)
  <2>1. PICK f : f = CHOOSE g : Until(g, n)
    OBVIOUS
  <2>2. Until(f, n) /\ F[n] = f[n]
    <3> HIDE DEF Until
    <3> QED BY <2>1, <1>1
  <2>3. f[n] = Goes(f, n)
    <3>1. n \in 0..n
      OBVIOUS
    <3>2. f = [i \in 0..n |-> Goes(f, i)]
      BY <2>2
    <3> HIDE DEF Goes
    <3> QED BY <3>1, <3>2
  <2>4. CASE n = 0
    BY <2>2, <2>3, <2>4
  <2>5. CASE n # 0
    <3>1. n - 1 \in Nat
      BY <2>5
    <3>2. PICK g : g = CHOOSE h : Until(h, n - 1)
      OBVIOUS
    <3>3. Until(g, n - 1) /\ F[n - 1] = g[n - 1]
      <4> HIDE DEF Until
      <4> QED BY <3>1, <3>2, <1>1
    <3>4. f[n - 1] = g[n - 1]
      <4> HIDE DEF Until
      <4> QED BY <2>2, <3>1, <3>3, <1>2
    <3> QED BY <2>2, <2>3, <2>5, <3>3, <3>4
  <2> QED BY <2>4, <2>5
<1>4. F = [n \in Nat |-> Goes(F, n)]
  <2>1. F = [n \in Nat |-> F[n]]
    OBVIOUS
  <2> HIDE DEF F
  <2> QED BY <1>3, <2>1
<1>5. Level(t) = [n \in Nat |-> Goes(Level(t), n)]
  <2> DEFINE Levels(f) == f = [n \in Nat |-> Goes(f, n)]
  <2>1. \E f : Levels(f)
    <3> HIDE DEF F
    <3> QED BY <1>4
  <2>2. Level(t) = CHOOSE f : Levels(f)
    BY <1>a DEF Level, NodesBelow
  <2> HIDE DEF Levels
  <2>3. Levels(Level(t))
    BY <2>1, <2>2
  <2> QED BY <2>3 DEF Levels
<1>6. Level(t)[0] = {<< <<>>, t >>}
  BY <1>5
<1>7. ASSUME NEW n \in Nat PROVE Level(t)[n + 1] = After(Level(t)[n])
  <2>1. n + 1 \in Nat /\ n + 1 # 0 /\ (n + 1) - 1 = n
    OBVIOUS
  <2> QED BY <2>1, <1>5
<1> QED BY <1>6, <1>7, <1>a

-----------------------------------------------------------------------------
(* Paths.                                                                  *)

\* A sequence of keys.
IsPath(p) == \E K : p \in Seq(K)

\* The nodes B with k before their paths.
Under(k, B) == {<<Cons(k, b[1]), b[2]>> : b \in B}

\* The length and the keys of a path with one key more.
LEMMA ConsPath ==
    ASSUME NEW k, NEW p, IsPath(p)
    PROVE  /\ IsPath(Cons(k, p)) /\ Len(Cons(k, p)) = Len(p) + 1 /\ Len(p) \in Nat
           /\ Cons(k, p)[1] = k
           /\ \A i \in 1..Len(p) : Cons(k, p)[i + 1] = p[i]
<1>1. PICK K : p \in Seq(K)
  BY DEF IsPath
<1>2. p \in Seq(K \cup {k}) /\ <<k>> \in Seq(K \cup {k})
  BY <1>1, SeqMonotonic
<1>3. /\ Cons(k, p) \in Seq(K \cup {k})
      /\ Len(Cons(k, p)) = Len(<<k>>) + Len(p)
      /\ \A i \in 1..Len(<<k>>) + Len(p) :
            Cons(k, p)[i] = IF i <= Len(<<k>>) THEN <<k>>[i] ELSE p[i - Len(<<k>>)]
  BY <1>2, ConcatProperties DEF Cons
<1>4. Len(<<k>>) = 1 /\ <<k>>[1] = k /\ Len(p) \in Nat
  BY <1>1
<1> QED BY <1>3, <1>4 DEF IsPath

\* A key at either end of a path, in any order.
LEMMA ConsAppend ==
    ASSUME NEW k, NEW p, NEW j, IsPath(p)
    PROVE  Append(Cons(k, p), j) = Cons(k, Append(p, j)) /\ IsPath(Append(p, j))
<1>1. PICK K : p \in Seq(K)
  BY DEF IsPath
<1> DEFINE M == K \cup {k, j}
<1>2. p \in Seq(M) /\ <<k>> \in Seq(M) /\ j \in M
  BY <1>1, SeqMonotonic
<1> HIDE DEF M
<1>3. Append(p, j) \in Seq(M)
  BY <1>2
<1>4. Append(<<k>> \o p, j) = <<k>> \o Append(p, j)
  BY <1>2, AppendIsConcat, ConcatAssociative
<1> QED BY <1>3, <1>4 DEF Cons, IsPath

\* IsPrefix key by key.
LEMMA PrefixDef ==
    ASSUME NEW p, NEW q, IsPath(p), IsPath(q)
    PROVE  IsPrefix(p, q) <=> Len(p) <= Len(q) /\ \A i \in 1..Len(p) : p[i] = q[i]
<1>1. PICK K : p \in Seq(K)
  BY DEF IsPath
<1>2. PICK L : q \in Seq(L)
  BY DEF IsPath
<1>3. Len(p) \in Nat /\ Len(q) \in Nat
  BY <1>1, <1>2
<1>4. ASSUME Len(p) <= Len(q)
      PROVE  SubSeq(p, 1, Len(p)) = SubSeq(q, 1, Len(p)) <=> \A i \in 1..Len(p) : p[i] = q[i]
  <2>1. /\ SubSeq(p, 1, Len(p)) = [i \in 1..Len(p) |-> p[i]]
        /\ SubSeq(q, 1, Len(p)) = [i \in 1..Len(p) |-> q[i]]
    BY <1>1, <1>2, <1>3, <1>4
  <2> QED BY <2>1
<1> QED BY <1>3, <1>4 DEF IsPrefix

\* Paths are equal that have the same keys.
LEMMA PathEqual ==
    ASSUME NEW p, NEW q, IsPath(p), IsPath(q)
    PROVE  p = q <=> Len(p) = Len(q) /\ \A i \in 1..Len(p) : p[i] = q[i]
<1>1. PICK K : p \in Seq(K)
  BY DEF IsPath
<1>2. PICK L : q \in Seq(L)
  BY DEF IsPath
<1>3. p \in Seq(K \cup L) /\ q \in Seq(K \cup L)
  BY <1>1, <1>2, SeqMonotonic
<1> QED BY <1>3, SeqEqual

\* How paths that begin with a key compare: nothing but their keys and what follows.
LEMMA ConsPrefix ==
    ASSUME NEW k, NEW j, NEW p, NEW q, IsPath(p), IsPath(q)
    PROVE  /\ IsPrefix(Cons(k, p), Cons(j, q)) <=> k = j /\ IsPrefix(p, q)
           /\ Cons(k, p) = Cons(j, q) <=> k = j /\ p = q
           /\ IsPrefix(<<>>, q) /\ ~IsPrefix(Cons(k, p), <<>>) /\ Cons(k, p) # <<>>
           /\ (IsPrefix(p, <<>>) => p = <<>>)
<1> DEFINE P == Cons(k, p)
           Q == Cons(j, q)
<1>1. /\ IsPath(P) /\ Len(P) = Len(p) + 1 /\ Len(p) \in Nat /\ P[1] = k
      /\ \A i \in 1..Len(p) : P[i + 1] = p[i]
  BY ConsPath
<1>2. /\ IsPath(Q) /\ Len(Q) = Len(q) + 1 /\ Len(q) \in Nat /\ Q[1] = j
      /\ \A i \in 1..Len(q) : Q[i + 1] = q[i]
  BY ConsPath
<1>3. IsPath(<<>>) /\ Len(<<>>) = 0
  BY EmptySeq DEF IsPath
<1> HIDE DEF P, Q
<1>4. ASSUME Len(p) <= Len(q)
      PROVE  (\A i \in 1..Len(P) : P[i] = Q[i]) <=> k = j /\ \A i \in 1..Len(p) : p[i] = q[i]
  <2>1. ASSUME \A i \in 1..Len(P) : P[i] = Q[i]
        PROVE  k = j /\ \A i \in 1..Len(p) : p[i] = q[i]
    <3>1. k = j
      BY <1>1, <1>2, <2>1
    <3>2. ASSUME NEW i \in 1..Len(p) PROVE p[i] = q[i]
      <4>1. i + 1 \in 1..Len(P) /\ i \in 1..Len(q)
        BY <1>1, <1>2, <1>4
      <4> QED BY <4>1, <1>1, <1>2, <2>1
    <3> QED BY <3>1, <3>2
  <2>2. ASSUME k = j, \A i \in 1..Len(p) : p[i] = q[i], NEW i \in 1..Len(P)
        PROVE  P[i] = Q[i]
    <3>1. CASE i = 1
      BY <1>1, <1>2, <2>2, <3>1
    <3>2. CASE i # 1
      <4>1. i - 1 \in 1..Len(p) /\ i - 1 \in 1..Len(q) /\ (i - 1) + 1 = i
        BY <1>1, <1>2, <1>4, <3>2
      <4>2. P[(i - 1) + 1] = p[i - 1] /\ Q[(i - 1) + 1] = q[i - 1]
        BY <4>1, <1>1, <1>2
      <4> QED BY <4>1, <4>2, <2>2
    <3> QED BY <3>1, <3>2
  <2> QED BY <2>1, <2>2
<1>5. IsPrefix(P, Q) <=> k = j /\ IsPrefix(p, q)
  <2>1. Len(P) <= Len(Q) <=> Len(p) <= Len(q)
    BY <1>1, <1>2
  <2>2. IsPrefix(P, Q) <=> Len(P) <= Len(Q) /\ \A i \in 1..Len(P) : P[i] = Q[i]
    BY <1>1, <1>2, PrefixDef
  <2>3. IsPrefix(p, q) <=> Len(p) <= Len(q) /\ \A i \in 1..Len(p) : p[i] = q[i]
    BY PrefixDef
  <2> QED BY <2>1, <2>2, <2>3, <1>4
<1>6. P = Q <=> k = j /\ p = q
  <2>1. Len(P) = Len(Q) <=> Len(p) = Len(q)
    BY <1>1, <1>2
  <2>2. P = Q <=> Len(P) = Len(Q) /\ \A i \in 1..Len(P) : P[i] = Q[i]
    BY <1>1, <1>2, PathEqual
  <2>3. p = q <=> Len(p) = Len(q) /\ \A i \in 1..Len(p) : p[i] = q[i]
    BY PathEqual
  <2> QED BY <2>1, <2>2, <2>3, <1>4, <1>1, <1>2
<1>7. IsPrefix(<<>>, q)
  BY <1>2, <1>3, PrefixDef
<1>8. ~IsPrefix(P, <<>>) /\ P # <<>>
  BY <1>1, <1>3, PrefixDef
<1>9. IsPrefix(p, <<>>) => p = <<>>
  BY <1>1, <1>3, PrefixDef, PathEqual
<1> QED BY <1>5, <1>6, <1>7, <1>8, <1>9 DEF P, Q
-----------------------------------------------------------------------------
(* Levels.                                                                 *)

\* The nodes are pairs of a path and a tree.
LEMMA LevelPairs ==
    ASSUME NEW t
    PROVE  \A n \in Nat : \A b \in Level(t)[n] : b = <<b[1], b[2]>> /\ IsPath(b[1])
<1> DEFINE S == {n \in Nat : \A b \in Level(t)[n] : b = <<b[1], b[2]>> /\ IsPath(b[1])}
<1>1. 0 \in S
  <2>1. IsPath(<<>>)
    BY EmptySeq DEF IsPath
  <2> QED BY <2>1, LevelDef
<1>2. ASSUME NEW n \in Nat, n \in S PROVE n + 1 \in S
  <2>1. SUFFICES ASSUME NEW c \in Level(t)[n + 1] PROVE c = <<c[1], c[2]>> /\ IsPath(c[1])
    OBVIOUS
  <2>2. PICK b \in Level(t)[n] : c \in NodesBelow(b)
    BY <2>1, LevelDef
  <2>3. PICK k \in Keys(b[2]) : c = <<Append(b[1], k), Get(b[2], k)>>
    BY <2>2 DEF NodesBelow
  <2>4. IsPath(Append(b[1], k))
    BY <1>2, ConsAppend
  <2> QED BY <2>3, <2>4
<1> HIDE DEF S
<1>3. \A n \in Nat : n \in S
  BY <1>1, <1>2, Induction
<1> QED BY <1>3 DEF S

\* The nodes below the root, by the key at which they begin.
LEMMA LevelByKey ==
    ASSUME NEW t
    PROVE  \A n \in Nat :
               Level(t)[n + 1] = UNION {Under(k, Level(Get(t, k))[n]) : k \in Keys(t)}
<1> DEFINE Split(n) == UNION {Under(k, Level(Get(t, k))[n]) : k \in Keys(t)}
           S == {n \in Nat : Level(t)[n + 1] = Split(n)}
<1>1. 0 \in S
  <2>1. Level(t)[0 + 1] = NodesBelow(<< <<>>, t >>)
    <3>1. Level(t)[0] = {<< <<>>, t >>}
            /\ Level(t)[0 + 1] = UNION {NodesBelow(b) : b \in Level(t)[0]}
      BY LevelDef
    <3> QED BY <3>1
  <2>2. \A k : Append(<<>>, k) = Cons(k, <<>>)
    BY DEF Cons
  <2>3. NodesBelow(<< <<>>, t >>) = {<<Append(<<>>, k), Get(t, k)>> : k \in Keys(t)}
    <3>1. \A u : << <<>>, u >>[1] = <<>> /\ << <<>>, u >>[2] = u
      OBVIOUS
    <3> QED BY <3>1 DEF NodesBelow
  <2>4. ASSUME NEW k \in Keys(t)
        PROVE  Under(k, Level(Get(t, k))[0]) = {<<Cons(k, <<>>), Get(t, k)>>}
    <3> DEFINE r == << <<>>, Get(t, k)>>
    <3>1. Level(Get(t, k))[0] = {r}
      BY LevelDef
    <3>2. r[1] = <<>> /\ r[2] = Get(t, k)
      OBVIOUS
    <3> HIDE DEF r
    <3>3. Under(k, {r}) = {<<Cons(k, r[1]), r[2]>>}
      BY DEF Under
    <3> QED BY <3>1, <3>2, <3>3
  <2>5. Split(0) = {<<Cons(k, <<>>), Get(t, k)>> : k \in Keys(t)}
    BY <2>4
  <2>6. Level(t)[0 + 1] = Split(0)
    BY <2>1, <2>2, <2>3, <2>5
  <2> QED BY <2>6
<1>2. ASSUME NEW n \in Nat, n \in S PROVE n + 1 \in S
  <2>1. Level(t)[(n + 1) + 1] = UNION {NodesBelow(b) : b \in Level(t)[n + 1]}
    <3>1. n + 1 \in Nat
      OBVIOUS
    <3> HIDE DEF S, Split
    <3> QED BY <3>1, LevelDef
  <2>2. \A k : Level(Get(t, k))[n + 1] = UNION {NodesBelow(b) : b \in Level(Get(t, k))[n]}
    BY LevelDef
  <2>3. ASSUME NEW k, NEW b \in Level(Get(t, k))[n]
        PROVE  NodesBelow(<<Cons(k, b[1]), b[2]>>) = Under(k, NodesBelow(b))
    <3>1. IsPath(b[1])
      BY LevelPairs
    <3>2. \A j : Append(Cons(k, b[1]), j) = Cons(k, Append(b[1], j))
      BY <3>1, ConsAppend
    <3> DEFINE c == <<Cons(k, b[1]), b[2]>>
    <3>3. c[1] = Cons(k, b[1]) /\ c[2] = b[2]
      OBVIOUS
    <3> HIDE DEF c
    <3>4. NodesBelow(c) = {<<Cons(k, Append(b[1], j)), Get(b[2], j)>> : j \in Keys(b[2])}
      BY <3>2, <3>3 DEF NodesBelow
    <3>5. Under(k, NodesBelow(b)) = {<<Cons(k, Append(b[1], j)), Get(b[2], j)>> : j \in Keys(b[2])}
      <4> DEFINE a(j) == <<Append(b[1], j), Get(b[2], j)>>
      <4>1. \A j : a(j)[1] = Append(b[1], j) /\ a(j)[2] = Get(b[2], j)
        OBVIOUS
      <4>2. NodesBelow(b) = {a(j) : j \in Keys(b[2])}
        BY DEF NodesBelow
      <4> HIDE DEF a
      <4>3. Under(k, NodesBelow(b)) = {<<Cons(k, a(j)[1]), a(j)[2]>> : j \in Keys(b[2])}
        BY <4>2 DEF Under
      <4> QED BY <4>1, <4>3
    <3>6. NodesBelow(c) = Under(k, NodesBelow(b))
      BY <3>4, <3>5
    <3> QED BY <3>6 DEF c
  <2>4. ASSUME NEW c PROVE c \in Level(t)[(n + 1) + 1] <=> c \in Split(n + 1)
    <3>1. ASSUME c \in Level(t)[(n + 1) + 1] PROVE c \in Split(n + 1)
      <4>1. PICK a \in Level(t)[n + 1] : c \in NodesBelow(a)
        BY <2>1, <3>1
      <4>2. PICK k \in Keys(t) : a \in Under(k, Level(Get(t, k))[n])
        BY <4>1, <1>2
      <4>3. PICK b \in Level(Get(t, k))[n] : a = <<Cons(k, b[1]), b[2]>>
        BY <4>2 DEF Under
      <4>4. c \in Under(k, NodesBelow(b))
        BY <4>1, <4>3, <2>3
      <4>5. c \in Under(k, Level(Get(t, k))[n + 1])
        BY <4>4, <2>2 DEF Under
      <4> QED BY <4>5
    <3>2. ASSUME c \in Split(n + 1) PROVE c \in Level(t)[(n + 1) + 1]
      <4>1. PICK k \in Keys(t) : c \in Under(k, Level(Get(t, k))[n + 1])
        BY <3>2
      <4>2. PICK a \in Level(Get(t, k))[n + 1] : c = <<Cons(k, a[1]), a[2]>>
        BY <4>1 DEF Under
      <4>3. PICK b \in Level(Get(t, k))[n] : a \in NodesBelow(b)
        BY <4>2, <2>2
      <4>4. c \in NodesBelow(<<Cons(k, b[1]), b[2]>>)
        BY <4>2, <4>3, <2>3 DEF Under
      <4>5. <<Cons(k, b[1]), b[2]>> \in Level(t)[n + 1]
        BY <1>2, <4>3 DEF Under
      <4> QED BY <4>4, <4>5, <2>1
    <3> QED BY <3>1, <3>2
  <2>5. Level(t)[(n + 1) + 1] = Split(n + 1)
    <3> HIDE DEF Split
    <3> QED BY <2>4
  <2> QED BY <2>5
<1>3. \A n \in Nat : n \in S
  <2> HIDE DEF S
  <2> QED BY <1>1, <1>2, Induction
<1> QED BY <1>3

\* All leaves of t, however deep.
AllLeaves(t) == {b \in UNION {Level(t)[n] : n \in Nat} : Keys(b[2]) = {}}

\* Below an empty level there is nothing.
LEMMA LevelsEnd ==
    ASSUME NEW t, NEW n \in Nat, Level(t)[n] = {}
    PROVE  \A m \in Nat : m >= n => Level(t)[m] = {}
<1> DEFINE S == {m \in Nat : m >= n => Level(t)[m] = {}}
<1>1. 0 \in S
  OBVIOUS
<1>2. ASSUME NEW m \in Nat, m \in S PROVE m + 1 \in S
  <2>1. CASE m >= n
    BY <1>2, <2>1, LevelDef
  <2>2. CASE ~(m >= n)
    BY <2>2
  <2> QED BY <2>1, <2>2
<1> HIDE DEF S
<1>3. \A m \in Nat : m \in S
  BY <1>1, <1>2, Induction
<1> QED BY <1>3 DEF S

\* The leaves down to Depth are all leaves of a tree that is not deeper.
LEMMA LeavesAreAll ==
    ASSUME NEW t, Depth \in Nat, Level(t)[Depth + 1] = {}
    PROVE  Leaves(t) = AllLeaves(t)
<1>1. \A n \in Nat : n \notin 0..Depth => Level(t)[n] = {}
  BY LevelsEnd
<1>2. Nodes(t) = UNION {Level(t)[n] : n \in Nat}
  BY <1>1 DEF Nodes
<1> QED BY <1>2 DEF Leaves, AllLeaves

\* A value or an empty mapping is its own leaf.
LEMMA LeavesOfLeaf ==
    ASSUME NEW t, Keys(t) = {}
    PROVE  AllLeaves(t) = {<< <<>>, t >>}
<1>1. Level(t)[0] = {<< <<>>, t >>}
  BY LevelDef
<1>2. Level(t)[0 + 1] = {}
  BY LevelByKey
<1>3. \A n \in Nat : n # 0 => Level(t)[n] = {}
  BY <1>2, LevelsEnd
<1>4. UNION {Level(t)[n] : n \in Nat} = {<< <<>>, t >>}
  BY <1>1, <1>3
<1> QED BY <1>4 DEF AllLeaves

\* The leaves of a mapping are those of what it holds.
LEMMA LeavesByKey ==
    ASSUME NEW t, Keys(t) # {}
    PROVE  AllLeaves(t) = UNION {Under(k, AllLeaves(Get(t, k))) : k \in Keys(t)}
<1>1. ASSUME NEW c \in AllLeaves(t) PROVE \E k \in Keys(t) : c \in Under(k, AllLeaves(Get(t, k)))
  <2>1. PICK n \in Nat : c \in Level(t)[n]
    BY <1>1 DEF AllLeaves
  <2>2. n # 0
    BY <1>1, <2>1, LevelDef DEF AllLeaves
  <2>3. n - 1 \in Nat /\ (n - 1) + 1 = n
    BY <2>2
  <2>4. PICK k \in Keys(t) : c \in Under(k, Level(Get(t, k))[n - 1])
    BY <2>1, <2>3, LevelByKey
  <2>5. PICK b \in Level(Get(t, k))[n - 1] : c = <<Cons(k, b[1]), b[2]>>
    BY <2>4 DEF Under
  <2>6. b \in AllLeaves(Get(t, k))
    BY <1>1, <2>3, <2>5 DEF AllLeaves
  <2> QED BY <2>5, <2>6 DEF Under
<1>2. ASSUME NEW k \in Keys(t), NEW c \in Under(k, AllLeaves(Get(t, k))) PROVE c \in AllLeaves(t)
  <2>1. PICK b \in AllLeaves(Get(t, k)) : c = <<Cons(k, b[1]), b[2]>>
    BY <1>2 DEF Under
  <2>2. PICK n \in Nat : b \in Level(Get(t, k))[n]
    BY <2>1 DEF AllLeaves
  <2>3. c \in Level(t)[n + 1]
    BY <2>1, <2>2, LevelByKey DEF Under
  <2> QED BY <2>1, <2>3 DEF AllLeaves
<1> QED BY <1>1, <1>2

\* A leaf is a path and what lies at its end.
LEMMA LeafPaths ==
    ASSUME NEW t, NEW b \in AllLeaves(t)
    PROVE  b = <<b[1], b[2]>> /\ IsPath(b[1])
BY LevelPairs DEF AllLeaves

\* What a tree of n + 1 levels holds has n levels.
LEMMA LowerBelow ==
    ASSUME NEW t, NEW n \in Nat
    PROVE  Level(t)[n + 1] = {} <=> \A k \in Keys(t) : Level(Get(t, k))[n] = {}
<1>1. \A k, B : Under(k, B) = {} <=> B = {}
  BY DEF Under
<1> QED BY <1>1, LevelByKey

\* A node of a tree is no deeper than the tree.
LEMMA NoHigher ==
    ASSUME NEW t, NEW m \in Nat, Level(t)[m] = {}
    PROVE  \A n \in Nat : \A b \in Level(t)[n] : Level(b[2])[m] = {}
<1> DEFINE S == {n \in Nat : \A b \in Level(t)[n] : Level(b[2])[m] = {}}
<1>1. 0 \in S
  <2>1. << <<>>, t >>[2] = t
    OBVIOUS
  <2> QED BY <2>1, LevelDef
<1>2. ASSUME NEW n \in Nat, n \in S PROVE n + 1 \in S
  <2>1. SUFFICES ASSUME NEW c \in Level(t)[n + 1] PROVE Level(c[2])[m] = {}
    OBVIOUS
  <2>2. PICK b \in Level(t)[n] : c \in NodesBelow(b)
    BY <2>1, LevelDef
  <2>3. PICK k \in Keys(b[2]) : c = <<Append(b[1], k), Get(b[2], k)>>
    BY <2>2 DEF NodesBelow
  <2>4. Level(b[2])[m + 1] = {}
    <3>1. Level(b[2])[m] = {}
      BY <1>2
    <3> QED BY <3>1, LevelsEnd
  <2>5. Level(Get(b[2], k))[m] = {}
    BY <2>4, LowerBelow
  <2> QED BY <2>3, <2>5
<1> HIDE DEF S
<1>3. \A n \in Nat : n \in S
  BY <1>1, <1>2, Induction
<1> QED BY <1>3 DEF S

\* Every tree of finite depth has a leaf.
LEMMA HasLeaf ==
    \A n \in Nat : \A t : Level(t)[n] = {} => AllLeaves(t) # {}
<1> DEFINE S == {n \in Nat : \A t : Level(t)[n] = {} => AllLeaves(t) # {}}
<1>1. 0 \in S
  <2>1. \A t : Level(t)[0] # {}
    BY LevelDef
  <2> QED BY <2>1
<1>2. ASSUME NEW n \in Nat, n \in S PROVE n + 1 \in S
  <2>1. SUFFICES ASSUME NEW t, Level(t)[n + 1] = {} PROVE AllLeaves(t) # {}
    OBVIOUS
  <2>2. CASE Keys(t) = {}
    BY <2>2, LeavesOfLeaf
  <2>3. CASE Keys(t) # {}
    <3>1. PICK k \in Keys(t) : TRUE
      BY <2>3
    <3>2. Level(Get(t, k))[n] = {}
      BY <2>1, LowerBelow
    <3>3. AllLeaves(Get(t, k)) # {}
      BY <1>2, <3>2
    <3>4. Under(k, AllLeaves(Get(t, k))) # {}
      BY <3>3 DEF Under
    <3> QED BY <2>3, <3>4, LeavesByKey
  <2> QED BY <2>2, <2>3
<1> HIDE DEF S
<1>3. \A n \in Nat : n \in S
  BY <1>1, <1>2, Induction
<1> QED BY <1>3 DEF S
-----------------------------------------------------------------------------
(* deep_update.                                                            *)

\* p is neither above nor below a path of B.
Clear(p, B) == \A x \in B : ~IsPrefix(p, x[1]) /\ ~IsPrefix(x[1], p)

\* Overridden and Incompatible of Config, of all leaves.
AllOverridden(s, o) == AllLeaves(o) \cup {b \in AllLeaves(s) : Clear(b[1], AllLeaves(o))}

AllIncompatible(s, o) ==
    \E b \in AllLeaves(s), x \in AllLeaves(o) :
        ~IsMapping(b[2]) /\ b[1] # x[1] /\ IsPrefix(b[1], x[1])

\* The empty mapping, which source.get gives for a key that is missing.
LEMMA LeavesOfEmpty ==
    IsMapping(EmptyMapping) /\ Keys(EmptyMapping) = {}
        /\ AllLeaves(EmptyMapping) = {<< <<>>, EmptyMapping >>}
<1>1. IsMapping(EmptyMapping) /\ Keys(EmptyMapping) = {}
  BY DEF IsMapping, EmptyMapping, Mapping, Keys
<1> QED BY <1>1, LeavesOfLeaf

\* A leaf among the overrides takes the place of whatever is there.
LEMMA OverriddenByLeaf ==
    ASSUME NEW s, NEW o, Keys(o) = {}
    PROVE  AllOverridden(s, o) = AllLeaves(o) /\ ~AllIncompatible(s, o)
<1>1. AllLeaves(o) = {<< <<>>, o >>}
  BY LeavesOfLeaf
<1>2. ASSUME NEW b \in AllLeaves(s) PROVE ~Clear(b[1], AllLeaves(o))
  <2>1. IsPrefix(<<>>, b[1])
    BY LeafPaths, ConsPrefix
  <2> QED BY <2>1, <1>1 DEF Clear
<1>3. ASSUME NEW b \in AllLeaves(s), NEW x \in AllLeaves(o), IsPrefix(b[1], x[1]) PROVE b[1] = x[1]
  <2>1. x[1] = <<>>
    BY <1>1
  <2>2. IsPath(b[1]) /\ IsPrefix(b[1], <<>>)
    BY <2>1, <1>3, LeafPaths
  <2>3. b[1] = <<>>
    BY <2>2, ConsPrefix
  <2> QED BY <2>1, <2>3
<1> QED BY <1>2, <1>3 DEF AllOverridden, AllIncompatible

\* Only the overrides below the same key can be above or below a path.
LEMMA ClearByKey ==
    ASSUME NEW o, NEW k, NEW p, IsPath(p), Keys(o) # {}
    PROVE  /\ k \notin Keys(o) => Clear(Cons(k, p), AllLeaves(o))
           /\ k \in Keys(o) => (Clear(Cons(k, p), AllLeaves(o)) <=> Clear(p, AllLeaves(Get(o, k))))
<1>1. AllLeaves(o) = UNION {Under(j, AllLeaves(Get(o, j))) : j \in Keys(o)}
  BY LeavesByKey
<1>2. ASSUME NEW j \in Keys(o), NEW y \in AllLeaves(Get(o, j))
      PROVE  /\ IsPrefix(Cons(k, p), Cons(j, y[1])) <=> k = j /\ IsPrefix(p, y[1])
             /\ IsPrefix(Cons(j, y[1]), Cons(k, p)) <=> k = j /\ IsPrefix(y[1], p)
  BY LeafPaths, ConsPrefix
<1>3. ASSUME k \notin Keys(o), NEW x \in AllLeaves(o)
      PROVE  ~IsPrefix(Cons(k, p), x[1]) /\ ~IsPrefix(x[1], Cons(k, p))
  <2>1. PICK j, y : j \in Keys(o) /\ y \in AllLeaves(Get(o, j)) /\ x = <<Cons(j, y[1]), y[2]>>
    BY <1>1, <1>3 DEF Under
  <2> QED BY <2>1, <1>2, <1>3
<1>4. ASSUME k \in Keys(o), Clear(Cons(k, p), AllLeaves(o)), NEW y \in AllLeaves(Get(o, k))
      PROVE  ~IsPrefix(p, y[1]) /\ ~IsPrefix(y[1], p)
  <2>1. <<Cons(k, y[1]), y[2]>> \in AllLeaves(o)
    BY <1>1, <1>4 DEF Under
  <2> QED BY <2>1, <1>2, <1>4 DEF Clear
<1>5. ASSUME k \in Keys(o), Clear(p, AllLeaves(Get(o, k))), NEW x \in AllLeaves(o)
      PROVE  ~IsPrefix(Cons(k, p), x[1]) /\ ~IsPrefix(x[1], Cons(k, p))
  <2>1. PICK j, y : j \in Keys(o) /\ y \in AllLeaves(Get(o, j)) /\ x = <<Cons(j, y[1]), y[2]>>
    BY <1>1, <1>5 DEF Under
  <2> QED BY <2>1, <1>2, <1>5 DEF Clear
<1> QED BY <1>3, <1>4, <1>5 DEF Clear

\* Merged key by key, the leaves are those that deep_update should leave.
LEMMA OverriddenByKey ==
    ASSUME NEW s, NEW o, NEW m, IsMapping(s), Keys(o) # {}, AllLeaves(o) # {},
           \A k \in Keys(o) : AllLeaves(Get(o, k)) # {},
           Keys(m) = Keys(o) \cup Keys(s),
           \A k \in Keys(o) : AllLeaves(Get(m, k)) = AllOverridden(Child(s, k), Get(o, k)),
           \A k \in Keys(s) \ Keys(o) : Get(m, k) = Get(s, k)
    PROVE  AllLeaves(m) = AllOverridden(s, o)
<1>1. /\ AllLeaves(m) = UNION {Under(k, AllLeaves(Get(m, k))) : k \in Keys(m)}
      /\ AllLeaves(o) = UNION {Under(k, AllLeaves(Get(o, k))) : k \in Keys(o)}
  BY LeavesByKey
<1>2. Keys(s) # {} => AllLeaves(s) = UNION {Under(k, AllLeaves(Get(s, k))) : k \in Keys(s)}
  BY LeavesByKey
<1>3. ASSUME NEW x \in AllLeaves(m) PROVE x \in AllOverridden(s, o)
  <2>1. PICK k, y : k \in Keys(m) /\ y \in AllLeaves(Get(m, k)) /\ x = <<Cons(k, y[1]), y[2]>>
    BY <1>1, <1>3 DEF Under
  <2>2. IsPath(y[1]) /\ x[1] = Cons(k, y[1])
    BY <2>1, LeafPaths
  <2>3. CASE k \in Keys(o) /\ y \in AllLeaves(Get(o, k))
    <3>1. x \in Under(k, AllLeaves(Get(o, k)))
      BY <2>1, <2>3 DEF Under
    <3> QED BY <3>1, <2>3, <1>1 DEF AllOverridden
  <2>4. CASE k \in Keys(o) /\ y \notin AllLeaves(Get(o, k))
    <3>1. y \in AllLeaves(Child(s, k)) /\ Clear(y[1], AllLeaves(Get(o, k)))
      BY <2>1, <2>4 DEF AllOverridden
    <3>2. k \in Keys(s)
      <4>1. SUFFICES ASSUME k \notin Keys(s) PROVE FALSE
        OBVIOUS
      <4>2. y[1] = <<>>
        BY <3>1, <4>1, LeavesOfEmpty DEF Child
      <4>3. PICK z \in AllLeaves(Get(o, k)) : TRUE
        BY <2>4
      <4>4. IsPrefix(<<>>, z[1])
        BY LeafPaths, ConsPrefix
      <4> QED BY <4>2, <4>4, <3>1 DEF Clear
    <3>3. x \in Under(k, AllLeaves(Get(s, k)))
      BY <2>1, <3>1, <3>2 DEF Under, Child
    <3>4. x \in AllLeaves(s)
      BY <3>2, <3>3, <1>2
    <3>5. Clear(x[1], AllLeaves(o))
      BY <2>2, <2>4, <3>1, ClearByKey
    <3> QED BY <3>4, <3>5 DEF AllOverridden
  <2>5. CASE k \notin Keys(o)
    <3>1. k \in Keys(s) /\ y \in AllLeaves(Get(s, k))
      BY <2>1, <2>5
    <3>2. x \in Under(k, AllLeaves(Get(s, k)))
      BY <2>1, <3>1 DEF Under
    <3>3. x \in AllLeaves(s)
      BY <3>1, <3>2, <1>2
    <3>4. Clear(x[1], AllLeaves(o))
      BY <2>2, <2>5, ClearByKey
    <3> QED BY <3>3, <3>4 DEF AllOverridden
  <2> QED BY <2>3, <2>4, <2>5
<1>4. ASSUME NEW x \in AllLeaves(o) PROVE x \in AllLeaves(m)
  <2>1. PICK k \in Keys(o) : x \in Under(k, AllLeaves(Get(o, k)))
    BY <1>1, <1>4
  <2>2. x \in Under(k, AllLeaves(Get(m, k)))
    BY <2>1 DEF Under, AllOverridden
  <2> QED BY <2>1, <2>2, <1>1
<1>5. ASSUME NEW x \in AllLeaves(s), Clear(x[1], AllLeaves(o)) PROVE x \in AllLeaves(m)
  <2>1. Keys(s) # {}
    <3>1. SUFFICES ASSUME Keys(s) = {} PROVE FALSE
      OBVIOUS
    <3>2. x[1] = <<>>
      BY <3>1, <1>5, LeavesOfLeaf
    <3>3. PICK z \in AllLeaves(o) : TRUE
      OBVIOUS
    <3>4. IsPrefix(<<>>, z[1])
      BY LeafPaths, ConsPrefix
    <3> QED BY <3>2, <3>4, <1>5 DEF Clear
  <2>2. PICK k, y : k \in Keys(s) /\ y \in AllLeaves(Get(s, k)) /\ x = <<Cons(k, y[1]), y[2]>>
    BY <1>2, <1>5, <2>1 DEF Under
  <2>3. IsPath(y[1]) /\ x[1] = Cons(k, y[1])
    BY <2>2, LeafPaths
  <2>4. y \in AllLeaves(Get(m, k))
    <3>1. CASE k \in Keys(o)
      <4>1. Clear(y[1], AllLeaves(Get(o, k)))
        BY <2>3, <3>1, <1>5, ClearByKey
      <4>2. y \in AllLeaves(Child(s, k))
        BY <2>2 DEF Child
      <4> QED BY <3>1, <4>1, <4>2 DEF AllOverridden
    <3>2. CASE k \notin Keys(o)
      BY <2>2, <3>2
    <3> QED BY <3>1, <3>2
  <2>5. x \in Under(k, AllLeaves(Get(m, k)))
    BY <2>2, <2>4 DEF Under
  <2> QED BY <2>2, <2>5, <1>1
<1> QED BY <1>3, <1>4, <1>5 DEF AllOverridden

\* An override is inside a value exactly if one below some key is.
LEMMA IncompatibleByKey ==
    ASSUME NEW s, NEW o, IsMapping(s), Keys(o) # {}
    PROVE  AllIncompatible(s, o) <=> \E k \in Keys(o) : AllIncompatible(Child(s, k), Get(o, k))
<1>1. AllLeaves(o) = UNION {Under(k, AllLeaves(Get(o, k))) : k \in Keys(o)}
  BY LeavesByKey
<1>2. Keys(s) # {} => AllLeaves(s) = UNION {Under(k, AllLeaves(Get(s, k))) : k \in Keys(s)}
  BY LeavesByKey
<1>3. ASSUME AllIncompatible(s, o) PROVE \E k \in Keys(o) : AllIncompatible(Child(s, k), Get(o, k))
  <2>1. PICK b \in AllLeaves(s), x \in AllLeaves(o) :
            ~IsMapping(b[2]) /\ b[1] # x[1] /\ IsPrefix(b[1], x[1])
    BY <1>3 DEF AllIncompatible
  <2>2. Keys(s) # {}
    BY <2>1, LeavesOfLeaf
  <2>3. PICK k, c : k \in Keys(s) /\ c \in AllLeaves(Get(s, k)) /\ b = <<Cons(k, c[1]), c[2]>>
    BY <2>2, <1>2 DEF Under
  <2>4. PICK j, y : j \in Keys(o) /\ y \in AllLeaves(Get(o, j)) /\ x = <<Cons(j, y[1]), y[2]>>
    BY <1>1 DEF Under
  <2>5. IsPath(c[1]) /\ IsPath(y[1])
    BY <2>3, <2>4, LeafPaths
  <2>6. k = j /\ IsPrefix(c[1], y[1]) /\ c[1] # y[1]
    BY <2>1, <2>3, <2>4, <2>5, ConsPrefix
  <2>7. AllIncompatible(Child(s, k), Get(o, k))
    BY <2>1, <2>3, <2>4, <2>6 DEF AllIncompatible, Child
  <2> QED BY <2>4, <2>6, <2>7
<1>4. ASSUME NEW k \in Keys(o), AllIncompatible(Child(s, k), Get(o, k)) PROVE AllIncompatible(s, o)
  <2>1. PICK c \in AllLeaves(Child(s, k)), y \in AllLeaves(Get(o, k)) :
            ~IsMapping(c[2]) /\ c[1] # y[1] /\ IsPrefix(c[1], y[1])
    BY <1>4 DEF AllIncompatible
  <2>2. k \in Keys(s)
    BY <2>1, LeavesOfEmpty DEF Child
  <2>3. IsPath(c[1]) /\ IsPath(y[1])
    BY LeafPaths
  <2> DEFINE b == <<Cons(k, c[1]), c[2]>>
             x == <<Cons(k, y[1]), y[2]>>
  <2>4. b \in AllLeaves(s) /\ x \in AllLeaves(o)
    BY <2>1, <2>2, <1>1, <1>2 DEF Under, Child
  <2>5. b[1] # x[1] /\ IsPrefix(b[1], x[1]) /\ ~IsMapping(b[2])
    BY <2>1, <2>3, ConsPrefix
  <2> HIDE DEF b, x
  <2> QED BY <2>4, <2>5 DEF AllIncompatible
<1> QED BY <1>3, <1>4
\* What deep_update should be, of all leaves.
RightMerge(s, o, m) ==
    IF Keys(o) = {} THEN m = IF IsMapping(o) THEN s ELSE Uncaught
    ELSE IF AllIncompatible(s, o) THEN m = Uncaught
    ELSE m # Uncaught /\ AllLeaves(m) = AllOverridden(s, o)

\* One call of deep_update (package.py), given that the calls it makes are right.
LEMMA CallIsRight ==
    ASSUME NEW s, NEW o, NEW n \in Nat, IsMapping(s), IsMapping(o), Keys(o) # {},
           Level(s)[n + 1] = {}, Level(o)[n + 1] = {}, n # 0,
           \A k \in Keys(s) : Get(s, k) # Uncaught,
           \A k \in Keys(o) : Get(o, k) # Uncaught,
           \A k \in Keys(o) :
               /\ RightMerge(Child(s, k), Get(o, k), Merge(Child(s, k), Get(o, k)))
               /\ Merge(Child(s, k), Get(o, k)) # Uncaught =>
                      Level(Merge(Child(s, k), Get(o, k)))[n] = {}
    PROVE  /\ RightMerge(s, o, deep_update(s, o))
           /\ deep_update(s, o) # Uncaught => Level(deep_update(s, o))[n + 1] = {}
<1> DEFINE m == Mapping([k \in Keys(o) \cup Keys(s) |->
                           IF k \notin Keys(o) THEN Get(s, k)
                           ELSE IF Keys(Get(o, k)) = {} THEN Get(o, k)
                           ELSE Merge(Child(s, k), Get(o, k))])
<1>1. deep_update(s, o) = Passing(m)
  BY DEF deep_update, Updated, Nested
<1>2. /\ IsMapping(m) /\ m # Uncaught
      /\ Keys(m) = Keys(o) \cup Keys(s)
  BY DEF IsMapping, Mapping, Uncaught, Keys
<1>3. /\ \A k \in Keys(s) \ Keys(o) : Get(m, k) = Get(s, k)
      /\ \A k \in Keys(o) :
            /\ Keys(Get(o, k)) = {} => Get(m, k) = Get(o, k)
            /\ Keys(Get(o, k)) # {} => Get(m, k) = Merge(Child(s, k), Get(o, k))
  <2>1. \A f, k : Get(Mapping(f), k) = f[k]
    BY DEF Get, Mapping
  <2> QED BY <2>1
<1> HIDE DEF m
<1>4. ASSUME NEW k \in Keys(o)
      PROVE  /\ Get(m, k) = Uncaught <=> AllIncompatible(Child(s, k), Get(o, k))
             /\ Get(m, k) # Uncaught =>
                   /\ AllLeaves(Get(m, k)) = AllOverridden(Child(s, k), Get(o, k))
                   /\ Level(Get(m, k))[n] = {}
  <2>1. CASE Keys(Get(o, k)) = {}
    <3>1. Get(m, k) = Get(o, k) /\ Get(m, k) # Uncaught
      BY <2>1, <1>3
    <3>2. ~AllIncompatible(Child(s, k), Get(o, k))
            /\ AllOverridden(Child(s, k), Get(o, k)) = AllLeaves(Get(o, k))
      BY <2>1, OverriddenByLeaf
    <3>3. Level(Get(o, k))[n] = {}
      BY LowerBelow
    <3> QED BY <3>1, <3>2, <3>3
  <2>2. CASE Keys(Get(o, k)) # {}
    <3>1. Get(m, k) = Merge(Child(s, k), Get(o, k))
      BY <2>2, <1>3
    <3>2. RightMerge(Child(s, k), Get(o, k), Get(m, k))
            /\ (Get(m, k) # Uncaught => Level(Get(m, k))[n] = {})
      BY <3>1
    <3> QED BY <2>2, <3>2 DEF RightMerge
  <2> QED BY <2>1, <2>2
<1>5. AllIncompatible(s, o) <=> \E k \in Keys(o) : Get(m, k) = Uncaught
  BY <1>4, IncompatibleByKey
<1>6. (\E k \in Keys(m) : Get(m, k) = Uncaught) <=> AllIncompatible(s, o)
  BY <1>2, <1>3, <1>5
<1>7. CASE AllIncompatible(s, o)
  <2>1. deep_update(s, o) = Uncaught
    BY <1>1, <1>6, <1>7 DEF Passing
  <2> QED BY <2>1, <1>7 DEF RightMerge
<1>8. CASE ~AllIncompatible(s, o)
  <2>1. deep_update(s, o) = m
    BY <1>1, <1>6, <1>8 DEF Passing
  <2>2. \A k \in Keys(o) : Get(m, k) # Uncaught
    BY <1>5, <1>8
  <2>3. AllLeaves(o) # {} /\ \A k \in Keys(o) : AllLeaves(Get(o, k)) # {}
    <3>1. ASSUME NEW k \in Keys(o) PROVE AllLeaves(Get(o, k)) # {}
      <4>1. Level(Get(o, k))[n] = {}
        BY LowerBelow
      <4> QED BY <4>1, HasLeaf
    <3>2. n + 1 \in Nat
      OBVIOUS
    <3>3. AllLeaves(o) # {}
      BY <3>2, HasLeaf
    <3> QED BY <3>1, <3>3
  <2>4. \A k \in Keys(o) : AllLeaves(Get(m, k)) = AllOverridden(Child(s, k), Get(o, k))
    BY <2>2, <1>4
  <2>5. AllLeaves(m) = AllOverridden(s, o)
    BY <2>3, <2>4, <1>2, <1>3, OverriddenByKey
  <2>6. ASSUME NEW k \in Keys(m) PROVE Level(Get(m, k))[n] = {}
    <3>1. CASE k \in Keys(o)
      BY <3>1, <2>2, <1>4
    <3>2. CASE k \notin Keys(o)
      <4>1. k \in Keys(s) /\ Get(m, k) = Get(s, k)
        BY <3>2, <1>2, <1>3
      <4> QED BY <4>1, LowerBelow
    <3> QED BY <3>1, <3>2
  <2>7. Level(m)[n + 1] = {}
    BY <2>6, LowerBelow
  <2> QED BY <2>1, <2>5, <2>7, <1>2, <1>8 DEF RightMerge
<1> QED BY <1>7, <1>8

\* deep_update is right for trees of any number of levels, by induction on them.
LEMMA MergeOfAll ==
    ASSUME NEW T, EmptyMapping \in T,
           \A t \in T : t # Uncaught /\ \A k \in Keys(t) : Get(t, k) \in T,
           \A s, o \in T : Merge(s, o) = deep_update(s, o)
    PROVE  \A n \in Nat : \A s, o \in T :
               Level(s)[n + 1] = {} /\ Level(o)[n + 1] = {} =>
                   /\ RightMerge(s, o, Merge(s, o))
                   /\ Merge(s, o) # Uncaught => Level(Merge(s, o))[n + 1] = {}
<1> DEFINE Claim(n, s, o) ==
               Level(s)[n + 1] = {} /\ Level(o)[n + 1] = {} =>
                   /\ RightMerge(s, o, Merge(s, o))
                   /\ Merge(s, o) # Uncaught => Level(Merge(s, o))[n + 1] = {}
           S == {n \in Nat : \A s, o \in T : Claim(n, s, o)}
<1>1. ASSUME NEW n \in Nat, NEW s \in T, NEW o \in T, Keys(o) = {} \/ ~IsMapping(s)
      PROVE  Claim(n, s, o)
  <2>1. SUFFICES ASSUME Level(s)[n + 1] = {}, Level(o)[n + 1] = {}
                 PROVE  /\ RightMerge(s, o, Merge(s, o))
                        /\ Merge(s, o) # Uncaught => Level(Merge(s, o))[n + 1] = {}
    OBVIOUS
  <2>2. Merge(s, o) = deep_update(s, o)
    OBVIOUS
  <2>3. CASE Keys(o) = {}
    <3>1. Merge(s, o) = IF IsMapping(o) THEN s ELSE Uncaught
      BY <2>2, <2>3 DEF deep_update, Updated, Nested
    <3> QED BY <3>1, <2>1, <2>3 DEF RightMerge
  <2>4. CASE Keys(o) # {} /\ ~IsMapping(s)
    <3>1. IsMapping(o)
      BY <2>4 DEF Keys
    <3>2. Merge(s, o) = Uncaught
      BY <2>2, <2>4, <3>1 DEF deep_update, Updated, Nested
    <3>3. AllIncompatible(s, o)
      <4>1. AllLeaves(s) = {<< <<>>, s >>}
        BY <2>4, LeavesOfLeaf DEF Keys
      <4>2. PICK k \in Keys(o) : TRUE
        BY <2>4
      <4>3. Level(Get(o, k))[n] = {}
        BY <2>1, LowerBelow
      <4>4. PICK y \in AllLeaves(Get(o, k)) : TRUE
        BY <4>3, HasLeaf
      <4>5. << Cons(k, y[1]), y[2] >> \in AllLeaves(o)
        BY <2>4, LeavesByKey DEF Under
      <4>6. IsPath(y[1]) /\ IsPath(Cons(k, y[1]))
        BY LeafPaths, ConsPath
      <4>7. IsPrefix(<<>>, Cons(k, y[1]))
        BY <4>6, ConsPrefix
      <4>8. Cons(k, y[1]) # <<>>
        BY <4>6, ConsPrefix
      <4> QED BY <4>1, <4>5, <4>7, <4>8, <2>4 DEF AllIncompatible
    <3> QED BY <3>2, <3>3, <2>4 DEF RightMerge
  <2> QED BY <2>3, <2>4, <1>1
<1>2. 0 \in S
  <2>1. ASSUME NEW s \in T, NEW o \in T PROVE Claim(0, s, o)
    <3>1. CASE Keys(o) = {}
      BY <3>1, <1>1
    <3>2. CASE Keys(o) # {}
      <4>1. Level(o)[0 + 1] # {}
        <5>1. \A k : Level(Get(o, k))[0] # {}
          BY LevelDef
        <5> QED BY <5>1, <3>2, LowerBelow
      <4> QED BY <4>1
    <3> QED BY <3>1, <3>2
  <2> QED BY <2>1
<1>3. ASSUME NEW n \in Nat, n \in S PROVE n + 1 \in S
  <2>1. SUFFICES ASSUME NEW s \in T, NEW o \in T PROVE Claim(n + 1, s, o)
    OBVIOUS
  <2>2. CASE Keys(o) = {} \/ ~IsMapping(s)
    BY <2>2, <1>1
  <2>3. CASE Keys(o) # {} /\ IsMapping(s)
    <3>1. SUFFICES ASSUME Level(s)[(n + 1) + 1] = {}, Level(o)[(n + 1) + 1] = {}
                   PROVE  /\ RightMerge(s, o, Merge(s, o))
                          /\ Merge(s, o) # Uncaught => Level(Merge(s, o))[(n + 1) + 1] = {}
      OBVIOUS
    <3>2. IsMapping(o)
      BY <2>3 DEF Keys
    <3>3. ASSUME NEW k \in Keys(o)
          PROVE  /\ RightMerge(Child(s, k), Get(o, k), Merge(Child(s, k), Get(o, k)))
                 /\ Merge(Child(s, k), Get(o, k)) # Uncaught =>
                        Level(Merge(Child(s, k), Get(o, k)))[n + 1] = {}
      <4>1. Get(o, k) \in T /\ Level(Get(o, k))[n + 1] = {}
        <5>1. Get(o, k) \in T
          OBVIOUS
        <5>2. n + 1 \in Nat
          OBVIOUS
        <5>3. Level(Get(o, k))[n + 1] = {}
          <6> HIDE DEF S, Claim
          <6> QED BY <3>1, <5>2, LowerBelow
        <5> QED BY <5>1, <5>3
      <4>2. Child(s, k) \in T /\ Level(Child(s, k))[n + 1] = {}
        <5>1. CASE k \in Keys(s)
          <6>1. n + 1 \in Nat /\ Level(s)[(n + 1) + 1] = {}
            BY <3>1
          <6>2. Level(Get(s, k))[n + 1] = {}
            BY <5>1, <6>1, LowerBelow
          <6> QED BY <5>1, <6>2 DEF Child
        <5>2. CASE k \notin Keys(s)
          <6>1. Level(EmptyMapping)[n + 1] = {}
            BY LeavesOfEmpty, LowerBelow
          <6> QED BY <5>2, <6>1 DEF Child
        <5> QED BY <5>1, <5>2
      <4>3. Claim(n, Child(s, k), Get(o, k))
        BY <1>3, <4>1, <4>2
      <4> QED BY <4>1, <4>2, <4>3
    <3>4. Merge(s, o) = deep_update(s, o)
      OBVIOUS
    <3>5. /\ \A k \in Keys(s) : Get(s, k) # Uncaught
          /\ \A k \in Keys(o) : Get(o, k) # Uncaught
      OBVIOUS
    <3>6. n + 1 \in Nat /\ n + 1 # 0
      OBVIOUS
    <3>7. /\ RightMerge(s, o, deep_update(s, o))
          /\ deep_update(s, o) # Uncaught => Level(deep_update(s, o))[(n + 1) + 1] = {}
      <4> HIDE DEF S, Claim
      <4> QED BY <2>3, <3>1, <3>2, <3>3, <3>5, <3>6, CallIsRight
    <3> QED BY <3>4, <3>7
  <2> QED BY <2>2, <2>3
<1> HIDE DEF S
<1>4. \A n \in Nat : n \in S
  BY <1>2, <1>3, Induction
<1> QED BY <1>4 DEF S

\* Whatever trees deep_update (package.py) is given, no deeper than Depth: the paths of the
\* result are those of the overrides, and those of the source that no override is above or
\* below; or an override is inside a value, and an exception comes out.
THEOREM MergeRightThm ==
    ASSUME NEW T, EmptyMapping \in T, Depth \in Nat,
           \A t \in T : t # Uncaught /\ \A k \in Keys(t) : Get(t, k) \in T,
           \A s, o \in T : Merge(s, o) = deep_update(s, o),
           NEW s \in T, NEW o \in T,
           Level(s)[Depth + 1] = {}, Level(o)[Depth + 1] = {}
    PROVE  MergeIsRight(s, o, Merge(s, o))
<1> DEFINE m == Merge(s, o)
<1>1. RightMerge(s, o, m) /\ (m # Uncaught => Level(m)[Depth + 1] = {})
  BY MergeOfAll
<1>2. Leaves(s) = AllLeaves(s) /\ Leaves(o) = AllLeaves(o)
        /\ (m # Uncaught => Leaves(m) = AllLeaves(m))
  BY <1>1, LeavesAreAll
<1> HIDE DEF m
<1>3. Incompatible(s, o) <=> AllIncompatible(s, o)
  BY <1>2 DEF Incompatible, AllIncompatible
<1>4. Overridden(s, o) = AllOverridden(s, o)
  BY <1>2 DEF Overridden, AllOverridden, Clear
<1>5. Keys(o) = {} => ~AllIncompatible(s, o)
  BY OverriddenByLeaf
<1>6. MergeIsRight(s, o, m)
  BY <1>1, <1>2, <1>3, <1>4, <1>5 DEF MergeIsRight, RightMerge
<1> QED BY <1>6 DEF m
=============================================================================
