-------------------------- MODULE CollapseProofs ----------------------------
(***************************************************************************)
(* Proofs about the rounds of collapse, for the graphs of any size that    *)
(* they go through: refresh_props finds the dominators of the blocs;       *)
(* reducible tells the graphs in which every cycle has one way in, and a   *)
(* round makes such a graph of such a graph; the code of each bloc is that *)
(* of a structured program, and so is the code that is emitted.            *)
(*                                                                         *)
(* The invariant of the passes is Halfway; each update of a pass keeps it  *)
(* (UpdateKeeps) and lowers Weight (PassFacts), so that the passes end; it *)
(* gives the dominators where they do (IdomExact).                         *)
(*                                                                         *)
(* A graph is reducible iff its blocs have ranks that rise along each      *)
(* edge, those to a dominator of their origin aside (RankedIff).  Ranks of *)
(* a graph give ranks of what a merge (MergeRanked) and a funnel           *)
(* (FunnelRanked) make of it, and Followed carries them along.             *)
(*                                                                         *)
(* The code of each bloc closes what it opens and has its jumps in loops   *)
(* (Formed), and the two exits of a bloc differ (Parted): Spoken, that     *)
(* each way to rewrite the graph keeps (SequenceSpoken, IfSpoken,          *)
(* LoopSpoken, FunnelSpoken, DuplicateWorstSpoken).  In a loop, the stack  *)
(* of what is to be closed is as high as there are blocs reached and still *)
(* to come (FrontierCount), so that it is never empty, and ends empty.     *)
(***************************************************************************)
EXTENDS GraphProofs

-----------------------------------------------------------------------------
(* Functions that are defined by their steps.                              *)

\* f begins with a, and each of its values gives the next one.
NatRec(f, T, a, F) == /\ f \in [Nat -> T] /\ f[0] = a
                      /\ \A n \in Nat : f[n + 1] = F[n + 1][f[n]]

\* There is such an f.
LEMMA NatRecursion ==
  ASSUME NEW T, NEW a \in T, NEW F, \A i \in Nat : F[i] \in [T -> T]
  PROVE  \E f : NatRec(f, T, a, F)
<1>1. \A n \in Nat : \E f : Rec(f, n, T, a, F)
  BY Recursion
<1> DEFINE h(n) == CHOOSE f : Rec(f, n, T, a, F)
<1>2. ASSUME NEW n \in Nat PROVE Rec(h(n), n, T, a, F)
  BY <1>1
<1> HIDE DEF h
<1>3. PICK f : f = [n \in Nat |-> h(n)[n]]
  OBVIOUS
<1>4. f \in [Nat -> T]
  BY <1>2, <1>3 DEF Rec
<1>5. f[0] = a
  BY <1>2, <1>3 DEF Rec
<1>6. ASSUME NEW n \in Nat PROVE f[n + 1] = F[n + 1][f[n]]
  <2>1. f[n] = h(n)[n] /\ f[n + 1] = h(n + 1)[n + 1]
    BY <1>3
  <2>2. Rec(h(n), n, T, a, F) /\ Rec(h(n + 1), n + 1, T, a, F)
    BY <1>2
  <2>3. h(n)[n] = h(n + 1)[n]
    BY <2>2, RecUnique
  <2>4. h(n + 1)[n + 1] = F[n + 1][h(n + 1)[n]]
    BY <2>2, n + 1 \in 1 .. n + 1 DEF Rec
  <2> QED BY <2>1, <2>3, <2>4
<1> QED BY <1>4, <1>5, <1>6 DEF NatRec

-----------------------------------------------------------------------------
(* Trees of dominators.                                                    *)

\* The graph is one that Refresh has returned.
Ready(g) == Sane(g) /\ Rooted(g) /\ Sorted(g, g.pool)

\* The order of the blocs.
LEMMA ReadyFacts ==
  ASSUME NEW g, Ready(g)
  PROVE  LET B == Blocs(g)   ord == Ordering(g)
         IN  /\ DOMAIN ord = B /\ \A b \in B : ord[b] \in 1 .. Len(g.pool)
             /\ \A a, b \in B : ord[a] = ord[b] => a = b
             /\ entry_bloc \in B /\ ord[entry_bloc] = 1 /\ nil \notin B
             /\ \A b \in B : b # entry_bloc => ord[b] > 1
             /\ Len(g.pool) \in Nat /\ DOMAIN g.pool = 1 .. Len(g.pool)
             /\ \A i \in 1 .. Len(g.pool) : g.pool[i] \in B /\ ord[g.pool[i]] = i
             /\ \A c \in B : c # entry_bloc => \E p \in B : c \in Succ(g, p) /\ ord[p] < ord[c]
<1> DEFINE B == Blocs(g)   ord == Ordering(g)
<1>1. /\ B \subseteq Nat \ {nil} /\ entry_bloc \in B /\ Len(g.pool) \in Nat
      /\ DOMAIN g.pool = 1 .. Len(g.pool) /\ \A i \in 1 .. Len(g.pool) : g.pool[i] \in B
      /\ g.pool[1] = entry_bloc /\ Len(g.pool) # 0
  BY PoolFacts DEF Ready, Sane, Pooled
<1>2. ASSUME NEW b \in B
      PROVE  /\ ord[b] \in 1 .. Len(g.pool) /\ g.pool[ord[b]] = b
             /\ \A i \in 1 .. Len(g.pool) : g.pool[i] = b => i = ord[b]
             /\ DOMAIN ord = B
  BY OrderingFacts DEF Ready
<1> HIDE DEF ord, B
<1>3. ord[entry_bloc] = 1
  BY <1>1, <1>2
<1>4. ASSUME NEW c \in B, c # entry_bloc PROVE \E p \in B : c \in Succ(g, p) /\ ord[p] < ord[c]
  <2>1. PICK p \in B : c \in Succ(g, p) /\ Precedes(g.pool, p, c)
    BY <1>4 DEF Ready, Sorted, B
  <2>2. PICK i \in 1 .. Len(g.pool), j \in 1 .. Len(g.pool) : i < j /\ g.pool[i] = p /\ g.pool[j] = c
    BY <2>1 DEF Precedes
  <2>3. i = ord[p] /\ j = ord[c]
    BY <1>2, <2>2
  <2> QED BY <2>1, <2>2, <2>3
<1>5. ASSUME NEW b \in B, b # entry_bloc PROVE ord[b] > 1
  BY <1>1, <1>2, <1>5
<1>6. \A i \in 1 .. Len(g.pool) : g.pool[i] \in B /\ ord[g.pool[i]] = i
  BY <1>1, <1>2
<1>7. nil \notin B /\ DOMAIN ord = B
  BY <1>1, <1>2
<1>8. \A a, b \in B : ord[a] = ord[b] => a = b
  BY <1>2
<1> QED BY <1>1, <1>2, <1>3, <1>4, <1>5, <1>6, <1>7, <1>8 DEF B, ord

\* Induction along the order.
LEMMA OrderInduction ==
  ASSUME NEW B, NEW ord, \A b \in B : ord[b] \in Nat, NEW S,
         \A b \in B : (\A a \in B : ord[a] < ord[b] => a \in S) => b \in S
  PROVE  B \subseteq S
<1> DEFINE T == {k \in Nat : \A b \in B : ord[b] < k => b \in S}
<1>1. 0 \in T
  OBVIOUS
<1>2. ASSUME NEW k \in Nat, k \in T PROVE k + 1 \in T
  <2>1. ASSUME NEW b \in B, ord[b] < k + 1 PROVE b \in S
    <3>1. \A a \in B : ord[a] < ord[b] => a \in S
      BY <2>1, <1>2
    <3> QED BY <3>1
  <2> QED BY <2>1
<1>3. Nat \subseteq T
  <2> HIDE DEF T
  <2> QED BY <1>1, <1>2, Induction
<1>4. ASSUME NEW b \in B PROVE b \in S
  <2>1. ord[b] + 1 \in T /\ ord[b] < ord[b] + 1
    BY <1>3
  <2> QED BY <2>1
<1> QED BY <1>4

\* d gives some blocs an ancestor that comes before it, and has one too, up to the
\* entry.
Forest(g, d) ==
  /\ d \in [Blocs(g) -> Blocs(g) \union {nil}] /\ d[entry_bloc] = entry_bloc
  /\ \A b \in Blocs(g) : b # entry_bloc /\ d[b] # nil =>
       d[d[b]] # nil /\ Ordering(g)[d[b]] < Ordering(g)[b]

Live(g, d) == {b \in Blocs(g) : d[b] # nil}

\* The way up from b, b included.
Up(d, b) == LET up[k \in Nat] == IF k = 0 THEN b ELSE d[up[k - 1]] IN up
Line(d, b) == {Up(d, b)[k] : k \in Nat}

LEMMA UpRec ==
  ASSUME NEW g, Ready(g), NEW d, Forest(g, d), NEW b \in Live(g, d)
  PROVE  /\ Up(d, b) \in [Nat -> Live(g, d)] /\ Up(d, b)[0] = b
         /\ \A k \in Nat : Up(d, b)[k + 1] = d[Up(d, b)[k]]
<1> DEFINE T == Live(g, d)   up[k \in Nat] == IF k = 0 THEN b ELSE d[up[k - 1]]
           F == [i \in Nat |-> [x \in T |-> d[x]]]
<1>1. ASSUME NEW x \in T PROVE d[x] \in T
  <2>1. x \in Blocs(g) /\ d[x] # nil /\ d[x] \in Blocs(g)
    BY DEF Live, Forest
  <2>2. CASE x = entry_bloc
    BY <2>1, <2>2 DEF Live, Forest
  <2>3. CASE x # entry_bloc
    BY <2>1, <2>3 DEF Live, Forest
  <2> QED BY <2>2, <2>3
<1>2. \A i \in Nat : F[i] \in [T -> T]
  BY <1>1
<1>3. \A i \in Nat : \A x \in T : F[i][x] = d[x]
  OBVIOUS
<1> HIDE DEF F, T
<1>4. b \in T
  BY DEF T
<1>5a. PICK f : NatRec(f, T, b, F)
  BY <1>2, <1>4, NatRecursion
<1>5. f \in [Nat -> T] /\ f[0] = b /\ \A k \in Nat : f[k + 1] = F[k + 1][f[k]]
  BY <1>5a DEF NatRec
<1>6. ASSUME NEW k \in Nat PROVE f[k] = IF k = 0 THEN b ELSE d[f[k - 1]]
  <2>1. CASE k = 0
    BY <2>1, <1>5
  <2>2. CASE k # 0
    <3>1. k - 1 \in Nat /\ (k - 1) + 1 = k
      BY <2>2
    <3>2. f[(k - 1) + 1] = F[(k - 1) + 1][f[k - 1]]
      BY <3>1, <1>5
    <3>3. f[k - 1] \in T
      BY <3>1, <1>5
    <3> QED BY <3>1, <3>2, <3>3, <2>2, <1>3
  <2> QED BY <2>1, <2>2
<1>7. f = [k \in Nat |-> IF k = 0 THEN b ELSE d[f[k - 1]]]
  BY <1>5, <1>6
<1>8. up = [k \in Nat |-> IF k = 0 THEN b ELSE d[up[k - 1]]]
  <2> QED BY Zenon, <1>7 DEF up
<1>9. Up(d, b) = up
  BY DEF Up
<1> HIDE DEF up
<1>10. up[0] = b
  BY <1>8
<1>11. ASSUME NEW k \in Nat PROVE up[k + 1] = d[up[k]]
  <2>1. k + 1 \in Nat /\ k + 1 # 0 /\ (k + 1) - 1 = k
    OBVIOUS
  <2>2. up[k + 1] = IF k + 1 = 0 THEN b ELSE d[up[(k + 1) - 1]]
    BY <1>8, <2>1
  <2> QED BY <2>1, <2>2
<1>12. \A k \in Nat : up[k] \in T
  <2> DEFINE S == {k \in Nat : up[k] \in T}
  <2>1. 0 \in S
    BY <1>4, <1>10
  <2>2. ASSUME NEW k \in Nat, k \in S PROVE k + 1 \in S
    BY <2>2, <1>1, <1>11 DEF T
  <2> HIDE DEF S
  <2>3. Nat \subseteq S
    BY <2>1, <2>2, Induction
  <2> QED BY <2>3 DEF S
<1>13. up \in [Nat -> T]
  BY <1>8, <1>12
<1> QED BY <1>9, <1>10, <1>11, <1>13 DEF T

\* The line of b is b and the line of the bloc that d gives it.
LEMMA LineRec ==
  ASSUME NEW g, Ready(g), NEW d, Forest(g, d), NEW b \in Live(g, d)
  PROVE  /\ b \in Line(d, b) /\ Line(d, b) \subseteq Live(g, d)
         /\ b = entry_bloc => Line(d, b) = {b}
         /\ b # entry_bloc => d[b] \in Live(g, d) /\ Line(d, b) = {b} \cup Line(d, d[b])
<1> DEFINE u == Up(d, b)   c == d[b]   v == Up(d, c)
<1>1. u \in [Nat -> Live(g, d)] /\ u[0] = b /\ \A k \in Nat : u[k + 1] = d[u[k]]
  BY UpRec
<1>2. c \in Live(g, d)
  <2>1. c = u[0 + 1] /\ 0 + 1 \in Nat
    BY <1>1
  <2> HIDE DEF u, c
  <2> QED BY <2>1, <1>1
<1>3. v \in [Nat -> Live(g, d)] /\ v[0] = c /\ \A k \in Nat : v[k + 1] = d[v[k]]
  <2> HIDE DEF c
  <2> QED BY <1>2, UpRec
<1>4. Line(d, b) = {u[k] : k \in Nat} /\ Line(d, c) = {v[k] : k \in Nat}
  BY DEF Line
<1> HIDE DEF u, v
<1>5. \A k \in Nat : u[k + 1] = v[k]
  <2> DEFINE S == {k \in Nat : u[k + 1] = v[k]}
  <2>1. 0 \in S
    BY <1>1, <1>3
  <2>2. ASSUME NEW k \in Nat, k \in S PROVE k + 1 \in S
    <3>1. k + 1 \in Nat /\ u[(k + 1) + 1] = d[u[k + 1]] /\ v[k + 1] = d[v[k]]
      BY <1>1, <1>3
    <3> QED BY <2>2, <3>1
  <2> HIDE DEF S
  <2>3. Nat \subseteq S
    BY <2>1, <2>2, Induction
  <2> QED BY <2>3 DEF S
<1>6. Line(d, b) = {b} \cup Line(d, c)
  <2>1. ASSUME NEW k \in Nat PROVE u[k] \in {b} \cup {v[j] : j \in Nat}
    <3>1. CASE k = 0
      BY <3>1, <1>1
    <3>2. CASE k # 0
      <4>1. k - 1 \in Nat /\ k = (k - 1) + 1
        BY <3>2
      <4>2. u[k] = v[k - 1]
        BY <4>1, <1>5
      <4> QED BY <4>1, <4>2
    <3> QED BY <3>1, <3>2
  <2>2. b = u[0] /\ \A k \in Nat : v[k] = u[k + 1] /\ k + 1 \in Nat
    BY <1>1, <1>5
  <2> QED BY <1>4, <2>1, <2>2
<1>7. ASSUME b = entry_bloc PROVE \A k \in Nat : u[k] = b
  <2> DEFINE S == {k \in Nat : u[k] = b}
  <2>1. 0 \in S
    BY <1>1
  <2>2. ASSUME NEW k \in Nat, k \in S PROVE k + 1 \in S
    <3>1. u[k + 1] = d[b]
      BY <2>2, <1>1
    <3> QED BY <2>2, <3>1, <1>7 DEF Forest
  <2> HIDE DEF S
  <2>3. Nat \subseteq S
    BY <2>1, <2>2, Induction
  <2> QED BY <2>3 DEF S
<1>8. b = entry_bloc => Line(d, b) = {b}
  <2>1. 0 \in Nat
    OBVIOUS
  <2> QED BY <1>4, <1>7, <2>1
<1>9. b \in Line(d, b) /\ Line(d, b) \subseteq Live(g, d)
  <2>1. 0 \in Nat /\ u[0] = b /\ \A k \in Nat : u[k] \in Live(g, d)
    BY <1>1
  <2> QED BY <1>4, <2>1
<1> QED BY <1>2, <1>6, <1>8, <1>9

\* What is on the line of b comes before b, and its line is part of that of b.
LEMMA LineBelow ==
  ASSUME NEW g, Ready(g), NEW d, Forest(g, d), NEW b \in Live(g, d), NEW x \in Line(d, b)
  PROVE  /\ x \in Live(g, d) /\ Line(d, x) \subseteq Line(d, b)
         /\ Ordering(g)[x] <= Ordering(g)[b] /\ (x # b => Ordering(g)[x] < Ordering(g)[b])
<1> DEFINE ord == Ordering(g)
           Below(c) == \A y \in Line(d, c) : /\ Line(d, y) \subseteq Line(d, c) /\ ord[y] <= ord[c]
                                             /\ y # c => ord[y] < ord[c]
           S == {c \in Blocs(g) : c \in Live(g, d) => Below(c)}
<1>1. \A c \in Blocs(g) : ord[c] \in Nat
  BY ReadyFacts
<1>2. Live(g, d) \subseteq Blocs(g)
  BY DEF Live
<1>3. ASSUME NEW c \in Blocs(g), \A a \in Blocs(g) : ord[a] < ord[c] => a \in S
      PROVE  c \in S
  <2> SUFFICES ASSUME c \in Live(g, d), NEW y \in Line(d, c)
               PROVE  /\ Line(d, y) \subseteq Line(d, c) /\ ord[y] <= ord[c]
                      /\ y # c => ord[y] < ord[c]
    OBVIOUS
  <2> HIDE DEF Below, S, ord
  <2>1. CASE y = c
    BY <2>1, <1>1
  <2>2. CASE y # c
    <3>1. c # entry_bloc /\ d[c] \in Live(g, d) /\ Line(d, c) = {c} \cup Line(d, d[c])
      BY <2>2, LineRec
    <3>2. ord[d[c]] < ord[c] /\ d[c] \in Blocs(g)
      BY <3>1, <1>2 DEF Forest, Live, ord
    <3>3. Below(d[c])
      BY <3>1, <3>2, <1>3 DEF S
    <3>4. y \in Line(d, d[c])
      BY <2>2, <3>1
    <3>5. Line(d, y) \subseteq Line(d, d[c]) /\ ord[y] <= ord[d[c]]
      BY <3>3, <3>4 DEF Below
    <3>6. y \in Blocs(g)
      BY <3>4, <3>1, <1>2, LineRec
    <3>7. ord[y] \in Nat /\ ord[d[c]] \in Nat /\ ord[c] \in Nat
      BY <1>1, <3>2, <3>6
    <3> QED BY <3>1, <3>2, <3>5, <3>7
  <2> QED BY <2>1, <2>2
<1>4. Blocs(g) \subseteq S
  <2> HIDE DEF S, ord
  <2> QED BY <1>1, <1>3, OrderInduction
<1>5. Below(b)
  BY <1>2, <1>4
<1>6. x \in Live(g, d)
  BY LineRec
<1> QED BY <1>5, <1>6

\* What IBloc::dominates finds is the line.
LEMMA LineDominates ==
  ASSUME NEW g, Ready(g), NEW d, Forest(g, d), NEW b \in Live(g, d), NEW a
  PROVE  Dominates(d, a, b) <=> a \in Line(d, b)
<1> DEFINE u == Up(d, b)   ord == Ordering(g)   N == Len(g.pool)
<1>1. u \in [Nat -> Live(g, d)] /\ u[0] = b /\ \A k \in Nat : u[k + 1] = d[u[k]]
  BY UpRec
<1>2. Dominates(d, a, b) <=> \E k \in 0 .. Cardinality(DOMAIN d) : u[k] = a
  BY Zenon DEF Dominates, Up
<1>3. Cardinality(DOMAIN d) = N /\ N \in Nat
  BY PoolFacts DEF Forest, Ready, Sane
<1>4. \A c \in Live(g, d) : ord[c] \in 1 .. N /\ c \in Blocs(g)
  BY ReadyFacts DEF Live
<1>5. Line(d, b) = {u[k] : k \in Nat}
  BY DEF Line
<1>6. \A c \in Live(g, d) : c # entry_bloc => ord[d[c]] < ord[c]
  BY DEF Forest, Live
<1>7. d[entry_bloc] = entry_bloc
  BY DEF Forest
<1> HIDE DEF u, ord, N
<1> DEFINE At(k) == \E j \in Nat : j <= ord[b] - ord[u[k]] /\ u[j] = u[k]
           S == {k \in Nat : At(k)}
<1>8. b \in Live(g, d) /\ ord[b] \in 1 .. N
  BY <1>4
<1>9. 0 \in S
  BY <1>1, <1>8
<1>10. ASSUME NEW k \in Nat, k \in S PROVE k + 1 \in S
  <2>1. PICK j \in Nat : j <= ord[b] - ord[u[k]] /\ u[j] = u[k]
    BY <1>10
  <2>2. u[k + 1] = d[u[k]] /\ u[j + 1] = d[u[k]] /\ u[k] \in Live(g, d) /\ u[k + 1] \in Live(g, d)
    BY <1>1, <2>1
  <2>3. ord[u[k]] \in 1 .. N /\ ord[u[k + 1]] \in 1 .. N
    BY <1>4, <2>2
  <2>4. CASE u[k] = entry_bloc
    <3>1. u[k + 1] = u[k]
      BY <2>2, <2>4, <1>7
    <3> QED BY <2>1, <3>1
  <2>5. CASE u[k] # entry_bloc
    <3>1. ord[u[k + 1]] < ord[u[k]]
      BY <2>2, <2>5, <1>6
    <3>2. j + 1 \in Nat /\ j + 1 <= ord[b] - ord[u[k + 1]] /\ u[j + 1] = u[k + 1]
      BY <2>1, <2>2, <2>3, <3>1, <1>8
    <3> QED BY <3>2
  <2> QED BY <2>4, <2>5
<1>11. Nat \subseteq S
  <2> HIDE DEF S
  <2> QED BY <1>9, <1>10, Induction
<1>12. ASSUME NEW k \in Nat, u[k] = a PROVE \E j \in 0 .. N : u[j] = a
  <2>1. PICK j \in Nat : j <= ord[b] - ord[u[k]] /\ u[j] = u[k]
    BY <1>11
  <2>2. ord[u[k]] \in 1 .. N
    BY <1>1, <1>4
  <2>3. j \in 0 .. N
    BY <2>1, <2>2, <1>3, <1>8
  <2> QED BY <2>1, <2>3, <1>12
<1>13. \A k \in 0 .. N : k \in Nat
  BY <1>3
<1> QED BY <1>2, <1>3, <1>5, <1>12, <1>13

\* The blocs and what a bloc without a dominator has for one; what gives each
\* bloc one of them.
Ends(g) == Blocs(g) \cup {nil}
Tree(g) == [Blocs(g) -> Ends(g)]

LEMMA ClimbRec ==
  ASSUME NEW g, Ready(g), NEW d \in Tree(g)
  PROVE  LET ord == Ordering(g)   T == Ends(g)   climb == Climb(d, ord)
         IN  /\ \A n \in Nat : \A b1, b2 \in T : climb[n][b1][b2] \in T
             /\ \A n \in Nat : \A b1, b2 \in T :
                  climb[n][b1][b2] =
                    IF n = 0 \/ b1 = b2 \/ nil \in {b1, b2} THEN b1
                    ELSE IF ord[b1] > ord[b2] THEN climb[n - 1][d[b1]][b2]
                    ELSE climb[n - 1][b1][d[b2]]
<1> DEFINE ord == Ordering(g)   T == Ends(g)   blocs == DOMAIN ord \union {nil}
           V == [T -> [T -> T]]
           step(n, x) == [b1 \in T |-> [b2 \in T |->
             IF n = 0 \/ b1 = b2 \/ nil \in {b1, b2} THEN b1
             ELSE IF ord[b1] > ord[b2] THEN x[d[b1]][b2]
             ELSE x[b1][d[b2]]]]
           climb[n \in Nat] ==
             [b1 \in blocs |-> [b2 \in blocs |->
               IF n = 0 \/ b1 = b2 \/ nil \in {b1, b2} THEN b1
               ELSE IF ord[b1] > ord[b2] THEN climb[n - 1][d[b1]][b2]
               ELSE climb[n - 1][b1][d[b2]]]]
           a == [b1 \in T |-> [b2 \in T |-> b1]]
           F == [n \in Nat |-> [x \in V |-> step(n, x)]]
<1>1. Climb(d, ord) = climb
  BY Zenon DEF Climb
<1>2. blocs = T
  BY ReadyFacts DEF Ends
<1>3. \A b \in T : b # nil => d[b] \in T
  BY DEF Tree, Ends
<1>4. ASSUME NEW n \in Nat, NEW x \in V PROVE step(n, x) \in V
  <2>1. ASSUME NEW b1 \in T, NEW b2 \in T
        PROVE  (IF n = 0 \/ b1 = b2 \/ nil \in {b1, b2} THEN b1
                ELSE IF ord[b1] > ord[b2] THEN x[d[b1]][b2]
                ELSE x[b1][d[b2]]) \in T
    <3>1. CASE n = 0 \/ b1 = b2 \/ nil \in {b1, b2}
      BY <3>1
    <3>2. CASE ~ (n = 0 \/ b1 = b2 \/ nil \in {b1, b2})
      <4>1. d[b1] \in T /\ d[b2] \in T
        BY <3>2, <1>3
      <4> HIDE DEF ord, T
      <4>2. x[d[b1]][b2] \in T /\ x[b1][d[b2]] \in T
        BY <4>1
      <4> QED BY <3>2, <4>2
    <3> QED BY <3>1, <3>2
  <2> HIDE DEF T, ord
  <2> QED BY <2>1
<1>5. \A n \in Nat : F[n] \in [V -> V] /\ \A x \in V : F[n][x] = step(n, x)
  <2> HIDE DEF step, V
  <2> QED BY <1>4
<1>6. a \in V
  OBVIOUS
<1> HIDE DEF F
<1>7. PICK f : NatRec(f, V, a, F)
  <2> HIDE DEF V, a
  <2> QED BY <1>5, <1>6, NatRecursion
<1>8. ASSUME NEW n \in Nat PROVE f[n] = step(n, f[n - 1])
  <2>1. CASE n = 0
    <3>1. f[0] = a
      BY <1>7 DEF NatRec
    <3>2. step(0, f[0 - 1]) = a
      OBVIOUS
    <3> QED BY <2>1, <3>1, <3>2
  <2>2. CASE n # 0
    <3> HIDE DEF step, V
    <3>1. n - 1 \in Nat /\ (n - 1) + 1 = n
      BY <2>2
    <3>2. f[(n - 1) + 1] = F[(n - 1) + 1][f[n - 1]] /\ f[n - 1] \in V
      BY <3>1, <1>7 DEF NatRec
    <3> QED BY <3>1, <3>2, <1>5
  <2> QED BY <2>1, <2>2
<1>9. f = [n \in Nat |-> step(n, f[n - 1])]
  <2> HIDE DEF step
  <2>1. f = [n \in Nat |-> f[n]]
    BY <1>7 DEF NatRec
  <2> QED BY <2>1, <1>8
<1>10. climb = [n \in Nat |-> step(n, climb[n - 1])]
  <2>1. f = [n \in Nat |->
              [b1 \in blocs |-> [b2 \in blocs |->
                IF n = 0 \/ b1 = b2 \/ nil \in {b1, b2} THEN b1
                ELSE IF ord[b1] > ord[b2] THEN f[n - 1][d[b1]][b2]
                ELSE f[n - 1][b1][d[b2]]]]]
    <3> HIDE DEF ord, T, blocs
    <3> QED BY Zenon, <1>9, <1>2
  <2>2. climb = [n \in Nat |->
              [b1 \in blocs |-> [b2 \in blocs |->
                IF n = 0 \/ b1 = b2 \/ nil \in {b1, b2} THEN b1
                ELSE IF ord[b1] > ord[b2] THEN climb[n - 1][d[b1]][b2]
                ELSE climb[n - 1][b1][d[b2]]]]]
    <3> HIDE DEF blocs, ord
    <3> QED BY ZenonT(60), <2>1 DEF climb
  <2> HIDE DEF climb, ord, T, blocs
  <2> QED BY Zenon, <2>2, <1>2
<1> HIDE DEF climb
<1>11. \A n \in Nat : climb[n] = step(n, climb[n - 1])
  <2> HIDE DEF step
  <2> QED BY <1>10
<1>12. \A n \in Nat : climb[n] \in V
  <2> DEFINE S == {n \in Nat : climb[n] \in V}
  <2>1. 0 \in S
    <3>1. climb[0] = step(0, climb[0 - 1])
      BY <1>11
    <3>2. step(0, climb[0 - 1]) = a
      OBVIOUS
    <3> QED BY <3>1, <3>2, <1>6
  <2>2. ASSUME NEW n \in Nat, n \in S PROVE n + 1 \in S
    <3> HIDE DEF step, V
    <3>1. climb[n + 1] = step(n + 1, climb[(n + 1) - 1]) /\ (n + 1) - 1 = n /\ n + 1 \in Nat
      BY <1>11
    <3> QED BY <2>2, <3>1, <1>4
  <2> HIDE DEF S
  <2>3. Nat \subseteq S
    BY <2>1, <2>2, Induction
  <2> QED BY <2>3 DEF S
<1>13. \A n \in Nat : \A b1, b2 \in T : climb[n][b1][b2] \in T
  <2> HIDE DEF T
  <2> QED BY <1>12
<1>14. ASSUME NEW n \in Nat, NEW b1 \in T, NEW b2 \in T
       PROVE  climb[n][b1][b2] =
                IF n = 0 \/ b1 = b2 \/ nil \in {b1, b2} THEN b1
                ELSE IF ord[b1] > ord[b2] THEN climb[n - 1][d[b1]][b2]
                ELSE climb[n - 1][b1][d[b2]]
  <2>1. step(n, climb[n - 1])[b1][b2] =
                IF n = 0 \/ b1 = b2 \/ nil \in {b1, b2} THEN b1
                ELSE IF ord[b1] > ord[b2] THEN climb[n - 1][d[b1]][b2]
                ELSE climb[n - 1][b1][d[b2]]
    <3> HIDE DEF ord, T
    <3> QED OBVIOUS
  <2> HIDE DEF step
  <2> QED BY <2>1, <1>11
<1> QED BY <1>1, <1>13, <1>14

\* The nearest common ancestor of two blocs has what their lines have in common
\* for a line.
LEMMA ClimbFacts ==
  ASSUME NEW g, Ready(g), NEW d, Forest(g, d), NEW a \in Live(g, d), NEW b \in Live(g, d)
  PROVE  LET c == NearestCommon(d, Ordering(g), a, b)
         IN  c \in Live(g, d) /\ Line(d, c) = Line(d, a) \cap Line(d, b)
<1> DEFINE ord == Ordering(g)   T == Ends(g)   L == Live(g, d)   climb == Climb(d, ord)
           Meets(c, x, y) == c \in L /\ Line(d, c) = Line(d, x) \cap Line(d, y)
           S == {n \in Nat : \A x, y \in L : ord[x] + ord[y] <= n => Meets(climb[n][x][y], x, y)}
<1>1. d \in Tree(g) /\ L \subseteq T /\ nil \notin L
  <2>1. nil \notin Blocs(g)
    BY ReadyFacts
  <2> QED BY <2>1 DEF Forest, Tree, Ends, Live
<1>2. \A x \in L : ord[x] \in Nat /\ ord[x] >= 1 /\ x \in Blocs(g)
  BY ReadyFacts DEF Live
<1>3. \A x, y \in L : ord[x] = ord[y] => x = y
  BY ReadyFacts DEF Live
<1>4. \A n \in Nat : \A x, y \in T :
        climb[n][x][y] = IF n = 0 \/ x = y \/ nil \in {x, y} THEN x
                         ELSE IF ord[x] > ord[y] THEN climb[n - 1][d[x]][y]
                         ELSE climb[n - 1][x][d[y]]
  BY <1>1, ClimbRec
<1>5. ASSUME NEW x \in L, NEW y \in L, ord[x] > ord[y]
      PROVE  /\ d[x] \in L /\ ord[d[x]] < ord[x]
             /\ Line(d, d[x]) \cap Line(d, y) = Line(d, x) \cap Line(d, y)
  <2>1. x # entry_bloc
    BY <1>5, <1>2, ReadyFacts
  <2>2. d[x] \in L /\ Line(d, x) = {x} \cup Line(d, d[x])
    BY <2>1, LineRec
  <2>3. ord[d[x]] < ord[x]
    BY <2>1, <1>2 DEF Forest, Live
  <2>4. x \notin Line(d, y)
    <3>1. SUFFICES ASSUME x \in Line(d, y) PROVE FALSE
      OBVIOUS
    <3>2. ord[x] <= ord[y]
      BY <3>1, LineBelow
    <3> QED BY <3>2, <1>5, <1>2
  <2> QED BY <2>2, <2>3, <2>4
<1> HIDE DEF climb, ord, T, L
<1>6. 0 \in S
  <2>1. \A x, y \in L : ~ (ord[x] + ord[y] <= 0)
    BY <1>2
  <2> QED BY <2>1
<1>7. ASSUME NEW n \in Nat, n \in S PROVE n + 1 \in S
  <2> SUFFICES ASSUME NEW x \in L, NEW y \in L, ord[x] + ord[y] <= n + 1
               PROVE  Meets(climb[n + 1][x][y], x, y)
    OBVIOUS
  <2>1. climb[n + 1][x][y] = IF x = y THEN x
                             ELSE IF ord[x] > ord[y] THEN climb[n][d[x]][y]
                             ELSE climb[n][x][d[y]]
    <3>1. n + 1 \in Nat /\ n + 1 # 0 /\ (n + 1) - 1 = n /\ nil \notin {x, y} /\ x \in T /\ y \in T
      BY <1>1
    <3> QED BY <1>4, <3>1
  <2>2. \A v, w \in L : ord[v] + ord[w] <= n => Meets(climb[n][v][w], v, w)
    BY <1>7
  <2>3. ord[x] \in Nat /\ ord[y] \in Nat
    BY <1>2
  <2> HIDE DEF Meets, S
  <2>4. CASE x = y
    BY <2>1, <2>4 DEF Meets
  <2>5. CASE ord[x] > ord[y]
    <3>1. d[x] \in L /\ ord[d[x]] < ord[x] /\ ord[d[x]] \in Nat
          /\ Line(d, d[x]) \cap Line(d, y) = Line(d, x) \cap Line(d, y)
      BY <2>5, <1>5, <1>2
    <3>2. ord[d[x]] + ord[y] <= n
      BY <3>1, <2>3
    <3>3. Meets(climb[n][d[x]][y], d[x], y)
      BY <2>2, <3>1, <3>2
    <3>4. x # y
      BY <2>5, <2>3
    <3> QED BY <2>1, <2>5, <3>1, <3>3, <3>4 DEF Meets
  <2>6. CASE x # y /\ ~ (ord[x] > ord[y])
    <3>1. ord[y] > ord[x]
      BY <2>6, <2>3, <1>3
    <3>2. d[y] \in L /\ ord[d[y]] < ord[y] /\ ord[d[y]] \in Nat
          /\ Line(d, d[y]) \cap Line(d, x) = Line(d, y) \cap Line(d, x)
      BY <3>1, <1>5, <1>2
    <3>3. ord[x] + ord[d[y]] <= n
      BY <3>2, <2>3
    <3>4. Meets(climb[n][x][d[y]], x, d[y])
      BY <2>2, <3>2, <3>3
    <3> QED BY <2>1, <2>6, <3>2, <3>4 DEF Meets
  <2> QED BY <2>4, <2>5, <2>6
<1>8. Nat \subseteq S
  <2> HIDE DEF S
  <2> QED BY <1>6, <1>7, Induction
<1>9. ord[a] + ord[b] \in Nat /\ a \in L /\ b \in L
  BY <1>2 DEF L
<1>10. Meets(climb[ord[a] + ord[b]][a][b], a, b)
  BY <1>8, <1>9
<1> QED BY <1>10 DEF NearestCommon, climb, L, ord

\* One round of NewIdom: what it has found for b, and predecessor p.
Nearer(g, d, b, p, x) ==
  IF b \notin Succ(g, p) \/ d[p] = nil THEN x
  ELSE IF x = nil THEN p
  ELSE NearestCommon(d, Ordering(g), x, p)

LEMMA NewIdomRec ==
  ASSUME NEW g, Ready(g), NEW d \in Tree(g), NEW b \in Blocs(g)
  PROVE  \E f : /\ f[0] = nil /\ f[Len(g.pool)] = NewIdom(g, Ordering(g), d, b)
                /\ \A i \in 0 .. Len(g.pool) : f[i] \in Ends(g)
                /\ \A i \in 1 .. Len(g.pool) : f[i] = Nearer(g, d, b, g.pool[i], f[i - 1])
<1> DEFINE ord == Ordering(g)   N == Len(g.pool)   T == Ends(g)
           nidom[i \in 0 .. Len(g.pool)] ==
             IF i = 0 THEN nil
             ELSE LET pred == g.pool[i]
                      prior == nidom[i - 1]
                  IN IF b \notin Succ(g, pred) \/ d[pred] = nil THEN prior
                     ELSE IF prior = nil THEN pred
                     ELSE NearestCommon(d, ord, prior, pred)
           step(i, x) == Nearer(g, d, b, g.pool[i], x)
           F == [i \in 1 .. N |-> [x \in T |-> step(i, x)]]
<1>1. NewIdom(g, ord, d, b) = nidom[N]
  BY Zenon DEF NewIdom
<1>2. N \in Nat /\ \A i \in 1 .. N : g.pool[i] \in Blocs(g)
  BY ReadyFacts
<1>3. \A c \in Blocs(g) : ord[c] \in Nat /\ c \in T
  BY ReadyFacts DEF Ends
<1>4. ASSUME NEW i \in 1 .. N, NEW x \in T PROVE step(i, x) \in T
  <2>1. CASE b \notin Succ(g, g.pool[i]) \/ d[g.pool[i]] = nil \/ x = nil
    BY <2>1, <1>2, <1>3 DEF Nearer
  <2>2. CASE ~ (b \notin Succ(g, g.pool[i]) \/ d[g.pool[i]] = nil \/ x = nil)
    <3>1. x \in Blocs(g) /\ g.pool[i] \in Blocs(g)
      BY <2>2, <1>2 DEF Ends
    <3>2. ord[x] + ord[g.pool[i]] \in Nat
      BY <3>1, <1>3
    <3> HIDE DEF ord
    <3>3. Climb(d, ord)[ord[x] + ord[g.pool[i]]][x][g.pool[i]] \in T
      BY <3>1, <3>2, <1>3, ClimbRec DEF ord
    <3> QED BY <2>2, <3>3 DEF Nearer, NearestCommon, ord
  <2> QED BY <2>1, <2>2
<1>5. \A i \in 1 .. N : F[i] \in [T -> T] /\ \A x \in T : F[i][x] = step(i, x)
  <2> HIDE DEF step, T
  <2> QED BY <1>4
<1>6. nil \in T
  BY DEF Ends
<1> HIDE DEF F, T, N
<1>7. PICK f : Rec(f, N, T, nil, F)
  BY <1>2, <1>5, <1>6, Recursion
<1>8. f \in [0 .. N -> T] /\ f[0] = nil /\ \A i \in 1 .. N : f[i] = step(i, f[i - 1])
  <2> HIDE DEF step
  <2>1. f \in [0 .. N -> T] /\ f[0] = nil /\ \A i \in 1 .. N : f[i] = F[i][f[i - 1]]
    BY <1>7 DEF Rec
  <2>2. \A i \in 1 .. N : i - 1 \in 0 .. N
    BY <1>2
  <2> QED BY <2>1, <2>2, <1>5
<1>9. nidom = [i \in 0 .. N |-> IF i = 0 THEN nil ELSE step(i, nidom[i - 1])]
  <2>1. f = [i \in 0 .. N |-> IF i = 0 THEN nil ELSE step(i, f[i - 1])]
    <3> HIDE DEF step
    <3>1. \A i \in 0 .. N : i # 0 => i \in 1 .. N
      BY <1>2
    <3> QED BY <1>8, <3>1
  <2>2. f = [i \in 0 .. Len(g.pool) |->
               IF i = 0 THEN nil
               ELSE LET pred == g.pool[i]
                        prior == f[i - 1]
                    IN IF b \notin Succ(g, pred) \/ d[pred] = nil THEN prior
                       ELSE IF prior = nil THEN pred
                       ELSE NearestCommon(d, ord, prior, pred)]
    BY Zenon, <2>1 DEF Nearer, N
  <2>3. nidom = [i \in 0 .. Len(g.pool) |->
               IF i = 0 THEN nil
               ELSE LET pred == g.pool[i]
                        prior == nidom[i - 1]
                    IN IF b \notin Succ(g, pred) \/ d[pred] = nil THEN prior
                       ELSE IF prior = nil THEN pred
                       ELSE NearestCommon(d, ord, prior, pred)]
    <3> HIDE DEF ord
    <3> QED BY ZenonT(60), <2>2 DEF nidom
  <2> HIDE DEF nidom
  <2> QED BY Zenon, <2>3 DEF Nearer, N
<1> HIDE DEF nidom
<1>10. nidom[0] = nil /\ \A i \in 1 .. N : nidom[i] = step(i, nidom[i - 1])
  <2> HIDE DEF step
  <2>1. 0 \in 0 .. N /\ \A i \in 1 .. N : i \in 0 .. N /\ i # 0
    BY <1>2
  <2> QED BY <1>9, <2>1
<1>11. \A i \in 0 .. N : nidom[i] \in T
  <2> DEFINE S == {i \in Nat : i <= N => nidom[i] \in T}
  <2>1. 0 \in S
    BY <1>10, <1>6
  <2>2. ASSUME NEW i \in Nat, i \in S PROVE i + 1 \in S
    <3> SUFFICES ASSUME i + 1 <= N PROVE nidom[i + 1] \in T
      OBVIOUS
    <3> HIDE DEF step
    <3>1. i + 1 \in 1 .. N /\ (i + 1) - 1 = i /\ nidom[i] \in T
      BY <2>2, <1>2
    <3>2. nidom[i + 1] = step(i + 1, nidom[(i + 1) - 1])
      BY <3>1, <1>10
    <3> QED BY <3>1, <3>2, <1>4
  <2> HIDE DEF S
  <2>3. Nat \subseteq S
    BY <2>1, <2>2, Induction
  <2> QED BY <2>3, <1>2 DEF S
<1> QED BY <1>1, <1>10, <1>11 DEF N, T, ord

\* The predecessors of b that have a dominator.
LivePred(g, d, b) == {p \in Live(g, d) : b \in Succ(g, p)}

\* NewIdom gives b the bloc whose line is what the lines of these have in common.
LEMMA NewIdomFacts ==
  ASSUME NEW g, Ready(g), NEW d, Forest(g, d), NEW b \in Blocs(g), LivePred(g, d, b) # {}
  PROVE  LET c == NewIdom(g, Ordering(g), d, b)
         IN  /\ c \in Live(g, d)
             /\ \A x : x \in Line(d, c) <=> \A p \in LivePred(g, d, b) : x \in Line(d, p)
<1> DEFINE N == Len(g.pool)   L == Live(g, d)
           ps(i) == {p \in LivePred(g, d, b) : \E j \in 1 .. i : g.pool[j] = p}
<1>1. /\ d \in Tree(g) /\ nil \notin L /\ \A p \in Blocs(g) : p \in L <=> d[p] # nil
      /\ L \subseteq Blocs(g)
  <2>1. nil \notin Blocs(g)
    BY ReadyFacts
  <2> QED BY <2>1 DEF Forest, Tree, Ends, Live
<1>2. PICK f : /\ f[0] = nil /\ f[N] = NewIdom(g, Ordering(g), d, b)
               /\ \A i \in 1 .. N : f[i] = Nearer(g, d, b, g.pool[i], f[i - 1])
  BY <1>1, NewIdomRec
<1>3. N \in Nat /\ \A i \in 1 .. N : g.pool[i] \in Blocs(g)
  BY ReadyFacts
<1> DEFINE Agrees(i) ==
             IF ps(i) = {} THEN f[i] = nil
             ELSE f[i] \in L /\ \A x : x \in Line(d, f[i]) <=> \A p \in ps(i) : x \in Line(d, p)
           S == {i \in Nat : i <= N => Agrees(i)}
<1>4. 0 \in S
  <2>1. ps(0) = {}
    OBVIOUS
  <2> QED BY <2>1, <1>2
<1>5. ASSUME NEW i \in Nat, i \in S PROVE i + 1 \in S
  <2> SUFFICES ASSUME i + 1 <= N PROVE Agrees(i + 1)
    OBVIOUS
  <2> DEFINE p == g.pool[i + 1]
  <2>1. Agrees(i) /\ i + 1 \in 1 .. N /\ p \in Blocs(g) /\ (i + 1) - 1 = i
    BY <1>5, <1>3
  <2>2. f[i + 1] = Nearer(g, d, b, p, f[i])
    BY <2>1, <1>2
  <2>3. \A j : j \in 1 .. i + 1 <=> j \in 1 .. i \/ j = i + 1
    BY <2>1, <1>3
  <2> HIDE DEF p, S, Agrees
  <2>4. CASE p \notin LivePred(g, d, b)
    <3>1. f[i + 1] = f[i]
      BY <2>1, <2>2, <2>4, <1>1 DEF Nearer, LivePred
    <3>2. ps(i + 1) = ps(i)
      BY <2>3, <2>4 DEF p
    <3> HIDE DEF ps
    <3> QED BY <2>1, <3>1, <3>2 DEF Agrees
  <2>5. CASE p \in LivePred(g, d, b)
    <3>1. ps(i + 1) = ps(i) \cup {p}
      BY <2>3, <2>5 DEF p
    <3>2. b \in Succ(g, p) /\ d[p] # nil /\ p \in L
      BY <2>1, <2>5, <1>1 DEF LivePred
    <3> HIDE DEF ps
    <3>3. CASE ps(i) = {}
      <4>1. f[i + 1] = p
        BY <2>1, <2>2, <3>2, <3>3 DEF Nearer, Agrees
      <4> QED BY <3>1, <3>2, <3>3, <4>1 DEF Agrees
    <3>4. CASE ps(i) # {}
      <4>1. f[i] \in L /\ \A x : x \in Line(d, f[i]) <=> \A q \in ps(i) : x \in Line(d, q)
        BY <2>1, <3>4 DEF Agrees
      <4>2. f[i + 1] = NearestCommon(d, Ordering(g), f[i], p)
        BY <2>2, <3>2, <4>1, <1>1 DEF Nearer
      <4>3. f[i + 1] \in L /\ Line(d, f[i + 1]) = Line(d, f[i]) \cap Line(d, p)
        BY <4>1, <4>2, <3>2, ClimbFacts
      <4> QED BY <3>1, <4>1, <4>3 DEF Agrees
    <3> QED BY <3>3, <3>4
  <2> QED BY <2>4, <2>5
<1>6. Agrees(N)
  <2> HIDE DEF S, Agrees
  <2>1. Nat \subseteq S
    BY <1>4, <1>5, Induction
  <2> QED BY <2>1, <1>3 DEF S
<1>7. ps(N) = LivePred(g, d, b)
  <2>1. \A p \in Blocs(g) : \E j \in 1 .. N : g.pool[j] = p
    BY PoolFacts DEF Ready, Sane
  <2> QED BY <2>1, <1>1 DEF LivePred
<1> HIDE DEF ps
<1> QED BY <1>2, <1>6, <1>7

\* What Closure needs of a graph: more turns than blocs, and no edge that leaves it.
Drawn(g) ==
  /\ Len(g.pool) \in Nat /\ IsFiniteSet(Blocs(g)) /\ Cardinality(Blocs(g)) <= Len(g.pool)
  /\ entry_bloc \in Blocs(g) /\ \A b \in Blocs(g) : Succ(g, b) \subseteq Blocs(g)

LEMMA SaneDrawn == ASSUME NEW g, Sane(g) PROVE Drawn(g)
<1>1. \A b \in Blocs(g) : Succ(g, b) \subseteq Blocs(g)
  BY PoolFacts DEF Sane, Linked, Succ, ExitsTo, Targets
<1> QED BY <1>1, PoolFacts DEF Sane, Drawn

\* What Closure collects: S, and what follows; and no more.
LEMMA ClosureDrawn ==
  ASSUME NEW g, Drawn(g), NEW S \in SUBSET Blocs(g), NEW avoid
  PROVE  LET C == Closure(g, S, avoid)
         IN  /\ S \subseteq C /\ C \subseteq Blocs(g)
             /\ \A b \in C : Succ(g, b) \ avoid \subseteq C
             /\ \A R : S \subseteq R /\ (\A b \in R : Succ(g, b) \ avoid \subseteq R)
                         => C \subseteq R
<1> DEFINE B == Blocs(g)   N == Len(g.pool)   T == SUBSET B
           step(n, x) == IF n = 0 THEN S
                         ELSE x \union ((UNION {Succ(g, b) : b \in x}) \ avoid)
           reach[n \in Nat] ==
             IF n = 0 THEN S
             ELSE LET prior == reach[n - 1]
                  IN prior \union ((UNION {Succ(g, b) : b \in prior}) \ avoid)
           F == [n \in Nat |-> [x \in T |-> step(n, x)]]
<1>1. Closure(g, S, avoid) = reach[N]
  BY Zenon DEF Closure
<1>2. /\ N \in Nat /\ IsFiniteSet(B) /\ Cardinality(B) \in Nat /\ Cardinality(B) <= N
      /\ \A b \in B : Succ(g, b) \subseteq B
  BY FS_CardinalityType DEF Drawn
<1>3. ASSUME NEW n \in Nat, NEW x \in T PROVE step(n, x) \in T
  BY <1>2
<1>4. \A n \in Nat : F[n] \in [T -> T] /\ \A x \in T : F[n][x] = step(n, x)
  <2> HIDE DEF step, T
  <2> QED BY <1>3
<1>5. S \in T
  OBVIOUS
<1> HIDE DEF F, T
<1>6. PICK f : NatRec(f, T, S, F)
  BY <1>4, <1>5, NatRecursion
<1>7. ASSUME NEW n \in Nat PROVE f[n] = step(n, f[n - 1])
  <2>1. CASE n = 0
    BY <1>6, <2>1 DEF NatRec
  <2>2. CASE n # 0
    <3> HIDE DEF step
    <3>1. n - 1 \in Nat /\ (n - 1) + 1 = n
      BY <2>2
    <3>2. f[(n - 1) + 1] = F[(n - 1) + 1][f[n - 1]] /\ f[n - 1] \in T
      BY <3>1, <1>6 DEF NatRec
    <3> QED BY <3>1, <3>2, <1>4
  <2> QED BY <2>1, <2>2
<1>8. reach = [n \in Nat |-> step(n, reach[n - 1])]
  <2>1. f = [n \in Nat |-> step(n, f[n - 1])]
    <3> HIDE DEF step
    <3>1. f = [n \in Nat |-> f[n]]
      BY <1>6 DEF NatRec
    <3> QED BY <3>1, <1>7
  <2> QED BY ZenonT(60), <2>1 DEF reach
<1> HIDE DEF reach
<1>9. \A n \in Nat : reach[n] = step(n, reach[n - 1])
  <2> HIDE DEF step
  <2> QED BY <1>8
<1>10. /\ reach[0] = S
       /\ \A n \in Nat : reach[n + 1] = reach[n] \union ((UNION {Succ(g, b) : b \in reach[n]}) \ avoid)
  <2>1. reach[0] = S
    BY <1>9
  <2>2. ASSUME NEW n \in Nat
        PROVE  reach[n + 1] = reach[n] \union ((UNION {Succ(g, b) : b \in reach[n]}) \ avoid)
    <3>1. n + 1 \in Nat /\ n + 1 # 0 /\ (n + 1) - 1 = n
      OBVIOUS
    <3> HIDE DEF step
    <3>2. reach[n + 1] = step(n + 1, reach[n])
      BY <3>1, <1>9
    <3> QED BY <3>1, <3>2 DEF step
  <2> QED BY <2>1, <2>2
<1> HIDE DEF step
<1>11. \A n \in Nat : reach[n] \in T /\ S \subseteq reach[n]
  <2> DEFINE K == {n \in Nat : reach[n] \in T /\ S \subseteq reach[n]}
  <2>1. 0 \in K
    BY <1>10, <1>5
  <2>2. ASSUME NEW n \in Nat, n \in K PROVE n + 1 \in K
    BY <2>2, <1>2, <1>10 DEF T
  <2> HIDE DEF K
  <2>3. Nat \subseteq K
    BY <2>1, <2>2, Induction
  <2> QED BY <2>3 DEF K
<1>12. ASSUME NEW n \in Nat
       PROVE  /\ IsFiniteSet(reach[n]) /\ Cardinality(reach[n]) \in Nat /\ Cardinality(reach[n]) <= N
              /\ reach[n + 1] # reach[n] => Cardinality(reach[n + 1]) > Cardinality(reach[n])
  <2>1. n + 1 \in Nat /\ reach[n] \subseteq B /\ reach[n + 1] \subseteq B /\ reach[n] \subseteq reach[n + 1]
    BY <1>10, <1>11 DEF T
  <2> HIDE DEF B, N
  <2>2. IsFiniteSet(reach[n]) /\ IsFiniteSet(reach[n + 1])
    BY <2>1, <1>2, FS_Subset
  <2>3. Cardinality(reach[n]) \in Nat /\ Cardinality(reach[n + 1]) \in Nat
    BY <2>2, FS_CardinalityType
  <2>4. Cardinality(reach[n]) <= N
    <3>1. Cardinality(reach[n]) <= Cardinality(B)
      BY <2>1, <1>2, FS_Subset
    <3> QED BY <3>1, <2>3, <1>2
  <2>5. /\ Cardinality(reach[n]) <= Cardinality(reach[n + 1])
        /\ Cardinality(reach[n]) = Cardinality(reach[n + 1]) => reach[n] = reach[n + 1]
    BY <2>1, <2>2, FS_Subset
  <2> QED BY <2>2, <2>3, <2>4, <2>5
<1>13. reach[N + 1] = reach[N]
  <2> DEFINE Q(n) == reach[n + 1] = reach[n] \/ Cardinality(reach[n + 1]) >= n + 1
             K == {n \in Nat : Q(n)}
  <2>1. 0 \in K
    <3>1. 0 \in Nat /\ 0 + 1 \in Nat
      OBVIOUS
    <3> HIDE DEF N
    <3>2. Cardinality(reach[0]) \in Nat /\ Cardinality(reach[0 + 1]) \in Nat
          /\ (reach[0 + 1] # reach[0] => Cardinality(reach[0 + 1]) > Cardinality(reach[0]))
      BY <3>1, <1>12
    <3> QED BY <3>2
  <2>2. ASSUME NEW n \in Nat, n \in K PROVE n + 1 \in K
    <3> HIDE DEF N
    <3>1. Cardinality(reach[n + 1]) \in Nat /\ Cardinality(reach[(n + 1) + 1]) \in Nat
          /\ (reach[(n + 1) + 1] # reach[n + 1] => Cardinality(reach[(n + 1) + 1]) > Cardinality(reach[n + 1]))
      BY n + 1 \in Nat, (n + 1) + 1 \in Nat, <1>12
    <3>2. CASE reach[n + 1] = reach[n]
      <4>1. reach[(n + 1) + 1] = reach[n + 1]
        BY <3>2, <1>10, n + 1 \in Nat
      <4> QED BY <4>1
    <3>3. CASE Cardinality(reach[n + 1]) >= n + 1
      BY <3>1, <3>3
    <3> QED BY <2>2, <3>2, <3>3
  <2> HIDE DEF K, N
  <2>3. Nat \subseteq K
    BY <2>1, <2>2, Induction
  <2>4. Q(N)
    BY <2>3, <1>2 DEF K
  <2>5. Cardinality(reach[N + 1]) <= N /\ Cardinality(reach[N + 1]) \in Nat
    BY <1>2, <1>12, N + 1 \in Nat
  <2> QED BY <2>4, <2>5, <1>2
<1>14. ASSUME NEW n \in Nat, NEW y
       PROVE  y \in reach[n + 1]
                <=> y \in reach[n] \/ (y \notin avoid /\ \E b \in reach[n] : y \in Succ(g, b))
  <2>1. \A X, Y : Y = X \union ((UNION {Succ(g, b) : b \in X}) \ avoid)
                    => (y \in Y <=> y \in X \/ (y \notin avoid /\ \E b \in X : y \in Succ(g, b)))
    <3> TAKE X
    <3> DEFINE U == UNION {Succ(g, b) : b \in X}
    <3>1. y \in U <=> \E b \in X : y \in Succ(g, b)
      OBVIOUS
    <3> HIDE DEF U
    <3>2. \A Y : Y = X \union (U \ avoid) => (y \in Y <=> y \in X \/ (y \notin avoid /\ y \in U))
      OBVIOUS
    <3> QED BY Zenon, <3>1, <3>2 DEF U
  <2> QED BY <2>1, <1>10
<1>18. \A b \in reach[N] : Succ(g, b) \ avoid \subseteq reach[N]
  <2> HIDE DEF N
  <2> QED BY <1>2, <1>13, <1>14
<1>15. ASSUME NEW R, S \subseteq R, \A b \in R : Succ(g, b) \ avoid \subseteq R
       PROVE  reach[N] \subseteq R
  <2> DEFINE K == {n \in Nat : reach[n] \subseteq R}
  <2>1. 0 \in K
    BY <1>10, <1>15
  <2>2. ASSUME NEW n \in Nat, n \in K PROVE n + 1 \in K
    <3>1. reach[n + 1] \subseteq R
      BY <2>2, <1>15, <1>14
    <3> QED BY <3>1
  <2> HIDE DEF K, N
  <2>3. Nat \subseteq K
    BY <2>1, <2>2, Induction
  <2> QED BY <2>3, <1>2 DEF K
<1>16. S \subseteq reach[N] /\ reach[N] \subseteq B
  BY <1>2, <1>11 DEF T
<1> HIDE DEF N, B
<1> QED BY <1>1, <1>18, <1>15, <1>16 DEF B

LEMMA ClosureFacts ==
  ASSUME NEW g, Sane(g), NEW S \in SUBSET Blocs(g), NEW avoid
  PROVE  LET C == Closure(g, S, avoid)
         IN  /\ S \subseteq C /\ C \subseteq Blocs(g)
             /\ \A b \in C : Succ(g, b) \ avoid \subseteq C
             /\ \A R : S \subseteq R /\ (\A b \in R : Succ(g, b) \ avoid \subseteq R)
                         => C \subseteq R
<1>1. Drawn(g)
  BY SaneDrawn
<1> QED BY <1>1, ClosureDrawn

\* Who dominates b dominates each predecessor of b, b itself aside.
LEMMA DominatesBefore ==
  ASSUME NEW g, Sane(g), NEW p \in Blocs(g), NEW b \in Succ(g, p), NEW x \in Blocs(g), x # b,
         DominatesByDefinition(g, x, b)
  PROVE  DominatesByDefinition(g, x, p)
<1> DEFINE C == Closure(g, {entry_bloc}, {x})
<1>1. {entry_bloc} \in SUBSET Blocs(g)
  BY PoolFacts DEF Sane
<1>2. \A q \in C : Succ(g, q) \ {x} \subseteq C
  BY <1>1, ClosureFacts
<1> QED BY <1>2 DEF DominatesByDefinition

\* What is not reached without x is dominated by x.
LEMMA DominatesLeast ==
  ASSUME NEW g, Sane(g), NEW b \in Blocs(g), NEW x \in Blocs(g), x # b, x # entry_bloc,
         NEW R, entry_bloc \in R, \A q \in R : Succ(g, q) \ {x} \subseteq R, b \notin R
  PROVE  DominatesByDefinition(g, x, b)
<1> DEFINE C == Closure(g, {entry_bloc}, {x})
<1>1. {entry_bloc} \in SUBSET Blocs(g)
  BY PoolFacts DEF Sane
<1>2. C \subseteq R
  BY <1>1, ClosureFacts
<1> QED BY <1>2 DEF DominatesByDefinition

\* d2 gives u the bloc c, d gives the other blocs what d2 does: what this does
\* to the lines.
LEMMA LineChange ==
  ASSUME NEW g, Ready(g), NEW d, Forest(g, d), NEW u \in Blocs(g), u # entry_bloc,
         NEW c \in Live(g, d), Ordering(g)[c] < Ordering(g)[u],
         NEW d2 \in Tree(g), d2[u] = c, \A b \in Blocs(g) \ {u} : d2[b] = d[b]
  PROVE  /\ Forest(g, d2) /\ Live(g, d2) = Live(g, d) \cup {u}
         /\ Line(d2, u) = {u} \cup Line(d, c)
         /\ \A y \in Live(g, d) :
              Line(d2, y) = IF u \in Line(d, y) THEN (Line(d, y) \ Line(d, u)) \cup Line(d2, u)
                            ELSE Line(d, y)
<1> DEFINE ord == Ordering(g)   B == Blocs(g)   L == Live(g, d)
<1>1. \A b \in B : ord[b] \in Nat
  BY ReadyFacts
<1>2. /\ d \in [B -> B \cup {nil}] /\ d[entry_bloc] = entry_bloc /\ L = {b \in B : d[b] # nil}
      /\ \A b \in L : b # entry_bloc => d[b] \in L /\ ord[d[b]] < ord[b]
  <2>1. d \in [B -> B \cup {nil}] /\ d[entry_bloc] = entry_bloc /\ L = {b \in B : d[b] # nil}
    BY DEF Forest, Live
  <2>2. \A b \in L : b # entry_bloc => d[d[b]] # nil /\ ord[d[b]] < ord[b]
    BY <2>1 DEF Forest
  <2> QED BY <2>1, <2>2
<1>3. c \in B /\ c # nil /\ nil \notin B /\ entry_bloc \in B /\ c # u /\ d[c] # nil
  <2>1. nil \notin B /\ entry_bloc \in B /\ c \in B /\ d[c] # nil
    BY <1>2, ReadyFacts
  <2> QED BY <2>1, <1>1
<1>4. d2 \in [B -> B \cup {nil}] /\ d2[u] = c /\ \A b \in B \ {u} : d2[b] = d[b]
  BY DEF Tree, Ends
<1>5. Live(g, d2) = L \cup {u}
  BY <1>2, <1>3, <1>4 DEF Live
<1>6. Forest(g, d2)
  <2>1. d2[entry_bloc] = entry_bloc
    BY <1>2, <1>3, <1>4
  <2>2. ASSUME NEW b \in B, b # entry_bloc, d2[b] # nil
        PROVE  d2[d2[b]] # nil /\ ord[d2[b]] < ord[b]
    <3>1. CASE b = u
      BY <3>1, <1>3, <1>4
    <3>2. CASE b # u
      <4>1. d2[b] = d[b] /\ d[b] \in L /\ ord[d[b]] < ord[b]
        BY <2>2, <3>2, <1>2, <1>4
      <4> QED BY <4>1, <1>2, <1>3, <1>4
    <3> QED BY <3>1, <3>2
  <2> QED BY <1>4, <2>1, <2>2 DEF Forest
<1> HIDE DEF ord, B, L
<1> DEFINE Kept(y) == u \notin Line(d, y) => Line(d2, y) = Line(d, y)
           S == {y \in B : y \in L => Kept(y)}
<1>7. ASSUME NEW y \in B, \A a \in B : ord[a] < ord[y] => a \in S
      PROVE  y \in S
  <2> SUFFICES ASSUME y \in L, u \notin Line(d, y) PROVE Line(d2, y) = Line(d, y)
    OBVIOUS
  <2> HIDE DEF Kept, S
  <2>1. y \in Line(d, y) /\ y # u /\ y \in Live(g, d) /\ y \in Live(g, d2)
    BY <1>5, LineRec DEF L
  <2>2. CASE y = entry_bloc
    BY <2>1, <2>2, <1>6, LineRec
  <2>3. CASE y # entry_bloc
    <3>1. /\ d[y] \in L /\ ord[d[y]] < ord[y] /\ d2[y] = d[y] /\ d[y] \in B
          /\ Line(d, y) = {y} \cup Line(d, d[y]) /\ Line(d2, y) = {y} \cup Line(d2, d2[y])
      <4>1. /\ d[y] \in L /\ ord[d[y]] < ord[y] /\ d2[y] = d[y] /\ d[y] \in B
        BY <2>1, <2>3, <1>2, <1>4
      <4>2. Line(d, y) = {y} \cup Line(d, d[y])
        BY <2>1, <2>3, LineRec
      <4>3. Line(d2, y) = {y} \cup Line(d2, d2[y])
        BY <2>1, <2>3, <1>6, LineRec
      <4> QED BY <4>1, <4>2, <4>3
    <3>2. Kept(d[y]) /\ u \notin Line(d, d[y])
      BY <3>1, <1>7 DEF S
    <3> QED BY <3>1, <3>2 DEF Kept
  <2> QED BY <2>2, <2>3
<1>8. B \subseteq S
  <2> HIDE DEF S
  <2> QED BY <1>1, <1>7, OrderInduction
<1>9. \A y \in L : u \notin Line(d, y) => Line(d2, y) = Line(d, y)
  BY <1>8, <1>2
<1>10. Line(d2, u) = {u} \cup Line(d, c)
  <2>1. u \notin Line(d, c)
    <3>1. SUFFICES ASSUME u \in Line(d, c) PROVE FALSE
      OBVIOUS
    <3>2. ord[u] <= ord[c] /\ ord[c] < ord[u]
      BY <3>1, LineBelow DEF ord
    <3> QED BY <3>2, <1>1, <1>3 DEF B
  <2>2. Line(d2, u) = {u} \cup Line(d2, c)
    <3>1. u \in Live(g, d2)
      BY <1>5
    <3>2. Line(d2, u) = {u} \cup Line(d2, d2[u])
      BY <3>1, <1>6, LineRec
    <3> QED BY <3>2, <1>4
  <2> QED BY <2>1, <2>2, <1>9 DEF L
<1> HIDE DEF Kept, S
<1> DEFINE Moved(y) == u \in Line(d, y) => Line(d2, y) = (Line(d, y) \ Line(d, u)) \cup Line(d2, u)
           R == {y \in B : y \in L => Moved(y)}
<1>11. ASSUME NEW y \in B, \A a \in B : ord[a] < ord[y] => a \in R
       PROVE  y \in R
  <2> SUFFICES ASSUME y \in L, u \in Line(d, y)
               PROVE  Line(d2, y) = (Line(d, y) \ Line(d, u)) \cup Line(d2, u)
    OBVIOUS
  <2> HIDE DEF Moved, R
  <2>1. CASE y = u
    BY <2>1
  <2>2. CASE y # u
    <3>1. y # entry_bloc
      BY <2>2, LineRec DEF L
    <3>2. /\ d[y] \in L /\ ord[d[y]] < ord[y] /\ d2[y] = d[y] /\ d[y] \in B
          /\ Line(d, y) = {y} \cup Line(d, d[y])
      BY <3>1, <2>2, <1>2, <1>4, LineRec DEF L
    <3>3. Line(d2, y) = {y} \cup Line(d2, d2[y])
      BY <3>1, <1>5, <1>6, LineRec
    <3>4. Moved(d[y]) /\ u \in Line(d, d[y])
      BY <3>2, <2>2, <1>11 DEF R
    <3>5. y \notin Line(d, u)
      <4>1. SUFFICES ASSUME y \in Line(d, u) PROVE FALSE
        OBVIOUS
      <4>2. u \in Live(g, d) /\ ord[u] < ord[y]
        BY <2>2, LineBelow DEF L, ord
      <4>3. ord[y] <= ord[u]
        BY <4>1, <4>2, LineBelow DEF ord
      <4> QED BY <4>2, <4>3, <1>1 DEF B
    <3> QED BY <3>2, <3>3, <3>4, <3>5 DEF Moved
  <2> QED BY <2>1, <2>2
<1>12. B \subseteq R
  <2> HIDE DEF R
  <2> QED BY <1>1, <1>11, OrderInduction
<1>13. \A y \in L : u \in Line(d, y) => Line(d2, y) = (Line(d, y) \ Line(d, u)) \cup Line(d2, u)
  BY <1>12, <1>2
<1> HIDE DEF Moved, R
<1> QED BY <1>5, <1>6, <1>9, <1>10, <1>13 DEF L

\* A pass over the blocs has come to the i-th: those up to it have a dominator,
\* and with a bloc those before it.
Covered(g, d, i) ==
  /\ \A b \in Blocs(g) : Ordering(g)[b] <= i => b \in Live(g, d)
  /\ \A a \in Blocs(g) : \A b \in Live(g, d) : Ordering(g)[a] <= Ordering(g)[b] => a \in Live(g, d)

\* An edge that goes forward adds at most its end to the line of its origin, but
\* for what the pass has still to take from the line of its end.
Inherited(g, d, i) ==
  \A p, q \in Live(g, d) : q \in Succ(g, p) /\ Ordering(g)[p] < Ordering(g)[q] =>
    \A x \in Line(d, q) : x # q /\ (Ordering(g)[q] <= i \/ Ordering(g)[x] > i) => x \in Line(d, p)

\* The line of a bloc has all that those of its predecessors agree on, ...
Agreed(g, d) ==
  \A b \in Live(g, d) : b # entry_bloc =>
    \A x : (\A p \in LivePred(g, d, b) : x \in Line(d, p)) => x \in Line(d, b)

\* ... and all that dominates it.
Dominated(g, d) ==
  \A b \in Live(g, d) : \A x \in Blocs(g) : DominatesByDefinition(g, x, b) => x \in Line(d, b)

Halfway(g, d, i) ==
  Forest(g, d) /\ Covered(g, d, i) /\ Inherited(g, d, i) /\ Agreed(g, d) /\ Dominated(g, d)

\* A pass goes on to the next bloc, u: it gets a dominator, nearer to the entry
\* than the one it had, if any.
LEMMA UpdateKeeps ==
  ASSUME NEW g, Ready(g), NEW i \in Nat, NEW d, Halfway(g, d, i),
         NEW u \in Blocs(g), u # entry_bloc, Ordering(g)[u] = i + 1,
         NEW d2 \in Tree(g), d2[u] = NewIdom(g, Ordering(g), d, u),
         \A b \in Blocs(g) \ {u} : d2[b] = d[b]
  PROVE  /\ Halfway(g, d2, i + 1) /\ d2[u] \in Blocs(g)
         /\ d[u] # nil /\ d2[u] # d[u] => Ordering(g)[d2[u]] < Ordering(g)[d[u]]
<1> DEFINE ord == Ordering(g)   B == Blocs(g)   L == Live(g, d)   c == NewIdom(g, Ordering(g), d, u)
           L2 == Live(g, d2)
<1>1. /\ \A b \in B : ord[b] \in Nat
      /\ \A a, b \in B : ord[a] = ord[b] => a = b
      /\ \A b \in B : b # entry_bloc => \E p \in B : b \in Succ(g, p) /\ ord[p] < ord[b]
      /\ Sane(g) /\ entry_bloc \in B /\ nil \notin B
  BY ReadyFacts DEF Ready
<1>2. /\ Forest(g, d) /\ L \subseteq B /\ (\A b \in B : b \in L <=> d[b] # nil)
      /\ \A b \in B : ord[b] <= i => b \in L
      /\ \A a \in B : \A b \in L : ord[a] <= ord[b] => a \in L
  BY DEF Halfway, Covered, Live
<1>3. /\ \A p, q \in L : q \in Succ(g, p) /\ ord[p] < ord[q] =>
           \A x \in Line(d, q) : x # q /\ (ord[q] <= i \/ ord[x] > i) => x \in Line(d, p)
      /\ \A b \in L : b # entry_bloc =>
           \A x : (\A p \in LivePred(g, d, b) : x \in Line(d, p)) => x \in Line(d, b)
      /\ \A b \in L : \A x \in B : DominatesByDefinition(g, x, b) => x \in Line(d, b)
  BY DEF Halfway, Inherited, Agreed, Dominated
<1>4. u \in B /\ u # entry_bloc /\ ord[u] = i + 1
  OBVIOUS
<1>5. ASSUME NEW y \in L PROVE y \in Line(d, y) /\ Line(d, y) \subseteq L
  BY <1>2, LineRec
<1>6. ASSUME NEW y \in L, NEW x \in Line(d, y)
      PROVE  ord[x] <= ord[y] /\ (x # y => ord[x] < ord[y])
  BY <1>2, LineBelow
<1>7. PICK e \in LivePred(g, d, u) : ord[e] < ord[u]
  <2>1. PICK p \in B : u \in Succ(g, p) /\ ord[p] < ord[u]
    BY <1>1, <1>4
  <2>2. p \in L
    BY <2>1, <1>1, <1>2, <1>4
  <2> QED BY <2>1, <2>2 DEF LivePred
<1>8. c \in L /\ \A x : x \in Line(d, c) <=> \A p \in LivePred(g, d, u) : x \in Line(d, p)
  BY <1>2, <1>4, <1>7, NewIdomFacts
<1>9. ord[c] < ord[u]
  <2>1. c \in Line(d, e) /\ e \in L
    BY <1>5, <1>7, <1>8 DEF LivePred
  <2> QED BY <2>1, <1>1, <1>2, <1>4, <1>6, <1>7, <1>8
<1>10. d2[u] = c
  OBVIOUS
<1> HIDE DEF c
<1>11. /\ Forest(g, d2) /\ L2 = L \cup {u} /\ Line(d2, u) = {u} \cup Line(d, c)
       /\ \A y \in L : Line(d2, y) = IF u \in Line(d, y) THEN (Line(d, y) \ Line(d, u)) \cup Line(d2, u)
                                     ELSE Line(d, y)
  BY <1>2, <1>4, <1>8, <1>9, <1>10, LineChange
<1> DEFINE A(y) == Line(d, y)   A2(y) == Line(d2, y)   LP(b) == LivePred(g, d, b)
\* The line of u, before and after.
<1>12. \A x : x \in A2(u) <=> x = u \/ \A p \in LP(u) : x \in A(p)
  BY <1>8, <1>11
<1>13. u \in L => A2(u) \subseteq A(u)
  BY <1>3, <1>4, <1>5, <1>12
\* The lines of the others.
<1>14. ASSUME NEW y \in L, NEW x
       PROVE  x \in A2(y) <=> x \in A(y) /\ (u \in A(y) /\ x \in A(u) => x \in A2(u))
  <2>1. CASE u \notin A(y)
    BY <2>1, <1>11
  <2>2. CASE u \in A(y)
    <3>1. u \in L /\ A(u) \subseteq A(y)
      BY <2>2, <1>2, LineBelow
    <3> QED BY <2>2, <3>1, <1>11, <1>13
  <2> QED BY <2>1, <2>2
<1>15. ASSUME NEW y \in L, ord[y] <= i PROVE A2(y) = A(y)
  <2>1. u \notin A(y)
    BY <1>1, <1>2, <1>4, <1>6, <1>15
  <2> QED BY <2>1, <1>11
<1>16. \A b \in B : LP(b) \subseteq LivePred(g, d2, b) /\ LP(b) \subseteq L
  BY <1>11 DEF LivePred
<1>17. ASSUME NEW y \in L2, y # u PROVE y \in L /\ (ord[y] > i => u \in L)
  BY <1>17, <1>1, <1>2, <1>4, <1>11
\* A bloc whose line goes through u, and a predecessor of it.
<1>18. ASSUME NEW y \in L, y # u, u \in A(y)
       PROVE  \E p \in L : p \in LP(y) /\ ord[p] < ord[y] /\ u \in A(p)
  <2>1. y # entry_bloc
    BY <1>2, <1>4, <1>18, LineRec
  <2>2. PICK p \in B : y \in Succ(g, p) /\ ord[p] < ord[y]
    BY <2>1, <1>1, <1>2
  <2>3. p \in L
    BY <2>2, <1>1, <1>2
  <2>4. ord[u] > i
    BY <1>1, <1>4
  <2>5. u \in A(p)
    BY <2>2, <2>3, <2>4, <1>3, <1>18
  <2> QED BY <2>2, <2>3, <2>5 DEF LivePred
<1> HIDE DEF ord, B, L, L2, A, A2, LP
<1>19. Covered(g, d2, i + 1)
  <2>1. ASSUME NEW b \in B, ord[b] <= i + 1 PROVE b \in L2
    BY <2>1, <1>1, <1>2, <1>4, <1>11
  <2>2. ASSUME NEW a \in B, NEW b \in L2, ord[a] <= ord[b] PROVE a \in L2
    <3>1. CASE b \in L
      BY <2>2, <3>1, <1>2, <1>11
    <3>2. CASE b = u
      BY <2>1, <2>2, <3>2, <1>4
    <3> QED BY <3>1, <3>2, <1>11
  <2> QED BY <2>1, <2>2 DEF Covered, B, L2, ord
<1>20. Inherited(g, d2, i + 1)
  <2> SUFFICES ASSUME NEW p \in L2, NEW q \in L2, q \in Succ(g, p), ord[p] < ord[q],
                      NEW x \in A2(q), x # q, ord[q] <= i + 1 \/ ord[x] > i + 1
               PROVE  x \in A2(p)
    BY DEF Inherited, L2, ord, A2
  <2>1. p \in B /\ q \in B /\ ord[p] \in Nat /\ ord[q] \in Nat
    BY <1>1, <1>2, <1>4, <1>11
  <2>2. CASE q = u
    <3>1. p # u /\ p \in L /\ ord[p] <= i
      BY <2>1, <2>2, <1>4, <1>11
    <3>2. p \in LP(u)
      BY <2>2, <3>1 DEF LP, L, LivePred
    <3> QED BY <2>2, <3>1, <3>2, <1>12, <1>15
  <2>3. CASE q # u /\ ord[q] <= i
    <3>1. q \in L /\ p # u /\ p \in L /\ ord[p] <= i
      BY <2>1, <2>3, <1>4, <1>11
    <3>2. x \in A(q)
      BY <2>3, <3>1, <1>15
    <3>3. x \in A(p)
      BY <2>3, <3>1, <3>2, <1>3 DEF A
    <3> QED BY <3>1, <3>3, <1>15
  <2>4. CASE q # u /\ ~ (ord[q] <= i)
    <3>1. ord[q] # i + 1
      BY <2>1, <2>4, <1>1, <1>4
    <3>2. ord[x] > i + 1
      BY <2>1, <2>4, <3>1
    <3>3. q \in L /\ u \in L
      BY <2>1, <2>4, <1>17
    <3>4. p \in L
      BY <3>3, <1>11
    <3>5. x \in A(q)
      BY <3>3, <1>14
    <3>6. x \in B /\ ord[x] \in Nat
      BY <3>3, <3>5, <1>1, <1>2, <1>5 DEF A
    <3>7. x \in A(p)
      <4>1. ord[x] > i
        BY <3>2, <3>6
      <4> QED BY <3>3, <3>4, <3>5, <4>1, <1>3 DEF A
    <3>8. x \notin A(u)
      <4>1. SUFFICES ASSUME x \in A(u) PROVE FALSE
        OBVIOUS
      <4>2. ord[x] <= ord[u]
        BY <3>3, <4>1, <1>6 DEF A
      <4> QED BY <4>2, <3>2, <3>6, <1>4
    <3> QED BY <3>4, <3>7, <3>8, <1>14
  <2> QED BY <2>2, <2>3, <2>4
<1>21. Agreed(g, d2)
  <2> SUFFICES ASSUME NEW b \in L2, b # entry_bloc,
                      NEW x, \A p \in LivePred(g, d2, b) : x \in A2(p)
               PROVE  x \in A2(b)
    BY DEF Agreed, L2, A2
  <2>1. b \in B
    BY <1>2, <1>4, <1>11
  <2>2. \A p \in LP(b) : x \in A2(p) /\ p \in L
    BY <2>1, <1>16
  <2>3. \A p \in LP(b) : x \in A(p)
    BY <2>2, <1>14
  <2>4. CASE b = u
    BY <2>3, <2>4, <1>12
  <2>5. CASE b # u
    <3>1. b \in L
      BY <2>5, <1>11
    <3>2. x \in A(b)
      BY <2>3, <3>1, <1>3 DEF A, LP
    <3>3. ASSUME u \in A(b), x \in A(u) PROVE x \in A2(u)
      <4>1. PICK p \in L : p \in LP(b) /\ u \in A(p)
        BY <2>5, <3>1, <3>3, <1>18
      <4>2. x \in A2(p)
        BY <4>1, <2>2
      <4> QED BY <4>1, <4>2, <3>3, <1>14
    <3> QED BY <3>1, <3>2, <3>3, <1>14
  <2> QED BY <2>4, <2>5
<1>22. Dominated(g, d2)
  <2> DEFINE Shown(y) == \A x \in B : DominatesByDefinition(g, x, y) => x \in A2(y)
             S == {y \in B : y \in L2 => Shown(y)}
  <2>1. ASSUME NEW y \in B, \A a \in B : ord[a] < ord[y] => a \in S
        PROVE  y \in S
    <3> SUFFICES ASSUME y \in L2, NEW x \in B, DominatesByDefinition(g, x, y)
                 PROVE  x \in A2(y)
      OBVIOUS
    <3> HIDE DEF Shown, S
    <3>1. CASE y = u
      <4>1. CASE x = u
        BY <3>1, <4>1, <1>12
      <4>2. CASE x # u
        <5>1. ASSUME NEW p \in LP(u) PROVE x \in A(p)
          <6>1. p \in L /\ p \in Blocs(g) /\ u \in Succ(g, p) /\ x \in Blocs(g)
            BY <1>2 DEF LP, LivePred, L, B
          <6>2. DominatesByDefinition(g, x, p)
            BY <6>1, <3>1, <4>2, <1>1, DominatesBefore
          <6> QED BY <6>1, <6>2, <1>3 DEF A
        <5> QED BY <5>1, <3>1, <1>12
      <4> QED BY <4>1, <4>2
    <3>2. CASE y # u
      <4>1. y \in L /\ x \in A(y)
        <5>1. y \in L
          BY <3>2, <1>11
        <5> QED BY <5>1, <1>3 DEF A
      <4>2. ASSUME u \in A(y), x \in A(u) PROVE x \in A2(u)
        <5>1. PICK p \in L : p \in LP(y) /\ ord[p] < ord[y] /\ u \in A(p)
          BY <3>2, <4>1, <4>2, <1>18
        <5>2. p \in Blocs(g) /\ y \in Succ(g, p) /\ p \in B /\ p \in L2
          BY <5>1, <1>2, <1>11 DEF LP, LivePred, B
        <5>3. x # y
          <6>1. ord[u] < ord[y] /\ u \in L
            BY <3>2, <4>1, <4>2, <1>5, <1>6 DEF A
          <6>2. ord[x] <= ord[u]
            BY <6>1, <4>2, <1>6 DEF A
          <6> QED BY <6>1, <6>2, <1>1, <1>4
        <5>4. DominatesByDefinition(g, x, p)
          BY <5>2, <5>3, <1>1, DominatesBefore DEF B
        <5>5. x \in A2(p)
          BY <5>1, <5>2, <5>4, <2>1 DEF S, Shown
        <5> QED BY <5>1, <5>5, <4>2, <1>14
      <4> QED BY <4>1, <4>2, <1>14
    <3> QED BY <3>1, <3>2
  <2>2. B \subseteq S
    <3> HIDE DEF S
    <3> QED BY <1>1, <2>1, OrderInduction
  <2>3. \A y \in L2 : y \in B
    BY <1>2, <1>4, <1>11
  <2> QED BY <2>2, <2>3 DEF Dominated, L2, A2, B
<1>23. ASSUME d[u] # nil, c # d[u] PROVE ord[c] < ord[d[u]]
  <2>1. u \in L
    BY <1>2, <1>4, <1>23
  <2>2. d[u] \in L /\ A(u) = {u} \cup A(d[u])
    BY <2>1, <1>2, <1>4, LineRec DEF L, A
  <2>3. c \in A2(u)
    BY <1>5, <1>8, <1>11 DEF A2
  <2>4. c \in A(u)
    BY <2>1, <2>3, <1>13
  <2>5. c # u
    BY <1>1, <1>4, <1>9
  <2> QED BY <2>2, <2>4, <2>5, <1>6, <1>23 DEF A
<1> QED BY <1>2, <1>8, <1>10, <1>11, <1>19, <1>20, <1>21, <1>22, <1>23 DEF Halfway, B, ord

\* One step of a pass.
Updated(g, d, b) == IF b = entry_bloc THEN d
                    ELSE [d EXCEPT ![b] = NewIdom(g, Ordering(g), d, b)]

LEMMA PassRec ==
  ASSUME NEW g, Ready(g), NEW d \in Tree(g)
  PROVE  \E f : /\ f[0] = d /\ f[Len(g.pool)] = Pass(g, Ordering(g), d)
                /\ \A i \in 0 .. Len(g.pool) : f[i] \in Tree(g)
                /\ \A i \in 1 .. Len(g.pool) : f[i] = Updated(g, f[i - 1], g.pool[i])
<1> DEFINE ord == Ordering(g)   N == Len(g.pool)   T == Tree(g)
           pass[i \in 0 .. Len(g.pool)] ==
             IF i = 0 THEN d
             ELSE LET b == g.pool[i]
                      prior == pass[i - 1]
                  IN IF b = entry_bloc THEN prior
                     ELSE [prior EXCEPT ![b] = NewIdom(g, ord, prior, b)]
           step(i, x) == Updated(g, x, g.pool[i])
           F == [i \in 1 .. N |-> [x \in T |-> step(i, x)]]
<1>1. Pass(g, ord, d) = pass[N]
  BY Zenon DEF Pass
<1>2. N \in Nat /\ \A i \in 1 .. N : g.pool[i] \in Blocs(g)
  BY ReadyFacts
<1>4. ASSUME NEW i \in 1 .. N, NEW x \in T PROVE step(i, x) \in T
  <2> DEFINE b == g.pool[i]   c == NewIdom(g, ord, x, b)
  <2>1. b \in Blocs(g)
    BY <1>2
  <2>2. c \in Ends(g)
    <3>1. PICK f : f[N] = c /\ \A j \in 0 .. N : f[j] \in Ends(g)
      BY <2>1, NewIdomRec
    <3> HIDE DEF c
    <3> QED BY <3>1, <1>2
  <2>3. step(i, x) = IF b = entry_bloc THEN x ELSE [x EXCEPT ![b] = c]
    BY Zenon DEF Updated
  <2> HIDE DEF step, b, c
  <2> QED BY <2>1, <2>2, <2>3 DEF Tree
<1>5. \A i \in 1 .. N : F[i] \in [T -> T] /\ \A x \in T : F[i][x] = step(i, x)
  <2> HIDE DEF step, T
  <2> QED BY <1>4
<1> HIDE DEF F, T, N
<1>7. PICK f : Rec(f, N, T, d, F)
  BY <1>2, <1>5, Recursion DEF T
<1>8. f \in [0 .. N -> T] /\ f[0] = d /\ \A i \in 1 .. N : f[i] = step(i, f[i - 1])
  <2> HIDE DEF step
  <2>1. f \in [0 .. N -> T] /\ f[0] = d /\ \A i \in 1 .. N : f[i] = F[i][f[i - 1]]
    BY <1>7 DEF Rec
  <2>2. \A i \in 1 .. N : i - 1 \in 0 .. N
    BY <1>2
  <2> QED BY <2>1, <2>2, <1>5
<1>9. pass = [i \in 0 .. N |-> IF i = 0 THEN d ELSE step(i, pass[i - 1])]
  <2>1. f = [i \in 0 .. N |-> IF i = 0 THEN d ELSE step(i, f[i - 1])]
    <3> HIDE DEF step
    <3>1. \A i \in 0 .. N : i # 0 => i \in 1 .. N
      BY <1>2
    <3> QED BY <1>8, <3>1
  <2>2. f = [i \in 0 .. Len(g.pool) |->
               IF i = 0 THEN d
               ELSE LET b == g.pool[i]
                        prior == f[i - 1]
                    IN IF b = entry_bloc THEN prior
                       ELSE [prior EXCEPT ![b] = NewIdom(g, ord, prior, b)]]
    BY Zenon, <2>1 DEF Updated, N
  <2>3. pass = [i \in 0 .. Len(g.pool) |->
               IF i = 0 THEN d
               ELSE LET b == g.pool[i]
                        prior == pass[i - 1]
                    IN IF b = entry_bloc THEN prior
                       ELSE [prior EXCEPT ![b] = NewIdom(g, ord, prior, b)]]
    <3> HIDE DEF ord
    <3> QED BY ZenonT(60), <2>2 DEF pass
  <2> HIDE DEF pass
  <2> QED BY Zenon, <2>3 DEF Updated, N
<1> HIDE DEF pass
<1>10. pass[0] = d /\ \A i \in 1 .. N : pass[i] = step(i, pass[i - 1])
  <2> HIDE DEF step
  <2>1. 0 \in 0 .. N /\ \A i \in 1 .. N : i \in 0 .. N /\ i # 0
    BY <1>2
  <2> QED BY <1>9, <2>1
<1>11. \A i \in 0 .. N : pass[i] \in T
  <2> DEFINE S == {i \in Nat : i <= N => pass[i] \in T}
  <2>1. 0 \in S
    BY <1>10 DEF T
  <2>2. ASSUME NEW i \in Nat, i \in S PROVE i + 1 \in S
    <3> SUFFICES ASSUME i + 1 <= N PROVE pass[i + 1] \in T
      OBVIOUS
    <3> HIDE DEF step
    <3>1. i + 1 \in 1 .. N /\ (i + 1) - 1 = i /\ pass[i] \in T
      BY <2>2, <1>2
    <3>2. pass[i + 1] = step(i + 1, pass[(i + 1) - 1])
      BY <3>1, <1>10
    <3> QED BY <3>1, <3>2, <1>4
  <2> HIDE DEF S
  <2>3. Nat \subseteq S
    BY <2>1, <2>2, Induction
  <2> QED BY <2>3, <1>2 DEF S
<1> QED BY <1>1, <1>10, <1>11 DEF N, T, ord

\* What a pass has come to when a new one begins.
LEMMA HalfwayAgain ==
  ASSUME NEW g, Ready(g), NEW d, Halfway(g, d, Len(g.pool))
  PROVE  Halfway(g, d, 1)
<1>1. \A b \in Blocs(g) : Ordering(g)[b] \in 1 .. Len(g.pool) /\ Len(g.pool) \in Nat
  BY ReadyFacts
<1>2. Covered(g, d, 1)
  <2>1. \A b \in Blocs(g) : b \in Live(g, d)
    BY <1>1 DEF Halfway, Covered
  <2> QED BY <2>1 DEF Covered
<1>3. Inherited(g, d, 1)
  <2>1. \A q \in Live(g, d) : Ordering(g)[q] <= Len(g.pool)
    BY <1>1 DEF Live
  <2> QED BY <2>1 DEF Halfway, Inherited
<1> QED BY <1>2, <1>3 DEF Halfway

\* How far the dominators are from the entry, and the blocs from having one.
Weight(g, d) ==
  {w \in Blocs(g) \X (1 .. Len(g.pool)) : d[w[1]] = nil \/ w[2] <= Ordering(g)[d[w[1]]]}

\* A pass brings dominators nearer to the entry, if it changes anything; when it
\* does not, each bloc has the dominator that its predecessors give it.
LEMMA PassFacts ==
  ASSUME NEW g, Ready(g), NEW d, Halfway(g, d, 1)
  PROVE  LET d2 == Pass(g, Ordering(g), d)
         IN  /\ d2 \in Tree(g) /\ Halfway(g, d2, Len(g.pool))
             /\ Weight(g, d2) \subseteq Weight(g, d)
             /\ d2 # d => Weight(g, d2) # Weight(g, d)
             /\ d2 = d => \A b \in Blocs(g) : b # entry_bloc => d[b] = NewIdom(g, Ordering(g), d, b)
<1> DEFINE N == Len(g.pool)   B == Blocs(g)   ord == Ordering(g)   d2 == Pass(g, Ordering(g), d)
<1>1. d \in Tree(g)
  BY DEF Halfway, Forest, Tree, Ends
<1>2. PICK f : /\ f[0] = d /\ f[N] = d2 /\ \A i \in 0 .. N : f[i] \in Tree(g)
               /\ \A i \in 1 .. N : f[i] = Updated(g, f[i - 1], g.pool[i])
  BY <1>1, PassRec
<1>3. /\ N \in Nat /\ entry_bloc \in B /\ ord[entry_bloc] = 1 /\ nil \notin B
      /\ \A b \in B : ord[b] \in 1 .. N /\ g.pool[ord[b]] = b /\ (b # entry_bloc => ord[b] > 1)
      /\ \A i \in 1 .. N : g.pool[i] \in B /\ ord[g.pool[i]] = i
  <2>1. \A b \in B : g.pool[ord[b]] = b
    BY OrderingFacts DEF Ready
  <2> QED BY <2>1, ReadyFacts
<1> HIDE DEF d2, N, B, ord
<1>4. f[1] = d
  <2>1. 1 \in 1 .. N /\ g.pool[1] = entry_bloc /\ 1 - 1 = 0
    BY <1>3
  <2> QED BY <2>1, <1>2 DEF Updated
\* What step i does.
<1>5. ASSUME NEW i \in 2 .. N
      PROVE  LET u == g.pool[i]   v == f[i - 1]   w == f[i]
             IN  /\ u \in B /\ u # entry_bloc /\ ord[u] = i
                 /\ w[u] = NewIdom(g, ord, v, u) /\ \A b \in B \ {u} : w[b] = v[b]
  <2>1. i \in 1 .. N /\ i - 1 \in 0 .. N /\ i # 1
    BY <1>3
  <2>2. g.pool[i] \in B /\ ord[g.pool[i]] = i
    BY <2>1, <1>3
  <2>3. g.pool[i] # entry_bloc
    BY <2>1, <2>2, <1>3
  <2>4. f[i] = [f[i - 1] EXCEPT ![g.pool[i]] = NewIdom(g, ord, f[i - 1], g.pool[i])]
    BY <2>1, <2>3, <1>2 DEF Updated, ord
  <2>5. f[i - 1] \in Tree(g)
    BY <2>1, <1>2
  <2> QED BY <2>2, <2>3, <2>4, <2>5 DEF Tree, B
<1> DEFINE Nearer2(b, v) == d[b] # nil => v[b] # nil /\ ord[v[b]] <= ord[d[b]]
           P(i) == /\ Halfway(g, f[i], i)
                   /\ \A b \in B : /\ Nearer2(b, f[i])
                                   /\ ord[b] > i => f[i][b] = d[b]
                                   /\ f[i][b] = d[b] \/ d[b] = nil \/ ord[f[i][b]] < ord[d[b]]
           S == {i \in Nat : 1 <= i /\ i <= N => P(i)}
<1>6. \A b \in B : d[b] # nil => ord[d[b]] \in Nat
  BY <1>1, <1>3 DEF Tree, Ends, B
<1>7. 0 \in S
  OBVIOUS
<1>8. ASSUME NEW k \in Nat, k \in S PROVE k + 1 \in S
  <2> SUFFICES ASSUME k + 1 <= N PROVE P(k + 1)
    OBVIOUS
  <2>1. CASE k = 0
    BY <2>1, <1>3, <1>4, <1>6
  <2>2. CASE k # 0
    <3> DEFINE i == k + 1   u == g.pool[k + 1]   v == f[k]   w == f[k + 1]
    <3>1. P(k) /\ i \in 2 .. N /\ i - 1 = k
      BY <2>2, <1>3, <1>8
    <3> HIDE DEF P, S
    <3>2. /\ u \in B /\ u # entry_bloc /\ ord[u] = k + 1
          /\ w[u] = NewIdom(g, ord, v, u) /\ \A b \in B \ {u} : w[b] = v[b]
      BY <3>1, <1>5
    <3>3. w \in Tree(g)
      BY <3>1, <1>2, <1>3
    <3>4. Halfway(g, v, k)
      BY <3>1 DEF P
    <3> HIDE DEF u, v, w
    <3>5. /\ Halfway(g, w, k + 1) /\ w[u] \in B
          /\ v[u] # nil /\ w[u] # v[u] => ord[w[u]] < ord[v[u]]
      BY <3>2, <3>3, <3>4, UpdateKeeps DEF B, ord
    <3>6. v[u] = d[u]
      BY <3>1, <3>2 DEF P, v
    <3>7. \A b \in B : /\ Nearer2(b, v)
                       /\ ord[b] > k => v[b] = d[b]
                       /\ v[b] = d[b] \/ d[b] = nil \/ ord[v[b]] < ord[d[b]]
      BY <3>1 DEF P, v
    <3>8. ASSUME NEW b \in B
          PROVE  /\ Nearer2(b, w)
                 /\ ord[b] > k + 1 => w[b] = d[b]
                 /\ w[b] = d[b] \/ d[b] = nil \/ ord[w[b]] < ord[d[b]]
      <4>1. CASE b = u
        <5>1. w[u] # nil /\ ord[w[u]] \in Nat
          BY <3>5, <1>3
        <5> QED BY <4>1, <5>1, <3>2, <3>5, <3>6, <1>6
      <4>2. CASE b # u
        BY <4>2, <3>2, <3>7, <1>3
      <4> QED BY <4>1, <4>2
    <3> HIDE DEF Nearer2
    <3> QED BY <3>5, <3>8 DEF P, w
  <2> QED BY <2>1, <2>2
<1>9. \A i \in 1 .. N : P(i)
  <2> HIDE DEF S, P
  <2>1. Nat \subseteq S
    BY <1>7, <1>8, Induction
  <2> QED BY <2>1, <1>3 DEF S
<1>10. N \in 1 .. N
  BY <1>3
<1>11. /\ Halfway(g, d2, N)
       /\ \A b \in B : /\ d[b] # nil => d2[b] # nil /\ ord[d2[b]] <= ord[d[b]]
                       /\ d2[b] = d[b] \/ d[b] = nil \/ ord[d2[b]] < ord[d[b]]
  BY <1>2, <1>9, <1>10
<1>12. d2 \in Tree(g)
  BY <1>2, <1>3
<1> HIDE DEF P, S, Nearer2
<1>13. \A b \in B : d2[b] # nil /\ d2[b] \in B /\ ord[d2[b]] \in Nat /\ (b # entry_bloc => ord[d2[b]] < ord[b])
  <2>1. \A b \in B : b \in Live(g, d2)
    BY <1>3, <1>11 DEF Halfway, Covered, B, ord
  <2> QED BY <2>1, <1>3, <1>11, <1>12 DEF Halfway, Forest, Live, Tree, Ends, B, ord
<1>14. Weight(g, d2) \subseteq Weight(g, d)
  <2> SUFFICES ASSUME NEW b \in B, NEW n \in 1 .. N, n <= ord[d2[b]]
               PROVE  d[b] = nil \/ n <= ord[d[b]]
    BY <1>13 DEF Weight, B, N, ord
  <2> QED BY <1>3, <1>6, <1>11, <1>13
<1>15. ASSUME d2 # d PROVE Weight(g, d2) # Weight(g, d)
  <2>1. PICK b \in B : d2[b] # d[b]
    BY <1>1, <1>12, <1>15 DEF Tree, B
  <2>2. CASE d[b] = nil
    <3>1. <<b, N>> \in Weight(g, d)
      BY <2>2, <1>10 DEF Weight, B, N
    <3>2. ord[d2[b]] < N
      <4>1. b # entry_bloc
        BY <2>2, <1>3, <1>13, <1>11 DEF Halfway, Forest
      <4> QED BY <4>1, <1>3, <1>13
    <3>3. <<b, N>> \notin Weight(g, d2)
      BY <3>2, <1>3, <1>13 DEF Weight, B, ord
    <3> QED BY <3>1, <3>3
  <2>3. CASE d[b] # nil
    <3> DEFINE n == ord[d[b]]
    <3>1. n \in 1 .. N
      BY <2>3, <1>1, <1>3 DEF Tree, Ends, B
    <3>2. ord[d2[b]] < n
      BY <2>1, <2>3, <1>11
    <3>3. <<b, n>> \in Weight(g, d)
      BY <3>1 DEF Weight, B, N, ord
    <3>4. <<b, n>> \notin Weight(g, d2)
      <4> HIDE DEF n
      <4> QED BY <3>1, <3>2, <1>3, <1>13 DEF Weight, B, ord
    <3> QED BY <3>3, <3>4
  <2> QED BY <2>2, <2>3
\* A bloc that the pass leaves alone.
<1>16. ASSUME d2 = d, NEW b \in B, b # entry_bloc PROVE d[b] = NewIdom(g, ord, d, b)
  <2> DEFINE Late(i) == \A a \in B : ord[a] <= i => d2[a] = f[i][a]
             U == {k \in Nat : k < N => Late(N - k)}
  <2>1. 0 \in U
    BY <1>2, <1>3
  <2>2. ASSUME NEW k \in Nat, k \in U PROVE k + 1 \in U
    <3> SUFFICES ASSUME k + 1 < N, NEW a \in B, ord[a] <= N - (k + 1)
                 PROVE  d2[a] = f[N - (k + 1)][a]
      OBVIOUS
    <3> DEFINE j == N - k
    <3>1. j \in 2 .. N /\ N - (k + 1) = j - 1 /\ ord[a] <= j - 1 /\ ord[a] \in Nat /\ j \in Nat
      BY <1>3
    <3>2. Late(j)
      BY <2>2, <1>3
    <3> HIDE DEF j, U
    <3>3. g.pool[j] # a /\ \A c \in B \ {g.pool[j]} : f[j][c] = f[j - 1][c]
      BY <3>1, <1>5
    <3>4. f[j][a] = f[j - 1][a]
      BY <3>3
    <3>5. d2[a] = f[j][a]
      BY <3>1, <3>2
    <3> QED BY <3>1, <3>4, <3>5
  <2>3. Nat \subseteq U
    <3> HIDE DEF U
    <3> QED BY <2>1, <2>2, Induction
  <2>4. ASSUME NEW i \in 1 .. N PROVE f[i] = d
    <3>1. N - i \in Nat /\ N - i < N /\ N - (N - i) = i
      BY <1>3
    <3>2. Late(N - (N - i))
      BY <2>3, <3>1
    <3>3. \A a \in B : ord[a] <= i => f[i][a] = d[a]
      BY <3>1, <3>2, <1>16
    <3>4. \A a \in B : ord[a] > i => f[i][a] = d[a]
      BY <1>9 DEF P
    <3>5. \A a \in B : f[i][a] = d[a]
      BY <3>3, <3>4, <1>3
    <3>6. f[i] \in Tree(g)
      BY <1>2, <1>3
    <3> QED BY <3>5, <3>6, <1>1 DEF Tree, B
  <2> DEFINE i == ord[b]
  <2>5. i \in 2 .. N /\ g.pool[i] = b /\ i - 1 \in 1 .. N /\ i \in 1 .. N
    BY <1>3, <1>16
  <2> HIDE DEF i
  <2>6. f[i][b] = NewIdom(g, ord, f[i - 1], b)
    BY <2>5, <1>5
  <2> QED BY <2>4, <2>5, <2>6
<1> QED BY <1>11, <1>12, <1>14, <1>15, <1>16 DEF d2, N, B, ord

LEMMA FixpointRec ==
  ASSUME NEW g, Ready(g)
  PROVE  \A n \in Nat : \A d \in Tree(g) :
           DominatorFixpoint(g, Ordering(g))[n][d] =
             IF n = 0 \/ Pass(g, Ordering(g), d) = d THEN d
             ELSE DominatorFixpoint(g, Ordering(g))[n - 1][Pass(g, Ordering(g), d)]
<1> DEFINE ord == Ordering(g)   T == Tree(g)   V == [T -> T]
           passed(d) == Pass(g, ord, d)
           step(n, x) == [d \in T |-> IF n = 0 \/ passed(d) = d THEN d ELSE x[passed(d)]]
           fixpoint[n \in Nat] ==
             [idom \in [Blocs(g) -> Blocs(g) \union {nil}] |->
               LET next == Pass(g, ord, idom)
               IN  IF n = 0 \/ next = idom THEN idom ELSE fixpoint[n - 1][next]]
           a == [d \in T |-> d]
           F == [n \in Nat |-> [x \in V |-> step(n, x)]]
<1>1. DominatorFixpoint(g, ord) = fixpoint
  BY Zenon DEF DominatorFixpoint
<1>2. \A d \in T : passed(d) \in T
  <2>1. ASSUME NEW d \in T PROVE passed(d) \in T
    <3>1. PICK f : f[Len(g.pool)] = passed(d) /\ \A i \in 0 .. Len(g.pool) : f[i] \in T
      BY PassRec
    <3>2. Len(g.pool) \in 0 .. Len(g.pool)
      BY ReadyFacts
    <3> HIDE DEF passed
    <3> QED BY <3>1, <3>2
  <2> QED BY <2>1
<1> HIDE DEF passed
<1>3. ASSUME NEW n \in Nat, NEW x \in V PROVE step(n, x) \in V
  <2> HIDE DEF T
  <2> QED BY <1>2
<1>4. \A n \in Nat : F[n] \in [V -> V] /\ \A x \in V : F[n][x] = step(n, x)
  <2> HIDE DEF step, V
  <2> QED BY <1>3
<1>5. a \in V
  OBVIOUS
<1> HIDE DEF F
<1>6. PICK f : NatRec(f, V, a, F)
  <2> HIDE DEF V, a
  <2> QED BY <1>4, <1>5, NatRecursion
<1>7. ASSUME NEW n \in Nat PROVE f[n] = step(n, f[n - 1])
  <2>1. CASE n = 0
    <3>1. f[0] = a
      BY <1>6 DEF NatRec
    <3>2. step(0, f[0 - 1]) = a
      OBVIOUS
    <3> QED BY <2>1, <3>1, <3>2
  <2>2. CASE n # 0
    <3> HIDE DEF step, V
    <3>1. n - 1 \in Nat /\ (n - 1) + 1 = n
      BY <2>2
    <3>2. f[(n - 1) + 1] = F[(n - 1) + 1][f[n - 1]] /\ f[n - 1] \in V
      BY <3>1, <1>6 DEF NatRec
    <3> QED BY <3>1, <3>2, <1>4
  <2> QED BY <2>1, <2>2
<1>8. fixpoint = [n \in Nat |-> step(n, fixpoint[n - 1])]
  <2>1. f = [n \in Nat |-> step(n, f[n - 1])]
    <3> HIDE DEF step
    <3>1. f = [n \in Nat |-> f[n]]
      BY <1>6 DEF NatRec
    <3> QED BY <3>1, <1>7
  <2>2. f = [n \in Nat |->
             [idom \in [Blocs(g) -> Blocs(g) \union {nil}] |->
               LET next == Pass(g, ord, idom)
               IN  IF n = 0 \/ next = idom THEN idom ELSE f[n - 1][next]]]
    <3> HIDE DEF ord
    <3> QED BY Zenon, <2>1 DEF passed, Tree, Ends
  <2>3. fixpoint = [n \in Nat |->
             [idom \in [Blocs(g) -> Blocs(g) \union {nil}] |->
               LET next == Pass(g, ord, idom)
               IN  IF n = 0 \/ next = idom THEN idom ELSE fixpoint[n - 1][next]]]
    <3> HIDE DEF ord
    <3> QED BY ZenonT(60), <2>2 DEF fixpoint
  <2> HIDE DEF fixpoint, ord
  <2> QED BY Zenon, <2>3 DEF passed, Tree, Ends
<1> HIDE DEF fixpoint
<1>9. ASSUME NEW n \in Nat, NEW d \in T
      PROVE  fixpoint[n][d] = IF n = 0 \/ passed(d) = d THEN d ELSE fixpoint[n - 1][passed(d)]
  <2>1. fixpoint[n] = step(n, fixpoint[n - 1])
    <3> HIDE DEF step
    <3> QED BY <1>8
  <2> HIDE DEF T
  <2> QED BY <2>1
<1> QED BY Zenon, <1>1, <1>9 DEF passed

\* With enough passes, each bloc has the dominator that its predecessors give it.
LEMMA FixpointFacts ==
  ASSUME NEW g, Ready(g), NEW n \in Nat, NEW d, Halfway(g, d, 1), Cardinality(Weight(g, d)) < n
  PROVE  LET e == DominatorFixpoint(g, Ordering(g))[n][d]
         IN  /\ Halfway(g, e, Len(g.pool))
             /\ \A b \in Blocs(g) : b # entry_bloc => e[b] = NewIdom(g, Ordering(g), e, b)
<1> DEFINE ord == Ordering(g)   fix == DominatorFixpoint(g, Ordering(g))   N == Len(g.pool)
           Q(e) == /\ Halfway(g, e, N)
                   /\ \A b \in Blocs(g) : b # entry_bloc => e[b] = NewIdom(g, ord, e, b)
           S == {k \in Nat : \A x : Halfway(g, x, 1) /\ Cardinality(Weight(g, x)) < k => Q(fix[k][x])}
<1>1. \A x : IsFiniteSet(Weight(g, x)) /\ Cardinality(Weight(g, x)) \in Nat
  <2>1. IsFiniteSet(Blocs(g) \X (1 .. N))
    <3>1. IsFiniteSet(Blocs(g)) /\ N \in Nat
      BY PoolFacts DEF Ready, Sane
    <3>2. IsFiniteSet(1 .. N)
      BY <3>1, FS_Interval
    <3> QED BY <3>1, <3>2, FS_Product
  <2>2. ASSUME NEW x PROVE IsFiniteSet(Weight(g, x)) /\ Cardinality(Weight(g, x)) \in Nat
    <3>1. Weight(g, x) \subseteq Blocs(g) \X (1 .. N)
      BY DEF Weight
    <3> QED BY <2>1, <3>1, FS_Subset, FS_CardinalityType
  <2> QED BY <2>2
<1>2. 0 \in S
  <2>1. \A x : ~ (Cardinality(Weight(g, x)) < 0)
    BY <1>1
  <2> HIDE DEF Q, fix
  <2> QED BY <2>1
<1>3. ASSUME NEW k \in Nat, k \in S PROVE k + 1 \in S
  <2> SUFFICES ASSUME NEW x, Halfway(g, x, 1), Cardinality(Weight(g, x)) < k + 1
               PROVE  Q(fix[k + 1][x])
    OBVIOUS
  <2> DEFINE x2 == Pass(g, ord, x)
  <2>1. x \in Tree(g)
    BY DEF Halfway, Forest, Tree, Ends
  <2>2. fix[k + 1][x] = IF x2 = x THEN x ELSE fix[k][x2]
    <3>1. k + 1 \in Nat /\ k + 1 # 0 /\ (k + 1) - 1 = k
      OBVIOUS
    <3>2. fix[k + 1][x] = IF k + 1 = 0 \/ x2 = x THEN x ELSE fix[(k + 1) - 1][x2]
      BY <2>1, <3>1, FixpointRec
    <3> HIDE DEF fix, x2
    <3> QED BY <3>1, <3>2
  <2>3. /\ Halfway(g, x2, N)
        /\ Weight(g, x2) \subseteq Weight(g, x)
        /\ x2 # x => Weight(g, x2) # Weight(g, x)
        /\ x2 = x => \A b \in Blocs(g) : b # entry_bloc => x[b] = NewIdom(g, ord, x, b)
    BY PassFacts
  <2> HIDE DEF x2, fix, S, ord
  <2>4. CASE x2 = x
    BY <2>2, <2>3, <2>4
  <2>5. CASE x2 # x
    <3>1. Cardinality(Weight(g, x2)) <= Cardinality(Weight(g, x))
          /\ Cardinality(Weight(g, x2)) # Cardinality(Weight(g, x))
      BY <2>3, <2>5, <1>1, FS_Subset
    <3>2. Cardinality(Weight(g, x2)) < k
      BY <3>1, <1>1
    <3>3. Halfway(g, x2, 1)
      BY <2>3, HalfwayAgain
    <3> HIDE DEF Q
    <3> QED BY <2>2, <2>5, <3>2, <3>3, <1>3 DEF S
  <2> QED BY <2>4, <2>5
<1>4. Nat \subseteq S
  <2> HIDE DEF S
  <2> QED BY <1>2, <1>3, Induction
<1>5. Q(fix[n][d])
  <2> HIDE DEF Q, fix
  <2> QED BY <1>4
<1> QED BY <1>5

\* The entry is the first to have a dominator, itself.
First(g) == [b \in Blocs(g) |-> IF b = entry_bloc THEN entry_bloc ELSE nil]

LEMMA FirstHalfway ==
  ASSUME NEW g, Ready(g)
  PROVE  Halfway(g, First(g), 1) /\ Cardinality(Weight(g, First(g))) < Len(g.pool) * Len(g.pool) + 1
<1> DEFINE d == First(g)   N == Len(g.pool)   B == Blocs(g)
<1>1. /\ entry_bloc \in B /\ nil \notin B /\ N \in Nat /\ Ordering(g)[entry_bloc] = 1
      /\ \A b \in B : Ordering(g)[b] \in 1 .. N /\ (b # entry_bloc => Ordering(g)[b] > 1)
  BY ReadyFacts
<1>2. d \in [B -> B \cup {nil}] /\ d[entry_bloc] = entry_bloc
      /\ \A b \in B : b # entry_bloc => d[b] = nil
  BY <1>1 DEF First
<1> HIDE DEF d
<1>3. Live(g, d) = {entry_bloc} /\ Forest(g, d)
  BY <1>1, <1>2 DEF Live, Forest
<1>4. Line(d, entry_bloc) = {entry_bloc}
  BY <1>3, LineRec
<1>5. Covered(g, d, 1)
  BY <1>1, <1>3 DEF Covered
<1>6. Inherited(g, d, 1) /\ Agreed(g, d)
  BY <1>1, <1>3 DEF Inherited, Agreed
<1>7. Dominated(g, d)
  <2>1. ASSUME NEW x \in B, DominatesByDefinition(g, x, entry_bloc) PROVE x = entry_bloc
    <3>1. {entry_bloc} \in SUBSET Blocs(g) /\ Sane(g)
      BY <1>1 DEF Ready
    <3>2. entry_bloc \in Closure(g, {entry_bloc}, {x})
      BY <3>1, ClosureFacts
    <3> QED BY <2>1, <3>2 DEF DominatesByDefinition
  <2> QED BY <2>1, <1>3, <1>4 DEF Dominated
<1>8. Cardinality(Weight(g, d)) < N * N + 1
  <2> DEFINE W == B \X (1 .. N)
  <2>1. IsFiniteSet(B) /\ Cardinality(B) = N
    BY PoolFacts DEF Ready, Sane
  <2>2. IsFiniteSet(1 .. N) /\ Cardinality(1 .. N) = N
    BY <1>1, FS_Interval
  <2>3. IsFiniteSet(W) /\ Cardinality(W) = N * N
    <3> DEFINE I == 1 .. N
    <3>1. IsFiniteSet(I) /\ Cardinality(I) = N
      BY <2>2
    <3> HIDE DEF B, I, N
    <3>2. IsFiniteSet(B \X I) /\ Cardinality(B \X I) = Cardinality(B) * Cardinality(I)
      BY <2>1, <3>1, FS_Product
    <3>3. Cardinality(B) * Cardinality(I) = N * N
      BY <2>1, <3>1
    <3> QED BY <3>2, <3>3 DEF I
  <2>4. Weight(g, d) \subseteq W
    BY DEF Weight
  <2> HIDE DEF W, N
  <2>5. Cardinality(Weight(g, d)) <= N * N /\ IsFiniteSet(Weight(g, d))
    BY <2>3, <2>4, FS_Subset
  <2>6. Cardinality(Weight(g, d)) \in Nat
    BY <2>5, FS_CardinalityType
  <2>7. N * N \in Nat
    BY <1>1
  <2> QED BY <2>5, <2>6, <2>7
<1> QED BY <1>3, <1>5, <1>6, <1>7, <1>8 DEF Halfway, d

\* The tree that the iteration ends with is the relation of dominance.
LEMMA IdomExact ==
  ASSUME NEW g, Ready(g), NEW a \in Blocs(g), NEW b \in Blocs(g)
  PROVE  Dominates(Idom(g), a, b) <=> DominatesByDefinition(g, a, b)
<1> DEFINE d == Idom(g)   N == Len(g.pool)   B == Blocs(g)
<1>1. /\ Halfway(g, d, N)
      /\ \A y \in B : y # entry_bloc => d[y] = NewIdom(g, Ordering(g), d, y)
  <2>1. N * N + 1 \in Nat
    BY ReadyFacts
  <2>2. d = DominatorFixpoint(g, Ordering(g))[N * N + 1][First(g)]
    BY Zenon DEF Idom, First
  <2> HIDE DEF d
  <2> QED BY <2>1, <2>2, FirstHalfway, FixpointFacts
<1> HIDE DEF d
<1>2. Forest(g, d) /\ Live(g, d) = B
  <2>1. \A y \in B : y \in Live(g, d)
    BY <1>1, ReadyFacts DEF Halfway, Covered
  <2> QED BY <2>1, <1>1 DEF Halfway, Live
<1>3. Dominates(d, a, b) <=> a \in Line(d, b)
  BY <1>2, LineDominates
<1>4. DominatesByDefinition(g, a, b) => a \in Line(d, b)
  BY <1>1, <1>2 DEF Halfway, Dominated
<1>5. ASSUME a \in Line(d, b), a # b, a # entry_bloc PROVE DominatesByDefinition(g, a, b)
  <2> DEFINE R == {y \in B : a \notin Line(d, y)}
  <2>1. entry_bloc \in R
    <3>1. entry_bloc \in B
      BY ReadyFacts
    <3>2. Line(d, entry_bloc) = {entry_bloc}
      BY <3>1, <1>2, LineRec
    <3> QED BY <3>1, <3>2, <1>5
  <2>2. ASSUME NEW q \in R, NEW s \in Succ(g, q) \ {a} PROVE s \in R
    <3>1. s \in B /\ q \in B
      <4>1. q \in B /\ nil \notin B
        BY ReadyFacts
      <4> QED BY <4>1 DEF Ready, Sane, Linked, Succ, ExitsTo, Targets
    <3>2. CASE s = entry_bloc
      BY <3>2, <2>1
    <3>3. CASE s # entry_bloc
      <4> DEFINE c == NewIdom(g, Ordering(g), d, s)
      <4>1. q \in LivePred(g, d, s)
        BY <3>1, <1>2 DEF LivePred
      <4>2. \A x : x \in Line(d, c) <=> \A p \in LivePred(g, d, s) : x \in Line(d, p)
        BY <3>1, <4>1, <1>2, NewIdomFacts
      <4>3. d[s] = c
        BY <3>1, <3>3, <1>1
      <4> HIDE DEF c
      <4>4. Line(d, s) = {s} \cup Line(d, c)
        BY <3>1, <3>3, <4>3, <1>2, LineRec
      <4>5. a \notin Line(d, c)
        BY <4>1, <4>2
      <4> QED BY <3>1, <4>4, <4>5
    <3> QED BY <3>2, <3>3
  <2>3. b \notin R
    BY <1>5
  <2> HIDE DEF R
  <2>4. \A q \in R : Succ(g, q) \ {a} \subseteq R
    BY <2>2
  <2> QED BY <2>1, <2>3, <2>4, <1>5, DominatesLeast DEF Ready
<1>6. a = b \/ a = entry_bloc => DominatesByDefinition(g, a, b)
  BY DEF DominatesByDefinition
<1> QED BY <1>3, <1>4, <1>5, <1>6 DEF d

-----------------------------------------------------------------------------
(* Graphs as functions, from a bloc to the set of its successors.          *)

Arcs(g) == [b \in Blocs(g) |-> Succ(g, b)]

Enclosed(E) == entry_bloc \in DOMAIN E /\ \A b \in DOMAIN E : E[b] \subseteq DOMAIN E

\* The entry leads to every bloc.
Connected(E) ==
  \A S \in SUBSET DOMAIN E :
    entry_bloc \in S /\ (\A b \in S : E[b] \subseteq S) => S = DOMAIN E

\* The entry is in R, that only v follows: v dominates what is outside of R.
Fenced(E, R, v) ==
  R \subseteq DOMAIN E /\ entry_bloc \in R /\ v \notin R /\ \A x \in R : E[x] \subseteq R \cup {v}

\* v dominates u.
Guards(E, v, u) == v = u \/ v = entry_bloc \/ \E R : Fenced(E, R, v) /\ u \notin R

\* An edge that the ranks r do not follow leads to a dominator of its origin.
RankedBy(E, r) ==
  /\ r \in [DOMAIN E -> Nat]
  /\ \A u \in DOMAIN E : \A v \in E[u] : r[u] < r[v] \/ Guards(E, v, u)

Ranked(E) == \E r : RankedBy(E, r) /\ \E k \in Nat : \A b \in DOMAIN E : r[b] <= k

\* The part M of the graph is entered at its head only.
Headed(E, M, head) ==
  /\ M \subseteq DOMAIN E /\ head \in M /\ entry_bloc \notin M \ {head}
  /\ \A x \in (DOMAIN E) \ M : E[x] \cap M \subseteq {head}

\* ... which leads to all of it.
LEMMA HeadLeads ==
  ASSUME NEW E, Enclosed(E), Connected(E), NEW M, NEW a, Headed(E, M, a),
         NEW R, a \in R, \A x \in R \cap M : E[x] \cap M \subseteq R
  PROVE  M \subseteq R
<1> DEFINE B == DOMAIN E   S == (B \ M) \cup (R \cap M)
<1>1. S \in SUBSET B /\ entry_bloc \in S
  BY DEF Enclosed, Headed
<1>2. ASSUME NEW b \in S PROVE E[b] \subseteq S
  <2>1. b \in B /\ E[b] \subseteq B
    BY <1>1 DEF Enclosed
  <2>2. E[b] \cap M \subseteq R
    <3>1. CASE b \in M
      BY <3>1
    <3>2. CASE b \notin M
      BY <2>1, <3>2 DEF Headed
    <3> QED BY <3>1, <3>2
  <2> QED BY <2>1, <2>2
<1>3. S = B
  <2> HIDE DEF S
  <2> QED BY <1>1, <1>2 DEF Connected
<1> QED BY <1>3 DEF Headed

\* A fence around a bloc v that is not in M: it has the whole of M, or else it
\* does without it.
LEMMA FenceFacts ==
  ASSUME NEW E, Enclosed(E), Connected(E), NEW M, NEW a, Headed(E, M, a),
         NEW v, NEW R, Fenced(E, R, v)
  PROVE  /\ v \notin M /\ a \in R => M \subseteq R
         /\ v \notin M \ {a} /\ a \notin R => Fenced(E, R \ M, v)
         /\ v \in M \ {a} => a \in R
<1>1. /\ R \subseteq DOMAIN E /\ entry_bloc \in R /\ v \notin R /\ \A x \in R : E[x] \subseteq R \cup {v}
  BY DEF Fenced
<1>2. /\ M \subseteq DOMAIN E /\ a \in M /\ entry_bloc \notin M \ {a}
      /\ \A x \in (DOMAIN E) \ M : E[x] \cap M \subseteq {a}
  BY DEF Headed
<1>3. ASSUME v \notin M, a \in R PROVE M \subseteq R
  <2>1. \A x \in R \cap M : E[x] \cap M \subseteq R
    BY <1>1, <1>3
  <2> QED BY <2>1, <1>3, HeadLeads
<1>4. ASSUME a \notin R PROVE /\ entry_bloc \in R \ M
                              /\ \A x \in R \ M : E[x] \subseteq (R \ M) \cup {v}
                              /\ v # a => \A x \in R \ M : E[x] \cap M = {}
  BY <1>1, <1>2, <1>4
<1>5. v \notin M \ {a} /\ a \notin R => Fenced(E, R \ M, v)
  BY <1>1, <1>4 DEF Fenced
<1>6. ASSUME v \in M \ {a}, a \notin R PROVE FALSE
  <2> DEFINE S == R \ M
  <2>1. S \in SUBSET DOMAIN E /\ entry_bloc \in S /\ \A x \in S : E[x] \subseteq S
    BY <1>1, <1>4, <1>6
  <2> HIDE DEF S
  <2>2. S = DOMAIN E
    BY <2>1 DEF Connected
  <2> QED BY <2>2, <1>2 DEF S
<1> QED BY <1>3, <1>5, <1>6

\* The ranks of a part are not below that of its head.
LEMMA HeadFirst ==
  ASSUME NEW E, Enclosed(E), Connected(E), NEW M, NEW a, Headed(E, M, a),
         NEW r, RankedBy(E, r), NEW m \in M
  PROVE  r[a] <= r[m]
<1> DEFINE Onto(R) == a \in R /\ \A z \in R \cap M : \A w \in E[z] \cap M : r[z] < r[w] => w \in R
           S == {y \in M : \A R : Onto(R) => y \in R}
<1>1. /\ M \subseteq DOMAIN E /\ a \in M /\ entry_bloc \notin M \ {a}
  BY DEF Headed
<1>2. /\ \A b \in DOMAIN E : r[b] \in Nat
      /\ \A u \in DOMAIN E : \A v \in E[u] : r[u] < r[v] \/ Guards(E, v, u)
  BY DEF RankedBy
<1>3. a \in S /\ \A z \in S : \A w \in E[z] \cap M : r[z] < r[w] => w \in S
  BY <1>1
<1>4. ASSUME NEW R, Onto(R), NEW y \in S PROVE y \in R
  BY <1>4
<1> HIDE DEF S
<1>5. ASSUME NEW x \in S, NEW y \in E[x] \cap M PROVE y \in S
  <2> SUFFICES ASSUME y \notin S PROVE FALSE
    OBVIOUS
  <2>1. x \in M
    BY DEF S
  <2>2. Guards(E, y, x) /\ y # x /\ y # a
    BY <2>1, <1>1, <1>2, <1>3
  <2>3. PICK R : Fenced(E, R, y) /\ x \notin R
    BY <2>2, <1>1 DEF Guards
  <2>4. a \in R
    BY <2>2, <2>3, FenceFacts
  <2>5. Onto(S \cap R)
    <3>1. a \in S \cap R
      BY <2>4, <1>3
    <3>2. ASSUME NEW z \in S \cap R, NEW w \in E[z] \cap M, r[z] < r[w] PROVE w \in S \cap R
      <4>1. w \in S
        BY <3>2, <1>3
      <4> QED BY <4>1, <3>2, <2>3 DEF Fenced
    <3> QED BY <3>1, <3>2
  <2> HIDE DEF Onto
  <2>6. x \in S \cap R
    BY <2>5, <1>4
  <2> QED BY <2>3, <2>6
<1>6. M \subseteq S
  BY <1>3, <1>5, HeadLeads
<1>7. Onto({y \in M : r[a] <= r[y]})
  BY <1>1, <1>2
<1> HIDE DEF Onto
<1>8. m \in {y \in M : r[a] <= r[y]}
  BY <1>4, <1>6, <1>7
<1> QED BY <1>8

\* The part M becomes its head, which leads to where M does.
LEMMA MergeRanked ==
  ASSUME NEW E, Enclosed(E), Connected(E), NEW M, NEW a, Headed(E, M, a), Ranked(E),
         NEW F, Enclosed(F), DOMAIN F = (DOMAIN E) \ (M \ {a}),
         \A b \in (DOMAIN E) \ M : F[b] = E[b], \A y \in F[a] : \E m \in M : y \in E[m]
  PROVE  Ranked(F)
<1>1. PICK r : RankedBy(E, r) /\ \E k \in Nat : \A b \in DOMAIN E : r[b] <= k
  BY DEF Ranked
<1>2. /\ M \subseteq DOMAIN E /\ a \in M /\ entry_bloc \notin M \ {a}
  BY DEF Headed
<1>3. /\ \A b \in DOMAIN E : r[b] \in Nat
      /\ \A u \in DOMAIN E : \A v \in E[u] : r[u] < r[v] \/ Guards(E, v, u)
  BY <1>1 DEF RankedBy
<1>4. /\ DOMAIN F = (DOMAIN E) \ (M \ {a}) /\ \A b \in (DOMAIN E) \ M : F[b] = E[b]
      /\ \A y \in F[a] : \E m \in M : y \in E[m]
      /\ \A b \in DOMAIN F : F[b] \subseteq DOMAIN F
  BY DEF Enclosed
<1>5. ASSUME NEW R, NEW v \in DOMAIN F, Fenced(E, R, v) PROVE Fenced(F, R \ (M \ {a}), v)
  <2> DEFINE Q == R \ (M \ {a})
  <2>1. R \subseteq DOMAIN E /\ entry_bloc \in R /\ v \notin R /\ \A x \in R : E[x] \subseteq R \cup {v}
    BY <1>5 DEF Fenced
  <2>2. Q \subseteq DOMAIN F /\ entry_bloc \in Q /\ v \notin Q /\ v \notin M \ {a}
    BY <2>1, <1>2, <1>4
  <2>3. ASSUME NEW x \in Q PROVE F[x] \subseteq Q \cup {v}
    <3>1. F[x] \subseteq DOMAIN F
      BY <2>2, <1>4
    <3>2. F[x] \subseteq R \cup {v}
      <4>1. CASE x = a
        <5>1. M \subseteq R
          BY <4>1, <2>1, <2>2, <1>5, FenceFacts
        <5> QED BY <4>1, <5>1, <2>1, <1>4
      <4>2. CASE x # a
        BY <4>2, <2>1, <2>2, <1>4
      <4> QED BY <4>1, <4>2
    <3> QED BY <3>1, <3>2, <1>4
  <2> QED BY <2>2, <2>3 DEF Fenced
<1>6. ASSUME NEW u \in DOMAIN F, NEW v \in F[u] PROVE r[u] < r[v] \/ Guards(F, v, u)
  <2>1. v \in DOMAIN F /\ v \in DOMAIN E /\ v \notin M \ {a} /\ u \in DOMAIN E
    BY <1>4
  <2>2. CASE u # a
    <3>1. v \in E[u] /\ u \notin M
      BY <2>2, <1>4
    <3>2. ASSUME NEW R, Fenced(E, R, v), u \notin R PROVE Guards(F, v, u)
      <4>1. Fenced(F, R \ (M \ {a}), v)
        BY <2>1, <1>5, <3>2
      <4> QED BY <4>1, <3>2 DEF Guards
    <3> QED BY <2>1, <3>1, <3>2, <1>3 DEF Guards
  <2>3. CASE u = a
    <3>1. PICK m \in M : v \in E[m]
      BY <2>3, <1>4
    <3>2. m \in DOMAIN E /\ r[a] <= r[m]
      BY <1>1, <1>2, HeadFirst
    <3>3. r[m] < r[v] => r[u] < r[v]
      BY <2>1, <2>3, <3>2, <1>3
    <3>4. ASSUME v = m \/ v = entry_bloc PROVE Guards(F, v, u)
      BY <2>1, <2>3, <3>4 DEF Guards
    <3>5. ASSUME NEW R, Fenced(E, R, v), m \notin R PROVE Guards(F, v, u)
      <4>1. v # a => a \notin R
        BY <2>1, <3>5, FenceFacts
      <4>2. v = a => Guards(F, v, u)
        BY <2>3 DEF Guards
      <4>3. Fenced(F, R \ (M \ {a}), v)
        BY <2>1, <3>5, <1>5
      <4> QED BY <4>1, <4>2, <4>3, <2>3 DEF Guards
    <3> QED BY <3>1, <3>2, <3>3, <3>4, <3>5, <1>3 DEF Guards
  <2> QED BY <2>2, <2>3
<1> DEFINE s == [b \in DOMAIN F |-> r[b]]
<1>7. s \in [DOMAIN F -> Nat] /\ \A b \in DOMAIN F : s[b] = r[b]
  BY <1>3, <1>4
<1>8. RankedBy(F, s)
  <2> HIDE DEF s
  <2> QED BY <1>4, <1>6, <1>7 DEF RankedBy
<1>9. PICK k \in Nat : \A b \in DOMAIN E : r[b] <= k
  BY <1>1
<1>10. \A b \in DOMAIN F : s[b] <= k
  BY <1>4, <1>7, <1>9
<1> QED BY <1>8, <1>10 DEF Ranked


\* The part R is led to a new bloc n, which leads to where R did.
LEMMA FunnelRanked ==
  ASSUME NEW E, Enclosed(E), Connected(E), NEW R, NEW a, Headed(E, R, a), Ranked(E),
         NEW n, n \notin DOMAIN E, NEW F, DOMAIN F = (DOMAIN E) \cup {n},
         \A y \in F[n] : y \in (DOMAIN E) \ R /\ \E b \in R : y \in E[b],
         \A b \in (DOMAIN E) \ R : F[b] = E[b], \A b \in R : F[b] \subseteq E[b] \cup {n}
  PROVE  Ranked(F)
<1>1. PICK r : RankedBy(E, r) /\ \E k \in Nat : \A b \in DOMAIN E : r[b] <= k
  BY DEF Ranked
<1>2. PICK k \in Nat : \A b \in DOMAIN E : r[b] <= k
  BY <1>1
<1> DEFINE B == DOMAIN E   Low(y) == y \in R \/ r[y] < r[a]
           s == [b \in DOMAIN F |-> IF b = n THEN k + 1 ELSE IF Low(b) THEN r[b] ELSE r[b] + (k + 2)]
<1>3. /\ R \subseteq B /\ a \in R /\ entry_bloc \notin R \ {a}
      /\ \A x \in B \ R : E[x] \cap R \subseteq {a}
  BY DEF Headed
<1>4. /\ \A b \in B : r[b] \in Nat /\ r[b] <= k /\ E[b] \subseteq B
      /\ \A u \in B : \A v \in E[u] : r[u] < r[v] \/ Guards(E, v, u)
  BY <1>1, <1>2 DEF RankedBy, Enclosed
<1>5. /\ DOMAIN F = B \cup {n} /\ n \notin B /\ \A b \in B \ R : F[b] = E[b]
      /\ \A b \in R : F[b] \subseteq E[b] \cup {n}
      /\ \A y \in F[n] : y \in B \ R /\ \E b \in R : y \in E[b]
  OBVIOUS
<1>6. \A b \in R : r[a] <= r[b]
  BY <1>1, HeadFirst
<1>7. /\ s \in [DOMAIN F -> Nat] /\ s[n] = k + 1
      /\ \A b \in DOMAIN F : s[b] <= k + (k + 2)
      /\ \A b \in B : s[b] = IF Low(b) THEN r[b] ELSE r[b] + (k + 2)
  <2>1. \A b \in DOMAIN F : b = n \/ (b \in B /\ b # n)
    BY <1>5
  <2>2. \A b \in DOMAIN F : s[b] = IF b = n THEN k + 1 ELSE IF Low(b) THEN r[b] ELSE r[b] + (k + 2)
    OBVIOUS
  <2>3. \A b \in DOMAIN F : s[b] \in Nat /\ s[b] <= k + (k + 2)
    <3> HIDE DEF s, Low
    <3> QED BY <2>1, <2>2, <1>4
  <2> QED BY <2>1, <2>2, <2>3, <1>5
<1> HIDE DEF s
\* Fences of E and of F.
<1>8. ASSUME NEW v \in B, NEW D, Fenced(E, D, v), NEW b \in B, b \notin D,
             v \in R \ {a} => b \in R
      PROVE  Guards(F, v, b) /\ (v \notin R /\ b \in R => Guards(F, v, n))
  <2>1. D \subseteq B /\ entry_bloc \in D /\ v \notin D /\ \A x \in D : E[x] \subseteq D \cup {v}
    BY <1>8 DEF Fenced
  <2>2. CASE a \in D /\ v \notin R
    <3>1. v \notin R /\ a \in D => R \subseteq D
      <4> HIDE DEF B, Low
      <4> QED BY <1>8, FenceFacts
    <3>2. Fenced(F, D \cup {n}, v)
      <4>1. \A x \in D : F[x] \subseteq (D \cup {n}) \cup {v}
        BY <2>1, <1>5
      <4>2. F[n] \subseteq (D \cup {n}) \cup {v}
        BY <2>1, <2>2, <3>1, <1>5
      <4> QED BY <2>1, <4>1, <4>2, <1>5 DEF Fenced
    <3>3. b \notin D \cup {n} /\ b \notin R
      BY <2>2, <3>1, <1>5, <1>8
    <3> QED BY <3>2, <3>3 DEF Guards
  <2>3. CASE a \notin D
    <3>1. v \notin R \ {a}
      BY <2>3, <1>8, FenceFacts
    <3>2. Fenced(E, D \ R, v)
      BY <2>3, <3>1, <1>8, FenceFacts
    <3>3. Fenced(F, D \ R, v)
      BY <3>2, <1>5 DEF Fenced
    <3>4. b \notin D \ R /\ n \notin D \ R
      BY <2>1, <1>5, <1>8
    <3> QED BY <3>3, <3>4 DEF Guards
  <2>4. CASE a \in D /\ v \in R
    <3> DEFINE G == (D \cup (B \ R)) \cup {n}
    <3>1. v # a
      BY <2>1, <2>4
    <3>2. Fenced(F, G, v)
      <4>1. \A x \in B \ R : F[x] \subseteq G \cup {v}
        BY <2>4, <1>3, <1>4, <1>5
      <4>2. \A x \in D \cap R : F[x] \subseteq G \cup {v}
        BY <2>1, <1>5
      <4>3. F[n] \subseteq G
        BY <1>5
      <4>4. v \notin G
        BY <2>1, <2>4, <1>5
      <4> QED BY <2>1, <4>1, <4>2, <4>3, <4>4, <1>5 DEF Fenced
    <3>3. b \notin G
      BY <2>4, <3>1, <1>5, <1>8
    <3> QED BY <2>4, <3>2, <3>3 DEF Guards
  <2> QED BY <2>2, <2>3, <2>4
<1>9. ASSUME NEW u \in DOMAIN F, NEW v \in F[u] PROVE s[u] < s[v] \/ Guards(F, v, u)
  <2>1. CASE u = n
    <3>1. v \in B \ R /\ \E b \in R : v \in E[b]
      BY <2>1, <1>5
    <3>2. PICK b \in R : v \in E[b]
      BY <3>1
    <3>3. CASE r[b] < r[v]
      <4>1. ~ Low(v) /\ r[v] \in Nat
        BY <3>1, <3>3, <1>3, <1>4, <1>6
      <4> QED BY <2>1, <3>1, <4>1, <1>7
    <3>4. CASE Guards(E, v, b)
      <4>1. v = entry_bloc => Guards(F, v, u)
        BY DEF Guards
      <4>2. ASSUME NEW D, Fenced(E, D, v), b \notin D PROVE Guards(F, v, u)
        BY <2>1, <3>1, <4>2, <1>3, <1>8
      <4>3. v # b
        BY <3>1
      <4> QED BY <3>4, <4>1, <4>2, <4>3 DEF Guards
    <3> QED BY <3>2, <3>3, <3>4, <1>3, <1>4
  <2>2. CASE v = n
    <3>1. u \in R
      BY <2>2, <1>4, <1>5
    <3>2. s[u] = r[u] /\ r[u] <= k /\ r[u] \in Nat
      BY <3>1, <1>3, <1>4, <1>7
    <3> QED BY <2>2, <3>2, <1>7
  <2>3. CASE u # n /\ v # n
    <3>1. u \in B /\ v \in E[u] /\ v \in B /\ (u \in B \ R => v \notin R \ {a})
      BY <2>3, <1>3, <1>4, <1>5
    <3>2. CASE r[u] < r[v]
      <4>1. Low(v) => Low(u)
        BY <3>1, <3>2, <1>3, <1>4
      <4>2. r[u] \in Nat /\ r[v] \in Nat /\ r[u] <= k
        BY <3>1, <1>4
      <4> HIDE DEF Low
      <4> QED BY <3>1, <3>2, <4>1, <4>2, <1>7
    <3>3. CASE Guards(E, v, u)
      <4>1. v = entry_bloc \/ v = u => Guards(F, v, u)
        BY DEF Guards
      <4>2. ASSUME NEW D, Fenced(E, D, v), u \notin D PROVE Guards(F, v, u)
        BY <3>1, <4>2, <1>8
      <4> QED BY <3>3, <4>1, <4>2 DEF Guards
    <3> QED BY <3>1, <3>2, <3>3, <1>4
  <2> QED BY <2>1, <2>2, <2>3
<1>10. RankedBy(F, s)
  BY <1>7, <1>9 DEF RankedBy
<1>11. k + (k + 2) \in Nat
  OBVIOUS
<1> QED BY <1>7, <1>10, <1>11 DEF Ranked

-----------------------------------------------------------------------------
(* Reducibility.                                                           *)

\* The graphs of collapse as functions.
LEMMA ArcsFacts ==
  ASSUME NEW g, Sane(g), Rooted(g)
  PROVE  /\ Enclosed(Arcs(g)) /\ Connected(Arcs(g)) /\ DOMAIN Arcs(g) = Blocs(g)
         /\ \A b \in Blocs(g) : Arcs(g)[b] = Succ(g, b) /\ Succ(g, b) \subseteq Blocs(g)
<1>1. \A b \in Blocs(g) : Succ(g, b) \subseteq Blocs(g)
  BY PoolFacts DEF Sane, Linked, Succ, ExitsTo, Targets
<1>2. DOMAIN Arcs(g) = Blocs(g) /\ \A b \in Blocs(g) : Arcs(g)[b] = Succ(g, b)
  BY DEF Arcs
<1>3. entry_bloc \in Blocs(g)
  BY PoolFacts DEF Sane
<1>4. Connected(Arcs(g))
  BY <1>2 DEF Connected, Rooted
<1> QED BY <1>1, <1>2, <1>3, <1>4 DEF Enclosed

LEMMA GuardsIff ==
  ASSUME NEW g, Sane(g), Rooted(g), NEW a \in Blocs(g), NEW b \in Blocs(g)
  PROVE  DominatesByDefinition(g, a, b) <=> Guards(Arcs(g), a, b)
<1> DEFINE B == Blocs(g)   E == Arcs(g)   C == Closure(g, {entry_bloc}, {a})
<1>1. /\ DOMAIN E = B /\ entry_bloc \in B
      /\ \A x \in B : E[x] = Succ(g, x) /\ E[x] \subseteq B
  BY ArcsFacts DEF Enclosed
<1>2. /\ entry_bloc \in C /\ C \subseteq B /\ \A x \in C : Succ(g, x) \ {a} \subseteq C
      /\ \A R : entry_bloc \in R /\ (\A x \in R : Succ(g, x) \ {a} \subseteq R) => C \subseteq R
  <2>1. {entry_bloc} \in SUBSET B /\ \A R : entry_bloc \in R <=> {entry_bloc} \subseteq R
    BY <1>1
  <2> QED BY <2>1, ClosureFacts
<1> HIDE DEF E, C
<1>3. ASSUME DominatesByDefinition(g, a, b), a # b, a # entry_bloc PROVE Guards(E, a, b)
  <2>1. a \notin C
    <3> DEFINE R == B \ {a}
    <3>1. entry_bloc \in R /\ \A x \in R : Succ(g, x) \ {a} \subseteq R
      BY <1>1, <1>3
    <3> HIDE DEF R
    <3>2. C \subseteq R
      BY <3>1, <1>2
    <3> QED BY <3>2 DEF R
  <2>2. Fenced(E, C, a)
    BY <2>1, <1>1, <1>2 DEF Fenced
  <2>3. b \notin C
    BY <1>3 DEF DominatesByDefinition, C
  <2> QED BY <2>2, <2>3 DEF Guards
<1>4. ASSUME NEW R, Fenced(E, R, a), b \notin R, a # b, a # entry_bloc
      PROVE  DominatesByDefinition(g, a, b)
  <2>1. entry_bloc \in R /\ \A x \in R : Succ(g, x) \ {a} \subseteq R
    BY <1>1, <1>4 DEF Fenced
  <2> QED BY <2>1, <1>4, DominatesLeast
<1>5. a = b \/ a = entry_bloc => DominatesByDefinition(g, a, b) /\ Guards(E, a, b)
  BY DEF DominatesByDefinition, Guards
<1> QED BY <1>3, <1>4, <1>5 DEF Guards, E

\* A strongly connected set of a graph with ranks is entered at one of its blocs of least
\* rank, and there only.
LEMMA OneHead ==
  ASSUME NEW g, Sane(g), Rooted(g), Ranked(Arcs(g)),
         NEW C \in SUBSET Blocs(g), C # {}, StronglyConnected(g, C)
  PROVE  Cardinality(Heads(g, C)) = 1
<1> DEFINE B == Blocs(g)
<1>1. PICK ord : RankedBy(Arcs(g), ord)
  BY DEF Ranked
<1>2. /\ entry_bloc \in B /\ \A b \in B : ord[b] \in Nat /\ Succ(g, b) \subseteq B
      /\ \A u \in B : \A v \in Succ(g, u) : ord[u] < ord[v] \/ DominatesByDefinition(g, v, u)
  <2>1. /\ DOMAIN Arcs(g) = B /\ entry_bloc \in B
        /\ \A x \in B : Arcs(g)[x] = Succ(g, x) /\ Succ(g, x) \subseteq B
    BY ArcsFacts DEF Enclosed
  <2> QED BY <1>1, <2>1, GuardsIff DEF RankedBy
<1>3. CASE entry_bloc \in C
  BY <1>3, FS_Singleton DEF Heads
<1>4. CASE entry_bloc \notin C
  <2> DEFINE prior == Closure(g, {entry_bloc}, C)   H == {b \in C : Pred(g, b) \intersect prior # {}}
  <2>1. PICK m \in C : \A c \in C : ord[m] <= ord[c]
    <3> DEFINE S == {b \in B : b \in C => \E m \in C : \A c \in C : ord[m] <= ord[c]}
    <3>1. ASSUME NEW b \in B, \A a \in B : ord[a] < ord[b] => a \in S PROVE b \in S
      <4>1. CASE \A c \in C : ord[b] <= ord[c]
        BY <4>1
      <4>2. CASE \E c \in C : ord[c] < ord[b]
        BY <4>2, <3>1
      <4> QED BY <4>1, <4>2, <1>2
    <3>2. B \subseteq S
      <4> HIDE DEF S, B
      <4> QED BY <1>2, <3>1, OrderInduction
    <3> QED BY <3>2
  <2>2. ASSUME NEW c \in C PROVE DominatesByDefinition(g, m, c)
    <3> DEFINE R == {y \in C : ~ DominatesByDefinition(g, m, y)}
               K == Closure(g, Succ(g, c) \intersect C, B \ C)
    <3>1. ASSUME NEW q \in R, NEW y \in Succ(g, q) \cap C PROVE y \in R
      <4>1. CASE y = m
        BY <4>1, <2>1, <1>2
      <4>2. CASE y # m
        BY <4>2, <1>2, DominatesBefore
      <4> QED BY <4>1, <4>2
    <3> SUFFICES ASSUME c \in R PROVE FALSE
      OBVIOUS
    <3>2. Succ(g, c) \intersect C \subseteq R /\ \A q \in R : Succ(g, q) \ (B \ C) \subseteq R
      <4>1. \A q \in R : Succ(g, q) \subseteq B
        BY <1>2
      <4> HIDE DEF R
      <4> QED BY <3>1, <4>1
    <3> HIDE DEF R
    <3>3. Succ(g, c) \intersect C \in SUBSET Blocs(g)
      OBVIOUS
    <3>4. K \subseteq R
      <4> DEFINE from == Succ(g, c) \intersect C   avoid == B \ C
      <4> HIDE DEF from, avoid
      <4>1. Closure(g, from, avoid) \subseteq R
        BY <3>2, <3>3, ClosureFacts DEF from, avoid
      <4> QED BY <4>1 DEF from, avoid
    <3>5. m \in K
      BY DEF StronglyConnected
    <3>6. DominatesByDefinition(g, m, m)
      BY DEF DominatesByDefinition
    <3> HIDE DEF K
    <3> QED BY <3>4, <3>5, <3>6 DEF R
  <2>3. /\ entry_bloc \in prior /\ prior \subseteq B
        /\ \A q \in prior : Succ(g, q) \ C \subseteq prior
        /\ \A R : entry_bloc \in R /\ (\A b \in R : Succ(g, b) \ C \subseteq R) => prior \subseteq R
    <3>1. {entry_bloc} \in SUBSET Blocs(g)
      BY <1>2
    <3>2. \A R : entry_bloc \in R <=> {entry_bloc} \subseteq R
      OBVIOUS
    <3> QED BY <3>1, <3>2, <1>2, ClosureFacts
  <2> HIDE DEF prior
  <2>4. ASSUME NEW h \in H PROVE h = m
    <3>1. SUFFICES ASSUME h # m PROVE FALSE
      OBVIOUS
    <3>2. PICK p \in prior : h \in Succ(g, p)
      BY DEF Pred
    <3> DEFINE Z == Closure(g, {entry_bloc}, {m})
    <3>3. entry_bloc \in Z /\ \A q \in Z : Succ(g, q) \ {m} \subseteq Z
      <4>1. {entry_bloc} \in SUBSET Blocs(g)
        BY <1>2
      <4> QED BY <4>1, <1>2, ClosureFacts
    <3>4. m # entry_bloc
      BY <1>4
    <3>5. h \notin Z
      BY <3>1, <3>4, <2>2 DEF DominatesByDefinition
    <3> HIDE DEF Z
    <3>6. prior \subseteq Z
      <4>1. \A b \in Z : Succ(g, b) \ C \subseteq Z
        BY <3>3
      <4> QED BY <4>1, <3>3, <2>3
    <3> QED BY <3>1, <3>2, <3>3, <3>5, <3>6
  <2>5. H # {}
    <3> SUFFICES ASSUME H = {} PROVE FALSE
      OBVIOUS
    <3>1. \A b \in prior : Succ(g, b) \subseteq prior
      <4> SUFFICES ASSUME NEW b \in prior, NEW s \in Succ(g, b) PROVE s \in prior
        OBVIOUS
      <4>1. s \notin C
        BY <2>3 DEF Pred
      <4> QED BY <4>1, <2>3
    <3>2. prior = B
      BY <3>1, <2>3 DEF Rooted
    <3>3. prior \subseteq B \ C
      <4>1. \A b \in B \ C : Succ(g, b) \ C \subseteq B \ C
        BY <1>2
      <4> DEFINE R == B \ C
      <4>2. entry_bloc \in R
        BY <1>2, <1>4
      <4> HIDE DEF R
      <4> QED BY <4>1, <4>2, <2>3 DEF R
    <3> QED BY <3>2, <3>3
  <2>6. H = {m}
    <3> HIDE DEF H
    <3> QED BY <2>4, <2>5
  <2>7. Heads(g, C) = H
    BY <1>4 DEF Heads, prior
  <2> QED BY <2>6, <2>7, FS_Singleton
<1> QED BY <1>3, <1>4

\* Through blocs that come after e, y is reached from x.
Onwards(g, e, x, y) ==
  \A S \in SUBSET Blocs(g) :
    x \in S /\ (\A v \in S : \A w \in Succ(g, v) : Ordering(g)[e] < Ordering(g)[w] => w \in S)
      => y \in S

\* A graph without a strongly connected set that is entered at two blocs has no
\* retreating edge but to dominators.
LEMMA EdgeDominated ==
  ASSUME NEW g, Ready(g), ReducibleByDefinition(g),
         NEW o \in Blocs(g), NEW e \in Succ(g, o), Ordering(g)[e] < Ordering(g)[o]
  PROVE  DominatesByDefinition(g, e, o)
<1> DEFINE B == Blocs(g)   ord == Ordering(g)   C == {x \in B : Onwards(g, e, e, x) /\ Onwards(g, e, x, o)}
           prior == Closure(g, {entry_bloc}, C)
<1>1. /\ Sane(g) /\ entry_bloc \in B /\ \A b \in B : ord[b] \in Nat /\ Succ(g, b) \subseteq B
      /\ ord[entry_bloc] = 1 /\ \A b \in B : ord[b] >= 1 /\ (b # entry_bloc => ord[b] > 1)
      /\ \A b \in B : b # entry_bloc => \E p \in B : b \in Succ(g, p) /\ ord[p] < ord[b]
  <2>1. \A b \in B : Succ(g, b) \subseteq B
    BY DEF Ready, Sane, Linked, Succ, ExitsTo, Targets
  <2> QED BY <2>1, ReadyFacts DEF Ready
<1>2. e \in B /\ o \in B
  BY <1>1
<1>3. \A x : Onwards(g, e, x, x)
  BY DEF Onwards
<1>4. ASSUME NEW x, NEW y, NEW z \in Succ(g, y), Onwards(g, e, x, y), ord[e] < ord[z]
      PROVE  Onwards(g, e, x, z)
  BY <1>4 DEF Onwards
<1>5. ASSUME NEW x, NEW y, NEW z, Onwards(g, e, x, y), Onwards(g, e, y, z)
      PROVE  Onwards(g, e, x, z)
  BY <1>5 DEF Onwards
<1>6. Onwards(g, e, e, o)
  <2>1. \A y \in B : Precedes(g.pool, e, y) => ord[e] < ord[y]
    <3>1. \A b \in B : /\ ord[b] \in 1 .. Len(g.pool)
                       /\ \A i \in 1 .. Len(g.pool) : g.pool[i] = b => i = ord[b]
      BY <1>1, OrderingFacts
    <3> HIDE DEF B, ord
    <3> QED BY <1>2, <3>1 DEF Precedes
  <2>2. Precedes(g.pool, e, o)
    <3>1. /\ ord[e] \in 1 .. Len(g.pool) /\ ord[o] \in 1 .. Len(g.pool)
          /\ g.pool[ord[e]] = e /\ g.pool[ord[o]] = o
      BY <1>1, <1>2, OrderingFacts
    <3> QED BY <3>1 DEF Precedes
  <2>3. Within(g, g.pool, e, o)
    BY <1>2, <2>2 DEF Ready, Sorted
  <2> HIDE DEF ord
  <2> QED BY <1>1, <2>1, <2>3 DEF Within, Onwards, B, ord
<1>7. e \in C /\ o \in C /\ C \subseteq B
  BY <1>2, <1>3, <1>6
\* What C has, between two of its blocs.
<1>8. ASSUME NEW x \in C, NEW y \in B, NEW z \in Succ(g, y), Onwards(g, e, x, y), z \in C, ord[e] < ord[z]
      PROVE  y \in C
  <2>1. Onwards(g, e, e, y)
    BY <1>5, <1>8
  <2>2. Onwards(g, e, y, o)
    <3>1. Onwards(g, e, y, z)
      BY <1>3, <1>4, <1>8
    <3> QED BY <3>1, <1>5, <1>8
  <2> QED BY <2>1, <2>2
<1> HIDE DEF C
<1>9. ASSUME NEW x \in C PROVE x = e \/ ord[e] < ord[x]
  <2> DEFINE S == {y \in B : y = e \/ ord[e] < ord[y]}
  <2>1. e \in S /\ \A v \in S : \A w \in Succ(g, v) : ord[e] < ord[w] => w \in S
    BY <1>1, <1>2
  <2>2. Onwards(g, e, e, x) /\ S \in SUBSET Blocs(g)
    BY DEF C
  <2> HIDE DEF S
  <2>3. x \in S
    BY <2>1, <2>2 DEF Onwards
  <2> QED BY <2>3 DEF S
\* A set that what follows in C does not leave, has what is reached from a bloc of C.
<1>10. ASSUME NEW x \in C, NEW y \in C, Onwards(g, e, x, y), NEW K,
              \A q \in C : q = x \/ q \in K => Succ(g, q) \cap C \subseteq K
       PROVE  y = x \/ y \in K
  <2> DEFINE S == {v \in B : Onwards(g, e, x, v) /\ (v = x \/ v \in K \/ v \notin C)}
  <2>1. x \in S
    BY <1>3, <1>7
  <2>2. ASSUME NEW v \in S, NEW w \in Succ(g, v), ord[e] < ord[w] PROVE w \in S
    <3>1. v \in B /\ w \in B /\ Onwards(g, e, x, w)
      BY <2>2, <1>1, <1>4
    <3>2. ASSUME w \in C PROVE w \in K
      <4>1. v \in C
        BY <2>2, <3>2, <1>8
      <4> QED BY <4>1, <3>2, <1>10
    <3> QED BY <3>1, <3>2
  <2>3. S \in SUBSET Blocs(g)
    OBVIOUS
  <2> HIDE DEF S
  <2>4. y \in S
    BY <2>1, <2>2, <2>3, <1>10 DEF Onwards
  <2> QED BY <2>4 DEF S
<1>11. StronglyConnected(g, C)
  <2> SUFFICES ASSUME NEW b \in C, NEW x \in C
               PROVE  x \in Closure(g, Succ(g, b) \intersect C, Blocs(g) \ C)
    BY DEF StronglyConnected
  <2> DEFINE from == Succ(g, b) \intersect C   avoid == Blocs(g) \ C   K == Closure(g, from, avoid)
  <2>1. from \in SUBSET Blocs(g)
    BY <1>7
  <2> HIDE DEF from, avoid
  <2>2. from \subseteq K /\ \A q \in K : Succ(g, q) \ avoid \subseteq K
    BY <2>1, <1>1, ClosureFacts
  <2> HIDE DEF K
  <2>3. \A q \in C : q = b \/ q \in K => Succ(g, q) \cap C \subseteq K
    BY <2>2, <1>7 DEF from, avoid
  <2>4. o = b \/ o \in K
    <3>1. Onwards(g, e, b, o)
      BY DEF C
    <3> QED BY <3>1, <2>3, <1>7, <1>10
  <2>5. e \in K
    BY <2>3, <2>4, <1>7
  <2>6. x = e \/ x \in K
    <3>1. Onwards(g, e, e, x)
      BY DEF C
    <3>2. \A q \in C : q = e \/ q \in K => Succ(g, q) \cap C \subseteq K
      BY <2>3, <2>5
    <3> QED BY <3>1, <3>2, <1>7, <1>10
  <2> QED BY <2>5, <2>6 DEF K, from, avoid
<1>12. CASE e = entry_bloc
  BY <1>12 DEF DominatesByDefinition
<1>13. CASE e # entry_bloc
  <2>1. entry_bloc \notin C
    <3>1. ~ (ord[e] < ord[entry_bloc])
      BY <1>1, <1>2
    <3> QED BY <3>1, <1>9, <1>13
  <2>2. Cardinality(Heads(g, C)) = 1
    <3>1. C \in (SUBSET Blocs(g)) \ {{}}
      BY <1>7
    <3> QED BY <3>1, <1>11 DEF ReducibleByDefinition
  <2>3. /\ entry_bloc \in prior /\ prior \subseteq B
        /\ \A q \in prior : Succ(g, q) \ C \subseteq prior
        /\ \A R : entry_bloc \in R /\ (\A b \in R : Succ(g, b) \ C \subseteq R) => prior \subseteq R
    <3>1. {entry_bloc} \in SUBSET Blocs(g)
      BY <1>1
    <3>2. \A R : entry_bloc \in R <=> {entry_bloc} \subseteq R
      OBVIOUS
    <3> QED BY <3>1, <3>2, <1>1, ClosureFacts
  <2> DEFINE H == {b \in C : Pred(g, b) \intersect prior # {}}
  <2>4. Heads(g, C) = H
    BY <2>1 DEF Heads
  <2> HIDE DEF prior
  <2>5. \A y \in B : ord[y] < ord[e] => y \in prior
    <3> DEFINE S == {y \in B : ord[y] < ord[e] => y \in prior}
    <3>1. ASSUME NEW y \in B, \A a \in B : ord[a] < ord[y] => a \in S PROVE y \in S
      <4> SUFFICES ASSUME ord[y] < ord[e] PROVE y \in prior
        OBVIOUS
      <4>1. CASE y = entry_bloc
        BY <4>1, <2>3
      <4>2. CASE y # entry_bloc
        <5>1. PICK p \in B : y \in Succ(g, p) /\ ord[p] < ord[y]
          BY <4>2, <1>1
        <5>2. p \in prior
          BY <5>1, <3>1, <1>1, <1>2
        <5>3. y \notin C
          BY <1>1, <1>2, <1>9
        <5> QED BY <5>1, <5>2, <5>3, <2>3
      <4> QED BY <4>1, <4>2
    <3>2. B \subseteq S
      <4>1. \A b \in B : ord[b] \in Nat
        BY <1>1
      <4> HIDE DEF S, B, ord
      <4> QED BY <4>1, <3>1, OrderInduction
    <3> QED BY <3>2
  <2>6. e \in H
    <3>1. PICK p \in B : e \in Succ(g, p) /\ ord[p] < ord[e]
      BY <1>1, <1>2, <1>13
    <3> QED BY <3>1, <2>5, <1>7 DEF Pred
  <2>7. \A h \in H : h = e
    <3>1. IsFiniteSet(H)
      <4>1. IsFiniteSet(B)
        BY <1>1, PoolFacts DEF Sane
      <4>2. H \subseteq B
        BY <1>7
      <4> QED BY <4>1, <4>2, FS_Subset
    <3>2. PICK x : H = {x}
      BY <2>2, <2>4, <3>1, FS_Singleton
    <3> HIDE DEF H
    <3> QED BY <3>2, <2>6
  <2>8. prior \cap C = {}
    <3> DEFINE R == B \ C
    <3>1. entry_bloc \in R /\ \A b \in R : Succ(g, b) \ C \subseteq R
      BY <1>1, <2>1
    <3> HIDE DEF R
    <3>2. prior \subseteq R
      BY <3>1, <2>3
    <3> QED BY <3>2 DEF R
  <2>9. \A q \in prior : Succ(g, q) \ {e} \subseteq prior
    <3> SUFFICES ASSUME NEW q \in prior, NEW s \in Succ(g, q), s # e PROVE s \in prior
      OBVIOUS
    <3>1. ASSUME s \in C PROVE s \in H
      BY <3>1, <2>3 DEF Pred
    <3>2. s \notin C
      <4> HIDE DEF H
      <4> QED BY <3>1, <2>7
    <3> QED BY <3>2, <2>3
  <2>10. o \notin prior /\ e # o
    BY <2>8, <1>7, <1>1
  <2> QED BY <2>3, <2>9, <2>10, <1>1, <1>2, <1>13, DominatesLeast
<1> QED BY <1>12, <1>13

\* The order of the blocs has no part in the definition.
LEMMA ReducibleSame ==
  ASSUME NEW g, Drawn(g), NEW h, Drawn(h), Blocs(h) = Blocs(g), h.exits = g.exits
  PROVE  ReducibleByDefinition(g) <=> ReducibleByDefinition(h)
<1>1. \A b : Succ(h, b) = Succ(g, b) /\ Pred(h, b) = Pred(g, b)
  BY DEF Succ, Pred
<1>2. ASSUME NEW S \in SUBSET Blocs(g), NEW avoid PROVE Closure(h, S, avoid) = Closure(g, S, avoid)
  <2> DEFINE X == Closure(g, S, avoid)   Y == Closure(h, S, avoid)
  <2>1. /\ S \subseteq X /\ \A b \in X : Succ(g, b) \ avoid \subseteq X
        /\ \A R : S \subseteq R /\ (\A b \in R : Succ(g, b) \ avoid \subseteq R) => X \subseteq R
    BY ClosureDrawn
  <2>2. /\ S \subseteq Y /\ \A b \in Y : Succ(h, b) \ avoid \subseteq Y
        /\ \A R : S \subseteq R /\ (\A b \in R : Succ(h, b) \ avoid \subseteq R) => Y \subseteq R
    BY ClosureDrawn
  <2> HIDE DEF X, Y
  <2>3. X \subseteq Y
    BY <2>1, <2>2, <1>1
  <2>4. Y \subseteq X
    BY <2>1, <2>2, <1>1
  <2> QED BY <2>3, <2>4 DEF X, Y
<1>3. ASSUME NEW C \in SUBSET Blocs(g)
      PROVE  StronglyConnected(g, C) <=> StronglyConnected(h, C)
  <2>1. ASSUME NEW b \in C
        PROVE  Closure(h, Succ(h, b) \intersect C, Blocs(h) \ C)
                 = Closure(g, Succ(g, b) \intersect C, Blocs(g) \ C)
    <3>1. Succ(h, b) \intersect C = Succ(g, b) \intersect C /\ Blocs(h) \ C = Blocs(g) \ C
      BY <1>1
    <3>2. Succ(g, b) \intersect C \in SUBSET Blocs(g)
      OBVIOUS
    <3> QED BY <3>1, <3>2, <1>2
  <2> QED BY <2>1 DEF StronglyConnected
<1>4. ASSUME NEW C \in SUBSET Blocs(g)
      PROVE  Heads(h, C) = Heads(g, C)
  <2>1. {entry_bloc} \in SUBSET Blocs(g)
    BY DEF Drawn
  <2>2. Closure(h, {entry_bloc}, C) = Closure(g, {entry_bloc}, C)
    BY <2>1, <1>2
  <2> DEFINE X == Closure(g, {entry_bloc}, C)
             Met(f) == IF entry_bloc \in C THEN {entry_bloc} ELSE {b \in C : Pred(f, b) \intersect X # {}}
  <2>3. Heads(g, C) = Met(g)
    BY Zenon DEF Heads
  <2>4. Heads(h, C) = Met(h)
    BY Zenon, <2>2 DEF Heads
  <2> HIDE DEF X
  <2>5. Met(h) = Met(g)
    BY <1>1
  <2> QED BY Zenon, <2>3, <2>4, <2>5
<1> QED BY <1>3, <1>4 DEF ReducibleByDefinition

\* The order of the blocs is one of ranks, if it follows the edges but to dominators.
LEMMA OrderRanked ==
  ASSUME NEW h, Ready(h), \A u \in Blocs(h) : \A v \in Succ(h, u) :
                            Ordering(h)[v] < Ordering(h)[u] => DominatesByDefinition(h, v, u)
  PROVE  Ranked(Arcs(h))
<1> DEFINE ord == Ordering(h)   B == Blocs(h)
<1>1. Sane(h) /\ Rooted(h)
  BY DEF Ready
<1>2. /\ DOMAIN ord = B /\ Len(h.pool) \in Nat /\ \A b \in B : ord[b] \in 1 .. Len(h.pool)
      /\ \A a, b \in B : ord[a] = ord[b] => a = b
  BY ReadyFacts
<1>3. DOMAIN Arcs(h) = B /\ \A b \in B : Arcs(h)[b] = Succ(h, b) /\ Arcs(h)[b] \subseteq B
  BY <1>1, ArcsFacts
<1>4. ord \in [B -> Nat]
  <2>1. ord = [b \in B |-> SelectInSeq(h.pool, LAMBDA c : c = b)]
    BY DEF Ordering
  <2> HIDE DEF ord
  <2>2. ord = [b \in B |-> ord[b]]
    BY <2>1
  <2> QED BY <1>2, <2>2
<1>5. ASSUME NEW u \in B, NEW v \in Arcs(h)[u] PROVE ord[u] < ord[v] \/ Guards(Arcs(h), v, u)
  <2>1. v \in Succ(h, u) /\ v \in B
    BY <1>3
  <2>2. CASE ord[v] < ord[u]
    BY <2>1, <2>2, <1>1, GuardsIff
  <2>3. CASE v = u
    BY <2>3 DEF Guards
  <2> HIDE DEF ord
  <2> QED BY <1>2, <2>1, <2>2, <2>3
<1> HIDE DEF ord
<1>6. RankedBy(Arcs(h), ord)
  BY <1>3, <1>4, <1>5 DEF RankedBy
<1>7. \A b \in B : ord[b] <= Len(h.pool)
  BY <1>2
<1> QED BY <1>2, <1>3, <1>6, <1>7 DEF Ranked

\* A graph is reducible iff it has ranks.
LEMMA RankedIff ==
  ASSUME NEW g, Sane(g), Rooted(g)
  PROVE  ReducibleByDefinition(g) <=> Ranked(Arcs(g))
<1>1. ASSUME Ranked(Arcs(g)) PROVE ReducibleByDefinition(g)
  <2> SUFFICES ASSUME NEW C \in (SUBSET Blocs(g)) \ {{}}, StronglyConnected(g, C)
               PROVE  Cardinality(Heads(g, C)) = 1
    BY DEF ReducibleByDefinition
  <2>1. C \in SUBSET Blocs(g) /\ C # {}
    OBVIOUS
  <2> QED BY <1>1, <2>1, OneHead
<1>2. ASSUME ReducibleByDefinition(g) PROVE Ranked(Arcs(g))
  <2> DEFINE h == Refresh(g)
  <2>1. Sane(h) /\ Rooted(h) /\ Sorted(h, h.pool) /\ Blocs(h) = Blocs(g) /\ h.exits = g.exits
    BY RefreshFacts
  <2> HIDE DEF h
  <2>2. ReducibleByDefinition(h)
    BY <1>2, <2>1, SaneDrawn, ReducibleSame
  <2>3. Ranked(Arcs(h))
    BY <2>1, <2>2, EdgeDominated, OrderRanked DEF Ready
  <2>4. Arcs(h) = Arcs(g)
    BY <2>1 DEF Arcs, Succ
  <2> QED BY <2>3, <2>4
<1> QED BY <1>1, <1>2

\* The test of the retreating edges tells the reducible graphs.
LEMMA ReducibleIff ==
  ASSUME NEW g, Ready(g)
  PROVE  Reducible(g) <=> ReducibleByDefinition(g)
<1>1. Sane(g) /\ Rooted(g) /\ \A u \in Blocs(g) : Succ(g, u) \subseteq Blocs(g)
  BY ArcsFacts DEF Ready
<1>2. ASSUME Reducible(g) PROVE ReducibleByDefinition(g)
  <2>1. ASSUME NEW u \in Blocs(g), NEW v \in Succ(g, u), Ordering(g)[v] < Ordering(g)[u]
        PROVE  DominatesByDefinition(g, v, u)
    <3>1. v \in Blocs(g) /\ Dominates(Idom(g), v, u)
      BY <1>1, <1>2, <2>1 DEF Reducible
    <3> QED BY <3>1, IdomExact
  <2>2. Ranked(Arcs(g))
    BY <2>1, OrderRanked
  <2> QED BY <1>1, <2>2, RankedIff
<1>3. ASSUME ReducibleByDefinition(g) PROVE Reducible(g)
  <2> SUFFICES ASSUME NEW o \in Blocs(g), NEW e \in Succ(g, o), Ordering(g)[e] < Ordering(g)[o]
               PROVE  Dominates(Idom(g), e, o)
    BY DEF Reducible
  <2>1. e \in Blocs(g)
    BY <1>1
  <2>2. DominatesByDefinition(g, e, o)
    BY <1>3, EdgeDominated
  <2> QED BY <2>1, <2>2, IdomExact
<1> QED BY <1>2, <1>3

-----------------------------------------------------------------------------
(* What the rounds of collapse do to a reducible graph.                    *)

\* A group of blocs is entered at its first one, and left by its exits.
LEMMA GroupHeaded ==
  ASSUME NEW g, Sane(g), Rooted(g), NEW p, NEW m, Grouped(g, p, m)
  PROVE  /\ Headed(Arcs(g), ToSet(m.blocs), m.blocs[1])
         /\ Targets(m.exits) \subseteq Onward(g, ToSet(m.blocs))
<1> DEFINE M == ToSet(m.blocs)   a == m.blocs[1]   B == Blocs(g)
<1>1. /\ m.blocs \in Seq(B) /\ m.blocs # <<>> /\ Searched(g, a, M, {}, {}, m.exits)
  BY DEF Grouped
<1>2. a \in M /\ M \subseteq B
  <2> DEFINE s == m.blocs
  <2> HIDE DEF s
  <2> QED BY <1>1, ItemFacts DEF s
<1> HIDE DEF M, a
<1>3. /\ Targets(m.exits) \subseteq Onward(g, M)
      /\ \A b \in M \ {a} : g.prevcount[b] <= 1 /\ b \in Onward(g, M)
  BY <1>1, <1>2 DEF Searched
<1>4. ASSUME NEW b \in M \ {a} PROVE b # entry_bloc /\ \A q \in B : b \in Succ(g, q) => q \in M
  <2>1. PICK q \in M : b \in Succ(g, q)
    BY <1>3 DEF Onward
  <2>2. b \in B /\ q \in B
    BY <1>2
  <2> HIDE DEF B
  <2> QED BY <2>1, <2>2, <1>3, Unique DEF B
<1>5. DOMAIN Arcs(g) = B /\ \A b \in B : Arcs(g)[b] = Succ(g, b)
  BY ArcsFacts
<1>6. Headed(Arcs(g), M, a)
  BY <1>2, <1>4, <1>5 DEF Headed
<1> QED BY <1>3, <1>6 DEF M, a

LEMMA RankedGroup ==
  ASSUME NEW g, Sane(g), Rooted(g), NEW p, NEW m, Grouped(g, p, m), Ranked(Arcs(g)),
         NEW h, Sane(h), Rooted(h), Contracted(g, h, m.blocs, m.exits)
  PROVE  Ranked(Arcs(h))
<1> DEFINE M == ToSet(m.blocs)   a == m.blocs[1]   B == Blocs(g)   E == Arcs(g)   F == Arcs(h)
<1>1. Headed(E, M, a) /\ Targets(m.exits) \subseteq Onward(g, M)
  BY GroupHeaded
<1>2. /\ Enclosed(E) /\ Connected(E) /\ DOMAIN E = B
      /\ \A b \in B : E[b] = Succ(g, b)
  BY ArcsFacts
<1>3. /\ Enclosed(F) /\ DOMAIN F = Blocs(h)
      /\ \A b \in Blocs(h) : F[b] = Succ(h, b)
  BY ArcsFacts
<1>4. /\ Blocs(h) = B \ (M \ {a}) /\ \A b \in B \ M : Succ(h, b) = Succ(g, b)
      /\ Succ(h, a) \subseteq Targets(m.exits)
  BY DEF Contracted
<1>5. a \in M /\ M \subseteq B
  BY <1>1, <1>2 DEF Headed
<1> HIDE DEF M, a, B
<1>6. \A b \in B \ M : b \in Blocs(h) /\ F[b] = E[b]
  BY <1>2, <1>3, <1>4
<1>7. a \in Blocs(h) /\ \A y \in F[a] : \E x \in M : y \in E[x]
  BY <1>1, <1>2, <1>3, <1>4, <1>5 DEF Onward
<1>8. DOMAIN F = (DOMAIN E) \ (M \ {a}) /\ \A b \in (DOMAIN E) \ M : F[b] = E[b]
  BY <1>2, <1>3, <1>4, <1>6
<1> HIDE DEF E, F
<1> QED BY <1>1, <1>2, <1>3, <1>7, <1>8, MergeRanked DEF E, F

\* A part with two exits that a funnel makes one.
LEMMA RankedPart ==
  ASSUME NEW g, Sane(g), Rooted(g), Ranked(Arcs(g)), NEW R \in Hammocks(g),
         NEW e \in PartExits(g, R), NEW f \in PartExits(g, R)
  PROVE  Ranked(Arcs(Funnel(g, R, Exits(e, f))))
<1> DEFINE h == Funnel(g, R, Exits(e, f))   n == g.fresh   B == Blocs(g)   E == Arcs(g)   F == Arcs(h)
<1>1. R \in SUBSET B /\ IsHammock(g, R)
  BY DEF Hammocks
<1>2. PICK a \in R : \A b \in R \ {a} : b # entry_bloc /\ Pred(g, b) \subseteq R
  BY <1>1 DEF IsHammock
<1>3. /\ Sane(h) /\ Rooted(h) /\ n \notin B /\ Blocs(h) = B \cup {n} /\ Succ(h, n) = {e, f}
      /\ \A b \in B : /\ Succ(h, b) \subseteq Succ(g, b) \cup {n}
                      /\ b \notin R => Succ(h, b) = Succ(g, b)
  BY <1>1, FunnelFacts
<1>4. /\ Enclosed(E) /\ Connected(E) /\ DOMAIN E = B
      /\ \A b \in B : E[b] = Succ(g, b) /\ Succ(g, b) \subseteq B
  BY ArcsFacts
<1> HIDE DEF h
<1>5. /\ Enclosed(F) /\ DOMAIN F = Blocs(h)
      /\ \A b \in Blocs(h) : F[b] = Succ(h, b)
  BY <1>3, ArcsFacts
<1>6. Headed(E, R, a)
  <2>1. ASSUME NEW x \in B \ R, NEW y \in Succ(g, x) \cap R PROVE y = a
    <3>1. y # a => x \in Pred(g, y)
      BY <2>1 DEF Pred
    <3> QED BY <3>1, <2>1, <1>2
  <2> QED BY <2>1, <1>1, <1>2, <1>4 DEF Headed
<1>7. \A y \in {e, f} : y \in B \ R /\ \E b \in R : y \in E[b]
  <2>1. \A y \in PartExits(g, R) : y \notin R /\ \E b \in R : y \in Succ(g, b)
    BY DEF PartExits
  <2> QED BY <2>1, <1>1, <1>4
<1> HIDE DEF n, B
<1>8. /\ n \notin DOMAIN E /\ DOMAIN F = (DOMAIN E) \cup {n}
      /\ \A y \in F[n] : y \in (DOMAIN E) \ R /\ \E b \in R : y \in E[b]
      /\ \A b \in (DOMAIN E) \ R : F[b] = E[b]
      /\ \A b \in R : F[b] \subseteq E[b] \cup {n}
  BY <1>1, <1>3, <1>4, <1>5, <1>7
<1>9. Ranked(E)
  OBVIOUS
<1> HIDE DEF E, F
<1>10. Ranked(F)
  BY <1>4, <1>5, <1>6, <1>8, <1>9, FunnelRanked
<1> QED BY <1>10 DEF F, h

\* A reducible graph has no cycle with several ways in to be cut.
LEMMA RankedUncut ==
  ASSUME NEW g, Sane(g), Rooted(g), Ranked(Arcs(g))
  PROVE  IncomingEdges(Refresh(g)) = {}
<1> DEFINE h == Refresh(g)   ord == Ordering(h)   idom == Idom(h)
           length == {n \in 1 .. Len(h.pool) - 1 : BadCycles(h, ord, idom, n) # {}}
           n == Min(length)
<1>1. /\ Sane(h) /\ Rooted(h) /\ Sorted(h, h.pool) /\ Blocs(h) = Blocs(g) /\ h.exits = g.exits
  BY RefreshFacts
<1>2. IncomingEdges(h) = IF length = {} THEN {}
                         ELSE UNION {Raid(h, ToSet(p)) : p \in BadCycles(h, ord, idom, n)}
  BY Zenon DEF IncomingEdges
<1> HIDE DEF h
<1>3. Reducible(h)
  <2>1. ReducibleByDefinition(g)
    BY RankedIff
  <2>2. ReducibleByDefinition(h)
    BY <1>1, <2>1, SaneDrawn, ReducibleSame
  <2> QED BY <1>1, <2>2, ReducibleIff DEF Ready
<1>4. ASSUME NEW k \in 1 .. Len(h.pool) - 1, NEW p \in BadCycles(h, ord, idom, k) PROVE FALSE
  <2>1. k \in Nat \ {0}
    <3>1. Len(h.pool) \in Nat
      BY <1>1, PoolFacts DEF Sane
    <3> QED BY <3>1
  <2>2. /\ p[1] \in Blocs(h) /\ Last(p) \in Blocs(h) /\ p[1] \in Succ(h, Last(p))
        /\ Ordering(h)[p[1]] < Ordering(h)[Last(p)]
    <3> HIDE DEF idom
    <3> QED BY <1>1, <2>1, CycleFacts
  <2>3. ~ Dominates(Idom(h), p[1], Last(p))
    BY DEF BadCycles
  <2> QED BY <1>3, <2>2, <2>3 DEF Reducible
<1>5. length = {}
  BY <1>4
<1> QED BY <1>2, <1>5 DEF h

\* No round takes the ranks away, and none duplicates a bloc of a graph that has some.
LEMMA RoundRanked ==
  ASSUME Shaped, Round, Ranked(Arcs(lab))
  PROVE  /\ phase' = "thrown" \/ Ranked(Arcs(lab'))
         /\ StepDuplicate => phase' = "thrown"
<1>1. phase = "collapse" /\ Sane(lab) /\ Rooted(lab) /\ lab.error = "none"
  <2>1. Collapsing
    BY DEF Round, StepSequence, StepIfThen, StepIfThenElse, StepLoop, StepExitIf, StepFunnel,
           StepDuplicate
  <2> QED BY <2>1, CollapsingFacts
<1>2. {Seq2, IfThen, IfThenElse, Loop, ExitIf} \subseteq Patterns
  BY DEF Patterns
<1>3. \A h : Rewrite(h) => lab' = h /\ (h.error # "none" => phase' = "thrown")
  BY Zenon DEF Rewrite
<1>4. \A p \in Patterns : FirstMatch(lab, p) # NoMatch => Grouped(lab, p, FirstMatch(lab, p))
                                                         /\ Accepted(p, FirstMatch(lab, p))
  BY <1>1, FirstMatchFacts
<1>5. ASSUME StepSequence PROVE Ranked(Arcs(lab'))
  <2> DEFINE m == FirstMatch(lab, Seq2)   h == MergeSubgraph(lab, m)
  <2>1. m # NoMatch /\ Rewrite(h)
    BY <1>5 DEF StepSequence
  <2>2. Grouped(lab, Seq2, m)
    BY <1>2, <1>4, <2>1
  <2> HIDE DEF m
  <2>3. Sane(h) /\ Rooted(h) /\ Contracted(lab, h, m.blocs, m.exits)
    BY <1>1, <2>2, GroupedMergeable, MergeFacts
  <2> HIDE DEF h
  <2> QED BY <1>1, <1>3, <2>1, <2>2, <2>3, RankedGroup
<1>6. ASSUME NEW p \in {IfThen, IfThenElse, ExitIf}, NEW closers, Len(closers) \in Nat,
             FirstMatch(lab, p) # NoMatch, Rewrite(MergeIf(lab, FirstMatch(lab, p), closers))
      PROVE  Ranked(Arcs(lab'))
  <2> DEFINE m == FirstMatch(lab, p)   h == MergeIf(lab, m, closers)
  <2>1. Grouped(lab, p, m) /\ Rewrite(h)
    BY <1>2, <1>4, <1>6
  <2> HIDE DEF m
  <2>2. Sane(h) /\ Rooted(h) /\ Contracted(lab, h, m.blocs, m.exits)
    BY <1>1, <1>6, <2>1, MergeIfFacts
  <2> HIDE DEF h
  <2> QED BY <1>1, <1>3, <2>1, <2>2, RankedGroup
<1>7. ASSUME StepIfThen \/ StepIfThenElse \/ StepExitIf PROVE Ranked(Arcs(lab'))
  <2> DEFINE one == << <<"}">> >>   two == << <<"else">>, <<"}">> >>
  <2>1. Len(one) \in Nat /\ Len(two) \in Nat
    OBVIOUS
  <2>2. \E p \in {IfThen, IfThenElse, ExitIf}, closers \in {one, two} :
          FirstMatch(lab, p) # NoMatch /\ Rewrite(MergeIf(lab, FirstMatch(lab, p), closers))
    BY <1>7 DEF StepIfThen, StepIfThenElse, StepExitIf
  <2> HIDE DEF one, two
  <2> QED BY <1>6, <2>1, <2>2
<1>8. ASSUME StepLoop PROVE Ranked(Arcs(lab'))
  <2> DEFINE m == FirstMatch(lab, Loop)   h == MergeLoop(lab, m)
  <2>1. m # NoMatch /\ Rewrite(h)
    BY <1>8 DEF StepLoop
  <2>2. Grouped(lab, Loop, m) /\ Has(m.exits, m.blocs[1])
    BY <1>2, <1>4, <2>1 DEF Accepted
  <2> HIDE DEF m
  <2>3. Sane(h) /\ Rooted(h) /\ Contracted(lab, h, m.blocs, m.exits)
    BY <1>1, <2>2, MergeLoopFacts
  <2> HIDE DEF h
  <2> QED BY <1>1, <1>3, <2>1, <2>2, <2>3, RankedGroup
<1>9. ASSUME StepFunnel PROVE Ranked(Arcs(lab'))
  <2>1. PICK R \in Hammocks(lab) : \E e, f \in PartExits(lab, R) : Rewrite(Funnel(lab, R, Exits(e, f)))
    BY <1>9 DEF StepFunnel
  <2>2. PICK e \in PartExits(lab, R), f \in PartExits(lab, R) : Rewrite(Funnel(lab, R, Exits(e, f)))
    BY <2>1
  <2> DEFINE h == Funnel(lab, R, Exits(e, f))
  <2>3. Ranked(Arcs(h))
    BY <1>1, RankedPart
  <2>4. Rewrite(h)
    BY <2>2
  <2> HIDE DEF h
  <2> QED BY <1>3, <2>3, <2>4
<1>10. ASSUME StepDuplicate PROVE phase' = "thrown"
  <2> DEFINE g == Refresh(lab)
             err == [g EXCEPT !.error = "bad graph"]   self == [g EXCEPT !.error = "self-cycle"]
  <2>1. IncomingEdges(g) = {}
    BY <1>1, RankedUncut
  <2>2. g = [f \in Fields |-> g[f]]
    BY <1>1, RefreshFacts DEF Alike
  <2>3. Rewrite(IF g.error # "none" THEN g
                ELSE IF \E b \in Blocs(g) : b \in Succ(g, b) THEN self
                ELSE IF IncomingEdges(g) = {} THEN err
                ELSE DuplicateWorst(g))
    BY Zenon, <1>10 DEF StepDuplicate
  <2> HIDE DEF g
  <2>4. err.error # "none" /\ self.error # "none"
    BY <2>2 DEF Fields
  <2> HIDE DEF err, self
  <2>5. \E h : Rewrite(h) /\ h.error # "none"
    BY <2>1, <2>3, <2>4
  <2> QED BY <1>3, <2>5
<1> QED BY <1>5, <1>7, <1>8, <1>9, <1>10 DEF Round

\* The graph that was decoded, whose flow is kept, had no ranks, or the graph has some.
Followed ==
  /\ Shaped
  /\ phase = "collapse" =>
       \E g : Sane(g) /\ Rooted(g) /\ g.exits = flow /\ (Ranked(Arcs(g)) => Ranked(Arcs(lab)))

LEMMA FollowedNext == ASSUME Followed, [Next]_vars PROVE Followed'
<1>1. Shaped /\ Shaped'
  BY ShapedNext DEF Followed
<1>2. SUFFICES ASSUME phase' = "collapse"
               PROVE  \E g : Sane(g) /\ Rooted(g) /\ g.exits = flow'
                             /\ (Ranked(Arcs(g)) => Ranked(Arcs(lab')))
  BY <1>1 DEF Followed, Arcs, Ranked, RankedBy, Guards, Fenced, Blocs, Succ
<1>3. CASE Decoded
  <2>1. Sane(lab) /\ Rooted(lab) /\ lab.exits = flow' /\ lab' = lab
    BY <1>1, <1>3 DEF Decoded, Shaped
  <2> QED BY <2>1
<1>4. CASE Round /\ UNCHANGED <<pending, flow, runVars>>
  <2>1. phase = "collapse"
    BY <1>4 DEF Round, StepSequence, StepIfThen, StepIfThenElse, StepLoop, StepExitIf, StepFunnel,
                StepDuplicate, Collapsing
  <2>2. PICK g : Sane(g) /\ Rooted(g) /\ g.exits = flow /\ (Ranked(Arcs(g)) => Ranked(Arcs(lab)))
    BY <2>1 DEF Followed
  <2>3. Ranked(Arcs(lab)) => Ranked(Arcs(lab'))
    <3>1. phase' # "thrown"
      BY <1>2
    <3> QED BY <1>1, <1>4, <3>1, RoundRanked
  <2> QED BY <1>4, <2>2, <2>3
<1>5. CASE DecodeKnown \/ DecodeNew \/ Emit \/ Run \/ Over
  <2>1. phase' # "collapse"
    BY <1>5 DEF DecodeKnown, DecodeNew, Emit, Run, RunInsn, RunFunnel, RunControl, Diverge, Running,
                Over, Final, vars
  <2> QED BY <1>2, <2>1
<1>6. CASE UNCHANGED vars
  BY <1>2, <1>6 DEF Followed, vars
<1> QED BY <1>3, <1>4, <1>5, <1>6 DEF Next, Step, Decode

LEMMA FollowedAlways == Spec => []Followed
<1>1. Init => Followed
  <2>1. Init => phase # "collapse"
    BY DEF Init
  <2> QED BY <2>1, ShapedInit DEF Followed
<1> QED BY <1>1, FollowedNext, PTL DEF Spec

\* The function that was decoded, drawn as ReducibleStays does.
FlowGraph == [lab EXCEPT !.pool = SetToSeq(DOMAIN flow), !.exits = flow]

LEMMA FlowDrawn ==
  ASSUME Shaped, NEW g, Sane(g), g.exits = flow
  PROVE  /\ Drawn(FlowGraph) /\ Blocs(FlowGraph) = Blocs(g) /\ FlowGraph.exits = g.exits
<1> DEFINE h == FlowGraph   D == DOMAIN flow   order == SetToSeq(D)
<1>1. lab = [f \in Fields |-> lab[f]]
  BY DEF Shaped, Sane, Pooled
<1>2. D = Blocs(g) /\ IsFiniteSet(D) /\ Drawn(g)
  BY SaneDrawn DEF Sane, Linked, Drawn
<1>3. ToSet(order) = D /\ Len(order) = Cardinality(D)
  BY <1>2, SetToSeqFacts
<1> HIDE DEF order, D
<1>4. h.pool = order /\ h.exits = flow
  <2>1. h = [lab EXCEPT !.pool = order, !.exits = flow]
    BY DEF FlowGraph, order, D
  <2> HIDE DEF h
  <2> QED BY <1>1, <2>1 DEF Fields
<1> HIDE DEF h
<1>5. Blocs(h) = D
  BY <1>3, <1>4 DEF Blocs
<1>6. \A b : Succ(h, b) = Succ(g, b)
  BY <1>4 DEF Succ
<1>7. Len(h.pool) = Cardinality(D) /\ Cardinality(D) \in Nat
  BY <1>2, <1>3, <1>4, FS_CardinalityType
<1>8. Drawn(h)
  BY <1>2, <1>5, <1>6, <1>7 DEF Drawn
<1> QED BY <1>2, <1>4, <1>5, <1>8 DEF h

LEMMA FollowedReducible ==
  ASSUME Followed, phase = "collapse", ReducibleByDefinition(FlowGraph)
  PROVE  ReducibleByDefinition(lab) /\ Ranked(Arcs(lab))
<1>1. PICK g : Sane(g) /\ Rooted(g) /\ g.exits = flow /\ (Ranked(Arcs(g)) => Ranked(Arcs(lab)))
  BY DEF Followed
<1>2. Shaped /\ Sane(lab) /\ Rooted(lab)
  BY DEF Followed, Shaped
<1>3. Drawn(FlowGraph) /\ Drawn(g) /\ Blocs(FlowGraph) = Blocs(g) /\ FlowGraph.exits = g.exits
  BY <1>1, <1>2, FlowDrawn, SaneDrawn
<1>4. ReducibleByDefinition(g)
  BY <1>3, ReducibleSame
<1>5. Ranked(Arcs(lab))
  BY <1>1, <1>4, RankedIff
<1> QED BY <1>2, <1>5, RankedIff

-----------------------------------------------------------------------------
(* The graphs of collapse.                                                 *)

\* The loop over immediate dominators ends within its bound, and whatever the
\* graph the tree that it ends with is the dominance relation: a is on the line
\* of b iff the entry does not lead to b around a (CFG::refresh_props).
THEOREM DominanceExact == Spec => []DominatorsExact
<1>1. Shaped => DominatorsExact
  <2> SUFFICES ASSUME Shaped PROVE DominatorsExact
    OBVIOUS
  <2> DEFINE g == Refresh(lab)
  <2>1. Sane(g) /\ Rooted(g) /\ Sorted(g, g.pool)
    BY RefreshFacts DEF Shaped
  <2> HIDE DEF g
  <2>2. \A a, b \in Blocs(g) : Dominates(Idom(g), a, b) <=> DominatesByDefinition(g, a, b)
    BY <2>1, IdomExact DEF Ready
  <2> QED BY <2>2 DEF DominatorsExact, g
<1> QED BY <1>1, ShapedAlways, PTL

\* The test of each retreating edge, whether its head dominates its tail, tells
\* the graphs in which every cycle has one way in, whatever the order of the
\* blocs that it is made with (CFG::reducible).
THEOREM ReducibilityExact == Spec => []ReducibleExact
<1>1. Shaped => ReducibleExact
  <2> SUFFICES ASSUME Shaped PROVE ReducibleExact
    OBVIOUS
  <2> DEFINE g == Refresh(lab)
  <2>1. Sane(lab) /\ Rooted(lab)
    BY DEF Shaped
  <2>2. /\ Sane(g) /\ Rooted(g) /\ Sorted(g, g.pool)
        /\ Blocs(g) = Blocs(lab) /\ g.exits = lab.exits
    BY <2>1, RefreshFacts
  <2> HIDE DEF g
  <2>3. Reducible(g) <=> ReducibleByDefinition(g)
    BY <2>2, ReducibleIff DEF Ready
  <2>4. ReducibleByDefinition(g) <=> ReducibleByDefinition(lab)
    BY <2>1, <2>2, SaneDrawn, ReducibleSame
  <2> QED BY <2>3, <2>4 DEF ReducibleExact, g
<1> QED BY <1>1, ShapedAlways, PTL

\* Merging the blocs of a pattern and sending a part to a funnel give a
\* reducible graph for a reducible graph, whatever the order in which the
\* patterns are tried and the parts are met (Collapse::step).
THEOREM ReducibilityKept == Spec => []ReducibleStays
<1>1. Followed => ReducibleStays
  <2> SUFFICES ASSUME Followed, phase = "collapse", ReducibleByDefinition(FlowGraph)
               PROVE  ReducibleByDefinition(lab)
    BY DEF ReducibleStays, FlowGraph
  <2> QED BY FollowedReducible
<1> QED BY <1>1, FollowedAlways, PTL

\* No bloc of a reducible function is ever duplicated: where no group and no part
\* are left to collapse, the function throws (Collapse::step).
THEOREM ReducibleUncut ==
  Spec => [][ReducibleByDefinition(FlowGraph) /\ StepDuplicate => phase' = "thrown"]_vars
<1>1. Followed /\ ReducibleByDefinition(FlowGraph) /\ StepDuplicate => phase' = "thrown"
  <2> SUFFICES ASSUME Followed, ReducibleByDefinition(FlowGraph), StepDuplicate
               PROVE  phase' = "thrown"
    OBVIOUS
  <2>1. phase = "collapse" /\ Shaped /\ Round
    BY DEF StepDuplicate, Collapsing, Followed, Round
  <2> QED BY <2>1, FollowedReducible, RoundRanked
<1> QED BY <1>1, FollowedAlways, PTL

-----------------------------------------------------------------------------
(* Structured code.                                                        *)

\* What a token adds to the number of open blocks, and takes from it first.
Rise(t) == IF Opens(t) THEN 1 ELSE 0
Fall(t) == IF Closes(t) THEN 1 ELSE 0

\* The tokens that leave a block.
Jumps(t) == t[1] \in {"ifBreak", "ifContinue", "break", "continue"}

\* The members of P between i and n.
Among(P, i, n) == Cardinality({k \in i + 1 .. n - 1 : k \in P})

\* ... with j, the next one.
LEMMA CountOne ==
  ASSUME NEW P, NEW i \in Nat, NEW j \in Nat, j > i
  PROVE  /\ Among(P, i, j) \in Nat
         /\ Among(P, i, j + 1) = Among(P, i, j) + (IF j \in P THEN 1 ELSE 0)
<1> DEFINE S == {k \in i + 1 .. j - 1 : k \in P}   T == {k \in i + 1 .. (j + 1) - 1 : k \in P}
<1>1. IsFiniteSet(S)
  <2>1. IsFiniteSet(i + 1 .. j - 1)
    BY FS_Interval
  <2>2. S \subseteq i + 1 .. j - 1
    OBVIOUS
  <2> HIDE DEF S
  <2> QED BY <2>1, <2>2, FS_Subset
<1>2. T = IF j \in P THEN S \cup {j} ELSE S
  OBVIOUS
<1>3. j \notin S
  OBVIOUS
<1> HIDE DEF S
<1>4. Cardinality(S) \in Nat /\ Cardinality(S \cup {j}) = Cardinality(S) + 1
  BY <1>1, <1>3, FS_AddElement, FS_CardinalityType
<1>5. Cardinality(T) = Cardinality(S) + (IF j \in P THEN 1 ELSE 0)
  <2> HIDE DEF T
  <2> QED BY <1>2, <1>4
<1> QED BY <1>4, <1>5 DEF S, T, Among

\* The depth from i on, token by token.
LEMMA DepthStep ==
  ASSUME NEW s, NEW i \in Nat, NEW j \in Nat, j > i
  PROVE  /\ Depth(s, i, i + 1) = 0 /\ Depth(s, i, j) \in Int
         /\ Depth(s, i, j + 1) = Depth(s, i, j) + Rise(s[j]) - Fall(s[j])
<1> DEFINE O == {k \in Nat : Opens(s[k])}   C == {k \in Nat : Closes(s[k])}
<1>1. \A n \in Nat : Depth(s, i, n) = Among(O, i, n) - Among(C, i, n)
  <2>1. SUFFICES ASSUME NEW n \in Nat PROVE Depth(s, i, n) = Among(O, i, n) - Among(C, i, n)
    OBVIOUS
  <2>2. {k \in i + 1 .. n - 1 : k \in O} = {k \in i + 1 .. n - 1 : Opens(s[k])}
    OBVIOUS
  <2>3. {k \in i + 1 .. n - 1 : k \in C} = {k \in i + 1 .. n - 1 : Closes(s[k])}
    OBVIOUS
  <2> QED BY <2>2, <2>3 DEF Depth, Among
<1>2. O \in SUBSET Nat /\ C \in SUBSET Nat
  OBVIOUS
<1>3. /\ Among(O, i, j) \in Nat /\ Among(O, i, j + 1) = Among(O, i, j) + Rise(s[j])
      /\ Among(C, i, j) \in Nat /\ Among(C, i, j + 1) = Among(C, i, j) + Fall(s[j])
  <2>1. (j \in O <=> Opens(s[j])) /\ (j \in C <=> Closes(s[j]))
    OBVIOUS
  <2> HIDE DEF O, C
  <2>2. /\ Among(O, i, j) \in Nat
        /\ Among(O, i, j + 1) = Among(O, i, j) + (IF j \in O THEN 1 ELSE 0)
    BY <1>2, CountOne
  <2>3. /\ Among(C, i, j) \in Nat
        /\ Among(C, i, j + 1) = Among(C, i, j) + (IF j \in C THEN 1 ELSE 0)
    BY <1>2, CountOne
  <2> QED BY <2>1, <2>2, <2>3 DEF Rise, Fall
<1>4. Among(O, i, i + 1) = 0 /\ Among(C, i, i + 1) = 0
  <2>1. \A P : {k \in i + 1 .. (i + 1) - 1 : k \in P} = {}
    OBVIOUS
  <2> QED BY <2>1, FS_EmptySet DEF Among
<1>5. Rise(s[j]) \in Int /\ Fall(s[j]) \in Int
  BY DEF Rise, Fall
<1> QED BY <1>1, <1>3, <1>4, <1>5

\* The number of blocks open between two tokens is the difference of those that are
\* open at them.
LEMMA DepthFrom ==
  ASSUME NEW s, NEW i \in Nat, NEW j \in Nat, j > i
  PROVE  Depth(s, i, j) = Depth(s, 0, j) - Depth(s, 0, i + 1) /\ Depth(s, 0, j) \in Int
<1> DEFINE S == {n \in Nat : Depth(s, i, i + 1 + n) = Depth(s, 0, i + 1 + n) - Depth(s, 0, i + 1)}
<1>1. \A n \in Nat : n > 0 => Depth(s, 0, n) \in Int
  BY DepthStep
<1>2. 0 \in S
  <2>1. i + 1 \in Nat /\ i + 1 > i /\ i + 1 > 0 /\ i + 1 + 0 = i + 1
    OBVIOUS
  <2>2. Depth(s, i, i + 1) = 0
    BY <2>1, DepthStep
  <2>3. Depth(s, 0, i + 1) \in Int
    BY <1>1, <2>1
  <2> QED BY <2>1, <2>2, <2>3
<1>3. ASSUME NEW n \in Nat, n \in S PROVE n + 1 \in S
  <2> DEFINE k == i + 1 + n
  <2>1. k \in Nat /\ k > i /\ k > 0 /\ i + 1 + (n + 1) = k + 1
    OBVIOUS
  <2>2. Depth(s, i, k + 1) = Depth(s, i, k) + Rise(s[k]) - Fall(s[k]) /\ Depth(s, i, k) \in Int
    BY <2>1, DepthStep
  <2>3. Depth(s, 0, k + 1) = Depth(s, 0, k) + Rise(s[k]) - Fall(s[k]) /\ Depth(s, 0, k) \in Int
    BY <2>1, DepthStep
  <2>4. Depth(s, i, k) = Depth(s, 0, k) - Depth(s, 0, i + 1)
    BY <1>3
  <2>5. Depth(s, 0, i + 1) \in Int /\ Rise(s[k]) \in Int /\ Fall(s[k]) \in Int
    BY <1>1 DEF Rise, Fall
  <2> HIDE DEF k
  <2>6. Depth(s, i, k + 1) = Depth(s, 0, k + 1) - Depth(s, 0, i + 1)
    BY <2>2, <2>3, <2>4, <2>5
  <2> QED BY <2>1, <2>6
<1> HIDE DEF S
<1>4. Nat \subseteq S
  BY <1>2, <1>3, Induction
<1>5. j - (i + 1) \in S
  BY <1>4
<1>6. Depth(s, i, i + 1 + (j - (i + 1))) = Depth(s, 0, i + 1 + (j - (i + 1))) - Depth(s, 0, i + 1)
  BY <1>5 DEF S
<1>7. i + 1 + (j - (i + 1)) = j
  OBVIOUS
<1> QED BY <1>1, <1>6, <1>7

\* A code that leaves n blocks open: no token closes a block that it did not open, and
\* a jump is inside a loop.
Rising(s, n) ==
  /\ \A j \in 1 .. Len(s) : Depth(s, 0, j) >= Fall(s[j])
  /\ Depth(s, 0, Len(s) + 1) = n
  /\ \A i \in 1 .. Len(s) : Jumps(s[i]) =>
       \E k \in 1 .. i - 1 :
         /\ s[k] = <<"for">>
         /\ \A j \in k + 1 .. i : Depth(s, 0, j) >= Depth(s, 0, k) + 1 + Fall(s[j])

\* Statements of a bloc: a code that closes what it opens.
Formed(s) == (\E S : s \in Seq(S)) /\ Rising(s, 0)

-----------------------------------------------------------------------------
(* The blocks of a code that is formed.                                    *)

\* Max of a bounded set of numbers is the greatest of them.
LEMMA Greatest ==
  ASSUME NEW I, I \subseteq Nat, I # {}, NEW n \in Nat, \A x \in I : x <= n
  PROVE  Max(I) \in I /\ \A y \in I : y <= Max(I)
<1> DEFINE J == {n - x : x \in I}
<1>1. J \subseteq Nat /\ J # {}
  <2>1. ASSUME NEW x \in I PROVE n - x \in Nat
    OBVIOUS
  <2> QED BY <2>1
<1> HIDE DEF J
<1>2. PICK y \in J : \A z \in J : y <= z
  BY <1>1, Least
<1>3. PICK x \in I : y = n - x
  BY DEF J
<1>4. \A z \in I : n - z \in J
  BY DEF J
<1>5. \A z \in I : n - x <= n - z
  BY <1>2, <1>3, <1>4
<1>6. \A z \in I : z <= x
  BY <1>5
<1>7. \A z \in I : x >= z
  BY <1>6
<1> HIDE DEF J
<1> QED BY <1>7 DEF Max

\* The number of open blocks stays above what no token goes under.
LEMMA DepthFloor ==
  ASSUME NEW s, NEW a \in Nat, a > 0, NEW e \in Nat, a <= e, NEW n \in Int,
         Depth(s, 0, a) >= n, \A j \in a .. e - 1 : Depth(s, 0, j) >= n + Fall(s[j])
  PROVE  Depth(s, 0, e) >= n
<1>1. CASE e = a
  BY <1>1
<1>2. CASE e > a
  <2> DEFINE k == e - 1
  <2>1. k \in Nat /\ k > 0 /\ k + 1 = e /\ k \in a .. e - 1
    BY <1>2
  <2> HIDE DEF k
  <2>2. Depth(s, 0, k + 1) = Depth(s, 0, k) + Rise(s[k]) - Fall(s[k]) /\ Depth(s, 0, k) \in Int
    BY <2>1, DepthStep
  <2>3. Depth(s, 0, k) >= n + Fall(s[k])
    BY <2>1
  <2> QED BY <2>1, <2>2, <2>3 DEF Rise, Fall
<1> QED BY <1>1, <1>2

\* The depth from the beginning on, token by token.
LEMMA DepthTypes ==
  ASSUME NEW s
  PROVE  /\ Depth(s, 0, 1) = 0
         /\ \A j \in Nat : j > 0 =>
              /\ Depth(s, 0, j) \in Int
              /\ Depth(s, 0, j + 1) = Depth(s, 0, j) + Rise(s[j]) - Fall(s[j])
         /\ \A t : Rise(t) \in {0, 1} /\ Fall(t) \in {0, 1}
<1>1. 0 \in Nat /\ 0 + 1 = 1 /\ 1 > 0 /\ 1 \in Nat
  OBVIOUS
<1>2. Depth(s, 0, 1) = 0
  BY <1>1, DepthStep
<1> QED BY <1>1, <1>2, DepthStep DEF Rise, Fall

\* A block that is opened is closed where as many are open as right after.
LEMMA BlockEndFacts ==
  ASSUME NEW s, Len(s) \in Nat, Rising(s, 0), NEW i \in 1 .. Len(s), Opens(s[i])
  PROVE  LET e == BlockEnd(s, i)
         IN  /\ e \in i + 1 .. Len(s) /\ Closes(s[e]) /\ Depth(s, 0, e) = Depth(s, 0, i + 1)
             /\ \A j \in i + 1 .. e - 1 : Depth(s, 0, j) >= Depth(s, 0, i + 1) + Fall(s[j])
<1> DEFINE L == Len(s)   n == Depth(s, 0, i + 1)
           J == {j \in i + 1 .. L : ~ Depth(s, 0, j) >= n + Fall(s[j])}
           I == {j \in i + 1 .. L : Closes(s[j]) /\ Depth(s, i, j) = 0}
<1>1. /\ \A j \in 1 .. L : Depth(s, 0, j) \in Int /\ Depth(s, 0, j) >= Fall(s[j])
      /\ Depth(s, 0, L + 1) = 0
      /\ n \in Int /\ n >= 1
  <2>1. \A j \in 1 .. L : Depth(s, 0, j) \in Int /\ Depth(s, 0, j) >= Fall(s[j])
    BY DepthTypes DEF Rising
  <2>2. n = Depth(s, 0, i) + Rise(s[i]) - Fall(s[i])
    BY DepthTypes
  <2>3. Rise(s[i]) = 1
    BY DEF Rise
  <2>4. Fall(s[i]) \in {0, 1} /\ Depth(s, 0, i) \in Int /\ Depth(s, 0, i) >= Fall(s[i])
    BY <2>1 DEF Fall
  <2>5. n \in Int /\ n >= 1
    <3> HIDE DEF n
    <3> QED BY <2>2, <2>3, <2>4
  <2>6. Depth(s, 0, L + 1) = 0
    BY DEF Rising
  <2> QED BY <2>1, <2>5, <2>6
<1>2. J # {}
  <2> SUFFICES ASSUME J = {} PROVE FALSE
    OBVIOUS
  <2>1. \A j \in i + 1 .. (L + 1) - 1 : Depth(s, 0, j) >= n + Fall(s[j])
    OBVIOUS
  <2>2. i + 1 \in Nat /\ i + 1 > 0 /\ L + 1 \in Nat /\ i + 1 <= L + 1
    OBVIOUS
  <2>3. Depth(s, 0, i + 1) >= n
    BY <1>1
  <2> HIDE DEF J, n, L
  <2>4. Depth(s, 0, L + 1) >= n
    BY <1>1, <2>1, <2>2, <2>3, DepthFloor
  <2> QED BY <2>4, <1>1
<1>3. PICK e \in J : \A j \in J : e <= j
  <2>1. J \subseteq Nat
    OBVIOUS
  <2> HIDE DEF J
  <2> QED BY <1>2, <2>1, Least
<1>4. e \in i + 1 .. L /\ \A j \in i + 1 .. e - 1 : Depth(s, 0, j) >= n + Fall(s[j])
  BY <1>3
<1>5. Depth(s, 0, e) = n /\ Closes(s[e])
  <2>1. i + 1 \in Nat /\ i + 1 > 0 /\ e \in Nat /\ i + 1 <= e /\ e \in 1 .. L
    BY <1>4
  <2>2. Depth(s, 0, e) >= n
    <3>1. Depth(s, 0, i + 1) >= n
      BY <1>1
    <3> HIDE DEF n, L, J
    <3> QED BY <1>1, <1>4, <2>1, <3>1, DepthFloor
  <2>3. ~ Depth(s, 0, e) >= n + Fall(s[e])
    BY <1>3
  <2> HIDE DEF n, L, J
  <2> QED BY <1>1, <2>1, <2>2, <2>3 DEF Fall
<1>6. \A j \in i + 1 .. L : Depth(s, i, j) = Depth(s, 0, j) - n
  BY DepthFrom
<1>7. e \in I
  BY <1>1, <1>4, <1>5, <1>6
<1>8. I \subseteq J
  <2>1. ASSUME NEW j \in I PROVE ~ Depth(s, 0, j) >= n + Fall(s[j])
    <3>1. j \in i + 1 .. L /\ j \in 1 .. L /\ Fall(s[j]) = 1 /\ Depth(s, 0, j) - n = 0
      BY <1>6 DEF Fall
    <3> HIDE DEF n, L
    <3> QED BY <1>1, <3>1
  <2> QED BY <2>1
<1>9. Min(I) = e
  <2>1. I \subseteq Nat /\ I # {}
    BY <1>7
  <2> HIDE DEF I, J
  <2>2. Min(I) \in I /\ \A j \in I : Min(I) <= j
    BY <2>1, Least
  <2>3. Min(I) <= e /\ e <= Min(I) /\ Min(I) \in Nat /\ e \in Nat
    BY <1>3, <1>7, <1>8, <2>1, <2>2
  <2> QED BY <2>3
<1>10. BlockEnd(s, i) = e
  BY <1>9 DEF BlockEnd
<1> QED BY <1>4, <1>5, <1>10

\* A token that closes a block closes one that was opened.
LEMMA BlockBeginFacts ==
  ASSUME NEW s, Len(s) \in Nat, Rising(s, 0), NEW j \in 1 .. Len(s), Closes(s[j])
  PROVE  LET i == BlockBegin(s, j)
         IN  i \in 1 .. j - 1 /\ Opens(s[i]) /\ BlockEnd(s, i) = j
<1> DEFINE L == Len(s)   n == Depth(s, 0, j)
           I == {k \in 1 .. j - 1 : ~ Depth(s, 0, k) >= n + Fall(s[k])}
<1>1. /\ \A k \in 1 .. L : /\ Depth(s, 0, k) \in Int /\ Depth(s, 0, k) >= Fall(s[k])
                           /\ Depth(s, 0, k + 1) = Depth(s, 0, k) + Rise(s[k]) - Fall(s[k])
      /\ Depth(s, 0, 1) = 0 /\ \A t : Rise(t) \in {0, 1} /\ Fall(t) \in {0, 1}
      /\ Fall(s[j]) = 1 /\ n \in Int /\ n >= 1
  <2>1. Fall(s[j]) = 1
    BY DEF Fall
  <2>2. ASSUME NEW k \in 1 .. L
        PROVE  /\ Depth(s, 0, k) \in Int /\ Depth(s, 0, k) >= Fall(s[k])
               /\ Depth(s, 0, k + 1) = Depth(s, 0, k) + Rise(s[k]) - Fall(s[k])
    BY DepthTypes DEF Rising
  <2>3. Depth(s, 0, 1) = 0 /\ \A t : Rise(t) \in {0, 1} /\ Fall(t) \in {0, 1}
    BY DepthTypes
  <2>4. n \in Int /\ n >= 1
    <3>1. n \in Int /\ n >= Fall(s[j])
      BY <2>2
    <3> HIDE DEF n
    <3> QED BY <2>1, <3>1
  <2> QED BY <2>1, <2>2, <2>3, <2>4
<1>2. 1 \in I
  <2>1. j # 1
    BY <1>1
  <2>2. 1 \in 1 .. j - 1
    BY <2>1
  <2>3. Fall(s[1]) \in {0, 1} /\ Depth(s, 0, 1) = 0 /\ n \in Int /\ n >= 1
    BY <1>1
  <2> HIDE DEF n
  <2>4. ~ Depth(s, 0, 1) >= n + Fall(s[1])
    BY <2>3
  <2> QED BY <2>2, <2>4
<1>3. PICK i \in I : \A k \in I : k <= i
  <2>1. I \subseteq Nat /\ I # {} /\ j \in Nat /\ \A x \in I : x <= j
    BY <1>2
  <2> HIDE DEF I
  <2> QED BY <2>1, Greatest
<1>4. /\ i \in 1 .. j - 1 /\ i \in 1 .. L /\ ~ Depth(s, 0, i) >= n + Fall(s[i])
      /\ \A k \in i + 1 .. j - 1 : Depth(s, 0, k) >= n + Fall(s[k])
  BY <1>3
<1>5. Depth(s, 0, i + 1) = n /\ Rise(s[i]) = 1
  <2>1. Depth(s, 0, i + 1) >= n
    <3>1. CASE i + 1 = j
      <4>1. Depth(s, 0, i + 1) = n /\ n \in Int
        BY <3>1, <1>1
      <4> HIDE DEF n
      <4> QED BY <4>1
    <3>2. CASE i + 1 # j
      <4>1. i + 1 \in i + 1 .. j - 1 /\ i + 1 \in 1 .. L
        BY <3>2, <1>4
      <4> HIDE DEF n
      <4>2. /\ Depth(s, 0, i + 1) >= n + Fall(s[i + 1]) /\ Depth(s, 0, i + 1) \in Int
            /\ Fall(s[i + 1]) \in {0, 1} /\ n \in Int
        BY <4>1, <1>1, <1>4
      <4> QED BY <4>2
    <3> QED BY <3>1, <3>2
  <2>2. Depth(s, 0, i + 1) = Depth(s, 0, i) + Rise(s[i]) - Fall(s[i]) /\ Depth(s, 0, i) \in Int
    BY <1>1, <1>4
  <2>3. Rise(s[i]) \in {0, 1} /\ Fall(s[i]) \in {0, 1}
    BY <1>1
  <2> HIDE DEF n
  <2> QED BY <1>1, <1>4, <2>1, <2>2, <2>3
<1>6. Opens(s[i])
  BY <1>5 DEF Rise
<1>7. BlockEnd(s, i) = j
  <2> DEFINE e == BlockEnd(s, i)
  <2>1. /\ e \in i + 1 .. L /\ Closes(s[e]) /\ Depth(s, 0, e) = n
        /\ \A k \in i + 1 .. e - 1 : Depth(s, 0, k) >= n + Fall(s[k])
    BY <1>4, <1>5, <1>6, BlockEndFacts
  <2>2. Fall(s[e]) = 1
    BY <2>1 DEF Fall
  <2> HIDE DEF e, n
  <2>3. ASSUME e < j PROVE FALSE
    <3>1. e \in i + 1 .. j - 1
      BY <2>1, <2>3
    <3> QED BY <3>1, <1>1, <1>4, <2>1, <2>2
  <2>4. ASSUME j < e PROVE FALSE
    <3>1. j \in i + 1 .. e - 1
      BY <1>4, <2>1, <2>4
    <3>2. Depth(s, 0, j) >= n + Fall(s[j])
      BY <3>1, <2>1
    <3> QED BY <3>2, <1>1 DEF n
  <2> QED BY <1>4, <2>1, <2>3, <2>4 DEF e
<1>8. \E k \in 1 .. j - 1 : Opens(s[k]) /\ BlockEnd(s, k) = j
  BY <1>4, <1>6, <1>7
<1> HIDE DEF L, n, I
<1> QED BY <1>8 DEF BlockBegin

\* A jump is inside a loop.
LEMMA LoopAroundFacts ==
  ASSUME NEW s, Len(s) \in Nat, Rising(s, 0), NEW i \in 1 .. Len(s), Jumps(s[i])
  PROVE  LET k == LoopAround(s, i)
         IN  k \in 1 .. i - 1 /\ s[k] = <<"for">> /\ Opens(s[k]) /\ BlockEnd(s, k) \in i + 1 .. Len(s)
<1> DEFINE I == {k \in 1 .. i - 1 : s[k] = <<"for">> /\ BlockEnd(s, k) > i}
<1>1. \A k \in 1 .. i - 1 : s[k] = <<"for">> => Opens(s[k]) /\ ~ Closes(s[k])
  BY DEF Opens, Closes
<1>2. PICK k \in 1 .. i - 1 :
        /\ s[k] = <<"for">>
        /\ \A j \in k + 1 .. i : Depth(s, 0, j) >= Depth(s, 0, k) + 1 + Fall(s[j])
  BY DEF Rising
<1>3. k \in 1 .. Len(s) /\ Opens(s[k]) /\ ~ Closes(s[k])
  BY <1>1, <1>2
<1> DEFINE e == BlockEnd(s, k)
<1>4. e \in k + 1 .. Len(s) /\ Closes(s[e]) /\ Depth(s, 0, e) = Depth(s, 0, k + 1)
  BY <1>3, BlockEndFacts
<1> HIDE DEF e
<1>5. Depth(s, 0, k + 1) = Depth(s, 0, k) + 1 /\ Depth(s, 0, k) \in Int
  <2>1. Rise(s[k]) = 1 /\ Fall(s[k]) = 0
    BY <1>3 DEF Rise, Fall
  <2>2. /\ Depth(s, 0, k + 1) = Depth(s, 0, k) + Rise(s[k]) - Fall(s[k])
        /\ Depth(s, 0, k) \in Int
    BY <1>3, DepthTypes
  <2> QED BY <2>1, <2>2
<1>6. e > i
  <2> SUFFICES ASSUME ~ e > i PROVE FALSE
    OBVIOUS
  <2>1. e \in k + 1 .. i /\ Fall(s[e]) = 1
    BY <1>4 DEF Fall
  <2>2. Depth(s, 0, e) >= Depth(s, 0, k) + 1 + 1
    BY <1>2, <2>1
  <2> QED BY <1>4, <1>5, <2>2
<1>7. k \in I
  BY <1>2, <1>6 DEF e
<1>8. Max(I) \in I
  <2>1. I \subseteq Nat /\ I # {} /\ i \in Nat /\ \A x \in I : x <= i
    BY <1>7
  <2> HIDE DEF I
  <2> QED BY <2>1, Greatest
<1>9. LoopAround(s, i) = Max(I)
  BY DEF LoopAround
<1> DEFINE m == Max(I)
<1>10. m \in 1 .. i - 1 /\ s[m] = <<"for">> /\ BlockEnd(s, m) > i
  BY <1>8
<1> HIDE DEF m, I
<1>11. m \in 1 .. Len(s) /\ Opens(s[m])
  BY <1>1, <1>10
<1>12. BlockEnd(s, m) \in m + 1 .. Len(s)
  BY <1>11, BlockEndFacts
<1> QED BY <1>9, <1>10, <1>11, <1>12 DEF m

\* A code that is formed is that of a C++ function, and control stays in it.
LEMMA FormedFacts ==
  ASSUME NEW s, Formed(s)
  PROVE  /\ WellFormed(s)
         /\ \A i \in 1 .. Len(s) : \A c : Goto(s, i, c) \in 1 .. Len(s) + 1
<1>1. Len(s) \in Nat /\ DOMAIN s = 1 .. Len(s) /\ Rising(s, 0)
  BY DEF Formed
<1>2. \A j \in 1 .. Len(s) + 1 : Depth(s, 0, j) >= 0
  <2>1. \A j \in 1 .. Len(s) : Depth(s, 0, j) >= Fall(s[j]) /\ Depth(s, 0, j) \in Int
    BY <1>1, DepthTypes DEF Rising
  <2>2. Depth(s, 0, Len(s) + 1) = 0
    BY <1>1 DEF Rising
  <2>3. \A j \in 1 .. Len(s) + 1 : j \in 1 .. Len(s) \/ j = Len(s) + 1
    BY <1>1
  <2>4. \A t : Fall(t) >= 0
    BY DEF Fall
  <2>5. ASSUME NEW j \in 1 .. Len(s) PROVE Depth(s, 0, j) >= 0
    <3>1. Fall(s[j]) \in {0, 1} /\ Depth(s, 0, j) >= Fall(s[j]) /\ Depth(s, 0, j) \in Int
      BY <2>1 DEF Fall
    <3> QED BY <3>1
  <2> QED BY <2>2, <2>3, <2>5
<1>3. \A i \in 1 .. Len(s) : Jumps(s[i]) =>
        /\ LoopAround(s, i) \in 1 .. i - 1 /\ s[LoopAround(s, i)] = <<"for">>
        /\ BlockEnd(s, LoopAround(s, i)) \in i + 1 .. Len(s)
  BY <1>1, LoopAroundFacts
<1>4. WellFormed(s)
  <2>1. ASSUME NEW i \in DOMAIN s, s[i][1] \in {"ifBreak", "ifContinue", "break", "continue"}
        PROVE  \E k \in 1 .. i - 1 : s[k] = <<"for">> /\ BlockEnd(s, k) > i
    <3>1. i \in 1 .. Len(s) /\ Jumps(s[i])
      BY <1>1, <2>1 DEF Jumps
    <3> DEFINE k == LoopAround(s, i)
    <3>2. k \in 1 .. i - 1 /\ s[k] = <<"for">> /\ BlockEnd(s, k) \in i + 1 .. Len(s)
      BY <1>3, <3>1
    <3>3. BlockEnd(s, k) > i
      BY <3>1, <3>2
    <3> HIDE DEF k
    <3> QED BY <3>2, <3>3
  <2>2. Depth(s, 0, Len(s) + 1) = 0
    BY <1>1 DEF Rising
  <2> QED BY <1>2, <2>1, <2>2 DEF WellFormed
<1>5. ASSUME NEW i \in 1 .. Len(s), NEW c PROVE Goto(s, i, c) \in 1 .. Len(s) + 1
  <2> DEFINE t == s[i]
  <2>1. i + 1 \in 1 .. Len(s) + 1
    BY <1>1
  <2>2. Opens(t) => BlockEnd(s, i) + 1 \in 1 .. Len(s) + 1
    <3>1. Opens(t) => BlockEnd(s, i) \in i + 1 .. Len(s)
      BY <1>1, BlockEndFacts
    <3> QED BY <1>1, <3>1
  <2>3. Closes(t) => BlockBegin(s, i) + 1 \in 1 .. Len(s) + 1
    <3>1. Closes(t) => BlockBegin(s, i) \in 1 .. i - 1
      BY <1>1, BlockBeginFacts
    <3> QED BY <1>1, <3>1
  <2>4. Jumps(t) => Continue(s, i) \in 1 .. Len(s) + 1 /\ Break(s, i) \in 1 .. Len(s) + 1
    <3>1. ASSUME Jumps(t) PROVE LoopAround(s, i) \in 1 .. i - 1 /\ BlockEnd(s, LoopAround(s, i)) \in i + 1 .. Len(s)
      BY <1>3, <3>1
    <3> QED BY <1>1, <3>1 DEF Continue, Break
  <2> DEFINE u == t[1]
  <2>5. /\ (u = "if" \/ u = "else") => Opens(t)
        /\ u = "}" => Closes(t)
        /\ (u = "break" \/ u = "continue" \/ u = "ifBreak" \/ u = "ifContinue") => Jumps(t)
    BY DEF Opens, Closes, Jumps
  <2>6. \/ Goto(s, i, c) = i + 1
        \/ Goto(s, i, c) = BlockEnd(s, i) + 1 /\ Opens(t)
        \/ Goto(s, i, c) = BlockBegin(s, i) + 1 /\ Closes(t)
        \/ Goto(s, i, c) \in {Continue(s, i), Break(s, i)} /\ Jumps(t)
    <3> HIDE DEF t
    <3>1. s[i] = t
      BY DEF t
    <3>2. Goto(s, i, c) =
            CASE u = "if" -> IF c = t[2] THEN i + 1 ELSE BlockEnd(s, i) + 1
              [] u = "else" -> BlockEnd(s, i) + 1
              [] u = "}" -> IF s[BlockBegin(s, i)] = <<"for">>
                              THEN BlockBegin(s, i) + 1 ELSE i + 1
              [] u = "break" -> Break(s, i)
              [] u = "continue" -> Continue(s, i)
              [] u = "ifBreak" -> IF c = t[2] THEN Break(s, i) ELSE i + 1
              [] u = "ifContinue" -> IF c = t[2] THEN Continue(s, i) ELSE i + 1
              [] OTHER -> i + 1
      BY <3>1, Zenon DEF Goto
    <3> HIDE DEF u
    <3> QED BY <2>5, <3>2
  <2> HIDE DEF t
  <2> QED BY <2>1, <2>2, <2>3, <2>4, <2>6
<1> QED BY <1>4, <1>5

-----------------------------------------------------------------------------
(* Codes put end to end.                                                   *)

\* A code is a sequence.
IsCode(s) == \E S : s \in Seq(S)

\* Two codes put end to end.
LEMMA JoinFacts ==
  ASSUME NEW s, IsCode(s), NEW t, IsCode(t)
  PROVE  /\ IsCode(s \o t) /\ Len(s) \in Nat /\ Len(t) \in Nat
         /\ Len(s \o t) = Len(s) + Len(t)
         /\ \A i \in 1 .. Len(s) : (s \o t)[i] = s[i]
         /\ \A i \in 1 .. Len(t) : (s \o t)[Len(s) + i] = t[i]
<1>1. PICK S : s \in Seq(S)
  BY DEF IsCode
<1>2. PICK T : t \in Seq(T)
  BY DEF IsCode
<1> DEFINE U == S \cup T   L == Len(s)   M == Len(t)
<1>3. s \in Seq(U) /\ t \in Seq(U)
  <2>1. s \in [1 .. Len(s) -> S] /\ Len(s) \in Nat
    BY <1>1
  <2>2. t \in [1 .. Len(t) -> T] /\ Len(t) \in Nat
    BY <1>2
  <2>3. s \in [1 .. Len(s) -> U] /\ t \in [1 .. Len(t) -> U]
    BY <2>1, <2>2
  <2> HIDE DEF U
  <2> QED BY <2>1, <2>2, <2>3
<1> HIDE DEF U
<1>4. L \in Nat /\ M \in Nat
  BY <1>3
<1>5. /\ s \o t \in Seq(U) /\ Len(s \o t) = L + M
      /\ \A i \in 1 .. L + M : (s \o t)[i] = IF i <= L THEN s[i] ELSE t[i - L]
  BY <1>3, ConcatProperties
<1>6. ASSUME NEW i \in 1 .. L PROVE (s \o t)[i] = s[i]
  <2>1. i \in 1 .. L + M /\ i <= L
    BY <1>4
  <2> QED BY <2>1, <1>5
<1>7. ASSUME NEW i \in 1 .. M PROVE (s \o t)[L + i] = t[i]
  <2>1. L + i \in 1 .. L + M /\ ~ L + i <= L /\ (L + i) - L = i
    BY <1>4
  <2>2. (s \o t)[L + i] = IF L + i <= L THEN s[L + i] ELSE t[(L + i) - L]
    BY <2>1, <1>5
  <2> QED BY <2>1, <2>2
<1> QED BY <1>4, <1>5, <1>6, <1>7 DEF IsCode

\* The code of one token, and that of none.
LEMMA UnitFacts ==
  ASSUME NEW x
  PROVE  IsCode(<<x>>) /\ Len(<<x>>) = 1 /\ <<x>>[1] = x /\ IsCode(<<>>) /\ Len(<<>>) = 0
<1>1. <<x>> \in Seq({x}) /\ Len(<<x>>) = 1 /\ <<x>>[1] = x
  OBVIOUS
<1>2. <<>> \in Seq({x}) /\ Len(<<>>) = 0
  OBVIOUS
<1> QED BY <1>1, <1>2 DEF IsCode

\* Codes of the same length and tokens are the same.
LEMMA SameCode ==
  ASSUME NEW s, IsCode(s), NEW t, IsCode(t), Len(s) = Len(t), \A i \in 1 .. Len(s) : s[i] = t[i]
  PROVE  s = t
<1>1. s = [i \in 1 .. Len(s) |-> s[i]]
  BY DEF IsCode
<1>2. t = [i \in 1 .. Len(t) |-> t[i]]
  BY DEF IsCode
<1> QED BY <1>1, <1>2

\* A token more, as a code put at the end.
LEMMA AppendIs ==
  ASSUME NEW s, IsCode(s), NEW x
  PROVE  Append(s, x) = s \o <<x>>
<1>1. PICK S : s \in Seq(S)
  BY DEF IsCode
<1> DEFINE U == S \cup {x}
<1>2. s \in Seq(U) /\ x \in U /\ Len(s) \in Nat
  <2>1. s \in [1 .. Len(s) -> S] /\ Len(s) \in Nat
    BY <1>1
  <2>2. s \in [1 .. Len(s) -> U]
    BY <2>1
  <2> HIDE DEF U
  <2>3. s \in Seq(U)
    BY <2>1, <2>2
  <2> QED BY <2>1, <2>3 DEF U
<1> HIDE DEF U
<1>3. /\ Append(s, x) \in Seq(U) /\ Len(Append(s, x)) = Len(s) + 1
      /\ \A i \in 1 .. Len(s) : Append(s, x)[i] = s[i]
      /\ Append(s, x)[Len(s) + 1] = x
  BY <1>2, AppendProperties
<1> DEFINE t == <<x>>
<1>4. IsCode(t) /\ Len(t) = 1 /\ t[1] = x
  BY UnitFacts
<1> HIDE DEF t
<1>5. /\ IsCode(s \o t) /\ Len(s \o t) = Len(s) + 1
      /\ \A i \in 1 .. Len(s) : (s \o t)[i] = s[i]
      /\ (s \o t)[Len(s) + 1] = x
  <2>1. /\ IsCode(s \o t) /\ Len(s \o t) = Len(s) + Len(t)
        /\ \A i \in 1 .. Len(s) : (s \o t)[i] = s[i]
        /\ \A i \in 1 .. Len(t) : (s \o t)[Len(s) + i] = t[i]
    <3>1. IsCode(t)
      BY <1>4
    <3> QED BY <3>1, JoinFacts
  <2>2. 1 \in 1 .. Len(t)
    BY <1>4
  <2> QED BY <1>4, <2>1, <2>2
<1> DEFINE a == Append(s, x)   c == s \o t
<1>6. IsCode(a) /\ Len(a) = Len(c) /\ \A i \in 1 .. Len(a) : a[i] = c[i]
  <2>1. \A i \in 1 .. Len(s) + 1 : i \in 1 .. Len(s) \/ i = Len(s) + 1
    BY <1>2
  <2> HIDE DEF a, c
  <2>2. IsCode(a)
    BY <1>3 DEF IsCode, a
  <2> QED BY <1>3, <1>5, <2>1, <2>2 DEF a, c
<1> HIDE DEF a, c
<1>7. a = c
  BY <1>5, <1>6, SameCode DEF c
<1> QED BY <1>7 DEF a, c, t

\* The order in which three codes are joined does not matter.
LEMMA JoinThree ==
  ASSUME NEW s, IsCode(s), NEW t, IsCode(t), NEW u, IsCode(u)
  PROVE  (s \o t) \o u = s \o (t \o u) /\ s \o <<>> = s /\ <<>> \o s = s
<1> DEFINE st == s \o t   tu == t \o u   a == st \o u   c == s \o tu
<1>1. /\ IsCode(st) /\ Len(s) \in Nat /\ Len(t) \in Nat /\ Len(st) = Len(s) + Len(t)
      /\ \A i \in 1 .. Len(s) : st[i] = s[i]
      /\ \A i \in 1 .. Len(t) : st[Len(s) + i] = t[i]
  BY JoinFacts
<1>2. /\ IsCode(tu) /\ Len(u) \in Nat /\ Len(tu) = Len(t) + Len(u)
      /\ \A i \in 1 .. Len(t) : tu[i] = t[i]
      /\ \A i \in 1 .. Len(u) : tu[Len(t) + i] = u[i]
  BY JoinFacts
<1>2a. IsCode(st) /\ IsCode(tu)
  BY <1>1, <1>2
<1> HIDE DEF st, tu
<1>3. /\ IsCode(a) /\ Len(a) = Len(st) + Len(u)
      /\ \A i \in 1 .. Len(st) : a[i] = st[i]
      /\ \A i \in 1 .. Len(u) : a[Len(st) + i] = u[i]
  BY <1>2a, JoinFacts
<1>4. /\ IsCode(c) /\ Len(c) = Len(s) + Len(tu)
      /\ \A i \in 1 .. Len(s) : c[i] = s[i]
      /\ \A i \in 1 .. Len(tu) : c[Len(s) + i] = tu[i]
  BY <1>2a, JoinFacts
<1> HIDE DEF a, c
<1>5. Len(a) = Len(c) /\ Len(a) = Len(s) + Len(t) + Len(u)
  BY <1>1, <1>2, <1>3, <1>4
<1>6. ASSUME NEW i \in 1 .. Len(a) PROVE a[i] = c[i]
  <2>1. CASE i <= Len(s)
    <3>1. i \in 1 .. Len(s) /\ i \in 1 .. Len(st)
      BY <1>1, <2>1
    <3> QED BY <3>1, <1>1, <1>3, <1>4
  <2>2. CASE i > Len(s) /\ i <= Len(s) + Len(t)
    <3> DEFINE j == i - Len(s)
    <3>1. j \in 1 .. Len(t) /\ i = Len(s) + j /\ i \in 1 .. Len(st) /\ j \in 1 .. Len(tu)
      BY <1>1, <1>2, <2>2
    <3> HIDE DEF j
    <3>2. a[i] = t[j]
      BY <3>1, <1>1, <1>3
    <3>3. c[i] = t[j]
      BY <3>1, <1>2, <1>4
    <3> QED BY <3>2, <3>3
  <2>3. CASE i > Len(s) + Len(t)
    <3> DEFINE j == i - (Len(s) + Len(t))
    <3>1. /\ j \in 1 .. Len(u) /\ i = Len(st) + j /\ Len(t) + j \in 1 .. Len(tu)
          /\ i = Len(s) + (Len(t) + j)
      BY <1>1, <1>2, <1>5, <2>3
    <3> HIDE DEF j
    <3>2. a[i] = u[j]
      BY <3>1, <1>3
    <3>3. c[i] = u[j]
      <4>1. tu[Len(t) + j] = u[j]
        BY <3>1, <1>2
      <4>2. c[Len(s) + (Len(t) + j)] = tu[Len(t) + j]
        BY <3>1, <1>4
      <4> QED BY <3>1, <4>1, <4>2
    <3> QED BY <3>2, <3>3
  <2> QED BY <1>1, <2>1, <2>2, <2>3
<1>7. a = c
  BY <1>3, <1>4, <1>5, <1>6, SameCode
<1>8. s \o <<>> = s /\ <<>> \o s = s
  <2> DEFINE e == <<>>
  <2>1. IsCode(e) /\ Len(e) = 0
    BY UnitFacts
  <2> HIDE DEF e
  <2>2. /\ IsCode(s \o e) /\ Len(s \o e) = Len(s) + 0
        /\ \A i \in 1 .. Len(s) : (s \o e)[i] = s[i]
    BY <2>1, JoinFacts
  <2>3. /\ IsCode(e \o s) /\ Len(e \o s) = 0 + Len(s)
        /\ \A i \in 1 .. Len(s) : (e \o s)[0 + i] = s[i]
    BY <2>1, JoinFacts
  <2>4. \A i \in 1 .. Len(s) : 0 + i = i
    BY <1>1
  <2>5. Len(s) + 0 = Len(s) /\ 0 + Len(s) = Len(s)
    BY <1>1
  <2> DEFINE x == s \o e   y == e \o s
  <2>6. IsCode(x) /\ Len(x) = Len(s) /\ \A i \in 1 .. Len(x) : x[i] = s[i]
    BY <2>2, <2>5
  <2>7. IsCode(y) /\ Len(y) = Len(s) /\ \A i \in 1 .. Len(y) : y[i] = s[i]
    BY <2>3, <2>4, <2>5
  <2> HIDE DEF x, y
  <2>8. x = s /\ y = s
    BY <2>6, <2>7, SameCode
  <2> QED BY <2>8 DEF x, y, e
<1> QED BY <1>7, <1>8 DEF a, c, st, tu

\* s is a part of u, after a tokens.
Part(u, a, s) == a \in Nat /\ Len(s) \in Nat /\ \A i \in 1 .. Len(s) : u[a + i] = s[i]

\* The depths in a part of a code.
LEMMA DepthPart ==
  ASSUME NEW s, NEW u, NEW a, Part(u, a, s)
  PROVE  \A k \in 1 .. Len(s) + 1 : Depth(u, 0, a + k) = Depth(u, 0, a + 1) + Depth(s, 0, k)
<1> DEFINE n == Len(s)
<1>0. a \in Nat /\ n \in Nat /\ \A k \in 1 .. n : u[a + k] = s[k]
  BY DEF Part
<1> HIDE DEF n
<1> DEFINE S == {k \in Nat : k <= n => Depth(u, 0, a + (k + 1)) = Depth(u, 0, a + 1) + Depth(s, 0, k + 1)}
<1>1. Depth(u, 0, a + 1) \in Int /\ Depth(s, 0, 1) = 0
  <2>1. a + 1 \in Nat /\ a + 1 > 0
    BY <1>0
  <2> QED BY <2>1, DepthTypes
<1>2. 0 \in S
  <2>1. 0 + 1 = 1
    OBVIOUS
  <2> QED BY <1>1, <2>1
<1>3. ASSUME NEW k \in Nat, k \in S PROVE k + 1 \in S
  <2> SUFFICES ASSUME k + 1 <= n
               PROVE  Depth(u, 0, a + ((k + 1) + 1)) = Depth(u, 0, a + 1) + Depth(s, 0, (k + 1) + 1)
    OBVIOUS
  <2> DEFINE j == k + 1   i == a + j
  <2>1. Depth(u, 0, i) = Depth(u, 0, a + 1) + Depth(s, 0, j)
    BY <1>0, <1>3
  <2>2. j \in Nat /\ j > 0 /\ i \in Nat /\ i > 0 /\ j \in 1 .. n
    BY <1>0
  <2>3. u[i] = s[j]
    BY <1>0, <2>2
  <2>4. a + (j + 1) = i + 1
    BY <1>0
  <2> HIDE DEF i, j
  <2>5. /\ Depth(u, 0, i + 1) = Depth(u, 0, i) + Rise(s[j]) - Fall(s[j])
        /\ Depth(s, 0, j + 1) = Depth(s, 0, j) + Rise(s[j]) - Fall(s[j])
        /\ Depth(s, 0, j) \in Int /\ Rise(s[j]) \in {0, 1} /\ Fall(s[j]) \in {0, 1}
    BY <2>2, <2>3, DepthTypes
  <2>6. Depth(u, 0, i + 1) = Depth(u, 0, a + 1) + Depth(s, 0, j + 1)
    BY <1>1, <2>1, <2>5
  <2> QED BY <2>4, <2>6 DEF j
<1> HIDE DEF S
<1>4. Nat \subseteq S
  BY <1>2, <1>3, Induction
<1>5. ASSUME NEW k \in 1 .. n + 1
      PROVE  Depth(u, 0, a + k) = Depth(u, 0, a + 1) + Depth(s, 0, k)
  <2> DEFINE j == k - 1
  <2>1. j \in Nat /\ j <= n /\ j + 1 = k
    BY <1>0
  <2> HIDE DEF j
  <2>2. Depth(u, 0, a + (j + 1)) = Depth(u, 0, a + 1) + Depth(s, 0, j + 1)
    BY <2>1, <1>4 DEF S
  <2> QED BY <2>1, <2>2
<1> QED BY <1>5 DEF n

\* The depth in a code is that in its first part, then that in its second from there.
LEMMA DepthJoin ==
  ASSUME NEW s, IsCode(s), NEW t, IsCode(t)
  PROVE  /\ \A j \in 1 .. Len(s) + 1 : Depth(s \o t, 0, j) = Depth(s, 0, j)
         /\ \A j \in 1 .. Len(t) + 1 :
              Depth(s \o t, 0, Len(s) + j) = Depth(s, 0, Len(s) + 1) + Depth(t, 0, j)
<1> DEFINE u == s \o t
<1>1. Len(s) \in Nat /\ Len(t) \in Nat /\ Part(u, 0, s) /\ Part(u, Len(s), t)
  <2>1. /\ Len(s) \in Nat /\ Len(t) \in Nat
        /\ \A i \in 1 .. Len(s) : u[i] = s[i]
        /\ \A i \in 1 .. Len(t) : u[Len(s) + i] = t[i]
    BY JoinFacts
  <2> HIDE DEF u
  <2>2. \A k \in 1 .. Len(s) : 0 + k = k
    BY <2>1
  <2> QED BY <2>1, <2>2 DEF Part
<1> HIDE DEF u
<1>2. \A k \in 1 .. Len(s) + 1 : Depth(u, 0, 0 + k) = Depth(u, 0, 0 + 1) + Depth(s, 0, k)
  BY <1>1, DepthPart
<1>3. \A k \in 1 .. Len(s) + 1 : Depth(u, 0, k) = Depth(s, 0, k)
  <2>1. \A k \in 1 .. Len(s) + 1 : 0 + k = k /\ k \in Nat /\ k > 0
    BY <1>1
  <2>2. Depth(u, 0, 1) = 0 /\ 0 + 1 = 1
    BY DepthTypes
  <2>3. \A k \in 1 .. Len(s) + 1 : Depth(s, 0, k) \in Int
    BY <2>1, DepthTypes
  <2> QED BY <1>2, <2>1, <2>2, <2>3
<1>4. \A k \in 1 .. Len(t) + 1 : Depth(u, 0, Len(s) + k) = Depth(u, 0, Len(s) + 1) + Depth(t, 0, k)
  BY <1>1, DepthPart
<1>5. Depth(u, 0, Len(s) + 1) = Depth(s, 0, Len(s) + 1)
  <2>1. Len(s) + 1 \in 1 .. Len(s) + 1
    BY <1>1
  <2> QED BY <2>1, <1>3
<1> QED BY <1>3, <1>4, <1>5 DEF u

\* A code that was begun with a loop, which is still open.
Looping(s) ==
  /\ Len(s) >= 1 /\ s[1] = <<"for">>
  /\ \A j \in 2 .. Len(s) : Depth(s, 0, j) >= 1 + Fall(s[j])

\* The tokens of t keep to what s leaves open, but for the jumps, that s must be a loop for.
Fits(s, t) ==
  /\ \A j \in 1 .. Len(t) : Depth(s, 0, Len(s) + 1) + Depth(t, 0, j) >= Fall(t[j])
  /\ \A i \in 1 .. Len(t) : Jumps(t[i]) =>
       \/ Looping(s) /\ \A j \in 1 .. i : Depth(s, 0, Len(s) + 1) + Depth(t, 0, j) >= 1 + Fall(t[j])
       \/ \E k \in 1 .. i - 1 :
            /\ t[k] = <<"for">>
            /\ \A j \in k + 1 .. i : Depth(t, 0, j) >= Depth(t, 0, k) + 1 + Fall(t[j])

\* A code that fits leaves the braces of the whole matched.
LEMMA RisingFits ==
  ASSUME NEW s, IsCode(s), NEW m \in Int, Rising(s, m), NEW t, IsCode(t), Fits(s, t)
  PROVE  Rising(s \o t, m + Depth(t, 0, Len(t) + 1))
<1> DEFINE u == s \o t   L == Len(s)   M == Len(t)
<1>1. /\ L \in Nat /\ M \in Nat /\ Len(u) = L + M
      /\ \A i \in 1 .. L : u[i] = s[i]
      /\ \A i \in 1 .. M : u[L + i] = t[i]
  BY JoinFacts
<1>2. /\ \A j \in 1 .. L + 1 : Depth(u, 0, j) = Depth(s, 0, j)
      /\ \A j \in 1 .. M + 1 : Depth(u, 0, L + j) = m + Depth(t, 0, j)
  <2>1. Depth(s, 0, L + 1) = m
    BY DEF Rising
  <2> QED BY <2>1, DepthJoin
<1>3. /\ \A j \in 1 .. L : Depth(s, 0, j) >= Fall(s[j])
      /\ \A i \in 1 .. L : Jumps(s[i]) =>
           \E k \in 1 .. i - 1 :
             /\ s[k] = <<"for">>
             /\ \A j \in k + 1 .. i : Depth(s, 0, j) >= Depth(s, 0, k) + 1 + Fall(s[j])
  BY DEF Rising
<1>4. /\ \A j \in 1 .. M : m + Depth(t, 0, j) >= Fall(t[j])
      /\ \A i \in 1 .. M : Jumps(t[i]) =>
           \/ Looping(s) /\ \A j \in 1 .. i : m + Depth(t, 0, j) >= 1 + Fall(t[j])
           \/ \E k \in 1 .. i - 1 :
                /\ t[k] = <<"for">>
                /\ \A j \in k + 1 .. i : Depth(t, 0, j) >= Depth(t, 0, k) + 1 + Fall(t[j])
  <2>1. Depth(s, 0, L + 1) = m
    BY DEF Rising
  <2> QED BY <2>1 DEF Fits
<1> HIDE DEF u
<1>5. \A i \in 1 .. L + M : i \in 1 .. L \/ (i - L \in 1 .. M /\ i = L + (i - L))
  BY <1>1
<1>6. \A j \in 1 .. Len(u) : Depth(u, 0, j) >= Fall(u[j])
  <2>1. SUFFICES ASSUME NEW j \in 1 .. L + M PROVE Depth(u, 0, j) >= Fall(u[j])
    BY <1>1
  <2>2. CASE j \in 1 .. L
    <3>1. j \in 1 .. L + 1
      BY <1>1, <2>2
    <3> QED BY <3>1, <2>2, <1>1, <1>2, <1>3
  <2>3. CASE j - L \in 1 .. M /\ j = L + (j - L)
    <3> DEFINE k == j - L
    <3>1. k \in 1 .. M /\ k \in 1 .. M + 1 /\ j = L + k
      BY <1>1, <2>3
    <3> HIDE DEF k
    <3> QED BY <3>1, <1>1, <1>2, <1>4
  <2> QED BY <2>2, <2>3, <1>5
<1>7. Depth(u, 0, Len(u) + 1) = m + Depth(t, 0, M + 1)
  <2>1. M + 1 \in 1 .. M + 1 /\ Len(u) + 1 = L + (M + 1)
    BY <1>1
  <2> QED BY <2>1, <1>2
<1>8. ASSUME NEW i \in 1 .. Len(u), Jumps(u[i])
      PROVE  \E k \in 1 .. i - 1 :
               /\ u[k] = <<"for">>
               /\ \A j \in k + 1 .. i : Depth(u, 0, j) >= Depth(u, 0, k) + 1 + Fall(u[j])
  <2>1. CASE i \in 1 .. L
    <3>1. Jumps(s[i])
      BY <1>1, <1>8, <2>1
    <3>2. PICK k \in 1 .. i - 1 :
            /\ s[k] = <<"for">>
            /\ \A j \in k + 1 .. i : Depth(s, 0, j) >= Depth(s, 0, k) + 1 + Fall(s[j])
      BY <1>3, <2>1, <3>1
    <3>3. k \in 1 .. L /\ k \in 1 .. L + 1 /\ \A j \in k + 1 .. i : j \in 1 .. L /\ j \in 1 .. L + 1
      BY <1>1, <2>1
    <3>4. u[k] = <<"for">>
      BY <1>1, <3>2, <3>3
    <3>5. \A j \in k + 1 .. i : Depth(u, 0, j) >= Depth(u, 0, k) + 1 + Fall(u[j])
      BY <1>1, <1>2, <3>2, <3>3
    <3> QED BY <3>4, <3>5
  <2>2. CASE i - L \in 1 .. M /\ i = L + (i - L)
    <3> DEFINE h == i - L
    <3>1. h \in 1 .. M /\ i = L + h /\ Jumps(t[h])
      BY <1>1, <1>8, <2>2
    <3> HIDE DEF h
    <3>2. CASE \E k \in 1 .. h - 1 :
                 /\ t[k] = <<"for">>
                 /\ \A j \in k + 1 .. h : Depth(t, 0, j) >= Depth(t, 0, k) + 1 + Fall(t[j])
      <4>1. PICK k \in 1 .. h - 1 :
                 /\ t[k] = <<"for">>
                 /\ \A j \in k + 1 .. h : Depth(t, 0, j) >= Depth(t, 0, k) + 1 + Fall(t[j])
        BY <3>2
      <4>2. k \in 1 .. M /\ k \in 1 .. M + 1 /\ L + k \in 1 .. i - 1
        BY <1>1, <3>1
      <4>3. u[L + k] = <<"for">> /\ Depth(u, 0, L + k) = m + Depth(t, 0, k)
        BY <1>1, <1>2, <4>1, <4>2
      <4>4. ASSUME NEW j \in (L + k) + 1 .. i
            PROVE  Depth(u, 0, j) >= Depth(u, 0, L + k) + 1 + Fall(u[j])
        <5> DEFINE n == j - L
        <5>1. n \in k + 1 .. h /\ n \in 1 .. M /\ n \in 1 .. M + 1 /\ j = L + n
          BY <1>1, <3>1
        <5> HIDE DEF n
        <5>2. u[j] = t[n] /\ Depth(u, 0, j) = m + Depth(t, 0, n)
          BY <1>1, <1>2, <5>1
        <5>3. Depth(t, 0, n) >= Depth(t, 0, k) + 1 + Fall(t[n])
          BY <4>1, <5>1
        <5>4. Depth(t, 0, n) \in Int /\ Depth(t, 0, k) \in Int /\ Fall(t[n]) \in {0, 1}
          <6>1. n \in Nat /\ n > 0 /\ k \in Nat /\ k > 0
            BY <4>2, <5>1
          <6> QED BY <6>1, DepthTypes
        <5> QED BY <4>3, <5>2, <5>3, <5>4
      <4> QED BY <4>2, <4>3, <4>4
    <3>3. CASE Looping(s) /\ \A j \in 1 .. h : m + Depth(t, 0, j) >= 1 + Fall(t[j])
      <4>1. /\ L >= 1 /\ s[1] = <<"for">>
            /\ \A j \in 2 .. L : Depth(s, 0, j) >= 1 + Fall(s[j])
        BY <3>3 DEF Looping
      <4>2. 1 \in 1 .. L /\ 1 \in 1 .. L + 1 /\ 1 \in 1 .. i - 1
        BY <1>1, <3>1, <4>1
      <4>3. u[1] = <<"for">> /\ Depth(u, 0, 1) = 0
        BY <1>1, <4>1, <4>2, DepthTypes
      <4>4. ASSUME NEW j \in 1 + 1 .. i
            PROVE  Depth(u, 0, j) >= Depth(u, 0, 1) + 1 + Fall(u[j])
        <5>1. CASE j \in 1 .. L
          <6>1. j \in 2 .. L /\ j \in 1 .. L + 1
            BY <1>1, <5>1
          <6>2. u[j] = s[j] /\ Depth(u, 0, j) = Depth(s, 0, j)
            BY <1>1, <1>2, <5>1, <6>1
          <6>3. Depth(s, 0, j) >= 1 + Fall(s[j])
            BY <4>1, <6>1
          <6> QED BY <4>3, <6>2, <6>3 DEF Fall
        <5>2. CASE j \notin 1 .. L
          <6> DEFINE n == j - L
          <6>1. n \in 1 .. h /\ n \in 1 .. M /\ n \in 1 .. M + 1 /\ j = L + n
            BY <1>1, <3>1, <5>2
          <6> HIDE DEF n
          <6>2. u[j] = t[n] /\ Depth(u, 0, j) = m + Depth(t, 0, n)
            BY <1>1, <1>2, <6>1
          <6>3. m + Depth(t, 0, n) >= 1 + Fall(t[n])
            BY <3>3, <6>1
          <6> QED BY <4>3, <6>2, <6>3 DEF Fall
        <5> QED BY <5>1, <5>2
      <4> QED BY <4>2, <4>3, <4>4
    <3> QED BY <1>4, <3>1, <3>2, <3>3
  <2> QED BY <1>1, <1>5, <2>1, <2>2
<1>9. Rising(u, m + Depth(t, 0, M + 1))
  BY <1>6, <1>7, <1>8 DEF Rising
<1> QED BY <1>9 DEF u

\* ... and its loop open, when it does not close it.
LEMMA LoopingFits ==
  ASSUME NEW s, IsCode(s), NEW m \in Int, Rising(s, m), Looping(s), NEW t, IsCode(t),
         \A j \in 1 .. Len(t) : m + Depth(t, 0, j) >= 1 + Fall(t[j])
  PROVE  Looping(s \o t)
<1> DEFINE u == s \o t   L == Len(s)   M == Len(t)
<1>1. /\ L \in Nat /\ M \in Nat /\ Len(u) = L + M
      /\ \A i \in 1 .. L : u[i] = s[i]
      /\ \A i \in 1 .. M : u[L + i] = t[i]
  BY JoinFacts
<1>2. /\ \A j \in 1 .. L + 1 : Depth(u, 0, j) = Depth(s, 0, j)
      /\ \A j \in 1 .. M + 1 : Depth(u, 0, L + j) = m + Depth(t, 0, j)
  <2>1. Depth(s, 0, L + 1) = m
    BY DEF Rising
  <2> QED BY <2>1, DepthJoin
<1> HIDE DEF u
<1>3. /\ L >= 1 /\ s[1] = <<"for">>
      /\ \A j \in 2 .. L : Depth(s, 0, j) >= 1 + Fall(s[j])
  BY DEF Looping
<1>4. u[1] = <<"for">> /\ Len(u) >= 1
  <2>1. 1 \in 1 .. L
    BY <1>1, <1>3
  <2> QED BY <2>1, <1>1, <1>3
<1>5. ASSUME NEW j \in 2 .. Len(u) PROVE Depth(u, 0, j) >= 1 + Fall(u[j])
  <2>1. CASE j \in 1 .. L
    <3>1. j \in 2 .. L /\ j \in 1 .. L + 1
      BY <1>1, <2>1
    <3> QED BY <3>1, <2>1, <1>1, <1>2, <1>3
  <2>2. CASE j \notin 1 .. L
    <3> DEFINE n == j - L
    <3>1. n \in 1 .. M /\ n \in 1 .. M + 1 /\ j = L + n
      BY <1>1, <2>2
    <3> HIDE DEF n
    <3> QED BY <3>1, <1>1, <1>2
  <2> QED BY <2>1, <2>2
<1>6. Looping(u)
  BY <1>4, <1>5 DEF Looping
<1> QED BY <1>6 DEF u

\* A code that leaves m blocks open, the first of which is a loop if l is true.
Kept(s, m, l) == /\ IsCode(s) /\ m \in Nat /\ Rising(s, m) /\ l \in BOOLEAN
                 /\ l => Looping(s) /\ m >= 1

\* What is true of a code that is being made, after a code that fits.
LEMMA KeptBoth ==
  ASSUME NEW s, NEW m, NEW l, Kept(s, m, l), NEW t, IsCode(t), Fits(s, t),
         l => \A j \in 1 .. Len(t) : m + Depth(t, 0, j) >= 1 + Fall(t[j]),
         l => m + Depth(t, 0, Len(t) + 1) >= 1, m + Depth(t, 0, Len(t) + 1) \in Nat
  PROVE  Kept(s \o t, m + Depth(t, 0, Len(t) + 1), l)
<1>1. IsCode(s) /\ m \in Int /\ m \in Nat /\ Rising(s, m) /\ l \in BOOLEAN /\ (l => Looping(s))
  BY DEF Kept
<1>2. IsCode(s \o t)
  BY <1>1, JoinFacts
<1>3. Rising(s \o t, m + Depth(t, 0, Len(t) + 1))
  BY <1>1, RisingFits
<1>4. l => Looping(s \o t)
  BY <1>1, LoopingFits
<1> QED BY <1>1, <1>2, <1>3, <1>4 DEF Kept

\* ... of the code that has no token yet.
LEMMA KeptNothing == Kept(<<>>, 0, FALSE)
<1> DEFINE e == <<>>
<1>1. IsCode(e) /\ Len(e) = 0 /\ 0 + 1 = 1 /\ 0 \in Nat
  <2>1. IsCode(e)
    BY UnitFacts
  <2>2. Len(e) = 0
    OBVIOUS
  <2> QED BY <2>1, <2>2
<1>2. Depth(e, 0, 1) = 0
  BY DepthTypes
<1> HIDE DEF e
<1>3. Rising(e, 0)
  BY <1>1, <1>2 DEF Rising
<1> QED BY <1>1, <1>3 DEF Kept, e

\* ... after a complete code.
LEMMA KeptFormed ==
  ASSUME NEW s, NEW m, NEW l, Kept(s, m, l), NEW t, Formed(t)
  PROVE  Kept(s \o t, m, l)
<1>1. /\ IsCode(t) /\ Len(t) \in Nat /\ m \in Nat /\ Rising(t, 0)
      /\ Depth(s, 0, Len(s) + 1) = m /\ (l => m >= 1)
  <2>1. IsCode(t) /\ Rising(t, 0)
    BY DEF Formed, IsCode
  <2>2. Len(t) \in Nat
    BY <2>1 DEF IsCode
  <2>3. m \in Nat /\ Rising(s, m) /\ (l => m >= 1)
    BY DEF Kept
  <2>4. Depth(s, 0, Len(s) + 1) = m
    BY <2>3 DEF Rising
  <2> QED BY <2>1, <2>2, <2>3, <2>4
<1>2. /\ Depth(t, 0, Len(t) + 1) = 0
      /\ \A j \in 1 .. Len(t) : Depth(t, 0, j) \in Int /\ Depth(t, 0, j) >= Fall(t[j])
      /\ \A j \in 1 .. Len(t) : Fall(t[j]) \in {0, 1}
  <2>1. \A j \in 1 .. Len(t) : j \in Nat /\ j > 0
    BY <1>1
  <2> QED BY <1>1, <2>1, DepthTypes DEF Rising
<1>3. /\ \A j \in 1 .. Len(t) : m + Depth(t, 0, j) >= Fall(t[j])
      /\ l => \A j \in 1 .. Len(t) : m + Depth(t, 0, j) >= 1 + Fall(t[j])
  BY <1>1, <1>2
<1>4. Fits(s, t)
  <2>1. \A i \in 1 .. Len(t) : Jumps(t[i]) =>
          \E k \in 1 .. i - 1 :
            /\ t[k] = <<"for">>
            /\ \A j \in k + 1 .. i : Depth(t, 0, j) >= Depth(t, 0, k) + 1 + Fall(t[j])
    BY <1>1 DEF Rising
  <2> QED BY <1>1, <1>3, <2>1 DEF Fits
<1>5. m + Depth(t, 0, Len(t) + 1) = m
  BY <1>1, <1>2
<1> QED BY <1>1, <1>3, <1>4, <1>5, KeptBoth

\* ... after one token.
LEMMA KeptToken ==
  ASSUME NEW s, NEW m, NEW l, Kept(s, m, l), NEW x, Jumps(x) => l, m >= Fall(x),
         l => m >= 1 + Fall(x)
  PROVE  Kept(s \o <<x>>, m + Rise(x) - Fall(x), l)
<1> DEFINE t == <<x>>
<1>1. IsCode(t) /\ Len(t) = 1 /\ t[1] = x
  BY UnitFacts
<1> HIDE DEF t
<1>2. /\ m \in Nat /\ l \in BOOLEAN /\ Depth(s, 0, Len(s) + 1) = m /\ (l => m >= 1 /\ Looping(s))
      /\ Rise(x) \in {0, 1} /\ Fall(x) \in {0, 1}
  BY DEF Kept, Rising, Rise, Fall
<1>3. Depth(t, 0, 1) = 0 /\ Depth(t, 0, Len(t) + 1) = Rise(x) - Fall(x)
  <2>1. 1 \in Nat /\ 1 > 0 /\ Len(t) + 1 = 1 + 1
    BY <1>1
  <2>2. Depth(t, 0, 1 + 1) = Depth(t, 0, 1) + Rise(t[1]) - Fall(t[1]) /\ Depth(t, 0, 1) = 0
    BY <2>1, DepthTypes
  <2> QED BY <1>1, <1>2, <2>1, <2>2
<1>4. \A j \in 1 .. Len(t) : j = 1
  BY <1>1
<1>5. /\ \A j \in 1 .. Len(t) : m + Depth(t, 0, j) >= Fall(t[j])
      /\ l => \A j \in 1 .. Len(t) : m + Depth(t, 0, j) >= 1 + Fall(t[j])
  BY <1>1, <1>2, <1>3, <1>4
<1>6. Fits(s, t)
  <2>1. ASSUME NEW i \in 1 .. Len(t), Jumps(t[i])
        PROVE  Looping(s) /\ \A j \in 1 .. i : m + Depth(t, 0, j) >= 1 + Fall(t[j])
    <3>1. i = 1 /\ l
      BY <1>1, <1>4, <2>1
    <3>2. \A j \in 1 .. i : j \in 1 .. Len(t)
      BY <1>1, <3>1
    <3> QED BY <1>2, <1>5, <3>1, <3>2
  <2> QED BY <1>2, <1>5, <2>1 DEF Fits
<1>7. m + Depth(t, 0, Len(t) + 1) = m + Rise(x) - Fall(x)
  BY <1>2, <1>3
<1>8. m + Rise(x) - Fall(x) \in Nat /\ (l => m + Rise(x) - Fall(x) >= 1)
  BY <1>2
<1>9. Kept(s \o t, m + Depth(t, 0, Len(t) + 1), l)
  BY <1>1, <1>5, <1>6, <1>7, <1>8, KeptBoth
<1> QED BY <1>7, <1>9 DEF t

\* Tokens that neither open nor close a block.
Neutral(x) == Rise(x) = 0 /\ Fall(x) = 0

\* ... after one that may jump, in a loop.
LEMMA KeptNeutral ==
  ASSUME NEW s, NEW m, Kept(s, m, TRUE), NEW x, Neutral(x)
  PROVE  Kept(s \o <<x>>, m, TRUE)
<1>1. Rise(x) = 0 /\ Fall(x) = 0 /\ m \in Nat /\ m >= 1
  BY DEF Neutral, Kept
<1>2. Kept(s \o <<x>>, m + Rise(x) - Fall(x), TRUE)
  <2> DEFINE l == TRUE
  <2>1. m >= Fall(x) /\ m >= 1 + Fall(x)
    BY <1>1
  <2>3. Kept(s, m, l) /\ (Jumps(x) => l) /\ (l => m >= 1 + Fall(x))
    BY <2>1
  <2> HIDE DEF l
  <2>2. Kept(s \o <<x>>, m + Rise(x) - Fall(x), l)
    BY <2>1, <2>3, KeptToken
  <2> QED BY <2>2 DEF l
<1>3. m + Rise(x) - Fall(x) = m
  BY <1>1
<1> QED BY <1>2, <1>3

\* What closes blocks: c braces, or c - 1 and an else.
Closing(e, c, r) ==
  /\ IsCode(e) /\ Len(e) = c /\ c >= 1
  /\ \A i \in 1 .. c - 1 : e[i] = <<"}">>
  /\ e[c] = IF r THEN <<"else">> ELSE <<"}">>

\* What the tokens that collapse adds open and close.
LEMMA TokenFacts ==
  /\ Rise(<<"}">>) = 0 /\ Fall(<<"}">>) = 1 /\ Rise(<<"else">>) = 1 /\ Fall(<<"else">>) = 1
  /\ Rise(<<"for">>) = 1 /\ Fall(<<"for">>) = 0
  /\ \A v : Rise(<<"if", v>>) = 1 /\ Fall(<<"if", v>>) = 0 /\ ~ Jumps(<<"if", v>>)
  /\ ~ Jumps(<<"}">>) /\ ~ Jumps(<<"else">>) /\ ~ Jumps(<<"for">>)
  /\ Neutral(<<"break">>) /\ Neutral(<<"continue">>)
  /\ \A v : Neutral(<<"ifBreak", v>>) /\ Neutral(<<"ifContinue", v>>)
  /\ \A v : Neutral(<<"insn", v>>) /\ ~ Jumps(<<"insn", v>>)
  /\ \A v : Neutral(<<"sink", v>>) /\ ~ Jumps(<<"sink", v>>)
  /\ \A v, b : Neutral(<<"source", v, b>>) /\ ~ Jumps(<<"source", v, b>>)
BY DEF Neutral, Rise, Fall, Opens, Closes, Jumps

\* The stack of what is to be closed, with the number of blocks open at each level.
LEMMA ClosingDepth ==
  ASSUME NEW c \in Nat, NEW e, NEW r \in BOOLEAN, Closing(e, c, r)
  PROVE  /\ IsCode(e) /\ Len(e) = c /\ c >= 1
         /\ \A j \in 1 .. c : Fall(e[j]) = 1 /\ ~ Jumps(e[j]) /\ Depth(e, 0, j) = 1 - j
         /\ r => Depth(e, 0, c + 1) = 1 - c
         /\ ~ r => Depth(e, 0, c + 1) = 0 - c
<1>0. c >= 1
  BY DEF Closing
<1>1. /\ IsCode(e) /\ Len(e) = c /\ c >= 1
      /\ \A i \in 1 .. c - 1 : e[i] = <<"}">>
      /\ r => e[c] = <<"else">>
      /\ ~ r => e[c] = <<"}">>
  BY DEF Closing
<1>2. \A i \in 1 .. c - 1 : Fall(e[i]) = 1 /\ Rise(e[i]) = 0 /\ ~ Jumps(e[i])
  BY <1>1, TokenFacts
<1>3. Fall(e[c]) = 1 /\ ~ Jumps(e[c]) /\ (r => Rise(e[c]) = 1) /\ (~ r => Rise(e[c]) = 0)
  <2>1. CASE r
    <3>1. e[c] = <<"else">>
      BY <1>1, <2>1
    <3> QED BY <3>1, <2>1, TokenFacts
  <2>2. CASE ~ r
    <3>1. e[c] = <<"}">>
      BY <1>1, <2>2
    <3> QED BY <3>1, <2>2, TokenFacts
  <2> QED BY <2>1, <2>2
<1>4. ASSUME NEW j \in 1 .. c PROVE Fall(e[j]) = 1 /\ ~ Jumps(e[j])
  <2>1. j \in 1 .. c - 1 \/ j = c
    BY <1>0
  <2> QED BY <2>1, <1>2, <1>3
<1>5. \A j \in 1 .. c : Depth(e, 0, j) = 1 - j
  <2> DEFINE S == {k \in Nat : k + 1 <= c => Depth(e, 0, k + 1) = 0 - k}
  <2>1. 0 \in S
    <3>1. Depth(e, 0, 1) = 0
      BY DepthTypes
    <3>2. 0 + 1 = 1 /\ 0 - 0 = 0
      OBVIOUS
    <3> QED BY <3>1, <3>2
  <2>2. ASSUME NEW k \in Nat, k \in S PROVE k + 1 \in S
    <3> SUFFICES ASSUME (k + 1) + 1 <= c PROVE Depth(e, 0, (k + 1) + 1) = 0 - (k + 1)
      OBVIOUS
    <3> DEFINE j == k + 1
    <3>1. Depth(e, 0, j) = 0 - k /\ j \in Nat /\ j > 0 /\ j \in 1 .. c - 1
      BY <2>2
    <3> HIDE DEF j
    <3>2. Depth(e, 0, j + 1) = Depth(e, 0, j) + Rise(e[j]) - Fall(e[j])
      BY <3>1, DepthTypes
    <3>3. Rise(e[j]) = 0 /\ Fall(e[j]) = 1
      BY <1>2, <3>1
    <3>4. Depth(e, 0, j + 1) = 0 - (k + 1)
      BY <3>1, <3>2, <3>3
    <3> QED BY <3>4 DEF j
  <2> HIDE DEF S
  <2>3. Nat \subseteq S
    BY <2>1, <2>2, Induction
  <2>4. ASSUME NEW j \in 1 .. c PROVE Depth(e, 0, j) = 1 - j
    <3> DEFINE k == j - 1
    <3>1. k \in Nat /\ k + 1 = j /\ k + 1 <= c /\ 0 - k = 1 - j
      OBVIOUS
    <3> HIDE DEF k
    <3>2. Depth(e, 0, k + 1) = 0 - k
      BY <2>3, <3>1 DEF S
    <3> QED BY <3>1, <3>2
  <2> QED BY <2>4
<1>6. Depth(e, 0, c + 1) = Depth(e, 0, c) + Rise(e[c]) - Fall(e[c]) /\ Depth(e, 0, c) = 1 - c
  <2>1. c \in Nat /\ c > 0 /\ c \in 1 .. c
    BY <1>0
  <2> QED BY <2>1, <1>5, DepthTypes
<1>7. (r => Depth(e, 0, c + 1) = 1 - c) /\ (~ r => Depth(e, 0, c + 1) = 0 - c)
  BY <1>0, <1>3, <1>6
<1>8. \A j \in 1 .. c : Fall(e[j]) = 1 /\ ~ Jumps(e[j]) /\ Depth(e, 0, j) = 1 - j
  BY <1>4, <1>5
<1>9. IsCode(e) /\ Len(e) = c
  BY DEF Closing
<1> QED BY <1>0, <1>7, <1>8, <1>9

\* The stack of what is to be closed, with the number of blocks open at each level.
LEMMA KeptClosing ==
  ASSUME NEW s, NEW m, Kept(s, m, TRUE), NEW c \in Nat, NEW e, NEW r \in BOOLEAN,
         Closing(e, c, r), r => m >= c + 1, ~ r => m = c
  PROVE  /\ r => Kept(s \o e, m - c + 1, TRUE)
         /\ ~ r => Kept(s \o e, 0, FALSE)
<1>1. /\ IsCode(e) /\ Len(e) = c /\ c >= 1
      /\ \A j \in 1 .. c : Fall(e[j]) = 1 /\ ~ Jumps(e[j]) /\ Depth(e, 0, j) = 1 - j
      /\ r => Depth(e, 0, c + 1) = 1 - c
      /\ ~ r => Depth(e, 0, c + 1) = 0 - c
  BY ClosingDepth
<1>2. /\ m \in Nat /\ m >= 1 /\ m >= c /\ (r => m >= c + 1)
      /\ Depth(s, 0, Len(s) + 1) = m
  <2>1. m \in Nat /\ m >= 1 /\ Rising(s, m)
    BY DEF Kept
  <2> QED BY <2>1 DEF Rising
<1>3. /\ \A j \in 1 .. Len(e) : m + Depth(e, 0, j) >= Fall(e[j])
      /\ r => \A j \in 1 .. Len(e) : m + Depth(e, 0, j) >= 1 + Fall(e[j])
  BY <1>1, <1>2
<1>4. Fits(s, e)
  BY <1>1, <1>2, <1>3 DEF Fits
<1>5. Kept(s, m, r)
  <2>1. TRUE \in BOOLEAN /\ IsCode(s) /\ m \in Nat /\ Rising(s, m) /\ Looping(s) /\ m >= 1
    BY DEF Kept
  <2> QED BY <2>1 DEF Kept
<1>6. m + Depth(e, 0, Len(e) + 1) \in Nat /\ (r => m + Depth(e, 0, Len(e) + 1) >= 1)
  BY <1>1, <1>2
<1>7. Kept(s \o e, m + Depth(e, 0, Len(e) + 1), r)
  BY <1>1, <1>3, <1>4, <1>5, <1>6, KeptBoth
<1>8. r => m + Depth(e, 0, Len(e) + 1) = m - c + 1
  BY <1>1, <1>2
<1>9. ~ r => m + Depth(e, 0, Len(e) + 1) = 0
  <2>1. ~ r => m = c
    OBVIOUS
  <2> QED BY <1>1, <1>2, <2>1
<1> QED BY <1>7, <1>8, <1>9

-----------------------------------------------------------------------------
(* The codes of a group, one after the other.                              *)

\* The i-th code of q after what comes before it, v.
FlatAt(q, i, v) == IF i = 1 THEN q[1] ELSE v \o q[i]

\* FlattenSeq joins the codes one by one.
LEMMA FlattenRec ==
  ASSUME NEW q, Len(q) \in Nat, Len(q) >= 1
  PROVE  \E f : /\ FlattenSeq(q) = f[Len(q)] /\ f[1] = q[1]
                /\ \A i \in 2 .. Len(q) : f[i] = f[i - 1] \o q[i]
<1> DEFINE body(i, v) == FlatAt(q, i, v)
           L == Len(q)
           flat[i \in 1 .. Len(q)] == IF i = 1 THEN q[i] ELSE flat[i - 1] \o q[i]
           is(h, k) == h = [i \in 1 .. k |-> body(i, h[i - 1])]
<1>1. FlattenSeq(q) = flat[Len(q)]
  BY DEF FlattenSeq
<1>2. \A x, y : body(1, x) = body(1, y)
  BY DEF FlatAt
<1> HIDE DEF body
<1>3. \E h : is(h, 1)
  <2> DEFINE h == [i \in 1 .. 1 |-> body(1, 0)]
  <2>1. h[1] = body(1, h[1 - 1])
    BY <1>2
  <2>2. \A i \in 1 .. 1 : h[i] = body(i, h[i - 1])
    BY <2>1
  <2>3. h = [i \in 1 .. 1 |-> h[i]]
    OBVIOUS
  <2> HIDE DEF h
  <2>4. is(h, 1)
    BY <2>2, <2>3
  <2> QED BY <2>4
<1>4. ASSUME NEW k \in Nat, k >= 1, NEW e, is(e, k) PROVE \E h : is(h, k + 1)
  <2> DEFINE h == [i \in 1 .. k + 1 |-> IF i = k + 1 THEN body(k + 1, e[k]) ELSE e[i]]
  <2>1. \A i \in 1 .. k : h[i] = e[i]
    OBVIOUS
  <2>2. h[k + 1] = body(k + 1, h[k])
    BY <1>4, <2>1
  <2>3. ASSUME NEW i \in 1 .. k + 1 PROVE h[i] = body(i, h[i - 1])
    <3>1. CASE i = k + 1
      BY <3>1, <2>2
    <3>2. CASE i = 1
      <4>1. h[1] = body(1, e[1 - 1])
        BY <1>4, <2>1
      <4> QED BY <4>1, <3>2, <1>2
    <3>3. CASE i \in 2 .. k
      <4>1. i \in 1 .. k /\ i - 1 \in 1 .. k
        BY <3>3
      <4>2. e[i] = body(i, e[i - 1])
        BY <4>1, <1>4
      <4> QED BY <4>1, <4>2, <2>1
    <3> QED BY <3>1, <3>2, <3>3
  <2>4. h = [i \in 1 .. k + 1 |-> h[i]]
    OBVIOUS
  <2> HIDE DEF h
  <2>5. is(h, k + 1)
    BY <2>3, <2>4
  <2> QED BY <2>5
<1>5. PICK e : is(e, L)
  <2> DEFINE S == {k \in Nat : \E h : is(h, k + 1)}
  <2> HIDE DEF is
  <2>1. 0 \in S
    <3>1. 0 + 1 = 1
      OBVIOUS
    <3> QED BY <1>3, <3>1
  <2>2. ASSUME NEW k \in Nat, k \in S PROVE k + 1 \in S
    <3>1. k + 1 \in Nat /\ k + 1 >= 1
      OBVIOUS
    <3> QED BY <3>1, <2>2, <1>4
  <2> HIDE DEF S
  <2>3. Nat \subseteq S
    BY <2>1, <2>2, Induction
  <2>4. L - 1 \in Nat /\ (L - 1) + 1 = L
    OBVIOUS
  <2> HIDE DEF L
  <2> QED BY <2>3, <2>4 DEF S
<1>6. flat = [i \in 1 .. L |-> body(i, flat[i - 1])]
  <2>1. e = [i \in 1 .. L |-> body(i, e[i - 1])]
    BY <1>5
  <2>2. \A i, v : body(i, v) = IF i = 1 THEN q[i] ELSE v \o q[i]
    BY DEF body, FlatAt
  <2> DEFINE eq(h) == h = [i \in 1 .. Len(q) |-> IF i = 1 THEN q[i] ELSE h[i - 1] \o q[i]]
  <2>3. eq(e)
    BY <2>1, <2>2
  <2>4. flat = CHOOSE h : eq(h)
    BY DEF flat
  <2> HIDE DEF eq, flat
  <2>5. eq(flat)
    BY <2>3, <2>4
  <2> QED BY <2>2, <2>5 DEF eq
<1> HIDE DEF flat, L
<1>7. \A i \in 1 .. L : flat[i] = body(i, flat[i - 1])
  BY <1>6
<1>8. L \in Nat /\ 1 \in 1 .. L /\ \A i \in 2 .. L : i \in 1 .. L /\ i # 1
  BY DEF L
<1>9. flat[1] = q[1] /\ \A i \in 2 .. L : flat[i] = flat[i - 1] \o q[i]
  BY <1>7, <1>8 DEF body, FlatAt
<1> QED BY <1>1, <1>9 DEF L

\* Pieces of code that take from m[i] open blocks to m[i + 1].
LEMMA KeptFlatten ==
  ASSUME NEW q, NEW n \in Nat, Len(q) = n, n >= 1, NEW m, NEW l, Kept(q[1], m[1], l[1]),
         \A i \in 1 .. n - 1 : \A s : Kept(s, m[i], l[i]) => Kept(s \o q[i + 1], m[i + 1], l[i + 1])
  PROVE  Kept(FlattenSeq(q), m[n], l[n])
<1>1. PICK f : /\ FlattenSeq(q) = f[n] /\ f[1] = q[1]
               /\ \A i \in 2 .. n : f[i] = f[i - 1] \o q[i]
  BY FlattenRec
<1> DEFINE S == {k \in Nat : k + 1 <= n => Kept(f[k + 1], m[k + 1], l[k + 1])}
<1>2. 0 \in S
  <2>1. 0 + 1 = 1
    OBVIOUS
  <2> QED BY <1>1, <2>1
<1>3. ASSUME NEW k \in Nat, k \in S PROVE k + 1 \in S
  <2> SUFFICES ASSUME (k + 1) + 1 <= n PROVE Kept(f[(k + 1) + 1], m[(k + 1) + 1], l[(k + 1) + 1])
    OBVIOUS
  <2> DEFINE i == k + 1
  <2>1. i \in 1 .. n - 1 /\ i + 1 \in 2 .. n /\ (i + 1) - 1 = i /\ Kept(f[i], m[i], l[i])
    BY <1>3
  <2> HIDE DEF i
  <2>2. f[i + 1] = f[i] \o q[i + 1]
    BY <1>1, <2>1
  <2>3. Kept(f[i + 1], m[i + 1], l[i + 1])
    BY <2>1, <2>2
  <2> QED BY <2>3 DEF i
<1> HIDE DEF S
<1>4. Nat \subseteq S
  BY <1>2, <1>3, Induction
<1>5. n - 1 \in Nat /\ (n - 1) + 1 = n /\ n <= n
  OBVIOUS
<1>6. Kept(f[n], m[n], l[n])
  BY <1>4, <1>5 DEF S
<1> QED BY <1>1, <1>6

-----------------------------------------------------------------------------
(* The order in which a group is found.                                    *)

\* The natural exit is set first, and the two exits differ.
Parted(x) == x.odd # nil => x.nat # x.odd

\* The patterns that begin with a fork.
Forks == {IfThen, IfThenElse, ExitIf}

\* The exits that a trial may give to its group: b is one more.
Outlet(x, b, y) ==
  \/ MaySetExit(x, FALSE, b) /\ y = Put(x, FALSE, b)
  \/ ~ MaySetExit(x, FALSE, b) /\ y = Put(x, TRUE, b)

\* Trial c makes the call w.
Way(g, p, c, w) ==
  /\ w.matched \in {c.matched, Append(c.matched, c.next)}
  /\ w.exits \in {c.exits, g.exits[c.next]} \/ Outlet(c.exits, c.next, w.exits)
  /\ p \in Forks => /\ w.at = c.at + 1 /\ (w.next = nil => ~ w.at <= Len(p))
                    /\ w.matched = IF Digit(p, c.at) THEN c.matched
                                   ELSE Append(c.matched, c.next)

\* What the search tries of the ways on: the first, or the second.
Called(ways, w) == ways # <<>> /\ (w = ways[1] \/ (Len(ways) # 1 /\ w = ways[2]))

\* With one way on, it is that one.
LEMMA OneCall ==
  ASSUME NEW x, NEW w, Called(<<x>>, w)
  PROVE  w = x
<1>1. <<x>>[1] = x /\ Len(<<x>>) = 1
  OBVIOUS
<1> QED BY <1>1 DEF Called

\* With none, nothing.
LEMMA NoCall ==
  ASSUME NEW ways, ways = <<>>, NEW w, Called(ways, w)
  PROVE  FALSE
BY DEF Called

\* What close makes of a trial.
LEMMA CloseCalls ==
  ASSUME NEW p, NEW a, NEW n, NEW m, NEW S, nil \notin S, NEW k \in Seq(S), NEW x, NEW w,
         Called(Close(p, Trial(a, n, m, k, x)), w)
  PROVE  /\ w.at = a /\ w.matched = m /\ w.exits = x
         /\ w.next = nil => ~ a <= Len(p)
<1> DEFINE d == Trial(a, n, m, k, x)
<1>0. d.at = a /\ d.back = k
  BY DEF Trial
<1>1. CASE k # <<>>
  <2> DEFINE z == [d EXCEPT !.next = Head(d.back), !.back = Tail(d.back)]
             u == Head(k)   t == Tail(k)
  <2>1. Close(p, d) = <<z>>
    BY <1>0, <1>1 DEF Close
  <2>2. z = Trial(a, u, m, t, x)
    <3>1. z = [[d EXCEPT !.next = u] EXCEPT !.back = t]
      BY <1>0
    <3> HIDE DEF u, t, z
    <3>3. [[d EXCEPT !.next = u] EXCEPT !.back = t] = Trial(a, u, m, t, x)
      <4>1. [d EXCEPT !.next = u] = Trial(a, u, m, k, x)
        BY DEF Trial
      <4>2. [Trial(a, u, m, k, x) EXCEPT !.back = t] = Trial(a, u, m, t, x)
        BY DEF Trial
      <4> QED BY <4>1, <4>2
    <3> QED BY <3>1, <3>3
  <2>3. u \in S
    BY <1>1
  <2> HIDE DEF z, u, t
  <2>4. w = Trial(a, u, m, t, x)
    BY <2>1, <2>2, OneCall
  <2> QED BY <2>3, <2>4 DEF Trial
<1>2. CASE k = <<>>
  <2>1. IF a <= Len(p) THEN Close(p, d) = <<>> ELSE Close(p, d) = << [d EXCEPT !.next = nil] >>
    BY <1>0, <1>2 DEF Close
  <2>2. ~ a <= Len(p) /\ Close(p, d) = << [d EXCEPT !.next = nil] >>
    BY <2>1, NoCall
  <2>3. [d EXCEPT !.next = nil] = Trial(a, nil, m, k, x)
    BY DEF Trial
  <2>4. w = Trial(a, nil, m, k, x)
    BY <2>2, <2>3, OneCall
  <2> QED BY <2>2, <2>4 DEF Trial
<1> QED BY <1>1, <1>2

\* The trial after a bloc that the pattern takes.
LEMMA TakenPast ==
  ASSUME NEW g, NEW p, NEW f, NEW c, Tried(g, p, f, c)
  PROVE  /\ Past(c) = Trial(c.at + 1, c.next, c.matched, c.back, c.exits)
         /\ Taken(Past(c), c.next)
              = Trial(c.at + 1, c.next, Append(c.matched, c.next), c.back, c.exits)
<1>1. c = Trial(c.at, c.next, c.matched, c.back, c.exits)
  BY TriedRecord
<1> DEFINE a0 == c.at   n0 == c.next   m0 == c.matched   k0 == c.back   x0 == c.exits
<1> HIDE DEF a0, n0, m0, k0, x0
<1>2. Past(Trial(a0, n0, m0, k0, x0)) = Trial(a0 + 1, n0, m0, k0, x0)
  BY PastTrial
<1> DEFINE a1 == a0 + 1   m1 == Append(m0, n0)
<1> HIDE DEF a1
<1>3. Taken(Trial(a1, n0, m0, k0, x0), n0) = Trial(a1, n0, m1, k0, x0)
  BY TakenTrial
<1> QED BY <1>1, <1>2, <1>3 DEF a0, n0, m0, k0, x0, a1, m1

\* A call that goes on from a trial, field by field.
LEMMA MadeWay ==
  ASSUME NEW g, NEW p, NEW c, NEW w, ~ Digit(p, c.at), w.at = c.at + 1,
         w.matched = Append(c.matched, c.next), w.exits \in {c.exits, g.exits[c.next]},
         p \in Forks /\ w.next = nil => ~ w.at <= Len(p)
  PROVE  Way(g, p, c, w)
BY DEF Way

\* What each element of a pattern makes of a trial: "?",
LEMMA ForkWay ==
  ASSUME NEW g, Sane(g), NEW p \in Patterns, NEW f, NEW c, Tried(g, p, f, c), c.next # nil,
         p[c.at] = "?", NEW w, Called(Ways(g, p, c), w)
  PROVE  Way(g, p, c, w)
<1> DEFINE b == c.next   ex == g.exits[b]
<1>1. Middle(g, c) /\ ex.odd # nil
  BY WaysFork, NoCall
<1>2. Ways(g, p, c) = <<Branch(g, c, FALSE), Branch(g, c, TRUE)>>
  BY <1>1, WaysFork
<1>3. PICK r \in BOOLEAN : w = Branch(g, c, r)
  <2> DEFINE x == Branch(g, c, FALSE)   y == Branch(g, c, TRUE)
  <2> HIDE DEF x, y
  <2>1. <<x, y>>[1] = x /\ <<x, y>>[2] = y
    OBVIOUS
  <2>2. w = x \/ w = y
    BY <1>2, <2>1 DEF Called, x, y
  <2> QED BY <2>2 DEF x, y
<1>4. Get(ex, r) # nil
  <2>1. b \in Blocs(g)
    BY TriedFacts
  <2>2. ex.nat = nil => ex.odd = nil
    <3> HIDE DEF b
    <3> QED BY <2>1, ExitFacts
  <2> QED BY <1>1, <2>2 DEF Get
<1>5. w.at = c.at + 1 /\ w.next = Get(ex, r) /\ w.matched = Append(c.matched, b) /\ w.exits = c.exits
  <2> DEFINE d == Taken(Past(c), b)   u == Get(ex, r)   v == <<Get(ex, ~ r)>>
             a1 == c.at + 1   m1 == Append(c.matched, b)   k0 == c.back   x0 == c.exits
  <2>1. d = Trial(a1, b, m1, k0, x0)
    BY TakenPast
  <2>2. w = Forked(d, u, v)
    BY <1>3 DEF Branch
  <2> HIDE DEF d, u, v, a1, m1, k0, x0
  <2>3. w = Trial(a1, u, m1, v \o k0, x0)
    BY <2>1, <2>2, ForkedTrial
  <2>4. w.at = a1 /\ w.next = u /\ w.matched = m1 /\ w.exits = x0
    BY <2>3 DEF Trial
  <2> QED BY <2>4 DEF u, a1, m1, x0
<1>6. ~ Digit(p, c.at)
  BY DEF Digit
<1> HIDE DEF ex
<1> QED BY <1>4, <1>5, <1>6, MadeWay

\* ",",
LEMMA CommaWay ==
  ASSUME NEW g, Sane(g), NEW p \in Patterns, NEW f, NEW c, Tried(g, p, f, c), c.next # nil,
         Comma(p, c.at), NEW w, Called(Ways(g, p, c), w)
  PROVE  Way(g, p, c, w)
<1> DEFINE b == c.next   ex == g.exits[b]
<1>1. IF Middle(g, c) /\ ex.odd = nil /\ ex.nat # nil
        THEN Ways(g, p, c) = << Sent(Taken(Past(c), b), ex.nat) >>
        ELSE Ways(g, p, c) = <<>>
  BY Zenon, WaysComma DEF Comma
<1>2. ex.nat # nil /\ Ways(g, p, c) = << Sent(Taken(Past(c), b), ex.nat) >>
  BY <1>1, NoCall
<1>3. w = Sent(Taken(Past(c), b), ex.nat)
  <2> DEFINE x == Sent(Taken(Past(c), b), ex.nat)
  <2> HIDE DEF x
  <2> QED BY <1>2, OneCall DEF x
<1>5. w.at = c.at + 1 /\ w.next = ex.nat /\ w.matched = Append(c.matched, b) /\ w.exits = c.exits
  <2> DEFINE d == Taken(Past(c), b)   u == ex.nat
             a1 == c.at + 1   m1 == Append(c.matched, b)   k0 == c.back   x0 == c.exits
  <2>1. d = Trial(a1, b, m1, k0, x0)
    BY TakenPast
  <2>2. w = Sent(d, u)
    BY <1>3
  <2> HIDE DEF d, u, a1, m1, k0, x0
  <2>3. w = Trial(a1, u, m1, k0, x0)
    BY <2>1, <2>2, SentTrial
  <2>4. w.at = a1 /\ w.next = u /\ w.matched = m1 /\ w.exits = x0
    BY <2>3 DEF Trial
  <2> QED BY <2>4 DEF u, a1, m1, x0
<1>6. ~ Digit(p, c.at)
  BY DEF Digit, Comma
<1> HIDE DEF ex
<1> QED BY <1>2, <1>5, <1>6, MadeWay

\* ".",
LEMMA DotWay ==
  ASSUME NEW g, Sane(g), NEW p \in Patterns, NEW f, NEW c, Tried(g, p, f, c), c.next # nil,
         Dot(p, c.at), NEW w, Called(Ways(g, p, c), w)
  PROVE  Way(g, p, c, w)
<1> DEFINE b == c.next
<1>1. Ways(g, p, c) = Close(p, Taken(Past(c), b)) \/ Ways(g, p, c) = <<>>
  BY Zenon, WaysDot DEF Dot
<1>2. Called(Close(p, Taken(Past(c), b)), w)
  BY <1>1, NoCall
<1>3. c.back \in Seq(Blocs(g)) /\ nil \notin Blocs(g)
  BY TriedFacts, PoolFacts DEF Sane
<1>5. /\ w.at = c.at + 1 /\ w.matched = Append(c.matched, b) /\ w.exits = c.exits
      /\ w.next = nil => ~ w.at <= Len(p)
  <2> DEFINE a1 == c.at + 1   m1 == Append(c.matched, b)   k0 == c.back   x0 == c.exits
  <2>1. Taken(Past(c), b) = Trial(a1, b, m1, k0, x0)
    BY TakenPast
  <2>2. Called(Close(p, Trial(a1, b, m1, k0, x0)), w) /\ k0 \in Seq(Blocs(g))
    BY <1>2, <1>3, <2>1
  <2> HIDE DEF b, a1, m1, k0, x0
  <2>3. w.at = a1 /\ w.matched = m1 /\ w.exits = x0 /\ (w.next = nil => ~ a1 <= Len(p))
    BY <1>3, <2>2, CloseCalls
  <2> QED BY <2>3 DEF b, a1, m1, x0
<1>6. ~ Digit(p, c.at)
  BY DEF Digit, Dot
<1> QED BY <1>5, <1>6, MadeWay

\* "!",
LEMMA BangWay ==
  ASSUME NEW g, Sane(g), NEW p \in Patterns, NEW f, NEW c, Tried(g, p, f, c), c.next # nil,
         Bang(p, c.at), NEW w, Called(Ways(g, p, c), w)
  PROVE  Way(g, p, c, w)
<1> DEFINE b == c.next   ex == g.exits[b]
<1>1. Ways(g, p, c) = Close(p, Given(Taken(Past(c), b), ex)) \/ Ways(g, p, c) = <<>>
  BY Zenon, WaysBang DEF Bang
<1>2. Called(Close(p, Given(Taken(Past(c), b), ex)), w)
  BY <1>1, NoCall
<1>3. c.back \in Seq(Blocs(g)) /\ nil \notin Blocs(g)
  BY TriedFacts, PoolFacts DEF Sane
<1>5. /\ w.at = c.at + 1 /\ w.matched = Append(c.matched, b) /\ w.exits = ex
      /\ w.next = nil => ~ w.at <= Len(p)
  <2> DEFINE a1 == c.at + 1   m1 == Append(c.matched, b)   k0 == c.back   x0 == c.exits
  <2>1. Taken(Past(c), b) = Trial(a1, b, m1, k0, x0)
    BY TakenPast
  <2> HIDE DEF b, a1, m1, k0, x0, ex
  <2>2. Given(Trial(a1, b, m1, k0, x0), ex) = Trial(a1, b, m1, k0, ex)
    BY GivenTrial
  <2>3. Called(Close(p, Trial(a1, b, m1, k0, ex)), w) /\ k0 \in Seq(Blocs(g))
    BY <1>2, <1>3, <2>1, <2>2 DEF k0
  <2>4. w.at = a1 /\ w.matched = m1 /\ w.exits = ex /\ (w.next = nil => ~ a1 <= Len(p))
    BY <1>3, <2>3, CloseCalls
  <2> QED BY <2>4 DEF b, a1, m1
<1>6. ~ Digit(p, c.at)
  BY DEF Digit, Bang
<1> QED BY <1>5, <1>6, MadeWay

\* a digit,
LEMMA DigitWay ==
  ASSUME NEW g, Sane(g), NEW p \in Patterns, NEW f, NEW c, Tried(g, p, f, c), c.next # nil,
         Digit(p, c.at), NEW w, Called(Ways(g, p, c), w)
  PROVE  Way(g, p, c, w)
<1> DEFINE b == c.next
<1>1. IF MaySetExit(c.exits, FALSE, b) THEN Ways(g, p, c) = Close(p, Out(Past(c), FALSE, b))
      ELSE Ways(g, p, c) = <<>>
  BY Zenon, WaysOne DEF Digit
<1>2. MaySetExit(c.exits, FALSE, b) /\ Called(Close(p, Out(Past(c), FALSE, b)), w)
  BY <1>1, NoCall
<1>3. c.back \in Seq(Blocs(g)) /\ nil \notin Blocs(g)
  BY TriedFacts, PoolFacts DEF Sane
<1>5. /\ w.at = c.at + 1 /\ w.matched = c.matched /\ w.exits = Put(c.exits, FALSE, b)
      /\ w.next = nil => ~ w.at <= Len(p)
  <2> DEFINE a1 == c.at + 1   m0 == c.matched   k0 == c.back   x0 == c.exits   r == FALSE
             x1 == Put(x0, r, b)
  <2>1. Past(c) = Trial(a1, b, m0, k0, x0)
    BY TakenPast
  <2>0. Called(Close(p, Out(Past(c), r, b)), w)
    BY <1>2
  <2> HIDE DEF b, a1, m0, k0, x0, r
  <2>2. Out(Trial(a1, b, m0, k0, x0), r, b) = Trial(a1, b, m0, k0, x1)
    BY OutTrial
  <2> HIDE DEF x1
  <2>3. Called(Close(p, Trial(a1, b, m0, k0, x1)), w) /\ k0 \in Seq(Blocs(g))
    BY <1>3, <2>0, <2>1, <2>2 DEF k0
  <2>4. w.at = a1 /\ w.matched = m0 /\ w.exits = x1 /\ (w.next = nil => ~ a1 <= Len(p))
    BY <1>3, <2>3, CloseCalls
  <2> QED BY <2>4 DEF b, a1, m0, x1, x0, r
<1>6. Outlet(c.exits, b, w.exits)
  BY <1>2, <1>5 DEF Outlet
<1> QED BY <1>5, <1>6 DEF Way

\* "(" and ")",
LEMMA ParensWay ==
  ASSUME NEW g, NEW p \in Patterns, NEW f, NEW c, Tried(g, p, f, c), c.next # nil,
         Opening(p, c.at) \/ Shutting(p, c.at), NEW w, Called(Ways(g, p, c), w)
  PROVE  Way(g, p, c, w)
<1>1. c.at \in 1 .. Len(p)
  BY TriedFacts
<1>2. p = Seq2
  BY <1>1, Items
<1>3. p \notin Forks
  BY <1>2, Lengths DEF Forks
<1>4. \E a : w = [c EXCEPT !.at = a]
  <2>1. CASE Opening(p, c.at)
    <3>1. Ways(g, p, c) = <<Past(c), [c EXCEPT !.at = GroupEnd(p, @) + 1]>>
      BY <2>1, Zenon, WaysOpen DEF Opening
    <3> DEFINE x == Past(c)   y == [c EXCEPT !.at = GroupEnd(p, @) + 1]
    <3>2. (\E a : x = [c EXCEPT !.at = a]) /\ \E a : y = [c EXCEPT !.at = a]
      BY DEF Past
    <3> HIDE DEF x, y
    <3>3. <<x, y>>[1] = x /\ <<x, y>>[2] = y
      OBVIOUS
    <3>4. w = x \/ w = y
      BY <3>1, <3>3 DEF Called, x, y
    <3> QED BY <3>2, <3>4
  <2>2. CASE Shutting(p, c.at)
    <3>1. Ways(g, p, c) = << [c EXCEPT !.at = GroupBegin(p, @)] >>
      BY <2>2, Zenon, WaysShut DEF Shutting
    <3> DEFINE x == [c EXCEPT !.at = GroupBegin(p, @)]
    <3>2. \E a : x = [c EXCEPT !.at = a]
      OBVIOUS
    <3> HIDE DEF x
    <3>3. w = x
      BY <3>1, OneCall DEF x
    <3> QED BY <3>2, <3>3
  <2> QED BY <2>1, <2>2
<1>5. PICK a : w = [c EXCEPT !.at = a]
  BY <1>4
<1>6. w.matched = c.matched /\ w.exits = c.exits
  <2>1. c = Trial(c.at, c.next, c.matched, c.back, c.exits)
    BY TriedRecord
  <2> DEFINE a0 == c.at   n0 == c.next   m0 == c.matched   k0 == c.back   x0 == c.exits
  <2> HIDE DEF a0, n0, m0, k0, x0
  <2>2. [Trial(a0, n0, m0, k0, x0) EXCEPT !.at = a] = Trial(a, n0, m0, k0, x0)
    BY DEF Trial
  <2>3. w = Trial(a, n0, m0, k0, x0)
    BY <1>5, <2>1, <2>2 DEF a0, n0, m0, k0, x0
  <2>4. w.matched = m0 /\ w.exits = x0
    BY <2>3 DEF Trial
  <2> QED BY <2>4 DEF m0, x0
<1> QED BY <1>3, <1>6 DEF Way

\* "*".
LEMMA StarWay ==
  ASSUME NEW g, Sane(g), Rooted(g), NEW p \in Patterns, NEW f, NEW c, Tried(g, p, f, c),
         c.next # nil, Star(p, c.at), NEW w, Called(Ways(g, p, c), w)
  PROVE  Way(g, p, c, w)
<1> DEFINE i == Inside(g, c)   o == Outside(p, c)   b == c.next
<1>1. p = Loop /\ p \notin Forks
  <2>1. c.at \in 1 .. Len(p)
    BY TriedFacts
  <2>2. p = Loop
    BY <2>1, Items
  <2> QED BY <2>2, Lengths DEF Forks
<1>2. Ways(g, p, c) = i \o o
  BY Zenon, WaysStar DEF Star
<1>3. i = <<>> \/ \E v : i = <<v>> /\ Way(g, p, c, v)
  <2>1. i = <<>> \/ i = << Entered(Taken(c, b), g.exits[b].nat, g.exits[b].odd) >>
    BY DEF Inside
  <2> DEFINE v == Entered(Taken(c, b), g.exits[b].nat, g.exits[b].odd)
  <2>2. v.matched = Append(c.matched, b) /\ v.exits = c.exits
    <3>1. c = Trial(c.at, b, c.matched, c.back, c.exits)
      BY TriedRecord
    <3> DEFINE a0 == c.at   m0 == c.matched   k0 == c.back   x0 == c.exits   m1 == Append(m0, b)
               u == g.exits[b].nat   z == g.exits[b].odd
    <3> HIDE DEF a0, m0, k0, x0, u, z, b
    <3>2. Taken(Trial(a0, b, m0, k0, x0), b) = Trial(a0, b, m1, k0, x0)
      BY TakenTrial
    <3> HIDE DEF m1
    <3>3. Entered(Trial(a0, b, m1, k0, x0), u, z)
            = Trial(a0, u, m1, IF z # nil THEN <<z>> \o k0 ELSE k0, x0)
      BY EnteredTrial
    <3>4. v = Trial(a0, u, m1, IF z # nil THEN <<z>> \o k0 ELSE k0, x0)
      BY <3>1, <3>2, <3>3 DEF a0, m0, k0, x0, u, z
    <3>5. v.matched = m1 /\ v.exits = x0
      BY <3>4 DEF Trial
    <3> QED BY <3>5 DEF m1, m0, x0, b
  <2> HIDE DEF v
  <2>3. Way(g, p, c, v)
    BY <1>1, <2>2 DEF Way
  <2> QED BY <2>1, <2>3 DEF v
<1>4. o = <<>> \/ \E v : o = <<v>> /\ Way(g, p, c, v)
  <2>1. o = <<>> \/ \E v : o = <<v>> /\ Tried(g, Loop, f, v)
    BY <1>1, GoodOutside
  <2>2. ASSUME NEW v, o = <<v>> PROVE Way(g, p, c, v)
    <3>1. PICK r \in BOOLEAN : /\ r => ~ MaySetExit(c.exits, FALSE, b)
                               /\ ~ r => MaySetExit(c.exits, FALSE, b)
                               /\ o = Close(p, Out(Rest(c), r, b))
      <4>1. o # <<>>
        BY <2>2
      <4>2. CASE MaySetExit(c.exits, FALSE, b)
        BY <4>1, <4>2 DEF Outside
      <4>3. CASE ~ MaySetExit(c.exits, FALSE, b)
        BY <4>1, <4>3 DEF Outside
      <4> QED BY <4>2, <4>3
    <3>2. c.back \in Seq(Blocs(g)) /\ nil \notin Blocs(g)
      BY TriedFacts, PoolFacts DEF Sane
    <3> DEFINE a == Rest(c).at   m0 == c.matched   k0 == c.back   x0 == c.exits
               x1 == Put(x0, r, b)
    <3>3. Rest(c) = Trial(a, b, m0, k0, x0)
      <4> DEFINE a0 == c.at
      <4>1. c = Trial(a0, b, m0, k0, x0) /\ Past(c) = Trial(a0 + 1, b, m0, k0, x0)
        BY TriedRecord, TakenPast
      <4> HIDE DEF a0, m0, k0, x0, b
      <4>2. Rest(c) = Trial(a0, b, m0, k0, x0) \/ Rest(c) = Trial(a0 + 1, b, m0, k0, x0)
        BY <4>1 DEF Rest
      <4>3. Trial(a0, b, m0, k0, x0).at = a0 /\ Trial(a0 + 1, b, m0, k0, x0).at = a0 + 1
        BY DEF Trial
      <4> QED BY <4>2, <4>3
    <3>4. <<v>> = Close(p, Out(Rest(c), r, b))
      BY <2>2, <3>1
    <3> HIDE DEF a, m0, k0, x0, b
    <3>5. Out(Trial(a, b, m0, k0, x0), r, b) = Trial(a, b, m0, k0, x1)
      BY OutTrial
    <3> HIDE DEF x1
    <3>6. Called(Close(p, Trial(a, b, m0, k0, x1)), v)
      <4>1. Called(<<v>>, v)
        BY DEF Called
      <4> QED BY <3>3, <3>4, <3>5, <4>1
    <3>7. v.matched = m0 /\ v.exits = x1
      <4>1. k0 \in Seq(Blocs(g))
        BY <3>2 DEF k0
      <4> QED BY <3>2, <3>6, <4>1, CloseCalls
    <3>8. Outlet(c.exits, c.next, v.exits)
      BY <3>1, <3>7 DEF Outlet, x1, x0, b
    <3> QED BY <1>1, <3>7, <3>8 DEF Way, m0
  <2> QED BY <2>1, <2>2
<1> HIDE DEF i, o
<1>5. CASE i = <<>> \/ o = <<>>
  <2>1. i \o o = <<>> \/ \E v : i \o o = <<v>> /\ Way(g, p, c, v)
    <3>1. CASE i = <<>>
      <4>1. o = <<>> => i \o o = <<>>
        BY <3>1
      <4>2. \A v : o = <<v>> => i \o o = <<v>>
        BY <3>1
      <4> QED BY <1>4, <4>1, <4>2
    <3>2. CASE o = <<>>
      <4>1. i = <<>> => i \o o = <<>>
        BY <3>2
      <4>2. \A v : i = <<v>> => i \o o = <<v>>
        BY <3>2
      <4> QED BY <1>3, <4>1, <4>2
    <3> QED BY <1>5, <3>1, <3>2
  <2>2. i \o o # <<>>
    BY <1>2, NoCall
  <2>3. PICK v : i \o o = <<v>> /\ Way(g, p, c, v)
    BY <2>1, <2>2
  <2>4. w = v
    BY <1>2, <2>3, OneCall
  <2> QED BY <2>3, <2>4
<1>6. CASE i # <<>> /\ o # <<>>
  <2>1. PICK u : i = <<u>> /\ Way(g, p, c, u)
    BY <1>3, <1>6
  <2>2. PICK v : o = <<v>> /\ Way(g, p, c, v)
    BY <1>4, <1>6
  <2>3. i \o o = <<u, v>>
    BY <2>1, <2>2, JoinTwo
  <2>4. <<u, v>>[1] = u /\ <<u, v>>[2] = v
    OBVIOUS
  <2>5. w = u \/ w = v
    BY <1>2, <2>3, <2>4 DEF Called
  <2> QED BY <2>1, <2>2, <2>5
<1> QED BY <1>5, <1>6

\* Every way on is one of these.
LEMMA WayFacts ==
  ASSUME NEW g, Sane(g), Rooted(g), NEW p \in Patterns, NEW f, NEW c, Tried(g, p, f, c),
         c.next # nil, NEW w, Called(Ways(g, p, c), w)
  PROVE  Way(g, p, c, w) /\ Tried(g, p, f, w)
<1>1. c.at \in 1 .. Len(p)
  BY TriedFacts
<1>2. \/ p[c.at] = "?" \/ Star(p, c.at) \/ Comma(p, c.at) \/ Dot(p, c.at) \/ Bang(p, c.at)
      \/ Digit(p, c.at) \/ Opening(p, c.at) \/ Shutting(p, c.at)
  BY <1>1, Zenon, Letters DEF Star, Comma, Dot, Bang, Digit, Opening, Shutting
<1>3. Way(g, p, c, w)
  <2>1. CASE p[c.at] = "?"
    BY <2>1, ForkWay
  <2>2. CASE Star(p, c.at)
    BY <2>2, StarWay
  <2>3. CASE Comma(p, c.at)
    BY <2>3, CommaWay
  <2>4. CASE Dot(p, c.at)
    BY <2>4, DotWay
  <2>5. CASE Bang(p, c.at)
    BY <2>5, BangWay
  <2>6. CASE Digit(p, c.at)
    BY <2>6, DigitWay
  <2>7. CASE Opening(p, c.at) \/ Shutting(p, c.at)
    BY <2>7, ParensWay
  <2> QED BY <1>2, <2>1, <2>2, <2>3, <2>4, <2>5, <2>6, <2>7
<1>4. Tried(g, p, f, w)
  <2> DEFINE ways == Ways(g, p, c)
  <2>1. Good(g, p, f, ways)
    BY GoodWays
  <2>2. ways # <<>> /\ (w = ways[1] \/ (Len(ways) # 1 /\ w = ways[2]))
    BY DEF Called
  <2> HIDE DEF ways
  <2> QED BY <2>1, <2>2 DEF Good
<1> QED BY <1>3, <1>4

\* The result r of a search is that of a trial of T.
ResultOf(d) == [blocs |-> d.matched, exits |-> d.exits]

\* What the search returns is the result of a trial in T that has ended.
FoundIn(T, r) == r = NoMatch \/ \E d \in T : d.next = nil /\ r = ResultOf(d)

\* What a search finds is among the trials T, if the calls of those are.
LEMMA FoundAmong ==
  ASSUME NEW g, NEW p, NEW T, T \subseteq Trials(g, p),
         \A c \in T : c.next # nil => \A w : Called(Ways(g, p, c), w) => w \in T
  PROVE  \A n \in Nat : \A c \in T : FoundIn(T, Found(g, p)[n][c])
<1> DEFINE F == Found(g, p)
           Of(r) == FoundIn(T, r)
           P(k) == \A e \in T : Of(F[k][e])
<1>1. ASSUME NEW k \in Nat, k > 0 => P(k - 1)
      PROVE  P(k)
  <2> HIDE DEF F, Of
  <2>1. SUFFICES ASSUME NEW e \in T PROVE Of(F[k][e])
    OBVIOUS
  <2>2. F[k] = FoundBody(g, p, k, F[k - 1])
    BY FoundRec DEF F
  <2>3. e \in Trials(g, p)
    OBVIOUS
  <2> DEFINE ways == Ways(g, p, e)   one == F[k - 1][ways[1]]
  <2>4. F[k][e] = IF e.next = nil THEN [blocs |-> e.matched, exits |-> e.exits]
                  ELSE IF k = 0 \/ ways = <<>> THEN NoMatch
                  ELSE IF Len(ways) = 1 \/ one # NoMatch THEN one
                  ELSE F[k - 1][ways[2]]
    BY <2>2, <2>3, Zenon DEF FoundBody
  <2>5. CASE e.next = nil
    BY <2>4, <2>5 DEF Of, FoundIn, ResultOf
  <2>6. CASE e.next # nil /\ (k = 0 \/ ways = <<>>)
    BY <2>4, <2>6 DEF Of, FoundIn
  <2>7. CASE e.next # nil /\ ~ (k = 0 \/ ways = <<>>)
    <3>1. ways[1] \in T /\ (Len(ways) = 1 \/ ways[2] \in T)
      <4>1. \A w : Called(ways, w) => w \in T
        BY <2>7
      <4> HIDE DEF ways
      <4> QED BY <2>7, <4>1 DEF Called
    <3>2. P(k - 1)
      BY <1>1, <2>7
    <3> HIDE DEF ways
    <3>4. Of(one) /\ (Len(ways) = 1 \/ Of(F[k - 1][ways[2]]))
      BY <3>1, <3>2
    <3> QED BY <2>4, <2>7, <3>4
  <2> QED BY <2>5, <2>6, <2>7
<1> HIDE DEF F, Of
<1>2. \A k \in Nat : P(k)
  <2> DEFINE S == {k \in Nat : P(k)}
  <2> HIDE DEF P
  <2>1. 0 \in S
    BY <1>1
  <2>2. \A k \in Nat : k \in S => k + 1 \in S
    <3>1. SUFFICES ASSUME NEW k \in Nat, k \in S PROVE k + 1 \in S
      OBVIOUS
    <3>2. k + 1 \in Nat /\ (k + 1) - 1 = k /\ P(k)
      BY <3>1
    <3>3. P(k + 1)
      BY <3>2, <1>1
    <3> QED BY <3>2, <3>3
  <2> HIDE DEF S
  <2>3. Nat \subseteq S
    BY <2>1, <2>2, Induction
  <2> QED BY <2>3 DEF S
<1> QED BY <1>2 DEF F, Of

\* Each bloc of a group but the first comes after one that leads to it.
Led(g, m) == \A j \in 2 .. Len(m) : \E i \in 1 .. j - 1 : m[j] \in Succ(g, m[i])

\* The number of blocs that a pattern has taken before its item at a.
Taking(p, a) == IF a <= 3 THEN a - 1 ELSE IF p = IfThenElse /\ a > 4 THEN 3 ELSE 2

\* Each element but a digit takes a bloc.
LEMMA TakingNext ==
  ASSUME NEW p \in Forks, NEW a \in 1 .. Len(p)
  PROVE  Taking(p, a + 1) = Taking(p, a) + (IF Digit(p, a) THEN 0 ELSE 1)
<1>1. p \in Patterns /\ p # Seq2 /\ p # Loop
  BY Lengths DEF Forks, Patterns
<1>2. Digit(p, a) => \/ p = IfThen /\ a \in {3, 4}
                     \/ p = IfThenElse /\ a \in {3, 5}
                     \/ p = ExitIf /\ a = 3
  BY <1>1, Items
<1>3. ~ Digit(p, a) => \/ a = 1
                       \/ p = IfThen /\ a = 2
                       \/ p = IfThenElse /\ a \in {2, 4}
                       \/ p = ExitIf /\ a = 2
  <2>1. \/ p[a] = "?" \/ Star(p, a) \/ Comma(p, a) \/ Dot(p, a) \/ Bang(p, a)
        \/ Digit(p, a) \/ Opening(p, a) \/ Shutting(p, a)
    BY <1>1, Zenon, Letters DEF Star, Comma, Dot, Bang, Digit, Opening, Shutting
  <2>2. p[a] = "?" => a = 1
    BY <1>1, Letters
  <2>3. /\ Comma(p, a) => \/ p = IfThen /\ a = 2
                          \/ p = IfThenElse /\ a \in {2, 4}
        /\ Dot(p, a) => p = ExitIf /\ a = 2
        /\ ~ Star(p, a) /\ ~ Bang(p, a) /\ ~ Opening(p, a) /\ ~ Shutting(p, a)
    <3>1. /\ Comma(p, a) => \/ p = Seq2 /\ a \in {1, 3}
                            \/ p = IfThen /\ a = 2
                            \/ p = IfThenElse /\ a \in {2, 4}
          /\ Dot(p, a) => p = ExitIf /\ a = 2
          /\ Bang(p, a) => p = Seq2 /\ a = 5
          /\ Opening(p, a) => p = Seq2 /\ a = 2
          /\ Shutting(p, a) => p = Seq2 /\ a = 4
          /\ Star(p, a) => p = Loop /\ a = 1
      BY <1>1, Items
    <3> QED BY <1>1, <3>1
  <2> QED BY <2>1, <2>2, <2>3
<1>4. (p = IfThenElse \/ p # IfThenElse) /\ IfThen # IfThenElse /\ ExitIf # IfThenElse
  BY Lengths
<1>5. CASE Digit(p, a)
  <2>1. (a \in {3, 4} /\ p # IfThenElse) \/ (a \in {3, 5} /\ p = IfThenElse)
    BY <1>2, <1>4, <1>5
  <2>2. Taking(p, a + 1) = Taking(p, a) /\ Taking(p, a) \in Nat
    BY <2>1 DEF Taking
  <2> QED BY <1>5, <2>2
<1>6. CASE ~ Digit(p, a)
  <2>1. a \in {1, 2} \/ (a = 4 /\ p = IfThenElse)
    BY <1>3, <1>6
  <2>2. Taking(p, a + 1) = Taking(p, a) + 1
    BY <2>1 DEF Taking
  <2> QED BY <1>6, <2>2
<1> QED BY <1>5, <1>6

\* What the trials of a search have besides.
Leading(g, p, f, c) ==
  /\ Tried(g, p, f, c) /\ Led(g, c.matched) /\ Parted(c.exits)
  /\ p \in Forks => /\ Len(c.matched) = Taking(p, c.at)
                    /\ c.next = nil => ~ c.at <= Len(p)

\* One item more.
LEMMA AppendFacts ==
  ASSUME NEW m, IsCode(m), NEW b
  PROVE  /\ Len(m) \in Nat /\ Len(Append(m, b)) = Len(m) + 1 /\ Append(m, b)[Len(m) + 1] = b
         /\ \A i \in 1 .. Len(m) : Append(m, b)[i] = m[i]
         /\ IsCode(Append(m, b))
<1> DEFINE w == Append(m, b)   e == <<b>>
<1>1. w = m \o e
  BY AppendIs
<1>2. IsCode(e) /\ Len(e) = 1 /\ e[1] = b
  BY UnitFacts
<1> HIDE DEF e, w
<1>6. IsCode(e) /\ IsCode(m)
  BY <1>2
<1>3. /\ IsCode(m \o e) /\ Len(m) \in Nat /\ Len(m \o e) = Len(m) + Len(e)
      /\ \A i \in 1 .. Len(m) : (m \o e)[i] = m[i]
      /\ \A i \in 1 .. Len(e) : (m \o e)[Len(m) + i] = e[i]
  BY <1>6, JoinFacts
<1>4. 1 \in 1 .. Len(e)
  BY <1>2
<1>5. w[Len(m) + 1] = b /\ Len(w) = Len(m) + 1
  BY <1>1, <1>2, <1>3, <1>4
<1> QED BY <1>1, <1>3, <1>5 DEF w

\* A group with one bloc more, that one of its blocs leads to.
LEMMA LedNext ==
  ASSUME NEW g, NEW m \in Seq(Blocs(g)), Led(g, m), NEW b, b \in Onward(g, ToSet(m)) \/ m = <<>>
  PROVE  Led(g, Append(m, b)) /\ Len(Append(m, b)) = Len(m) + 1
<1> DEFINE w == Append(m, b)   n == Len(m)
<1>0. IsCode(m)
  BY DEF IsCode
<1>1. /\ n \in Nat /\ Len(w) = n + 1 /\ w[n + 1] = b
      /\ \A i \in 1 .. n : w[i] = m[i]
  BY <1>0, AppendFacts
<1> HIDE DEF w
<1>2. ASSUME NEW j \in 2 .. n + 1 PROVE \E i \in 1 .. j - 1 : w[j] \in Succ(g, w[i])
  <2>1. CASE j \in 2 .. n
    <3>1. PICK i \in 1 .. j - 1 : m[j] \in Succ(g, m[i])
      BY <2>1 DEF Led
    <3>2. j \in 1 .. n /\ i \in 1 .. n
      BY <1>1, <2>1
    <3> QED BY <1>1, <3>1, <3>2
  <2>2. CASE j = n + 1
    <3>1. m # <<>>
      BY <1>1, <2>2
    <3>2. PICK c \in ToSet(m) : b \in Succ(g, c)
      BY <3>1 DEF Onward
    <3>3. PICK i \in 1 .. n : m[i] = c
      BY ItemFacts
    <3>4. i \in 1 .. j - 1
      BY <2>2, <1>1
    <3> QED BY <1>1, <2>2, <3>2, <3>3, <3>4
  <2> QED BY <1>1, <2>1, <2>2
<1> QED BY <1>1, <1>2 DEF Led, w

\* A trial goes on in such a group.
LEMMA LeadingNext ==
  ASSUME NEW g, Sane(g), Rooted(g), \A b \in Blocs(g) : Parted(g.exits[b]),
         NEW p \in Patterns, NEW f, NEW c, Leading(g, p, f, c), c.next # nil,
         NEW w, Called(Ways(g, p, c), w)
  PROVE  Leading(g, p, f, w)
<1>1. Way(g, p, c, w) /\ Tried(g, p, f, w) /\ Tried(g, p, f, c)
  BY WayFacts DEF Leading
<1>2. /\ c.matched \in Seq(Blocs(g)) /\ c.next \in Blocs(g) /\ c.exits \in ExitsTo(Blocs(g))
      /\ c.at \in 1 .. Len(p) /\ (c.exits.nat = nil => c.exits.odd = nil)
      /\ c.next \in Ahead(c)
  BY <1>1, TriedFacts
<1>3. c.next \in Onward(g, ToSet(c.matched)) \/ c.matched = <<>>
  <2>1. Searched(g, f, ToSet(c.matched), Ahead(c), Again(c), c.exits)
    BY <1>1 DEF Tried
  <2>2. c.matched # <<>> => ToSet(c.matched) # {}
    BY <1>1, TriedFacts
  <2>3. c.matched # <<>> => Ahead(c) \subseteq Onward(g, ToSet(c.matched))
    BY <2>1, <2>2 DEF Searched
  <2> QED BY <1>2, <2>3
<1>4. /\ Led(g, Append(c.matched, c.next)) /\ Led(g, c.matched)
      /\ Len(Append(c.matched, c.next)) = Len(c.matched) + 1 /\ Len(c.matched) \in Nat
  <2>1. Led(g, c.matched) /\ Len(c.matched) \in Nat
    BY <1>2 DEF Leading
  <2> QED BY <1>2, <1>3, <2>1, LedNext
<1>5. Led(g, w.matched)
  <2>1. w.matched \in {c.matched, Append(c.matched, c.next)}
    BY <1>1 DEF Way
  <2> QED BY <1>4, <2>1
<1>6. Parted(w.exits)
  <2>1. Parted(c.exits) /\ Parted(g.exits[c.next])
    BY <1>2 DEF Leading
  <2>2. CASE w.exits \in {c.exits, g.exits[c.next]}
    BY <2>1, <2>2
  <2>3. CASE Outlet(c.exits, c.next, w.exits)
    <3> DEFINE x == c.exits   b == c.next   y == w.exits
    <3>1. /\ x \in [nat : Blocs(g) \cup {nil}, odd : Blocs(g) \cup {nil}]
          /\ Parted(x) /\ Outlet(x, b, y) /\ (x.nat = nil => x.odd = nil) /\ b # nil
      BY <1>2, <2>1, <2>3, PoolFacts DEF ExitsTo, Sane
    <3> HIDE DEF x, b, y
    <3>2. CASE MaySetExit(x, FALSE, b)
      <4>1. y.nat = b /\ y.odd = x.odd /\ x.nat \in {nil, b}
        BY <3>1, <3>2 DEF Outlet, Put, MaySetExit, Get
      <4> QED BY <3>1, <4>1 DEF Parted, y
    <3>3. CASE ~ MaySetExit(x, FALSE, b)
      <4>1. y.nat = x.nat /\ y.odd = b /\ x.nat # b
        BY <3>1, <3>3 DEF Outlet, Put, MaySetExit, Get
      <4> QED BY <4>1 DEF Parted, y
    <3> QED BY <3>2, <3>3
  <2> QED BY <1>1, <2>2, <2>3 DEF Way
<1>7. ASSUME p \in Forks
      PROVE  Len(w.matched) = Taking(p, w.at) /\ (w.next = nil => ~ w.at <= Len(p))
  <2>1. /\ w.at = c.at + 1 /\ (w.next = nil => ~ w.at <= Len(p))
        /\ w.matched = IF Digit(p, c.at) THEN c.matched ELSE Append(c.matched, c.next)
    BY <1>1, <1>7 DEF Way
  <2>2. Len(c.matched) = Taking(p, c.at)
    BY <1>7 DEF Leading
  <2>3. Taking(p, c.at + 1) = Taking(p, c.at) + (IF Digit(p, c.at) THEN 0 ELSE 1)
    BY <1>2, <1>7, TakingNext
  <2>4. Len(w.matched) = Len(c.matched) + (IF Digit(p, c.at) THEN 0 ELSE 1)
    <3>1. CASE Digit(p, c.at)
      BY <1>4, <2>1, <3>1
    <3>2. CASE ~ Digit(p, c.at)
      BY <1>4, <2>1, <3>2
    <3> QED BY <3>1, <3>2
  <2> QED BY <2>1, <2>2, <2>3, <2>4
<1> QED BY <1>1, <1>5, <1>6, <1>7 DEF Leading

\* ... and begins so.
LEMMA LeadingFirst ==
  ASSUME NEW g, Sane(g), NEW p \in Patterns, NEW b \in Blocs(g)
  PROVE  Leading(g, p, b, FirstTrial(b))
<1> DEFINE c == FirstTrial(b)
<1>1. Tried(g, p, b, c)
  BY FirstTried
<1>2. c.at = 1 /\ c.next = b /\ c.matched = <<>> /\ c.exits = NoExits
  BY DEF FirstTrial
<1>3. Led(g, c.matched) /\ Len(c.matched) = 0
  <2>1. Len(<<>>) = 0
    OBVIOUS
  <2> HIDE DEF c
  <2> QED BY <1>2, <2>1 DEF Led
<1>4. Parted(NoExits)
  BY DEF Parted, NoExits, Exits
<1>5. Taking(p, 1) = 0 /\ b # nil
  BY ExitFacts DEF Taking
<1> HIDE DEF c
<1>6. Leading(g, p, b, c)
  BY <1>1, <1>2, <1>3, <1>4, <1>5 DEF Leading
<1> QED BY <1>6 DEF c

\* What a group has besides: the order of its blocs, and how many there are.
Arranged(g, p, m) ==
  /\ Led(g, m.blocs) /\ Parted(m.exits)
  /\ p \in {IfThen, ExitIf} => Len(m.blocs) = 2
  /\ p = IfThenElse => Len(m.blocs) = 3

\* The group that is matched at a bloc is arranged so,
LEMMA MatchArranged ==
  ASSUME NEW g, Sane(g), Rooted(g), \A b \in Blocs(g) : Parted(g.exits[b]),
         NEW p \in Patterns, NEW b \in Blocs(g)
  PROVE  Match(g, p, b) = NoMatch \/ Arranged(g, p, Match(g, p, b))
<1> DEFINE c == FirstTrial(b)   n == Nesting(g)   m == Match(g, p, b)
           T == {d \in Trials(g, p) : Leading(g, p, b, d)}
<1>1. n \in Nat
  BY PoolFacts DEF Nesting, Sane
<1>2. \A d : d \in T <=> Leading(g, p, b, d)
  BY DEF Leading, Tried
<1>3. T \subseteq Trials(g, p)
  OBVIOUS
<1> HIDE DEF T
<1>4. c \in T
  BY <1>2, LeadingFirst
<1>5. m = Found(g, p)[n][c]
  BY DEF Match
<1>6. \A d \in T : d.next # nil => \A w : Called(Ways(g, p, d), w) => w \in T
  BY <1>2, LeadingNext
<1> HIDE DEF c, n, m
<1>7. FoundIn(T, m)
  <2> DEFINE F == Found(g, p)
  <2>0. \A k \in Nat : \A e \in T : FoundIn(T, F[k][e])
    BY <1>3, <1>6, FoundAmong
  <2> HIDE DEF F
  <2>1. FoundIn(T, F[n][c])
    BY <1>1, <1>4, <2>0
  <2> QED BY <1>5, <2>1 DEF F
<1>8. ASSUME NEW d \in T, d.next = nil, m = ResultOf(d)
      PROVE  Arranged(g, p, m)
  <2>1. m.blocs = d.matched /\ m.exits = d.exits
    BY <1>8 DEF ResultOf
  <2>2. Leading(g, p, b, d)
    BY <1>2
  <2>3. ASSUME p \in Forks PROVE Len(m.blocs) = IF p = IfThenElse THEN 3 ELSE 2
    <3>1. d.at \in 1 .. Len(p) + 1
      BY <2>2 DEF Leading, Tried, Trials
    <3>2. Len(p) = (IF p = IfThen THEN 4 ELSE IF p = IfThenElse THEN 5 ELSE 3)
      BY <2>3, Lengths DEF Forks
    <3>3. d.at = Len(p) + 1 /\ Len(m.blocs) = Taking(p, d.at)
      <4>1. ~ d.at <= Len(p)
        BY <1>8, <2>2, <2>3 DEF Leading
      <4>2. d.at = Len(p) + 1
        BY <3>1, <3>2, <4>1
      <4> QED BY <4>2, <2>1, <2>2, <2>3 DEF Leading
    <3>4. p = IfThenElse => d.at = 6
      BY <3>2, <3>3, Lengths
    <3>5. p # IfThenElse => d.at \in {4, 5}
      BY <3>2, <3>3, Lengths
    <3>6. Taking(p, d.at) = IF p = IfThenElse THEN 3 ELSE 2
      <4>1. CASE p = IfThenElse
        BY <3>4, <4>1 DEF Taking
      <4>2. CASE p # IfThenElse
        BY <3>5, <4>2 DEF Taking
      <4> QED BY <4>1, <4>2
    <3> QED BY <3>3, <3>6
  <2>4. (p \in {IfThen, ExitIf} => Len(m.blocs) = 2) /\ (p = IfThenElse => Len(m.blocs) = 3)
    <3>1. IfThen # IfThenElse /\ ExitIf # IfThenElse
      BY Lengths
    <3> QED BY <2>3, <3>1 DEF Forks
  <2> QED BY <2>1, <2>2, <2>4 DEF Leading, Arranged
<1>9. m = NoMatch \/ Arranged(g, p, m)
  BY <1>7, <1>8 DEF FoundIn
<1> QED BY <1>9 DEF m

\* ... hence the group that a round merges.
LEMMA FirstMatchArranged ==
  ASSUME NEW g, Sane(g), Rooted(g), \A b \in Blocs(g) : Parted(g.exits[b]),
         NEW p \in Patterns, FirstMatch(g, p) # NoMatch
  PROVE  Arranged(g, p, FirstMatch(g, p))
<1> DEFINE m == FirstMatch(g, p)
<1>1. Grouped(g, p, m) /\ Accepted(p, m)
  BY FirstMatchFacts
<1>2. \E b \in Blocs(g) : m = Match(g, p, b)
  <2> DEFINE I == {i \in 1 .. Len(g.pool) : Accepted(p, Match(g, p, g.pool[i]))}
             k == IF I # {} THEN Min(I) ELSE 0
  <2>1. m = IF k = 0 THEN NoMatch ELSE Match(g, p, g.pool[k])
    BY Zenon DEF FirstMatch, SelectInSeq
  <2>2. k # 0 /\ m = Match(g, p, g.pool[k])
    BY <2>1
  <2>3. k \in 1 .. Len(g.pool)
    <3>1. I \subseteq Nat /\ I # {}
      BY <2>2
    <3> HIDE DEF I
    <3>2. k \in I
      BY <3>1, Least
    <3> HIDE DEF k
    <3> QED BY <3>2 DEF I
  <2> HIDE DEF k, m
  <2>4. g.pool[k] \in Blocs(g)
    BY <2>3, PoolFacts DEF Sane
  <2> QED BY <2>2, <2>4
<1>3. PICK b \in Blocs(g) : m = Match(g, p, b)
  BY <1>2
<1>4. m = NoMatch \/ Arranged(g, p, m)
  BY <1>3, MatchArranged
<1> QED BY <1>4

-----------------------------------------------------------------------------
(* What the blocs of a graph say.                                          *)

\* h is g with code s in bloc b.
Says(g, h, b, s) == /\ Kin(g, h) /\ h.error = g.error /\ h.stmts[b] = s
                    /\ \A c \in Blocs(g) \ {b} : h.stmts[c] = g.stmts[c]

\* The statements of a bloc are replaced.
LEMMA StmtsSay ==
  ASSUME NEW g, Sane(g), NEW b \in Blocs(g), NEW s
  PROVE  LET h == [g EXCEPT !.stmts[b] = s] IN Says(g, h, b, s)
<1> DEFINE h == [g EXCEPT !.stmts[b] = s]
<1>1. g = [f \in Fields |-> g[f]] /\ DOMAIN g.stmts = Blocs(g)
  BY DEF Sane, Pooled
<1>2. Kin(g, h) /\ h.error = g.error
  BY <1>1, StmtsKin
<1>3. h = [g EXCEPT !.stmts = [g.stmts EXCEPT ![b] = s]]
  BY <1>1 DEF Fields
<1>4. h.stmts = [g.stmts EXCEPT ![b] = s]
  BY <1>1, <1>3 DEF Fields
<1> HIDE DEF h
<1>5. h.stmts[b] = s /\ \A c \in Blocs(g) \ {b} : h.stmts[c] = g.stmts[c]
  BY <1>1, <1>4
<1> QED BY <1>2, <1>5 DEF Says, h

\* AppendStmt, AppendAll and InsertStmt change the code of one bloc.
LEMMA AppendSays ==
  ASSUME NEW g, Sane(g), NEW b \in Blocs(g), NEW s
  PROVE  /\ Says(g, AppendStmt(g, b, s), b, Append(g.stmts[b], s))
         /\ Says(g, AppendAll(g, b, s), b, g.stmts[b] \o s)
         /\ Says(g, InsertStmt(g, b, s), b, <<s>> \o g.stmts[b])
<1>1. AppendStmt(g, b, s) = [g EXCEPT !.stmts[b] = Append(g.stmts[b], s)]
  BY DEF AppendStmt
<1>2. AppendAll(g, b, s) = [g EXCEPT !.stmts[b] = g.stmts[b] \o s]
  BY DEF AppendAll
<1>3. InsertStmt(g, b, s) = [g EXCEPT !.stmts[b] = <<s>> \o g.stmts[b]]
  BY DEF InsertStmt
<1> DEFINE a == Append(g.stmts[b], s)   c == g.stmts[b] \o s   d == <<s>> \o g.stmts[b]
<1> HIDE DEF a, c, d
<1>4. Says(g, [g EXCEPT !.stmts[b] = a], b, a)
  BY StmtsSay
<1>5. Says(g, [g EXCEPT !.stmts[b] = c], b, c)
  BY StmtsSay
<1>6. Says(g, [g EXCEPT !.stmts[b] = d], b, d)
  BY StmtsSay
<1> QED BY <1>1, <1>2, <1>3, <1>4, <1>5, <1>6 DEF a, c, d

\* CondTerm changes no code.
LEMMA CondSays ==
  ASSUME NEW g, Sane(g), NEW b, NEW term, NEW inv
  PROVE  LET h == CondTerm(g, b, term, inv)
         IN  Kin(g, h) /\ h.error = g.error /\ h.stmts = g.stmts
<1> DEFINE h == CondTerm(g, b, term, inv)
<1>0. g = [f \in Fields |-> g[f]]
  BY DEF Sane, Pooled
<1>1. h = [f \in Fields |-> h[f]] /\ \A f \in Fields \ {"term", "clash"} : h[f] = g[f]
  BY <1>0, Zenon DEF CondTerm, SetCondTerm, Fields
<1> HIDE DEF h
<1>2. Kin(g, h) /\ h.error = g.error /\ h.stmts = g.stmts
  BY <1>1 DEF Kin, Alike, Fields
<1> QED BY Zenon, <1>2 DEF h

\* TestLcc adds the test to the code of one bloc.
LEMMA TestSays ==
  ASSUME NEW g, Sane(g), NEW b \in Blocs(g), NEW s
  PROVE  Says(g, TestLcc(g, b, s), b, Append(g.stmts[b], s))
<1> DEFINE r == FALSE   h == CondTerm(g, b, lcc, r)   k == AppendStmt(h, b, s)
<1>1. TestLcc(g, b, s) = k
  BY DEF TestLcc
<1> HIDE DEF r
<1>2. Kin(g, h) /\ h.error = g.error /\ h.stmts = g.stmts
  BY CondSays
<1> HIDE DEF h
<1>3. Sane(h) /\ Blocs(h) = Blocs(g)
  BY <1>2, KinSame
<1>4. Says(h, k, b, Append(h.stmts[b], s))
  BY <1>3, AppendSays
<1> HIDE DEF k
<1>5. Says(g, k, b, Append(g.stmts[b], s))
  <2>1. Kin(g, k)
    BY <1>2, <1>4, KinTrans DEF Says
  <2> QED BY <1>2, <1>3, <1>4, <2>1 DEF Says
<1> QED BY <1>1, <1>5

\* Two changes of one bloc are one.
LEMMA SaysTwice ==
  ASSUME NEW g, Sane(g), NEW b, NEW h, NEW s, Says(g, h, b, s), NEW k, NEW t, Says(h, k, b, t)
  PROVE  Says(g, k, b, t) /\ Sane(h) /\ Blocs(h) = Blocs(g)
<1>1. Sane(h) /\ Blocs(h) = Blocs(g)
  BY KinSame DEF Says
<1>2. Kin(g, k)
  BY KinTrans DEF Says
<1> QED BY <1>1, <1>2 DEF Says

\* The code of each bloc is complete, and its exits differ.
Spoken(g) == \A b \in Blocs(g) : Formed(g.stmts[b]) /\ Parted(g.exits[b])

\* A complete code is one that is being made, with nothing open.
LEMMA FormedKept ==
  ASSUME NEW s
  PROVE  (Formed(s) <=> Kept(s, 0, FALSE)) /\ (Formed(s) => IsCode(s))
BY DEF Formed, Kept, IsCode

\* A complete code, then a token.
LEMMA KeptPiece ==
  ASSUME NEW s, NEW m, NEW l, Kept(s, m, l), NEW t, Formed(t), NEW x,
         Jumps(x) => l, m >= Fall(x), l => m >= 1 + Fall(x)
  PROVE  Kept(s \o Append(t, x), m + Rise(x) - Fall(x), l)
<1>1. IsCode(t)
  BY FormedKept
<1>2. IsCode(s)
  BY DEF Kept
<1>3. IsCode(<<x>>)
  BY UnitFacts
<1>4. Append(t, x) = t \o <<x>>
  BY <1>1, AppendIs
<1> DEFINE e == <<x>>
<1> HIDE DEF e
<1>5. IsCode(e)
  BY <1>3 DEF e
<1>6. (s \o t) \o e = s \o (t \o e)
  BY <1>1, <1>2, <1>5, JoinThree
<1>7. Kept(s \o t, m, l)
  BY KeptFormed
<1>8. Kept((s \o t) \o <<x>>, m + Rise(x) - Fall(x), l)
  BY <1>7, KeptToken
<1> QED BY <1>4, <1>6, <1>8 DEF e

\* h is g but for the code of bloc b.
Touches(g, h, b) == /\ Kin(g, h) /\ h.error = g.error
                    /\ \A c \in Blocs(g) \ {b} : h.stmts[c] = g.stmts[c]

\* The blocs t are given their codes, one after the other.
LEMMA TouchAll ==
  ASSUME NEW g, Sane(g), NEW n \in Nat, NEW t, \A i \in 1 .. n : t[i] \in Blocs(g),
         \A i, j \in 1 .. n : t[i] = t[j] => i = j, NEW f, f[0] = g,
         \A i \in 1 .. n : Kin(g, f[i - 1]) => Touches(f[i - 1], f[i], t[i])
  PROVE  /\ Kin(g, f[n]) /\ f[n].error = g.error
         /\ \A i \in 1 .. n : Kin(g, f[i - 1]) /\ f[i - 1].stmts[t[i]] = g.stmts[t[i]]
                              /\ f[n].stmts[t[i]] = f[i].stmts[t[i]]
         /\ \A c \in Blocs(g) : (\A i \in 1 .. n : c # t[i]) => f[n].stmts[c] = g.stmts[c]
<1> DEFINE B == Blocs(g)
           P(k) == /\ Kin(g, f[k]) /\ f[k].error = g.error
                   /\ \A c \in B : (\A i \in 1 .. k : c # t[i]) => f[k].stmts[c] = g.stmts[c]
                   /\ \A i \in 1 .. k : f[k].stmts[t[i]] = f[i].stmts[t[i]]
           S == {k \in Nat : k <= n => P(k)}
<1>1. 0 \in S
  <2>1. Kin(g, g)
    BY KinItself DEF Sane, Pooled
  <2>2. \A i \in 1 .. 0 : FALSE
    OBVIOUS
  <2>3. P(0)
    BY <2>1, <2>2
  <2> QED BY <2>3
<1>2. ASSUME NEW k \in Nat, k \in S PROVE k + 1 \in S
  <2> SUFFICES ASSUME k + 1 <= n PROVE P(k + 1)
    OBVIOUS
  <2> DEFINE j == k + 1
  <2>1. /\ P(k) /\ j \in 1 .. n /\ j - 1 = k /\ t[j] \in B
        /\ \A i \in 1 .. k : i \in 1 .. n /\ i # j /\ i \in 1 .. j
        /\ \A i \in 1 .. j : i \in 1 .. k \/ i = j
        /\ j \in 1 .. j
    BY <1>2
  <2> HIDE DEF j
  <2>2. Touches(f[k], f[j], t[j])
    <3>1. Touches(f[j - 1], f[j], t[j])
      BY <2>1
    <3> QED BY <2>1, <3>1
  <2>3. Kin(g, f[j])
    <3>1. Kin(g, f[k]) /\ Kin(f[k], f[j])
      BY <2>1, <2>2 DEF Touches
    <3> QED BY <3>1, KinTrans
  <2>4. Blocs(f[k]) = B
    BY <2>1, KinSame
  <2>5. \A c \in B \ {t[j]} : f[j].stmts[c] = f[k].stmts[c]
    BY <2>2, <2>4 DEF Touches
  <2>6. ASSUME NEW c \in B, \A i \in 1 .. j : c # t[i] PROVE f[j].stmts[c] = g.stmts[c]
    BY <2>1, <2>5, <2>6
  <2>7. ASSUME NEW i \in 1 .. j PROVE f[j].stmts[t[i]] = f[i].stmts[t[i]]
    <3>1. CASE i = j
      BY <3>1
    <3>2. CASE i \in 1 .. k
      <4>1. t[i] \in B \ {t[j]}
        BY <2>1, <3>2
      <4> QED BY <2>1, <2>5, <3>2, <4>1
    <3> QED BY <2>1, <3>1, <3>2
  <2>8. f[j].error = g.error
    BY <2>1, <2>2 DEF Touches
  <2>9. P(j)
    BY <2>3, <2>6, <2>7, <2>8
  <2> QED BY <2>9 DEF j
<1> HIDE DEF S
<1>3. Nat \subseteq S
  BY <1>1, <1>2, Induction
<1>4. \A k \in 0 .. n : P(k)
  <2>1. \A k \in 0 .. n : k \in Nat /\ k <= n
    OBVIOUS
  <2> HIDE DEF P
  <2> QED BY <2>1, <1>3 DEF S
<1>5. P(n)
  BY <1>4
<1>6. ASSUME NEW i \in 1 .. n
      PROVE  Kin(g, f[i - 1]) /\ f[i - 1].stmts[t[i]] = g.stmts[t[i]]
  <2>1. i - 1 \in 0 .. n /\ \A j \in 1 .. i - 1 : j \in 1 .. n /\ j # i
    OBVIOUS
  <2>2. P(i - 1)
    BY <1>4, <2>1
  <2>3. t[i] \in B /\ \A j \in 1 .. i - 1 : t[i] # t[j]
    BY <2>1
  <2> QED BY <2>2, <2>3
<1> QED BY <1>5, <1>6

\* The group that is merged has a complete code.
LEMMA GatherSpoken ==
  ASSUME NEW g, Spoken(g), NEW k, Kin(g, k), NEW h, NEW s, NEW x,
         Contracted(k, h, s, x), Gathered(k, h, s, x), Parted(x), Sane(g),
         \A b \in Blocs(g) : b \notin ToSet(s) => k.stmts[b] = g.stmts[b],
         Formed(FlattenSeq([i \in DOMAIN s |-> k.stmts[s[i]]]))
  PROVE  Spoken(h)
<1>1. Blocs(k) = Blocs(g) /\ k.exits = g.exits
  BY KinSame
<1>2. h.exits[s[1]] = x /\ Formed(h.stmts[s[1]])
  BY DEF Gathered
<1>3. \A b \in Blocs(g) : b \notin ToSet(s) => h.exits[b] = g.exits[b] /\ h.stmts[b] = g.stmts[b]
  BY <1>1 DEF Gathered
<1>4. \A b \in Blocs(h) : b \in Blocs(g) /\ (b = s[1] \/ b \notin ToSet(s))
  BY <1>1 DEF Contracted
<1>5. ASSUME NEW b \in Blocs(h) PROVE Formed(h.stmts[b]) /\ Parted(h.exits[b])
  <2>1. CASE b = s[1]
    BY <2>1, <1>2
  <2>2. CASE b \in Blocs(g) /\ b \notin ToSet(s)
    BY <2>2, <1>3 DEF Spoken
  <2> QED BY <2>1, <2>2, <1>4
<1> QED BY <1>5 DEF Spoken

\* The codes of a group.
LEMMA CodesOf ==
  ASSUME NEW B, NEW s \in Seq(B), NEW f, NEW q, q = [i \in DOMAIN s |-> f[s[i]]]
  PROVE  Len(q) = Len(s) /\ Len(s) \in Nat /\ \A i \in 1 .. Len(s) : q[i] = f[s[i]]
<1> DEFINE n == Len(s)   V == {f[s[i]] : i \in 1 .. Len(s)}
<1>1. DOMAIN s = 1 .. n /\ n \in Nat
  OBVIOUS
<1>2. q \in [1 .. n -> V]
  BY <1>1
<1>3. \A i \in 1 .. n : q[i] = f[s[i]]
  BY <1>1
<1> HIDE DEF n, V
<1>4. Len(q) = n
  BY <1>1, <1>2
<1> QED BY <1>1, <1>3, <1>4 DEF n

\* A sequence of blocs.
LEMMA SequenceSpoken ==
  ASSUME NEW g, Sane(g), Rooted(g), Spoken(g), NEW p, NEW m, Grouped(g, p, m), Parted(m.exits)
  PROVE  Spoken(MergeSubgraph(g, m))
<1> DEFINE s == m.blocs   x == m.exits   h == MergeSubgraph(g, m)   n == Len(s)
           q == [i \in DOMAIN s |-> g.stmts[s[i]]]
<1>1. Mergeable(g, s, x)
  BY GroupedMergeable
<1>2. Contracted(g, h, s, x) /\ Gathered(g, h, s, x)
  BY <1>1, MergeFacts
<1>3. s \in Seq(Blocs(g)) /\ s # <<>>
  BY DEF Grouped
<1>4. Len(q) = n /\ n \in Nat /\ (\A i \in 1 .. n : q[i] = g.stmts[s[i]] /\ s[i] \in Blocs(g)) /\ 1 \in 1 .. n
  <2> DEFINE f == g.stmts
  <2>0. q = [i \in DOMAIN s |-> f[s[i]]]
    OBVIOUS
  <2> HIDE DEF s, f, q
  <2>1. Len(q) = Len(s) /\ Len(s) \in Nat /\ \A i \in 1 .. Len(s) : q[i] = f[s[i]]
    BY <1>3, <2>0, CodesOf
  <2> QED BY <1>3, <2>1, ItemFacts DEF f
<1>5. Kin(g, g)
  BY KinItself DEF Sane, Pooled
<1>6. Formed(FlattenSeq(q))
  <2> HIDE DEF q, n
  <2>1. \A i \in 1 .. n : Formed(q[i])
    BY <1>4 DEF Spoken
  <2> DEFINE hm == [i \in Nat |-> 0]   l == [i \in Nat |-> FALSE]
  <2>2. \A i \in 1 .. n : hm[i] = 0 /\ l[i] = FALSE
    BY <1>4
  <2>3. n \in 1 .. n /\ \A i \in 1 .. n - 1 : i \in 1 .. n /\ i + 1 \in 1 .. n
    BY <1>4
  <2> HIDE DEF hm, l
  <2>4. Kept(q[1], hm[1], l[1])
    BY <1>4, <2>1, <2>2, FormedKept
  <2>5. ASSUME NEW i \in 1 .. n - 1, NEW u, Kept(u, hm[i], l[i]) PROVE Kept(u \o q[i + 1], hm[i + 1], l[i + 1])
    <3>1. Formed(q[i + 1]) /\ Kept(u, 0, FALSE)
      BY <2>1, <2>2, <2>3, <2>5
    <3>2. Kept(u \o q[i + 1], 0, FALSE)
      BY <3>1, KeptFormed
    <3> QED BY <2>2, <2>3, <3>2
  <2>6. Len(q) = n /\ n >= 1 /\ n \in Nat
    BY <1>4
  <2>7. Kept(FlattenSeq(q), hm[n], l[n])
    BY <2>4, <2>5, <2>6, KeptFlatten
  <2> QED BY <2>2, <2>3, <2>7, FormedKept
<1>7. Formed(FlattenSeq([i \in DOMAIN s |-> g.stmts[s[i]]]))
  BY <1>6
<1> HIDE DEF s, x, h
<1>8. Parted(x)
  BY DEF x
<1> QED BY <1>2, <1>5, <1>7, <1>8, GatherSpoken DEF h

\* What closes the forms with a test.
Closers(c, n) == /\ n \in Nat /\ n >= 1 /\ Len(c) = n
                 /\ c[n] = <<"}">> /\ \A i \in 1 .. n - 1 : c[i] = <<"else">>

\* The codes e of the blocs of such a form become q.
Testing(q, e, c, n, r) ==
  /\ Len(q) = n + 1 /\ \A i \in 1 .. n + 1 : Formed(e[i])
  /\ q[1] = Append(e[1], <<"if", r>>) /\ \A i \in 1 .. n : q[i + 1] = Append(e[i + 1], c[i])

\* The codes of such a form, in order, are a complete code.
LEMMA IfCode ==
  ASSUME NEW n, NEW c, Closers(c, n), NEW r, NEW q, NEW e, Testing(q, e, c, n, r)
  PROVE  Formed(FlattenSeq(q))
<1>0. /\ Len(q) = n + 1 /\ (\A i \in 1 .. n + 1 : Formed(e[i]))
      /\ q[1] = Append(e[1], <<"if", r>>) /\ \A i \in 1 .. n : q[i + 1] = Append(e[i + 1], c[i])
  BY DEF Testing
<1>1. n \in Nat /\ n >= 1 /\ Len(q) = n + 1 /\ n + 1 \in Nat /\ n + 1 >= 1 /\ 1 \in 1 .. n + 1 /\ n + 1 \in 1 .. n + 1
  <2>1. n \in Nat /\ n >= 1
    BY DEF Closers
  <2>2. Len(q) = n + 1
    BY <1>0
  <2> QED BY <2>1, <2>2
<1> DEFINE hm == [i \in Nat |-> IF i <= n THEN 1 ELSE 0]   l == [i \in Nat |-> FALSE]
<1>2. /\ \A i \in 1 .. n : hm[i] = 1 /\ l[i] = FALSE
      /\ \A i \in 1 .. n - 1 : hm[i + 1] = 1 /\ l[i + 1] = FALSE
      /\ hm[n + 1] = 0 /\ l[n + 1] = FALSE
  BY <1>1
<1> HIDE DEF hm, l
<1>3. Kept(q[1], hm[1], l[1])
  <2> DEFINE x == <<"if", r>>   a == Append(e[1], x)   o == <<>>
  <2>1. Rise(x) = 1 /\ Fall(x) = 0 /\ ~ Jumps(x)
    BY TokenFacts
  <2> HIDE DEF x
  <2>2. Formed(e[1]) /\ Kept(o, 0, FALSE)
    BY <1>0, <1>1, KeptNothing
  <2> HIDE DEF o
  <2>3. Kept(o \o a, 0 + Rise(x) - Fall(x), FALSE)
    <3>1. 0 >= Fall(x)
      BY <2>1
    <3> QED BY <2>1, <2>2, <3>1, KeptPiece
  <2>4. 0 + Rise(x) - Fall(x) = 1
    BY <2>1
  <2>5. o \o a = a
    <3>1. IsCode(e[1])
      BY <2>2, FormedKept
    <3>2. IsCode(a)
      BY <3>1, AppendFacts
    <3> HIDE DEF a
    <3> QED BY <3>2, JoinThree DEF o
  <2>6. q[1] = a /\ hm[1] = 1 /\ l[1] = FALSE
    BY <1>0, <1>1, <1>2 DEF x
  <2> HIDE DEF a
  <2> QED BY <2>3, <2>4, <2>5, <2>6
<1>4. ASSUME NEW i \in 1 .. n, NEW u, Kept(u, hm[i], l[i]) PROVE Kept(u \o q[i + 1], hm[i + 1], l[i + 1])
  <2> DEFINE x == c[i]   t == e[i + 1]
  <2>1. i + 1 \in 1 .. n + 1
    BY <1>1
  <2>2. Formed(t) /\ q[i + 1] = Append(t, x) /\ Kept(u, 1, FALSE)
    BY <1>0, <1>2, <1>4, <2>1
  <2>3. i \in 1 .. n - 1 \/ i = n
    BY <1>1
  <2>4. Fall(x) = 1 /\ ~ Jumps(x) /\ Rise(x) = hm[i + 1] /\ hm[i + 1] \in {0, 1} /\ l[i + 1] = FALSE
    <3>1. CASE i \in 1 .. n - 1
      <4>1. x = <<"else">>
        BY <3>1 DEF Closers
      <4> QED BY <1>2, <3>1, <4>1, TokenFacts
    <3>2. CASE i = n
      <4>1. x = <<"}">>
        BY <3>2 DEF Closers
      <4> QED BY <1>2, <3>2, <4>1, TokenFacts
    <3> QED BY <2>3, <3>1, <3>2
  <2> HIDE DEF x, t
  <2>5. Kept(u \o Append(t, x), 1 + Rise(x) - Fall(x), FALSE)
    <3>1. 1 >= Fall(x)
      BY <2>4
    <3> QED BY <2>2, <2>4, <3>1, KeptPiece
  <2>6. 1 + Rise(x) - Fall(x) = hm[i + 1]
    BY <2>4
  <2> QED BY <2>2, <2>4, <2>5, <2>6
<1>5. Kept(FlattenSeq(q), hm[n + 1], l[n + 1])
  <2> DEFINE k == n + 1
  <2>1. \A i \in 1 .. k - 1 : i \in 1 .. n
    BY <1>1
  <2>2. \A i \in 1 .. k - 1 : \A u : Kept(u, hm[i], l[i]) => Kept(u \o q[i + 1], hm[i + 1], l[i + 1])
    BY <1>4, <2>1
  <2>3. k \in Nat /\ Len(q) = k /\ k >= 1
    BY <1>1
  <2> HIDE DEF k
  <2>4. Kept(FlattenSeq(q), hm[k], l[k])
    BY <1>3, <2>2, <2>3, KeptFlatten
  <2> QED BY <2>4 DEF k
<1> QED BY <1>2, <1>5, FormedKept

\* A form with a test.
LEMMA IfSpoken ==
  ASSUME NEW g, Sane(g), Rooted(g), Spoken(g), NEW p, NEW m, Grouped(g, p, m), Parted(m.exits),
         NEW n, NEW closers, Closers(closers, n), Len(m.blocs) = n + 1
  PROVE  Spoken(MergeIf(g, m, closers))
<1> DEFINE s == m.blocs   x == m.exits   head == s[1]
           r == Which(g.exits[head], s[2])
           tk == <<"if", r>>
           test == TestLcc(g, head, tk)
           f == Closed(test, m, closers)
           k == f[n]
           h == MergeSubgraph(k, m)
           t == [i \in 1 .. n |-> s[i + 1]]
           q == [i \in DOMAIN s |-> k.stmts[s[i]]]
<1>0. n \in Nat /\ n >= 1 /\ Len(closers) = n
  <2>1. n \in Nat /\ n >= 1
    BY DEF Closers
  <2>2. Len(closers) = n
    BY DEF Closers
  <2> QED BY <2>1, <2>2
<1>1. MergeIf(g, m, closers) = h
  <2> DEFINE z == Len(closers)
  <2>1. MergeIf(g, m, closers) = MergeSubgraph(f[z], m)
    BY Zenon DEF MergeIf, Closed
  <2>2. z = n
    BY <1>0
  <2> HIDE DEF z, f
  <2> QED BY <2>1, <2>2
<1>2. /\ s \in Seq(Blocs(g)) /\ Len(s) = n + 1 /\ s # <<>> /\ IsInjective(s)
      /\ \A i \in 1 .. n + 1 : s[i] \in Blocs(g) /\ s[i] \in ToSet(s)
      /\ \A i, j \in 1 .. n + 1 : s[i] = s[j] => i = j
      /\ \A b \in ToSet(s) : \E i \in 1 .. n + 1 : s[i] = b
  <2>1. s \in Seq(Blocs(g)) /\ s # <<>> /\ IsInjective(s) /\ Len(s) = n + 1
    BY DEF Grouped
  <2> DEFINE B == Blocs(g)
  <2> HIDE DEF s, B
  <2>2. /\ \A i \in 1 .. Len(s) : s[i] \in B /\ s[i] \in ToSet(s)
        /\ \A i, j \in 1 .. Len(s) : s[i] = s[j] => i = j
        /\ \A b \in ToSet(s) : \E i \in 1 .. Len(s) : s[i] = b
    BY <2>1, ItemFacts DEF B
  <2> QED BY <2>1, <2>2 DEF B
<1>3. head \in Blocs(g) /\ 1 \in 1 .. n + 1
  <2>1. 1 \in 1 .. n + 1
    BY <1>0
  <2> QED BY <1>2, <2>1
<1> HIDE DEF r, tk
<1>4. Says(g, test, head, Append(g.stmts[head], tk))
  <2> HIDE DEF head
  <2> QED BY <1>3, TestSays
<1> HIDE DEF test
<1>5. Sane(test) /\ Blocs(test) = Blocs(g) /\ Kin(g, test)
  BY <1>4, KinSame DEF Says
<1>6. f[0] = test /\ \A i \in 1 .. n : f[i] = AppendStmt(f[i - 1], s[i + 1], closers[i])
  <2> DEFINE z == Len(closers)
  <2>1. z \in Nat /\ z = n
    BY <1>0
  <2>2. f[0] = test /\ \A i \in 1 .. z : f[i] = ClosedAt(test, m, closers, i, f[i - 1])
    BY <2>1, ClosedRec
  <2> HIDE DEF f, z
  <2>3. ASSUME NEW i \in 1 .. n PROVE f[i] = AppendStmt(f[i - 1], s[i + 1], closers[i])
    <3>1. i # 0 /\ i \in 1 .. z
      BY <2>1
    <3> QED BY <2>2, <3>1 DEF ClosedAt
  <2> QED BY <2>2, <2>3
<1> HIDE DEF f
<1>7. ASSUME NEW i \in 1 .. n, Kin(test, f[i - 1])
      PROVE  /\ Touches(f[i - 1], f[i], t[i])
             /\ f[i].stmts[t[i]] = Append(f[i - 1].stmts[t[i]], closers[i])
  <2> DEFINE d == f[i - 1]   b == t[i]   c == closers[i]
  <2>1. f[i] = AppendStmt(d, b, c)
    BY <1>6
  <2>2. Sane(d) /\ Blocs(d) = Blocs(g)
    BY <1>5, <1>7, KinSame
  <2>3. b \in Blocs(d)
    <3>1. i + 1 \in 1 .. n + 1
      BY <1>0
    <3> HIDE DEF d
    <3> QED BY <1>2, <2>2, <3>1
  <2> HIDE DEF b, c, d
  <2>4. Says(d, f[i], b, Append(d.stmts[b], c))
    BY <2>1, <2>2, <2>3, AppendSays
  <2>5. Touches(d, f[i], b) /\ f[i].stmts[b] = Append(d.stmts[b], c)
    BY <2>4 DEF Says, Touches
  <2> QED BY <2>5 DEF b, c, d
<1>8. /\ \A i \in 1 .. n : t[i] \in Blocs(test) /\ t[i] = s[i + 1] /\ t[i] # head
      /\ \A i, j \in 1 .. n : t[i] = t[j] => i = j
  <2>1. \A i \in 1 .. n : i + 1 \in 1 .. n + 1 /\ i + 1 # 1
    BY <1>0
  <2>2. \A i \in 1 .. n : t[i] = s[i + 1]
    OBVIOUS
  <2> HIDE DEF t
  <2>3. \A i \in 1 .. n : t[i] \in Blocs(test) /\ t[i] # head
    BY <1>2, <1>3, <1>5, <2>1, <2>2
  <2>4. ASSUME NEW i \in 1 .. n, NEW j \in 1 .. n, t[i] = t[j] PROVE i = j
    <3>1. i + 1 = j + 1
      BY <1>2, <2>1, <2>2, <2>4
    <3> QED BY <3>1
  <2> QED BY <2>2, <2>3, <2>4
<1> HIDE DEF t
<1>9. /\ Kin(test, k) /\ k.error = test.error
      /\ \A i \in 1 .. n : Kin(test, f[i - 1]) /\ f[i - 1].stmts[t[i]] = test.stmts[t[i]]
                           /\ k.stmts[t[i]] = f[i].stmts[t[i]]
      /\ \A c \in Blocs(test) : (\A i \in 1 .. n : c # t[i]) => k.stmts[c] = test.stmts[c]
  BY <1>0, <1>5, <1>6, <1>7, <1>8, TouchAll
<1> HIDE DEF k
<1>10. k.stmts[s[1]] = Append(g.stmts[s[1]], tk)
  <2>1. \A i \in 1 .. n : head # t[i]
    BY <1>8
  <2>2. k.stmts[head] = test.stmts[head]
    BY <1>3, <1>5, <1>9, <2>1
  <2> QED BY <1>4, <2>2 DEF Says
<1>11. ASSUME NEW i \in 1 .. n PROVE k.stmts[s[i + 1]] = Append(g.stmts[s[i + 1]], closers[i])
  <2>1. k.stmts[t[i]] = Append(test.stmts[t[i]], closers[i])
    BY <1>7, <1>9
  <2>2. test.stmts[t[i]] = g.stmts[t[i]]
    <3>1. t[i] \in Blocs(g) \ {head}
      BY <1>5, <1>8
    <3> QED BY <1>4, <3>1 DEF Says
  <2> QED BY <1>8, <2>1, <2>2
<1>12. Formed(FlattenSeq(q))
  <2> DEFINE e == [i \in 1 .. n + 1 |-> g.stmts[s[i]]]   F == k.stmts
  <2>0. q = [i \in DOMAIN s |-> F[s[i]]]
    OBVIOUS
  <2>1. Len(q) = n + 1 /\ \A i \in 1 .. n + 1 : q[i] = k.stmts[s[i]]
    <3> HIDE DEF q, F, s
    <3>1. Len(q) = Len(s) /\ \A i \in 1 .. Len(s) : q[i] = F[s[i]]
      BY <1>2, <2>0, CodesOf
    <3> QED BY <1>2, <3>1 DEF F
  <2>2. \A i \in 1 .. n + 1 : e[i] = g.stmts[s[i]]
    OBVIOUS
  <2> HIDE DEF e, q, F
  <2>3. \A i \in 1 .. n + 1 : Formed(e[i])
    BY <1>2, <2>2 DEF Spoken
  <2>4. q[1] = Append(e[1], <<"if", r>>)
    BY <1>3, <1>10, <2>1, <2>2 DEF tk
  <2>5. \A i \in 1 .. n : q[i + 1] = Append(e[i + 1], closers[i])
    <3>1. \A i \in 1 .. n : i + 1 \in 1 .. n + 1
      BY <1>0
    <3> QED BY <1>11, <2>1, <2>2, <3>1
  <2>6. Testing(q, e, closers, n, r)
    BY <2>1, <2>3, <2>4, <2>5 DEF Testing
  <2> HIDE DEF s, x, head, h
  <2> QED BY <2>6, IfCode
<1>13. Kin(g, k)
  BY <1>5, <1>9, KinTrans
<1>14. /\ Sane(k) /\ Rooted(k) /\ Mergeable(k, s, x)
  <2>1. Mergeable(g, s, x)
    BY GroupedMergeable
  <2> HIDE DEF s, x
  <2> QED BY <1>13, <2>1, KinSane
<1>15. Contracted(k, h, s, x) /\ Gathered(k, h, s, x)
  BY <1>14, MergeFacts
<1>16. \A b \in Blocs(g) : b \notin ToSet(s) => k.stmts[b] = g.stmts[b]
  <2>1. SUFFICES ASSUME NEW b \in Blocs(g), b \notin ToSet(s) PROVE k.stmts[b] = g.stmts[b]
    OBVIOUS
  <2>2. b # head /\ \A i \in 1 .. n : b # t[i]
    <3>1. \A i \in 1 .. n : i + 1 \in 1 .. n + 1
      BY <1>0
    <3> QED BY <1>2, <1>3, <1>8, <2>1, <3>1
  <2>3. k.stmts[b] = test.stmts[b]
    BY <1>5, <1>9, <2>2
  <2> QED BY <1>4, <2>2, <2>3 DEF Says
<1>17. Formed(FlattenSeq([i \in DOMAIN s |-> k.stmts[s[i]]])) /\ Parted(x)
  BY <1>12
<1> HIDE DEF s, x, h, q
<1>18. Spoken(h)
  BY <1>13, <1>15, <1>16, <1>17, GatherSpoken
<1> QED BY <1>1, <1>18

-----------------------------------------------------------------------------
(* The stack of what remains to be closed in a loop.                       *)

\* The k items of y are to be emitted from the last one on; when it is the
\* turn of item j, n[j] blocks are open.
Stacked(y, k, n) ==
  /\ IsCode(y) /\ k \in Nat /\ Len(y) = k
  /\ \A j \in 1 .. k : n[j] \in Nat
  /\ k >= 1 => Closing(y[1], n[1], FALSE)
  /\ \A j \in 2 .. k : n[j - 1] >= 2 /\ \E c \in Nat : Closing(y[j], c, TRUE) /\ n[j] = n[j - 1] + c - 1

\* The code v of the first blocs of a loop, with the stack y of k items left.
Looked(v, y, k) ==
  IF k = 0 THEN IsCode(y) /\ Len(y) = 0 /\ Kept(v, 0, FALSE)
  ELSE \E n : Stacked(y, k, n) /\ Kept(v, n[k], TRUE)

\* The stack without its top.
LEMMA FrontFacts ==
  ASSUME NEW y, IsCode(y), NEW k \in Nat, Len(y) = k, k >= 1
  PROVE  /\ IsCode(Front(y)) /\ Len(Front(y)) = k - 1 /\ \A j \in 1 .. k - 1 : Front(y)[j] = y[j]
         /\ Last(y) = y[k]
<1>1. PICK S : y \in Seq(S)
  BY DEF IsCode
<1>2. Front(y) = SubSeq(y, 1, k - 1) /\ Last(y) = y[k]
  BY DEF Front, Last
<1>3. SubSeq(y, 1, k - 1) \in Seq(S) /\ Len(SubSeq(y, 1, k - 1)) = k - 1
      /\ \A j \in 1 .. k - 1 : SubSeq(y, 1, k - 1)[j] = y[j]
  BY <1>1, SubSeqProperties
<1> QED BY <1>2, <1>3 DEF IsCode

\* An item of the stack is emitted.
LEMMA LookedPop ==
  ASSUME NEW v, NEW y, NEW k \in Nat, k >= 1, Looked(v, y, k)
  PROVE  Looked(v \o Last(y), Front(y), k - 1)
<1>0. k # 0
  OBVIOUS
<1>1. PICK n : Stacked(y, k, n) /\ Kept(v, n[k], TRUE)
  BY <1>0, Zenon DEF Looked
<1> DEFINE z == Front(y)   e == Last(y)
<1>2. IsCode(z) /\ Len(z) = k - 1 /\ (\A j \in 1 .. k - 1 : z[j] = y[j]) /\ e = y[k]
  <2>1. IsCode(y) /\ Len(y) = k
    BY <1>1 DEF Stacked
  <2> QED BY <2>1, FrontFacts
<1> HIDE DEF z, e
<1>3. CASE k = 1
  <2>1. Closing(e, n[1], FALSE) /\ n[1] \in Nat
    <3>1. k >= 1 /\ 1 \in 1 .. k
      OBVIOUS
    <3>2. Closing(y[1], n[1], FALSE)
      BY <1>1, <3>1 DEF Stacked
    <3>3. n[1] \in Nat
      BY <1>1, <3>1 DEF Stacked
    <3> QED BY <1>2, <1>3, <3>2, <3>3
  <2> DEFINE c == n[1]   r == FALSE
  <2>2. Kept(v, c, TRUE) /\ Closing(e, c, r) /\ c \in Nat /\ r \in BOOLEAN /\ ~ r
    BY <1>1, <1>3, <2>1
  <2> HIDE DEF c, r
  <2>3. ~ r => Kept(v \o e, 0, FALSE)
    BY <2>2, KeptClosing
  <2>4. Kept(v \o e, 0, FALSE)
    BY <2>2, <2>3
  <2>5. k - 1 = 0 /\ Len(z) = 0 /\ IsCode(z)
    BY <1>2, <1>3
  <2>6. Looked(v \o e, z, k - 1)
    BY <2>4, <2>5 DEF Looked
  <2> QED BY <2>6 DEF z, e
<1>4. CASE k >= 2
  <2>1. k \in 2 .. k /\ k \in 1 .. k /\ k - 1 \in 1 .. k
    BY <1>4
  <2>2. PICK c \in Nat : Closing(y[k], c, TRUE) /\ n[k] = n[k - 1] + c - 1
    BY <1>1, <2>1 DEF Stacked
  <2>3. n[k - 1] >= 2 /\ n[k - 1] \in Nat /\ n[k] \in Nat
    BY <1>1, <2>1 DEF Stacked
  <2> DEFINE r == TRUE   m == n[k]
  <2>4. Kept(v, m, TRUE) /\ Closing(e, c, r) /\ r \in BOOLEAN /\ r
    BY <1>1, <1>2, <2>2
  <2>5. m >= c + 1 /\ m - c + 1 = n[k - 1]
    BY <2>2, <2>3
  <2> HIDE DEF r, m
  <2>6. r => Kept(v \o e, m - c + 1, TRUE)
    BY <2>4, <2>5, KeptClosing
  <2>7. Kept(v \o e, n[k - 1], TRUE)
    BY <2>4, <2>5, <2>6
  <2>8. Stacked(z, k - 1, n)
    <3>1. k - 1 \in Nat /\ k - 1 >= 1 /\ 1 \in 1 .. k - 1
      BY <1>4
    <3>2. \A j \in 1 .. k - 1 : j \in 1 .. k
      OBVIOUS
    <3>3. \A j \in 2 .. k - 1 : j \in 2 .. k /\ j \in 1 .. k - 1
      OBVIOUS
    <3>4. Closing(z[1], n[1], FALSE)
      <4>1. Closing(y[1], n[1], FALSE)
        BY <1>1 DEF Stacked
      <4> QED BY <1>2, <3>1, <4>1
    <3>5. \A j \in 1 .. k - 1 : n[j] \in Nat
      BY <1>1, <3>2 DEF Stacked
    <3>6. ASSUME NEW j \in 2 .. k - 1
          PROVE  n[j - 1] >= 2 /\ \E d \in Nat : Closing(z[j], d, TRUE) /\ n[j] = n[j - 1] + d - 1
      <4>1. n[j - 1] >= 2 /\ \E d \in Nat : Closing(y[j], d, TRUE) /\ n[j] = n[j - 1] + d - 1
        BY <1>1, <3>3 DEF Stacked
      <4> QED BY <1>2, <3>3, <4>1
    <3> QED BY <1>2, <3>1, <3>4, <3>5, <3>6 DEF Stacked
  <2>9. k - 1 # 0
    BY <1>4
  <2>10. Looked(v \o e, z, k - 1)
    BY <2>7, <2>8, <2>9 DEF Looked
  <2> QED BY <2>10 DEF z, e
<1> QED BY <1>3, <1>4

\* A jump is emitted.
LEMMA LookedStay ==
  ASSUME NEW v, NEW y, NEW k, k >= 1, Looked(v, y, k), k \in Nat, NEW x, Neutral(x)
  PROVE  Looked(Append(v, x), y, k)
<1>0. k # 0
  OBVIOUS
<1>1. PICK n : Stacked(y, k, n) /\ Kept(v, n[k], TRUE)
  BY <1>0, Zenon DEF Looked
<1>2. Append(v, x) = v \o <<x>>
  <2>1. IsCode(v)
    BY <1>1 DEF Kept
  <2> QED BY <2>1, AppendIs
<1>3. Kept(v \o <<x>>, n[k], TRUE)
  BY <1>1, KeptNeutral
<1>4. Kept(Append(v, x), n[k], TRUE)
  BY <1>2, <1>3
<1> QED BY <1>0, <1>1, <1>4 DEF Looked

\* A brace more to close.
LEMMA BraceClosing ==
  ASSUME NEW e, NEW c \in Nat, NEW r \in BOOLEAN, Closing(e, c, r)
  PROVE  Closing(<< <<"}">> >> \o e, c + 1, r)
<1> DEFINE b == << <<"}">> >>   w == b \o e
<1>1. Len(b) = 1 /\ b[1] = <<"}">>
  BY UnitFacts
<1>1a. IsCode(b)
  BY UnitFacts
<1>1b. Len(b) = 1
  BY <1>1
<1> HIDE DEF b
<1>2. c >= 1
  BY DEF Closing
<1>3. IsCode(e) /\ Len(e) = c
  BY DEF Closing
<1>3a. Len(e) = c
  BY <1>3
<1>4. /\ IsCode(w) /\ Len(w) = Len(b) + Len(e)
      /\ \A i \in 1 .. Len(b) : w[i] = b[i]
      /\ \A i \in 1 .. Len(e) : w[Len(b) + i] = e[i]
  <2>1. IsCode(b)
    BY <1>1a
  <2>2. IsCode(e)
    BY <1>3
  <2> QED BY <2>1, <2>2, JoinFacts
<1> HIDE DEF w
<1>5. Len(w) = c + 1 /\ w[1] = b[1] /\ \A i \in 1 .. c : w[i + 1] = e[i]
  <2>2. \A i \in 1 .. c : i \in 1 .. Len(e) /\ Len(b) + i = i + 1
    BY <1>1b, <1>3a
  <2>4. Len(w) = Len(b) + Len(e)
    BY <1>4
  <2>3. Len(w) = c + 1
    BY <1>1b, <1>3a, <2>4
  <2>5. 1 \in 1 .. Len(b)
    BY <1>1b
  <2>6. w[1] = b[1]
    BY <1>4, <2>5
  <2>7. \A i \in 1 .. c : w[i + 1] = e[i]
    BY <1>4, <2>2
  <2> QED BY <2>3, <2>6, <2>7
<1>6. ASSUME NEW i \in 1 .. (c + 1) - 1 PROVE w[i] = <<"}">>
  <2>1. CASE i = 1
    BY <1>1, <1>5, <2>1
  <2>2. CASE i # 1
    <3>1. i - 1 \in 1 .. c - 1 /\ i - 1 \in 1 .. c /\ (i - 1) + 1 = i
      BY <2>2
    <3>2. w[i] = e[i - 1]
      BY <1>5, <3>1
    <3>3. e[i - 1] = <<"}">>
      BY <3>1 DEF Closing
    <3> QED BY <3>2, <3>3
  <2> QED BY <2>1, <2>2
<1>7. w[c + 1] = IF r THEN <<"else">> ELSE <<"}">>
  <2>1. c \in 1 .. c
    BY <1>2
  <2>2. w[c + 1] = e[c]
    BY <1>5, <2>1
  <2>3. e[c] = IF r THEN <<"else">> ELSE <<"}">>
    BY DEF Closing
  <2> QED BY <2>2, <2>3
<1>8. IsCode(w) /\ Len(w) = c + 1 /\ c + 1 >= 1
  BY <1>2, <1>4, <1>5
<1>9. Closing(w, c + 1, r)
  BY <1>6, <1>7, <1>8 DEF Closing
<1> QED BY <1>9 DEF w, b

\* A test is emitted, with two ways to go on in the loop.
LEMMA LookedFork ==
  ASSUME NEW v, NEW y, NEW k \in Nat, k >= 1, Looked(v, y, k), NEW r
  PROVE  Looked(Append(v, <<"if", r>>),
                Append(Append(Front(y), << <<"}">> >> \o Last(y)), << <<"else">> >>), k + 1)
<1>0. k # 0
  OBVIOUS
<1>1. PICK n : Stacked(y, k, n) /\ Kept(v, n[k], TRUE)
  BY <1>0, Zenon DEF Looked
<1> DEFINE x == <<"if", r>>   a == << <<"}">> >> \o Last(y)   b == << <<"else">> >>
           f == Front(y)   fa == Append(f, a)   z == Append(fa, b)
           top == n[k] + 1
           nn == [j \in 1 .. k + 1 |-> IF j >= k THEN top ELSE n[j]]
<1>2. n[k] \in Nat /\ n[k] >= 1
  BY <1>1 DEF Kept
<1>3. Kept(Append(v, x), top, TRUE)
  <2>1. Rise(x) = 1 /\ Fall(x) = 0 /\ ~ Jumps(x)
    BY TokenFacts
  <2>2. Append(v, x) = v \o <<x>>
    <3>1. IsCode(v)
      BY <1>1 DEF Kept
    <3> HIDE DEF x
    <3> QED BY <3>1, AppendIs
  <2> DEFINE m == n[k]   l == TRUE
  <2>3. Kept(v, m, l) /\ (Jumps(x) => l) /\ m >= Fall(x) /\ (l => m >= 1 + Fall(x))
    <3>1. Kept(v, m, l)
      BY <1>1
    <3> HIDE DEF x
    <3>2. Fall(x) = 0 /\ m \in Nat /\ m >= 1
      BY <1>2, <2>1
    <3>3. m >= Fall(x) /\ m >= 1 + Fall(x)
      BY <3>2
    <3> QED BY <2>1, <3>1, <3>3, Zenon
  <2>4. m + Rise(x) - Fall(x) = top
    BY <1>2, <2>1
  <2> HIDE DEF x, m, l, top
  <2>5. Kept(v \o <<x>>, m + Rise(x) - Fall(x), l)
    BY <2>3, KeptToken
  <2> QED BY <2>2, <2>4, <2>5 DEF l
<1>4. IsCode(f) /\ Len(f) = k - 1 /\ (\A j \in 1 .. k - 1 : f[j] = y[j]) /\ Last(y) = y[k]
  <2>1. IsCode(y) /\ Len(y) = k
    BY <1>1 DEF Stacked
  <2> QED BY <2>1, FrontFacts
<1> HIDE DEF f
<1>5. /\ IsCode(z) /\ Len(z) = k + 1 /\ z[k] = a /\ z[k + 1] = b
      /\ \A j \in 1 .. k - 1 : z[j] = y[j]
  <2> HIDE DEF a, b
  <2>1. IsCode(f)
    BY <1>4
  <2>2. /\ IsCode(fa) /\ Len(fa) = Len(f) + 1 /\ fa[Len(f) + 1] = a
        /\ \A j \in 1 .. Len(f) : fa[j] = f[j]
    BY <2>1, AppendFacts
  <2> HIDE DEF fa
  <2>3. IsCode(fa)
    BY <2>2
  <2>4. /\ IsCode(z) /\ Len(z) = Len(fa) + 1 /\ z[Len(fa) + 1] = b
        /\ \A j \in 1 .. Len(fa) : z[j] = fa[j]
    BY <2>3, AppendFacts
  <2> HIDE DEF z
  <2>5. Len(fa) = k /\ Len(f) + 1 = k
    BY <1>4, <2>2
  <2>6. k \in 1 .. k /\ \A j \in 1 .. k - 1 : j \in 1 .. k
    OBVIOUS
  <2>7. z[k] = a
    BY <2>2, <2>4, <2>5, <2>6
  <2>8. \A j \in 1 .. k - 1 : z[j] = y[j]
    BY <1>4, <2>2, <2>4, <2>5, <2>6
  <2> QED BY <2>4, <2>5, <2>7, <2>8
<1>6. Closing(b, 1, TRUE)
  <2>1. IsCode(b) /\ Len(b) = 1 /\ b[1] = <<"else">>
    BY UnitFacts
  <2> HIDE DEF b
  <2> QED BY <2>1 DEF Closing
<1>7. /\ k = 1 => Closing(a, top, FALSE)
      /\ k >= 2 => n[k - 1] >= 2 /\ \E c \in Nat : Closing(a, c, TRUE) /\ top = n[k - 1] + c - 1
  <2>1. CASE k = 1
    <3>0. Closing(y[1], n[1], FALSE)
      BY <1>1 DEF Stacked
    <3>1. Closing(y[1], n[1], FALSE) /\ y[1] = Last(y) /\ n[1] = n[k]
      BY <1>4, <2>1, <3>0
    <3> DEFINE c == n[k]   rr == FALSE   e == Last(y)
    <3>2. Closing(e, c, rr) /\ c \in Nat /\ rr \in BOOLEAN
      BY <1>2, <2>1, <3>1
    <3> HIDE DEF rr, c, e
    <3>3. Closing(<< <<"}">> >> \o e, c + 1, rr)
      BY <3>2, BraceClosing
    <3>4. Closing(a, top, FALSE)
      BY <3>3 DEF rr, c, e
    <3> HIDE DEF a, top
    <3>5. ~ k >= 2
      BY <2>1
    <3> QED BY <3>4, <3>5, Zenon
  <2>2. CASE k >= 2
    <3>1. k \in 2 .. k /\ k - 1 \in 1 .. k
      BY <2>2
    <3>2. PICK c \in Nat : Closing(y[k], c, TRUE) /\ n[k] = n[k - 1] + c - 1
      BY <1>1, <3>1 DEF Stacked
    <3>3. n[k - 1] >= 2 /\ n[k - 1] \in Nat
      BY <1>1, <3>1 DEF Stacked
    <3> DEFINE rr == TRUE   e == Last(y)
    <3>4. Closing(e, c, rr) /\ rr \in BOOLEAN
      BY <1>4, <3>2
    <3> HIDE DEF rr, e
    <3>5. Closing(<< <<"}">> >> \o e, c + 1, rr)
      BY <3>4, BraceClosing
    <3>6. Closing(a, c + 1, TRUE)
      BY <3>5 DEF rr, e
    <3> HIDE DEF a
    <3>7. c + 1 \in Nat /\ top = n[k - 1] + (c + 1) - 1
      BY <3>2, <3>3
    <3> DEFINE d == c + 1
    <3> HIDE DEF top, d
    <3>8. d \in Nat /\ Closing(a, d, TRUE) /\ top = n[k - 1] + d - 1
      BY <3>6, <3>7 DEF d
    <3>9. ~ k = 1
      BY <2>2
    <3>10. \E i \in Nat : Closing(a, i, TRUE) /\ top = n[k - 1] + i - 1
      BY <3>8
    <3> QED BY <3>3, <3>9, <3>10, Zenon
  <2> QED BY <2>1, <2>2
<1> HIDE DEF a, b, z
<1>8. /\ \A j \in 1 .. k - 1 : nn[j] = n[j]
      /\ nn[k] = top /\ nn[k + 1] = top /\ top \in Nat /\ top >= 2
  BY <1>2
<1> HIDE DEF nn, top
<1>9. Stacked(z, k + 1, nn)
  <2>1. k + 1 \in Nat
    OBVIOUS
  <2>2. \A j \in 1 .. k + 1 : j \in 1 .. k - 1 \/ j = k \/ j = k + 1
    OBVIOUS
  <2>3. ASSUME NEW j \in 1 .. k + 1 PROVE nn[j] \in Nat
    <3>1. CASE j \in 1 .. k - 1
      <4>1. j \in 1 .. k
        BY <3>1
      <4>2. n[j] \in Nat
        BY <1>1, <4>1 DEF Stacked
      <4> QED BY <1>8, <3>1, <4>2
    <3>2. CASE j = k \/ j = k + 1
      BY <1>8, <3>2
    <3> QED BY <2>2, <3>1, <3>2
  <2>4. Closing(z[1], nn[1], FALSE)
    <3>1. CASE k = 1
      <4>1. z[1] = a /\ nn[1] = top
        BY <1>5, <1>8, <3>1
      <4> QED BY <1>7, <3>1, <4>1
    <3>2. CASE k >= 2
      <4>1. 1 \in 1 .. k - 1
        BY <3>2
      <4>2. z[1] = y[1] /\ nn[1] = n[1]
        BY <1>5, <1>8, <4>1
      <4>3. Closing(y[1], n[1], FALSE)
        BY <1>1 DEF Stacked
      <4> QED BY <4>2, <4>3
    <3>3. k = 1 \/ k >= 2
      OBVIOUS
    <3> QED BY <3>1, <3>2, <3>3
  <2>5. ASSUME NEW j \in 2 .. k + 1
        PROVE  nn[j - 1] >= 2 /\ \E c \in Nat : Closing(z[j], c, TRUE) /\ nn[j] = nn[j - 1] + c - 1
    <3>1. CASE j = k + 1
      <4>1. j - 1 = k /\ top = top + 1 - 1 /\ 1 \in Nat
        BY <1>8, <3>1
      <4>2. Closing(z[j], 1, TRUE) /\ nn[j] = top /\ nn[j - 1] = top
        BY <1>5, <1>6, <1>8, <3>1, <4>1
      <4> QED BY <1>8, <4>1, <4>2
    <3>2. CASE j = k
      <4>1. k >= 2 /\ j - 1 \in 1 .. k - 1
        BY <3>2
      <4>2. nn[j - 1] = n[k - 1] /\ nn[j] = top /\ z[j] = a
        BY <1>5, <1>8, <3>2, <4>1
      <4> QED BY <1>7, <4>1, <4>2
    <3>3. CASE j \in 2 .. k - 1
      <4>1. j \in 2 .. k /\ j \in 1 .. k - 1 /\ j - 1 \in 1 .. k - 1
        BY <3>3
      <4>2. n[j - 1] >= 2 /\ \E c \in Nat : Closing(y[j], c, TRUE) /\ n[j] = n[j - 1] + c - 1
        BY <1>1, <4>1 DEF Stacked
      <4>3. z[j] = y[j] /\ nn[j] = n[j] /\ nn[j - 1] = n[j - 1]
        BY <1>5, <1>8, <4>1
      <4> QED BY <4>2, <4>3
    <3>4. j = k + 1 \/ j = k \/ j \in 2 .. k - 1
      OBVIOUS
    <3> QED BY <3>1, <3>2, <3>3, <3>4
  <2>6. IsCode(z) /\ Len(z) = k + 1
    BY <1>5
  <2> QED BY <2>1, <2>3, <2>4, <2>5, <2>6 DEF Stacked
<1> HIDE DEF x
<1>10. k + 1 # 0 /\ Kept(Append(v, x), nn[k + 1], TRUE)
  <2>1. k + 1 # 0
    OBVIOUS
  <2>2. nn[k + 1] = top
    BY <1>8
  <2> QED BY <1>3, <2>1, <2>2, Zenon
<1>11. Looked(Append(v, x), z, k + 1)
  BY <1>9, <1>10 DEF Looked
<1> QED BY <1>11 DEF x, z, a, b, f

\* The set D has j elements.
Sized(D, j) == \/ j = 0 /\ D = {}
               \/ j = 1 /\ \E c : D = {c}
               \/ j = 2 /\ \E c, d : c # d /\ D = {c, d}

\* Code e is t, then jumps.
Jumped(t, e) == \/ e = t
                \/ \E x : Neutral(x) /\ e = Append(t, x)
                \/ \E x, x2 : Neutral(x) /\ Neutral(x2) /\ e = Append(Append(t, x), x2)

\* Code t of a bloc of a loop, that goes on in the loop in j ways, becomes w, and the
\* stack y becomes z.
Goes(t, w, y, z, j) ==
  \/ j = 0 /\ z = Front(y) /\ \E e : Jumped(t, e) /\ w = e \o Last(y)
  \/ j = 1 /\ z = y /\ \E x : Neutral(x) /\ w = Append(t, x)
  \/ j = 2 /\ \E r : w = Append(t, <<"if", r>>)
                     /\ z = Append(Append(Front(y), << <<"}">> >> \o Last(y)), << <<"else">> >>)

\* A token is added to the last of the codes.
LEMMA JoinAppend ==
  ASSUME NEW u, IsCode(u), NEW t, IsCode(t), NEW x
  PROVE  u \o Append(t, x) = Append(u \o t, x) /\ IsCode(Append(t, x)) /\ IsCode(u \o t)
<1> DEFINE e == <<x>>
<1>1. Append(t, x) = t \o e /\ IsCode(e)
  BY AppendIs, UnitFacts
<1>2. IsCode(u \o t)
  BY JoinFacts
<1>3. Append(u \o t, x) = (u \o t) \o e
  BY <1>2, AppendIs
<1>4. IsCode(Append(t, x))
  BY AppendFacts
<1> HIDE DEF e
<1>5. IsCode(e)
  BY <1>1
<1>6. (u \o t) \o e = u \o (t \o e)
  BY <1>5, JoinThree
<1> QED BY <1>1, <1>2, <1>3, <1>4, <1>6

\* A jump at the end of the last bloc leaves the stack as it is.
LEMMA LookedJump ==
  ASSUME NEW u, IsCode(u), NEW t, IsCode(t), NEW y, NEW k \in Nat, k >= 1, Looked(u \o t, y, k),
         NEW x, Neutral(x)
  PROVE  Looked(u \o Append(t, x), y, k) /\ IsCode(Append(t, x))
<1> DEFINE v == u \o t   w == u \o Append(t, x)
<1>1. w = Append(v, x) /\ IsCode(Append(t, x))
  BY JoinAppend
<1> HIDE DEF v, w
<1>2. Looked(v, y, k)
  BY DEF v
<1>3. Looked(Append(v, x), y, k)
  BY <1>2, LookedStay
<1>4. Looked(w, y, k)
  BY <1>1, <1>3
<1> QED BY <1>1, <1>4 DEF w

\* The stack after a bloc of the loop.
LEMMA GoesLooked ==
  ASSUME NEW u, IsCode(u), NEW t, IsCode(t), NEW y, NEW k \in Nat, k >= 1, Looked(u \o t, y, k),
         NEW w, NEW z, NEW j, Goes(t, w, y, z, j)
  PROVE  Looked(u \o w, z, k - 1 + j) /\ IsCode(w)
<1>1. ASSUME NEW x, Neutral(x) PROVE Looked(u \o Append(t, x), y, k) /\ IsCode(Append(t, x))
  BY <1>1, LookedJump
<1>2. ASSUME NEW e, Jumped(t, e) PROVE Looked(u \o e, y, k) /\ IsCode(e)
  <2>1. CASE e = t
    BY <2>1
  <2>2. CASE \E x : Neutral(x) /\ e = Append(t, x)
    BY <2>2, <1>1
  <2>3. CASE \E x, x2 : Neutral(x) /\ Neutral(x2) /\ e = Append(Append(t, x), x2)
    <3>1. PICK x, x2 : Neutral(x) /\ Neutral(x2) /\ e = Append(Append(t, x), x2)
      BY <2>3
    <3> DEFINE t1 == Append(t, x)
    <3>2. Looked(u \o t1, y, k) /\ IsCode(t1) /\ e = Append(t1, x2)
      BY <1>1, <3>1
    <3> HIDE DEF t1
    <3>3. Neutral(x2) /\ IsCode(t1)
      BY <3>1, <3>2
    <3>4. Looked(u \o Append(t1, x2), y, k) /\ IsCode(Append(t1, x2))
      BY <3>2, <3>3, LookedJump
    <3> QED BY <3>2, <3>4
  <2> QED BY <1>2, <2>1, <2>2, <2>3 DEF Jumped
<1>3. CASE j = 0 /\ z = Front(y) /\ \E e : Jumped(t, e) /\ w = e \o Last(y)
  <2>1. PICK e : Jumped(t, e) /\ w = e \o Last(y)
    BY <1>3
  <2> DEFINE s == Last(y)
  <2>2. Looked(u \o e, y, k) /\ IsCode(e)
    BY <1>2, <2>1
  <2>3. Looked((u \o e) \o s, Front(y), k - 1)
    BY <2>2, LookedPop
  <2>4. IsCode(s)
    <3>0. k # 0
      OBVIOUS
    <3>1. PICK n : Stacked(y, k, n)
      BY <3>0, <2>2 DEF Looked
    <3>2. IsCode(y) /\ Len(y) = k
      BY <3>1 DEF Stacked
    <3>3. s = y[k]
      BY <3>2, FrontFacts
    <3>4. CASE k = 1
      <4>1. Closing(y[1], n[1], FALSE)
        BY <3>1 DEF Stacked
      <4> HIDE DEF s
      <4> QED BY <3>3, <3>4, <4>1 DEF Closing
    <3>5. CASE k # 1
      <4>1. k \in 2 .. k
        BY <3>5
      <4>2. PICK c \in Nat : Closing(y[k], c, TRUE)
        BY <3>1, <4>1 DEF Stacked
      <4> HIDE DEF s
      <4> QED BY <3>3, <4>2 DEF Closing
    <3> QED BY <3>4, <3>5
  <2> HIDE DEF s
  <2>5. (u \o e) \o s = u \o (e \o s) /\ IsCode(e \o s)
    <3>1. IsCode(e)
      BY <2>2
    <3>2. IsCode(e \o s)
      BY <2>4, <3>1, JoinFacts
    <3>3. (u \o e) \o s = u \o (e \o s)
      BY <2>4, <3>1, JoinThree
    <3> QED BY <3>2, <3>3
  <2>6. w = e \o s /\ k - 1 + j = k - 1
    BY <1>3, <2>1 DEF s
  <2> QED BY <1>3, <2>3, <2>5, <2>6
<1>4. CASE j = 1 /\ z = y /\ \E x : Neutral(x) /\ w = Append(t, x)
  <2>1. k - 1 + j = k
    BY <1>4
  <2> QED BY <1>1, <1>4, <2>1
<1>5. CASE j = 2 /\ \E r : w = Append(t, <<"if", r>>)
                     /\ z = Append(Append(Front(y), << <<"}">> >> \o Last(y)), << <<"else">> >>)
  <2>1. PICK r : w = Append(t, <<"if", r>>)
                 /\ z = Append(Append(Front(y), << <<"}">> >> \o Last(y)), << <<"else">> >>)
    BY <1>5
  <2> DEFINE x == <<"if", r>>   zz == Append(Append(Front(y), << <<"}">> >> \o Last(y)), << <<"else">> >>)
  <2>0. k - 1 + j = k + 1
    <3>1. j = 2
      BY <1>5, Zenon
    <3> QED BY <3>1
  <2>2. z = zz /\ w = Append(t, x) /\ k - 1 + j = k + 1
    BY <2>0, <2>1, Zenon
  <2>3. Looked(Append(u \o t, x), zz, k + 1)
    BY LookedFork
  <2> HIDE DEF x, zz
  <2>4. u \o w = Append(u \o t, x) /\ IsCode(w)
    BY <2>2, JoinAppend
  <2> QED BY <2>2, <2>3, <2>4
<1> QED BY <1>3, <1>4, <1>5 DEF Goes

\* The bloc with exits x may leave the loop, for after.
Breaks(x, after) == after # nil /\ Has(x, after)

\* The exits D of a bloc of a loop that stay in the loop, among its exits x.
Stays(x, head, after, D) ==
  /\ x.odd = nil /\ (Breaks(x, after) \/ Has(x, head)) => D = {}
  /\ x.odd # nil /\ Breaks(x, after) /\ Has(x, head) => D = {}
  /\ x.odd # nil /\ Breaks(x, after) /\ ~ Has(x, head) => \E c : D = {c}
  /\ x.odd # nil /\ ~ Breaks(x, after) /\ Has(x, head) => \E c : D = {c}
  /\ x.odd # nil /\ ~ Breaks(x, after) /\ ~ Has(x, head) => \E c, d : c # d /\ D = {c, d}

\* A bloc has as many exits into the loop as the tests of LoopBloc tell.
LEMMA InnerSized ==
  ASSUME NEW x, NEW head, NEW after, head # nil, after # head, x.nat # nil, Parted(x)
  PROVE  Stays(x, head, after, Targets(x) \ {head, after})
<1> DEFINE a == x.nat   b == x.odd
<1>1. a # nil /\ (b # nil => a # b) /\ Targets(x) = {a, b} \ {nil}
      /\ \A c : Has(x, c) <=> c = a \/ c = b
  BY DEF Parted, Targets, Has
<1> HIDE DEF a, b
<1> DEFINE D == Targets(x) \ {head, after}
<1>2. \A c : c \in D <=> (c = a \/ c = b) /\ c # nil /\ c # head /\ c # after
  BY <1>1
<1> HIDE DEF D
<1>3. b = nil /\ ((after # nil /\ Has(x, after)) \/ Has(x, head)) => D = {}
  BY <1>1, <1>2
<1>4. b # nil /\ (after # nil /\ Has(x, after)) /\ Has(x, head) => D = {}
  BY <1>1, <1>2
<1>5. ASSUME b # nil, after # nil /\ Has(x, after), ~ Has(x, head) PROVE \E c : D = {c}
  <2>1. CASE after = a
    <3>1. D = {b}
      BY <1>1, <1>2, <1>5, <2>1
    <3> QED BY <3>1
  <2>2. CASE after = b
    <3>1. D = {a}
      BY <1>1, <1>2, <1>5, <2>2
    <3> QED BY <3>1
  <2> QED BY <1>1, <1>5, <2>1, <2>2
<1>6. ASSUME b # nil, ~ (after # nil /\ Has(x, after)), Has(x, head) PROVE \E c : D = {c}
  <2>1. CASE head = a
    <3>1. D = {b}
      BY <1>1, <1>2, <1>6, <2>1
    <3> QED BY <3>1
  <2>2. CASE head = b
    <3>1. D = {a}
      BY <1>1, <1>2, <1>6, <2>2
    <3> QED BY <3>1
  <2> QED BY <1>1, <1>6, <2>1, <2>2
<1>7. ASSUME b # nil, ~ (after # nil /\ Has(x, after)), ~ Has(x, head)
      PROVE  \E c, d : c # d /\ D = {c, d}
  <2>1. D = {a, b} /\ a # b
    BY <1>1, <1>2, <1>7
  <2> QED BY <2>1
<1>8. Stays(x, head, after, D)
  BY <1>3, <1>4, <1>5, <1>6, <1>7 DEF Stays, Breaks, b
<1> QED BY <1>8 DEF D

\* A bloc of loop m goes on, but the last; the blocks at its end are closed.
GoOn(h, b, i, m) == IF i # Len(m.blocs) THEN AppendStmt(h, b, <<"continue">>) ELSE h

\* The end of bloc b closes the top of stack y.
Shut(h, b, y) == AppendAll(h, b, Last(y))

\* What the turn of bloc b, the i-th of loop m, of exits x, is: r.
Turned(u, y, i, m, after, b, head, x, r) ==
  /\ x.odd = nil /\ Breaks(x, after) =>
       r = Pair(Shut(AppendStmt(u, b, <<"break">>), b, y), Front(y))
  /\ x.odd = nil /\ ~ Breaks(x, after) /\ Has(x, head) =>
       r = Pair(Shut(GoOn(u, b, i, m), b, y), Front(y))
  /\ x.odd # nil /\ Breaks(x, after) /\ Has(x, head) =>
       r = Pair(Shut(GoOn(TestLcc(u, b, <<"ifBreak", Which(x, after)>>), b, i, m), b, y), Front(y))
  /\ x.odd # nil /\ Breaks(x, after) /\ ~ Has(x, head) =>
       r = Pair(TestLcc(u, b, <<"ifBreak", Which(x, after)>>), y)
  /\ x.odd # nil /\ ~ Breaks(x, after) /\ Has(x, head) =>
       r = Pair(TestLcc(u, b, <<"ifContinue", Which(x, head)>>), y)
  /\ x.odd # nil /\ ~ Breaks(x, after) /\ ~ Has(x, head) =>
       r = Pair(TestLcc(u, b, <<"if", Which(x, m.blocs[i + 1])>>),
                Append(Append(Front(y), << <<"}">> >> \o Last(y)), << <<"else">> >>))

\* LoopBloc makes one of these of a bloc.
LEMMA LoopBlocIs ==
  ASSUME NEW u, NEW y, NEW i, NEW m, NEW after
  PROVE  Turned(u, y, i, m, after, m.blocs[i], m.blocs[1], u.exits[m.blocs[i]],
                LoopBloc(Pair(u, y), i, m, after))
<1> DEFINE a == Pair(u, y)   b == m.blocs[i]   head == m.blocs[1]   exits == u.exits[b]
           break == after # nil /\ Has(exits, after)
           continue == Has(exits, head)
           pop == Front(y)
           jump(h) == IF i # Len(m.blocs) THEN AppendStmt(h, b, <<"continue">>) ELSE h
           close(h) == AppendAll(h, b, Last(y))
           r == LoopBloc(a, i, m, after)
<1>1. a.g = u /\ a.issues = y
  BY PairFacts
<1>2. r = CASE exits.odd = nil /\ break -> Pair(close(AppendStmt(u, b, <<"break">>)), pop)
            [] exits.odd = nil /\ ~ break /\ continue -> Pair(close(jump(u)), pop)
            [] exits.odd = nil /\ ~ break /\ ~ continue -> [a EXCEPT !.g.error = Stuck]
            [] exits.odd # nil /\ break ->
                 IF continue
                   THEN Pair(close(jump(TestLcc(u, b, <<"ifBreak", Which(exits, after)>>))), pop)
                   ELSE [a EXCEPT !.g = TestLcc(u, b, <<"ifBreak", Which(exits, after)>>)]
            [] exits.odd # nil /\ ~ break /\ continue ->
                 [a EXCEPT !.g = TestLcc(u, b, <<"ifContinue", Which(exits, head)>>)]
            [] exits.odd # nil /\ ~ break /\ ~ continue ->
                 Pair(TestLcc(u, b, <<"if", Which(exits, m.blocs[i + 1])>>),
                      Append(Append(pop, << <<"}">> >> \o Last(y)), << <<"else">> >>))
  <2> HIDE DEF a
  <2> QED BY Zenon, <1>1 DEF LoopBloc, Stuck, Pair
<1> DEFINE s1 == <<"break">>   s2 == <<"ifBreak", Which(exits, after)>>
           s3 == <<"ifContinue", Which(exits, head)>>   s4 == <<"if", Which(exits, m.blocs[i + 1])>>
           y4 == Append(Append(pop, << <<"}">> >> \o Last(y)), << <<"else">> >>)
<1>3. /\ exits.odd = nil /\ break => r = Pair(close(AppendStmt(u, b, s1)), pop)
      /\ exits.odd = nil /\ ~ break /\ continue => r = Pair(close(jump(u)), pop)
      /\ exits.odd # nil /\ break /\ continue => r = Pair(close(jump(TestLcc(u, b, s2))), pop)
      /\ exits.odd # nil /\ break /\ ~ continue => r = Pair(TestLcc(u, b, s2), y)
      /\ exits.odd # nil /\ ~ break /\ continue => r = Pair(TestLcc(u, b, s3), y)
      /\ exits.odd # nil /\ ~ break /\ ~ continue => r = Pair(TestLcc(u, b, s4), y4)
  <2> HIDE DEF r, break, continue, exits, head, close, jump, b, pop, y4
  <2>1. y4 = Append(Append(pop, << <<"}">> >> \o Last(y)), << <<"else">> >>)
    BY DEF y4
  <2>2. \A z : [a EXCEPT !.g = z] = Pair(z, y)
    BY ZenonT(60), PairFacts
  <2> HIDE DEF a
  <2> QED BY Zenon, <1>2, <2>1, <2>2
<1>4. break = Breaks(exits, after)
  BY DEF Breaks
<1>5. \A h : jump(h) = GoOn(h, b, i, m) /\ close(h) = Shut(h, b, y)
  BY Zenon DEF GoOn, Shut
<1>6. continue = Has(exits, head)
  OBVIOUS
<1> HIDE DEF r, break, continue, exits, close, jump, pop, head, b
<1>7. /\ exits.odd = nil /\ Breaks(exits, after) => r = Pair(Shut(AppendStmt(u, b, s1), b, y), pop)
      /\ exits.odd = nil /\ ~ Breaks(exits, after) /\ Has(exits, head) =>
           r = Pair(Shut(GoOn(u, b, i, m), b, y), pop)
      /\ exits.odd # nil /\ Breaks(exits, after) /\ Has(exits, head) =>
           r = Pair(Shut(GoOn(TestLcc(u, b, s2), b, i, m), b, y), pop)
      /\ exits.odd # nil /\ Breaks(exits, after) /\ ~ Has(exits, head) => r = Pair(TestLcc(u, b, s2), y)
      /\ exits.odd # nil /\ ~ Breaks(exits, after) /\ Has(exits, head) => r = Pair(TestLcc(u, b, s3), y)
      /\ exits.odd # nil /\ ~ Breaks(exits, after) /\ ~ Has(exits, head) =>
           r = Pair(TestLcc(u, b, s4), y4)
  BY <1>3, <1>4, <1>5, <1>6, Zenon
<1>8. Turned(u, y, i, m, after, b, head, exits, r)
  BY <1>7, Zenon DEF Turned, pop
<1> QED BY <1>8 DEF r, exits, head, b

\* What closing a block changes.
LEMMA ShutSays ==
  ASSUME NEW u, Sane(u), NEW b \in Blocs(u), NEW h, NEW e, Says(u, h, b, e), NEW y
  PROVE  Says(u, Shut(h, b, y), b, e \o Last(y))
<1> DEFINE s == Last(y)   v == AppendAll(h, b, s)
<1> HIDE DEF s
<1>1. Sane(h) /\ Blocs(h) = Blocs(u) /\ h.stmts[b] = e
  BY KinSame DEF Says
<1>2. Says(h, v, b, e \o s)
  <2>1. Says(h, v, b, h.stmts[b] \o s)
    BY <1>1, AppendSays
  <2> QED BY <1>1, <2>1
<1> HIDE DEF v
<1>3. Says(u, v, b, e \o s)
  BY <1>2, SaysTwice
<1> QED BY <1>3 DEF Shut, v, s

\* Bloc b says e, then perhaps goes on.
Went(u, v, b, e) == \E d : Says(u, v, b, d) /\ (d = e \/ d = Append(e, <<"continue">>))

\* What going on changes.
LEMMA GoOnSays ==
  ASSUME NEW u, Sane(u), NEW b \in Blocs(u), NEW h, NEW e, Says(u, h, b, e), NEW i, NEW m
  PROVE  Went(u, GoOn(h, b, i, m), b, e)
<1> DEFINE s == <<"continue">>   v == AppendStmt(h, b, s)
<1> HIDE DEF s
<1>1. Sane(h) /\ Blocs(h) = Blocs(u) /\ h.stmts[b] = e
  BY KinSame DEF Says
<1>2. Says(h, v, b, Append(e, s))
  <2>1. Says(h, v, b, Append(h.stmts[b], s))
    BY <1>1, AppendSays
  <2> QED BY <1>1, <2>1
<1> HIDE DEF v
<1>3. Says(u, v, b, Append(e, s))
  BY <1>2, SaysTwice
<1>4. GoOn(h, b, i, m) = v \/ GoOn(h, b, i, m) = h
  BY DEF GoOn, v, s
<1>5. Says(u, GoOn(h, b, i, m), b, e) \/ Says(u, GoOn(h, b, i, m), b, Append(e, s))
  BY <1>3, <1>4
<1> QED BY <1>5 DEF Went, s

\* A graph is itself with the code it has.
LEMMA ItselfSays ==
  ASSUME NEW u, Sane(u), NEW b
  PROVE  Says(u, u, b, u.stmts[b])
<1>1. Kin(u, u)
  BY KinItself DEF Sane, Pooled
<1> QED BY <1>1 DEF Says

\* Bloc b says more, and its exits that stay in the loop are as many as the stack has
\* items more; but the item of b, that is popped.
Turns(u, b, y, head, after, r) ==
  \E v, z, w, j : /\ r = Pair(v, z)
                  /\ Says(u, v, b, w) /\ Goes(u.stmts[b], w, y, z, j)
                  /\ Sized(Targets(u.exits[b]) \ {head, after}, j)

\* LoopBloc changes the code of its bloc and the stack together.
LEMMA LoopBlocSays ==
  ASSUME NEW u, Sane(u), NEW y, NEW i, NEW m, NEW after, m.blocs[i] \in Blocs(u),
         m.blocs[1] # nil, after # m.blocs[1], Parted(u.exits[m.blocs[i]]),
         u.exits[m.blocs[i]].nat # nil, ~ Lost(u, m, after, m.blocs[i])
  PROVE  Turns(u, m.blocs[i], y, m.blocs[1], after, LoopBloc(Pair(u, y), i, m, after))
<1> DEFINE b == m.blocs[i]   head == m.blocs[1]   x == u.exits[b]   t == u.stmts[b]
           r == LoopBloc(Pair(u, y), i, m, after)   D == Targets(x) \ {head, after}
           Goal == Turns(u, b, y, head, after, r)
           s1 == <<"break">>   s2 == <<"ifBreak", Which(x, after)>>   s0 == <<"continue">>
           s3 == <<"ifContinue", Which(x, head)>>   s4 == <<"if", Which(x, m.blocs[i + 1])>>
           y4 == Append(Append(Front(y), << <<"}">> >> \o Last(y)), << <<"else">> >>)
<1>0. Turned(u, y, i, m, after, b, head, x, r)
  BY LoopBlocIs
<1>1. /\ x.odd = nil /\ Breaks(x, after) => r = Pair(Shut(AppendStmt(u, b, s1), b, y), Front(y))
      /\ x.odd = nil /\ ~ Breaks(x, after) /\ Has(x, head) => r = Pair(Shut(GoOn(u, b, i, m), b, y), Front(y))
      /\ x.odd # nil /\ Breaks(x, after) /\ Has(x, head) =>
           r = Pair(Shut(GoOn(TestLcc(u, b, s2), b, i, m), b, y), Front(y))
      /\ x.odd # nil /\ Breaks(x, after) /\ ~ Has(x, head) => r = Pair(TestLcc(u, b, s2), y)
      /\ x.odd # nil /\ ~ Breaks(x, after) /\ Has(x, head) => r = Pair(TestLcc(u, b, s3), y)
      /\ x.odd # nil /\ ~ Breaks(x, after) /\ ~ Has(x, head) => r = Pair(TestLcc(u, b, s4), y4)
  <2> HIDE DEF b, x, head, r
  <2> QED BY <1>0, Zenon DEF Turned
<1>1a. Stays(x, head, after, D)
  BY InnerSized
<1>2. /\ x.odd = nil /\ (Breaks(x, after) \/ Has(x, head)) => D = {}
      /\ x.odd # nil /\ Breaks(x, after) /\ Has(x, head) => D = {}
      /\ x.odd # nil /\ Breaks(x, after) /\ ~ Has(x, head) => \E c : D = {c}
      /\ x.odd # nil /\ ~ Breaks(x, after) /\ Has(x, head) => \E c : D = {c}
      /\ x.odd # nil /\ ~ Breaks(x, after) /\ ~ Has(x, head) => \E c, d : c # d /\ D = {c, d}
  <2> HIDE DEF b, x, head, D
  <2> QED BY <1>1a, Zenon DEF Stays
<1>3. Neutral(s0) /\ Neutral(s1) /\ Neutral(s2) /\ Neutral(s3)
  BY TokenFacts
<1>4. x.odd = nil => Breaks(x, after) \/ Has(x, head)
  BY DEF Lost, Breaks
<1>5. b \in Blocs(u)
  OBVIOUS
<1>6. \E q : s4 = <<"if", q>>
  OBVIOUS
<1> HIDE DEF b, x, D, r, head, s1, s2, s3, s4, s0
<1>7. /\ Says(u, AppendStmt(u, b, s1), b, Append(t, s1))
      /\ Says(u, TestLcc(u, b, s2), b, Append(t, s2))
      /\ Says(u, TestLcc(u, b, s3), b, Append(t, s3))
      /\ Says(u, TestLcc(u, b, s4), b, Append(t, s4))
      /\ Says(u, u, b, t)
  BY <1>5, AppendSays, TestSays, ItselfSays
<1> HIDE DEF t
<1>7a. \A v, z, w, j : /\ r = Pair(v, z) /\ Says(u, v, b, w) /\ Goes(t, w, y, z, j) /\ Sized(D, j)
                     => Goal
  BY Zenon DEF Turns, D, x, t
<1> HIDE DEF Goal
\* The stack is popped.
<1>8. ASSUME NEW h, NEW e, Says(u, h, b, e), Jumped(t, e), r = Pair(Shut(h, b, y), Front(y)), D = {}
      PROVE  Goal
  <2> DEFINE v == Shut(h, b, y)   w == e \o Last(y)   z == Front(y)
  <2>1. Says(u, v, b, w)
    BY <1>5, <1>8, ShutSays
  <2>2. Goes(t, w, y, z, 0)
    BY <1>8 DEF Goes
  <2>3. Sized(D, 0)
    BY <1>8 DEF Sized
  <2> HIDE DEF v, w
  <2>4. r = Pair(v, z)
    BY <1>8 DEF v
  <2> HIDE DEF z
  <2> QED BY <1>7a, <2>1, <2>2, <2>3, <2>4
\* ... or not.
<1>9. ASSUME NEW h, NEW s, Says(u, h, b, Append(t, s)), Neutral(s), r = Pair(h, y), \E c : D = {c}
      PROVE  Goal
  <2> DEFINE w == Append(t, s)
  <2>1. Goes(t, w, y, y, 1)
    BY <1>9 DEF Goes
  <2>2. Sized(D, 1)
    BY <1>9 DEF Sized
  <2> HIDE DEF w
  <2>3. Says(u, h, b, w) /\ r = Pair(h, y)
    BY <1>9 DEF w
  <2> QED BY <1>7a, <2>1, <2>2, <2>3
<1>10. ASSUME x.odd = nil /\ Breaks(x, after)
      PROVE  Goal
  <2> DEFINE h == AppendStmt(u, b, s1)   e == Append(t, s1)
  <2>1. Jumped(t, e)
    BY <1>3 DEF Jumped
  <2>2. Says(u, h, b, e) /\ r = Pair(Shut(h, b, y), Front(y)) /\ D = {}
    BY <1>1, <1>2, <1>7, <1>10
  <2> HIDE DEF h, e
  <2> QED BY <2>1, <2>2, <1>8
<1>11. ASSUME x.odd = nil /\ ~ Breaks(x, after)
      PROVE  Goal
  <2> DEFINE h == GoOn(u, b, i, m)
  <2>1a. Went(u, h, b, t)
    BY <1>5, <1>7, GoOnSays
  <2>1. PICK e : Says(u, h, b, e) /\ (e = t \/ e = Append(t, s0))
    BY <2>1a, Zenon DEF s0, Went
  <2>2. Jumped(t, e)
    BY <1>3, <2>1 DEF Jumped
  <2>3. r = Pair(Shut(h, b, y), Front(y)) /\ D = {}
    BY <1>1, <1>2, <1>4, <1>11
  <2> HIDE DEF h
  <2> QED BY <2>1, <2>2, <2>3, <1>8
<1>12. ASSUME x.odd # nil /\ Breaks(x, after) /\ Has(x, head)
      PROVE  Goal
  <2> DEFINE k == TestLcc(u, b, s2)   t2 == Append(t, s2)   h == GoOn(k, b, i, m)
  <2>0. Says(u, k, b, t2)
    BY <1>7
  <2>0a. r = Pair(Shut(h, b, y), Front(y)) /\ D = {}
    BY <1>1, <1>2, <1>12
  <2> HIDE DEF k, t2
  <2>1a. Went(u, h, b, t2)
    BY <1>5, <2>0, GoOnSays
  <2>1. PICK e : Says(u, h, b, e) /\ (e = t2 \/ e = Append(t2, s0))
    BY <2>1a, Zenon DEF s0, Went
  <2>2. Jumped(t, e)
    BY <1>3, <2>1 DEF Jumped, t2
  <2> HIDE DEF h
  <2> QED BY <2>0a, <2>1, <2>2, <1>8
<1>13. ASSUME x.odd # nil /\ Breaks(x, after) /\ ~ Has(x, head)
      PROVE  Goal
  <2> DEFINE h == TestLcc(u, b, s2)
  <2>1. Says(u, h, b, Append(t, s2)) /\ r = Pair(h, y) /\ (\E c : D = {c}) /\ Neutral(s2)
    BY <1>1, <1>2, <1>3, <1>7, <1>13
  <2> HIDE DEF h
  <2> QED BY <2>1, <1>9
<1>14. ASSUME x.odd # nil /\ ~ Breaks(x, after) /\ Has(x, head)
      PROVE  Goal
  <2> DEFINE h == TestLcc(u, b, s3)
  <2>1. Says(u, h, b, Append(t, s3)) /\ r = Pair(h, y) /\ (\E c : D = {c}) /\ Neutral(s3)
    BY <1>1, <1>2, <1>3, <1>7, <1>14
  <2> HIDE DEF h
  <2> QED BY <2>1, <1>9
<1>15. ASSUME x.odd # nil /\ ~ Breaks(x, after) /\ ~ Has(x, head)
      PROVE  Goal
  <2> DEFINE h == TestLcc(u, b, s4)   w == Append(t, s4)
  <2>1. Says(u, h, b, w) /\ r = Pair(h, y4) /\ \E c, d : c # d /\ D = {c, d}
    BY <1>1, <1>2, <1>7, <1>15
  <2>2. Goes(t, w, y, y4, 2)
    BY <1>6, Zenon DEF Goes
  <2>3. Sized(D, 2)
    BY <2>1 DEF Sized
  <2> HIDE DEF h, w, y4
  <2> QED BY <1>7a, <2>1, <2>2, <2>3
<1>16. Goal
  BY <1>10, <1>11, <1>12, <1>13, <1>14, <1>15
<1> QED BY <1>16 DEF Goal, b, r, head

-----------------------------------------------------------------------------
(* The blocs of a loop that are still to come.                             *)

\* The n blocs s of a loop; D[i] has the exits of s[i] that stay in the loop.
Woven(s, D, n) ==
  /\ n \in Nat /\ n >= 1
  /\ \A i, j \in 1 .. n : s[i] = s[j] => i = j
  /\ \A i \in 1 .. n : s[1] \notin D[i] /\ \A c \in D[i] : \E j \in 1 .. n : c = s[j]
  /\ \A i, j \in 1 .. n : D[i] \cap D[j] # {} => i = j
  /\ \A j \in 2 .. n : \E i \in 1 .. j - 1 : s[j] \in D[i]

\* Those that the first i blocs lead to, and that are not among them.
Frontier(s, D, i) == ({s[1]} \cup UNION {D[j] : j \in 1 .. i}) \ {s[j] : j \in 1 .. i}

\* At first the head is to come; in the end, nothing.
LEMMA FrontierEnds ==
  ASSUME NEW s, NEW D, NEW n, Woven(s, D, n)
  PROVE  Frontier(s, D, 0) = {s[1]} /\ Frontier(s, D, n) = {}
<1>1. 1 .. 0 = {} /\ 1 \in 1 .. n
  BY DEF Woven
<1>2. Frontier(s, D, 0) = {s[1]}
  BY <1>1 DEF Frontier
<1>3. Frontier(s, D, n) = {}
  BY <1>1 DEF Frontier, Woven
<1> QED BY <1>2, <1>3

\* One bloc comes, and those it leads to were not to come before.
LEMMA FrontierNext ==
  ASSUME NEW s, NEW D, NEW n, Woven(s, D, n), NEW i \in 1 .. n
  PROVE  /\ s[i] \in Frontier(s, D, i - 1)
         /\ Frontier(s, D, i) = (Frontier(s, D, i - 1) \ {s[i]}) \cup D[i]
         /\ D[i] \cap Frontier(s, D, i - 1) = {}
<1> DEFINE F == Frontier(s, D, i - 1)   G == Frontier(s, D, i)
<1>1. n \in Nat /\ 1 \in 1 .. n /\ i \in Nat
  BY DEF Woven
<1>2. /\ \A j \in 1 .. i - 1 : j \in 1 .. n /\ j # i /\ j \in 1 .. i
      /\ \A j \in 1 .. i : j \in 1 .. i - 1 \/ j = i
      /\ i \in 1 .. i /\ \A j \in 1 .. i : j \in 1 .. n
      /\ (i = 1 \/ i \in 2 .. n) /\ \A j \in 1 .. n : j = 1 \/ j \in 2 .. n
      /\ \A j \in 1 .. n : j \in 1 .. i => \A k \in 1 .. j - 1 : k \in 1 .. i - 1
  BY <1>1
<1>3. /\ \A c : c \in F <=> /\ c = s[1] \/ \E j \in 1 .. i - 1 : c \in D[j]
                            /\ \A j \in 1 .. i - 1 : c # s[j]
      /\ \A c : c \in G <=> /\ c = s[1] \/ \E j \in 1 .. i : c \in D[j]
                            /\ \A j \in 1 .. i : c # s[j]
  BY DEF Frontier
<1> HIDE DEF F, G
<1>4. s[i] \in F
  <2>1. \A j \in 1 .. i - 1 : s[i] # s[j]
    BY <1>2 DEF Woven
  <2>2. s[i] = s[1] \/ \E j \in 1 .. i - 1 : s[i] \in D[j]
    BY <1>2 DEF Woven
  <2> QED BY <1>3, <2>1, <2>2
<1>5. ASSUME NEW c \in D[i] PROVE c \notin F /\ c \in G
  <2>1. c # s[1] /\ \A j \in 1 .. n : c \in D[j] => j = i
    BY <1>5 DEF Woven
  <2>2. c \notin F
    BY <1>2, <1>3, <2>1
  <2>3. ASSUME NEW j \in 1 .. i, c = s[j] PROVE FALSE
    <3>1. j \in 2 .. n
      BY <1>2, <2>1, <2>3
    <3>2. PICK k \in 1 .. j - 1 : s[j] \in D[k]
      BY <3>1 DEF Woven
    <3>3. k \in 1 .. i - 1
      BY <3>1
    <3>4. k \in 1 .. n /\ k # i
      BY <1>2, <3>3
    <3> QED BY <2>1, <2>3, <3>2, <3>4
  <2> QED BY <1>2, <1>3, <1>5, <2>2, <2>3
<1>6. ASSUME NEW c, c \notin D[i] PROVE c \in G <=> c \in F /\ c # s[i]
  <2>1. (\E j \in 1 .. i : c \in D[j]) <=> \E j \in 1 .. i - 1 : c \in D[j]
    BY <1>2, <1>6
  <2>2. (\A j \in 1 .. i : c # s[j]) <=> (c # s[i] /\ \A j \in 1 .. i - 1 : c # s[j])
    BY <1>2
  <2> QED BY <1>3, <2>1, <2>2
<1>7. s[i] \notin D[i]
  BY <1>4, <1>5
<1>8. G = (F \ {s[i]}) \cup D[i]
  BY <1>5, <1>6, <1>7
<1>9. D[i] \cap F = {}
  BY <1>5
<1> QED BY <1>4, <1>8, <1>9 DEF F, G

\* The number of exits into the loop.
LEMMA SizedFacts ==
  ASSUME NEW D, NEW j, Sized(D, j)
  PROVE  IsFiniteSet(D) /\ Cardinality(D) = j /\ j \in Nat
<1>1. CASE j = 0 /\ D = {}
  BY <1>1, FS_EmptySet
<1>2. CASE j = 1 /\ \E c : D = {c}
  BY <1>2, FS_Singleton
<1>3. CASE j = 2 /\ \E c, d : c # d /\ D = {c, d}
  <2>1. PICK c, d : c # d /\ D = {c, d}
    BY <1>3
  <2>2. IsFiniteSet({c}) /\ Cardinality({c}) = 1
    BY FS_Singleton
  <2> DEFINE C == {c}
  <2>2a. d \notin C /\ D = C \cup {d}
    BY <2>1
  <2> HIDE DEF C
  <2>3. IsFiniteSet(C \cup {d}) /\ Cardinality(C \cup {d}) = Cardinality(C) + 1
    BY <2>2, <2>2a, FS_AddElement DEF C
  <2> QED BY <1>3, <2>2, <2>2a, <2>3 DEF C
<1> QED BY <1>1, <1>2, <1>3 DEF Sized

\* Their number goes the way of that of the items of the stack.
LEMMA FrontierCount ==
  ASSUME NEW s, NEW D, NEW n, Woven(s, D, n), NEW i \in 1 .. n, NEW j, Sized(D[i], j),
         IsFiniteSet(Frontier(s, D, i - 1))
  PROVE  LET k == Cardinality(Frontier(s, D, i - 1))
         IN  /\ k \in Nat /\ k >= 1 /\ IsFiniteSet(Frontier(s, D, i))
             /\ Cardinality(Frontier(s, D, i)) = k - 1 + j
<1> DEFINE F == Frontier(s, D, i - 1)   G == Frontier(s, D, i)   E == D[i]   b == s[i]
           H == F \ {b}
<1>1. b \in F /\ G = (F \ {b}) \cup E /\ E \cap F = {}
  BY FrontierNext
<1>2. IsFiniteSet(E) /\ Cardinality(E) = j /\ j \in Nat
  BY SizedFacts
<1> HIDE DEF F, G, E, b
<1>3. IsFiniteSet(F) /\ Cardinality(F) \in Nat
  BY FS_CardinalityType DEF F
<1>4. IsFiniteSet(H) /\ Cardinality(H) = Cardinality(F) - 1 /\ Cardinality(H) \in Nat
  BY <1>1, <1>3, FS_RemoveElement, FS_CardinalityType
<1> HIDE DEF H
<1>5. G = H \cup E /\ H \cap E = {}
  BY <1>1 DEF H
<1>6. IsFiniteSet(G) /\ Cardinality(G) = Cardinality(H) + Cardinality(E)
  <2>1. /\ IsFiniteSet(H \cup E)
        /\ Cardinality(H \cup E) = Cardinality(H) + Cardinality(E) - Cardinality(H \cap E)
    BY <1>2, <1>4, FS_Union
  <2>2. Cardinality(H \cap E) = 0
    BY <1>5, FS_EmptySet
  <2> QED BY <1>2, <1>4, <1>5, <2>1, <2>2
<1>7. Cardinality(F) \in Nat /\ Cardinality(F) >= 1 /\ IsFiniteSet(G)
      /\ Cardinality(G) = Cardinality(F) - 1 + j
  BY <1>2, <1>3, <1>4, <1>6
<1> QED BY <1>7 DEF F, G

\* The code of the head of a loop, and the stack when it begins.
ForCode(e) == << <<"for">> >> \o e
ForStack == << << <<"}">> >> >>

\* The brace of the loop is open.
LEMMA ForOpen == Kept(<< <<"for">> >>, 1, TRUE)
<1> DEFINE x == <<"for">>   o == <<>>   u == <<x>>
<1>1. Rise(x) = 1 /\ Fall(x) = 0 /\ ~ Jumps(x)
  BY TokenFacts
<1>2. u = <<x>> /\ x = <<"for">>
  OBVIOUS
<1> HIDE DEF x
<1>3. IsCode(u) /\ Len(u) = 1 /\ u[1] = x
  BY UnitFacts
<1> HIDE DEF u
<1>4. o \o u = u /\ Kept(o, 0, FALSE)
  BY <1>3, KeptNothing, JoinThree
<1> HIDE DEF o
<1>5. Kept(o \o <<x>>, 0 + Rise(x) - Fall(x), FALSE)
  <2>1. 0 >= Fall(x)
    BY <1>1
  <2> QED BY <1>1, <1>4, <2>1, KeptToken
<1>6. Kept(u, 1, FALSE)
  <2>1. 0 + Rise(x) - Fall(x) = 1
    BY <1>1
  <2> QED BY <1>2, <1>4, <1>5, <2>1
<1>7. Looping(u)
  <2>1. Len(u) >= 1 /\ 2 .. Len(u) = {}
    BY <1>3
  <2> QED BY <1>2, <1>3, <2>1 DEF Looping
<1>8. Kept(u, 1, TRUE)
  BY <1>6, <1>7 DEF Kept
<1> QED BY <1>8 DEF u, x

\* ... and on the stack.
LEMMA ForStacked ==
  \E n : n[1] = 1 /\ Stacked(ForStack, 1, n)
<1> DEFINE x == <<"}">>   b == <<x>>   n == [i \in 1 .. 1 |-> 1]   y == <<b>>
<1>1. x = <<"}">> /\ y = ForStack
  BY DEF ForStack
<1> HIDE DEF x
<1>2. IsCode(b) /\ Len(b) = 1 /\ b[1] = x
  BY UnitFacts
<1> HIDE DEF b
<1>3. IsCode(y) /\ Len(y) = 1 /\ y[1] = b
  BY UnitFacts
<1> HIDE DEF y
<1>4. 1 .. 1 - 1 = {} /\ 1 \in 1 .. 1 /\ 1 \in Nat /\ 2 .. 1 = {} /\ 1 >= 1
  OBVIOUS
<1>5. Closing(b, 1, FALSE)
  BY <1>1, <1>2, <1>4 DEF Closing
<1>6. n[1] = 1 /\ \A j \in 1 .. 1 : n[j] \in Nat
  BY <1>4
<1> HIDE DEF n
<1>7. Stacked(y, 1, n)
  BY <1>3, <1>4, <1>5, <1>6 DEF Stacked
<1> QED BY <1>1, <1>6, <1>7

\* Once it is in its form, a loop is begun, and one brace closes it.
LEMMA LoopBegun ==
  ASSUME NEW e, Formed(e)
  PROVE  IsCode(ForCode(e)) /\ Looked(ForCode(e), ForStack, 1)
<1> DEFINE u == << <<"for">> >>   t == ForCode(e)
<1>1. Kept(u, 1, TRUE)
  BY ForOpen
<1>2. PICK n : n[1] = 1 /\ Stacked(ForStack, 1, n)
  BY ForStacked
<1>3. t = u \o e
  BY DEF ForCode
<1> HIDE DEF u, t
<1>4. Kept(u \o e, 1, TRUE)
  BY <1>1, KeptFormed
<1>5. IsCode(t) /\ Kept(t, n[1], TRUE)
  BY <1>2, <1>3, <1>4 DEF Kept
<1> DEFINE k == 1
<1>6. k # 0 /\ n[k] = n[1] /\ Stacked(ForStack, k, n)
  BY <1>2
<1> HIDE DEF k
<1>7. Looked(t, ForStack, k)
  BY <1>5, <1>6 DEF Looked
<1> QED BY <1>5, <1>7 DEF t, k

\* A complete code leaves the stack as it is.
LEMMA LookedFormed ==
  ASSUME NEW v, NEW y, NEW k \in Nat, k >= 1, Looked(v, y, k), NEW t, Formed(t)
  PROVE  Looked(v \o t, y, k)
<1>0. k # 0
  OBVIOUS
<1>1. PICK n : Stacked(y, k, n) /\ Kept(v, n[k], TRUE)
  BY <1>0, Zenon DEF Looked
<1>2. Kept(v \o t, n[k], TRUE)
  BY <1>1, KeptFormed
<1> QED BY <1>0, <1>1, <1>2 DEF Looked

\* The codes c of the n blocs s of a loop become q, and the stack goes through z.
Spun(c, q, z, s, D, n) ==
  /\ Woven(s, D, n) /\ Len(q) = n
  /\ \E e : Formed(e) /\ c[1] = ForCode(e)
  /\ \A i \in 2 .. n : Formed(c[i])
  /\ z[0] = ForStack
  /\ \A i \in 1 .. n : \E j : Goes(c[i], q[i], z[i - 1], z[i], j) /\ Sized(D[i], j)

\* The codes of the blocs of a loop, in order, are a complete code.
LEMMA LoopCode ==
  ASSUME NEW c, NEW q, NEW z, NEW s, NEW D, NEW n, Spun(c, q, z, s, D, n)
  PROVE  Formed(FlattenSeq(q))
<1>1. /\ Woven(s, D, n) /\ n \in Nat /\ n >= 1 /\ Len(q) = n
      /\ \A i \in 2 .. n : Formed(c[i])
      /\ \A i \in 1 .. n : \E j : Goes(c[i], q[i], z[i - 1], z[i], j) /\ Sized(D[i], j)
  BY DEF Spun, Woven
<1>2. IsCode(c[1]) /\ Looked(c[1], z[0], 1)
  <2>1. PICK e : Formed(e) /\ c[1] = ForCode(e)
    BY DEF Spun
  <2>2. z[0] = ForStack
    BY DEF Spun
  <2> QED BY <2>1, <2>2, LoopBegun
<1> DEFINE F(i) == Frontier(s, D, i)   k(i) == Cardinality(F(i))
<1>3. IsFiniteSet(F(0)) /\ k(0) = 1 /\ k(n) = 0
  <2> DEFINE A == {s[1]}
  <2>1. F(0) = A /\ F(n) = {}
    BY <1>1, FrontierEnds
  <2>2. IsFiniteSet(A) /\ Cardinality(A) = 1
    BY FS_Singleton
  <2> HIDE DEF F, A
  <2> QED BY <2>1, <2>2, FS_EmptySet
<1>4. PICK f : /\ FlattenSeq(q) = f[n] /\ f[1] = q[1]
               /\ \A i \in 2 .. n : f[i] = f[i - 1] \o q[i]
  BY <1>1, FlattenRec
\* One bloc more.
<1>5. ASSUME NEW i \in 1 .. n, NEW u, IsCode(u), IsFiniteSet(F(i - 1)), IsCode(c[i]),
             Looked(u \o c[i], z[i - 1], k(i - 1))
      PROVE  IsFiniteSet(F(i)) /\ Looked(u \o q[i], z[i], k(i)) /\ IsCode(q[i])
  <2>1. PICK j : Goes(c[i], q[i], z[i - 1], z[i], j) /\ Sized(D[i], j)
    BY <1>1
  <2>2. /\ k(i - 1) \in Nat /\ k(i - 1) >= 1 /\ IsFiniteSet(F(i)) /\ k(i) = k(i - 1) - 1 + j
    BY <1>1, <1>5, <2>1, FrontierCount
  <2> DEFINE h == k(i - 1)   t == c[i]   w == q[i]   y == z[i - 1]   y1 == z[i]
  <2>3. h \in Nat /\ h >= 1 /\ Looked(u \o t, y, h) /\ Goes(t, w, y, y1, j) /\ IsCode(t)
    BY <1>5, <2>1, <2>2
  <2>4. k(i) = h - 1 + j
    BY <2>2
  <2> HIDE DEF h, t, w, y, y1, k
  <2>5. Looked(u \o w, y1, h - 1 + j) /\ IsCode(w)
    BY <1>5, <2>3, GoesLooked
  <2> QED BY <2>2, <2>4, <2>5 DEF w, y1
<1> DEFINE P(i) == IsFiniteSet(F(i)) /\ Looked(f[i], z[i], k(i)) /\ IsCode(f[i])
           S == {i \in Nat : i + 1 <= n => P(i + 1)}
<1>6. 0 \in S
  <2> DEFINE o == <<>>   i == 1
  <2>1. o \o c[1] = c[1] /\ IsCode(o)
    BY <1>2, JoinThree, UnitFacts
  <2>2. i \in 1 .. n /\ i - 1 = 0
    BY <1>1
  <2>3. IsCode(c[i]) /\ Looked(o \o c[i], z[i - 1], k(i - 1)) /\ IsFiniteSet(F(i - 1))
    BY <1>2, <1>3, <2>1
  <2> HIDE DEF o, i
  <2>4. IsFiniteSet(F(i)) /\ Looked(o \o q[i], z[i], k(i)) /\ IsCode(q[i])
    BY <1>5, <2>1, <2>2, <2>3
  <2>5. o \o q[i] = f[i]
    <3>1. o \o q[i] = q[i]
      BY <2>4, JoinThree DEF o
    <3> QED BY <1>4, <3>1 DEF i
  <2>6. P(i)
    <3>1. f[i] = q[i]
      BY <1>4 DEF i
    <3> QED BY <2>4, <2>5, <3>1
  <2>7. i = 0 + 1
    BY DEF i
  <2> HIDE DEF P
  <2> QED BY <2>6, <2>7
<1>7. ASSUME NEW g \in Nat, g \in S PROVE g + 1 \in S
  <2> SUFFICES ASSUME (g + 1) + 1 <= n PROVE P((g + 1) + 1)
    OBVIOUS
  <2> DEFINE i == (g + 1) + 1   u == f[i - 1]
  <2> HIDE DEF P
  <2>0. P(g + 1)
    <3>1. g + 1 <= n => P(g + 1)
      BY <1>7
    <3>2. g + 1 <= n
      BY <1>1
    <3> QED BY <3>1, <3>2
  <2>0a. i \in 1 .. n /\ i \in 2 .. n /\ i - 1 = g + 1 /\ i - 1 \in 1 .. n
    BY <1>1
  <2> HIDE DEF i
  <2>1. i \in 1 .. n /\ i \in 2 .. n /\ i - 1 = g + 1 /\ i - 1 \in 1 .. n /\ P(i - 1)
    BY <2>0, <2>0a
  <2>2. IsFiniteSet(F(i - 1)) /\ Looked(u, z[i - 1], k(i - 1)) /\ IsCode(u)
    BY <2>1 DEF P
  <2>3. Formed(c[i]) /\ IsCode(c[i])
    BY <1>1, <2>1, FormedKept
  <2>4. k(i - 1) \in Nat /\ k(i - 1) >= 1
    <3>1. PICK j : Sized(D[i], j)
      BY <1>1, <2>1
    <3> QED BY <1>1, <2>1, <2>2, <3>1, FrontierCount
  <2>5. Looked(u \o c[i], z[i - 1], k(i - 1))
    <3> DEFINE h == k(i - 1)   y == z[i - 1]   t == c[i]
    <3>1. h \in Nat /\ h >= 1 /\ Looked(u, y, h) /\ Formed(t)
      BY <2>2, <2>3, <2>4
    <3> HIDE DEF h, y, t, u
    <3>2. Looked(u \o t, y, h)
      BY <3>1, LookedFormed
    <3> QED BY <3>2 DEF h, y, t
  <2> HIDE DEF u
  <2>6. IsFiniteSet(F(i)) /\ Looked(u \o q[i], z[i], k(i)) /\ IsCode(q[i])
    BY <1>5, <2>1, <2>2, <2>3, <2>5
  <2>7. f[i] = u \o q[i]
    BY <1>4, <2>1 DEF u
  <2>8. IsCode(f[i])
    <3> DEFINE v == q[i]
    <3>1. IsCode(v) /\ f[i] = u \o v
      BY <2>6, <2>7
    <3> HIDE DEF v
    <3>2. IsCode(u) /\ IsCode(v)
      BY <2>2, <3>1
    <3> QED BY <3>1, <3>2, JoinFacts
  <2>9. P(i)
    BY <2>6, <2>7, <2>8 DEF P
  <2> QED BY <2>9 DEF i
<1>8. P(n)
  <2> HIDE DEF S, P
  <2>1. Nat \subseteq S
    BY <1>6, <1>7, Induction
  <2>2. n - 1 \in Nat /\ (n - 1) + 1 = n /\ n <= n
    BY <1>1
  <2> QED BY <2>1, <2>2 DEF S
<1>9. Kept(f[n], 0, FALSE)
  <2>1. k(n) = 0 /\ Looked(f[n], z[n], k(n))
    BY <1>3, <1>8
  <2> HIDE DEF k
  <2> QED BY <2>1 DEF Looked
<1> QED BY <1>4, <1>9, FormedKept

\* Where break leads.
Beyond(m) == Get(m.exits, ~ Which(m.exits, m.blocs[1]))

\* The exits of the blocs of a loop that stay in it.
Inner(g, s, after) == [i \in 1 .. Len(s) |-> Targets(g.exits[s[i]]) \ {s[1], after}]

\* A loop leads to its head and beyond.
LEMMA BeyondFacts ==
  ASSUME NEW m, Parted(m.exits), Has(m.exits, m.blocs[1]), m.blocs[1] # nil
  PROVE  /\ Beyond(m) # m.blocs[1] /\ Targets(m.exits) \subseteq {m.blocs[1], Beyond(m)}
         /\ Beyond(m) # nil => Beyond(m) \in Targets(m.exits)
<1> DEFINE x == m.exits   head == m.blocs[1]   after == Beyond(m)
<1>1. head = x.nat \/ head = x.odd
  BY DEF Has
<1>2. x.odd # nil => x.nat # x.odd
  BY DEF Parted
<1>3. after = IF head = x.odd THEN x.nat ELSE x.odd
  BY DEF Beyond, Get, Which
<1>4. Targets(x) = {x.nat, x.odd} \ {nil} /\ head # nil
  BY DEF Targets
<1> HIDE DEF x, head, after
<1>5. after # head
  BY <1>1, <1>2, <1>3, <1>4
<1>6. Targets(x) \subseteq {head, after}
  BY <1>1, <1>3, <1>4
<1>7. after # nil => after \in Targets(x)
  BY <1>3, <1>4
<1> QED BY <1>5, <1>6, <1>7 DEF x, head, after

\* The blocs of a loop come after one that leads to them.
LEMMA LoopWoven ==
  ASSUME NEW g, Sane(g), Rooted(g), NEW p, NEW m, Grouped(g, p, m), Led(g, m.blocs),
         Parted(m.exits), Has(m.exits, m.blocs[1])
  PROVE  /\ Woven(m.blocs, Inner(g, m.blocs, Beyond(m)), Len(m.blocs))
         /\ m.blocs[1] # nil /\ Beyond(m) # m.blocs[1]
<1> DEFINE s == m.blocs   x == m.exits   head == s[1]   after == Beyond(m)   n == Len(s)
           M == ToSet(s)   D == Inner(g, s, after)   B == Blocs(g)
<1>1. /\ s \in Seq(B) /\ s # <<>> /\ IsInjective(s) /\ Searched(g, head, M, {}, {}, x)
  BY DEF Grouped
<1>2. /\ n \in Nat /\ 1 \in 1 .. n
      /\ \A i \in 1 .. n : s[i] \in B /\ s[i] \in M
      /\ \A i, j \in 1 .. n : s[i] = s[j] => i = j
      /\ \A b \in M : \E i \in 1 .. n : s[i] = b
  <2> HIDE DEF s, B
  <2> QED BY <1>1, ItemFacts
<1>3. head # nil /\ nil \notin B
  <2>1. nil \notin B
    BY ExitFacts
  <2> QED BY <1>2, <2>1
<1>4. after # head /\ Targets(x) \subseteq {head, after} /\ (after # nil => after \in Targets(x))
  BY <1>3, BeyondFacts
<1>5. /\ M \subseteq B /\ Onward(g, M) \subseteq (M \ {head}) \cup Targets(x)
      /\ \A b \in M \ {head} : g.prevcount[b] <= 1
      /\ Targets(x) \cap (M \ {head}) = {}
  <2> HIDE DEF M, s, x
  <2> QED BY <1>1 DEF Searched
<1>6. \A i \in 1 .. n : D[i] = Succ(g, s[i]) \ {head, after}
  BY DEF Inner, Succ
<1>7. Led(g, s)
  OBVIOUS
<1> HIDE DEF s, x, head, after, M, D, B, n
<1>8. \A i \in 1 .. n : \A c \in D[i] : c \in M \ {head}
  BY <1>2, <1>4, <1>5, <1>6 DEF Onward
<1>9. ASSUME NEW i \in 1 .. n PROVE head \notin D[i] /\ \A c \in D[i] : \E j \in 1 .. n : c = s[j]
  BY <1>2, <1>8
<1>10. ASSUME NEW i \in 1 .. n, NEW j \in 1 .. n, D[i] \cap D[j] # {} PROVE i = j
  <2>1. PICK c \in D[i] : c \in D[j]
    BY <1>10
  <2>2. c \in B /\ g.prevcount[c] <= 1
    BY <1>5, <1>8
  <2>3. s[i] \in B /\ s[j] \in B /\ c \in Succ(g, s[i]) /\ c \in Succ(g, s[j])
    BY <1>2, <1>6, <2>1
  <2>4. s[i] = s[j]
    <3> DEFINE u == s[i]   v == s[j]
    <3>1. u \in B /\ v \in B /\ c \in Succ(g, u) /\ c \in Succ(g, v)
      BY <2>3
    <3> HIDE DEF u, v
    <3>2. u = v
      BY <2>2, <3>1, Unique DEF B
    <3> QED BY <3>2 DEF u, v
  <2> QED BY <1>2, <2>4
<1>11. ASSUME NEW j \in 2 .. n PROVE \E i \in 1 .. j - 1 : s[j] \in D[i]
  <2>1. PICK i \in 1 .. j - 1 : s[j] \in Succ(g, s[i])
    BY <1>7 DEF Led, n
  <2>2. j \in 1 .. n /\ j # 1 /\ i \in 1 .. n
    BY <1>2
  <2>3. s[j] \in M \ {head}
    BY <1>2, <2>2 DEF head
  <2>4. s[j] # after
    BY <1>3, <1>4, <1>5, <2>3
  <2> QED BY <1>6, <2>1, <2>2, <2>3, <2>4
<1>12. n >= 1
  BY <1>2
<1>13. Woven(s, D, n)
  BY <1>2, <1>9, <1>10, <1>11, <1>12 DEF Woven, head
<1> QED BY <1>3, <1>4, <1>13 DEF s, D, n, head, after

\* The n blocs of loop m take their turns from graph g and stack y on, as a says.
Spinning(g, n, m, after, y, a) ==
  /\ n \in Nat /\ a[0] = Pair(g, y)
  /\ \A i \in 1 .. n : a[i] = LoopBloc(a[i - 1], i, m, after)
  /\ m.blocs[1] # nil /\ after # m.blocs[1]
  /\ \A i \in 1 .. n : /\ m.blocs[i] \in Blocs(g) /\ Parted(g.exits[m.blocs[i]])
                        /\ g.exits[m.blocs[i]].nat # nil /\ ~ Lost(g, m, after, m.blocs[i])
  /\ \A i, j \in 1 .. n : m.blocs[i] = m.blocs[j] => i = j

\* Turn i.
Spins(g, m, after, a, i) ==
  /\ a[i - 1] = Pair(a[i - 1].g, a[i - 1].issues) /\ a[i] = Pair(a[i].g, a[i].issues)
  /\ Kin(g, a[i - 1].g)
  /\ Turns(a[i - 1].g, m.blocs[i], a[i - 1].issues, m.blocs[1], after, a[i])

\* The blocs of a loop are told what to say, one after the other.
LEMMA Turning ==
  ASSUME NEW g, Sane(g), NEW n, NEW m, NEW after, NEW y, NEW a, Spinning(g, n, m, after, y, a)
  PROVE  \A i \in 1 .. n : Spins(g, m, after, a, i)
<1> DEFINE P(i) == a[i] = Pair(a[i].g, a[i].issues) /\ Kin(g, a[i].g)
           T(i) == Turns(a[i - 1].g, m.blocs[i], a[i - 1].issues, m.blocs[1], after, a[i])
           S == {i \in Nat : i <= n => P(i)}
<1>0. /\ n \in Nat /\ a[0] = Pair(g, y)
      /\ \A i \in 1 .. n : a[i] = LoopBloc(a[i - 1], i, m, after)
      /\ m.blocs[1] # nil /\ after # m.blocs[1]
      /\ \A i \in 1 .. n : /\ m.blocs[i] \in Blocs(g) /\ Parted(g.exits[m.blocs[i]])
                            /\ g.exits[m.blocs[i]].nat # nil /\ ~ Lost(g, m, after, m.blocs[i])
  BY DEF Spinning
<1>1. P(0)
  <2>0. Pair(g, y).g = g /\ Pair(g, y).issues = y
    BY DEF Pair
  <2>1. a[0].g = g /\ a[0].issues = y
    BY <1>0, <2>0
  <2>2. Kin(g, g)
    BY KinItself DEF Sane, Pooled
  <2> QED BY <1>0, <2>1, <2>2
<1>2. ASSUME NEW i \in 1 .. n, P(i - 1) PROVE P(i) /\ T(i)
  <2> DEFINE u == a[i - 1].g   z == a[i - 1].issues   b == m.blocs[i]
  <2>1. a[i] = LoopBloc(Pair(u, z), i, m, after) /\ Kin(g, u)
    <3>1. a[i - 1] = Pair(u, z) /\ Kin(g, u)
      BY <1>2
    <3> QED BY <1>0, <3>1
  <2> HIDE DEF u, z
  <2>2. Sane(u) /\ Blocs(u) = Blocs(g) /\ u.exits = g.exits
    BY <2>1, KinSame
  <2>3. /\ b \in Blocs(u) /\ Parted(u.exits[b]) /\ u.exits[b].nat # nil /\ ~ Lost(u, m, after, b)
    <3>1. ~ Lost(g, m, after, b)
      BY <1>0
    <3>2. ~ Lost(u, m, after, b)
      BY <2>2, <3>1 DEF Lost
    <3> QED BY <1>0, <2>2, <3>2
  <2>4. Turns(u, b, z, m.blocs[1], after, a[i])
    BY <1>0, <2>1, <2>2, <2>3, LoopBlocSays
  <2>5. PICK v, y1 : a[i] = Pair(v, y1) /\ Kin(u, v)
    BY <2>4, Zenon DEF Turns, Says
  <2>6. a[i].g = v /\ a[i].issues = y1
    <3>1. Pair(v, y1).g = v /\ Pair(v, y1).issues = y1
      BY DEF Pair
    <3> QED BY <2>5, <3>1
  <2>7. Kin(g, v)
    BY <2>1, <2>5, KinTrans
  <2>8. P(i)
    BY <2>5, <2>6, <2>7
  <2> HIDE DEF P
  <2> QED BY <2>4, <2>8 DEF u, z
<1>3. \A i \in 0 .. n : P(i)
  <2> HIDE DEF P
  <2>1. 0 \in S
    BY <1>0, <1>1
  <2>2. ASSUME NEW i \in Nat, i \in S PROVE i + 1 \in S
    <3> SUFFICES ASSUME i + 1 <= n PROVE P(i + 1)
      OBVIOUS
    <3>1. i <= n => P(i)
      BY <2>2
    <3>2. i + 1 \in 1 .. n /\ (i + 1) - 1 = i /\ i <= n
      BY <1>0
    <3> QED BY <1>2, <3>1, <3>2
  <2> HIDE DEF S
  <2>3. Nat \subseteq S
    BY <2>1, <2>2, Induction
  <2>4. \A i \in 0 .. n : i \in Nat /\ i <= n
    BY <1>0
  <2> QED BY <2>3, <2>4 DEF S
<1>4. \A i \in 1 .. n : i - 1 \in 0 .. n /\ i \in 0 .. n
  BY <1>0
<1>5. \A i \in 1 .. n : P(i - 1) /\ P(i) /\ T(i)
  <2> HIDE DEF P, T
  <2> QED BY <1>2, <1>3, <1>4
<1> QED BY <1>5 DEF Spins

\* What is said of the blocs of a loop, once all of them have had their turn.
AllSaid(g, n, m, after, a) ==
  /\ Kin(g, a[n].g)
  /\ \A c \in Blocs(g) : (\A i \in 1 .. n : c # m.blocs[i]) => a[n].g.stmts[c] = g.stmts[c]
  /\ \A i \in 1 .. n :
       \E j : /\ Goes(g.stmts[m.blocs[i]], a[n].g.stmts[m.blocs[i]], a[i - 1].issues, a[i].issues, j)
              /\ Sized(Targets(g.exits[m.blocs[i]]) \ {m.blocs[1], after}, j)

\* ... and say it.
LEMMA LoopSaid ==
  ASSUME NEW g, Sane(g), NEW n, NEW m, NEW after, NEW y, NEW a, Spinning(g, n, m, after, y, a)
  PROVE  AllSaid(g, n, m, after, a)
<1> DEFINE s == m.blocs   f == [i \in 0 .. n |-> a[i].g]   z == [i \in 0 .. n |-> a[i].issues]
           head == s[1]
<1>0. /\ n \in Nat /\ a[0] = Pair(g, y)
      /\ \A i \in 1 .. n : s[i] \in Blocs(g)
      /\ \A i, j \in 1 .. n : s[i] = s[j] => i = j
  BY DEF Spinning
<1>1. \A i \in 1 .. n : Spins(g, m, after, a, i)
  BY Turning
<1>2. /\ \A i \in 1 .. n : /\ f[i - 1] = a[i - 1].g /\ z[i - 1] = a[i - 1].issues
                           /\ f[i] = a[i].g /\ z[i] = a[i].issues
      /\ f[0] = a[0].g /\ f[n] = a[n].g
  BY <1>0
<1>3. f[0] = g
  <2>1. Pair(g, y).g = g
    BY DEF Pair
  <2> QED BY <1>0, <1>2, <2>1
<1> HIDE DEF f, z
<1>4. \A i \in 1 .. n : /\ a[i] = Pair(f[i], z[i]) /\ Kin(g, f[i - 1])
                        /\ Turns(f[i - 1], s[i], z[i - 1], head, after, a[i])
  BY <1>1, <1>2 DEF Spins
<1>5. ASSUME NEW i \in 1 .. n
      PROVE  \E w, j : /\ Says(f[i - 1], f[i], s[i], w)
                       /\ Goes(f[i - 1].stmts[s[i]], w, z[i - 1], z[i], j)
                       /\ Sized(Targets(f[i - 1].exits[s[i]]) \ {head, after}, j)
  <2> DEFINE u == f[i - 1]   b == s[i]   yy == z[i - 1]   r == a[i]
  <2>1. Turns(u, b, yy, head, after, r) /\ r = Pair(f[i], z[i])
    BY <1>4
  <2> HIDE DEF u, b, yy, r, head
  <2>2. PICK v, x, w, j : /\ r = Pair(v, x)
                          /\ Says(u, v, b, w) /\ Goes(u.stmts[b], w, yy, x, j)
                          /\ Sized(Targets(u.exits[b]) \ {head, after}, j)
    BY <2>1 DEF Turns
  <2>3. v = f[i] /\ x = z[i]
    <3>1. Pair(v, x).g = v /\ Pair(v, x).issues = x
      BY DEF Pair
    <3>2. Pair(f[i], z[i]).g = f[i] /\ Pair(f[i], z[i]).issues = z[i]
      BY DEF Pair
    <3> QED BY <2>1, <2>2, <3>1, <3>2
  <2> QED BY <2>2, <2>3 DEF u, b, yy
<1>6. \A i \in 1 .. n : Kin(g, f[i - 1]) => Touches(f[i - 1], f[i], s[i])
  BY <1>5 DEF Says, Touches
<1>7. /\ Kin(g, f[n]) /\ f[n].error = g.error
      /\ \A i \in 1 .. n : Kin(g, f[i - 1]) /\ f[i - 1].stmts[s[i]] = g.stmts[s[i]]
                           /\ f[n].stmts[s[i]] = f[i].stmts[s[i]]
      /\ \A c \in Blocs(g) : (\A i \in 1 .. n : c # s[i]) => f[n].stmts[c] = g.stmts[c]
  <2> HIDE DEF s
  <2> QED BY <1>0, <1>3, <1>6, TouchAll
<1>8. ASSUME NEW i \in 1 .. n
      PROVE  \E j : /\ Goes(g.stmts[s[i]], f[n].stmts[s[i]], z[i - 1], z[i], j)
                    /\ Sized(Targets(g.exits[s[i]]) \ {head, after}, j)
  <2> DEFINE b == s[i]   u == f[i - 1]
  <2>1. PICK w, j : /\ Says(u, f[i], b, w) /\ Goes(u.stmts[b], w, z[i - 1], z[i], j)
                    /\ Sized(Targets(u.exits[b]) \ {head, after}, j)
    BY <1>5
  <2>2. u.stmts[b] = g.stmts[b] /\ f[n].stmts[b] = f[i].stmts[b] /\ Kin(g, u)
    BY <1>7
  <2> HIDE DEF u, b, head
  <2>3. u.exits = g.exits
    BY <2>2, KinSame
  <2>4. f[n].stmts[b] = w
    BY <2>1, <2>2 DEF Says
  <2>5. Goes(g.stmts[b], f[n].stmts[b], z[i - 1], z[i], j) /\ Sized(Targets(g.exits[b]) \ {head, after}, j)
    BY <2>1, <2>2, <2>3, <2>4
  <2> QED BY <2>5 DEF b
<1> QED BY <1>2, <1>7, <1>8 DEF AllSaid

\* A loop.
LEMMA LoopSpoken ==
  ASSUME NEW g, Sane(g), Rooted(g), Spoken(g), NEW m, Grouped(g, Loop, m), Led(g, m.blocs),
         Parted(m.exits), Has(m.exits, m.blocs[1]),
         \A b \in ToSet(m.blocs) : ~ Lost(g, m, Beyond(m), b)
  PROVE  Spoken(MergeLoop(g, m))
<1> DEFINE s == m.blocs   head == s[1]   after == Beyond(m)   x == Exits(after, nil)
           k == [m EXCEPT !.exits = x]   n == Len(s)   e == << <<"for">> >>
           for == InsertStmt(g, head, <<"for">>)   y == ForStack
           first == [g |-> for, issues |-> y]   a == Looped(first, m, after)
           v == a[n].g   h == MergeSubgraph(v, k)   D == Inner(g, s, after)
           q == [i \in DOMAIN s |-> v.stmts[s[i]]]
<1>1. MergeLoop(g, m) = h
  BY Zenon DEF MergeLoop, Looped, Beyond, ForStack
<1>2. /\ s \in Seq(Blocs(g)) /\ n \in Nat /\ s # <<>> /\ 1 \in 1 .. n /\ m = [blocs |-> s, exits |-> m.exits]
      /\ \A i \in 1 .. n : s[i] \in Blocs(g) /\ s[i] \in ToSet(s)
      /\ \A i, j \in 1 .. n : s[i] = s[j] => i = j
      /\ \A b \in ToSet(s) : \E i \in 1 .. n : s[i] = b
  <2>1. s \in Seq(Blocs(g)) /\ s # <<>> /\ IsInjective(s) /\ m = [blocs |-> s, exits |-> m.exits]
    BY DEF Grouped
  <2> DEFINE B == Blocs(g)
  <2> HIDE DEF s, B
  <2> QED BY <2>1, ItemFacts DEF B
<1>3. Woven(s, D, n) /\ head # nil /\ after # head
  BY LoopWoven
<1>4. k.blocs = s /\ k.exits = x
  <2> HIDE DEF x
  <2>1. k = [blocs |-> s, exits |-> x]
    BY <1>2
  <2> QED BY <2>1
<1>5. \A i \in 1 .. n : /\ Parted(g.exits[s[i]]) /\ g.exits[s[i]].nat # nil
                        /\ ~ Lost(g, m, after, s[i]) /\ Formed(g.stmts[s[i]])
  <2>1. \A b \in ToSet(s) : g.exits[b].nat # nil /\ ~ Lost(g, m, after, b)
    BY DEF Grouped
  <2> HIDE DEF after, s
  <2> QED BY <1>2, <2>1 DEF Spoken
<1>6. Says(g, for, head, e \o g.stmts[head])
  <2> DEFINE t == <<"for">>
  <2>1. head \in Blocs(g)
    BY <1>2
  <2> HIDE DEF t, head
  <2>2. Says(g, InsertStmt(g, head, t), head, <<t>> \o g.stmts[head])
    BY <2>1, AppendSays
  <2> QED BY <2>2 DEF t
<1>7. Parted(x)
  BY DEF Parted, Exits
<1>8. Mergeable(g, s, x)
  <2> DEFINE w == Exits(Get(m.exits, ~ Which(m.exits, m.blocs[1])), nil)
  <2>1. Mergeable(g, m.blocs, w)
    BY GroupedMergeable
  <2>2. x = w
    BY DEF Beyond
  <2> HIDE DEF x, w
  <2> QED BY <2>1, <2>2
<1>9. a[0] = Pair(for, y) /\ \A i \in 1 .. n : a[i] = LoopBloc(a[i - 1], i, m, after)
  <2> HIDE DEF after, for, y
  <2>1. n \in Nat /\ first = Pair(for, y)
    BY <1>2 DEF Pair
  <2> HIDE DEF first
  <2>2. a[0] = first /\ \A i \in 1 .. n : a[i] = LoopedAt(first, m, after, i, a[i - 1])
    BY <2>1, LoopedRec
  <2> HIDE DEF a, n
  <2>3. ASSUME NEW i \in 1 .. n PROVE a[i] = LoopBloc(a[i - 1], i, m, after)
    <3>1. i # 0
      BY <2>1
    <3>2. a[i] = LoopedAt(first, m, after, i, a[i - 1])
      BY <2>2
    <3> QED BY <3>1, <3>2 DEF LoopedAt
  <2> QED BY <2>1, <2>2, <2>3
<1> HIDE DEF a, for, first, x, k, e, y
<1>10. Sane(for) /\ Blocs(for) = Blocs(g) /\ for.exits = g.exits /\ Kin(g, for)
  <2>1. Kin(g, for)
    BY <1>6 DEF Says
  <2> QED BY <2>1, KinSame
<1>11. /\ Kin(for, v)
       /\ \A c \in Blocs(g) : (\A i \in 1 .. n : c # s[i]) => v.stmts[c] = for.stmts[c]
       /\ \A i \in 1 .. n :
            \E j : /\ Goes(for.stmts[s[i]], v.stmts[s[i]], a[i - 1].issues, a[i].issues, j)
                   /\ Sized(Targets(g.exits[s[i]]) \ {head, after}, j)
  <2> HIDE DEF after, n
  <2>1. \A i \in 1 .. n : ~ Lost(for, m, after, m.blocs[i])
    BY <1>5, <1>10 DEF Lost
  <2>2. \A i \in 1 .. n : /\ m.blocs[i] \in Blocs(for) /\ Parted(for.exits[m.blocs[i]])
                          /\ for.exits[m.blocs[i]].nat # nil
    BY <1>2, <1>5, <1>10
  <2>3. \A i, j \in 1 .. n : m.blocs[i] = m.blocs[j] => i = j
    BY <1>2
  <2>4. n \in Nat /\ m.blocs[1] # nil /\ after # m.blocs[1]
    BY <1>2, <1>3
  <2>5. Spinning(for, n, m, after, y, a)
    BY <1>9, <2>1, <2>2, <2>3, <2>4 DEF Spinning
  <2>6. AllSaid(for, n, m, after, a)
    BY <1>10, <2>5, LoopSaid
  <2> QED BY <1>10, <2>6 DEF AllSaid
<1> HIDE DEF v
<1>12. Kin(g, v) /\ Sane(v) /\ Rooted(v) /\ Mergeable(v, s, x)
  <2>1. Kin(g, v)
    BY <1>10, <1>11, KinTrans
  <2> HIDE DEF s
  <2> QED BY <1>8, <2>1, KinSane
<1>13. for.stmts[head] = ForCode(g.stmts[head])
       /\ \A c \in Blocs(g) \ {head} : for.stmts[c] = g.stmts[c]
  BY <1>6 DEF Says, ForCode, e
<1>14. Formed(FlattenSeq(q))
  <2> DEFINE c == [i \in 1 .. n |-> for.stmts[s[i]]]   z == [i \in 0 .. n |-> a[i].issues]
             F == v.stmts
  <2>1. Len(q) = n /\ \A i \in 1 .. n : q[i] = v.stmts[s[i]]
    <3>1. q = [i \in DOMAIN s |-> F[s[i]]]
      OBVIOUS
    <3> HIDE DEF q, F, s
    <3>2. Len(q) = Len(s) /\ \A i \in 1 .. Len(s) : q[i] = F[s[i]]
      BY <1>2, <3>1, CodesOf
    <3> QED BY <3>2 DEF F
  <2>2. \A i \in 1 .. n : c[i] = for.stmts[s[i]] /\ z[i] = a[i].issues /\ z[i - 1] = a[i - 1].issues
    OBVIOUS
  <2>3. z[0] = ForStack
    <3>1. Pair(for, y).issues = y
      BY DEF Pair
    <3>2. 0 \in 0 .. n
      BY <1>2
    <3> QED BY <1>9, <3>1, <3>2 DEF y
  <2>4. \A i \in 1 .. n : D[i] = Targets(g.exits[s[i]]) \ {head, after}
    BY DEF Inner
  <2> HIDE DEF c, z, q, F, D, after
  <2>5. \E d : Formed(d) /\ c[1] = ForCode(d)
    BY <1>2, <1>5, <1>13, <2>2
  <2>6. ASSUME NEW i \in 2 .. n PROVE Formed(c[i])
    <3> HIDE DEF n, s
    <3>1. i \in 1 .. n /\ i # 1
      BY <1>2
    <3>2. s[i] # head
      BY <1>2, <3>1
    <3> QED BY <1>2, <1>5, <1>13, <2>2, <3>1, <3>2
  <2>7. \A i \in 1 .. n : \E j : Goes(c[i], q[i], z[i - 1], z[i], j) /\ Sized(D[i], j)
    BY <1>11, <2>1, <2>2, <2>4
  <2>8. Spun(c, q, z, s, D, n)
    <3> HIDE DEF s, n
    <3> QED BY <1>3, <2>1, <2>3, <2>5, <2>6, <2>7 DEF Spun
  <2> HIDE DEF s, n
  <2> QED BY <2>8, LoopCode
<1>15. Contracted(v, h, s, x) /\ Gathered(v, h, s, x)
  <2> HIDE DEF s
  <2> QED BY <1>4, <1>12, MergeFacts
<1>16. \A b \in Blocs(g) : b \notin ToSet(s) => v.stmts[b] = g.stmts[b]
  <2> HIDE DEF after
  <2> QED BY <1>2, <1>11, <1>13
<1> HIDE DEF h
<1>17. Formed(FlattenSeq([i \in DOMAIN s |-> v.stmts[s[i]]]))
  BY <1>14
<1> HIDE DEF s, q
<1>18. Spoken(h)
  BY <1>7, <1>12, <1>15, <1>16, <1>17, GatherSpoken
<1> QED BY <1>1, <1>18

-----------------------------------------------------------------------------
(* New blocs, new exits.                                                   *)

\* A statement more; a statement alone.
LEMMA MoreSaid ==
  ASSUME NEW s, Formed(s), NEW x, Neutral(x), ~ Jumps(x)
  PROVE  Formed(Append(s, x))
<1> DEFINE l == FALSE
<1>1. Kept(s, 0, l) /\ IsCode(s)
  BY FormedKept
<1>2. Rise(x) = 0 /\ Fall(x) = 0 /\ ~ l
  BY DEF Neutral
<1> HIDE DEF l
<1>3. Kept(s \o <<x>>, 0 + Rise(x) - Fall(x), l)
  <2>1. (Jumps(x) => l) /\ 0 >= Fall(x) /\ (l => 0 >= 1 + Fall(x))
    BY <1>2
  <2> QED BY <1>1, <2>1, KeptToken
<1>4. 0 + Rise(x) - Fall(x) = 0
  BY <1>2
<1>5. Kept(s \o <<x>>, 0, l)
  BY <1>3, <1>4
<1>6. Append(s, x) = s \o <<x>>
  BY <1>1, AppendIs
<1>7. Kept(Append(s, x), 0, l)
  BY <1>5, <1>6
<1> DEFINE t == Append(s, x)
<1> HIDE DEF t
<1>8. Formed(t)
  <2>1. Kept(t, 0, FALSE)
    BY <1>7 DEF l, t
  <2> QED BY <2>1, FormedKept
<1> QED BY <1>8 DEF t

LEMMA LoneSaid ==
  ASSUME NEW x, Neutral(x), ~ Jumps(x)
  PROVE  Formed(<<x>>)
<1> DEFINE e == <<>>
<1>1. Append(e, x) = <<x>>
  OBVIOUS
<1>2. Formed(e)
  BY KeptNothing, FormedKept
<1> HIDE DEF e
<1> QED BY <1>1, <1>2, MoreSaid

\* A new bloc, with a complete code.
LEMMA NewBlocSpoken ==
  ASSUME NEW g, Sane(g), Spoken(g), NEW ss, Formed(ss)
  PROVE  Spoken(NewBloc(g, ss))
<1> DEFINE h == NewBloc(g, ss)   n == g.fresh   B == Blocs(g)
<1>1. /\ Blocs(h) = B \cup {n} /\ n \notin B /\ h.exits[n] = NoExits
      /\ \A b \in B : h.exits[b] = g.exits[b]
  BY NewBlocFacts
<1>2. g = [f \in Fields |-> g[f]] /\ DOMAIN g.stmts = B
  BY DEF Sane, Pooled
<1>3. h.stmts = [c \in B \cup {n} |-> IF c = n THEN ss ELSE g.stmts[c]]
  BY <1>2 DEF NewBloc, Fields
<1> HIDE DEF h, n, B
<1>4. h.stmts[n] = ss /\ \A b \in B : h.stmts[b] = g.stmts[b]
  BY <1>1, <1>3
<1>5. Parted(NoExits)
  BY DEF Parted, NoExits, Exits
<1>6. Spoken(h)
  BY <1>1, <1>4, <1>5 DEF Spoken, B
<1> QED BY <1>6 DEF h

\* Linking changes no code.
LEMMA AlikeStmts ==
  ASSUME NEW g, NEW h, Alike(g, h, {"exits", "prevcount"})
  PROVE  h.stmts = g.stmts
BY DEF Alike, Fields

\* Both exits of a bloc are set, to different blocs,
LEMMA SetExitsSpoken ==
  ASSUME NEW g, Sane(g), Spoken(g), NEW b \in Blocs(g), NEW x \in ExitsTo(Blocs(g)),
         x.nat = nil => x.odd = nil, Parted(x)
  PROVE  Spoken(SetExits(g, b, x))
<1> DEFINE h == SetExits(g, b, x)
<1>1. /\ Blocs(h) = Blocs(g) /\ Alike(g, h, {"exits", "prevcount"})
      /\ h.exits = [g.exits EXCEPT ![b] = x]
  BY SetExitsFacts
<1>2. DOMAIN g.exits = Blocs(g)
  BY DEF Sane, Linked
<1> HIDE DEF h
<1>3. h.stmts = g.stmts
  BY <1>1, AlikeStmts
<1>4. \A c \in Blocs(g) : h.exits[c] = x \/ h.exits[c] = g.exits[c]
  BY <1>1, <1>2
<1>5. Spoken(h)
  BY <1>1, <1>3, <1>4 DEF Spoken
<1> QED BY <1>5 DEF h

\* ... or one, to a bloc that the other does not lead to.
LEMMA SetExitSpoken ==
  ASSUME NEW g, Sane(g), Spoken(g), NEW b \in Blocs(g), NEW alt \in BOOLEAN, NEW t \in Blocs(g),
         alt => g.exits[b].nat # nil, ~ Has(g.exits[b], t)
  PROVE  Spoken(SetExit(g, b, alt, t))
<1> DEFINE h == SetExit(g, b, alt, t)   y == g.exits[b]   x == Put(y, alt, t)
<1>1. /\ Blocs(h) = Blocs(g) /\ Alike(g, h, {"exits", "prevcount"})
      /\ h.exits = [g.exits EXCEPT ![b] = Put(@, alt, t)]
  BY SetExitFacts
<1>2. DOMAIN g.exits = Blocs(g) /\ y \in ExitsTo(Blocs(g))
  BY DEF Sane, Linked
<1> HIDE DEF h
<1>3. h.stmts = g.stmts
  BY <1>1, AlikeStmts
<1>4. Parted(x)
  <2>1. x.nat = (IF alt THEN y.nat ELSE t) /\ x.odd = (IF alt THEN t ELSE y.odd)
    BY <1>2 DEF Put, ExitsTo
  <2> HIDE DEF x
  <2> QED BY <2>1 DEF Parted, Has
<1> HIDE DEF x, y
<1>5. \A c \in Blocs(g) : h.exits[c] = x \/ h.exits[c] = g.exits[c]
  BY <1>1, <1>2 DEF x, y
<1>6. Spoken(h)
  BY <1>1, <1>3, <1>4, <1>5 DEF Spoken
<1> QED BY <1>6 DEF h

\* A bloc is duplicated.
LEMMA DuplicateSpoken ==
  ASSUME NEW g, Sane(g), Spoken(g), NEW b \in Blocs(g)
  PROVE  Spoken(Duplicate(g, b))
<1> DEFINE ss == g.stmts[b]   k == NewBloc(g, ss)   n == g.fresh   x == g.exits[b]
<1>1. Duplicate(g, b) = SetExits(k, n, x)
  BY DEF Duplicate
<1>2. Formed(ss) /\ Parted(x)
  BY DEF Spoken
<1>3. Sane(k) /\ Blocs(k) = Blocs(g) \cup {n}
  BY NewBlocFacts
<1>4. x \in ExitsTo(Blocs(g)) /\ (x.nat = nil => x.odd = nil)
  BY DEF Sane, Linked
<1> HIDE DEF ss
<1>5. Spoken(k)
  BY <1>2, NewBlocSpoken
<1> HIDE DEF k, n, x
<1>6. x \in ExitsTo(Blocs(k)) /\ n \in Blocs(k)
  BY <1>3, <1>4 DEF ExitsTo
<1> QED BY <1>1, <1>2, <1>3, <1>4, <1>5, <1>6, SetExitsSpoken

\* ... and an edge is led to the duplicate.
LEMMA DuplicateWorstSpoken ==
  ASSUME NEW g, Sane(g), Spoken(g), IncomingEdges(g) # {}
  PROVE  Spoken(DuplicateWorst(g))
<1> DEFINE ord == Ordering(g)   E == IncomingEdges(g)   B == Blocs(g)   n == g.fresh
           worst == CHOOSE e \in E : \A f \in E :
                      ~ LexLess(EdgeRank(g, ord, f), EdgeRank(g, ord, e))
           o == worst[1]   alt == worst[2]
           end == Get(g.exits[o], alt)
           d == Duplicate(g, end)
<1>1. DuplicateWorst(g) = SetExit(d, o, alt, n)
  BY Zenon DEF DuplicateWorst
<1>2. \A e \in E : Entering(g, e) /\ EdgeRank(g, ord, e) \in Nat \X Nat \X Nat \X Nat \X Nat
  BY IncomingFacts, RankFacts
<1>3. worst \in E
  <2> DEFINE r == [e \in E |-> EdgeRank(g, ord, e)]
  <2>1. \A e \in E : r[e] = EdgeRank(g, ord, e) /\ r[e] \in Nat \X Nat \X Nat \X Nat \X Nat
    BY <1>2
  <2> HIDE DEF r, ord, E
  <2>2. \E x \in E : \A y \in E : ~ LexLess(r[y], r[x])
    BY <2>1, WorstExists DEF E
  <2>3. \E x \in E : \A y \in E : ~ LexLess(EdgeRank(g, ord, y), EdgeRank(g, ord, x))
    BY <2>1, <2>2
  <2> QED BY <2>3
<1> HIDE DEF worst, E, ord
<1>4. worst \in B \X BOOLEAN /\ end \in B
  BY <1>2, <1>3 DEF Entering
<1>5. o \in B /\ alt \in BOOLEAN
  BY <1>4
<1> HIDE DEF o, alt
<1>6. g.exits[o] \in ExitsTo(B) /\ nil \notin B /\ (g.exits[o].nat = nil => g.exits[o].odd = nil)
  BY <1>5, PoolFacts DEF Sane, Linked
<1>7. alt => g.exits[o].nat # nil
  BY <1>4, <1>6 DEF Get
<1> HIDE DEF end
<1>8. /\ Sane(d) /\ n \notin B /\ n # nil /\ Blocs(d) = B \cup {n} /\ d.exits[o] = g.exits[o]
      /\ Spoken(d)
  <2>1. /\ Sane(d) /\ g.fresh \notin Blocs(g) /\ g.fresh \in Nat \ {nil, entry_bloc}
        /\ Blocs(d) = Blocs(g) \cup {g.fresh}
        /\ \A b \in Blocs(g) : d.exits[b] = g.exits[b]
    BY <1>4, DuplicateFacts
  <2>2. Spoken(d)
    BY <1>4, DuplicateSpoken
  <2> QED BY <1>5, <2>1, <2>2
<1> HIDE DEF d, n
<1>9. ~ Has(d.exits[o], n)
  BY <1>6, <1>8 DEF Has, ExitsTo
<1>10. o \in Blocs(d) /\ n \in Blocs(d) /\ (alt => d.exits[o].nat # nil)
  BY <1>5, <1>7, <1>8
<1> QED BY <1>1, <1>5, <1>8, <1>9, <1>10, SetExitSpoken

\* One bloc is given a complete code.
LEMMA SaysSpoken ==
  ASSUME NEW g, Sane(g), Spoken(g), NEW b, NEW h, NEW s, Says(g, h, b, s), Formed(s)
  PROVE  Spoken(h)
<1>1. Blocs(h) = Blocs(g) /\ h.exits = g.exits
  BY KinSame DEF Says
<1>2. h.stmts[b] = s /\ \A c \in Blocs(g) \ {b} : h.stmts[c] = g.stmts[c]
  BY DEF Says
<1> QED BY <1>1, <1>2 DEF Spoken

\* k is h with the blocs and codes of h.
LEMMA KinSpoken ==
  ASSUME NEW g, Sane(g), Spoken(g), NEW h, Kin(g, h), h.stmts = g.stmts
  PROVE  Spoken(h)
<1>1. Blocs(h) = Blocs(g) /\ h.exits = g.exits
  BY KinSame
<1> QED BY <1>1 DEF Spoken

\* A bloc is sent to a funnel that it does not lead to yet.
LEMMA FunnelBlocSpoken ==
  ASSUME NEW h, Sane(h), Spoken(h), NEW b \in Blocs(h), NEW n \in Blocs(h), NEW v,
         NEW x \in ExitsTo(Blocs(h)), x.nat # nil, x.odd # nil, ~ Has(h.exits[b], n)
  PROVE  Spoken(FunnelBloc(h, b, x, v, n))
<1> DEFINE B == Blocs(h)
           y == h.exits[b]
           cex == Common(y, x)
           choice == Which(y, cex)
           inverted == Xor(Which(x, cex), choice)
           dual == Get(y, ~ choice) = Get(x, ~ Xor(inverted, choice))
           straight == Has(y, nil)
           s == <<"source", v, b>>
           with(f, r) == [t \in DOMAIN f \union {s} |-> IF t = s THEN r ELSE f[t]]
           r1 == with(h.source, [prev |-> IF straight THEN <<>> ELSE Last(h.stmts[b]), var |-> v])
           r2 == with(h.term, [term |-> lcc, inv |-> IF straight THEN Xor(inverted, choice)
                                                          ELSE inverted])
           p == [AppendStmt(h, b, s) EXCEPT !.source = r1, !.term = r2]
           k == FunnelBloc(h, b, x, v, n)
<1>1. h = [f \in Fields |-> h[f]] /\ h.exits \in [B -> ExitsTo(B)] /\ nil \notin B
      /\ (y.nat = nil => y.odd = nil)
  BY PoolFacts DEF Sane, Pooled, Linked
<1>2. k = IF cex = nil THEN h
          ELSE IF dual THEN SetExits(CondTerm(h, b, v, inverted), b, Exits(n, nil))
          ELSE SetExit(p, b, choice, n)
  <2> DEFINE a == AppendStmt(h, b, s)
  <2>1. a.source = h.source /\ a.term = h.term
    BY <1>1 DEF AppendStmt, Fields
  <2>2. k = IF cex = nil THEN h
          ELSE IF dual THEN SetExits(CondTerm(h, b, v, inverted), b, Exits(n, nil))
          ELSE SetExit([a EXCEPT
                    !.source = with(@, [prev |-> IF straight THEN <<>> ELSE Last(h.stmts[b]),
                                        var |-> v]),
                    !.term = with(@, [term |-> lcc, inv |-> IF straight THEN Xor(inverted, choice)
                                                          ELSE inverted])],
                 b, choice, n)
    BY Zenon DEF FunnelBloc
  <2> HIDE DEF a, k, cex, dual, inverted, choice, straight
  <2> QED BY <2>1, <2>2 DEF a
<1>3. choice \in BOOLEAN /\ (cex # nil => (choice => y.nat # nil))
  <2> HIDE DEF y
  <2> QED BY <1>1, ShiftFacts
<1> SUFFICES Spoken(k)
  OBVIOUS
<1> HIDE DEF k
<1> DEFINE inv == inverted   alt == choice
<1> HIDE DEF inv, alt
<1>4. CASE cex = nil
  <2>1. k = h
    BY <1>2, <1>4
  <2> HIDE DEF cex, dual, y
  <2> QED BY <2>1
<1>5. CASE cex # nil /\ dual
  <2> DEFINE q == CondTerm(h, b, v, inv)   z == Exits(n, nil)
  <2>1. k = SetExits(q, b, z)
    <3> HIDE DEF cex, dual, inverted
    <3>1. k = SetExits(CondTerm(h, b, v, inverted), b, z)
      BY <1>2, <1>5
    <3> QED BY <3>1 DEF inv
  <2>2. Kin(h, q) /\ q.stmts = h.stmts
    BY CondSays
  <2> HIDE DEF q
  <2>3. Sane(q) /\ Blocs(q) = B
    BY <2>2, KinSame
  <2>4. z \in ExitsTo(B) /\ (z.nat = nil => z.odd = nil) /\ Parted(z)
    BY <1>1 DEF ExitsTo, Exits, Parted
  <2> HIDE DEF z, cex, dual, y
  <2>5. Spoken(q)
    BY <2>2, KinSpoken
  <2> QED BY <2>1, <2>3, <2>4, <2>5, SetExitsSpoken
<1>6. CASE cex # nil /\ ~ dual
  <2>1. k = SetExit(p, b, alt, n)
    <3> HIDE DEF cex, dual, p, choice
    <3>1. k = SetExit(p, b, choice, n)
      BY <1>2, <1>6
    <3> QED BY <3>1 DEF alt
  <2>2. Kin(h, p) /\ Spoken(p)
    <3> DEFINE a == AppendStmt(h, b, s)   e == Append(h.stmts[b], s)
    <3>0. Formed(e)
      <4>1. Neutral(s) /\ ~ Jumps(s)
        BY TokenFacts
      <4> HIDE DEF s
      <4> QED BY <4>1, MoreSaid DEF Spoken
    <3> HIDE DEF s, r1, r2
    <3>1. Says(h, a, b, e)
      BY AppendSays
    <3> HIDE DEF a, e, y, cex, choice, dual
    <3>2. Kin(h, a) /\ Spoken(a)
      BY <3>0, <3>1, SaysSpoken DEF Says
    <3>3. a = [f \in Fields |-> a[f]] /\ Sane(a)
      BY <3>2, KinFields, KinSame
    <3>4. Kin(a, p) /\ p.stmts = a.stmts
      <4>1. p = [a EXCEPT !.source = r1, !.term = r2]
        BY DEF a
      <4> HIDE DEF p
      <4>2. p = [f \in Fields |-> p[f]] /\ \A f \in Fields \ {"source", "term"} : p[f] = a[f]
        BY <4>1, <3>3 DEF Fields
      <4> QED BY <4>2 DEF Kin, Alike, Fields
    <3> HIDE DEF p
    <3> QED BY <3>2, <3>3, <3>4, KinTrans, KinSpoken
  <2> HIDE DEF p
  <2>3. Sane(p) /\ Blocs(p) = B /\ p.exits = h.exits
    BY <2>2, KinSame
  <2>4. alt \in BOOLEAN /\ (alt => y.nat # nil)
    BY <1>3, <1>6 DEF alt
  <2>5. b \in Blocs(p) /\ n \in Blocs(p) /\ (alt => p.exits[b].nat # nil) /\ ~ Has(p.exits[b], n)
    BY <2>3, <2>4
  <2> HIDE DEF cex, dual, y
  <2> QED BY <2>1, <2>2, <2>3, <2>4, <2>5, SetExitSpoken
<1> HIDE DEF cex, dual
<1> QED BY <1>4, <1>5, <1>6

\* The blocs that were not sent to the funnel yet are as they were.
Filling(g, h, n, D) ==
  /\ Sane(h) /\ Blocs(h) = Blocs(g) \cup {n} /\ Spoken(h)
  /\ \A b \in Blocs(g) \ D : h.exits[b] = g.exits[b]

\* ... so is each bloc of a part in its turn.
LEMMA FillOne ==
  ASSUME NEW g, Sane(g), NEW h, NEW n, n \notin Blocs(g), n # nil,
         NEW x \in ExitsTo(Blocs(g)), x.nat # nil, x.odd # nil,
         NEW D, NEW b \in Blocs(g) \ D, Filling(g, h, n, D), NEW v
  PROVE  Filling(g, FunnelBloc(h, b, x, v, n), n, D \cup {b})
<1> DEFINE k == FunnelBloc(h, b, x, v, n)
<1>1. Sane(h) /\ Spoken(h) /\ Blocs(h) = Blocs(g) \cup {n} /\ h.exits[b] = g.exits[b]
  BY DEF Filling
<1>2. x \in ExitsTo(Blocs(h)) /\ b \in Blocs(h) /\ n \in Blocs(h) /\ n \notin Targets(x)
  BY <1>1 DEF ExitsTo, Targets
<1>3. g.exits[b] \in ExitsTo(Blocs(g))
  BY DEF Sane, Linked
<1>4. ~ Has(h.exits[b], n)
  BY <1>1, <1>3 DEF Has, ExitsTo
<1>5. Spoken(k)
  BY <1>1, <1>2, <1>4, FunnelBlocSpoken
<1>6. Sending(h, k, b, Targets(x), n)
  BY <1>1, <1>2, FunnelBlocFacts
<1> HIDE DEF k
<1>7. Sane(k) /\ Blocs(k) = Blocs(h) /\ \A c \in Blocs(h) \ {b} : k.exits[c] = h.exits[c]
  BY <1>6 DEF Sending
<1>8. Filling(g, k, n, D \cup {b})
  BY <1>1, <1>5, <1>7 DEF Filling
<1> QED BY <1>8 DEF k

\* A part of the graph is sent to a funnel.
LEMMA FunnelSpoken ==
  ASSUME NEW g, Sane(g), Spoken(g), NEW R \in SUBSET Blocs(g),
         NEW e \in PartExits(g, R), NEW f \in PartExits(g, R), e # f
  PROVE  Spoken(Funnel(g, R, Exits(e, f)))
<1> DEFINE x == Exits(e, f)   v == g.vars + 1   n == g.fresh   B == Blocs(g)   C == B \cup {n}
           a == [g EXCEPT !.vars = v]   ss == << <<"sink", v>> >>
           z == NewBloc(a, ss)
           made == SetExits(z, n, x)
           order == SetToSeq(R)
           L == Len(order)
           sent == Sends(made, order, x, v, n)
           h == sent[L]
<1>1. Funnel(g, R, x) = h
  BY Zenon DEF Funnel, Sends
<1>2. /\ g = [y \in Fields |-> g[y]] /\ nil \notin B /\ \A b \in B : Succ(g, b) \subseteq B
  <2>1. g = [y \in Fields |-> g[y]] /\ g.exits \in [B -> ExitsTo(B)] /\ nil \notin B
    BY PoolFacts DEF Sane, Pooled, Linked
  <2> QED BY <2>1 DEF Succ, ExitsTo, Targets
<1>3. e \in B /\ f \in B /\ e # nil /\ f # nil
  <2>1. e \in UNION {Succ(g, b) : b \in R} /\ f \in UNION {Succ(g, b) : b \in R}
    BY DEF PartExits
  <2> QED BY <2>1, <1>2
<1>4. x \in ExitsTo(B) /\ x.nat # nil /\ x.odd # nil /\ Parted(x)
  BY <1>3 DEF Exits, ExitsTo, Parted
<1>5. Kin(g, a) /\ a.stmts = g.stmts
  <2> HIDE DEF v
  <2>1. a = [y \in Fields |-> a[y]] /\ \A y \in Fields \ {"vars"} : a[y] = g[y]
    BY <1>2 DEF Fields
  <2> HIDE DEF a
  <2> QED BY <2>1 DEF Kin, Alike, Fields
<1>6. Formed(ss)
  <2> DEFINE t == <<"sink", v>>
  <2>1. Neutral(t) /\ ~ Jumps(t)
    BY TokenFacts
  <2> HIDE DEF t
  <2>2. Formed(<<t>>)
    BY <2>1, LoneSaid
  <2> QED BY <2>2 DEF t
<1> HIDE DEF a, ss, v
<1>7. Sane(a) /\ Spoken(a) /\ Blocs(a) = B /\ a.exits = g.exits /\ a.fresh = n
  BY <1>5, KinSame, KinSpoken
<1>8. /\ Sane(z) /\ Spoken(z) /\ n \notin B /\ n # nil /\ Blocs(z) = C
      /\ \A b \in B : z.exits[b] = g.exits[b]
  <2>1. /\ Sane(z) /\ a.fresh \notin Blocs(a) /\ a.fresh \in Nat \ {nil, entry_bloc}
        /\ Blocs(z) = Blocs(a) \cup {a.fresh}
        /\ \A b \in Blocs(a) : z.exits[b] = a.exits[b]
    BY <1>7, NewBlocFacts
  <2>2. Spoken(z)
    BY <1>6, <1>7, NewBlocSpoken
  <2> QED BY <1>7, <2>1, <2>2
<1> HIDE DEF z, n, x
<1>9. Filling(g, made, n, {})
  <2>1. x \in ExitsTo(Blocs(z)) /\ (x.nat = nil => x.odd = nil) /\ n \in Blocs(z)
    BY <1>4, <1>8 DEF ExitsTo
  <2>2. /\ Sane(made) /\ Blocs(made) = Blocs(z) /\ made.exits = [z.exits EXCEPT ![n] = x]
    <3>1. Sane(z) /\ made = SetExits(z, n, x)
      BY <1>8
    <3> HIDE DEF made
    <3> QED BY <2>1, <3>1, SetExitsFacts
  <2>3. Spoken(made)
    BY <1>4, <1>8, <2>1, SetExitsSpoken
  <2> HIDE DEF made
  <2>4. \A b \in B : made.exits[b] = g.exits[b]
    <3>1. DOMAIN z.exits = C
      BY <1>8 DEF Sane, Linked
    <3> QED BY <1>8, <2>2, <3>1
  <2> QED BY <1>8, <2>2, <2>3, <2>4 DEF Filling
<1> HIDE DEF made
<1>10. order \in Seq(R) /\ ToSet(order) = R /\ IsInjective(order)
  <2>1. IsFiniteSet(R)
    <3>1. IsFiniteSet(B)
      BY PoolFacts DEF Sane
    <3> QED BY <3>1, FS_Subset
  <2> QED BY <2>1, SetToSeqFacts
<1> HIDE DEF order
<1>11. L \in Nat /\ (\A i \in 1 .. L : order[i] \in R)
       /\ \A i, j \in 1 .. L : order[i] = order[j] => i = j
  <2>1. DOMAIN order = 1 .. L /\ L \in Nat /\ \A i \in 1 .. L : order[i] \in R
    BY <1>10
  <2> QED BY <1>10, <2>1 DEF IsInjective
<1>12. sent[0] = made /\ \A i \in 1 .. L : sent[i] = FunnelBloc(sent[i - 1], order[i], x, v, n)
  <2>1. sent[0] = made /\ \A i \in 1 .. L : sent[i] = SendsAt(made, order, x, v, n, i, sent[i - 1])
    BY <1>11, SendsRec
  <2> HIDE DEF sent, L
  <2>2. \A i \in 1 .. L : i # 0
    BY <1>11
  <2> QED BY <2>1, <2>2 DEF SendsAt
<1> DEFINE D(i) == {order[j] : j \in 1 .. i}
           P(i) == Filling(g, sent[i], n, D(i))
           S == {i \in Nat : i <= L => P(i)}
<1> HIDE DEF sent, L
<1>13. 0 \in S
  <2>1. D(0) = {}
    OBVIOUS
  <2>2. P(0)
    BY <1>9, <1>12, <2>1
  <2> HIDE DEF P
  <2> QED BY <2>2
<1>14. ASSUME NEW i \in Nat, i \in S PROVE i + 1 \in S
  <2> SUFFICES ASSUME i + 1 <= L PROVE P(i + 1)
    OBVIOUS
  <2>1. i + 1 \in 1 .. L /\ (i + 1) - 1 = i /\ P(i)
    BY <1>11, <1>14
  <2> DEFINE d == sent[i]   k == sent[i + 1]   b == order[i + 1]   G == D(i)
  <2>2. k = FunnelBloc(d, b, x, v, n) /\ b \in B
    BY <1>11, <1>12, <2>1
  <2>3. Filling(g, d, n, G)
    BY <2>1
  <2>4. D(i + 1) = G \cup {b}
    <3>1. \A j \in 1 .. i + 1 : j = i + 1 \/ j \in 1 .. i
      OBVIOUS
    <3>2. i + 1 \in 1 .. i + 1 /\ \A j \in 1 .. i : j \in 1 .. i + 1
      OBVIOUS
    <3> QED BY <3>1, <3>2
  <2>5. b \notin G
    <3>1. \A j \in 1 .. i : j \in 1 .. L /\ j # i + 1
      BY <1>11, <2>1
    <3> QED BY <1>11, <2>1, <3>1
  <2> HIDE DEF d, k, b, G
  <2>6. Filling(g, FunnelBloc(d, b, x, v, n), n, G \cup {b})
    BY <1>4, <1>8, <2>2, <2>3, <2>5, FillOne
  <2>7. Filling(g, k, n, D(i + 1))
    BY <2>2, <2>4, <2>6
  <2> QED BY <2>7 DEF k
<1>15. L \in S
  <2> HIDE DEF S
  <2>1. Nat \subseteq S
    BY <1>13, <1>14, Induction
  <2> QED BY <1>11, <2>1
<1>16. Spoken(h)
  BY <1>11, <1>15 DEF Filling
<1> HIDE DEF h
<1> QED BY <1>1, <1>16 DEF x

\* The code of each bloc is complete, at each step; control starts at the
\* beginning of the code of the entry and stays in it.
Controlled ==
  /\ Spoken(lab)
  /\ phase \in {"decode", "collapse"} => pc = 1
  /\ phase = "run" => pc \in 1 .. Len(Code) + 1

\* It is so when the first instruction is fetched.
LEMMA ControlledInit == ASSUME Init PROVE Controlled
<1>1. lab = Fetched1 /\ phase = "decode" /\ pc = 1
  BY DEF Init
<1>2. Blocs(lab) = {entry_bloc} /\ lab.exits[entry_bloc] = NoExits
  BY <1>1, FetchedFacts
<1> DEFINE t == <<"insn", entry_bloc>>
<1>3. lab.stmts[entry_bloc] = <<t>>
  <2>1. lab.stmts = << <<t>> >>
    BY <1>1 DEF Fetched1
  <2> HIDE DEF t
  <2> QED BY <2>1 DEF entry_bloc
<1>4. Neutral(t) /\ ~ Jumps(t)
  BY TokenFacts
<1> HIDE DEF t
<1>5. Formed(<<t>>) /\ Parted(NoExits)
  BY <1>4, LoneSaid DEF Parted, NoExits, Exits
<1>6. Spoken(lab)
  BY <1>2, <1>3, <1>5 DEF Spoken
<1> QED BY <1>1, <1>6 DEF Controlled

\* An exit leads to a bloc already fetched,
LEMMA KnownSpoken ==
  ASSUME NEW g, Sane(g), Spoken(g), NEW w, Waiting(g, w), w # <<>>, NEW t \in Blocs(g),
         ~ Has(g.exits[Head(w)[1]], t)
  PROVE  Spoken(SetExit(g, Head(w)[1], Head(w)[2], t))
<1> DEFINE b == Head(w)[1]   alt == Head(w)[2]
<1>1. b \in Blocs(g) /\ alt \in BOOLEAN /\ (alt => g.exits[b].nat # nil) /\ ~ Has(g.exits[b], t)
  BY WaitingHead
<1> HIDE DEF b, alt
<1>2. Spoken(SetExit(g, b, alt, t))
  BY <1>1, SetExitSpoken
<1> QED BY <1>2 DEF b, alt

\* ... or to a new one.
LEMMA NewSpoken ==
  ASSUME NEW g, Sane(g), Spoken(g), NEW w, Waiting(g, w), w # <<>>, NEW ss, Formed(ss)
  PROVE  Spoken(SetExit(NewBloc(g, ss), Head(w)[1], Head(w)[2], g.fresh))
<1> DEFINE b == Head(w)[1]   alt == Head(w)[2]   f == NewBloc(g, ss)   n == g.fresh
<1>1. b \in Blocs(g) /\ alt \in BOOLEAN /\ (alt => g.exits[b].nat # nil)
  BY WaitingHead
<1>2. /\ Sane(f) /\ n \notin Blocs(g) /\ n # nil /\ Blocs(f) = Blocs(g) \cup {n}
      /\ \A c \in Blocs(g) : f.exits[c] = g.exits[c]
  BY NewBlocFacts
<1>3. Spoken(f)
  BY NewBlocSpoken
<1> HIDE DEF b, alt, f, n
<1>4. g.exits[b] \in ExitsTo(Blocs(g))
  BY <1>1 DEF Sane, Linked
<1>5. ~ Has(f.exits[b], n)
  BY <1>1, <1>2, <1>4 DEF Has, ExitsTo
<1>6. b \in Blocs(f) /\ n \in Blocs(f) /\ (alt => f.exits[b].nat # nil)
  BY <1>1, <1>2
<1>7. Spoken(SetExit(f, b, alt, n))
  BY <1>1, <1>2, <1>3, <1>5, <1>6, SetExitSpoken
<1> QED BY <1>7 DEF b, alt, f, n

\* decode keeps it.
LEMMA ControlledDecode == ASSUME Shaped, Controlled, Decode PROVE Controlled'
<1>1. /\ phase = "decode" /\ Sane(lab) /\ Waiting(lab, pending) /\ Spoken(lab) /\ pc = 1
      /\ pc' = pc /\ phase' \in {"decode", "collapse"}
  BY DEF Shaped, Controlled, Decode, DecodeKnown, DecodeNew, Decoded, runVars
<1>2. Spoken(lab')
  <2>1. CASE DecodeKnown
    <3>1. pending # <<>>
      BY <2>1 DEF DecodeKnown
    <3>2. PICK t \in Blocs(lab) : /\ ~ Has(lab.exits[Head(pending)[1]], t)
                                  /\ lab' = SetExit(lab, Head(pending)[1], Head(pending)[2], t)
      BY <2>1 DEF DecodeKnown
    <3> QED BY <1>1, <3>1, <3>2, KnownSpoken
  <2>2. CASE DecodeNew
    <3> DEFINE t == <<"insn", lab.fresh>>   ss == <<t>>
    <3>1. /\ pending # <<>>
          /\ lab' = SetExit(NewBloc(lab, ss), Head(pending)[1], Head(pending)[2], lab.fresh)
      BY <2>2 DEF DecodeNew
    <3>2. Neutral(t) /\ ~ Jumps(t)
      BY TokenFacts
    <3> HIDE DEF t
    <3>3. Formed(ss)
      BY <3>2, LoneSaid
    <3> HIDE DEF ss
    <3> QED BY <1>1, <3>1, <3>3, NewSpoken
  <2>3. CASE Decoded
    BY <1>1, <2>3 DEF Decoded
  <2> QED BY <2>1, <2>2, <2>3 DEF Decode
<1> QED BY <1>1, <1>2 DEF Controlled

\* Control starts at the beginning.
LEMMA ControlledEmit == ASSUME Shaped, Controlled, Emit PROVE Controlled'
<1>1. phase = "collapse" /\ phase' = "run" /\ lab' = lab /\ pc' = pc /\ Spoken(lab) /\ pc = 1
  BY DEF Emit, Controlled, runVars
<1>2. Len(Code) \in Nat
  <2>1. PICK S : Code \in Seq(S)
    <3>1. entry_bloc \in Blocs(lab)
      BY PoolFacts DEF Sane, Shaped
    <3> QED BY <1>1, <3>1 DEF Spoken, Formed, Code
  <2> QED BY <2>1
<1> QED BY <1>1, <1>2 DEF Controlled, Code

\* A round that makes such a graph.
LEMMA ControlledRewrite ==
  ASSUME Controlled, phase = "collapse", NEW g, Spoken(g), Rewrite(g),
         UNCHANGED <<pending, flow, runVars>>
  PROVE  Controlled'
<1>1. lab' = g /\ phase' \in {"thrown", "failed", phase} /\ pc' = pc /\ pc = 1
  BY DEF Rewrite, Controlled, runVars
<1>2. phase' # "run"
  BY <1>1
<1> QED BY <1>1, <1>2 DEF Controlled

\* The graph of a round.
LEMMA ControlledFacts ==
  ASSUME Shaped, Controlled, Collapsing
  PROVE  phase = "collapse" /\ Sane(lab) /\ Rooted(lab) /\ Spoken(lab) /\ lab.error = "none"
BY CollapsingFacts DEF Controlled

\* The group that a round merges.
LEMMA RoundGroup ==
  ASSUME NEW g, Sane(g), Rooted(g), Spoken(g), NEW p \in Patterns, FirstMatch(g, p) # NoMatch
  PROVE  Grouped(g, p, FirstMatch(g, p)) /\ Arranged(g, p, FirstMatch(g, p))
<1>1. \A b \in Blocs(g) : Parted(g.exits[b])
  BY DEF Spoken
<1> QED BY <1>1, FirstMatchFacts, FirstMatchArranged

\* A round that merges a sequence.
LEMMA ControlledStepSequence ==
  ASSUME Shaped, Controlled, StepSequence, UNCHANGED <<pending, flow, runVars>> PROVE Controlled'
<1>1. Collapsing /\ \E m \in {FirstMatch(lab, Seq2)} : m # NoMatch /\ Rewrite(MergeSubgraph(lab, m))
  BY DEF StepSequence
<1>2. phase = "collapse" /\ Sane(lab) /\ Rooted(lab) /\ Spoken(lab)
  BY <1>1, ControlledFacts
<1> DEFINE m == FirstMatch(lab, Seq2)   h == MergeSubgraph(lab, m)
<1>3. m # NoMatch /\ Rewrite(h)
  BY <1>1
<1>4. Seq2 \in Patterns
  BY DEF Patterns
<1>5. Grouped(lab, Seq2, m) /\ Arranged(lab, Seq2, m)
  BY <1>2, <1>3, <1>4, RoundGroup
<1> HIDE DEF m
<1>6. Spoken(h)
  BY <1>2, <1>5, SequenceSpoken DEF Arranged
<1> HIDE DEF h
<1> QED BY <1>2, <1>3, <1>6, ControlledRewrite

\* A form with a test is merged.
LEMMA ControlledIf ==
  ASSUME Shaped, Controlled, Collapsing, UNCHANGED <<pending, flow, runVars>>,
         NEW p \in Patterns, FirstMatch(lab, p) # NoMatch, NEW n, NEW closers, Closers(closers, n),
         Arranged(lab, p, FirstMatch(lab, p)) => Len(FirstMatch(lab, p).blocs) = n + 1,
         Rewrite(MergeIf(lab, FirstMatch(lab, p), closers))
  PROVE  Controlled'
<1> DEFINE m == FirstMatch(lab, p)   h == MergeIf(lab, m, closers)
<1>1. phase = "collapse" /\ Sane(lab) /\ Rooted(lab) /\ Spoken(lab)
  BY ControlledFacts
<1>2. Grouped(lab, p, m) /\ Arranged(lab, p, m) /\ Len(m.blocs) = n + 1
  BY <1>1, RoundGroup
<1> HIDE DEF m
<1>3. Spoken(h)
  BY <1>1, <1>2, IfSpoken DEF Arranged
<1>4. Rewrite(h)
  BY DEF m
<1> HIDE DEF h
<1> QED BY <1>1, <1>3, <1>4, ControlledRewrite

\* The tokens that close these forms.
LEMMA ClosersFacts == Closers(<< <<"}">> >>, 1) /\ Closers(<< <<"else">>, <<"}">> >>, 2)
<1> DEFINE o == <<"else">>   e == <<"}">>   one == <<e>>   two == <<o, e>>   i1 == 1   i2 == 2
<1> HIDE DEF o, e
<1>1. Len(one) = 1 /\ one[1] = e /\ Len(two) = 2 /\ two[1] = o /\ two[2] = e
  OBVIOUS
<1> HIDE DEF one, two
<1>2. /\ i1 \in Nat /\ i1 >= 1 /\ Len(one) = i1 /\ one[i1] = e /\ \A i \in 1 .. i1 - 1 : one[i] = o
      /\ i2 \in Nat /\ i2 >= 1 /\ Len(two) = i2 /\ two[i2] = e
  BY <1>1
<1>3. \A i \in 1 .. i2 - 1 : two[i] = o
  <2>1. \A i \in 1 .. i2 - 1 : i = 1
    OBVIOUS
  <2> QED BY <1>1, <2>1
<1> HIDE DEF i1, i2
<1>4. Closers(one, i1) /\ Closers(two, i2)
  BY Zenon, <1>2, <1>3 DEF Closers, o, e
<1> QED BY <1>4 DEF one, two, o, e, i1, i2

\* The rounds that merge them.
LEMMA ControlledStepIfs ==
  ASSUME Shaped, Controlled, StepIfThen \/ StepIfThenElse \/ StepExitIf,
         UNCHANGED <<pending, flow, runVars>>
  PROVE  Controlled'
<1>1. IfThen \in Patterns /\ IfThenElse \in Patterns /\ ExitIf \in Patterns
  BY DEF Patterns
<1>2. CASE StepIfThen
  <2>1. /\ Collapsing /\ FirstMatch(lab, IfThen) # NoMatch
        /\ Rewrite(MergeIf(lab, FirstMatch(lab, IfThen), << <<"}">> >>))
    BY <1>2 DEF StepIfThen
  <2> DEFINE c == << <<"}">> >>   p == IfThen
  <2>2. Closers(c, 1) /\ Rewrite(MergeIf(lab, FirstMatch(lab, p), c))
    BY <2>1, ClosersFacts
  <2>3. Arranged(lab, p, FirstMatch(lab, p)) => Len(FirstMatch(lab, p).blocs) = 1 + 1
    BY DEF Arranged
  <2>4. p \in Patterns /\ FirstMatch(lab, p) # NoMatch
    BY <1>1, <2>1
  <2> HIDE DEF c, p
  <2> QED BY <2>1, <2>2, <2>3, <2>4, ControlledIf
<1>3. CASE StepIfThenElse
  <2>1. /\ Collapsing /\ FirstMatch(lab, IfThenElse) # NoMatch
        /\ Rewrite(MergeIf(lab, FirstMatch(lab, IfThenElse), << <<"else">>, <<"}">> >>))
    BY <1>3 DEF StepIfThenElse
  <2> DEFINE c == << <<"else">>, <<"}">> >>   p == IfThenElse
  <2>2. Closers(c, 2) /\ Rewrite(MergeIf(lab, FirstMatch(lab, p), c))
    BY <2>1, ClosersFacts
  <2>3. Arranged(lab, p, FirstMatch(lab, p)) => Len(FirstMatch(lab, p).blocs) = 2 + 1
    BY DEF Arranged
  <2>4. p \in Patterns /\ FirstMatch(lab, p) # NoMatch
    BY <1>1, <2>1
  <2> HIDE DEF c, p
  <2> QED BY <2>1, <2>2, <2>3, <2>4, ControlledIf
<1>4. CASE StepExitIf
  <2>1. /\ Collapsing /\ FirstMatch(lab, ExitIf) # NoMatch
        /\ Rewrite(MergeIf(lab, FirstMatch(lab, ExitIf), << <<"}">> >>))
    BY <1>4 DEF StepExitIf
  <2> DEFINE c == << <<"}">> >>   p == ExitIf
  <2>2. Closers(c, 1) /\ Rewrite(MergeIf(lab, FirstMatch(lab, p), c))
    BY <2>1, ClosersFacts
  <2>3. Arranged(lab, p, FirstMatch(lab, p)) => Len(FirstMatch(lab, p).blocs) = 1 + 1
    BY DEF Arranged
  <2>4. p \in Patterns /\ FirstMatch(lab, p) # NoMatch
    BY <1>1, <2>1
  <2> HIDE DEF c, p
  <2> QED BY <2>1, <2>2, <2>3, <2>4, ControlledIf
<1> QED BY <1>2, <1>3, <1>4

\* A round that merges a loop: none of its blocs is lost, as no sequence is left.
LEMMA ControlledStepLoop ==
  ASSUME Shaped, Controlled, StepLoop, UNCHANGED <<pending, flow, runVars>> PROVE Controlled'
<1>1. /\ Collapsing /\ None({Seq2, IfThen, IfThenElse})
      /\ \E m \in {FirstMatch(lab, Loop)} : m # NoMatch /\ Rewrite(MergeLoop(lab, m))
  BY DEF StepLoop
<1>2. phase = "collapse" /\ Sane(lab) /\ Rooted(lab) /\ Spoken(lab)
  BY <1>1, ControlledFacts
<1> DEFINE m == FirstMatch(lab, Loop)   h == MergeLoop(lab, m)
<1>3. m # NoMatch /\ Rewrite(h)
  BY <1>1
<1>4. Loop \in Patterns /\ Seq2 \in Patterns
  BY DEF Patterns
<1>5. Grouped(lab, Loop, m) /\ Arranged(lab, Loop, m) /\ Accepted(Loop, m)
  BY <1>2, <1>3, <1>4, RoundGroup, FirstMatchFacts
<1> HIDE DEF m
<1>6. Has(m.exits, m.blocs[1]) /\ Led(lab, m.blocs) /\ Parted(m.exits)
  BY <1>5 DEF Accepted, Arranged
<1>7. \A b \in Blocs(lab) : ~ Accepted(Seq2, Match(lab, Seq2, b))
  BY <1>1, <1>2, <1>4, NoneFacts
<1>8. \A b \in ToSet(m.blocs) : ~ Lost(lab, m, Beyond(m), b)
  BY <1>2, <1>5, <1>6, <1>7, NoneLost DEF Beyond
<1>9. Spoken(h)
  BY <1>2, <1>5, <1>6, <1>8, LoopSpoken
<1> HIDE DEF h
<1> QED BY <1>2, <1>3, <1>9, ControlledRewrite

\* A round that makes a funnel.
LEMMA ControlledStepFunnel ==
  ASSUME Shaped, Controlled, StepFunnel, UNCHANGED <<pending, flow, runVars>> PROVE Controlled'
<1>1. Collapsing
  BY DEF StepFunnel
<1>2. phase = "collapse" /\ Sane(lab) /\ Rooted(lab) /\ Spoken(lab)
  BY <1>1, ControlledFacts
<1>3. PICK R \in Hammocks(lab) : \E e, f \in PartExits(lab, R) : e # f /\ Rewrite(Funnel(lab, R, Exits(e, f)))
  BY DEF StepFunnel
<1>4. PICK e \in PartExits(lab, R), f \in PartExits(lab, R) : e # f /\ Rewrite(Funnel(lab, R, Exits(e, f)))
  BY <1>3
<1>5. R \in SUBSET Blocs(lab)
  BY DEF Hammocks
<1> DEFINE h == Funnel(lab, R, Exits(e, f))
<1>6. Spoken(h)
  BY <1>2, <1>4, <1>5, FunnelSpoken
<1>7. Rewrite(h)
  BY <1>4
<1> HIDE DEF h
<1> QED BY <1>2, <1>6, <1>7, ControlledRewrite

\* A round that duplicates a bloc, or throws.
LEMMA ControlledStepDuplicate ==
  ASSUME Shaped, Controlled, StepDuplicate, UNCHANGED <<pending, flow, runVars>> PROVE Controlled'
<1>1. Collapsing
  BY DEF StepDuplicate
<1>2. phase = "collapse" /\ Sane(lab) /\ Rooted(lab) /\ Spoken(lab)
  BY <1>1, ControlledFacts
<1> DEFINE g == Refresh(lab)
           loop == [g EXCEPT !.error = "self-cycle"]
           bad == [g EXCEPT !.error = "bad graph"]
           h == IF g.error # "none" THEN g
                ELSE IF \E b \in Blocs(g) : b \in Succ(g, b) THEN loop
                ELSE IF IncomingEdges(g) = {} THEN bad
                ELSE DuplicateWorst(g)
<1>3. Rewrite(h)
  BY DEF StepDuplicate
<1>4. Sane(g) /\ Blocs(g) = Blocs(lab) /\ g.exits = lab.exits /\ Alike(lab, g, {"pool"})
  BY <1>2, RefreshFacts
<1> HIDE DEF g
<1>5. Spoken(g)
  <2>1. g.stmts = lab.stmts
    BY <1>4 DEF Alike, Fields
  <2> QED BY <1>2, <1>4, <2>1 DEF Spoken
<1>6. \A e : Spoken([g EXCEPT !.error = e])
  <2> SUFFICES ASSUME NEW e PROVE Spoken([g EXCEPT !.error = e])
    OBVIOUS
  <2> DEFINE d == [g EXCEPT !.error = e]
  <2>1. g = [f \in Fields |-> g[f]]
    BY <1>4 DEF Sane, Pooled
  <2>2. d.stmts = g.stmts /\ d.exits = g.exits /\ d.pool = g.pool
    BY <2>1 DEF Fields
  <2> HIDE DEF d
  <2>3. Spoken(d)
    BY <1>5, <2>2 DEF Spoken, Blocs
  <2> QED BY <2>3 DEF d
<1>7. Spoken(loop) /\ Spoken(bad)
  BY <1>6
<1>8. IncomingEdges(g) # {} => Spoken(DuplicateWorst(g))
  BY <1>4, <1>5, DuplicateWorstSpoken
<1> HIDE DEF loop, bad
<1>9. Spoken(h)
  BY <1>5, <1>7, <1>8
<1> HIDE DEF h
<1> QED BY <1>2, <1>3, <1>9, ControlledRewrite

\* The emitted code runs: it does not change.
LEMMA ControlledRun == ASSUME Shaped, Controlled, Run PROVE Controlled'
<1>1. phase = "run" /\ lab' = lab /\ Spoken(lab) /\ Sane(lab) /\ pc \in 1 .. Len(Code) + 1
      /\ phase' \notin {"decode", "collapse"}
  BY DEF Run, RunInsn, RunFunnel, RunControl, Diverge, Running, Controlled, Shaped
<1>2. Formed(Code) /\ Code' = Code
  <2>1. entry_bloc \in Blocs(lab)
    BY <1>1, PoolFacts DEF Sane
  <2> QED BY <1>1, <2>1 DEF Spoken, Code
<1> DEFINE s == Code
<1> HIDE DEF s
<1>3. Formed(s) /\ s = Code /\ s' = s
  BY <1>2 DEF s
<1>4. Len(s) \in Nat /\ \A i \in 1 .. Len(s) : \A c : Goto(s, i, c) \in 1 .. Len(s) + 1
  BY <1>3, FormedFacts DEF Formed
<1>5. phase' = "run" => pc' \in 1 .. Len(s) + 1
  <2>1. CASE RunInsn \/ RunFunnel
    <3>1. pc' = pc + 1 /\ pc <= Len(s)
      BY <1>3, <2>1 DEF RunInsn, RunFunnel, Running
    <3> QED BY <1>1, <1>3, <1>4, <3>1
  <2>2. CASE RunControl
    <3>1. pc <= Len(s) /\ \E c : pc' = Goto(s, pc, c)
      BY <1>3, <2>2 DEF RunControl, Running
    <3>2. pc \in 1 .. Len(s)
      BY <1>1, <1>3, <1>4, <3>1
    <3> QED BY <1>4, <3>1, <3>2
  <2>3. CASE Diverge
    BY <2>3 DEF Diverge
  <2> QED BY <2>1, <2>2, <2>3 DEF Run
<1>6. phase' = "run" => pc' \in 1 .. Len(Code') + 1
  BY <1>2, <1>3, <1>5
<1> QED BY <1>1, <1>6 DEF Controlled

\* Each step keeps it.
LEMMA ControlledNext == ASSUME Shaped, Controlled, [Next]_vars PROVE Controlled'
<1>1. CASE Decode
  BY <1>1, ControlledDecode
<1>2. CASE Round /\ UNCHANGED <<pending, flow, runVars>>
  BY <1>2, ControlledStepSequence, ControlledStepIfs, ControlledStepLoop, ControlledStepFunnel,
     ControlledStepDuplicate DEF Round
<1>3. CASE Emit
  BY <1>3, ControlledEmit
<1>4. CASE Run
  BY <1>4, ControlledRun
<1>5. CASE Over \/ UNCHANGED vars
  BY <1>5 DEF Over, Controlled, Code, vars, runVars
<1> QED BY <1>1, <1>2, <1>3, <1>4, <1>5 DEF Next, Step

\* The code that is emitted for a function, whatever its graph and the rewrites
\* that collapse it, has matched braces, each break and continue inside a loop,
\* and control, once in it, only goes to one of its statements or to its end
\* (Collapse::step, merge_loop, the statements' translate).
THEOREM CodeCorrect == Spec => []CodeWellFormed
<1>1. Shaped /\ Controlled => CodeWellFormed
  <2> SUFFICES ASSUME Shaped, Controlled, phase = "run"
               PROVE  WellFormed(Code) /\ pc \in 1 .. Len(Code) + 1
    BY DEF CodeWellFormed
  <2>1. entry_bloc \in Blocs(lab)
    BY PoolFacts DEF Sane, Shaped
  <2>2. Formed(Code)
    BY <2>1 DEF Controlled, Spoken, Code
  <2> QED BY <2>2, FormedFacts DEF Controlled
<1> QED BY <1>1, ShapedInit, ShapedNext, ControlledInit, ControlledNext, PTL DEF Spec
==============================================================================
