----------------------------- MODULE GraphProofs -----------------------------
(***************************************************************************)
(* Proofs about Decompile.tla and Comprehensive.tla, for functions, graphs *)
(* and test benches of any size: while a function is decoded and its graph *)
(* is collapsed, the blocs keep their types, their counts of references    *)
(* are exact, the entry leads to all of them and no exception but one can  *)
(* be thrown; the waves of the seed that generates the graphs of the test  *)
(* benches are all of the runs of its client, in lexicographic order.      *)
(*                                                                         *)
(* The invariant is Shaped, at the end of the first part.  Its steps rest  *)
(* on what each operation does to a graph that is Sane and Rooted: Link,   *)
(* Cut, Drop and Move of an exit, Delete of blocs, the search of a pattern *)
(* (Tried, Grouped, FirstMatchFacts), the statements that a merge adds     *)
(* (Built, ChainFacts, DriveFacts), and each of the merges.                *)
(***************************************************************************)
EXTENDS Decompile, Comprehensive, TLAPS, SequenceTheorems, FiniteSetTheorems,
        WellFoundedInduction

-----------------------------------------------------------------------------
(* Induction over the natural numbers, and functions defined by recursion. *)

\* The natural numbers are well founded by the order of numbers.
LEMMA Less == IsWellFoundedOn({p \in Nat \X Nat : p[1] < p[2]}, Nat)
BY NatLessThanWellFounded DEF OpToRel

\* Induction, on a set.
LEMMA Induction ==
  ASSUME NEW S, 0 \in S, \A n \in Nat : n \in S => n + 1 \in S
  PROVE  Nat \subseteq S
<1> DEFINE R == {p \in Nat \X Nat : p[1] < p[2]}
           T == Nat \ S
<1>1. SUFFICES ASSUME T # {} PROVE FALSE
  OBVIOUS
<1>2. PICK x \in T : \A y \in T : <<y, x>> \notin R
  <2>1. IsWellFoundedOn(R, Nat)
    BY Less
  <2>2. T \subseteq Nat
    OBVIOUS
  <2> HIDE DEF R, T
  <2>3. IsWellFoundedOn(R, T)
    BY <2>1, <2>2, IsWellFoundedOnSubset
  <2> QED BY <1>1, <2>3, WFMin
<1>3. x \in Nat /\ x \notin S /\ x # 0
  OBVIOUS
<1>4. x - 1 \in Nat /\ x - 1 \notin S
  BY <1>3
<1>5. <<x - 1, x>> \in R
  BY <1>3, <1>4
<1> QED BY <1>2, <1>4, <1>5

\* f is the function on 0 .. k with value a at 0, that step F[i] takes to i.
Rec(f, k, T, a, F) == /\ f \in [0 .. k -> T] /\ f[0] = a
                      /\ \A i \in 1 .. k : f[i] = F[i][f[i - 1]]

\* One step more.
LEMMA RecStep ==
  ASSUME NEW k \in Nat, NEW T, NEW a \in T, NEW F, F[k + 1] \in [T -> T],
         NEW f, Rec(f, k, T, a, F)
  PROVE  \E g : Rec(g, k + 1, T, a, F)
<1>1. f[k] \in T
  BY DEF Rec
<1>2. F[k + 1][f[k]] \in T
  BY <1>1
<1>3. PICK g : g = [i \in 0 .. k + 1 |-> IF i = k + 1 THEN F[k + 1][f[k]] ELSE f[i]]
  OBVIOUS
<1>4. \A i \in 0 .. k : g[i] = f[i] /\ f[i] \in T
  BY <1>3 DEF Rec
<1>5. g[k + 1] = F[k + 1][f[k]]
  BY <1>3
<1>6. g \in [0 .. k + 1 -> T]
  BY <1>2, <1>3, <1>4
<1>7. g[0] = a
  BY <1>4 DEF Rec
<1>8. ASSUME NEW i \in 1 .. k + 1 PROVE g[i] = F[i][g[i - 1]]
  <2>1. CASE i = k + 1
    BY <2>1, <1>4, <1>5
  <2>2. CASE i # k + 1
    BY <2>2, <1>4 DEF Rec
  <2> QED BY <2>1, <2>2
<1> QED BY <1>6, <1>7, <1>8 DEF Rec

\* A function defined by recursion on 0 .. n whose steps stay in T.
LEMMA Recursion ==
  ASSUME NEW n \in Nat, NEW T, NEW a \in T, NEW F, \A i \in 1 .. n : F[i] \in [T -> T]
  PROVE  \E f : Rec(f, n, T, a, F)
<1> DEFINE S == {k \in Nat : k <= n => \E f : Rec(f, k, T, a, F)}
<1>1. 0 \in S
  <2> DEFINE g == [i \in 0 .. 0 |-> a]
  <2>1. Rec(g, 0, T, a, F)
    BY DEF Rec
  <2> HIDE DEF g
  <2> QED BY <2>1
<1>2. ASSUME NEW k \in Nat, k \in S PROVE k + 1 \in S
  <2> SUFFICES ASSUME k + 1 <= n PROVE \E f : Rec(f, k + 1, T, a, F)
    OBVIOUS
  <2>1. PICK f : Rec(f, k, T, a, F)
    BY <1>2
  <2>2. F[k + 1] \in [T -> T]
    OBVIOUS
  <2> QED BY <2>1, <2>2, RecStep
<1>3. n \in S
  <2> HIDE DEF S
  <2> QED BY <1>1, <1>2, Induction
<1> QED BY <1>3

\* Two such functions agree.
LEMMA RecUnique ==
  ASSUME NEW n \in Nat, NEW m \in Nat, NEW T, NEW a, NEW F, NEW f, NEW g,
         Rec(f, n, T, a, F), Rec(g, m, T, a, F), n <= m
  PROVE  f[n] = g[n]
<1> DEFINE S == {k \in Nat : k <= n => f[k] = g[k]}
<1>1. 0 \in S
  BY DEF Rec
<1>2. ASSUME NEW k \in Nat, k \in S PROVE k + 1 \in S
  <2> SUFFICES ASSUME k + 1 <= n PROVE f[k + 1] = g[k + 1]
    OBVIOUS
  <2>1. f[k] = g[k] /\ k + 1 \in 1 .. n /\ k + 1 \in 1 .. m
    BY <1>2
  <2>2. f[k + 1] = F[k + 1][f[k]] /\ g[k + 1] = F[k + 1][g[k]]
    BY <2>1 DEF Rec
  <2> QED BY <2>1, <2>2
<1>3. n \in S
  <2> HIDE DEF S
  <2> QED BY <1>1, <1>2, Induction
<1> QED BY <1>3

-----------------------------------------------------------------------------
(* Graphs.                                                                 *)

Fields == {"pool", "exits", "prevcount", "stmts", "fresh", "error", "term", "source",
           "vars", "clash"}

\* The exits of the blocs of B that lead to t.
Links(ex, B, t) == {e \in B \X BOOLEAN : Get(ex[e[1]], e[2]) = t}

One(u, v) == IF u = v THEN 1 ELSE 0

Held(t) == One(t, entry_bloc)

\* The pool is a sequence of different names, used ones, the entry first.
Pooled(g) ==
  /\ g = [f \in Fields |-> g[f]]
  /\ g.pool \in Seq(Nat \ {nil}) /\ IsInjective(g.pool)
  /\ Len(g.pool) # 0 /\ g.pool[1] = entry_bloc
  /\ g.fresh \in Nat /\ \A b \in Blocs(g) : b < g.fresh
  /\ DOMAIN g.stmts = Blocs(g)

\* Exits lead to blocs of the pool, and the natural one is set first.
Linked(g) ==
  /\ g.exits \in [Blocs(g) -> ExitsTo(Blocs(g))]
  /\ \A b \in Blocs(g) : g.exits[b].nat = nil => g.exits[b].odd = nil

\* The counts of references are exact.
Counted(g) ==
  /\ g.prevcount \in [Blocs(g) -> Nat]
  /\ \A b \in Blocs(g) :
       g.prevcount[b] = Cardinality(Links(g.exits, Blocs(g), b)) + Held(b)

Sane(g) == Pooled(g) /\ Linked(g) /\ Counted(g)

\* The entry leads to every bloc: a set of blocs that has the entry and the
\* successors of its members is the whole pool.
Rooted(g) ==
  \A S \in SUBSET Blocs(g) :
    entry_bloc \in S /\ (\A b \in S : Succ(g, b) \subseteq S) => S = Blocs(g)

\* h is g but for some of its fields.
Alike(g, h, F) == /\ h = [f \in Fields |-> h[f]]
                  /\ \A f \in Fields \ F : h[f] = g[f]

\* The blocs of a graph.
LEMMA PoolFacts ==
  ASSUME NEW g, Pooled(g)
  PROVE  /\ Blocs(g) \subseteq Nat \ {nil} /\ IsFiniteSet(Blocs(g)) /\ entry_bloc \in Blocs(g)
         /\ Len(g.pool) \in Nat /\ DOMAIN g.pool = 1 .. Len(g.pool)
         /\ g.pool \in Seq(Blocs(g))
         /\ \A i \in 1 .. Len(g.pool) : g.pool[i] \in Blocs(g)
         /\ \A b \in Blocs(g) : \E i \in 1 .. Len(g.pool) : g.pool[i] = b
         /\ \A i, j \in 1 .. Len(g.pool) : g.pool[i] = g.pool[j] => i = j
         /\ Cardinality(Blocs(g)) = Len(g.pool)
<1>1. g.pool \in Seq(Nat \ {nil}) /\ Len(g.pool) \in Nat /\ DOMAIN g.pool = 1 .. Len(g.pool)
  BY DEF Pooled
<1>2. Blocs(g) = {g.pool[i] : i \in 1 .. Len(g.pool)}
  BY <1>1 DEF Blocs, ToSet
<1>3. \A i \in 1 .. Len(g.pool) : g.pool[i] \in Nat \ {nil}
  BY <1>1
<1>4. IsFiniteSet(1 .. Len(g.pool)) /\ Cardinality(1 .. Len(g.pool)) = Len(g.pool)
  BY <1>1, FS_Interval
<1>5. \A i, j \in 1 .. Len(g.pool) : g.pool[i] = g.pool[j] => i = j
  BY <1>1 DEF Pooled, IsInjective
<1>6. g.pool \in Bijection(1 .. Len(g.pool), Blocs(g))
  <2>1. g.pool \in [1 .. Len(g.pool) -> Blocs(g)]
    BY <1>1, <1>2
  <2> QED BY <2>1, <1>2, <1>5, <1>1 DEF Bijection, Injection, Surjection, IsInjective
<1>7. IsFiniteSet(Blocs(g)) /\ Cardinality(Blocs(g)) = Len(g.pool)
  <2>1. ExistsBijection(1 .. Len(g.pool), Blocs(g))
    BY <1>6 DEF ExistsBijection
  <2> QED BY <2>1, <1>4, FS_Bijection
<1>8. g.pool \in Seq(Blocs(g))
  <2>1. g.pool \in Seq(Range(g.pool))
    BY <1>1, SeqOfRange
  <2> QED BY <2>1 DEF Range, Blocs, ToSet
<1>9. entry_bloc \in Blocs(g)
  <2>1. 1 \in 1 .. Len(g.pool) /\ g.pool[1] = entry_bloc
    BY <1>1 DEF Pooled
  <2> QED BY <2>1, <1>2
<1> QED BY <1>1, <1>2, <1>3, <1>5, <1>7, <1>8, <1>9

\* The exits of b among those that lead to t.
LEMMA LinksSplit ==
  ASSUME NEW B, IsFiniteSet(B), NEW ex, NEW b \in B, NEW t
  PROVE  /\ IsFiniteSet(Links(ex, B, t)) /\ Cardinality(Links(ex, B, t)) \in Nat
         /\ Cardinality(Links(ex, B \ {b}, t)) \in Nat
         /\ Cardinality(Links(ex, B, t)) = Cardinality(Links(ex, B \ {b}, t))
              + One(ex[b].nat, t) + One(ex[b].odd, t)
<1> DEFINE R == Links(ex, B \ {b}, t)
           R1 == IF ex[b].nat = t THEN R \cup {<<b, FALSE>>} ELSE R
           R2 == IF ex[b].odd = t THEN R1 \cup {<<b, TRUE>>} ELSE R1
<1>1. IsFiniteSet(B \X BOOLEAN) /\ IsFiniteSet((B \ {b}) \X BOOLEAN)
  <2>1. IsFiniteSet({TRUE, FALSE}) /\ BOOLEAN = {TRUE, FALSE}
    <3>1. IsFiniteSet({} \cup {TRUE}) /\ IsFiniteSet(({} \cup {TRUE}) \cup {FALSE})
      BY FS_EmptySet, FS_AddElement
    <3>2. ({} \cup {TRUE}) \cup {FALSE} = {TRUE, FALSE}
      OBVIOUS
    <3> QED BY <3>1, <3>2
  <2>2. IsFiniteSet(B \ {b})
    BY FS_RemoveElement
  <2> QED BY <2>1, <2>2, FS_Product
<1>2. IsFiniteSet(R) /\ IsFiniteSet(Links(ex, B, t))
  <2>1. R \subseteq (B \ {b}) \X BOOLEAN /\ Links(ex, B, t) \subseteq B \X BOOLEAN
    BY DEF Links
  <2> QED BY <2>1, <1>1, FS_Subset
<1>3. <<b, FALSE>> \notin R /\ <<b, TRUE>> \notin R
  BY DEF Links
<1>4. R2 = Links(ex, B, t)
  <2>1. ASSUME NEW e \in B \X BOOLEAN PROVE e \in R2 <=> e \in Links(ex, B, t)
    <3>1. PICK c \in B, alt \in BOOLEAN : e = <<c, alt>>
      OBVIOUS
    <3>2. CASE c # b
      BY <3>1, <3>2 DEF Links
    <3>3. CASE c = b
      BY <3>1, <3>3, <1>3 DEF Links, Get
    <3> QED BY <3>2, <3>3
  <2>2. R \subseteq B \X BOOLEAN /\ Links(ex, B, t) \subseteq B \X BOOLEAN
    BY DEF Links
  <2>3. <<b, FALSE>> \in B \X BOOLEAN /\ <<b, TRUE>> \in B \X BOOLEAN
    OBVIOUS
  <2> HIDE DEF R
  <2>4. R2 \subseteq B \X BOOLEAN
    BY <2>2, <2>3
  <2> QED BY <2>1, <2>2, <2>4
<1> HIDE DEF R
<1>5. IsFiniteSet(R1)
      /\ Cardinality(R1) = Cardinality(R) + (IF ex[b].nat = t THEN 1 ELSE 0)
  <2>1. Cardinality(R) \in Nat
    BY <1>2, FS_CardinalityType
  <2>2. CASE ex[b].nat = t
    BY <2>1, <2>2, <1>2, <1>3, FS_AddElement
  <2>3. CASE ex[b].nat # t
    BY <2>1, <2>3, <1>2
  <2> QED BY <2>2, <2>3
<1>6. <<b, TRUE>> \notin R1
  BY <1>3
<1> HIDE DEF R1
<1>7. IsFiniteSet(R2)
      /\ Cardinality(R2) = Cardinality(R1) + (IF ex[b].odd = t THEN 1 ELSE 0)
  <2>1. Cardinality(R1) \in Nat
    BY <1>5, FS_CardinalityType
  <2>2. CASE ex[b].odd = t
    BY <2>1, <2>2, <1>5, <1>6, FS_AddElement
  <2>3. CASE ex[b].odd # t
    BY <2>1, <2>3, <1>5
  <2> QED BY <2>2, <2>3
<1>8. Cardinality(R) \in Nat
  BY <1>2, FS_CardinalityType
<1> HIDE DEF R2
<1>9. Cardinality(R2) \in Nat
  BY <1>7, FS_CardinalityType
<1> QED BY <1>4, <1>5, <1>7, <1>8, <1>9 DEF R, One

\* The exits of b, a bloc of g, become x, and the references follow.
Relinked(g, h, b, x) ==
  /\ Alike(g, h, {"exits", "prevcount"})
  /\ h.exits = [g.exits EXCEPT ![b] = x]
  /\ h.prevcount \in [Blocs(g) -> Int]
  /\ \A t \in Blocs(g) :
       h.prevcount[t] = g.prevcount[t] + One(x.nat, t) + One(x.odd, t)
                          - One(g.exits[b].nat, t) - One(g.exits[b].odd, t)

\* Fields that the structure of the graph does not depend on.
LEMMA AlikeSane ==
  ASSUME NEW g, NEW h, NEW F, Sane(g), Alike(g, h, F),
         F \subseteq {"stmts", "error", "term", "source", "vars", "clash"},
         DOMAIN h.stmts = DOMAIN g.stmts
  PROVE  /\ Sane(h) /\ Blocs(h) = Blocs(g)
         /\ h.pool = g.pool /\ h.exits = g.exits /\ h.prevcount = g.prevcount
         /\ h.fresh = g.fresh
<1>1. h.pool = g.pool /\ h.exits = g.exits /\ h.prevcount = g.prevcount
      /\ h.fresh = g.fresh /\ h = [f \in Fields |-> h[f]]
  BY DEF Alike, Fields
<1>2. Blocs(h) = Blocs(g)
  BY <1>1 DEF Blocs
<1> QED BY <1>1, <1>2 DEF Sane, Pooled, Linked, Counted

LEMMA RelinkedSane ==
  ASSUME NEW g, NEW h, Sane(g), NEW b \in Blocs(g), NEW x \in ExitsTo(Blocs(g)),
         x.nat = nil => x.odd = nil, Relinked(g, h, b, x)
  PROVE  /\ Sane(h) /\ Blocs(h) = Blocs(g)
<1>1. h.pool = g.pool /\ h.stmts = g.stmts /\ h.fresh = g.fresh /\ h = [f \in Fields |-> h[f]]
  BY DEF Relinked, Alike, Fields
<1>2. Blocs(h) = Blocs(g)
  BY <1>1 DEF Blocs
<1>3. Pooled(h)
  BY <1>1, <1>2 DEF Sane, Pooled
<1>4. h.exits = [g.exits EXCEPT ![b] = x] /\ g.exits \in [Blocs(g) -> ExitsTo(Blocs(g))]
  BY DEF Relinked, Sane, Linked
<1>5. Linked(h)
  BY <1>2, <1>4 DEF Sane, Linked
<1>6. ASSUME NEW t \in Blocs(g)
      PROVE  /\ h.prevcount[t] \in Nat
             /\ h.prevcount[t] = Cardinality(Links(h.exits, Blocs(g), t)) + Held(t)
  <2>1. IsFiniteSet(Blocs(g))
    BY PoolFacts DEF Sane
  <2>2. Links(h.exits, Blocs(g) \ {b}, t) = Links(g.exits, Blocs(g) \ {b}, t)
    BY <1>4 DEF Links
  <2>3. h.exits[b] = x
    BY <1>4
  <2>4. /\ Cardinality(Links(g.exits, Blocs(g) \ {b}, t)) \in Nat
        /\ Cardinality(Links(g.exits, Blocs(g), t))
             = Cardinality(Links(g.exits, Blocs(g) \ {b}, t))
                 + One(g.exits[b].nat, t) + One(g.exits[b].odd, t)
    <3> DEFINE ex == g.exits   B == Blocs(g)
    <3> HIDE DEF ex, B
    <3>1. IsFiniteSet(B) /\ b \in B
      BY <2>1 DEF B
    <3>2. /\ Cardinality(Links(ex, B \ {b}, t)) \in Nat
          /\ Cardinality(Links(ex, B, t)) = Cardinality(Links(ex, B \ {b}, t))
               + One(ex[b].nat, t) + One(ex[b].odd, t)
      BY <3>1, LinksSplit
    <3> QED BY <3>2 DEF ex, B
  <2>5. Cardinality(Links(h.exits, Blocs(g), t))
             = Cardinality(Links(g.exits, Blocs(g) \ {b}, t)) + One(x.nat, t) + One(x.odd, t)
    <3> DEFINE ex == h.exits   B == Blocs(g)
    <3> HIDE DEF ex, B
    <3>1. IsFiniteSet(B) /\ b \in B
      BY <2>1 DEF B
    <3>2. /\ Cardinality(Links(ex, B \ {b}, t)) \in Nat
          /\ Cardinality(Links(ex, B, t)) = Cardinality(Links(ex, B \ {b}, t))
               + One(ex[b].nat, t) + One(ex[b].odd, t)
      BY <3>1, LinksSplit
    <3> QED BY <3>2, <2>2, <2>3 DEF ex, B
  <2>6. g.prevcount[t] = Cardinality(Links(g.exits, Blocs(g), t)) + Held(t)
    BY DEF Sane, Counted
  <2>7. h.prevcount[t] = g.prevcount[t] + One(x.nat, t) + One(x.odd, t)
                          - One(g.exits[b].nat, t) - One(g.exits[b].odd, t)
    BY DEF Relinked
  <2>9. Held(t) \in Nat
    BY DEF Held, One
  <2>10. One(x.nat, t) \in Nat /\ One(x.odd, t) \in Nat
         /\ One(g.exits[b].nat, t) \in Nat /\ One(g.exits[b].odd, t) \in Nat
    BY DEF One
  <2> QED BY <2>4, <2>5, <2>6, <2>7, <2>9, <2>10
<1>7. h.prevcount \in [Blocs(g) -> Nat]
  <2>1. h.prevcount \in [Blocs(g) -> Int]
    BY DEF Relinked
  <2> QED BY <2>1, <1>6
<1>8. Counted(h)
  BY <1>2, <1>6, <1>7 DEF Counted
<1> QED BY <1>2, <1>3, <1>5, <1>8 DEF Sane

LEMMA RefFacts ==
  ASSUME NEW B, nil \notin B, NEW c \in [B -> Int], NEW u \in B \cup {nil}
  PROVE  /\ Ref(c, u) \in [B -> Int] /\ Unref(c, u) \in [B -> Int]
         /\ \A t \in B : /\ Ref(c, u)[t] = c[t] + One(u, t)
                         /\ Unref(c, u)[t] = c[t] - One(u, t)
BY DEF Ref, Unref, One

LEMMA SetExitsFacts ==
  ASSUME NEW g, Sane(g), NEW b \in Blocs(g), NEW x \in ExitsTo(Blocs(g)),
         x.nat = nil => x.odd = nil
  PROVE  LET h == SetExits(g, b, x)
         IN  /\ Sane(h) /\ Blocs(h) = Blocs(g) /\ Alike(g, h, {"exits", "prevcount"})
             /\ h.exits = [g.exits EXCEPT ![b] = x]
<1> DEFINE h == SetExits(g, b, x)
           B == Blocs(g)
           old == g.exits[b]
           ref == Ref(Ref(g.prevcount, x.nat), x.odd)
<1>1. g = [f \in Fields |-> g[f]] /\ g.prevcount \in [B -> Nat] /\ B \subseteq Nat \ {nil}
      /\ g.exits \in [B -> ExitsTo(B)]
  BY PoolFacts DEF Sane, Pooled, Counted, Linked
<1>2. old \in ExitsTo(B)
  BY <1>1
<1>3. h = [[g EXCEPT !.prevcount = Unref(Unref(ref, old.nat), old.odd)] EXCEPT
             !.exits = [g.exits EXCEPT ![b] = x]]
  BY <1>1 DEF SetExits, Fields
<1>4. /\ h = [f \in Fields |-> h[f]] /\ \A f \in Fields \ {"exits", "prevcount"} : h[f] = g[f]
      /\ h.exits = [g.exits EXCEPT ![b] = x]
      /\ h.prevcount = Unref(Unref(ref, old.nat), old.odd)
  <2> HIDE DEF h, ref, old
  <2> QED BY <1>1, <1>3 DEF Fields
<1>5. nil \notin B
  BY <1>1
<1>6. /\ x.nat \in B \cup {nil} /\ x.odd \in B \cup {nil}
      /\ old.nat \in B \cup {nil} /\ old.odd \in B \cup {nil}
  BY <1>2 DEF ExitsTo
<1>7. /\ h.prevcount \in [B -> Int]
      /\ \A t \in B : h.prevcount[t] = g.prevcount[t] + One(x.nat, t) + One(x.odd, t)
                         - One(old.nat, t) - One(old.odd, t)
  <2> DEFINE c1 == Ref(g.prevcount, x.nat)
             c2 == Ref(c1, x.odd)
             c3 == Unref(c2, old.nat)
             c4 == Unref(c3, old.odd)
  <2> HIDE DEF h, old
  <2>1. g.prevcount \in [B -> Int]
    BY <1>1
  <2> HIDE DEF B
  <2>2. c1 \in [B -> Int] /\ \A t \in B : c1[t] = g.prevcount[t] + One(x.nat, t)
    BY <2>1, <1>5, <1>6, RefFacts
  <2> HIDE DEF c1
  <2>3. c2 \in [B -> Int] /\ \A t \in B : c2[t] = c1[t] + One(x.odd, t)
    BY <2>2, <1>5, <1>6, RefFacts
  <2> HIDE DEF c2
  <2>4. c3 \in [B -> Int] /\ \A t \in B : c3[t] = c2[t] - One(old.nat, t)
    BY <2>3, <1>5, <1>6, RefFacts
  <2> HIDE DEF c3
  <2>5. c4 \in [B -> Int] /\ \A t \in B : c4[t] = c3[t] - One(old.odd, t)
    BY <2>4, <1>5, <1>6, RefFacts
  <2>6. h.prevcount = c4
    BY <1>4 DEF c1, c2, c3
  <2> HIDE DEF c4
  <2>7. \A t \in B : One(x.nat, t) \in Nat /\ One(x.odd, t) \in Nat /\ One(old.nat, t) \in Nat
                     /\ One(old.odd, t) \in Nat
    BY DEF One
  <2> QED BY <2>1, <2>2, <2>3, <2>4, <2>5, <2>6, <2>7
<1>8. Relinked(g, h, b, x)
  <2> HIDE DEF h
  <2> QED BY <1>4, <1>7 DEF Relinked, Alike
<1> HIDE DEF h
<1>9. Sane(h) /\ Blocs(h) = Blocs(g)
  BY <1>8, RelinkedSane
<1>10. Alike(g, h, {"exits", "prevcount"})
  BY <1>8 DEF Relinked
<1> QED BY <1>4, <1>9, <1>10 DEF h

LEMMA SetExitFacts ==
  ASSUME NEW g, Sane(g), NEW b \in Blocs(g), NEW alt \in BOOLEAN, NEW t \in Blocs(g),
         alt => g.exits[b].nat # nil
  PROVE  LET h == SetExit(g, b, alt, t)
         IN  /\ Sane(h) /\ Blocs(h) = Blocs(g) /\ Alike(g, h, {"exits", "prevcount"})
             /\ h.exits = [g.exits EXCEPT ![b] = Put(@, alt, t)]
<1> DEFINE h == SetExit(g, b, alt, t)
           B == Blocs(g)
           old == g.exits[b]
           x == Put(old, alt, t)
           o == Get(old, alt)
<1>1. g = [f \in Fields |-> g[f]] /\ g.prevcount \in [B -> Nat] /\ B \subseteq Nat \ {nil}
      /\ g.exits \in [B -> ExitsTo(B)]
  BY PoolFacts DEF Sane, Pooled, Counted, Linked
<1>2. old \in ExitsTo(B) /\ old.nat \in B \cup {nil} /\ old.odd \in B \cup {nil}
  BY <1>1 DEF ExitsTo
<1>3. x \in ExitsTo(B) /\ (x.nat = nil => x.odd = nil) /\ o \in B \cup {nil}
  BY <1>1, <1>2 DEF ExitsTo, Put, Get
<1>4. h = [[g EXCEPT !.prevcount = Unref(Ref(g.prevcount, t), o)] EXCEPT
             !.exits = [g.exits EXCEPT ![b] = x]]
  BY <1>1 DEF SetExit, Fields
<1>5. /\ h = [f \in Fields |-> h[f]] /\ \A f \in Fields \ {"exits", "prevcount"} : h[f] = g[f]
      /\ h.exits = [g.exits EXCEPT ![b] = x]
      /\ h.prevcount = Unref(Ref(g.prevcount, t), o)
  <2> HIDE DEF h, x, o
  <2> QED BY <1>1, <1>4 DEF Fields
<1>6. /\ h.prevcount \in [B -> Int]
      /\ \A u \in B : h.prevcount[u] = g.prevcount[u] + One(t, u) - One(o, u)
  <2> DEFINE c == Ref(g.prevcount, t)
  <2> HIDE DEF h, x, o
  <2>1. nil \notin B /\ g.prevcount \in [B -> Int] /\ t \in B
    BY <1>1
  <2>2. o \in B \cup {nil}
    BY <1>3
  <2>3. h.prevcount = Unref(c, o)
    BY <1>5
  <2> HIDE DEF B
  <2>4. c \in [B -> Int] /\ \A u \in B : c[u] = g.prevcount[u] + One(t, u)
    BY <2>1, RefFacts
  <2> HIDE DEF c
  <2>5. Unref(c, o) \in [B -> Int] /\ \A u \in B : Unref(c, o)[u] = c[u] - One(o, u)
    BY <2>1, <2>2, <2>4, RefFacts
  <2>6. \A u \in B : One(t, u) \in Nat /\ One(o, u) \in Nat
    BY DEF One
  <2> QED BY <2>1, <2>3, <2>4, <2>5, <2>6
<1>7. \A u \in B : One(t, u) - One(o, u)
                     = One(x.nat, u) + One(x.odd, u) - One(old.nat, u) - One(old.odd, u)
  <2>1. CASE alt
    <3>1. x.nat = old.nat /\ x.odd = t /\ o = old.odd
      BY <2>1, <1>2 DEF Put, Get, ExitsTo
    <3> HIDE DEF x, o, old
    <3> QED BY <3>1 DEF One
  <2>2. CASE ~ alt
    <3>1. x.nat = t /\ x.odd = old.odd /\ o = old.nat
      BY <2>2, <1>2 DEF Put, Get, ExitsTo
    <3> HIDE DEF x, o, old
    <3> QED BY <3>1 DEF One
  <2> QED BY <2>1, <2>2
<1>8. Relinked(g, h, b, x)
  <2>1. \A u \in B : /\ One(t, u) \in Nat /\ One(o, u) \in Nat /\ One(x.nat, u) \in Nat
                     /\ One(x.odd, u) \in Nat /\ One(old.nat, u) \in Nat /\ One(old.odd, u) \in Nat
    BY DEF One
  <2>2. \A u \in B : h.prevcount[u] = g.prevcount[u] + One(x.nat, u) + One(x.odd, u)
                         - One(old.nat, u) - One(old.odd, u)
    <3> HIDE DEF h, x, o, old
    <3> QED BY <1>1, <1>6, <1>7, <2>1
  <2> HIDE DEF h, x
  <2> QED BY <1>5, <1>6, <2>2 DEF Relinked, Alike
<1> HIDE DEF h, x
<1>9. Sane(h) /\ Blocs(h) = Blocs(g)
  BY <1>3, <1>8, RelinkedSane
<1>10. Alike(g, h, {"exits", "prevcount"})
  BY <1>8 DEF Relinked
<1>11. h.exits = [g.exits EXCEPT ![b] = Put(@, alt, t)]
  BY <1>5 DEF x
<1> QED BY <1>9, <1>10, <1>11 DEF h

LEMMA NewBlocFacts ==
  ASSUME NEW g, Sane(g), NEW ss
  PROVE  LET h == NewBloc(g, ss)
         IN  /\ Sane(h) /\ g.fresh \notin Blocs(g) /\ g.fresh \in Nat \ {nil, entry_bloc}
             /\ Blocs(h) = Blocs(g) \cup {g.fresh} /\ h.fresh = g.fresh + 1
             /\ Alike(g, h, {"pool", "exits", "prevcount", "stmts", "fresh"})
             /\ h.exits[g.fresh] = NoExits
             /\ \A b \in Blocs(g) : h.exits[b] = g.exits[b]
             /\ Len(h.pool) = Len(g.pool) + 1
<1> DEFINE h == NewBloc(g, ss)
           B == Blocs(g)
           n == g.fresh
           C == B \cup {n}
<1>1. g = [f \in Fields |-> g[f]] /\ g.prevcount \in [B -> Nat] /\ B \subseteq Nat \ {nil}
      /\ g.exits \in [B -> ExitsTo(B)] /\ DOMAIN g.stmts = B /\ entry_bloc \in B
      /\ n \in Nat /\ \A b \in B : b < n
  BY PoolFacts DEF Sane, Pooled, Counted, Linked
<1>2. n \notin B /\ n \in Nat \ {nil, entry_bloc}
  BY <1>1 DEF nil, entry_bloc
<1>3. /\ h.pool = Append(g.pool, n) /\ h.fresh = n + 1
      /\ h.exits = [b \in C |-> IF b = n THEN NoExits ELSE g.exits[b]]
      /\ h.prevcount = [b \in C |-> IF b = n THEN 0 ELSE g.prevcount[b]]
      /\ h.stmts = [b \in C |-> IF b = n THEN ss ELSE g.stmts[b]]
      /\ h = [f \in Fields |-> h[f]]
      /\ \A f \in Fields \ {"pool", "exits", "prevcount", "stmts", "fresh"} : h[f] = g[f]
  <2>1. DOMAIN g.exits = B /\ DOMAIN g.prevcount = B /\ DOMAIN g.stmts = B
    BY <1>1
  <2> QED BY <1>1, <2>1 DEF NewBloc, Fields
<1> HIDE DEF h
<1>4. g.pool \in Seq(Nat \ {nil}) /\ Len(g.pool) \in Nat \ {0} /\ g.pool[1] = entry_bloc
      /\ DOMAIN g.pool = 1 .. Len(g.pool)
      /\ B = {g.pool[i] : i \in 1 .. Len(g.pool)}
      /\ \A i, j \in 1 .. Len(g.pool) : g.pool[i] = g.pool[j] => i = j
  BY PoolFacts DEF Sane, Pooled, Blocs, ToSet
<1>5. h.pool \in Seq(Nat \ {nil}) /\ Len(h.pool) = Len(g.pool) + 1
      /\ (\A i \in 1 .. Len(g.pool) : h.pool[i] = g.pool[i]) /\ h.pool[Len(g.pool) + 1] = n
      /\ DOMAIN h.pool = 1 .. Len(g.pool) + 1
  BY <1>2, <1>3, <1>4
<1>6. Blocs(h) = C
  <2>1. Blocs(h) = {h.pool[i] : i \in 1 .. Len(g.pool) + 1}
    BY <1>5 DEF Blocs, ToSet
  <2>2. \A i \in 1 .. Len(g.pool) + 1 : i \in 1 .. Len(g.pool) \/ i = Len(g.pool) + 1
    BY <1>4
  <2>3. \A i \in 1 .. Len(g.pool) : i \in 1 .. Len(g.pool) + 1
    BY <1>4
  <2>4. Len(g.pool) + 1 \in 1 .. Len(g.pool) + 1
    BY <1>4
  <2> HIDE DEF B
  <2>5. ASSUME NEW b \in C PROVE b \in Blocs(h)
    <3>1. CASE b = n
      BY <3>1, <2>1, <2>4, <1>5
    <3>2. CASE b \in B
      <4>1. PICK i \in 1 .. Len(g.pool) : g.pool[i] = b
        BY <3>2, <1>4
      <4>2. h.pool[i] = b /\ i \in 1 .. Len(g.pool) + 1
        BY <4>1, <1>5, <2>3
      <4> QED BY <4>2, <2>1
    <3> QED BY <3>1, <3>2
  <2>6. ASSUME NEW b \in Blocs(h) PROVE b \in C
    <3>1. PICK i \in 1 .. Len(g.pool) + 1 : h.pool[i] = b
      BY <2>1
    <3>2. CASE i = Len(g.pool) + 1
      BY <3>1, <3>2, <1>5
    <3>3. CASE i \in 1 .. Len(g.pool)
      <4>1. h.pool[i] = g.pool[i] /\ g.pool[i] \in B
        BY <3>3, <1>4, <1>5
      <4> QED BY <4>1, <3>1
    <3> QED BY <3>2, <3>3, <2>2
  <2> QED BY <2>5, <2>6
<1>7. IsInjective(h.pool)
  <2>1. ASSUME NEW i \in 1 .. Len(g.pool) + 1, NEW j \in 1 .. Len(g.pool) + 1,
               h.pool[i] = h.pool[j]
        PROVE  i = j
    <3>1. \A k \in 1 .. Len(g.pool) : h.pool[k] \in B
      BY <1>4, <1>5
    <3>2. \A k \in 1 .. Len(g.pool) + 1 : k \in 1 .. Len(g.pool) \/ k = Len(g.pool) + 1
      BY <1>4
    <3>3. CASE i \in 1 .. Len(g.pool) /\ j \in 1 .. Len(g.pool)
      BY <2>1, <3>3, <1>4, <1>5
    <3>4. CASE i = Len(g.pool) + 1 /\ j \in 1 .. Len(g.pool)
      BY <2>1, <3>1, <3>4, <1>2, <1>5
    <3>5. CASE j = Len(g.pool) + 1 /\ i \in 1 .. Len(g.pool)
      BY <2>1, <3>1, <3>5, <1>2, <1>5
    <3> QED BY <3>2, <3>3, <3>4, <3>5
  <2> QED BY <2>1, <1>5 DEF IsInjective
<1>8. Pooled(h)
  <2>1. \A b \in C : b < n + 1
    BY <1>1
  <2>2. h.pool[1] = entry_bloc
    BY <1>4, <1>5
  <2>3. Len(h.pool) # 0 /\ h.pool \in Seq(Nat \ {nil}) /\ h.fresh = n + 1 /\ n + 1 \in Nat
    BY <1>1, <1>3, <1>4, <1>5
  <2>4. DOMAIN h.stmts = C
    BY <1>3
  <2> HIDE DEF C, B
  <2> QED BY <1>3, <1>6, <1>7, <2>1, <2>2, <2>3, <2>4 DEF Pooled
<1>9. Linked(h)
  <2>1. NoExits \in ExitsTo(C) /\ NoExits.nat = nil /\ NoExits.odd = nil
    BY DEF NoExits, Exits, ExitsTo
  <2>2. ExitsTo(B) \subseteq ExitsTo(C)
    BY DEF ExitsTo
  <2>3. \A b \in C : h.exits[b] = IF b = n THEN NoExits ELSE g.exits[b]
    BY <1>3
  <2>4. \A b \in C : h.exits[b] \in ExitsTo(C)
    BY <2>1, <2>2, <2>3, <1>1
  <2>5. h.exits \in [C -> ExitsTo(C)]
    BY <2>4, <1>3
  <2>6. \A b \in C : h.exits[b].nat = nil => h.exits[b].odd = nil
    BY <2>1, <2>3 DEF Sane, Linked
  <2> QED BY <1>6, <2>5, <2>6 DEF Linked
<1>10. ASSUME NEW t \in C
       PROVE  h.prevcount[t] = Cardinality(Links(h.exits, C, t)) + Held(t)
  <2>1. ASSUME NEW e \in C \X BOOLEAN, Get(h.exits[e[1]], e[2]) = t
        PROVE  e[1] # n
    BY <2>1, <1>1, <1>2, <1>3 DEF Get, NoExits, Exits
  <2>2. Links(h.exits, C, t) = Links(g.exits, B, t)
    <3>1. ASSUME NEW e \in C \X BOOLEAN, Get(h.exits[e[1]], e[2]) = t
          PROVE  e \in B \X BOOLEAN /\ Get(g.exits[e[1]], e[2]) = t
      <4>1. e[1] \in B /\ e[2] \in BOOLEAN /\ e = <<e[1], e[2]>>
        BY <2>1, <3>1
      <4>2. h.exits[e[1]] = g.exits[e[1]]
        BY <4>1, <1>2, <1>3
      <4> QED BY <3>1, <4>1, <4>2
    <3>2. ASSUME NEW e \in B \X BOOLEAN, Get(g.exits[e[1]], e[2]) = t
          PROVE  e \in C \X BOOLEAN /\ Get(h.exits[e[1]], e[2]) = t
      <4>1. e[1] \in B /\ e \in C \X BOOLEAN
        OBVIOUS
      <4>2. h.exits[e[1]] = g.exits[e[1]]
        BY <4>1, <1>2, <1>3
      <4> QED BY <3>2, <4>1, <4>2
    <3> HIDE DEF B, C
    <3> QED BY <3>1, <3>2, Zenon DEF Links
  <2>3. CASE t = n
    <3>1. \A e \in B \X BOOLEAN : Get(g.exits[e[1]], e[2]) \in B \cup {nil}
      BY <1>1 DEF Get, ExitsTo
    <3>2. Links(g.exits, B, t) = {}
      BY <2>3, <3>1, <1>2 DEF Links
    <3>3. h.prevcount[t] = 0 /\ Held(t) = 0
      BY <2>3, <1>2, <1>3 DEF Held, One
    <3>4. Cardinality(Links(h.exits, C, t)) = 0
      BY <2>2, <3>2, FS_EmptySet
    <3> QED BY <3>3, <3>4
  <2>4. CASE t # n
    BY <2>2, <2>4, <1>3 DEF Sane, Counted
  <2> QED BY <2>3, <2>4
<1>11. Counted(h)
  <2>1. \A b \in C : h.prevcount[b] \in Nat
    BY <1>1, <1>3
  <2>2. h.prevcount \in [C -> Nat]
    BY <1>3, <2>1
  <2> HIDE DEF C
  <2> QED BY <1>6, <1>10, <2>2 DEF Counted
<1> QED BY <1>2, <1>3, <1>5, <1>6, <1>8, <1>9, <1>11 DEF h, Sane, Alike

LEMMA DuplicateFacts ==
  ASSUME NEW g, Sane(g), NEW b \in Blocs(g)
  PROVE  LET h == Duplicate(g, b)
         IN  /\ Sane(h) /\ g.fresh \notin Blocs(g) /\ g.fresh \in Nat \ {nil, entry_bloc}
             /\ Blocs(h) = Blocs(g) \cup {g.fresh} /\ h.error = g.error
             /\ h.exits[g.fresh] = g.exits[b]
             /\ \A c \in Blocs(g) : h.exits[c] = g.exits[c]
<1> DEFINE k == NewBloc(g, g.stmts[b])
           n == g.fresh
           x == g.exits[b]
           h == SetExits(k, n, x)
<1>1. /\ Sane(k) /\ n \notin Blocs(g) /\ n \in Nat \ {nil, entry_bloc}
      /\ Blocs(k) = Blocs(g) \cup {n}
      /\ Alike(g, k, {"pool", "exits", "prevcount", "stmts", "fresh"})
      /\ k.exits[n] = NoExits
      /\ \A c \in Blocs(g) : k.exits[c] = g.exits[c]
  BY NewBlocFacts
<1>2. x \in ExitsTo(Blocs(k)) /\ (x.nat = nil => x.odd = nil)
  <2>1. x \in ExitsTo(Blocs(g)) /\ (x.nat = nil => x.odd = nil)
    BY DEF Sane, Linked
  <2>2. ExitsTo(Blocs(g)) \subseteq ExitsTo(Blocs(k))
    BY <1>1 DEF ExitsTo
  <2> QED BY <2>1, <2>2
<1>3. n \in Blocs(k) /\ k.exits \in [Blocs(k) -> ExitsTo(Blocs(k))]
  BY <1>1 DEF Sane, Linked
<1>4. k.error = g.error
  BY <1>1 DEF Alike, Fields
<1> HIDE DEF k, x, n
<1>5. /\ Sane(h) /\ Blocs(h) = Blocs(k) /\ Alike(k, h, {"exits", "prevcount"})
      /\ h.exits = [k.exits EXCEPT ![n] = x]
  BY <1>1, <1>2, <1>3, SetExitsFacts
<1>6. h.error = k.error
  BY <1>5 DEF Alike, Fields
<1>7. h = Duplicate(g, b)
  BY DEF Duplicate, k, n, x
<1> HIDE DEF h
<1>8. h.exits[n] = x /\ \A c \in Blocs(g) : h.exits[c] = g.exits[c]
  BY <1>1, <1>3, <1>5
<1> QED BY <1>1, <1>4, <1>5, <1>6, <1>7, <1>8 DEF n, x

\* What Delete keeps of the pool.
LEMMA PoolKept ==
  ASSUME NEW g, Pooled(g), NEW bs \in SUBSET (Blocs(g) \ {entry_bloc})
  PROVE  LET keep == Blocs(g) \ bs
             p == Delete(g, bs).pool
         IN  p \in Seq(keep) /\ IsInjective(p) /\ Len(p) # 0 /\ p[1] = entry_bloc
             /\ ToSet(p) = keep
<1> DEFINE B == Blocs(g)
           keep == B \ bs
           L == Len(g.pool)
           T == Seq(B)
           F == [i \in 1 .. L |-> [s \in T |-> IF g.pool[i] \in bs THEN s
                                               ELSE Append(s, g.pool[i])]]
           pool[i \in 0 .. L] ==
             IF i = 0 THEN <<>>
             ELSE IF g.pool[i] \in bs THEN pool[i - 1]
             ELSE Append(pool[i - 1], g.pool[i])
<1>1. Delete(g, bs).pool = pool[L]
  <2>1. "pool" \in DOMAIN g
    BY DEF Pooled, Fields
  <2> QED BY <2>1 DEF Delete
<1>2. /\ L \in Nat /\ L # 0 /\ g.pool[1] = entry_bloc /\ entry_bloc \in B /\ entry_bloc \notin bs
      /\ \A i \in 1 .. L : g.pool[i] \in B
      /\ \A i, j \in 1 .. L : g.pool[i] = g.pool[j] => i = j
      /\ \A b \in B : \E i \in 1 .. L : g.pool[i] = b
  BY Zenon, PoolFacts DEF Pooled
<1>3. pool = [i \in 0 .. L |-> IF i = 0 THEN <<>>
                               ELSE IF g.pool[i] \in bs THEN pool[i - 1]
                               ELSE Append(pool[i - 1], g.pool[i])]
  <2>1. <<>> \in T
    OBVIOUS
  <2>2. \A i \in 1 .. L : F[i] \in [T -> T]
    BY <1>2
  <2> HIDE DEF pool, T, F, L
  <2>3. PICK f : Rec(f, L, T, <<>>, F)
    BY <2>1, <2>2, <1>2, Recursion
  <2>4. ASSUME NEW i \in 0 .. L
        PROVE  f[i] = IF i = 0 THEN <<>>
                      ELSE IF g.pool[i] \in bs THEN f[i - 1]
                      ELSE Append(f[i - 1], g.pool[i])
    <3>1. CASE i = 0
      BY <3>1, <2>3 DEF Rec
    <3>2. CASE i # 0
      <4>1. i \in 1 .. L /\ i - 1 \in 0 .. L
        BY <3>2, <1>2
      <4>2. f[i] = F[i][f[i - 1]] /\ f[i - 1] \in T
        BY <4>1, <2>3 DEF Rec
      <4> QED BY <4>1, <4>2, <3>2 DEF F
    <3> QED BY <3>1, <3>2
  <2>5. f = [i \in 0 .. L |-> f[i]]
    BY <2>3 DEF Rec
  <2>6. f = [i \in 0 .. L |-> IF i = 0 THEN <<>>
                              ELSE IF g.pool[i] \in bs THEN f[i - 1]
                              ELSE Append(f[i - 1], g.pool[i])]
    BY <2>4, <2>5
  <2> QED BY Zenon, <2>6 DEF pool
<1> HIDE DEF pool, F, T, L, B
<1>4. pool[0] = <<>> /\ \A i \in 1 .. L : pool[i] = IF g.pool[i] \in bs THEN pool[i - 1]
                                                    ELSE Append(pool[i - 1], g.pool[i])
  <2>1. 0 \in 0 .. L /\ \A i \in 1 .. L : i \in 0 .. L /\ i # 0
    BY <1>2
  <2>2. \A i \in 0 .. L : pool[i] = IF i = 0 THEN <<>>
                                   ELSE IF g.pool[i] \in bs THEN pool[i - 1]
                                   ELSE Append(pool[i - 1], g.pool[i])
    BY <1>3
  <2> QED BY <2>1, <2>2
<1> DEFINE P(s, k) == /\ s \in Seq(keep) /\ IsInjective(s)
                      /\ \A j \in 1 .. Len(s) : \E i \in 1 .. k : s[j] = g.pool[i]
                      /\ \A i \in 1 .. k : g.pool[i] \in bs \/ \E j \in 1 .. Len(s) : s[j] = g.pool[i]
                      /\ k # 0 => Len(s) # 0 /\ s[1] = entry_bloc
           S == {k \in Nat : k <= L => P(pool[k], k)}
<1>5. 0 \in S
  <2>1. P(<<>>, 0)
    BY DEF IsInjective
  <2> HIDE DEF P
  <2> QED BY <2>1, <1>4
<1>6. ASSUME NEW k \in Nat, k \in S PROVE k + 1 \in S
  <2> SUFFICES ASSUME k + 1 <= L PROVE P(pool[k + 1], k + 1)
    OBVIOUS
  <2> DEFINE s == pool[k]   b == g.pool[k + 1]   t == Append(s, b)
  <2>1. P(s, k) /\ k + 1 \in 1 .. L /\ (k + 1) - 1 = k /\ b \in B
    BY <1>2, <1>6
  <2>2. \A i \in 1 .. k + 1 : i \in 1 .. k \/ i = k + 1
    OBVIOUS
  <2>3. \A i \in 1 .. k : i \in 1 .. k + 1 /\ i \in 1 .. L /\ i # k + 1
    BY <1>2
  <2>4. k + 1 \in 1 .. k + 1
    OBVIOUS
  <2>5. CASE b \in bs
    <3>1. pool[k + 1] = s
      BY <1>4, <2>1, <2>5
    <3>2. k # 0
      BY <2>5, <1>2
    <3> HIDE DEF s
    <3>3. P(s, k + 1)
      BY <2>1, <2>2, <2>3, <2>5, <3>2
    <3> QED BY <3>1, <3>3
  <2>6. CASE b \notin bs
    <3>1. pool[k + 1] = t
      BY <1>4, <2>1, <2>6
    <3> HIDE DEF s, b, P
    <3>2. s \in Seq(keep) /\ Len(s) \in Nat /\ b \in keep
      BY <2>1, <2>6 DEF P
    <3>3. /\ t \in Seq(keep) /\ Len(t) = Len(s) + 1 /\ t[Len(s) + 1] = b
          /\ \A j \in 1 .. Len(s) : t[j] = s[j]
      BY <3>2
    <3>4. \A j \in 1 .. Len(s) + 1 : j \in 1 .. Len(s) \/ j = Len(s) + 1
      BY <3>2
    <3>5. \A j \in 1 .. Len(s) : j \in 1 .. Len(s) + 1
      BY <3>2
    <3>6. Len(s) + 1 \in 1 .. Len(s) + 1
      BY <3>2
    <3> HIDE DEF t
    <3>7. \A j \in 1 .. Len(s) : s[j] # b
      <4>1. ASSUME NEW j \in 1 .. Len(s), s[j] = b PROVE FALSE
        <5>1. PICK i \in 1 .. k : s[j] = g.pool[i]
          BY <2>1 DEF P
        <5>2. g.pool[i] = g.pool[k + 1] /\ i \in 1 .. L /\ k + 1 \in 1 .. L
          BY <5>1, <4>1, <2>1, <2>3 DEF b
        <5>3. i = k + 1
          BY <5>2, <1>2
        <5> QED BY <5>3, <2>3
      <4> QED BY <4>1
    <3>8. IsInjective(t)
      <4>1. DOMAIN t = 1 .. Len(s) + 1 /\ DOMAIN s = 1 .. Len(s)
        BY <3>2, <3>3
      <4>2. \A i, j \in 1 .. Len(s) : s[i] = s[j] => i = j
        BY <4>1, <2>1 DEF P, IsInjective
      <4>3. ASSUME NEW i \in 1 .. Len(s) + 1, NEW j \in 1 .. Len(s) + 1, t[i] = t[j]
            PROVE  i = j
        BY <4>2, <4>3, <3>3, <3>4, <3>7
      <4> QED BY <4>1, <4>3 DEF IsInjective
    <3>9. \A j \in 1 .. Len(t) : \E i \in 1 .. k + 1 : t[j] = g.pool[i]
      BY <2>1, <2>3, <2>4, <3>3, <3>4 DEF P, b
    <3>10. \A i \in 1 .. k + 1 : g.pool[i] \in bs \/ \E j \in 1 .. Len(t) : t[j] = g.pool[i]
      <4>1. ASSUME NEW i \in 1 .. k + 1, g.pool[i] \notin bs
            PROVE  \E j \in 1 .. Len(t) : t[j] = g.pool[i]
        <5>1. CASE i = k + 1
          BY <5>1, <3>3, <3>6 DEF b
        <5>2. CASE i \in 1 .. k
          <6>1. PICK j \in 1 .. Len(s) : s[j] = g.pool[i]
            BY <5>2, <4>1, <2>1 DEF P
          <6> QED BY <6>1, <3>3, <3>5
        <5> QED BY <5>1, <5>2, <2>2
      <4> QED BY <4>1
    <3>11. Len(t) # 0 /\ t[1] = entry_bloc
      <4>1. CASE k = 0
        <5>1. b = entry_bloc
          BY <4>1, <1>2 DEF b
        <5>2. s = <<>>
          BY <4>1, <1>4 DEF s
        <5> QED BY <5>1, <5>2, <3>3
      <4>2. CASE k # 0
        <5>1. Len(s) # 0 /\ s[1] = entry_bloc
          BY <4>2, <2>1 DEF P
        <5> QED BY <5>1, <3>2, <3>3
      <4> QED BY <4>1, <4>2
    <3>12. P(t, k + 1)
      BY Zenon, <3>3, <3>8, <3>9, <3>10, <3>11, <3>2 DEF P
    <3> QED BY <3>1, <3>12
  <2> QED BY <2>5, <2>6
<1>7. P(pool[L], L)
  <2> HIDE DEF S, P
  <2>1. Nat \subseteq S
    BY <1>5, <1>6, Induction
  <2>2. L \in S
    BY <2>1, <1>2
  <2> QED BY <2>2, <1>2 DEF S
<1>8. ToSet(pool[L]) = keep
  <2> DEFINE s == pool[L]
  <2> HIDE DEF s, P
  <2>1. s \in Seq(keep) /\ DOMAIN s = 1 .. Len(s)
    BY <1>7 DEF P, s
  <2>2. ASSUME NEW b \in keep PROVE \E j \in 1 .. Len(s) : s[j] = b
    <3>1. PICK i \in 1 .. L : g.pool[i] = b
      BY <1>2
    <3> QED BY <3>1, <1>7 DEF P, s
  <2>3. \A j \in 1 .. Len(s) : s[j] \in keep
    BY <2>1
  <2>4. ToSet(s) = {s[j] : j \in 1 .. Len(s)}
    BY <2>1 DEF ToSet
  <2> QED BY <2>2, <2>3, <2>4 DEF s
<1> QED BY <1>1, <1>2, <1>7, <1>8 DEF B

\* Blocs that have no exits and that nothing refers to are deleted.
LEMMA DeleteFacts ==
  ASSUME NEW g, Sane(g), NEW bs \in SUBSET (Blocs(g) \ {entry_bloc}),
         \A b \in bs : g.exits[b] = NoExits /\ g.prevcount[b] = 0
  PROVE  LET h == Delete(g, bs)
         IN  /\ Sane(h) /\ Blocs(h) = Blocs(g) \ bs /\ h.error = g.error
             /\ \A b \in Blocs(g) \ bs : h.exits[b] = g.exits[b] /\ h.stmts[b] = g.stmts[b]
<1> DEFINE h == Delete(g, bs)
           B == Blocs(g)
           keep == B \ bs
<1>1. /\ h = [f \in Fields |-> h[f]]
      /\ h.fresh = g.fresh
      /\ h.exits = [b \in keep |-> g.exits[b]] /\ h.prevcount = [b \in keep |-> g.prevcount[b]]
      /\ h.stmts = [b \in keep |-> g.stmts[b]]
  <2>1. g = [f \in Fields |-> g[f]]
    BY DEF Sane, Pooled
  <2> DEFINE p == h.pool   e == h.error
  <2>2. h = [[[[[g EXCEPT !.pool = p] EXCEPT !.exits = Restrict(g.exits, keep)]
                EXCEPT !.prevcount = Restrict(g.prevcount, keep)]
                EXCEPT !.stmts = Restrict(g.stmts, keep)]
                EXCEPT !.error = e]
    BY <2>1 DEF Delete, Fields
  <2> HIDE DEF p, e, h
  <2> QED BY <2>1, <2>2 DEF Restrict, Fields
<1>2. h.error = g.error
  <2>1. g = [f \in Fields |-> g[f]] /\ \A b \in bs : ~ (g.prevcount[b] # 0)
    BY DEF Sane, Pooled
  <2> QED BY <2>1 DEF Delete, Fields
<1>3. h.pool \in Seq(keep) /\ IsInjective(h.pool) /\ Len(h.pool) # 0 /\ h.pool[1] = entry_bloc
      /\ ToSet(h.pool) = keep
  BY PoolKept DEF Sane
<1> HIDE DEF h
<1>4. Blocs(h) = keep
  BY <1>3 DEF Blocs
<1>5. B \subseteq Nat \ {nil} /\ entry_bloc \in B /\ g.exits \in [B -> ExitsTo(B)]
      /\ g.prevcount \in [B -> Nat] /\ IsFiniteSet(B)
  BY PoolFacts DEF Sane, Linked, Counted
<1>6. Pooled(h)
  <2>1. h.pool \in Seq(Nat \ {nil})
    <3>1. Seq(keep) \subseteq Seq(Nat \ {nil})
      BY <1>5
    <3> QED BY <3>1, <1>3
  <2>2. h.fresh = g.fresh
    BY <1>1
  <2> HIDE DEF keep
  <2>3. h.fresh \in Nat /\ \A b \in keep : b < h.fresh
    BY <2>2 DEF Sane, Pooled, keep
  <2> QED BY <1>1, <1>3, <1>4, <2>1, <2>3 DEF Pooled
<1>7. ASSUME NEW b \in bs, NEW e \in B \X BOOLEAN PROVE Get(g.exits[e[1]], e[2]) # b
  <2>1. g.prevcount[b] = Cardinality(Links(g.exits, B, b)) + Held(b) /\ g.prevcount[b] = 0
    BY DEF Sane, Counted
  <2>2. IsFiniteSet(Links(g.exits, B, b)) /\ Cardinality(Links(g.exits, B, b)) \in Nat
    <3> DEFINE ex == g.exits
    <3> HIDE DEF ex, B
    <3> QED BY <1>5, LinksSplit DEF ex
  <2>3. Held(b) \in Nat
    BY DEF Held, One
  <2>4. Links(g.exits, B, b) = {}
    BY <2>1, <2>2, <2>3, FS_EmptySet
  <2> QED BY <2>4 DEF Links
<1>8. Linked(h)
  <2>1. ASSUME NEW b \in keep PROVE h.exits[b] \in ExitsTo(keep)
    <3>1. g.exits[b].nat \notin bs /\ g.exits[b].odd \notin bs
      <4>1. <<b, TRUE>> \in B \X BOOLEAN /\ <<b, FALSE>> \in B \X BOOLEAN
        OBVIOUS
      <4> QED BY <4>1, <1>7 DEF Get
    <3>2. g.exits[b] \in ExitsTo(B)
      BY <1>5
    <3> HIDE DEF B
    <3> QED BY <1>1, <3>1, <3>2 DEF ExitsTo
  <2> QED BY <2>1, <1>1, <1>4 DEF Linked, Sane
<1>9. Counted(h)
  <2>1. ASSUME NEW t \in keep
        PROVE  Links(h.exits, keep, t) = Links(g.exits, B, t)
    <3>1. ASSUME NEW e \in B \X BOOLEAN, Get(g.exits[e[1]], e[2]) = t PROVE e[1] \notin bs
      <4>1. t # nil
        BY <1>5
      <4> QED BY <3>1, <4>1 DEF Get, NoExits, Exits
    <3> QED BY <3>1, <1>1 DEF Links
  <2> QED BY <2>1, <1>1, <1>4, <1>5 DEF Counted, Sane
<1> QED BY <1>1, <1>2, <1>4, <1>6, <1>8, <1>9 DEF h, Sane

\* A bloc that counts one reference, and is an exit of some bloc, is an exit
\* of no other, and an exit of it once.
LEMMA Unique ==
  ASSUME NEW g, Sane(g), NEW b \in Blocs(g), g.prevcount[b] <= 1,
         NEW p \in Blocs(g), b \in Succ(g, p)
  PROVE  /\ b # entry_bloc
         /\ \A q \in Blocs(g) : b \in Succ(g, q) => q = p
         /\ ~ (g.exits[p].nat = b /\ g.exits[p].odd = b)
<1> DEFINE B == Blocs(g)   K == Links(g.exits, B, b)
<1>1. g.prevcount[b] = Cardinality(K) + Held(b) /\ IsFiniteSet(B) /\ b # nil
  BY PoolFacts DEF Sane, Counted
<1>2. IsFiniteSet(K) /\ Cardinality(K) \in Nat
  <2> DEFINE ex == g.exits
  <2> HIDE DEF ex, B
  <2> QED BY <1>1, LinksSplit DEF ex, B
<1>3. \A q \in B : b \in Succ(g, q) => \E alt \in BOOLEAN : <<q, alt>> \in K
  <2>1. ASSUME NEW q \in B, b \in Succ(g, q) PROVE \E alt \in BOOLEAN : <<q, alt>> \in K
    <3>1. CASE g.exits[q].nat = b
      <4>1. <<q, FALSE>> \in K
        BY <3>1 DEF Links, Get
      <4> QED BY <4>1
    <3>2. CASE g.exits[q].odd = b
      <4>1. <<q, TRUE>> \in K
        BY <3>2 DEF Links, Get
      <4> QED BY <4>1
    <3> QED BY <2>1, <3>1, <3>2 DEF Succ, Targets
  <2> QED BY <2>1
<1>4. Held(b) \in {0, 1} /\ (b = entry_bloc => Held(b) = 1)
  BY DEF Held, One
<1>5. K # {}
  BY <1>3
<1>6. Cardinality(K) # 0
  BY <1>2, <1>5, FS_EmptySet
<1>7. \A x, y \in K : x = y
  <2>1. SUFFICES ASSUME NEW x \in K, NEW y \in K, x # y PROVE FALSE
    OBVIOUS
  <2> HIDE DEF K
  <2>2. IsFiniteSet({x}) /\ Cardinality({x}) = 1
    BY FS_Singleton
  <2>3. IsFiniteSet({x} \cup {y}) /\ Cardinality({x} \cup {y}) = 2
    <3> DEFINE X == {x}
    <3>1. y \notin X
      BY <2>1
    <3>2. IsFiniteSet(X) /\ Cardinality(X) = 1
      BY <2>2
    <3> HIDE DEF X
    <3>3. IsFiniteSet(X \cup {y}) /\ Cardinality(X \cup {y}) = 1 + 1
      BY Zenon, <3>1, <3>2, FS_AddElement
    <3> QED BY <3>3 DEF X
  <2>4. {x} \cup {y} \subseteq K
    OBVIOUS
  <2>5. 2 <= Cardinality(K)
    BY <2>3, <2>4, <1>2, FS_Subset
  <2> QED BY <2>5, <1>1, <1>2, <1>4
<1>8. b # entry_bloc
  BY <1>1, <1>2, <1>4, <1>6
<1>9. \A q \in B : b \in Succ(g, q) => q = p
  <2>1. PICK a \in BOOLEAN : <<p, a>> \in K
    BY <1>3
  <2>2. ASSUME NEW q \in B, b \in Succ(g, q) PROVE q = p
    <3>1. PICK c \in BOOLEAN : <<q, c>> \in K
      BY <2>2, <1>3
    <3>2. <<q, c>> = <<p, a>>
      BY <2>1, <3>1, <1>7
    <3> QED BY <3>2
  <2> QED BY <2>2
<1>10. ~ (g.exits[p].nat = b /\ g.exits[p].odd = b)
  <2>1. SUFFICES ASSUME g.exits[p].nat = b /\ g.exits[p].odd = b PROVE FALSE
    OBVIOUS
  <2>2. <<p, TRUE>> \in K /\ <<p, FALSE>> \in K
    BY <2>1 DEF Links, Get
  <2>3. <<p, TRUE>> = <<p, FALSE>>
    BY <2>2, <1>7
  <2> QED BY <2>3
<1> QED BY <1>8, <1>9, <1>10

-----------------------------------------------------------------------------
(* Matching.                                                               *)

Onward(g, M) == UNION {Succ(g, b) : b \in M}

\* A search that began at f has the blocs M; their exits that it has not
\* followed lead to R, those to blocs of D more than once; or they are exits
\* x of the group.
Searched(g, f, M, R, D, x) ==
  /\ f \in Blocs(g) /\ M \subseteq Blocs(g) /\ R \subseteq Blocs(g) /\ D \subseteq R
  /\ x \in ExitsTo(Blocs(g)) /\ (x.nat = nil => x.odd = nil)
  /\ IF M = {} THEN R = {f} /\ D = {} /\ x = NoExits
     ELSE f \in M /\ R \cup Targets(x) \subseteq Onward(g, M)
  /\ \A b \in M \ {f} : g.prevcount[b] <= 1 /\ b \in Onward(g, M)
  /\ (R \cup Targets(x)) \cap (M \ {f}) = {}
  /\ \A b \in D \cup (R \cap Targets(x)) : g.prevcount[b] >= 2
  /\ Onward(g, M) \subseteq (M \ {f}) \cup R \cup Targets(x)

\* Bloc b joins the group: what remains to be followed is Rt, and its exits.
LEMMA SearchedTake ==
  ASSUME NEW g, Sane(g), NEW f, NEW M, NEW R, NEW D, NEW x, Searched(g, f, M, R, D, x),
         NEW b \in R, NEW Rt, NEW Dt, R = Rt \cup {b}, Dt \subseteq D \cap Rt, b \in Rt => b \in D,
         M = {} \/ (g.prevcount[b] <= 1 /\ b \notin M),
         NEW D1, D1 \subseteq Dt \cup (Succ(g, b) \cap Rt)
                          \cup {t \in Succ(g, b) : g.exits[b].nat = t /\ g.exits[b].odd = t}
  PROVE  Searched(g, f, M \cup {b}, Rt \cup Succ(g, b), D1, x)
<1> DEFINE B == Blocs(g)
           M1 == M \cup {b}
           R1 == Rt \cup Succ(g, b)
<1>1. \A c \in B : Succ(g, c) \subseteq B /\ g.prevcount[c] \in Nat
  BY PoolFacts DEF Sane, Linked, Counted, Succ, Targets, ExitsTo
<1>2. b \in B /\ M \subseteq B /\ f \in B
  BY DEF Searched
<1>3. Onward(g, M1) = Onward(g, M) \cup Succ(g, b)
  BY DEF Onward
<1>4. ASSUME NEW t \in Onward(g, M) PROVE \E p \in M : t \in Succ(g, p)
  BY <1>4 DEF Onward
<1>5. CASE M = {}
  <2>1. b = f /\ R = {f} /\ D = {} /\ x = NoExits /\ Onward(g, M) = {}
    BY <1>5 DEF Searched, Onward
  <2>2. Rt = {} /\ Dt = {}
    BY <2>1
  <2>3. Targets(x) = {}
    BY <2>1 DEF Targets, NoExits, Exits
  <2>4. \A t \in D1 : g.prevcount[t] >= 2
    <3>1. ASSUME NEW t \in D1 PROVE g.prevcount[t] >= 2
      <4>1. t \in Succ(g, b) /\ g.exits[b].nat = t /\ g.exits[b].odd = t
        BY <2>2
      <4>2. g.prevcount[t] \in Nat /\ ~ (g.prevcount[t] <= 1)
        BY <4>1, <1>1, <1>2, Unique
      <4> QED BY <4>2
    <3> QED BY <3>1
  <2>5. D1 \subseteq R1 /\ R1 \subseteq B
    BY <2>2, <1>1, <1>2
  <2>6. M1 = {f} /\ R1 = Succ(g, b) /\ Onward(g, M1) = Succ(g, b)
    BY <1>3, <1>5, <2>1, <2>2
  <2>7. x \in ExitsTo(B) /\ (x.nat = nil => x.odd = nil)
    BY DEF Searched
  <2> HIDE DEF M1, R1
  <2> QED BY <2>3, <2>4, <2>5, <2>6, <2>7, <1>2 DEF Searched, M1, R1
<1>6. CASE M # {}
  <2>1. g.prevcount[b] <= 1 /\ b \notin M
    BY <1>6
  <2>2. f \in M /\ R \subseteq Onward(g, M) /\ Targets(x) \subseteq Onward(g, M) /\ b # f
    BY <1>6, <2>1 DEF Searched
  <2>3. b \in Onward(g, M)
    BY <2>2
  <2>4. \A t \in Onward(g, M) \cap Succ(g, b) : g.prevcount[t] >= 2
    <3>1. ASSUME NEW t \in Onward(g, M), t \in Succ(g, b) PROVE g.prevcount[t] >= 2
      <4>1. PICK p \in M : t \in Succ(g, p)
        BY <1>4
      <4>2. p \in B /\ p # b /\ t \in B
        BY <2>1, <4>1, <1>1, <1>2
      <4>3. g.prevcount[t] \in Nat /\ ~ (g.prevcount[t] <= 1)
        BY <3>1, <4>1, <4>2, <1>1, <1>2, Unique
      <4> QED BY <4>3
    <3> QED BY <3>1
  <2>5. b \notin Rt /\ b \notin Targets(x)
    <3>1. b \in D \cup (R \cap Targets(x)) => g.prevcount[b] >= 2
      BY DEF Searched
    <3>2. ~ (g.prevcount[b] >= 2)
      BY <2>1, <1>1, <1>2
    <3> QED BY <3>1, <3>2
  <2>6. b \notin Succ(g, b)
    <3>1. ~ (g.prevcount[b] >= 2)
      BY <2>1, <1>1, <1>2
    <3> QED BY <3>1, <2>3, <2>4
  <2>7. \A t \in Succ(g, b) : t \notin M \ {f}
    <3>1. ASSUME NEW t \in Succ(g, b), t \in M \ {f} PROVE FALSE
      <4>1. g.prevcount[t] <= 1 /\ t \in Onward(g, M)
        BY <3>1 DEF Searched
      <4>2. g.prevcount[t] >= 2 /\ g.prevcount[t] \in Nat
        BY <4>1, <2>4, <1>1, <1>2
      <4> QED BY <4>1, <4>2
    <3> QED BY <3>1
  <2>8. M1 \ {f} = (M \ {f}) \cup {b}
    BY <2>2
  <2>9. D1 \subseteq R1 /\ R1 \subseteq B /\ M1 \subseteq B /\ M1 # {} /\ f \in M1
    BY <1>1, <1>2, <2>2 DEF Searched
  <2>10. x \in ExitsTo(B) /\ (x.nat = nil => x.odd = nil)
    BY DEF Searched
  <2>11. R1 \cup Targets(x) \subseteq Onward(g, M1)
    BY <1>3, <2>2
  <2>12. \A c \in M1 \ {f} : g.prevcount[c] <= 1 /\ c \in Onward(g, M1)
    <3>1. \A c \in M \ {f} : g.prevcount[c] <= 1 /\ c \in Onward(g, M)
      BY DEF Searched
    <3> QED BY <3>1, <2>1, <2>3, <2>8, <1>3
  <2>13. (R1 \cup Targets(x)) \cap (M1 \ {f}) = {}
    <3>1. (R \cup Targets(x)) \cap (M \ {f}) = {}
      BY DEF Searched
    <3> QED BY <3>1, <2>5, <2>6, <2>7, <2>8
  <2>14. \A c \in D1 \cup (R1 \cap Targets(x)) : g.prevcount[c] >= 2
    <3>1. \A c \in D \cup (R \cap Targets(x)) : g.prevcount[c] >= 2
      BY DEF Searched
    <3>2. ASSUME NEW c \in Succ(g, b), g.exits[b].nat = c, g.exits[b].odd = c
          PROVE  g.prevcount[c] >= 2
      <4>1. g.prevcount[c] \in Nat /\ ~ (g.prevcount[c] <= 1)
        BY <3>2, <1>1, <1>2, Unique
      <4> QED BY <4>1
    <3>3. \A c \in Succ(g, b) \cap (Rt \cup Targets(x)) : g.prevcount[c] >= 2
      BY <2>2, <2>4
    <3>4. ASSUME NEW c \in D1 PROVE g.prevcount[c] >= 2
      <4>1. c \in D \/ c \in Succ(g, b) \cap Rt
            \/ (c \in Succ(g, b) /\ g.exits[b].nat = c /\ g.exits[b].odd = c)
        OBVIOUS
      <4> QED BY <4>1, <3>1, <3>2, <3>3
    <3>5. ASSUME NEW c \in R1 \cap Targets(x) PROVE g.prevcount[c] >= 2
      BY <3>1, <3>3
    <3> QED BY <3>4, <3>5
  <2>15. Onward(g, M1) \subseteq (M1 \ {f}) \cup R1 \cup Targets(x)
    <3>1. Onward(g, M) \subseteq (M \ {f}) \cup R \cup Targets(x)
      BY DEF Searched
    <3> QED BY <3>1, <1>3, <2>8
  <2> HIDE DEF M1, R1
  <2> QED BY <1>2, <2>9, <2>10, <2>11, <2>12, <2>13, <2>14, <2>15 DEF Searched, M1, R1
<1> QED BY <1>5, <1>6

\* Bloc b is an exit of the group.
LEMMA SearchedExit ==
  ASSUME NEW g, NEW f, NEW M, NEW R, NEW D, NEW x, Searched(g, f, M, R, D, x), M # {},
         NEW b \in R, NEW Rt, NEW Dt, R = Rt \cup {b}, Dt \subseteq D \cap Rt, b \in Rt => b \in D,
         NEW x1 \in ExitsTo(Blocs(g)), x1.nat = nil => x1.odd = nil,
         Targets(x1) = Targets(x) \cup {b}
  PROVE  Searched(g, f, M, Rt, Dt, x1)
<1>1. \A c \in Dt \cup (Rt \cap Targets(x1)) : g.prevcount[c] >= 2
  <2>1. \A c \in D \cup (R \cap Targets(x)) : g.prevcount[c] >= 2
    BY DEF Searched
  <2>2. Dt \cup (Rt \cap Targets(x1)) \subseteq D \cup (R \cap Targets(x))
    OBVIOUS
  <2> QED BY <2>1, <2>2
<1>2. Rt \cup Targets(x1) = R \cup Targets(x)
  OBVIOUS
<1>3. (R \cup Targets(x)) \cap (M \ {f}) = {} /\ R \cup Targets(x) \subseteq Onward(g, M)
      /\ f \in M /\ M \subseteq Blocs(g) /\ R \subseteq Blocs(g) /\ f \in Blocs(g)
      /\ (\A c \in M \ {f} : g.prevcount[c] <= 1 /\ c \in Onward(g, M))
      /\ Onward(g, M) \subseteq (M \ {f}) \cup (R \cup Targets(x))
  BY DEF Searched
<1> QED BY <1>1, <1>2, <1>3 DEF Searched

\* All that remains to be followed is exits of the group.
LEMMA SearchedExits ==
  ASSUME NEW g, NEW f, NEW M, NEW R, NEW D, Searched(g, f, M, R, D, NoExits), M # {},
         NEW x \in ExitsTo(Blocs(g)), x.nat = nil => x.odd = nil, Targets(x) = R
  PROVE  Searched(g, f, M, {}, {}, x)
<1>1. Targets(NoExits) = {}
  BY DEF Targets, NoExits, Exits
<1>2. R \cap (M \ {f}) = {} /\ R \subseteq Onward(g, M)
      /\ f \in M /\ M \subseteq Blocs(g) /\ f \in Blocs(g)
      /\ (\A c \in M \ {f} : g.prevcount[c] <= 1 /\ c \in Onward(g, M))
      /\ Onward(g, M) \subseteq (M \ {f}) \cup R
  BY <1>1 DEF Searched
<1> QED BY <1>2 DEF Searched

\* A bloc that is to be followed, and that only one exit leads to, is not in
\* the group: it could not be reached from the entry.
LEMMA SearchedFresh ==
  ASSUME NEW g, Sane(g), Rooted(g), NEW f, NEW M, NEW R, NEW D, NEW x,
         Searched(g, f, M, R, D, x), M # {}, NEW b \in R, g.prevcount[b] <= 1
  PROVE  b \notin M
<1>1. SUFFICES ASSUME b \in M PROVE FALSE
  OBVIOUS
<1>2. M \subseteq Blocs(g) /\ f \in M /\ R \subseteq Onward(g, M) /\ R \cap (M \ {f}) = {}
      /\ \A c \in M \ {f} : g.prevcount[c] <= 1 /\ c \in Onward(g, M)
  BY DEF Searched
<1>3. b = f
  BY <1>1, <1>2
<1>4. \A c \in M : g.prevcount[c] <= 1 /\ \E p \in M : c \in Succ(g, p)
  <2>1. \A c \in M : g.prevcount[c] <= 1 /\ c \in Onward(g, M)
    BY <1>2, <1>3
  <2> QED BY <2>1 DEF Onward
<1> DEFINE S == Blocs(g) \ M
<1>5. entry_bloc \in S
  <2>1. entry_bloc \in Blocs(g)
    BY PoolFacts DEF Sane
  <2>2. entry_bloc \notin M
    <3>1. ASSUME NEW c \in M PROVE c # entry_bloc
      <4>1. PICK p \in M : c \in Succ(g, p)
        BY <1>4
      <4> QED BY <4>1, <1>2, <1>4, Unique
    <3> QED BY <3>1
  <2> QED BY <2>1, <2>2
<1>6. ASSUME NEW q \in S PROVE Succ(g, q) \subseteq S
  <2>1. Succ(g, q) \subseteq Blocs(g)
    BY PoolFacts DEF Sane, Linked, Succ, Targets, ExitsTo
  <2>2. ASSUME NEW c \in M, c \in Succ(g, q) PROVE FALSE
    <3>1. PICK p \in M : c \in Succ(g, p)
      BY <1>4
    <3>2. q = p
      BY <2>2, <3>1, <1>2, <1>4, Unique
    <3> QED BY <3>2
  <2> QED BY <2>1, <2>2
<1>7. S = Blocs(g)
  BY <1>5, <1>6 DEF Rooted
<1> QED BY <1>1, <1>2, <1>7

\* The items of s that it has twice.
Repeated(s) == {v \in ToSet(s) : \E i, j \in 1 .. Len(s) : i # j /\ s[i] = v /\ s[j] = v}

LEMMA NoItems == ToSet(<<>>) = {} /\ Repeated(<<>>) = {}
BY DEF ToSet, Repeated

LEMMA AppendItems ==
  ASSUME NEW B, NEW s \in Seq(B), NEW b \in B
  PROVE  /\ Append(s, b) \in Seq(B) /\ ToSet(Append(s, b)) = ToSet(s) \cup {b}
         /\ Append(s, b) # <<>> /\ Append(s, b)[1] = IF s = <<>> THEN b ELSE s[1]
         /\ IsInjective(s) /\ b \notin ToSet(s) => IsInjective(Append(s, b))
<1> DEFINE t == Append(s, b)
<1>1. /\ t \in Seq(B) /\ Len(s) \in Nat /\ Len(t) = Len(s) + 1 /\ t[Len(s) + 1] = b
      /\ DOMAIN s = 1 .. Len(s) /\ DOMAIN t = 1 .. Len(s) + 1
      /\ \A i \in 1 .. Len(s) : t[i] = s[i]
  OBVIOUS
<1>2. /\ \A i \in 1 .. Len(s) + 1 : i \in 1 .. Len(s) \/ i = Len(s) + 1
      /\ \A i \in 1 .. Len(s) : i \in 1 .. Len(s) + 1
      /\ Len(s) + 1 \in 1 .. Len(s) + 1
  BY <1>1
<1>3. s = <<>> \/ 1 \in 1 .. Len(s)
  BY <1>1
<1>4. t # <<>> /\ t[1] = IF s = <<>> THEN b ELSE s[1]
  <2>1. t # <<>>
    BY <1>1
  <2>2. CASE s = <<>>
    BY <2>2
  <2>3. CASE s # <<>>
    <3>1. 1 \in 1 .. Len(s)
      BY <2>3, <1>3
    <3> HIDE DEF t
    <3> QED BY <3>1, <2>1, <2>3, <1>1
  <2> QED BY <2>2, <2>3
<1> HIDE DEF t
<1>5. ToSet(t) = ToSet(s) \cup {b}
  <2>1. ToSet(t) = {t[i] : i \in 1 .. Len(s) + 1} /\ ToSet(s) = {s[i] : i \in 1 .. Len(s)}
    BY <1>1 DEF ToSet
  <2>2. ASSUME NEW v \in ToSet(t) PROVE v \in ToSet(s) \cup {b}
    <3>1. PICK i \in 1 .. Len(s) + 1 : v = t[i]
      BY <2>1
    <3>2. CASE i = Len(s) + 1
      BY <3>1, <3>2, <1>1
    <3>3. CASE i \in 1 .. Len(s)
      BY <3>1, <3>3, <1>1, <2>1
    <3> QED BY <3>2, <3>3, <1>2
  <2>3. ASSUME NEW v \in ToSet(s) PROVE v \in ToSet(t)
    <3>1. PICK i \in 1 .. Len(s) : v = s[i]
      BY <2>1
    <3>2. v = t[i] /\ i \in 1 .. Len(s) + 1
      BY <3>1, <1>1, <1>2
    <3> QED BY <3>2, <2>1
  <2>4. b \in ToSet(t)
    BY <1>1, <1>2, <2>1
  <2> QED BY <2>2, <2>3, <2>4
<1>6. ASSUME IsInjective(s), b \notin ToSet(s) PROVE IsInjective(t)
  <2>1. \A i \in 1 .. Len(s) : s[i] # b
    BY <1>6, <1>1 DEF ToSet
  <2>2. \A i, j \in 1 .. Len(s) : s[i] = s[j] => i = j
    BY <1>6, <1>1 DEF IsInjective
  <2>3. \A i, j \in 1 .. Len(s) + 1 : t[i] = t[j] => i = j
    BY <2>1, <2>2, <1>1, <1>2
  <2> QED BY <2>3, <1>1 DEF IsInjective
<1> QED BY <1>1, <1>4, <1>5, <1>6 DEF t

LEMMA ConsItems ==
  ASSUME NEW B, NEW s \in Seq(B), NEW b \in B
  PROVE  /\ <<b>> \o s \in Seq(B) /\ ToSet(<<b>> \o s) = {b} \cup ToSet(s)
         /\ Repeated(<<b>> \o s) \subseteq Repeated(s) \cup ({b} \cap ToSet(s))
         /\ Len(<<b>> \o s) = Len(s) + 1
<1> DEFINE t == <<b>> \o s
<1>1. /\ t \in Seq(B) /\ Len(s) \in Nat /\ Len(t) = Len(s) + 1 /\ t[1] = b
      /\ DOMAIN s = 1 .. Len(s) /\ DOMAIN t = 1 .. Len(s) + 1
      /\ \A i \in 1 .. Len(s) : t[i + 1] = s[i]
  OBVIOUS
<1>2. /\ \A i \in 1 .. Len(s) + 1 : i = 1 \/ (i - 1 \in 1 .. Len(s) /\ t[i] = s[i - 1])
      /\ \A i \in 1 .. Len(s) : i + 1 \in 1 .. Len(s) + 1
      /\ 1 \in 1 .. Len(s) + 1
  BY <1>1
<1> HIDE DEF t
<1>3. ToSet(t) = {t[i] : i \in 1 .. Len(s) + 1} /\ ToSet(s) = {s[i] : i \in 1 .. Len(s)}
  BY <1>1 DEF ToSet
<1>4. ToSet(t) = {b} \cup ToSet(s)
  <2>1. ASSUME NEW v \in ToSet(t) PROVE v \in {b} \cup ToSet(s)
    <3>1. PICK i \in 1 .. Len(s) + 1 : v = t[i]
      BY <1>3
    <3> QED BY <3>1, <1>1, <1>2, <1>3
  <2>2. ASSUME NEW v \in ToSet(s) PROVE v \in ToSet(t)
    <3>1. PICK i \in 1 .. Len(s) : v = s[i]
      BY <1>3
    <3>2. v = t[i + 1] /\ i + 1 \in 1 .. Len(s) + 1
      BY <3>1, <1>1, <1>2
    <3> QED BY <3>2, <1>3
  <2>3. b \in ToSet(t)
    BY <1>1, <1>2, <1>3
  <2> QED BY <2>1, <2>2, <2>3
<1>5. ASSUME NEW v \in Repeated(t) PROVE v \in Repeated(s) \cup ({b} \cap ToSet(s))
  <2>1. PICK i \in 1 .. Len(s) + 1, j \in 1 .. Len(s) + 1 : i # j /\ t[i] = v /\ t[j] = v
    BY <1>1, <1>5 DEF Repeated
  <2>2. CASE i = 1
    <3>1. j - 1 \in 1 .. Len(s) /\ s[j - 1] = v /\ v = b
      BY <2>1, <2>2, <1>1, <1>2
    <3> QED BY <3>1, <1>3
  <2>3. CASE j = 1
    <3>1. i - 1 \in 1 .. Len(s) /\ s[i - 1] = v /\ v = b
      BY <2>1, <2>3, <1>1, <1>2
    <3> QED BY <3>1, <1>3
  <2>4. CASE i # 1 /\ j # 1
    <3>1. i - 1 \in 1 .. Len(s) /\ s[i - 1] = v /\ j - 1 \in 1 .. Len(s) /\ s[j - 1] = v
          /\ i - 1 # j - 1
      BY <2>1, <2>4, <1>1, <1>2
    <3> QED BY <3>1, <1>3 DEF Repeated
  <2> QED BY <2>2, <2>3, <2>4
<1> QED BY <1>1, <1>4, <1>5 DEF t

LEMMA PopItems ==
  ASSUME NEW B, NEW s \in Seq(B), s # <<>>
  PROVE  /\ Head(s) \in B /\ Tail(s) \in Seq(B) /\ ToSet(s) = {Head(s)} \cup ToSet(Tail(s))
         /\ Repeated(Tail(s)) \subseteq Repeated(s) /\ Len(Tail(s)) = Len(s) - 1
         /\ Head(s) \in ToSet(Tail(s)) => Head(s) \in Repeated(s)
<1> DEFINE t == Tail(s)
<1>1. /\ Head(s) \in B /\ t \in Seq(B) /\ Len(s) \in Nat /\ Len(s) # 0 /\ Len(t) = Len(s) - 1
      /\ s[1] = Head(s) /\ DOMAIN s = 1 .. Len(s) /\ DOMAIN t = 1 .. Len(s) - 1
      /\ \A i \in 1 .. Len(s) - 1 : t[i] = s[i + 1]
  OBVIOUS
<1>2. /\ \A i \in 1 .. Len(s) : i = 1 \/ (i - 1 \in 1 .. Len(s) - 1 /\ s[i] = t[i - 1])
      /\ \A i \in 1 .. Len(s) - 1 : i + 1 \in 1 .. Len(s) /\ i + 1 # 1
      /\ 1 \in 1 .. Len(s)
  BY <1>1
<1> HIDE DEF t
<1>3. ToSet(s) = {s[i] : i \in 1 .. Len(s)} /\ ToSet(t) = {t[i] : i \in 1 .. Len(s) - 1}
  BY <1>1 DEF ToSet
<1>4. ToSet(s) = {Head(s)} \cup ToSet(t)
  <2>1. ASSUME NEW v \in ToSet(s) PROVE v \in {Head(s)} \cup ToSet(t)
    <3>1. PICK i \in 1 .. Len(s) : v = s[i]
      BY <1>3
    <3> QED BY <3>1, <1>1, <1>2, <1>3
  <2>2. ASSUME NEW v \in ToSet(t) PROVE v \in ToSet(s)
    <3>1. PICK i \in 1 .. Len(s) - 1 : v = t[i]
      BY <1>3
    <3>2. v = s[i + 1] /\ i + 1 \in 1 .. Len(s)
      BY <3>1, <1>1, <1>2
    <3> QED BY <3>2, <1>3
  <2>3. Head(s) \in ToSet(s)
    BY <1>1, <1>2, <1>3
  <2> QED BY <2>1, <2>2, <2>3
<1>5. ASSUME NEW v \in Repeated(t) PROVE v \in Repeated(s)
  <2>1. PICK i \in 1 .. Len(s) - 1, j \in 1 .. Len(s) - 1 : i # j /\ t[i] = v /\ t[j] = v
    BY <1>1, <1>5 DEF Repeated
  <2>2. i + 1 # j + 1 /\ s[i + 1] = v /\ s[j + 1] = v /\ i + 1 \in 1 .. Len(s)
        /\ j + 1 \in 1 .. Len(s)
    BY <2>1, <1>1, <1>2
  <2> QED BY <2>2, <1>3 DEF Repeated
<1>6. ASSUME Head(s) \in ToSet(t) PROVE Head(s) \in Repeated(s)
  <2>1. PICK i \in 1 .. Len(s) - 1 : Head(s) = t[i]
    BY <1>3, <1>6
  <2>2. i + 1 # 1 /\ s[i + 1] = Head(s) /\ s[1] = Head(s) /\ i + 1 \in 1 .. Len(s)
        /\ 1 \in 1 .. Len(s)
    BY <2>1, <1>1, <1>2
  <2> QED BY <2>2, <1>3 DEF Repeated
<1> QED BY <1>1, <1>4, <1>5, <1>6 DEF t

\* The equation of Found.
FoundBody(g, p, n, prev) ==
  [c \in Trials(g, p) |->
     IF c.next = nil THEN [blocs |-> c.matched, exits |-> c.exits]
     ELSE LET ways == Ways(g, p, c)
              one == prev[ways[1]]
          IN IF n = 0 \/ ways = <<>> THEN NoMatch
             ELSE IF Len(ways) = 1 \/ one # NoMatch THEN one
             ELSE prev[ways[2]]]

LEMMA FoundRec ==
  ASSUME NEW g, NEW p, NEW n \in Nat
  PROVE  Found(g, p)[n] = FoundBody(g, p, n, Found(g, p)[n - 1])
<1> DEFINE body(k, prev) == FoundBody(g, p, k, prev)
           found[k \in Nat] ==
             [c \in Trials(g, p) |->
               IF c.next = nil THEN [blocs |-> c.matched, exits |-> c.exits]
               ELSE LET ways == Ways(g, p, c)
                        one == found[k - 1][ways[1]]
                    IN IF k = 0 \/ ways = <<>> THEN NoMatch
                       ELSE IF Len(ways) = 1 \/ one # NoMatch THEN one
                       ELSE found[k - 1][ways[2]]]
           is(f, k) == f = [i \in 0 .. k |-> body(i, f[i - 1])]
<1>1. Found(g, p) = found
  BY DEF Found
<1>2. \A x, y : body(0, x) = body(0, y)
  BY DEF FoundBody
<1> HIDE DEF body
<1>3. \E f : is(f, 0)
  <2> DEFINE f == [i \in 0 .. 0 |-> body(0, 0)]
  <2>1. f[0] = body(0, f[0 - 1])
    BY <1>2
  <2>2. \A i \in 0 .. 0 : f[i] = body(i, f[i - 1])
    BY <2>1
  <2>3. f = [i \in 0 .. 0 |-> f[i]]
    OBVIOUS
  <2> HIDE DEF f
  <2>4. is(f, 0)
    BY <2>2, <2>3
  <2> QED BY <2>4
<1>4. ASSUME NEW k \in Nat, NEW f, is(f, k) PROVE \E h : is(h, k + 1)
  <2> DEFINE h == [i \in 0 .. k + 1 |-> IF i = k + 1 THEN body(k + 1, f[k]) ELSE f[i]]
  <2>1. \A i \in 0 .. k : h[i] = f[i]
    OBVIOUS
  <2>2. h[k + 1] = body(k + 1, h[k])
    BY <2>1
  <2>3. ASSUME NEW i \in 0 .. k + 1 PROVE h[i] = body(i, h[i - 1])
    <3>1. CASE i = k + 1
      BY <3>1, <2>2
    <3>2. CASE i = 0
      <4>1. h[0] = body(0, f[0 - 1])
        BY <1>4, <2>1
      <4> QED BY <4>1, <3>2, <1>2
    <3>3. CASE i \in 1 .. k
      <4>1. i \in 0 .. k /\ i - 1 \in 0 .. k
        BY <3>3
      <4>2. f[i] = body(i, f[i - 1])
        BY <4>1, <1>4
      <4> QED BY <4>1, <4>2, <2>1
    <3> QED BY <3>1, <3>2, <3>3
  <2>4. h = [i \in 0 .. k + 1 |-> h[i]]
    OBVIOUS
  <2> HIDE DEF h
  <2>5. is(h, k + 1)
    BY <2>3, <2>4
  <2> QED BY <2>5
<1>5. \A k \in Nat : \E f : is(f, k)
  <2> DEFINE S == {k \in Nat : \E f : is(f, k)}
  <2> HIDE DEF is
  <2>1. 0 \in S
    BY <1>3
  <2>2. ASSUME NEW k \in Nat, k \in S PROVE k + 1 \in S
    BY <2>2, <1>4
  <2> HIDE DEF S
  <2>3. Nat \subseteq S
    BY <2>1, <2>2, Induction
  <2> QED BY <2>3 DEF S
<1> DEFINE h(k) == CHOOSE f : is(f, k)
<1>6. \A k \in Nat : is(h(k), k)
  <2> HIDE DEF is
  <2> QED BY <1>5
<1> HIDE DEF h
<1>7. ASSUME NEW m \in Nat, NEW f, NEW e, is(f, m), is(e, m + 1) PROVE f[m] = e[m]
  <2> DEFINE S == {k \in Nat : k <= m => f[k] = e[k]}
  <2>1. 0 \in S
    <3>1. f[0] = body(0, f[0 - 1]) /\ e[0] = body(0, e[0 - 1])
      BY <1>7
    <3> QED BY <3>1, <1>2
  <2>2. ASSUME NEW k \in Nat, k \in S PROVE k + 1 \in S
    <3> SUFFICES ASSUME k + 1 <= m PROVE f[k + 1] = e[k + 1]
      OBVIOUS
    <3>1. f[k] = e[k] /\ (k + 1) - 1 = k
      BY <2>2
    <3>2. f[k + 1] = body(k + 1, f[(k + 1) - 1]) /\ e[k + 1] = body(k + 1, e[(k + 1) - 1])
      BY <1>7
    <3> QED BY <3>1, <3>2
  <2> HIDE DEF S
  <2>3. Nat \subseteq S
    BY <2>1, <2>2, Induction
  <2> QED BY <2>3 DEF S
<1> DEFINE f == [k \in Nat |-> h(k)[k]]
<1>8. ASSUME NEW k \in Nat PROVE f[k] = body(k, f[k - 1])
  <2>1. h(k)[k] = body(k, h(k)[k - 1])
    BY <1>6
  <2>2. CASE k = 0
    BY <2>1, <2>2, <1>2
  <2>3. CASE k # 0
    <3>1. k - 1 \in Nat /\ (k - 1) + 1 = k
      BY <2>3
    <3>2. h(k - 1)[k - 1] = h(k)[k - 1]
      <4>1. is(h(k - 1), k - 1) /\ is(h(k), (k - 1) + 1)
        BY <1>6, <3>1
      <4> HIDE DEF is
      <4> QED BY <4>1, <1>7, <3>1
    <3> QED BY <2>1, <3>1, <3>2
  <2> QED BY <2>2, <2>3
<1>9. f = [k \in Nat |-> body(k, f[k - 1])]
  <2>1. f = [k \in Nat |-> f[k]]
    BY Zenon
  <2> HIDE DEF f
  <2> QED BY <2>1, <1>8
<1>10. found = [k \in Nat |-> body(k, found[k - 1])]
  <2> HIDE DEF f
  <2> QED BY Zenon, <1>9 DEF found, body, FoundBody
<1>11. found[n] = body(n, found[n - 1])
  <2> HIDE DEF found
  <2> QED BY <1>10
<1> QED BY <1>1, <1>11 DEF body

Patterns == {Seq2, IfThen, IfThenElse, Loop, ExitIf}

LEMMA Lengths ==
  /\ Len(Seq2) = 5 /\ Len(IfThen) = 4 /\ Len(IfThenElse) = 5 /\ Len(Loop) = 1 /\ Len(ExitIf) = 3
  /\ Seq2 # IfThen /\ Seq2 # IfThenElse /\ Seq2 # Loop /\ Seq2 # ExitIf
  /\ IfThen # IfThenElse /\ IfThen # Loop /\ IfThen # ExitIf
  /\ IfThenElse # Loop /\ IfThenElse # ExitIf /\ Loop # ExitIf
<1>1. /\ Len(Seq2) = 5 /\ Len(IfThen) = 4 /\ Len(IfThenElse) = 5 /\ Len(Loop) = 1
      /\ Len(ExitIf) = 3
  BY DEF Seq2, IfThen, IfThenElse, Loop, ExitIf
<1>2. Seq2[1] = ","
  BY DEF Seq2
<1>3. IfThenElse[1] = "?"
  BY DEF IfThenElse
<1>4. Seq2 # IfThenElse
  BY <1>2, <1>3
<1> QED BY <1>1, <1>4

\* The letters of the patterns.
LEMMA Letters ==
  ASSUME NEW p \in Patterns, NEW pos \in 1 .. Len(p)
  PROVE  /\ p[pos] \in {"?", "*", ",", ".", "!", "1", "(", ")"}
         /\ p[pos] = "?" => pos = 1 /\ p \in {IfThen, IfThenElse, ExitIf}
         /\ p[pos] = "*" => pos = 1 /\ p = Loop
         /\ p[pos] = "," => \/ p = Seq2 /\ pos \in {1, 3}
                            \/ p = IfThen /\ pos = 2
                            \/ p = IfThenElse /\ pos \in {2, 4}
         /\ p[pos] = "." => p = ExitIf /\ pos = 2
         /\ p[pos] = "!" => p = Seq2 /\ pos = 5
         /\ p[pos] = "1" => \/ p = IfThen /\ pos \in {3, 4}
                            \/ p = IfThenElse /\ pos \in {3, 5}
                            \/ p = ExitIf /\ pos = 3
         /\ p[pos] = "(" => p = Seq2 /\ pos = 2
         /\ p[pos] = ")" => p = Seq2 /\ pos = 4
<1>1. CASE p = Seq2
  <2>1. Len(p) = 5
    BY <1>1 DEF Seq2
  <2>2. p[1] = "," /\ p[2] = "(" /\ p[3] = "," /\ p[4] = ")" /\ p[5] = "!"
    BY <1>1 DEF Seq2
  <2>3. pos = 1 \/ pos = 2 \/ pos = 3 \/ pos = 4 \/ pos = 5
    BY <2>1
  <2> QED BY <1>1, <2>1, <2>2, <2>3, Lengths
<1>2. CASE p = IfThen
  <2>1. Len(p) = 4
    BY <1>2 DEF IfThen
  <2>2. p[1] = "?" /\ p[2] = "," /\ p[3] = "1" /\ p[4] = "1"
    BY <1>2 DEF IfThen
  <2>3. pos = 1 \/ pos = 2 \/ pos = 3 \/ pos = 4
    BY <2>1
  <2> QED BY <1>2, <2>1, <2>2, <2>3, Lengths
<1>3. CASE p = IfThenElse
  <2>1. Len(p) = 5
    BY <1>3 DEF IfThenElse
  <2>2. p[1] = "?" /\ p[2] = "," /\ p[3] = "1" /\ p[4] = "," /\ p[5] = "1"
    BY <1>3 DEF IfThenElse
  <2>3. pos = 1 \/ pos = 2 \/ pos = 3 \/ pos = 4 \/ pos = 5
    BY <2>1
  <2> QED BY <1>3, <2>1, <2>2, <2>3, Lengths
<1>4. CASE p = Loop
  <2>1. Len(p) = 1
    BY <1>4 DEF Loop
  <2>2. p[1] = "*"
    BY <1>4 DEF Loop
  <2>3. pos = 1
    BY <2>1
  <2> QED BY <1>4, <2>1, <2>2, <2>3, Lengths
<1>5. CASE p = ExitIf
  <2>1. Len(p) = 3
    BY <1>5 DEF ExitIf
  <2>2. p[1] = "?" /\ p[2] = "." /\ p[3] = "1"
    BY <1>5 DEF ExitIf
  <2>3. pos = 1 \/ pos = 2 \/ pos = 3
    BY <2>1
  <2> QED BY <1>5, <2>1, <2>2, <2>3, Lengths
<1> QED BY <1>1, <1>2, <1>3, <1>4, <1>5 DEF Patterns

\* The group of Seq2.
LEMMA Group == GroupEnd(Seq2, 2) = 4 /\ GroupBegin(Seq2, 4) = 2
<1> DEFINE v == ","  o == "("  k == ")"  e == "!"  T == {v, o, k, e}
           s == SubSeq(Seq2, 3, 5)
           I == {i \in 1 .. Len(s) : s[i] = k}
           J == {i \in 1 .. 4 : Seq2[i] = o}
<1>1. Seq2 = <<v, o, v, k, e>>
  BY DEF Seq2
<1>2. v # k /\ v # o /\ k # o /\ e # k
  OBVIOUS
<1>3. GroupEnd(Seq2, 2) = 2 + (IF I # {} THEN Min(I) ELSE 0)
  BY Lengths DEF GroupEnd, SelectInSeq
<1>4. GroupBegin(Seq2, 4) = IF J # {} THEN Max(J) ELSE 0
  BY DEF GroupBegin, SelectLastInSubSeq
<1> HIDE DEF v, o, k, e
<1>6. Seq2[1] = v /\ Seq2[2] = o /\ Seq2[3] = v /\ Seq2[4] = k /\ Seq2[5] = e
  BY <1>1
<1>7. Seq2 \in Seq(T)
  BY <1>1
<1>8. Len(s) = 3 /\ s[1] = v /\ s[2] = k /\ s[3] = e
  BY <1>6, <1>7, Lengths
<1> HIDE DEF s
<1>9. I = {2}
  <2>1. \A i \in 1 .. 3 : i = 1 \/ i = 2 \/ i = 3
    OBVIOUS
  <2> QED BY <2>1, <1>2, <1>8
<1>10. J = {2}
  <2>1. \A i \in 1 .. 4 : i = 1 \/ i = 2 \/ i = 3 \/ i = 4
    OBVIOUS
  <2> QED BY <2>1, <1>2, <1>6
<1>11. Min({2}) = 2 /\ Max({2}) = 2
  BY DEF Min, Max
<1>12. GroupBegin(Seq2, 4) = 2
  BY <1>4, <1>10, <1>11
<1> HIDE DEF I, J
<1>13. GroupEnd(Seq2, 2) = 4
  <2>1. (IF I # {} THEN Min(I) ELSE 0) = 2
    BY <1>9, <1>11
  <2> QED BY <1>3, <2>1
<1> QED BY <1>12, <1>13

\* The branches left behind at item pos of pattern p.
Shape(p, pos, back, x) ==
  /\ pos \in 1 .. Len(p)
  /\ p = Seq2 => back = <<>> /\ x = NoExits
  /\ p \in {IfThen, IfThenElse} => Len(back) = IF pos \in {2, 3} THEN 1 ELSE 0
  /\ p = ExitIf => Len(back) = IF pos = 2 THEN 1 ELSE 0

\* The blocs that trial c is still to follow; those among them that occur twice.
Ahead(c) == IF c.next = nil THEN {} ELSE {c.next} \cup ToSet(c.back)
Again(c) == IF c.next = nil THEN {} ELSE ({c.next} \cap ToSet(c.back)) \cup Repeated(c.back)

\* Trial c is one of a search of pattern p that began at f.
Tried(g, p, f, c) ==
  /\ c \in Trials(g, p) /\ IsInjective(c.matched)
  /\ IF c.matched = <<>> THEN c.at = 1 /\ c.next # nil ELSE c.matched[1] = f
  /\ Searched(g, f, ToSet(c.matched), Ahead(c), Again(c), c.exits)
  /\ c.next # nil => Shape(p, c.at, c.back, c.exits)
  /\ p = Loop => \A b \in ToSet(c.matched) : g.exits[b].nat # nil

LEMMA TriedFacts ==
  ASSUME NEW g, NEW p, NEW f, NEW c, Tried(g, p, f, c), c.next # nil
  PROVE  LET b == c.next
             Rt == ToSet(c.back)
             Dt == Repeated(c.back)
         IN  /\ b \in Ahead(c) /\ Ahead(c) = Rt \cup {b} /\ Dt \subseteq Again(c) \cap Rt
             /\ b \in Rt => b \in Again(c)
             /\ b \in Blocs(g) /\ c.matched \in Seq(Blocs(g)) /\ c.back \in Seq(Blocs(g))
             /\ c.exits \in ExitsTo(Blocs(g)) /\ c.at \in 1 .. Len(p)
             /\ (c.exits.nat = nil => c.exits.odd = nil)
             /\ c.matched = <<>> => c.at = 1 /\ ToSet(c.matched) = {} /\ b = f
             /\ c.matched # <<>> => c.matched[1] = f /\ ToSet(c.matched) # {}
<1>1. c \in [at : 1 .. Len(p) + 1, next : Blocs(g) \cup {nil}, matched : Seq(Blocs(g)),
             back : Seq(Blocs(g)), exits : ExitsTo(Blocs(g))]
  BY DEF Tried, Trials
<1>2. Repeated(c.back) \subseteq ToSet(c.back)
  BY DEF Repeated
<1>3. c.at \in 1 .. Len(p)
  BY DEF Tried, Shape
<1>4. c.matched # <<>> => ToSet(c.matched) # {}
  <2>1. ASSUME c.matched # <<>> PROVE 1 \in DOMAIN c.matched
    BY <1>1, <2>1
  <2> QED BY <2>1 DEF ToSet
<1>5. c.matched = <<>> => ToSet(c.matched) = {}
  BY NoItems
<1>6. c.matched = <<>> => c.next = f
  BY <1>5 DEF Tried, Searched, Ahead
<1>7. (c.exits.nat = nil => c.exits.odd = nil)
  BY DEF Tried, Searched
<1> QED BY <1>1, <1>2, <1>3, <1>4, <1>5, <1>6, <1>7 DEF Ahead, Again, Tried

\* Ways are none, one or two trials of the same search.
Good(g, p, f, ways) ==
  \/ ways = <<>>
  \/ Len(ways) = 1 /\ ways # <<>> /\ Tried(g, p, f, ways[1])
  \/ Len(ways) = 2 /\ ways # <<>> /\ Tried(g, p, f, ways[1]) /\ Tried(g, p, f, ways[2])

LEMMA GoodClose ==
  ASSUME NEW g, NEW p \in Patterns, NEW f,
         NEW pos \in 1 .. Len(p) + 1, NEW u, NEW m \in Seq(Blocs(g)), NEW back \in Seq(Blocs(g)),
         NEW x \in ExitsTo(Blocs(g)), m # <<>>, m[1] = f, IsInjective(m),
         Searched(g, f, ToSet(m), ToSet(back), Repeated(back), x), nil \notin Blocs(g),
         back # <<>> => Shape(p, pos, Tail(back), x),
         p = Loop => \A b \in ToSet(m) : g.exits[b].nat # nil
  PROVE  Good(g, p, f, Close(p, [at |-> pos, next |-> u, matched |-> m, back |-> back,
                                 exits |-> x]))
<1> DEFINE d == [at |-> pos, next |-> u, matched |-> m, back |-> back, exits |-> x]
<1>1. CASE back # <<>>
  <2> DEFINE w == [at |-> pos, next |-> Head(back), matched |-> m, back |-> Tail(back),
                   exits |-> x]
  <2>1. Close(p, d) = <<w>>
    <3>1. d.back = back
      OBVIOUS
    <3>2. [[d EXCEPT !.next = Head(back)] EXCEPT !.back = Tail(back)] = w
      <4> DEFINE h == Head(back)   t == Tail(back)
      <4> HIDE DEF h, t
      <4> DEFINE e == [at |-> pos, next |-> h, matched |-> m, back |-> back, exits |-> x]
      <4>1. [d EXCEPT !.next = h] = e
        OBVIOUS
      <4>2. [e EXCEPT !.back = t]
              = [at |-> pos, next |-> h, matched |-> m, back |-> t, exits |-> x]
        OBVIOUS
      <4> QED BY <4>1, <4>2 DEF h, t
    <3> HIDE DEF d, w
    <3> QED BY <3>1, <3>2, <1>1 DEF Close
  <2>2. /\ Head(back) \in Blocs(g) /\ Tail(back) \in Seq(Blocs(g))
        /\ ToSet(back) = {Head(back)} \cup ToSet(Tail(back))
        /\ Repeated(Tail(back)) \subseteq Repeated(back)
        /\ Head(back) \in ToSet(Tail(back)) => Head(back) \in Repeated(back)
    BY <1>1, PopItems
  <2>3. w \in Trials(g, p)
    BY <1>1, <2>2 DEF Trials, Shape
  <2>4. Ahead(w) = ToSet(back) /\ Again(w) \subseteq Repeated(back)
    BY <2>2 DEF Ahead, Again
  <2>5. Searched(g, f, ToSet(m), Ahead(w), Again(w), x)
    <3>1. Again(w) \subseteq Ahead(w)
      BY <2>4 DEF Repeated
    <3> QED BY <2>4, <3>1 DEF Searched
  <2>6. Tried(g, p, f, w)
    BY <1>1, <2>2, <2>3, <2>5 DEF Tried
  <2> QED BY <2>1, <2>6 DEF Good
<1>2. CASE back = <<>> /\ pos <= Len(p)
  <2>1. d.back = <<>> /\ d.at <= Len(p)
    BY <1>2
  <2> HIDE DEF d
  <2>2. Close(p, d) = <<>>
    BY <2>1 DEF Close
  <2> QED BY <2>2 DEF Good, d
<1>3. CASE back = <<>> /\ ~ (pos <= Len(p))
  <2> DEFINE w == [at |-> pos, next |-> nil, matched |-> m, back |-> back, exits |-> x]
  <2>1. Close(p, d) = <<w>>
    BY <1>3 DEF Close
  <2>2. w \in Trials(g, p)
    BY DEF Trials
  <2>3. Searched(g, f, ToSet(m), Ahead(w), Again(w), x)
    BY <1>3, NoItems DEF Ahead, Again
  <2>4. Tried(g, p, f, w)
    BY <2>2, <2>3 DEF Tried
  <2> QED BY <2>1, <2>4 DEF Good
<1> QED BY <1>1, <1>2, <1>3

\* The parts of Ways.
Middle(g, c) == c.matched = <<>> \/ (g.prevcount[c.next] <= 1 /\ ~ Contains(c.matched, c.next))
Past(c) == [c EXCEPT !.at = @ + 1]
Taken(d, b) == [d EXCEPT !.matched = Append(@, b)]
Forked(d, u, v) == [d EXCEPT !.next = u, !.back = v \o @]
Entered(d, u, v) == [d EXCEPT !.next = u, !.back = IF v # nil THEN <<v>> \o @ ELSE @]
Sent(d, u) == [d EXCEPT !.next = u]
Given(d, x) == [d EXCEPT !.exits = x]
Branch(g, c, r) == Forked(Taken(Past(c), c.next),
                          Get(g.exits[c.next], r), <<Get(g.exits[c.next], ~ r)>>)
Out(d, alt, b) == [d EXCEPT !.exits = Put(@, alt, b)]

LEMMA WaysFork ==
  ASSUME NEW g, NEW p, NEW c, p[c.at] = "?"
  PROVE  Ways(g, p, c) = IF Middle(g, c) /\ g.exits[c.next].odd # nil
                           THEN <<Branch(g, c, FALSE), Branch(g, c, TRUE)>> ELSE <<>>
BY Zenon DEF Ways, Middle, Past, Taken, Branch, Forked

Inside(g, c) ==
  IF (c.matched = <<>> \/ g.prevcount[c.next] = 1) /\ g.exits[c.next].nat # nil
    THEN << Entered(Taken(c, c.next), g.exits[c.next].nat, g.exits[c.next].odd) >>
    ELSE <<>>

Rest(c) == IF c.back # <<>> THEN c ELSE Past(c)

Outside(p, c) ==
  IF c.matched = <<>> THEN <<>>
  ELSE IF MaySetExit(c.exits, FALSE, c.next) THEN Close(p, Out(Rest(c), FALSE, c.next))
  ELSE IF MaySetExit(c.exits, TRUE, c.next) THEN Close(p, Out(Rest(c), TRUE, c.next))
  ELSE <<>>

LEMMA WaysStar ==
  ASSUME NEW g, NEW p, NEW c, p[c.at] = "*"
  PROVE  Ways(g, p, c) = Inside(g, c) \o Outside(p, c)
BY Zenon DEF Ways, Inside, Outside, Past, Taken, Out, Rest, Entered

LEMMA WaysComma ==
  ASSUME NEW g, NEW p, NEW c, p[c.at] = ","
  PROVE  Ways(g, p, c) =
           IF Middle(g, c) /\ g.exits[c.next].odd = nil /\ g.exits[c.next].nat # nil
             THEN << Sent(Taken(Past(c), c.next), g.exits[c.next].nat) >> ELSE <<>>
BY Zenon DEF Ways, Middle, Past, Taken, Sent

LEMMA WaysDot ==
  ASSUME NEW g, NEW p, NEW c, p[c.at] = "."
  PROVE  Ways(g, p, c) = IF Middle(g, c) /\ g.exits[c.next] = NoExits
                           THEN Close(p, Taken(Past(c), c.next)) ELSE <<>>
BY Zenon DEF Ways, Middle, Past, Taken

LEMMA WaysBang ==
  ASSUME NEW g, NEW p, NEW c, p[c.at] = "!"
  PROVE  Ways(g, p, c) =
           IF Middle(g, c)
             THEN Close(p, Given(Taken(Past(c), c.next), g.exits[c.next])) ELSE <<>>
BY Zenon DEF Ways, Middle, Past, Taken, Given

LEMMA WaysOne ==
  ASSUME NEW g, NEW p, NEW c, p[c.at] = "1"
  PROVE  Ways(g, p, c) = IF MaySetExit(c.exits, FALSE, c.next)
                           THEN Close(p, Out(Past(c), FALSE, c.next)) ELSE <<>>
BY Zenon DEF Ways, Past, Out

LEMMA WaysOpen ==
  ASSUME NEW g, NEW p, NEW c, p[c.at] = "("
  PROVE  Ways(g, p, c) = <<Past(c), [c EXCEPT !.at = GroupEnd(p, @) + 1]>>
BY Zenon DEF Ways, Past

LEMMA WaysShut ==
  ASSUME NEW g, NEW p, NEW c, p[c.at] = ")"
  PROVE  Ways(g, p, c) = << [c EXCEPT !.at = GroupBegin(p, @)] >>
BY Zenon DEF Ways

\* A trial, field by field.
Trial(a, n, m, k, x) == [at |-> a, next |-> n, matched |-> m, back |-> k, exits |-> x]

\* A bloc is taken, and the search goes on with n.
LEMMA TriedTake ==
  ASSUME NEW g, Sane(g), NEW p \in Patterns, NEW f, NEW c, Tried(g, p, f, c), c.next # nil,
         c.matched = <<>> \/ (g.prevcount[c.next] <= 1 /\ c.next \notin ToSet(c.matched)),
         NEW n \in Blocs(g), NEW back \in Seq(Blocs(g)), NEW a,
         {n} \cup ToSet(back) = ToSet(c.back) \cup Succ(g, c.next),
         ({n} \cap ToSet(back)) \cup Repeated(back)
            \subseteq Repeated(c.back) \cup (Succ(g, c.next) \cap ToSet(c.back))
              \cup {t \in Succ(g, c.next) : g.exits[c.next].nat = t /\ g.exits[c.next].odd = t},
         Shape(p, a, back, c.exits), p = Loop => g.exits[c.next].nat # nil
  PROVE  Tried(g, p, f, Trial(a, n, Append(c.matched, c.next), back, c.exits))
<1> DEFINE b == c.next   M == ToSet(c.matched)   m1 == Append(c.matched, b)
           w == Trial(a, n, m1, back, c.exits)
           Rt == ToSet(c.back)   Dt == Repeated(c.back)
<1>1. /\ b \in Ahead(c) /\ Ahead(c) = Rt \cup {b} /\ Dt \subseteq Again(c) \cap Rt
      /\ b \in Rt => b \in Again(c)
      /\ b \in Blocs(g) /\ c.matched \in Seq(Blocs(g)) /\ c.exits \in ExitsTo(Blocs(g))
      /\ c.matched = <<>> => b = f
      /\ c.matched # <<>> => c.matched[1] = f
  BY TriedFacts
<1>1a. c.matched = <<>> => M = {}
  BY TriedFacts
<1>2. /\ m1 \in Seq(Blocs(g)) /\ ToSet(m1) = M \cup {b} /\ m1 # <<>>
      /\ m1[1] = (IF c.matched = <<>> THEN b ELSE c.matched[1])
      /\ (IsInjective(c.matched) /\ b \notin M => IsInjective(m1))
  BY <1>1, AppendItems
<1>3. IsInjective(m1) /\ m1[1] = f
  BY <1>1, <1>1a, <1>2 DEF Tried
<1>4. /\ w.at = a /\ w.next = n /\ w.matched = m1 /\ w.back = back /\ w.exits = c.exits
  BY DEF Trial
<1>5. n # nil /\ a \in 1 .. Len(p)
  BY PoolFacts DEF Sane, Shape
<1>6. w \in Trials(g, p)
  BY <1>1, <1>2, <1>5 DEF Trials, Trial
<1> HIDE DEF w, m1
<1>7. Ahead(w) = Rt \cup Succ(g, b)
      /\ Again(w) = ({n} \cap ToSet(back)) \cup Repeated(back)
  BY <1>4, <1>5 DEF Ahead, Again
<1>8. Searched(g, f, M, Ahead(c), Again(c), c.exits)
  BY DEF Tried
<1>9. M = {} \/ (g.prevcount[b] <= 1 /\ b \notin M)
  BY <1>1a
<1>10. Searched(g, f, M \cup {b}, Rt \cup Succ(g, b), Again(w), c.exits)
  <2> DEFINE D1 == Again(w)   R == Ahead(c)   D == Again(c)   x == c.exits
  <2>1. D1 \subseteq Dt \cup (Succ(g, b) \cap Rt)
                          \cup {t \in Succ(g, b) : g.exits[b].nat = t /\ g.exits[b].odd = t}
    BY <1>7
  <2>2. Searched(g, f, M, R, D, x) /\ b \in R /\ R = Rt \cup {b} /\ Dt \subseteq D \cap Rt
        /\ (b \in Rt => b \in D)
    BY <1>1, <1>8
  <2> HIDE DEF D1, R, D, x, Rt, Dt, M, b
  <2>3. Searched(g, f, M \cup {b}, Rt \cup Succ(g, b), D1, x)
    <3>1. Sane(g) /\ (M = {} \/ (g.prevcount[b] <= 1 /\ b \notin M))
      BY <1>9
    <3> QED BY <2>1, <2>2, <3>1, SearchedTake
  <2> QED BY <2>3 DEF D1, x
<1>11. \A t \in ToSet(m1) : p = Loop => g.exits[t].nat # nil
  BY <1>2 DEF Tried
<1> QED BY <1>2, <1>3, <1>4, <1>5, <1>6, <1>7, <1>10, <1>11 DEF Tried, w, m1

LEMMA TriedRecord ==
  ASSUME NEW g, NEW p, NEW f, NEW c, Tried(g, p, f, c)
  PROVE  c = Trial(c.at, c.next, c.matched, c.back, c.exits)
<1>1. c \in [at : 1 .. Len(p) + 1, next : Blocs(g) \cup {nil}, matched : Seq(Blocs(g)),
             back : Seq(Blocs(g)), exits : ExitsTo(Blocs(g))]
  BY DEF Tried, Trials
<1> QED BY <1>1 DEF Trial

\* What the parts of Ways make of a trial.
LEMMA PastTrial ==
  ASSUME NEW a, NEW n, NEW m, NEW k, NEW x
  PROVE  Past(Trial(a, n, m, k, x)) = Trial(a + 1, n, m, k, x)
BY DEF Trial, Past

LEMMA TakenTrial ==
  ASSUME NEW a, NEW n, NEW m, NEW k, NEW x, NEW b
  PROVE  Taken(Trial(a, n, m, k, x), b) = Trial(a, n, Append(m, b), k, x)
<1> DEFINE y == Append(m, b)
<1>1. Trial(a, n, m, k, x).matched = m
  BY DEF Trial
<1>2. [Trial(a, n, m, k, x) EXCEPT !.matched = y] = Trial(a, n, y, k, x)
  <2> HIDE DEF y
  <2> QED BY DEF Trial
<1> QED BY <1>1, <1>2 DEF Taken

LEMMA OutTrial ==
  ASSUME NEW a, NEW n, NEW m, NEW k, NEW x, NEW b, NEW r
  PROVE  Out(Trial(a, n, m, k, x), r, b) = Trial(a, n, m, k, Put(x, r, b))
BY DEF Trial, Out

LEMMA SentTrial ==
  ASSUME NEW a, NEW n, NEW m, NEW k, NEW x, NEW u
  PROVE  Sent(Trial(a, n, m, k, x), u) = Trial(a, u, m, k, x)
BY DEF Trial, Sent

LEMMA GivenTrial ==
  ASSUME NEW a, NEW n, NEW m, NEW k, NEW x, NEW y
  PROVE  Given(Trial(a, n, m, k, x), y) = Trial(a, n, m, k, y)
BY DEF Trial, Given

LEMMA ForkedTrial ==
  ASSUME NEW a, NEW n, NEW m, NEW k, NEW x, NEW u, NEW v
  PROVE  Forked(Trial(a, n, m, k, x), u, v) = Trial(a, u, m, v \o k, x)
<1> DEFINE y == v \o k
<1>1. [Trial(a, n, m, k, x) EXCEPT !.next = u] = Trial(a, u, m, k, x)
  BY DEF Trial
<1>2. Trial(a, u, m, k, x).back = k
  BY DEF Trial
<1>3. [Trial(a, u, m, k, x) EXCEPT !.back = y] = Trial(a, u, m, y, x)
  <2> HIDE DEF y
  <2> QED BY DEF Trial
<1> QED BY <1>1, <1>2, <1>3 DEF Forked

LEMMA EnteredTrial ==
  ASSUME NEW a, NEW n, NEW m, NEW k, NEW x, NEW u, NEW v
  PROVE  Entered(Trial(a, n, m, k, x), u, v)
           = Trial(a, u, m, IF v # nil THEN <<v>> \o k ELSE k, x)
<1> DEFINE y == IF v # nil THEN <<v>> \o k ELSE k
<1>1. [Trial(a, n, m, k, x) EXCEPT !.next = u] = Trial(a, u, m, k, x)
  BY DEF Trial
<1>2. Trial(a, u, m, k, x).back = k
  BY DEF Trial
<1>3. [Trial(a, u, m, k, x) EXCEPT !.back = y] = Trial(a, u, m, y, x)
  <2> HIDE DEF y
  <2> QED BY DEF Trial
<1> QED BY <1>1, <1>2, <1>3 DEF Entered

\* What a bloc that is to be followed leads to.
LEMMA ExitFacts ==
  ASSUME NEW g, Sane(g), NEW b \in Blocs(g)
  PROVE  /\ g.exits[b] \in ExitsTo(Blocs(g)) /\ (g.exits[b].nat = nil => g.exits[b].odd = nil)
         /\ Succ(g, b) \subseteq Blocs(g) /\ nil \notin Blocs(g)
         /\ g.exits[b].nat # nil => g.exits[b].nat \in Blocs(g) /\ g.exits[b].nat \in Succ(g, b)
         /\ g.exits[b].odd # nil => g.exits[b].odd \in Blocs(g) /\ g.exits[b].odd \in Succ(g, b)
         /\ Succ(g, b) = {t \in {g.exits[b].nat, g.exits[b].odd} : t # nil}
         /\ g.prevcount[b] \in Nat
         /\ g.exits[b] = NoExits <=> g.exits[b].nat = nil
<1>1. g.exits[b] \in ExitsTo(Blocs(g)) /\ (g.exits[b].nat = nil => g.exits[b].odd = nil)
      /\ g.prevcount[b] \in Nat /\ nil \notin Blocs(g)
  BY PoolFacts DEF Sane, Linked, Counted
<1>2. Succ(g, b) = {t \in {g.exits[b].nat, g.exits[b].odd} : t # nil}
  BY DEF Succ, Targets
<1>3. g.exits[b].nat \in Blocs(g) \cup {nil} /\ g.exits[b].odd \in Blocs(g) \cup {nil}
      /\ g.exits[b] = [nat |-> g.exits[b].nat, odd |-> g.exits[b].odd]
  BY <1>1 DEF ExitsTo
<1> HIDE DEF Succ
<1>4. g.exits[b] = NoExits <=> g.exits[b].nat = nil
  BY <1>1, <1>3 DEF NoExits, Exits
<1> QED BY <1>1, <1>2, <1>3, <1>4

LEMMA GoodFork ==
  ASSUME NEW g, Sane(g), NEW p \in Patterns, NEW f, NEW c, Tried(g, p, f, c), c.next # nil,
         p[c.at] = "?"
  PROVE  Good(g, p, f, Ways(g, p, c))
<1> DEFINE b == c.next   ex == g.exits[b]
<1>1. /\ b \in Blocs(g) /\ c.matched \in Seq(Blocs(g)) /\ c.back \in Seq(Blocs(g))
      /\ c.at \in 1 .. Len(p) /\ c.exits \in ExitsTo(Blocs(g))
  BY TriedFacts
<1>2. c.at = 1 /\ p \in {IfThen, IfThenElse, ExitIf}
  BY <1>1, Letters
<1>3. CASE ~ (Middle(g, c) /\ ex.odd # nil)
  <2>1. Ways(g, p, c) = <<>>
    BY <1>3, WaysFork
  <2> QED BY <2>1 DEF Good
<1>4. CASE Middle(g, c) /\ ex.odd # nil
  <2>1. ex.nat # nil /\ ex.nat \in Blocs(g) /\ ex.odd \in Blocs(g) /\ ex.odd # nil
        /\ Succ(g, b) = {ex.nat, ex.odd}
    <3> HIDE DEF b
    <3> QED BY <1>1, <1>4, ExitFacts
  <2>2. c.back = <<>>
    <3>1. Shape(p, 1, c.back, c.exits)
      BY <1>2 DEF Tried
    <3>2. p # Seq2 /\ Len(c.back) = 0
      BY <1>2, <3>1, Lengths DEF Shape
    <3> QED BY <1>1, <3>2
  <2>3. c.matched = <<>> \/ (g.prevcount[b] <= 1 /\ b \notin ToSet(c.matched))
    BY <1>4 DEF Middle, Contains, ToSet
  <2>4. ASSUME NEW r \in BOOLEAN PROVE Tried(g, p, f, Branch(g, c, r))
    <3> DEFINE u == Get(ex, r)   v == Get(ex, ~ r)
               w == Trial(2, u, Append(c.matched, b), <<v>>, c.exits)
    <3>1. Branch(g, c, r) = w
      <4>1. c = Trial(1, b, c.matched, <<>>, c.exits)
        BY TriedRecord, <1>2, <2>2
      <4> DEFINE m == c.matched   x == c.exits   d == Trial(2, b, Append(m, b), <<>>, x)
      <4>2. Past(c) = Trial(1 + 1, b, m, <<>>, x)
        BY <4>1, PastTrial
      <4>3. 1 + 1 = 2
        OBVIOUS
      <4>4. Taken(Trial(2, b, m, <<>>, x), b) = d
        BY TakenTrial
      <4>5. Forked(d, u, <<v>>) = Trial(2, u, Append(m, b), <<v>> \o <<>>, x)
        <5> DEFINE m2 == Append(m, b)   vs == <<v>>   es == <<>>
        <5> HIDE DEF m2, vs, es, u, x
        <5>1. Forked(Trial(2, b, m2, es, x), u, vs) = Trial(2, u, m2, vs \o es, x)
          BY ForkedTrial
        <5> QED BY <5>1 DEF m2, vs, es
      <4>6. <<v>> \o <<>> = <<v>>
        OBVIOUS
      <4>7. Taken(Past(c), b) = d
        BY <4>2, <4>3, <4>4
      <4>8. Branch(g, c, r) = Forked(d, u, <<v>>)
        BY <4>7 DEF Branch
      <4> QED BY <4>5, <4>6, <4>8
    <3>2. u \in Blocs(g) /\ v \in Blocs(g) /\ {u, v} = Succ(g, b)
          /\ (u = v => ex.nat = u /\ ex.odd = u)
      BY <2>1 DEF Get
    <3> DEFINE back == <<v>>
    <3>3. back \in Seq(Blocs(g)) /\ ToSet(back) = {v} /\ Repeated(back) = {} /\ Len(back) = 1
      BY <3>2 DEF ToSet, Repeated
    <3>4. Shape(p, 2, back, c.exits)
      <4>1. 2 \in 1 .. Len(p) /\ p # Seq2
        BY SMTT(60), <1>2, Lengths
      <4>2. Len(back) = 1
        BY <3>3
      <4> HIDE DEF back
      <4> QED BY <4>1, <4>2 DEF Shape
    <3>5. p # Loop
      BY <1>2, Lengths
    <3>6. {u} \cup ToSet(back) = ToSet(c.back) \cup Succ(g, b)
      BY <2>2, <3>2, <3>3, NoItems
    <3>7. ({u} \cap ToSet(back)) \cup Repeated(back)
            \subseteq {t \in Succ(g, b) : g.exits[b].nat = t /\ g.exits[b].odd = t}
      <4> HIDE DEF u, v, back
      <4> QED BY <3>2, <3>3
    <3> HIDE DEF u, v, back, ex
    <3>8. Tried(g, p, f, Trial(2, u, Append(c.matched, c.next), back, c.exits))
      BY <2>3, <3>2, <3>3, <3>4, <3>5, <3>6, <3>7, TriedTake
    <3> QED BY <3>1, <3>8 DEF back
  <2>5. Ways(g, p, c) = <<Branch(g, c, FALSE), Branch(g, c, TRUE)>>
    BY <1>4, WaysFork
  <2> DEFINE w1 == Branch(g, c, FALSE)   w2 == Branch(g, c, TRUE)
  <2>6. Tried(g, p, f, w1) /\ Tried(g, p, f, w2)
    BY <2>4
  <2> HIDE DEF w1, w2
  <2>7. <<w1, w2>>[1] = w1 /\ <<w1, w2>>[2] = w2 /\ Len(<<w1, w2>>) = 2 /\ <<w1, w2>> # <<>>
    OBVIOUS
  <2> QED BY <2>5, <2>6, <2>7 DEF Good, w1, w2
<1> QED BY <1>3, <1>4

\* The item at i of pattern p.
Comma(p, i) == p[i] = ","
Dot(p, i) == p[i] = "."
Bang(p, i) == p[i] = "!"
Digit(p, i) == p[i] = "1"
Opening(p, i) == p[i] = "("
Shutting(p, i) == p[i] = ")"
Star(p, i) == p[i] = "*"

LEMMA Items ==
  ASSUME NEW p \in Patterns, NEW i \in 1 .. Len(p)
  PROVE  /\ Comma(p, i) => \/ p = Seq2 /\ i \in {1, 3}
                           \/ p = IfThen /\ i = 2
                           \/ p = IfThenElse /\ i \in {2, 4}
         /\ Dot(p, i) => p = ExitIf /\ i = 2
         /\ Bang(p, i) => p = Seq2 /\ i = 5
         /\ Digit(p, i) => \/ p = IfThen /\ i \in {3, 4}
                           \/ p = IfThenElse /\ i \in {3, 5}
                           \/ p = ExitIf /\ i = 3
         /\ Opening(p, i) => p = Seq2 /\ i = 2
         /\ Shutting(p, i) => p = Seq2 /\ i = 4
         /\ Star(p, i) => p = Loop /\ i = 1
<1>1. Comma(p, i) => \/ p = Seq2 /\ i \in {1, 3}
                     \/ p = IfThen /\ i = 2
                     \/ p = IfThenElse /\ i \in {2, 4}
  BY Zenon, Letters DEF Comma
<1>2. Dot(p, i) => p = ExitIf /\ i = 2
  BY Zenon, Letters DEF Dot
<1>3. Bang(p, i) => p = Seq2 /\ i = 5
  BY Zenon, Letters DEF Bang
<1>4. Digit(p, i) => \/ p = IfThen /\ i \in {3, 4}
                     \/ p = IfThenElse /\ i \in {3, 5}
                     \/ p = ExitIf /\ i = 3
  BY Zenon, Letters DEF Digit
<1>5. Opening(p, i) => p = Seq2 /\ i = 2
  BY Zenon, Letters DEF Opening
<1>6. Shutting(p, i) => p = Seq2 /\ i = 4
  BY Zenon, Letters DEF Shutting
<1>7. Star(p, i) => p = Loop /\ i = 1
  BY Zenon, Letters DEF Star
<1> QED BY <1>1, <1>2, <1>3, <1>4, <1>5, <1>6, <1>7

LEMMA MiddleFacts ==
  ASSUME NEW g, NEW c, Middle(g, c), c.matched \in Seq(Blocs(g))
  PROVE  c.matched = <<>> \/ (g.prevcount[c.next] <= 1 /\ c.next \notin ToSet(c.matched))
<1>1. DOMAIN c.matched = 1 .. Len(c.matched)
  OBVIOUS
<1> QED BY <1>1 DEF Middle, Contains, ToSet

\* One way, to a trial of the same search.
LEMMA GoodOne ==
  ASSUME NEW g, NEW p, NEW f, NEW w, Tried(g, p, f, w)
  PROVE  Good(g, p, f, <<w>>)
<1>1. <<w>>[1] = w /\ Len(<<w>>) = 1 /\ <<w>> # <<>>
  OBVIOUS
<1> QED BY <1>1 DEF Good

LEMMA GoodNone == ASSUME NEW g, NEW p, NEW f PROVE Good(g, p, f, <<>>)
BY DEF Good

LEMMA GoodComma ==
  ASSUME NEW g, Sane(g), NEW p \in Patterns, NEW f, NEW c, Tried(g, p, f, c), c.next # nil,
         Comma(p, c.at)
  PROVE  Good(g, p, f, Ways(g, p, c))
<1> DEFINE b == c.next   ex == g.exits[b]
<1>1. /\ b \in Blocs(g) /\ c.matched \in Seq(Blocs(g)) /\ c.back \in Seq(Blocs(g))
      /\ c.at \in 1 .. Len(p) /\ c.exits \in ExitsTo(Blocs(g))
  BY TriedFacts
<1>3. CASE ~ (Middle(g, c) /\ ex.odd = nil /\ ex.nat # nil)
  <2>1. Ways(g, p, c) = <<>>
    BY <1>3, Zenon, WaysComma DEF Comma
  <2> QED BY <2>1, GoodNone
<1>4. CASE Middle(g, c) /\ ex.odd = nil /\ ex.nat # nil
  <2> DEFINE n == ex.nat
             w == Trial(c.at + 1, n, Append(c.matched, b), c.back, c.exits)
  <2>1. n \in Blocs(g) /\ Succ(g, b) = {n}
    <3>1. Succ(g, b) = {t \in {ex.nat, ex.odd} : t # nil} /\ n \in Blocs(g)
      <4> HIDE DEF b
      <4> QED BY <1>1, <1>4, ExitFacts
    <3> QED BY <1>4, <3>1
  <2>2. Sent(Taken(Past(c), b), n) = w
    <3>1. c = Trial(c.at, b, c.matched, c.back, c.exits)
      BY TriedRecord
    <3> DEFINE a0 == c.at   m0 == c.matched   k0 == c.back   x0 == c.exits
    <3> HIDE DEF a0, m0, k0, x0, b, n
    <3>2. Past(Trial(a0, b, m0, k0, x0)) = Trial(a0 + 1, b, m0, k0, x0)
      BY PastTrial
    <3> DEFINE a1 == a0 + 1   m1 == Append(m0, b)
    <3> HIDE DEF a1
    <3>3. Taken(Trial(a1, b, m0, k0, x0), b) = Trial(a1, b, m1, k0, x0)
      BY TakenTrial
    <3> HIDE DEF m1
    <3>4. Sent(Trial(a1, b, m1, k0, x0), n) = Trial(a1, n, m1, k0, x0)
      BY SentTrial
    <3> QED BY <3>1, <3>2, <3>3, <3>4 DEF a0, m0, k0, x0, a1, m1
  <2>3. Shape(p, c.at + 1, c.back, c.exits) /\ p # Loop
    <3>1. \/ p = Seq2 /\ c.at \in {1, 3}
          \/ p = IfThen /\ c.at = 2
          \/ p = IfThenElse /\ c.at \in {2, 4}
      BY <1>1, Items
    <3>2. Shape(p, c.at, c.back, c.exits)
      BY DEF Tried
    <3>3. c.at + 1 \in 1 .. Len(p)
      <4>1. CASE p = Seq2 /\ c.at \in {1, 3}
        BY <4>1, Lengths
      <4>2. CASE p = IfThen /\ c.at = 2
        BY <4>2, Lengths
      <4>3. CASE p = IfThenElse /\ c.at \in {2, 4}
        BY <4>3, Lengths
      <4> QED BY <3>1, <4>1, <4>2, <4>3
    <3> DEFINE a == c.at   k == c.back   x == c.exits
    <3>4. Shape(p, a, k, x) /\ a + 1 \in 1 .. Len(p)
          /\ \/ p = Seq2 /\ a \in {1, 3}
             \/ p = IfThen /\ a = 2
             \/ p = IfThenElse /\ a \in {2, 4}
      BY <3>1, <3>2, <3>3
    <3> HIDE DEF a, k, x
    <3>5. Shape(p, a + 1, k, x) /\ p # Loop
      <4>1. CASE p = Seq2
        BY <3>4, <4>1, Lengths DEF Shape
      <4>2. CASE p = IfThen /\ a = 2
        <5>1. p # Seq2 /\ p # IfThenElse /\ p # ExitIf /\ p # Loop /\ a + 1 = 3
          BY <4>2, Lengths
        <5> QED BY <3>4, <4>2, <5>1 DEF Shape
      <4>3. CASE p = IfThenElse /\ a \in {2, 4}
        <5>1. /\ p # Seq2 /\ p # IfThen /\ p # ExitIf /\ p # Loop
              /\ (a = 2 /\ a + 1 = 3) \/ (a = 4 /\ a + 1 = 5)
          BY <4>3, Lengths
        <5> QED BY <3>4, <4>3, <5>1 DEF Shape
      <4> QED BY <3>4, <4>1, <4>2, <4>3
    <3> QED BY <3>5 DEF a, k, x
  <2>4. c.matched = <<>> \/ (g.prevcount[b] <= 1 /\ b \notin ToSet(c.matched))
    BY <1>1, <1>4, MiddleFacts
  <2>5. {n} \cup ToSet(c.back) = ToSet(c.back) \cup Succ(g, b)
    BY <2>1
  <2>6. ({n} \cap ToSet(c.back)) \cup Repeated(c.back)
          \subseteq Repeated(c.back) \cup (Succ(g, b) \cap ToSet(c.back))
            \cup {t \in Succ(g, b) : g.exits[b].nat = t /\ g.exits[b].odd = t}
    BY <2>1
  <2>7. Tried(g, p, f, w)
    <3> HIDE DEF n
    <3> QED BY <1>1, <2>1, <2>3, <2>4, <2>5, <2>6, TriedTake
  <2>8. Ways(g, p, c) = <<w>>
    BY <1>4, <2>2, Zenon, WaysComma DEF Comma
  <2> QED BY <2>7, <2>8, GoodOne
<1> QED BY <1>3, <1>4

Begins(m, f) == m # <<>> /\ m[1] = f

\* The bloc is taken, and nothing more is to be followed from it than S.
LEMMA TakenSearched ==
  ASSUME NEW g, Sane(g), NEW p, NEW f, NEW c, Tried(g, p, f, c), c.next # nil,
         c.matched = <<>> \/ (g.prevcount[c.next] <= 1 /\ c.next \notin ToSet(c.matched)),
         NEW m, m = Append(c.matched, c.next)
  PROVE  /\ m \in Seq(Blocs(g)) /\ Begins(m, f) /\ IsInjective(m)
         /\ Searched(g, f, ToSet(m), ToSet(c.back) \cup Succ(g, c.next), Repeated(c.back),
                     c.exits)
<1> DEFINE b == c.next   M == ToSet(c.matched)   m1 == Append(c.matched, b)
           Rt == ToSet(c.back)   Dt == Repeated(c.back)
<1>1. /\ b \in Ahead(c) /\ Ahead(c) = Rt \cup {b} /\ Dt \subseteq Again(c) \cap Rt
      /\ b \in Rt => b \in Again(c)
      /\ b \in Blocs(g) /\ c.matched \in Seq(Blocs(g)) /\ c.exits \in ExitsTo(Blocs(g))
      /\ c.matched = <<>> => b = f
      /\ c.matched # <<>> => c.matched[1] = f
  BY TriedFacts
<1>1a. c.matched = <<>> => M = {}
  BY TriedFacts
<1>2. /\ m1 \in Seq(Blocs(g)) /\ ToSet(m1) = M \cup {b} /\ m1 # <<>>
      /\ m1[1] = (IF c.matched = <<>> THEN b ELSE c.matched[1])
      /\ (IsInjective(c.matched) /\ b \notin M => IsInjective(m1))
  BY <1>1, AppendItems
<1>3. IsInjective(m1) /\ m1[1] = f
  BY <1>1, <1>1a, <1>2 DEF Tried
<1>4. Searched(g, f, M \cup {b}, Rt \cup Succ(g, b), Dt, c.exits)
  <2> DEFINE R == Ahead(c)   D == Again(c)   x == c.exits
  <2>1. Dt \subseteq Dt \cup (Succ(g, b) \cap Rt)
                          \cup {t \in Succ(g, b) : g.exits[b].nat = t /\ g.exits[b].odd = t}
    OBVIOUS
  <2>2. Searched(g, f, M, R, D, x) /\ b \in R /\ R = Rt \cup {b} /\ Dt \subseteq D \cap Rt
        /\ (b \in Rt => b \in D)
    BY <1>1 DEF Tried
  <2>3. Sane(g) /\ (M = {} \/ (g.prevcount[b] <= 1 /\ b \notin M))
    BY <1>1a
  <2> HIDE DEF R, D, x, Rt, Dt, M, b
  <2>4. Searched(g, f, M \cup {b}, Rt \cup Succ(g, b), Dt, x)
    BY <2>1, <2>2, <2>3, SearchedTake
  <2> QED BY <2>4 DEF x
<1> QED BY <1>1, <1>2, <1>3, <1>4 DEF Begins

LEMMA GoodDot ==
  ASSUME NEW g, Sane(g), NEW p \in Patterns, NEW f, NEW c, Tried(g, p, f, c), c.next # nil,
         Dot(p, c.at)
  PROVE  Good(g, p, f, Ways(g, p, c))
<1> DEFINE b == c.next   ex == g.exits[b]   m1 == Append(c.matched, b)
<1>1. /\ b \in Blocs(g) /\ c.matched \in Seq(Blocs(g)) /\ c.back \in Seq(Blocs(g))
      /\ c.at \in 1 .. Len(p) /\ c.exits \in ExitsTo(Blocs(g))
  BY TriedFacts
<1>2. p = ExitIf /\ c.at = 2 /\ Len(p) = 3 /\ p # Loop
  BY <1>1, Items, Lengths
<1>3. CASE ~ (Middle(g, c) /\ ex = NoExits)
  <2>1. Ways(g, p, c) = <<>>
    BY <1>3, Zenon, WaysDot DEF Dot
  <2> QED BY <2>1, GoodNone
<1>4. CASE Middle(g, c) /\ ex = NoExits
  <2>1. Succ(g, b) = {} /\ nil \notin Blocs(g)
    <3>1. nil \notin Blocs(g)
      BY <1>1, ExitFacts
    <3> QED BY <1>4, <3>1 DEF Succ, Targets, NoExits, Exits
  <2>2. /\ m1 \in Seq(Blocs(g)) /\ m1 # <<>> /\ m1[1] = f /\ IsInjective(m1)
        /\ Searched(g, f, ToSet(m1), ToSet(c.back) \cup Succ(g, b), Repeated(c.back), c.exits)
    <3>1. c.matched = <<>> \/ (g.prevcount[c.next] <= 1 /\ c.next \notin ToSet(c.matched))
      BY <1>1, <1>4, MiddleFacts
    <3>2. Sane(g) /\ Tried(g, p, f, c) /\ c.next # nil
      OBVIOUS
    <3>3. m1 = Append(c.matched, c.next)
      OBVIOUS
    <3> HIDE DEF m1
    <3>4. m1 \in Seq(Blocs(g)) /\ Begins(m1, f) /\ IsInjective(m1)
      BY <3>1, <3>2, <3>3, TakenSearched
    <3>5. Searched(g, f, ToSet(m1), ToSet(c.back) \cup Succ(g, c.next), Repeated(c.back), c.exits)
      BY <3>1, <3>2, <3>3, TakenSearched
    <3> QED BY <3>4, <3>5 DEF Begins
  <2>3. ToSet(c.back) \cup Succ(g, b) = ToSet(c.back)
    BY <2>1
  <2>4. c.back # <<>> => Shape(p, 3, Tail(c.back), c.exits)
    <3>1. Shape(p, 2, c.back, c.exits)
      BY <1>2 DEF Tried
    <3>2. Len(c.back) = 1
      BY <1>2, <3>1, Lengths DEF Shape
    <3>3. c.back # <<>> => Len(Tail(c.back)) = 0
      BY <1>1, <3>2
    <3> QED BY <1>2, <3>3, Lengths DEF Shape
  <2>5. Taken(Past(c), b) = Trial(3, b, m1, c.back, c.exits)
    <3>1. c = Trial(2, b, c.matched, c.back, c.exits)
      BY TriedRecord, <1>2
    <3> DEFINE m0 == c.matched   k0 == c.back   x0 == c.exits
    <3> HIDE DEF m0, k0, x0, b
    <3>2. Past(Trial(2, b, m0, k0, x0)) = Trial(2 + 1, b, m0, k0, x0)
      BY PastTrial
    <3>3. Taken(Trial(3, b, m0, k0, x0), b) = Trial(3, b, Append(m0, b), k0, x0)
      BY TakenTrial
    <3>4. 2 + 1 = 3
      OBVIOUS
    <3> QED BY <3>1, <3>2, <3>3, <3>4 DEF m0, k0, x0
  <2>6. Good(g, p, f, Close(p, Trial(3, b, m1, c.back, c.exits)))
    <3>1. 3 \in 1 .. Len(p) + 1
      BY <1>2
    <3> DEFINE k == c.back   x == c.exits
    <3>2. Searched(g, f, ToSet(m1), ToSet(k), Repeated(k), x)
      BY <2>2, <2>3
    <3>3. k \in Seq(Blocs(g)) /\ x \in ExitsTo(Blocs(g)) /\ (k # <<>> => Shape(p, 3, Tail(k), x))
          /\ m1 \in Seq(Blocs(g)) /\ m1 # <<>> /\ m1[1] = f /\ IsInjective(m1)
          /\ nil \notin Blocs(g) /\ p # Loop
      BY <1>1, <1>2, <2>1, <2>2, <2>4
    <3> HIDE DEF m1, k, x, b
    <3>4. Good(g, p, f, Close(p, Trial(3, b, m1, k, x)))
      BY <3>1, <3>2, <3>3, GoodClose DEF Trial
    <3> QED BY <3>4 DEF k, x
  <2> QED BY <1>4, <2>5, <2>6, Zenon, WaysDot DEF Dot
<1> QED BY <1>3, <1>4

LEMMA GoodBang ==
  ASSUME NEW g, Sane(g), NEW p \in Patterns, NEW f, NEW c, Tried(g, p, f, c), c.next # nil,
         Bang(p, c.at)
  PROVE  Good(g, p, f, Ways(g, p, c))
<1> DEFINE b == c.next   ex == g.exits[b]   m1 == Append(c.matched, b)
<1>1. /\ b \in Blocs(g) /\ c.matched \in Seq(Blocs(g)) /\ c.back \in Seq(Blocs(g))
      /\ c.at \in 1 .. Len(p) /\ c.exits \in ExitsTo(Blocs(g))
  BY TriedFacts
<1>2. p = Seq2 /\ c.at = 5 /\ Len(p) = 5 /\ p # Loop
  BY <1>1, Items, Lengths
<1>3. CASE ~ Middle(g, c)
  <2>1. Ways(g, p, c) = <<>>
    BY <1>3, Zenon, WaysBang DEF Bang
  <2> QED BY <2>1, GoodNone
<1>4. CASE Middle(g, c)
  <2>1. /\ ex \in ExitsTo(Blocs(g)) /\ (ex.nat = nil => ex.odd = nil) /\ nil \notin Blocs(g)
        /\ Targets(ex) = Succ(g, b)
    <3>1. Targets(ex) = Succ(g, b)
      BY DEF Succ
    <3> HIDE DEF b
    <3> QED BY <1>1, <3>1, ExitFacts
  <2>2. /\ m1 \in Seq(Blocs(g)) /\ m1 # <<>> /\ m1[1] = f /\ IsInjective(m1)
        /\ Searched(g, f, ToSet(m1), ToSet(c.back) \cup Succ(g, b), Repeated(c.back), c.exits)
    <3>1. c.matched = <<>> \/ (g.prevcount[c.next] <= 1 /\ c.next \notin ToSet(c.matched))
      BY <1>1, <1>4, MiddleFacts
    <3>2. Sane(g) /\ Tried(g, p, f, c) /\ c.next # nil
      OBVIOUS
    <3>3. m1 = Append(c.matched, c.next)
      OBVIOUS
    <3> HIDE DEF m1
    <3>4. m1 \in Seq(Blocs(g)) /\ Begins(m1, f) /\ IsInjective(m1)
      BY <3>1, <3>2, <3>3, TakenSearched
    <3>5. Searched(g, f, ToSet(m1), ToSet(c.back) \cup Succ(g, c.next), Repeated(c.back), c.exits)
      BY <3>1, <3>2, <3>3, TakenSearched
    <3> QED BY <3>4, <3>5 DEF Begins
  <2>3. c.back = <<>> /\ c.exits = NoExits
    BY <1>2 DEF Tried, Shape
  <2>4. ToSet(c.back) = {} /\ Repeated(c.back) = {}
    BY <2>3, NoItems
  <2>5. Searched(g, f, ToSet(m1), {}, {}, ex)
    <3>1. Searched(g, f, ToSet(m1), Succ(g, b), {}, NoExits)
      <4>1. ToSet(c.back) \cup Succ(g, b) = Succ(g, b)
        BY <2>4
      <4> HIDE DEF m1, b
      <4> QED BY <2>2, <2>3, <2>4, <4>1
    <3>2. ToSet(m1) # {}
      <4>1. 1 \in DOMAIN m1
        BY <2>2
      <4> HIDE DEF m1
      <4> QED BY <4>1 DEF ToSet
    <3> DEFINE M == ToSet(m1)   R == Succ(g, b)   x == ex
    <3>3. /\ Searched(g, f, M, R, {}, NoExits) /\ M # {}
          /\ x \in ExitsTo(Blocs(g)) /\ (x.nat = nil => x.odd = nil) /\ Targets(x) = R
      BY <2>1, <3>1, <3>2
    <3> HIDE DEF M, R, x
    <3>4. Searched(g, f, M, {}, {}, x)
      BY <3>3, SearchedExits
    <3> QED BY <3>4 DEF M, x
  <2>6. Given(Taken(Past(c), b), ex) = Trial(6, b, m1, <<>>, ex)
    <3>1. c = Trial(5, b, c.matched, <<>>, NoExits)
      BY TriedRecord, <1>2, <2>3
    <3> DEFINE m0 == c.matched   k0 == <<>>   x0 == NoExits   x1 == ex
    <3> HIDE DEF m0, k0, x0, b, x1
    <3>2. Past(Trial(5, b, m0, k0, x0)) = Trial(5 + 1, b, m0, k0, x0)
      BY PastTrial
    <3>3. Taken(Trial(6, b, m0, k0, x0), b) = Trial(6, b, Append(m0, b), k0, x0)
      BY TakenTrial
    <3>4. Given(Trial(6, b, Append(m0, b), k0, x0), x1) = Trial(6, b, Append(m0, b), k0, x1)
      BY GivenTrial
    <3>5. 5 + 1 = 6
      OBVIOUS
    <3> QED BY <3>1, <3>2, <3>3, <3>4, <3>5 DEF m0, k0, x0, x1
  <2>7. Good(g, p, f, Close(p, Trial(6, b, m1, <<>>, ex)))
    <3> DEFINE k == <<>>   x == ex
    <3>1. 6 \in 1 .. Len(p) + 1 /\ ToSet(k) = {} /\ Repeated(k) = {}
      BY <1>2, NoItems
    <3>2. Searched(g, f, ToSet(m1), ToSet(k), Repeated(k), x)
      <4> HIDE DEF k, m1
      <4> QED BY <2>5, <3>1
    <3>3. k \in Seq(Blocs(g)) /\ x \in ExitsTo(Blocs(g)) /\ (k # <<>> => Shape(p, 6, Tail(k), x))
          /\ m1 \in Seq(Blocs(g)) /\ m1 # <<>> /\ m1[1] = f /\ IsInjective(m1)
          /\ nil \notin Blocs(g) /\ p # Loop
      <4>1. k \in Seq(Blocs(g)) /\ (k # <<>> => Shape(p, 6, Tail(k), x))
        OBVIOUS
      <4> HIDE DEF k, m1, x
      <4> QED BY <1>2, <2>1, <2>2, <4>1 DEF x
    <3> HIDE DEF m1, k, x, b
    <3>4. Good(g, p, f, Close(p, Trial(6, b, m1, k, x)))
      BY <3>1, <3>2, <3>3, GoodClose DEF Trial
    <3> QED BY <3>4 DEF k, x
  <2> QED BY <1>4, <2>6, <2>7, Zenon, WaysBang DEF Bang
<1> QED BY <1>3, <1>4

\* The bloc becomes an exit of the group.
LEMMA OutSearched ==
  ASSUME NEW g, Sane(g), NEW p, NEW f, NEW c, Tried(g, p, f, c), c.next # nil,
         c.matched # <<>>, NEW alt \in BOOLEAN, MaySetExit(c.exits, alt, c.next),
         alt => c.exits.nat # nil /\ c.exits.nat # c.next
  PROVE  LET x == Put(c.exits, alt, c.next)
         IN  x \in ExitsTo(Blocs(g)) /\ Searched(g, f, ToSet(c.matched), ToSet(c.back), Repeated(c.back), x)
<1> DEFINE b == c.next   M == ToSet(c.matched)   x0 == c.exits   x1 == Put(x0, alt, b)
           Rt == ToSet(c.back)   Dt == Repeated(c.back)
<1>1. /\ b \in Ahead(c) /\ Ahead(c) = Rt \cup {b} /\ Dt \subseteq Again(c) \cap Rt
      /\ b \in Rt => b \in Again(c)
      /\ b \in Blocs(g) /\ x0 \in ExitsTo(Blocs(g)) /\ (x0.nat = nil => x0.odd = nil)
  BY TriedFacts
<1>2. M # {}
  BY TriedFacts
<1>3. nil \notin Blocs(g)
  BY <1>1, ExitFacts
<1>4. /\ x1 \in ExitsTo(Blocs(g)) /\ (x1.nat = nil => x1.odd = nil)
      /\ Targets(x1) = Targets(x0) \cup {b}
  <2>1. x0 = [nat |-> x0.nat, odd |-> x0.odd] /\ x0.nat \in Blocs(g) \cup {nil}
        /\ x0.odd \in Blocs(g) \cup {nil}
    BY <1>1 DEF ExitsTo
  <2>2. CASE alt
    <3>1. x0.odd \in {nil, b} /\ x0.nat # nil /\ x0.nat # b
      BY <2>2 DEF MaySetExit, Get
    <3>2. x1 = [nat |-> x0.nat, odd |-> b]
      <4> HIDE DEF b, x0
      <4>1. x1 = [x0 EXCEPT !.odd = b]
        BY <2>2 DEF Put
      <4> QED BY <2>1, <4>1
    <3>3. x1.nat = x0.nat /\ x1.odd = b /\ x1 \in ExitsTo(Blocs(g))
      BY <1>1, <2>1, <3>2 DEF ExitsTo
    <3> HIDE DEF x1, x0, b
    <3> QED BY <1>1, <1>3, <3>1, <3>3 DEF Targets
  <2>3. CASE ~ alt
    <3>1. x0.nat \in {nil, b}
      BY <2>3 DEF MaySetExit, Get
    <3>2. x1 = [nat |-> b, odd |-> x0.odd]
      <4> HIDE DEF b, x0
      <4>1. x1 = [x0 EXCEPT !.nat = b]
        BY <2>3 DEF Put
      <4> QED BY <2>1, <4>1
    <3>3. x1.nat = b /\ x1.odd = x0.odd /\ x1 \in ExitsTo(Blocs(g))
      BY <1>1, <2>1, <3>2 DEF ExitsTo
    <3> HIDE DEF x1, x0, b
    <3> QED BY <1>1, <1>3, <3>1, <3>3 DEF Targets
  <2> QED BY <2>2, <2>3
<1>5. Searched(g, f, M, Ahead(c), Again(c), x0)
  BY DEF Tried
<1>6. Searched(g, f, M, Rt, Dt, x1)
  <2> DEFINE R == Ahead(c)   D == Again(c)
  <2>1. /\ Searched(g, f, M, R, D, x0) /\ M # {} /\ b \in R /\ R = Rt \cup {b}
        /\ Dt \subseteq D \cap Rt /\ (b \in Rt => b \in D)
        /\ x1 \in ExitsTo(Blocs(g)) /\ (x1.nat = nil => x1.odd = nil)
        /\ Targets(x1) = Targets(x0) \cup {b}
    BY <1>1, <1>2, <1>4, <1>5
  <2> HIDE DEF R, D, M, Rt, Dt, x0, x1, b
  <2> QED BY <2>1, SearchedExit
<1> QED BY <1>4, <1>6

LEMMA GoodDigit ==
  ASSUME NEW g, Sane(g), NEW p \in Patterns, NEW f, NEW c, Tried(g, p, f, c), c.next # nil,
         Digit(p, c.at)
  PROVE  Good(g, p, f, Ways(g, p, c))
<1> DEFINE b == c.next   x1 == Put(c.exits, FALSE, b)
<1>1. /\ b \in Blocs(g) /\ c.matched \in Seq(Blocs(g)) /\ c.back \in Seq(Blocs(g))
      /\ c.at \in 1 .. Len(p) /\ c.exits \in ExitsTo(Blocs(g))
  BY TriedFacts
<1>2. \/ p = IfThen /\ c.at \in {3, 4}
      \/ p = IfThenElse /\ c.at \in {3, 5}
      \/ p = ExitIf /\ c.at = 3
  BY <1>1, Items
<1>3. CASE ~ MaySetExit(c.exits, FALSE, b)
  <2>1. Ways(g, p, c) = <<>>
    BY <1>3, Zenon, WaysOne DEF Digit
  <2> QED BY <2>1, GoodNone
<1>4. CASE MaySetExit(c.exits, FALSE, b)
  <2>1. c.matched # <<>> /\ c.matched[1] = f /\ IsInjective(c.matched)
    <3>1. c.at # 1
      BY <1>2
    <3> QED BY <3>1 DEF Tried
  <2>2. x1 \in ExitsTo(Blocs(g)) /\ Searched(g, f, ToSet(c.matched), ToSet(c.back), Repeated(c.back), x1)
    BY <1>4, <2>1, OutSearched
  <2>3. nil \notin Blocs(g)
    BY <1>1, ExitFacts
  <2>4. c.at + 1 \in 1 .. Len(p) + 1 /\ p # Loop
    <3>1. p # Loop
      BY <1>2, Lengths
    <3>2. Len(p) \in Nat
      BY <1>2, Lengths
    <3> QED BY <1>1, <3>1, <3>2
  <2>5. c.back # <<>> => Shape(p, c.at + 1, Tail(c.back), x1)
    <3> DEFINE a == c.at   k == c.back
    <3>1. Shape(p, a, k, c.exits) /\ k \in Seq(Blocs(g))
      BY <1>1 DEF Tried
    <3>2. \/ p = IfThen /\ a \in {3, 4}
          \/ p = IfThenElse /\ a \in {3, 5}
          \/ p = ExitIf /\ a = 3
      BY <1>2
    <3> HIDE DEF a, k
    <3>3. CASE p = IfThen /\ a = 3
      <4>1. p # Seq2 /\ p # IfThenElse /\ p # ExitIf /\ Len(k) = 1 /\ a + 1 = 4 /\ 4 \in 1 .. Len(p)
        BY <3>1, <3>3, Lengths DEF Shape
      <4>2. Len(Tail(k)) = 0
        BY <3>1, <4>1
      <4> HIDE DEF x1
      <4> QED BY <3>3, <4>1, <4>2 DEF Shape, a, k
    <3>4. CASE p = IfThenElse /\ a = 3
      <4>1. p # Seq2 /\ p # IfThen /\ p # ExitIf /\ Len(k) = 1 /\ a + 1 = 4 /\ 4 \in 1 .. Len(p)
        BY <3>1, <3>4, Lengths DEF Shape
      <4>2. Len(Tail(k)) = 0
        BY <3>1, <4>1
      <4> HIDE DEF x1
      <4> QED BY <3>4, <4>1, <4>2 DEF Shape, a, k
    <3>5. CASE \/ p = IfThen /\ a = 4
               \/ p = IfThenElse /\ a = 5
               \/ p = ExitIf /\ a = 3
      <4>1. Len(k) = 0
        <5>1. CASE p = IfThen /\ a = 4
          BY <3>1, <5>1, Lengths DEF Shape
        <5>2. CASE p = IfThenElse /\ a = 5
          BY <3>1, <5>2, Lengths DEF Shape
        <5>3. CASE p = ExitIf /\ a = 3
          BY <3>1, <5>3, Lengths DEF Shape
        <5> QED BY <3>5, <5>1, <5>2, <5>3
      <4>2. k = <<>>
        BY <3>1, <4>1
      <4> QED BY <4>2 DEF k
    <3> QED BY <3>2, <3>3, <3>4, <3>5
  <2>6. Out(Past(c), FALSE, b) = Trial(c.at + 1, b, c.matched, c.back, x1)
    <3>1. c = Trial(c.at, b, c.matched, c.back, c.exits)
      BY TriedRecord
    <3> DEFINE a0 == c.at   m0 == c.matched   k0 == c.back   x0 == c.exits
    <3> HIDE DEF a0, m0, k0, x0, b
    <3>2. Past(Trial(a0, b, m0, k0, x0)) = Trial(a0 + 1, b, m0, k0, x0)
      BY PastTrial
    <3> DEFINE a1 == a0 + 1
    <3> HIDE DEF a1
    <3>3. Out(Trial(a1, b, m0, k0, x0), FALSE, b) = Trial(a1, b, m0, k0, Put(x0, FALSE, b))
      <4> DEFINE r == FALSE
      <4> HIDE DEF r
      <4>1. Out(Trial(a1, b, m0, k0, x0), r, b) = Trial(a1, b, m0, k0, Put(x0, r, b))
        BY OutTrial
      <4> QED BY <4>1 DEF r
    <3> QED BY <3>1, <3>2, <3>3 DEF a0, m0, k0, x0, a1
  <2>7. Good(g, p, f, Close(p, Trial(c.at + 1, b, c.matched, c.back, x1)))
    <3> DEFINE a == c.at + 1   k == c.back   m == c.matched
    <3>1. /\ a \in 1 .. Len(p) + 1 /\ Searched(g, f, ToSet(m), ToSet(k), Repeated(k), x1)
          /\ k \in Seq(Blocs(g)) /\ x1 \in ExitsTo(Blocs(g)) /\ (k # <<>> => Shape(p, a, Tail(k), x1))
          /\ m \in Seq(Blocs(g)) /\ m # <<>> /\ m[1] = f /\ IsInjective(m)
          /\ nil \notin Blocs(g) /\ p # Loop
      BY <1>1, <2>1, <2>2, <2>3, <2>4, <2>5
    <3> HIDE DEF a, m, k, x1, b
    <3>4. Good(g, p, f, Close(p, Trial(a, b, m, k, x1)))
      BY <3>1, GoodClose DEF Trial
    <3> QED BY <3>4 DEF a, m, k
  <2> QED BY <1>4, <2>6, <2>7, Zenon, WaysOne DEF Digit
<1> QED BY <1>3, <1>4

Jump(c, a) == [c EXCEPT !.at = a]

\* A parenthesis only changes the item that comes next.
LEMMA GoodJump ==
  ASSUME NEW g, NEW f, NEW c, Tried(g, Seq2, f, c), c.next # nil, c.at # 1,
         NEW a \in 1 .. 5
  PROVE  Tried(g, Seq2, f, Jump(c, a))
<1> DEFINE w == Trial(a, c.next, c.matched, c.back, c.exits)
<1>1. Jump(c, a) = w
  <2>1. c = Trial(c.at, c.next, c.matched, c.back, c.exits)
    BY TriedRecord
  <2> DEFINE a0 == c.at   n0 == c.next   m0 == c.matched   k0 == c.back   x0 == c.exits
  <2> HIDE DEF a0, n0, m0, k0, x0
  <2>2. [Trial(a0, n0, m0, k0, x0) EXCEPT !.at = a] = Trial(a, n0, m0, k0, x0)
    BY DEF Trial
  <2> QED BY <2>1, <2>2 DEF Jump, a0, n0, m0, k0, x0
<1>2. /\ w.at = a /\ w.next = c.next /\ w.matched = c.matched /\ w.back = c.back
      /\ w.exits = c.exits
  BY DEF Trial
<1>3. /\ c.next \in Blocs(g) /\ c.matched \in Seq(Blocs(g)) /\ c.back \in Seq(Blocs(g))
      /\ c.exits \in ExitsTo(Blocs(g)) /\ c.matched # <<>>
  <2>1. c.next \in Blocs(g) /\ c.matched \in Seq(Blocs(g)) /\ c.back \in Seq(Blocs(g))
        /\ c.exits \in ExitsTo(Blocs(g))
    BY TriedFacts
  <2>2. c.matched # <<>>
    BY DEF Tried
  <2> QED BY <2>1, <2>2
<1>4. w \in Trials(g, Seq2)
  <2>1. a \in 1 .. Len(Seq2) + 1 /\ a <= Len(Seq2)
    BY Lengths
  <2> QED BY <1>3, <2>1 DEF Trials, Trial
<1> HIDE DEF w
<1>5. Ahead(w) = Ahead(c) /\ Again(w) = Again(c)
  BY <1>2 DEF Ahead, Again
<1>6. Shape(Seq2, c.at, c.back, c.exits)
  BY DEF Tried
<1>7. Shape(Seq2, a, c.back, c.exits)
  BY <1>6, Lengths DEF Shape
<1>8. Tried(g, Seq2, f, w)
  BY <1>2, <1>3, <1>4, <1>5, <1>7, Lengths DEF Tried
<1> QED BY <1>1, <1>8

LEMMA GoodParens ==
  ASSUME NEW g, Sane(g), NEW p \in Patterns, NEW f, NEW c, Tried(g, p, f, c), c.next # nil,
         Opening(p, c.at) \/ Shutting(p, c.at)
  PROVE  Good(g, p, f, Ways(g, p, c))
<1>1. c.at \in 1 .. Len(p)
  BY TriedFacts
<1>2. CASE Opening(p, c.at)
  <2>1. p = Seq2 /\ c.at = 2
    BY <1>1, <1>2, Items
  <2> DEFINE w1 == Jump(c, 3)   w2 == Jump(c, 5)
  <2>2. Tried(g, Seq2, f, w1) /\ Tried(g, Seq2, f, w2)
    <3>1. Tried(g, Seq2, f, c) /\ c.next # nil /\ c.at # 1
      BY <2>1
    <3> QED BY <3>1, GoodJump
  <2>3. Ways(g, p, c) = <<Past(c), [c EXCEPT !.at = GroupEnd(p, @) + 1]>>
    BY <1>2, Zenon, WaysOpen DEF Opening
  <2>4. Past(c) = w1
    <3>1. c.at + 1 = 3
      BY <2>1
    <3> QED BY <3>1 DEF Past, Jump
  <2>5. [c EXCEPT !.at = GroupEnd(p, @) + 1] = w2
    <3>1. GroupEnd(p, c.at) + 1 = 5
      BY <2>1, Group
    <3> QED BY <3>1 DEF Jump
  <2>6. Ways(g, p, c) = <<w1, w2>>
    BY <2>3, <2>4, <2>5
  <2> HIDE DEF w1, w2
  <2>7. <<w1, w2>>[1] = w1 /\ <<w1, w2>>[2] = w2 /\ Len(<<w1, w2>>) = 2 /\ <<w1, w2>> # <<>>
    OBVIOUS
  <2> QED BY <2>1, <2>2, <2>6, <2>7 DEF Good
<1>3. CASE Shutting(p, c.at)
  <2>1. p = Seq2 /\ c.at = 4
    BY <1>1, <1>3, Items
  <2> DEFINE w1 == Jump(c, 2)
  <2>2. Tried(g, Seq2, f, w1)
    <3>1. Tried(g, Seq2, f, c) /\ c.next # nil /\ c.at # 1
      BY <2>1
    <3> QED BY <3>1, GoodJump
  <2>3. Ways(g, p, c) = << [c EXCEPT !.at = GroupBegin(p, @)] >>
    BY <1>3, Zenon, WaysShut DEF Shutting
  <2>4. [c EXCEPT !.at = GroupBegin(p, @)] = w1
    <3>1. GroupBegin(p, c.at) = 2
      BY <2>1, Group
    <3> QED BY <3>1 DEF Jump
  <2>5. Ways(g, p, c) = <<w1>>
    BY <2>3, <2>4
  <2> HIDE DEF w1
  <2> QED BY <2>1, <2>2, <2>5, GoodOne
<1> QED BY <1>2, <1>3

\* A loop grows by a bloc.
LEMMA GoodInside ==
  ASSUME NEW g, Sane(g), Rooted(g), NEW f, NEW c, Tried(g, Loop, f, c), c.next # nil
  PROVE  \/ Inside(g, c) = <<>>
         \/ \E w : Inside(g, c) = <<w>> /\ Tried(g, Loop, f, w)
<1> DEFINE b == c.next   ex == g.exits[b]
<1>1. /\ b \in Blocs(g) /\ c.matched \in Seq(Blocs(g)) /\ c.back \in Seq(Blocs(g))
      /\ c.at \in 1 .. Len(Loop) /\ c.exits \in ExitsTo(Blocs(g))
  BY TriedFacts
<1>2. c.at = 1 /\ Loop \in Patterns
  BY <1>1, Lengths DEF Patterns
<1>3. CASE ~ ((c.matched = <<>> \/ g.prevcount[b] = 1) /\ ex.nat # nil)
  BY <1>3 DEF Inside
<1>4. CASE (c.matched = <<>> \/ g.prevcount[b] = 1) /\ ex.nat # nil
  <2> DEFINE n == ex.nat   v == ex.odd
             k == IF v # nil THEN <<v>> \o c.back ELSE c.back
             w == Trial(1, n, Append(c.matched, b), k, c.exits)
  <2>1. n \in Blocs(g) /\ (v # nil => v \in Blocs(g)) /\ Succ(g, b) = {t \in {n, v} : t # nil}
        /\ n # nil
    <3> HIDE DEF b
    <3> QED BY <1>1, <1>4, ExitFacts
  <2>2. Inside(g, c) = <<w>>
    <3>1. c = Trial(1, b, c.matched, c.back, c.exits)
      BY TriedRecord, <1>2
    <3> DEFINE m0 == c.matched   k0 == c.back   x0 == c.exits   m1 == Append(m0, b)
    <3>2. Inside(g, c) = << Entered(Taken(c, b), n, v) >>
      BY <1>4 DEF Inside
    <3> HIDE DEF m0, k0, x0, b, n, v
    <3>3. Taken(Trial(1, b, m0, k0, x0), b) = Trial(1, b, m1, k0, x0)
      BY TakenTrial
    <3> HIDE DEF m1
    <3>4. Entered(Trial(1, b, m1, k0, x0), n, v)
            = Trial(1, n, m1, IF v # nil THEN <<v>> \o k0 ELSE k0, x0)
      BY EnteredTrial
    <3> QED BY <3>1, <3>2, <3>3, <3>4 DEF m0, k0, x0, m1
  <2>3. /\ k \in Seq(Blocs(g)) /\ ToSet(k) = ToSet(c.back) \cup {t \in {v} : t # nil}
        /\ Repeated(k) \subseteq Repeated(c.back) \cup ({t \in {v} : t # nil} \cap ToSet(c.back))
    <3>1. CASE v # nil
      <4> DEFINE s == c.back
      <4>1. v \in Blocs(g) /\ s \in Seq(Blocs(g)) /\ k = <<v>> \o s
        BY <1>1, <2>1, <3>1
      <4> HIDE DEF v, s, k
      <4>2. /\ <<v>> \o s \in Seq(Blocs(g)) /\ ToSet(<<v>> \o s) = {v} \cup ToSet(s)
            /\ Repeated(<<v>> \o s) \subseteq Repeated(s) \cup ({v} \cap ToSet(s))
        BY <4>1, ConsItems
      <4> QED BY <3>1, <4>1, <4>2 DEF s
    <3>2. CASE v = nil
      <4>1. k = c.back
        BY <3>2
      <4> HIDE DEF v, k
      <4> QED BY <1>1, <3>2, <4>1
    <3> QED BY <3>1, <3>2
  <2>4. {n} \cup ToSet(k) = ToSet(c.back) \cup Succ(g, b)
    <3> HIDE DEF k, n, v, b
    <3> QED BY <2>1, <2>3
  <2>5. ({n} \cap ToSet(k)) \cup Repeated(k)
          \subseteq Repeated(c.back) \cup (Succ(g, b) \cap ToSet(c.back))
            \cup {t \in Succ(g, b) : g.exits[b].nat = t /\ g.exits[b].odd = t}
    <3>1. g.exits[b].nat = n /\ g.exits[b].odd = v
      OBVIOUS
    <3> HIDE DEF k, n, v, b
    <3> QED BY <2>1, <2>3, <3>1
  <2>6. c.matched = <<>> \/ (g.prevcount[b] <= 1 /\ b \notin ToSet(c.matched))
    <3> SUFFICES ASSUME c.matched # <<>> PROVE g.prevcount[b] <= 1 /\ b \notin ToSet(c.matched)
      OBVIOUS
    <3>1. g.prevcount[b] <= 1
      BY <1>4
    <3> DEFINE M == ToSet(c.matched)   R == Ahead(c)   D == Again(c)   x == c.exits
    <3>2. Searched(g, f, M, R, D, x) /\ M # {} /\ b \in R
      <4>1. M # {}
        BY TriedFacts
      <4>2. b \in R
        BY TriedFacts
      <4>3. Searched(g, f, M, R, D, x)
        BY DEF Tried
      <4> QED BY <4>1, <4>2, <4>3
    <3> HIDE DEF M, R, D, x, b
    <3>3. b \notin M
      BY <3>1, <3>2, SearchedFresh
    <3> QED BY <3>1, <3>3 DEF M
  <2>7. Shape(Loop, 1, k, c.exits)
    BY Lengths DEF Shape
  <2>8. Tried(g, Loop, f, w)
    <3>1. Loop = Loop => g.exits[b].nat # nil
      BY <1>4
    <3> HIDE DEF n, k
    <3> QED BY <1>1, <1>2, <2>1, <2>3, <2>4, <2>5, <2>6, <2>7, <3>1, TriedTake
  <2> QED BY <2>2, <2>8
<1> QED BY <1>3, <1>4

\* Good, for the ways of a group that is closed: at most one.
LEMMA CloseOne ==
  ASSUME NEW g, NEW p, NEW f, NEW d, Good(g, p, f, Close(p, d))
  PROVE  \/ Close(p, d) = <<>>
         \/ \E w : Close(p, d) = <<w>> /\ Tried(g, p, f, w)
<1>1. Close(p, d) = <<>> \/ \E e : Close(p, d) = <<e>>
  BY Zenon DEF Close
<1>2. ASSUME NEW e, Close(p, d) = <<e>>
      PROVE  Tried(g, p, f, e)
  <2>1. <<e>>[1] = e /\ Len(<<e>>) = 1 /\ <<e>> # <<>>
    OBVIOUS
  <2> QED BY <1>2, <2>1 DEF Good
<1> QED BY <1>1, <1>2

\* A bloc that a loop leads to is an exit of it.
LEMMA GoodOut ==
  ASSUME NEW g, Sane(g), NEW f, NEW c, Tried(g, Loop, f, c), c.next # nil,
         c.matched # <<>>, NEW r \in BOOLEAN, MaySetExit(c.exits, r, c.next),
         r => c.exits.nat # nil /\ c.exits.nat # c.next
  PROVE  Good(g, Loop, f, Close(Loop, Out(Rest(c), r, c.next)))
<1> DEFINE b == c.next   x1 == Put(c.exits, r, b)   a == IF c.back # <<>> THEN 1 ELSE 2
<1>1. /\ b \in Blocs(g) /\ c.matched \in Seq(Blocs(g)) /\ c.back \in Seq(Blocs(g))
      /\ c.at \in 1 .. Len(Loop)
  BY TriedFacts
<1>2. c.at = 1 /\ Loop \in Patterns
  BY <1>1, Lengths DEF Patterns
<1>3. c.matched[1] = f /\ IsInjective(c.matched)
      /\ \A t \in ToSet(c.matched) : g.exits[t].nat # nil
  BY DEF Tried
<1>4. x1 \in ExitsTo(Blocs(g)) /\ Searched(g, f, ToSet(c.matched), ToSet(c.back), Repeated(c.back), x1)
  BY OutSearched
<1>5. nil \notin Blocs(g)
  BY <1>1, ExitFacts
<1>6. Out(Rest(c), r, b) = Trial(a, b, c.matched, c.back, x1)
  <2>1. c = Trial(1, b, c.matched, c.back, c.exits)
    BY TriedRecord, <1>2
  <2> DEFINE m0 == c.matched   k0 == c.back   x0 == c.exits
  <2>2. Rest(c) = Trial(a, b, m0, k0, x0)
    <3>1. Rest(c) = IF k0 # <<>> THEN c ELSE Past(c)
      BY DEF Rest
    <3> HIDE DEF m0, k0, x0, b
    <3>2. Past(Trial(1, b, m0, k0, x0)) = Trial(1 + 1, b, m0, k0, x0)
      BY PastTrial
    <3>3. 1 + 1 = 2
      OBVIOUS
    <3> QED BY <2>1, <3>1, <3>2, <3>3 DEF m0, k0, x0
  <2> HIDE DEF m0, k0, x0, b, a
  <2>3. Out(Trial(a, b, m0, k0, x0), r, b) = Trial(a, b, m0, k0, Put(x0, r, b))
    BY OutTrial
  <2> QED BY <2>2, <2>3 DEF m0, k0, x0
<1>7. Good(g, Loop, f, Close(Loop, Trial(a, b, c.matched, c.back, x1)))
  <2> DEFINE k == c.back   m == c.matched
  <2>1. a \in 1 .. Len(Loop) + 1 /\ (k # <<>> => a = 1)
    BY Lengths
  <2>2. k # <<>> => Shape(Loop, a, Tail(k), x1)
    <3> HIDE DEF x1, k, a
    <3> QED BY <2>1, Lengths DEF Shape
  <2>3. /\ Loop \in Patterns /\ a \in 1 .. Len(Loop) + 1
        /\ Searched(g, f, ToSet(m), ToSet(k), Repeated(k), x1)
        /\ k \in Seq(Blocs(g)) /\ x1 \in ExitsTo(Blocs(g))
        /\ (k # <<>> => Shape(Loop, a, Tail(k), x1))
        /\ m \in Seq(Blocs(g)) /\ m # <<>> /\ m[1] = f /\ IsInjective(m)
        /\ nil \notin Blocs(g) /\ \A t \in ToSet(m) : g.exits[t].nat # nil
    BY <1>1, <1>2, <1>3, <1>4, <1>5, <2>1, <2>2
  <2> HIDE DEF a, m, k, x1, b
  <2>4. Good(g, Loop, f, Close(Loop, Trial(a, b, m, k, x1)))
    BY <2>3, GoodClose DEF Trial
  <2> QED BY <2>4 DEF m, k
<1> QED BY <1>6, <1>7

LEMMA GoodOutside ==
  ASSUME NEW g, Sane(g), NEW f, NEW c, Tried(g, Loop, f, c), c.next # nil
  PROVE  \/ Outside(Loop, c) = <<>>
         \/ \E w : Outside(Loop, c) = <<w>> /\ Tried(g, Loop, f, w)
<1> DEFINE b == c.next
<1>1. CASE c.matched # <<>> /\ MaySetExit(c.exits, FALSE, b)
  <2> DEFINE r == FALSE   d == Out(Rest(c), r, b)
  <2>1. MaySetExit(c.exits, r, c.next) /\ r \in BOOLEAN /\ (r => c.exits.nat # nil /\ c.exits.nat # c.next)
    BY <1>1
  <2>2. Outside(Loop, c) = Close(Loop, d)
    BY <1>1 DEF Outside
  <2> HIDE DEF r
  <2>3. Good(g, Loop, f, Close(Loop, d))
    BY <1>1, <2>1, GoodOut
  <2> HIDE DEF d
  <2> QED BY <2>2, <2>3, CloseOne
<1>2. CASE c.matched # <<>> /\ ~ MaySetExit(c.exits, FALSE, b) /\ MaySetExit(c.exits, TRUE, b)
  <2> DEFINE r == TRUE   d == Out(Rest(c), r, b)
  <2>1. MaySetExit(c.exits, r, c.next) /\ r \in BOOLEAN /\ (r => c.exits.nat # nil /\ c.exits.nat # c.next)
    BY <1>2 DEF MaySetExit, Get
  <2>2. Outside(Loop, c) = Close(Loop, d)
    BY <1>2 DEF Outside
  <2> HIDE DEF r
  <2>3. Good(g, Loop, f, Close(Loop, d))
    BY <1>2, <2>1, GoodOut
  <2> HIDE DEF d
  <2> QED BY <2>2, <2>3, CloseOne
<1>3. CASE ~ (c.matched # <<>> /\ (MaySetExit(c.exits, FALSE, b) \/ MaySetExit(c.exits, TRUE, b)))
  BY <1>3 DEF Outside
<1> QED BY <1>1, <1>2, <1>3

LEMMA GoodStar ==
  ASSUME NEW g, Sane(g), Rooted(g), NEW p \in Patterns, NEW f, NEW c, Tried(g, p, f, c),
         c.next # nil, Star(p, c.at)
  PROVE  Good(g, p, f, Ways(g, p, c))
<1>1. p = Loop
  <2>1. c.at \in 1 .. Len(p)
    BY TriedFacts
  <2> QED BY <2>1, Items
<1>2. Ways(g, p, c) = Inside(g, c) \o Outside(p, c)
  BY Zenon, WaysStar DEF Star
<1> DEFINE i == Inside(g, c)   o == Outside(Loop, c)
<1>3. i = <<>> \/ \E w : i = <<w>> /\ Tried(g, Loop, f, w)
  BY <1>1, GoodInside
<1>4. o = <<>> \/ \E w : o = <<w>> /\ Tried(g, Loop, f, w)
  BY <1>1, GoodOutside
<1> HIDE DEF i, o
<1>5. Good(g, Loop, f, i \o o)
  <2>1. CASE i = <<>> /\ o = <<>>
    <3>1. i \o o = <<>>
      BY <2>1
    <3> QED BY <3>1, GoodNone
  <2>2. CASE i = <<>> /\ o # <<>>
    <3>1. PICK w : o = <<w>> /\ Tried(g, Loop, f, w)
      BY <1>4, <2>2
    <3>2. i \o o = <<w>>
      BY <2>2, <3>1
    <3> QED BY <3>1, <3>2, GoodOne
  <2>3. CASE i # <<>> /\ o = <<>>
    <3>1. PICK w : i = <<w>> /\ Tried(g, Loop, f, w)
      BY <1>3, <2>3
    <3>2. i \o o = <<w>>
      BY <2>3, <3>1
    <3> QED BY <3>1, <3>2, GoodOne
  <2>4. CASE i # <<>> /\ o # <<>>
    <3>1. PICK w : i = <<w>> /\ Tried(g, Loop, f, w)
      BY <1>3, <2>4
    <3>2. PICK v : o = <<v>> /\ Tried(g, Loop, f, v)
      BY <1>4, <2>4
    <3>3. i \in Seq({w, v}) /\ o \in Seq({w, v}) /\ Len(i) = 1 /\ Len(o) = 1 /\ i[1] = w
          /\ o[1] = v
      BY <3>1, <3>2
    <3>4. Len(i \o o) = 2 /\ (i \o o)[1] = w /\ (i \o o)[2] = v /\ i \o o # <<>>
      <4> DEFINE s == i \o o   S == {w, v}
      <4> HIDE DEF S
      <4>0. i \in Seq(S) /\ o \in Seq(S)
        BY <3>3 DEF S
      <4>1. /\ s \in Seq(S) /\ Len(s) = Len(i) + Len(o)
            /\ \A n \in 1 .. Len(i) + Len(o) : s[n] = IF n <= Len(i) THEN i[n] ELSE o[n - Len(i)]
        BY <4>0, ConcatProperties
      <4>2. Len(s) = 2 /\ \A n \in 1 .. 2 : s[n] = IF n <= 1 THEN i[n] ELSE o[n - 1]
        BY <3>3, <4>1
      <4>3. s[1] = w /\ s[2] = v
        <5>1. 1 \in 1 .. 2 /\ 2 \in 1 .. 2 /\ 1 <= 1 /\ ~ 2 <= 1 /\ 2 - 1 = 1
          OBVIOUS
        <5> HIDE DEF s
        <5> QED BY <3>3, <4>2, <5>1
      <4> HIDE DEF s
      <4>4. s # <<>>
        BY <4>2
      <4> QED BY <4>2, <4>3, <4>4 DEF s
    <3> QED BY <3>1, <3>2, <3>4 DEF Good
  <2> QED BY <2>1, <2>2, <2>3, <2>4
<1> QED BY <1>1, <1>2, <1>5 DEF i, o

\* Each call of test makes calls of the same search.
LEMMA GoodWays ==
  ASSUME NEW g, Sane(g), Rooted(g), NEW p \in Patterns, NEW f, NEW c, Tried(g, p, f, c),
         c.next # nil
  PROVE  Good(g, p, f, Ways(g, p, c))
<1>1. c.at \in 1 .. Len(p)
  BY TriedFacts
<1>2. \/ p[c.at] = "?" \/ Star(p, c.at) \/ Comma(p, c.at) \/ Dot(p, c.at) \/ Bang(p, c.at)
      \/ Digit(p, c.at) \/ Opening(p, c.at) \/ Shutting(p, c.at)
  BY <1>1, Zenon, Letters DEF Star, Comma, Dot, Bang, Digit, Opening, Shutting
<1>3. CASE p[c.at] = "?"
  BY <1>3, GoodFork
<1>4. CASE Star(p, c.at)
  BY <1>4, GoodStar
<1>5. CASE Comma(p, c.at)
  BY <1>5, GoodComma
<1>6. CASE Dot(p, c.at)
  BY <1>6, GoodDot
<1>7. CASE Bang(p, c.at)
  BY <1>7, GoodBang
<1>8. CASE Digit(p, c.at)
  BY <1>8, GoodDigit
<1>9. CASE Opening(p, c.at) \/ Shutting(p, c.at)
  BY <1>9, GoodParens
<1> QED BY <1>2, <1>3, <1>4, <1>5, <1>6, <1>7, <1>8, <1>9

\* What a search finds is a trial that it made, its pattern matched.
LEMMA FoundTried ==
  ASSUME NEW g, Sane(g), Rooted(g), NEW p \in Patterns, NEW f, NEW n \in Nat, NEW c,
         Tried(g, p, f, c)
  PROVE  \/ Found(g, p)[n][c] = NoMatch
         \/ \E d : /\ Tried(g, p, f, d) /\ d.next = nil
                   /\ Found(g, p)[n][c] = [blocs |-> d.matched, exits |-> d.exits]
<1> DEFINE F == Found(g, p)
           Of(r) == r = NoMatch \/ \E d : /\ Tried(g, p, f, d) /\ d.next = nil
                                          /\ r = [blocs |-> d.matched, exits |-> d.exits]
           P(k) == \A e : Tried(g, p, f, e) => Of(F[k][e])
<1>1. ASSUME NEW k \in Nat, k > 0 => P(k - 1)
      PROVE  P(k)
  <2> HIDE DEF F, Of
  <2>1. SUFFICES ASSUME NEW e, Tried(g, p, f, e) PROVE Of(F[k][e])
    OBVIOUS
  <2>2. F[k] = FoundBody(g, p, k, F[k - 1])
    BY FoundRec DEF F
  <2>3. e \in Trials(g, p)
    BY <2>1 DEF Tried
  <2> DEFINE ways == Ways(g, p, e)   one == F[k - 1][ways[1]]
  <2>4. F[k][e] = IF e.next = nil THEN [blocs |-> e.matched, exits |-> e.exits]
                  ELSE IF k = 0 \/ ways = <<>> THEN NoMatch
                  ELSE IF Len(ways) = 1 \/ one # NoMatch THEN one
                  ELSE F[k - 1][ways[2]]
    BY <2>2, <2>3, Zenon DEF FoundBody
  <2>5. CASE e.next = nil
    BY <2>1, <2>4, <2>5 DEF Of
  <2>6. CASE e.next # nil /\ (k = 0 \/ ways = <<>>)
    BY <2>4, <2>6 DEF Of
  <2>7. CASE e.next # nil /\ ~ (k = 0 \/ ways = <<>>)
    <3>1. Good(g, p, f, ways)
      BY <2>1, <2>7, GoodWays
    <3>2. P(k - 1)
      BY <1>1, <2>7
    <3> HIDE DEF ways
    <3>3. Tried(g, p, f, ways[1]) /\ (Len(ways) = 1 \/ Tried(g, p, f, ways[2]))
      BY <2>7, <3>1 DEF Good
    <3>4. Of(one) /\ (Len(ways) = 1 \/ Of(F[k - 1][ways[2]]))
      BY <3>2, <3>3
    <3> QED BY <2>4, <2>7, <3>4
  <2> QED BY <2>5, <2>6, <2>7
<1> HIDE DEF F, Of
<1>2. \A k \in Nat : P(k)
  <2> DEFINE S == {k \in Nat : P(k)}
  <2> HIDE DEF P
  <2>1. 0 \in S
    BY <1>1
  <2>2. \A k \in Nat : k \in S => k + 1 \in S
    <3>1. SUFFICES ASSUME NEW k \in Nat, k \in S PROVE k + 1 \in S
      OBVIOUS
    <3>2. k + 1 \in Nat /\ (k + 1) - 1 = k /\ P(k)
      BY <3>1
    <3>3. P(k + 1)
      BY <3>2, <1>1
    <3> QED BY <3>2, <3>3
  <2> HIDE DEF S
  <2>3. Nat \subseteq S
    BY <2>1, <2>2, Induction
  <2> QED BY <2>3 DEF S
<1> QED BY <1>2 DEF F, Of

LEMMA Least ==
  ASSUME NEW I, I \subseteq Nat, I # {}
  PROVE  /\ \E x \in I : \A y \in I : x <= y
         /\ Min(I) \in I /\ \A y \in I : Min(I) <= y
<1> DEFINE R == {q \in Nat \X Nat : q[1] < q[2]}
<1>1. PICK x \in I : \A y \in I : <<y, x>> \notin R
  <2>1. IsWellFoundedOn(R, Nat)
    BY Less
  <2> HIDE DEF R
  <2>2. IsWellFoundedOn(R, I)
    BY <2>1, IsWellFoundedOnSubset
  <2> QED BY <2>2, WFMin
<1>2. ASSUME NEW y \in I, y < x PROVE FALSE
  <2>1. <<y, x>> \in Nat \X Nat /\ <<y, x>>[1] = y /\ <<y, x>>[2] = x
    OBVIOUS
  <2>2. <<y, x>> \in R
    BY <1>2, <2>1
  <2> QED BY <1>1, <2>2
<1>3. \A y \in I : x <= y
  <2>1. SUFFICES ASSUME NEW y \in I PROVE x <= y
    OBVIOUS
  <2>2. x \in Nat /\ y \in Nat /\ ~ y < x
    BY <1>2
  <2> QED BY <2>2
<1> QED BY <1>3 DEF Min

\* What a search of pattern p may find: a group of different blocs, the first
\* of which alone may be entered from elsewhere, and its exits.
Grouped(g, p, m) ==
  /\ m = [blocs |-> m.blocs, exits |-> m.exits]
  /\ m.blocs \in Seq(Blocs(g)) /\ m.blocs # <<>> /\ IsInjective(m.blocs)
  /\ Searched(g, m.blocs[1], ToSet(m.blocs), {}, {}, m.exits)
  /\ p = Loop => \A b \in ToSet(m.blocs) : g.exits[b].nat # nil

LEMMA FirstTried ==
  ASSUME NEW g, Sane(g), NEW p \in Patterns, NEW b \in Blocs(g)
  PROVE  Tried(g, p, b, FirstTrial(b))
<1> DEFINE c == Trial(1, b, <<>>, <<>>, NoExits)
<1>1. FirstTrial(b) = c
  BY DEF FirstTrial, Trial
<1>2. c.at = 1 /\ c.next = b /\ c.matched = <<>> /\ c.back = <<>> /\ c.exits = NoExits
  BY DEF Trial
<1>3. b # nil /\ g.prevcount[b] \in Nat
  BY ExitFacts
<1>4. NoExits \in ExitsTo(Blocs(g)) /\ NoExits.nat = nil /\ NoExits.odd = nil
      /\ Targets(NoExits) = {}
  BY DEF NoExits, Exits, ExitsTo, Targets
<1>5. 1 \in 1 .. Len(p) /\ Len(p) \in Nat /\ 1 \in 1 .. Len(p) + 1 /\ 1 <= Len(p)
  <2>1. p = Seq2 \/ p = IfThen \/ p = IfThenElse \/ p = Loop \/ p = ExitIf
    BY Zenon DEF Patterns
  <2>2. Len(p) \in Nat /\ 1 <= Len(p)
    BY <2>1, Lengths
  <2> QED BY <2>2
<1>6. c \in Trials(g, p)
  BY <1>3, <1>4, <1>5 DEF Trials, Trial
<1> HIDE DEF c
<1>7. Ahead(c) = {b} /\ Again(c) = {}
  BY <1>2, <1>3, NoItems DEF Ahead, Again
<1>8. ToSet(c.matched) = {}
  BY <1>2, NoItems
<1>9. Searched(g, b, {}, {b}, {}, NoExits)
  BY <1>4 DEF Searched, Onward
<1>10. Shape(p, 1, <<>>, NoExits)
  <2>1. Len(<<>>) = 0
    OBVIOUS
  <2> QED BY <1>5, <2>1 DEF Shape
<1>11. IsInjective(c.matched)
  BY <1>2 DEF IsInjective
<1>12. Tried(g, p, b, c)
  BY <1>2, <1>3, <1>6, <1>7, <1>8, <1>9, <1>10, <1>11 DEF Tried
<1> QED BY <1>1, <1>12

LEMMA MatchFacts ==
  ASSUME NEW g, Sane(g), Rooted(g), NEW p \in Patterns, NEW b \in Blocs(g)
  PROVE  LET m == Match(g, p, b)
         IN  m = NoMatch \/ (Grouped(g, p, m) /\ m.blocs[1] = b)
<1> DEFINE c == FirstTrial(b)   n == Nesting(g)   m == Match(g, p, b)
<1>1. n \in Nat
  BY PoolFacts DEF Nesting, Sane
<1>2. Tried(g, p, b, c)
  BY FirstTried
<1>3. m = Found(g, p)[n][c]
  BY DEF Match
<1> HIDE DEF c, n, m
<1>4. \/ m = NoMatch
      \/ \E d : /\ Tried(g, p, b, d) /\ d.next = nil
                /\ m = [blocs |-> d.matched, exits |-> d.exits]
  BY <1>1, <1>2, <1>3, FoundTried
<1>5. ASSUME NEW d, Tried(g, p, b, d), d.next = nil, m = [blocs |-> d.matched, exits |-> d.exits]
      PROVE  Grouped(g, p, m) /\ m.blocs[1] = b
  <2>1. m.blocs = d.matched /\ m.exits = d.exits
    BY <1>5
  <2>2. d.matched \in Seq(Blocs(g)) /\ d.matched # <<>> /\ d.matched[1] = b
        /\ IsInjective(d.matched)
    <3>1. d.matched \in Seq(Blocs(g))
      BY <1>5 DEF Tried, Trials
    <3>2. d.matched # <<>> /\ d.matched[1] = b /\ IsInjective(d.matched)
      BY <1>5 DEF Tried
    <3> QED BY <3>1, <3>2
  <2>3. Searched(g, b, ToSet(d.matched), {}, {}, d.exits)
    <3>1. Ahead(d) = {} /\ Again(d) = {}
      BY <1>5 DEF Ahead, Again
    <3> QED BY <1>5, <3>1 DEF Tried
  <2>4. p = Loop => \A t \in ToSet(d.matched) : g.exits[t].nat # nil
    BY <1>5 DEF Tried
  <2> QED BY <1>5, <2>1, <2>2, <2>3, <2>4 DEF Grouped
<1> QED BY <1>4, <1>5 DEF m

LEMMA FirstMatchFacts ==
  ASSUME NEW g, Sane(g), Rooted(g), NEW p \in Patterns
  PROVE  LET m == FirstMatch(g, p)
         IN  \/ m = NoMatch /\ \A b \in Blocs(g) : ~ Accepted(p, Match(g, p, b))
             \/ m # NoMatch /\ Accepted(p, m) /\ Grouped(g, p, m)
<1> DEFINE I == {i \in 1 .. Len(g.pool) : Accepted(p, Match(g, p, g.pool[i]))}
           k == IF I # {} THEN Min(I) ELSE 0
           m == FirstMatch(g, p)
<1>1. m = IF k = 0 THEN NoMatch ELSE Match(g, p, g.pool[k])
  BY Zenon DEF FirstMatch, SelectInSeq
<1>2. /\ Len(g.pool) \in Nat
      /\ \A i \in 1 .. Len(g.pool) : g.pool[i] \in Blocs(g)
      /\ \A b \in Blocs(g) : \E i \in 1 .. Len(g.pool) : g.pool[i] = b
  BY PoolFacts DEF Sane
<1> HIDE DEF m
<1>3. CASE I = {}
  <2>1. m = NoMatch
    BY <1>1, <1>3
  <2>2. ASSUME NEW b \in Blocs(g), Accepted(p, Match(g, p, b)) PROVE FALSE
    <3>1. PICK i \in 1 .. Len(g.pool) : g.pool[i] = b
      BY <1>2
    <3>2. i \in I
      BY <2>2, <3>1
    <3> QED BY <3>2, <1>3
  <2> QED BY <2>1, <2>2 DEF m
<1>4. CASE I # {}
  <2>1. k \in I
    <3>1. I \subseteq Nat
      OBVIOUS
    <3> HIDE DEF I
    <3>2. Min(I) \in I
      BY <1>4, <3>1, Least
    <3> QED BY <1>4, <3>2
  <2> HIDE DEF k
  <2>2. k \in 1 .. Len(g.pool) /\ Accepted(p, Match(g, p, g.pool[k]))
    BY <2>1
  <2>3. m = Match(g, p, g.pool[k]) /\ g.pool[k] \in Blocs(g)
    BY <1>1, <1>2, <2>2
  <2>4. m # NoMatch /\ Accepted(p, m)
    BY <2>2, <2>3 DEF Accepted
  <2>5. Grouped(g, p, m)
    <3> DEFINE b == g.pool[k]
    <3> HIDE DEF b
    <3>1. b \in Blocs(g) /\ m = Match(g, p, b)
      BY <2>3 DEF b
    <3> QED BY <2>4, <3>1, MatchFacts
  <2> QED BY <2>4, <2>5 DEF m
<1> QED BY <1>3, <1>4

\* The blocs of s lose their exits, one after the other.
CutAt(g, s, i, v) == IF i = 0 THEN g ELSE SetExits(v, s[i], NoExits)
Cut(g, s) ==
  LET cut[i \in 0 .. Len(s)] ==
    IF i = 0 THEN g
    ELSE SetExits(cut[i - 1], s[i], NoExits)
  IN cut

LEMMA CutRec ==
  ASSUME NEW g, NEW s, Len(s) \in Nat
  PROVE  /\ Cut(g, s) = [i \in 0 .. Len(s) |-> Cut(g, s)[i]]
         /\ Cut(g, s)[0] = g
         /\ \A i \in 1 .. Len(s) : Cut(g, s)[i] = CutAt(g, s, i, Cut(g, s)[i - 1])
<1> DEFINE body(i, v) == CutAt(g, s, i, v)
           L == Len(s)
           cut[i \in 0 .. Len(s)] ==
             IF i = 0 THEN g
    ELSE SetExits(cut[i - 1], s[i], NoExits)
           is(h, k) == h = [i \in 0 .. k |-> body(i, h[i - 1])]
<1>1. Cut(g, s) = cut
  BY DEF Cut
<1>2. (\A x, y : body(0, x) = body(0, y)) /\ \A x : body(0, x) = g
  BY DEF CutAt
<1> HIDE DEF body
<1>3. \E h : is(h, 0)
  <2> DEFINE h == [i \in 0 .. 0 |-> body(0, 0)]
  <2>1. h[0] = body(0, h[0 - 1])
    BY <1>2
  <2>2. \A i \in 0 .. 0 : h[i] = body(i, h[i - 1])
    BY <2>1
  <2>3. h = [i \in 0 .. 0 |-> h[i]]
    OBVIOUS
  <2> HIDE DEF h
  <2>4. is(h, 0)
    BY <2>2, <2>3
  <2> QED BY <2>4
<1>4. ASSUME NEW k \in Nat, NEW e, is(e, k) PROVE \E h : is(h, k + 1)
  <2> DEFINE h == [i \in 0 .. k + 1 |-> IF i = k + 1 THEN body(k + 1, e[k]) ELSE e[i]]
  <2>1. \A i \in 0 .. k : h[i] = e[i]
    OBVIOUS
  <2>2. h[k + 1] = body(k + 1, h[k])
    BY <2>1
  <2>3. ASSUME NEW i \in 0 .. k + 1 PROVE h[i] = body(i, h[i - 1])
    <3>1. CASE i = k + 1
      BY <3>1, <2>2
    <3>2. CASE i = 0
      <4>1. h[0] = body(0, e[0 - 1])
        BY <1>4, <2>1
      <4> QED BY <4>1, <3>2, <1>2
    <3>3. CASE i \in 1 .. k
      <4>1. i \in 0 .. k /\ i - 1 \in 0 .. k
        BY <3>3
      <4>2. e[i] = body(i, e[i - 1])
        BY <4>1, <1>4
      <4> QED BY <4>1, <4>2, <2>1
    <3> QED BY <3>1, <3>2, <3>3
  <2>4. h = [i \in 0 .. k + 1 |-> h[i]]
    OBVIOUS
  <2> HIDE DEF h
  <2>5. is(h, k + 1)
    BY <2>3, <2>4
  <2> QED BY <2>5
<1>5. PICK e : is(e, L)
  <2> DEFINE S == {k \in Nat : \E h : is(h, k)}
  <2> HIDE DEF is
  <2>1. 0 \in S
    BY <1>3
  <2>2. ASSUME NEW k \in Nat, k \in S PROVE k + 1 \in S
    BY <2>2, <1>4
  <2> HIDE DEF S, L
  <2>3. Nat \subseteq S
    BY <2>1, <2>2, Induction
  <2> QED BY <2>3 DEF S, L
<1>6. cut = [i \in 0 .. L |-> body(i, cut[i - 1])]
  BY <1>5 DEF cut, body, CutAt
<1> HIDE DEF cut, L
<1>7. \A i \in 0 .. L : cut[i] = body(i, cut[i - 1])
  BY <1>6
<1>8. cut = [i \in 0 .. L |-> cut[i]]
  <2> DEFINE r == [i \in 0 .. L |-> body(i, cut[i - 1])]
  <2>1. \A i \in 0 .. L : r[i] = cut[i]
    BY <1>7
  <2> QED BY <1>6, <2>1
<1>9. L \in Nat /\ 0 \in 0 .. L /\ \A i \in 1 .. L : i \in 0 .. L
  BY DEF L
<1> QED BY <1>1, <1>2, <1>7, <1>8, <1>9 DEF L, body

LEMMA ItemFacts ==
  ASSUME NEW B, NEW s \in Seq(B)
  PROVE  /\ Len(s) \in Nat /\ DOMAIN s = 1 .. Len(s) /\ ToSet(s) \subseteq B
         /\ \A i \in 1 .. Len(s) : s[i] \in B /\ s[i] \in ToSet(s)
         /\ \A b \in ToSet(s) : \E i \in 1 .. Len(s) : s[i] = b
         /\ s # <<>> => 1 \in 1 .. Len(s)
         /\ IsInjective(s) => \A i, j \in 1 .. Len(s) : s[i] = s[j] => i = j
<1>1. Len(s) \in Nat /\ DOMAIN s = 1 .. Len(s) /\ \A i \in 1 .. Len(s) : s[i] \in B
  OBVIOUS
<1>2. s # <<>> => 1 \in 1 .. Len(s)
  OBVIOUS
<1>3. ToSet(s) = {s[i] : i \in 1 .. Len(s)}
  BY <1>1 DEF ToSet
<1>4. IsInjective(s) => \A i, j \in 1 .. Len(s) : s[i] = s[j] => i = j
  BY <1>1 DEF IsInjective
<1> QED BY <1>1, <1>2, <1>3, <1>4

\* What is left of a graph once the blocs of s are cut off.
LEMMA CutFacts ==
  ASSUME NEW g, Sane(g), NEW s \in Seq(Blocs(g))
  PROVE  LET h == Cut(g, s)[Len(s)]
         IN  /\ Sane(h) /\ Blocs(h) = Blocs(g) /\ h.error = g.error
             /\ h.stmts = g.stmts
             /\ \A b \in Blocs(g) : h.exits[b] = IF b \in ToSet(s) THEN NoExits ELSE g.exits[b]
<1> DEFINE cut == Cut(g, s)   L == Len(s)   B == Blocs(g)
           P(h, k) == /\ Sane(h) /\ Blocs(h) = B /\ h.error = g.error /\ h.stmts = g.stmts
                      /\ \A b \in B : h.exits[b] = IF \E j \in 1 .. k : s[j] = b THEN NoExits
                                                  ELSE g.exits[b]
           S == {k \in Nat : k <= L => P(cut[k], k)}
<1>1. L \in Nat /\ (\A i \in 1 .. L : s[i] \in B)
      /\ cut[0] = g /\ \A i \in 1 .. L : cut[i] = SetExits(cut[i - 1], s[i], NoExits)
  <2>1. L \in Nat /\ \A i \in 1 .. L : s[i] \in B
    BY ItemFacts
  <2>2. cut[0] = g /\ \A i \in 1 .. L : cut[i] = CutAt(g, s, i, cut[i - 1])
    BY <2>1, CutRec
  <2>3. \A i \in 1 .. L : CutAt(g, s, i, cut[i - 1]) = SetExits(cut[i - 1], s[i], NoExits)
    <3> HIDE DEF cut
    <3> QED BY <2>1 DEF CutAt
  <2> QED BY <2>1, <2>2, <2>3
<1> HIDE DEF cut, L
<1>2. 0 \in S
  <2>1. \A b \in B : ~ \E j \in 1 .. 0 : s[j] = b
    OBVIOUS
  <2>2. P(g, 0)
    BY <2>1
  <2> HIDE DEF P
  <2> QED BY <2>2, <1>1
<1>3. NoExits.nat = nil /\ NoExits.odd = nil /\ NoExits \in ExitsTo(B)
  BY DEF NoExits, Exits, ExitsTo
<1>4. ASSUME NEW k \in Nat, k \in S PROVE k + 1 \in S
  <2> SUFFICES ASSUME k + 1 <= L PROVE P(cut[k + 1], k + 1)
    OBVIOUS
  <2> DEFINE d == cut[k]   h == SetExits(d, s[k + 1], NoExits)
  <2>1. P(d, k)
    BY <1>4, <1>1
  <2>2. k + 1 \in 1 .. L /\ (k + 1) - 1 = k
    BY <1>1
  <2>3. cut[k + 1] = h /\ s[k + 1] \in B
    BY <1>1, <2>2
  <2> HIDE DEF d, S
  <2>4. /\ Sane(h) /\ Blocs(h) = Blocs(d) /\ Alike(d, h, {"exits", "prevcount"})
        /\ h.exits = [d.exits EXCEPT ![s[k + 1]] = NoExits]
    <3>1. Sane(d) /\ s[k + 1] \in Blocs(d) /\ NoExits \in ExitsTo(Blocs(d))
      BY <1>3, <2>1, <2>3
    <3> DEFINE c == s[k + 1]
    <3> HIDE DEF c
    <3> QED BY <1>3, <3>1, SetExitsFacts DEF c
  <2>5. h.error = d.error /\ h.stmts = d.stmts
    BY <2>4 DEF Alike, Fields
  <2>6. d.exits \in [B -> ExitsTo(B)]
    BY <2>1 DEF Sane, Linked
  <2>7. \A b \in B : h.exits[b] = IF b = s[k + 1] THEN NoExits ELSE d.exits[b]
    <3> HIDE DEF h
    <3> QED BY <2>4, <2>6
  <2>8. ASSUME NEW b \in B
        PROVE  h.exits[b] = IF \E j \in 1 .. k + 1 : s[j] = b THEN NoExits ELSE g.exits[b]
    <3>1. (\E j \in 1 .. k + 1 : s[j] = b) <=> (b = s[k + 1] \/ \E j \in 1 .. k : s[j] = b)
      <4>1. \A j \in 1 .. k + 1 : j = k + 1 \/ j \in 1 .. k
        OBVIOUS
      <4>2. k + 1 \in 1 .. k + 1 /\ \A j \in 1 .. k : j \in 1 .. k + 1
        OBVIOUS
      <4> QED BY <4>1, <4>2
    <3>2. d.exits[b] = IF \E j \in 1 .. k : s[j] = b THEN NoExits ELSE g.exits[b]
      BY <2>1
    <3> HIDE DEF h
    <3> QED BY <2>7, <3>1, <3>2
  <2>9. P(h, k + 1)
    <3> HIDE DEF h
    <3> QED BY <2>1, <2>4, <2>5, <2>8
  <2> HIDE DEF P, h
  <2> QED BY <2>3, <2>9
<1> HIDE DEF S
<1>5. Nat \subseteq S
  BY <1>2, <1>4, Induction
<1>6. P(cut[L], L)
  BY <1>1, <1>5 DEF S
<1>7. \A b \in B : b \in ToSet(s) <=> \E j \in 1 .. L : s[j] = b
  BY ItemFacts DEF L
<1> QED BY <1>6, <1>7 DEF cut, L

\* The group of blocs s, with exits x, may be merged into its first bloc.
Mergeable(g, s, x) ==
  LET M == ToSet(s)
      N == M \ {s[1]}
  IN  /\ s \in Seq(Blocs(g)) /\ s # <<>> /\ IsInjective(s)
      /\ x \in ExitsTo(Blocs(g)) /\ (x.nat = nil => x.odd = nil) /\ Targets(x) \cap N = {}
      /\ \A b \in N : g.prevcount[b] <= 1 /\ b \in Onward(g, M)
      /\ Onward(g, M) \subseteq M \cup Targets(x)

\* Nothing leads to the blocs of a group that is cut off, but to its first.
LEMMA MergedLeak ==
  ASSUME NEW g, Sane(g), NEW s, NEW x, Mergeable(g, s, x),
         NEW h, Sane(h), Blocs(h) = Blocs(g),
         \A b \in Blocs(g) : h.exits[b] = IF b \in ToSet(s) THEN NoExits ELSE g.exits[b],
         NEW b \in ToSet(s) \ {s[1]}
  PROVE  b \in Blocs(g) /\ b # entry_bloc /\ h.exits[b] = NoExits /\ h.prevcount[b] = 0
<1> DEFINE M == ToSet(s)   B == Blocs(g)
<1>1. M \subseteq B /\ b \in B /\ g.prevcount[b] <= 1
  <2>1. M \subseteq B
    BY ItemFacts DEF Mergeable
  <2> QED BY <2>1 DEF Mergeable
<1>2. PICK p \in M : b \in Succ(g, p)
  BY DEF Mergeable, Onward
<1>3. b # entry_bloc /\ \A q \in B : b \in Succ(g, q) => q = p
  <2>1. p \in B
    BY <1>1
  <2> HIDE DEF B, M
  <2> QED BY <1>1, <1>2, <2>1, Unique DEF B
<1>4. Links(h.exits, B, b) = {}
  <2>1. SUFFICES ASSUME NEW e \in Links(h.exits, B, b) PROVE FALSE
    OBVIOUS
  <2>2. e[1] \in B /\ e[2] \in BOOLEAN /\ Get(h.exits[e[1]], e[2]) = b
    BY DEF Links
  <2>3. b # nil
    BY <1>1, ExitFacts
  <2>4. CASE e[1] \in M
    <3>1. h.exits[e[1]] = NoExits
      BY <2>2, <2>4
    <3> QED BY <2>2, <2>3, <3>1 DEF Get, NoExits, Exits
  <2>5. CASE e[1] \notin M
    <3>1. h.exits[e[1]] = g.exits[e[1]]
      BY <2>2, <2>5
    <3>2. b \in Succ(g, e[1])
      BY <2>2, <2>3, <3>1 DEF Get, Succ, Targets
    <3> QED BY <1>2, <1>3, <2>2, <2>5, <3>2
  <2> QED BY <2>4, <2>5
<1>5. h.prevcount[b] = 0
  <2>1. h.prevcount[b] = Cardinality(Links(h.exits, B, b)) + Held(b)
    BY <1>1 DEF Sane, Counted
  <2>2. Cardinality(Links(h.exits, B, b)) = 0
    BY <1>4, FS_EmptySet
  <2>3. Held(b) = 0
    BY <1>3 DEF Held, One
  <2> QED BY <2>1, <2>2, <2>3
<1> QED BY <1>1, <1>3, <1>5

LEMMA RestOfGroup ==
  ASSUME NEW B, NEW s \in Seq(B), s # <<>>, IsInjective(s)
  PROVE  ToSet(Tail(s)) = ToSet(s) \ {s[1]} /\ s[1] \in ToSet(s) /\ ToSet(s) \subseteq B
<1>1. /\ Head(s) \in B /\ Tail(s) \in Seq(B) /\ ToSet(s) = {Head(s)} \cup ToSet(Tail(s))
      /\ Head(s) \in ToSet(Tail(s)) => Head(s) \in Repeated(s)
  BY PopItems
<1>2. /\ Len(s) \in Nat /\ DOMAIN s = 1 .. Len(s) /\ 1 \in 1 .. Len(s) /\ ToSet(s) \subseteq B
      /\ \A i, j \in 1 .. Len(s) : s[i] = s[j] => i = j
  BY ItemFacts
<1>3. Head(s) = s[1]
  BY <1>2
<1>4. Repeated(s) = {}
  BY <1>2 DEF Repeated
<1> QED BY <1>1, <1>2, <1>3, <1>4

\* h is g whose blocs s are one, the first, with exits x.
Contracted(g, h, s, x) ==
  /\ Blocs(h) = Blocs(g) \ (ToSet(s) \ {s[1]})
  /\ \A b \in Blocs(g) \ ToSet(s) : Succ(h, b) = Succ(g, b)
  /\ Succ(h, s[1]) \subseteq Targets(x)

\* ... and has the codes of all of them, one after the other.
Gathered(g, h, s, x) ==
  /\ h.exits[s[1]] = x /\ h.stmts[s[1]] = FlattenSeq([i \in DOMAIN s |-> g.stmts[s[i]]])
  /\ \A b \in Blocs(g) \ ToSet(s) : h.exits[b] = g.exits[b] /\ h.stmts[b] = g.stmts[b]

\* merge_subgraph: the group leaves the graph but for its first bloc.
LEMMA MergeFacts ==
  ASSUME NEW g, Sane(g), Rooted(g), NEW m, Mergeable(g, m.blocs, m.exits)
  PROVE  LET h == MergeSubgraph(g, m)
         IN  /\ Sane(h) /\ Rooted(h) /\ h.error = g.error
             /\ Contracted(g, h, m.blocs, m.exits) /\ Gathered(g, h, m.blocs, m.exits)
<1> DEFINE s == m.blocs   x == m.exits   final == s[1]   M == ToSet(s)   N == M \ {final}
           B == Blocs(g)
           c == Cut(g, s)[Len(s)]
           code == FlattenSeq([i \in DOMAIN s |-> g.stmts[s[i]]])
           k == [c EXCEPT !.stmts[final] = code]
           d == Delete(k, N)
           h == SetExits(d, final, x)
<1>1. s \in Seq(B) /\ s # <<>> /\ IsInjective(s) /\ x \in ExitsTo(B)
      /\ (x.nat = nil => x.odd = nil) /\ Targets(x) \cap N = {}
      /\ Onward(g, M) \subseteq M \cup Targets(x)
  BY DEF Mergeable
<1>2. ToSet(Tail(s)) = N /\ final \in M /\ M \subseteq B
  <2> HIDE DEF s, B
  <2> QED BY <1>1, RestOfGroup
<1>3. MergeSubgraph(g, m) = h
  <2>1. MergeSubgraph(g, m) = SetExits(Delete(k, ToSet(Tail(s))), final, x)
    BY Zenon DEF MergeSubgraph, Cut
  <2> HIDE DEF k
  <2> QED BY <2>1, <1>2
<1>4. /\ Sane(c) /\ Blocs(c) = B /\ c.error = g.error /\ c.stmts = g.stmts
      /\ \A b \in B : c.exits[b] = IF b \in M THEN NoExits ELSE g.exits[b]
  BY <1>1, CutFacts
<1> HIDE DEF c, code
<1>5. Alike(c, k, {"stmts"}) /\ DOMAIN k.stmts = DOMAIN c.stmts
      /\ \A b \in B : k.stmts[b] = IF b = final THEN code ELSE g.stmts[b]
  <2>1. c = [f \in Fields |-> c[f]]
    BY <1>4 DEF Sane, Pooled
  <2>2. \A f \in Fields \ {"stmts"} : k[f] = c[f]
    BY <2>1
  <2>3. k = [f \in Fields |-> k[f]]
    BY <2>1
  <2>4. k.stmts = [c.stmts EXCEPT ![final] = code]
    BY <2>1 DEF Fields
  <2>5. DOMAIN k.stmts = DOMAIN c.stmts
    BY <2>4
  <2>6. DOMAIN c.stmts = B
    BY <1>4 DEF Sane, Pooled
  <2>7. \A b \in B : k.stmts[b] = IF b = final THEN code ELSE g.stmts[b]
    <3> HIDE DEF k, final
    <3> QED BY <1>4, <2>4, <2>6
  <2> HIDE DEF k
  <2> QED BY <2>2, <2>3, <2>5, <2>7 DEF Alike
<1> HIDE DEF k
<1>6. Sane(k) /\ Blocs(k) = B /\ k.exits = c.exits /\ k.error = g.error
  <2>1. Sane(k) /\ Blocs(k) = Blocs(c) /\ k.exits = c.exits
    BY <1>4, <1>5, AlikeSane
  <2>2. k.error = c.error
    BY <1>5 DEF Alike, Fields
  <2> QED BY <2>1, <2>2, <1>4
<1>7. \A b \in B : k.exits[b] = IF b \in M THEN NoExits ELSE g.exits[b]
  BY <1>4, <1>6
<1>8. \A b \in N : b \in B /\ b # entry_bloc /\ k.exits[b] = NoExits /\ k.prevcount[b] = 0
  <2>1. Mergeable(g, s, x)
    OBVIOUS
  <2> HIDE DEF s, x
  <2> QED BY <1>6, <1>7, <2>1, MergedLeak
<1>9. Sane(d) /\ Blocs(d) = B \ N /\ d.error = g.error
      /\ \A b \in B \ N : d.exits[b] = k.exits[b] /\ d.stmts[b] = k.stmts[b]
  <2>1. N \in SUBSET (Blocs(k) \ {entry_bloc}) /\ \A b \in N : k.exits[b] = NoExits /\ k.prevcount[b] = 0
    BY <1>6, <1>8
  <2> HIDE DEF N
  <2> QED BY <1>6, <2>1, DeleteFacts
<1> HIDE DEF d
<1>10. final \in Blocs(d) /\ x \in ExitsTo(Blocs(d)) /\ (x.nat = nil => x.odd = nil)
  <2>1. final \in B \ N
    BY <1>2
  <2>2. x \in ExitsTo(B) /\ Targets(x) \cap N = {}
    BY <1>1
  <2>3. x \in ExitsTo(B \ N)
    <3> HIDE DEF x, N, B
    <3> QED BY <2>2 DEF ExitsTo, Targets
  <2> QED BY <2>1, <2>3, <1>1, <1>9
<1>11. /\ Sane(h) /\ Blocs(h) = B \ N /\ h.error = g.error
       /\ h.exits = [d.exits EXCEPT ![final] = x] /\ h.stmts = d.stmts
  <2>1. /\ Sane(h) /\ Blocs(h) = Blocs(d) /\ Alike(d, h, {"exits", "prevcount"})
        /\ h.exits = [d.exits EXCEPT ![final] = x]
    <3>1. Sane(d)
      BY <1>9
    <3> HIDE DEF x, final, B, N, M
    <3> QED BY <3>1, <1>10, SetExitsFacts
  <2>2. h.error = d.error /\ h.stmts = d.stmts
    BY <2>1 DEF Alike, Fields
  <2> QED BY <2>1, <2>2, <1>9
<1> HIDE DEF h
<1>12. /\ Targets(h.exits[final]) = Targets(x) /\ h.exits[final] = x
       /\ \A b \in B \ M : h.exits[b] = g.exits[b]
  <2>1. d.exits \in [B \ N -> ExitsTo(B \ N)]
    BY <1>9 DEF Sane, Linked
  <2>2. \A b \in B \ N : h.exits[b] = IF b = final THEN x ELSE d.exits[b]
    BY <2>1, <1>11
  <2>3. final \in B \ N /\ \A b \in B \ M : b \in B \ N /\ b # final
    BY <1>2
  <2> HIDE DEF N, M, final, x
  <2> QED BY <2>2, <2>3, <1>7, <1>9
<1>13. Rooted(h)
  <2>1. SUFFICES ASSUME NEW S \in SUBSET (B \ N), entry_bloc \in S, \A b \in S : Succ(h, b) \subseteq S
                 PROVE  S = B \ N
    BY <1>11 DEF Rooted
  <2>2. \A b \in B \ M : Succ(g, b) = Succ(h, b)
    BY <1>12 DEF Succ
  <2>3. Succ(h, final) = Targets(x)
    BY <1>12 DEF Succ
  <2>4. CASE final \in S
    <3> DEFINE T == S \cup N
    <3>1. T \in SUBSET B /\ entry_bloc \in T
      BY <2>1, <1>2
    <3>2. ASSUME NEW b \in T PROVE Succ(g, b) \subseteq T
      <4>1. CASE b \in M
        <5>1. Succ(g, b) \subseteq Onward(g, M)
          BY <4>1 DEF Onward
        <5>2. Targets(x) \subseteq S
          BY <2>1, <2>3, <2>4
        <5>3. M \subseteq T
          BY <2>4
        <5> HIDE DEF M, T, N, x
        <5> QED BY <5>1, <5>2, <5>3, <1>1 DEF T
      <4>2. CASE b \notin M
        <5>1. b \in S /\ b \in B \ M
          BY <4>2, <2>1
        <5> QED BY <5>1, <2>1, <2>2
      <4> QED BY <4>1, <4>2
    <3>3. T = B
      <4> HIDE DEF T
      <4> QED BY <3>1, <3>2 DEF Rooted
    <3> QED BY <3>3, <2>1
  <2>5. CASE final \notin S
    <3>1. S \in SUBSET B /\ \A b \in S : b \in B \ M
      BY <2>1, <2>5
    <3>2. \A b \in S : Succ(g, b) \subseteq S
      BY <3>1, <2>1, <2>2
    <3>3. S = B
      BY <2>1, <3>1, <3>2 DEF Rooted
    <3> QED BY <3>3, <2>5, <1>2
  <2> QED BY <2>4, <2>5
<1>14. Contracted(g, h, s, x)
  BY <1>11, <1>12 DEF Contracted, Succ
<1>15. Gathered(g, h, s, x)
  <2>1. final \in B \ N /\ \A b \in B \ M : b \in B /\ b \in B \ N /\ b # final
    BY <1>2
  <2>2. h.stmts[final] = code
    BY <1>5, <1>9, <1>11, <2>1
  <2>3. \A b \in B \ M : h.stmts[b] = g.stmts[b]
    BY <1>5, <1>9, <1>11, <2>1
  <2>4. h.exits[final] = x /\ \A b \in B \ M : h.exits[b] = g.exits[b]
    BY <1>12
  <2> HIDE DEF s, x
  <2> QED BY <2>2, <2>3, <2>4 DEF Gathered, code
<1> QED BY <1>3, <1>11, <1>13, <1>14, <1>15

LEMMA GroupedMergeable ==
  ASSUME NEW g, Sane(g), NEW p, NEW m, Grouped(g, p, m)
  PROVE  /\ Mergeable(g, m.blocs, m.exits)
         /\ Has(m.exits, m.blocs[1]) =>
              Mergeable(g, m.blocs, Exits(Get(m.exits, ~ Which(m.exits, m.blocs[1])), nil))
<1> DEFINE s == m.blocs   x == m.exits   f == s[1]   M == ToSet(s)   N == M \ {f}
           after == Get(x, ~ Which(x, f))   y == Exits(after, nil)
<1>1. /\ s \in Seq(Blocs(g)) /\ s # <<>> /\ IsInjective(s) /\ f \in M
      /\ x \in ExitsTo(Blocs(g)) /\ (x.nat = nil => x.odd = nil)
      /\ (\A b \in N : g.prevcount[b] <= 1 /\ b \in Onward(g, M))
      /\ Targets(x) \cap N = {} /\ Onward(g, M) \subseteq N \cup Targets(x)
  <2>1. s \in Seq(Blocs(g)) /\ s # <<>> /\ IsInjective(s) /\ Searched(g, f, M, {}, {}, x)
    BY DEF Grouped
  <2>2. f \in M
    BY <2>1, RestOfGroup
  <2> HIDE DEF s, x, f, M
  <2>3. M # {}
    BY <2>2
  <2> QED BY <2>1, <2>2, <2>3 DEF Searched
<1>2. Mergeable(g, s, x)
  <2> HIDE DEF s, x
  <2> QED BY <1>1 DEF Mergeable
<1>3. ASSUME Has(x, f) PROVE Mergeable(g, s, y)
  <2>1. Targets(y) \subseteq Targets(x) /\ Targets(x) \subseteq {f} \cup Targets(y)
        /\ y \in ExitsTo(Blocs(g)) /\ y.odd = nil
    <3> HIDE DEF x, f
    <3> QED BY <1>1, <1>3 DEF ExitsTo, Exits, Targets, Has, Which, Get
  <2> HIDE DEF s, x, y
  <2> QED BY <1>1, <2>1 DEF Mergeable
<1> QED BY <1>2, <1>3

-----------------------------------------------------------------------------
(* The statements that a merge adds.                                       *)

\* h is g with other statements in the same blocs.
Kin(g, h) == /\ Alike(g, h, {"stmts", "error", "term", "source", "vars", "clash"})
             /\ DOMAIN h.stmts = DOMAIN g.stmts

LEMMA KinTrans ==
  ASSUME NEW g, NEW h, NEW k, Kin(g, h), Kin(h, k)
  PROVE  Kin(g, k)
BY DEF Kin, Alike, Fields

LEMMA KinItself ==
  ASSUME NEW g, g = [f \in Fields |-> g[f]]
  PROVE  Kin(g, g)
BY DEF Kin, Alike

LEMMA KinFields == ASSUME NEW g, NEW h, Kin(g, h) PROVE h = [f \in Fields |-> h[f]]
BY DEF Kin, Alike

\* What is true of the structure of a graph is true of its kin.
LEMMA KinSame ==
  ASSUME NEW g, NEW h, Sane(g), Kin(g, h)
  PROVE  /\ Sane(h) /\ Blocs(h) = Blocs(g) /\ h.exits = g.exits /\ h.prevcount = g.prevcount
         /\ h.pool = g.pool /\ h.fresh = g.fresh
<1> DEFINE F == {"stmts", "error", "term", "source", "vars", "clash"}
<1>1. Alike(g, h, F) /\ DOMAIN h.stmts = DOMAIN g.stmts
      /\ F \subseteq {"stmts", "error", "term", "source", "vars", "clash"}
  BY DEF Kin
<1> HIDE DEF F
<1> QED BY <1>1, AlikeSane

LEMMA KinSane ==
  ASSUME NEW g, NEW h, Sane(g), Rooted(g), Kin(g, h)
  PROVE  /\ Sane(h) /\ Rooted(h) /\ Blocs(h) = Blocs(g)
         /\ h.exits = g.exits /\ h.prevcount = g.prevcount
         /\ \A s, x : Mergeable(g, s, x) => Mergeable(h, s, x)
<1>1. Sane(h) /\ Blocs(h) = Blocs(g) /\ h.exits = g.exits /\ h.prevcount = g.prevcount
  BY KinSame
<1>2. \A b : Succ(h, b) = Succ(g, b)
  BY <1>1 DEF Succ
<1>3. Rooted(h)
  BY <1>1, <1>2 DEF Rooted
<1>4. ASSUME NEW s, NEW x, Mergeable(g, s, x) PROVE Mergeable(h, s, x)
  <2>1. \A M : Onward(h, M) = Onward(g, M)
    BY <1>2 DEF Onward
  <2> QED BY <1>1, <1>4, <2>1 DEF Mergeable
<1> QED BY <1>1, <1>3, <1>4

\* Statements at the end, or at the beginning, of a bloc.
LEMMA StmtsKin ==
  ASSUME NEW g, g = [f \in Fields |-> g[f]], NEW b, NEW ss
  PROVE  LET h == [g EXCEPT !.stmts[b] = ss] IN Kin(g, h) /\ h.error = g.error
<1> DEFINE h == [g EXCEPT !.stmts[b] = ss]
<1>1. h = [g EXCEPT !.stmts = [g.stmts EXCEPT ![b] = ss]]
  BY DEF Fields
<1>2. h = [f \in Fields |-> h[f]] /\ (\A f \in Fields \ {"stmts"} : h[f] = g[f])
      /\ h.stmts = [g.stmts EXCEPT ![b] = ss]
  BY <1>1 DEF Fields
<1> HIDE DEF h
<1>3. DOMAIN h.stmts = DOMAIN g.stmts
  BY <1>2
<1>4. Kin(g, h) /\ h.error = g.error
  BY <1>2, <1>3 DEF Kin, Alike, Fields
<1> QED BY <1>4 DEF h

LEMMA AppendKin ==
  ASSUME NEW g, g = [f \in Fields |-> g[f]], NEW b, NEW s
  PROVE  /\ Kin(g, AppendStmt(g, b, s)) /\ AppendStmt(g, b, s).error = g.error
         /\ Kin(g, AppendAll(g, b, s)) /\ AppendAll(g, b, s).error = g.error
         /\ Kin(g, InsertStmt(g, b, s)) /\ InsertStmt(g, b, s).error = g.error
<1>1. AppendStmt(g, b, s) = [g EXCEPT !.stmts[b] = Append(g.stmts[b], s)]
  BY DEF AppendStmt
<1>2. AppendAll(g, b, s) = [g EXCEPT !.stmts[b] = g.stmts[b] \o s]
  BY DEF AppendAll
<1>3. InsertStmt(g, b, s) = [g EXCEPT !.stmts[b] = <<s>> \o g.stmts[b]]
  BY DEF InsertStmt
<1> DEFINE a == Append(g.stmts[b], s)   c == g.stmts[b] \o s   d == <<s>> \o g.stmts[b]
<1> HIDE DEF a, c, d
<1>4. Kin(g, [g EXCEPT !.stmts[b] = a]) /\ [g EXCEPT !.stmts[b] = a].error = g.error
  BY StmtsKin
<1>5. Kin(g, [g EXCEPT !.stmts[b] = c]) /\ [g EXCEPT !.stmts[b] = c].error = g.error
  BY StmtsKin
<1>6. Kin(g, [g EXCEPT !.stmts[b] = d]) /\ [g EXCEPT !.stmts[b] = d].error = g.error
  BY StmtsKin
<1> QED BY <1>1, <1>2, <1>3, <1>4, <1>5, <1>6 DEF a, c, d

\* A condition that a statement is told to put in a variable.
LEMMA CondKin ==
  ASSUME NEW g, g = [f \in Fields |-> g[f]], NEW b, NEW term, NEW inv
  PROVE  Kin(g, CondTerm(g, b, term, inv)) /\ CondTerm(g, b, term, inv).error = g.error
<1> DEFINE h == CondTerm(g, b, term, inv)
<1>1. h = [f \in Fields |-> h[f]] /\ \A f \in Fields \ {"term", "clash"} : h[f] = g[f]
  BY Zenon DEF CondTerm, SetCondTerm, Fields
<1> HIDE DEF h
<1>2. Kin(g, h) /\ h.error = g.error
  BY <1>1 DEF Kin, Alike, Fields
<1> QED BY Zenon, <1>2 DEF h

LEMMA TestKin ==
  ASSUME NEW g, g = [f \in Fields |-> g[f]], NEW b, NEW s
  PROVE  Kin(g, TestLcc(g, b, s)) /\ TestLcc(g, b, s).error = g.error
<1> DEFINE r == FALSE   h == CondTerm(g, b, lcc, r)   k == AppendStmt(h, b, s)
<1>2. TestLcc(g, b, s) = k
  BY DEF TestLcc
<1> HIDE DEF r
<1>1. Kin(g, h) /\ h.error = g.error
  BY CondKin
<1> HIDE DEF h
<1>3. h = [f \in Fields |-> h[f]]
  BY <1>1, KinFields
<1>4. Kin(h, k) /\ k.error = h.error
  BY <1>3, AppendKin
<1> HIDE DEF k
<1>5. Kin(g, k)
  BY <1>1, <1>4, KinTrans
<1> QED BY <1>1, <1>2, <1>4, <1>5

LEMMA KinSteps ==
  ASSUME NEW g, g = [x \in Fields |-> g[x]], NEW n \in Nat, NEW f, f[0] = g, NEW E,
         \A i \in 1 .. n : Kin(g, f[i - 1]) =>
           Kin(f[i - 1], f[i]) /\ f[i].error \in {f[i - 1].error} \cup E
  PROVE  Kin(g, f[n]) /\ f[n].error \in {g.error} \cup E
<1> DEFINE P(h) == Kin(g, h) /\ h.error \in {g.error} \cup E
           S == {k \in Nat : k <= n => P(f[k])}
<1>1. 0 \in S
  BY KinItself
<1>2. ASSUME NEW k \in Nat, k \in S PROVE k + 1 \in S
  <2> SUFFICES ASSUME k + 1 <= n PROVE P(f[k + 1])
    OBVIOUS
  <2>1. P(f[k]) /\ k + 1 \in 1 .. n /\ (k + 1) - 1 = k
    BY <1>2
  <2> DEFINE d == f[k]   h == f[k + 1]
  <2>2. Kin(g, d) => Kin(d, h) /\ h.error \in {d.error} \cup E
    BY <2>1
  <2> HIDE DEF d, h
  <2>3. Kin(g, d) /\ d.error \in {g.error} \cup E
    BY <2>1 DEF d
  <2>5. Kin(g, h) /\ h.error \in {g.error} \cup E
    BY <2>2, <2>3, KinTrans
  <2> QED BY <2>5 DEF h
<1>3. n \in S
  <2> HIDE DEF S
  <2> QED BY <1>1, <1>2, Induction
<1> QED BY <1>3

\* The blocs of m after the first get their closers.
ClosedAt(test, m, closers, i, v) == IF i = 0 THEN test ELSE AppendStmt(v, m.blocs[i + 1], closers[i])
Closed(test, m, closers) ==
  LET closed[i \in 0 .. Len(closers)] ==
    IF i = 0 THEN test
    ELSE AppendStmt(closed[i - 1], m.blocs[i + 1], closers[i])
  IN closed

LEMMA ClosedRec ==
  ASSUME NEW test, NEW m, NEW closers, Len(closers) \in Nat
  PROVE  /\ Closed(test, m, closers) = [i \in 0 .. Len(closers) |-> Closed(test, m, closers)[i]]
         /\ Closed(test, m, closers)[0] = test
         /\ \A i \in 1 .. Len(closers) : Closed(test, m, closers)[i] = ClosedAt(test, m, closers, i, Closed(test, m, closers)[i - 1])
<1> DEFINE body(i, v) == ClosedAt(test, m, closers, i, v)
           L == Len(closers)
           closed[i \in 0 .. Len(closers)] ==
             IF i = 0 THEN test
    ELSE AppendStmt(closed[i - 1], m.blocs[i + 1], closers[i])
           is(h, k) == h = [i \in 0 .. k |-> body(i, h[i - 1])]
<1>1. Closed(test, m, closers) = closed
  BY DEF Closed
<1>2. (\A x, y : body(0, x) = body(0, y)) /\ \A x : body(0, x) = test
  BY DEF ClosedAt
<1> HIDE DEF body
<1>3. \E h : is(h, 0)
  <2> DEFINE h == [i \in 0 .. 0 |-> body(0, 0)]
  <2>1. h[0] = body(0, h[0 - 1])
    BY <1>2
  <2>2. \A i \in 0 .. 0 : h[i] = body(i, h[i - 1])
    BY <2>1
  <2>3. h = [i \in 0 .. 0 |-> h[i]]
    OBVIOUS
  <2> HIDE DEF h
  <2>4. is(h, 0)
    BY <2>2, <2>3
  <2> QED BY <2>4
<1>4. ASSUME NEW k \in Nat, NEW e, is(e, k) PROVE \E h : is(h, k + 1)
  <2> DEFINE h == [i \in 0 .. k + 1 |-> IF i = k + 1 THEN body(k + 1, e[k]) ELSE e[i]]
  <2>1. \A i \in 0 .. k : h[i] = e[i]
    OBVIOUS
  <2>2. h[k + 1] = body(k + 1, h[k])
    BY <2>1
  <2>3. ASSUME NEW i \in 0 .. k + 1 PROVE h[i] = body(i, h[i - 1])
    <3>1. CASE i = k + 1
      BY <3>1, <2>2
    <3>2. CASE i = 0
      <4>1. h[0] = body(0, e[0 - 1])
        BY <1>4, <2>1
      <4> QED BY <4>1, <3>2, <1>2
    <3>3. CASE i \in 1 .. k
      <4>1. i \in 0 .. k /\ i - 1 \in 0 .. k
        BY <3>3
      <4>2. e[i] = body(i, e[i - 1])
        BY <4>1, <1>4
      <4> QED BY <4>1, <4>2, <2>1
    <3> QED BY <3>1, <3>2, <3>3
  <2>4. h = [i \in 0 .. k + 1 |-> h[i]]
    OBVIOUS
  <2> HIDE DEF h
  <2>5. is(h, k + 1)
    BY <2>3, <2>4
  <2> QED BY <2>5
<1>5. PICK e : is(e, L)
  <2> DEFINE S == {k \in Nat : \E h : is(h, k)}
  <2> HIDE DEF is
  <2>1. 0 \in S
    BY <1>3
  <2>2. ASSUME NEW k \in Nat, k \in S PROVE k + 1 \in S
    BY <2>2, <1>4
  <2> HIDE DEF S, L
  <2>3. Nat \subseteq S
    BY <2>1, <2>2, Induction
  <2> QED BY <2>3 DEF S, L
<1>6. closed = [i \in 0 .. L |-> body(i, closed[i - 1])]
  BY <1>5 DEF closed, body, ClosedAt
<1> HIDE DEF closed, L
<1>7. \A i \in 0 .. L : closed[i] = body(i, closed[i - 1])
  BY <1>6
<1>8. closed = [i \in 0 .. L |-> closed[i]]
  <2> DEFINE r == [i \in 0 .. L |-> body(i, closed[i - 1])]
  <2>1. \A i \in 0 .. L : r[i] = closed[i]
    BY <1>7
  <2> QED BY <1>6, <2>1
<1>9. L \in Nat /\ 0 \in 0 .. L /\ \A i \in 1 .. L : i \in 0 .. L
  BY DEF L
<1> QED BY <1>1, <1>2, <1>7, <1>8, <1>9 DEF L, body

LEMMA MergeIfFacts ==
  ASSUME NEW g, Sane(g), Rooted(g), NEW p, NEW m, Grouped(g, p, m), NEW closers,
         Len(closers) \in Nat
  PROVE  LET h == MergeIf(g, m, closers)
         IN  /\ Sane(h) /\ Rooted(h) /\ h.error = g.error
             /\ Contracted(g, h, m.blocs, m.exits)
<1> DEFINE head == m.blocs[1]
           s == <<"if", Which(g.exits[head], m.blocs[2])>>
           test == TestLcc(g, head, s)
           n == Len(closers)
           f == Closed(test, m, closers)
           k == f[n]
<1>1. MergeIf(g, m, closers) = MergeSubgraph(k, m)
  BY Zenon DEF MergeIf, Closed
<1> HIDE DEF s, head
<1>2. g = [x \in Fields |-> g[x]]
  BY DEF Sane, Pooled
<1>3. Kin(g, test) /\ test.error = g.error
  BY <1>2, TestKin
<1> HIDE DEF test
<1>4. f[0] = test /\ \A i \in 1 .. n : f[i] = ClosedAt(test, m, closers, i, f[i - 1])
  BY ClosedRec
<1> HIDE DEF f
<1>5. Kin(test, k) /\ k.error = test.error
  <2>1. ASSUME NEW i \in 1 .. n, Kin(test, f[i - 1])
        PROVE  Kin(f[i - 1], f[i]) /\ f[i].error \in {f[i - 1].error} \cup {}
    <3> DEFINE d == f[i - 1]   b == m.blocs[i + 1]   c == closers[i]
    <3>1. f[i] = AppendStmt(d, b, c)
      BY <1>4 DEF ClosedAt
    <3> HIDE DEF b, c
    <3>2. d = [x \in Fields |-> d[x]]
      BY <2>1, KinFields
    <3> HIDE DEF d
    <3>3. Kin(d, f[i]) /\ f[i].error = d.error
      BY <3>1, <3>2, AppendKin
    <3> QED BY <3>3 DEF d
  <2>2. test = [x \in Fields |-> test[x]]
    BY <1>3, KinFields
  <2> DEFINE E == {}
  <2>3. \A i \in 1 .. n : Kin(test, f[i - 1]) =>
           Kin(f[i - 1], f[i]) /\ f[i].error \in {f[i - 1].error} \cup E
    BY <2>1
  <2> HIDE DEF E
  <2>4. Kin(test, f[n]) /\ f[n].error \in {test.error} \cup E
    BY <1>4, <2>2, <2>3, KinSteps
  <2> QED BY <2>4 DEF E
<1> HIDE DEF k
<1>6. Kin(g, k) /\ k.error = g.error
  BY <1>3, <1>5, KinTrans
<1>7. Mergeable(g, m.blocs, m.exits)
  BY GroupedMergeable
<1> DEFINE bs == m.blocs   x == m.exits
<1>8. /\ Sane(k) /\ Rooted(k) /\ Blocs(k) = Blocs(g) /\ k.exits = g.exits /\ Mergeable(k, bs, x)
  <2> HIDE DEF bs, x
  <2>1. Mergeable(g, bs, x)
    BY <1>7 DEF bs, x
  <2> QED BY <1>6, <2>1, KinSane
<1>9. Mergeable(k, m.blocs, m.exits)
  BY <1>8
<1>10. LET h == MergeSubgraph(k, m)
       IN  /\ Sane(h) /\ Rooted(h) /\ h.error = k.error
           /\ Contracted(k, h, m.blocs, m.exits)
  BY <1>8, <1>9, MergeFacts
<1>11. \A h : Contracted(k, h, m.blocs, m.exits) => Contracted(g, h, m.blocs, m.exits)
  BY <1>8 DEF Contracted, Succ
<1> QED BY <1>1, <1>6, <1>10, <1>11

Stuck == "Inner loop single exit blocs"

Pair(x, y) == [g |-> x, issues |-> y]

LEMMA PairFacts == ASSUME NEW x, NEW y
                   PROVE  /\ Pair(x, y).g = x /\ Pair(x, y).issues = y
                          /\ \A z : [Pair(x, y) EXCEPT !.g = z] = Pair(z, y)
                          /\ [Pair(x, y) EXCEPT !.g.error = Stuck] = Pair([x EXCEPT !.error = Stuck], y)
BY DEF Pair

\* What is said of a bloc of a loop changes its statements only.
LEMMA LoopBlocKin ==
  ASSUME NEW u, u = [f \in Fields |-> u[f]], NEW y, NEW i, NEW m, NEW after
  PROVE  LET b == m.blocs[i]
             r == LoopBloc(Pair(u, y), i, m, after)
         IN  \E v, z : /\ r = Pair(v, z) /\ Kin(u, v)
                       /\ v.error = IF u.exits[b].odd = nil /\ ~ Has(u.exits[b], m.blocs[1])
                                         /\ ~ (after # nil /\ Has(u.exits[b], after))
                                      THEN Stuck ELSE u.error
<1> DEFINE a == Pair(u, y)   b == m.blocs[i]   head == m.blocs[1]   exits == u.exits[b]
           break == after # nil /\ Has(exits, after)
           continue == Has(exits, head)
           pop == Front(y)
           jump(h) == IF i # Len(m.blocs) THEN AppendStmt(h, b, <<"continue">>) ELSE h
           close(h) == AppendAll(h, b, Last(y))
           r == LoopBloc(a, i, m, after)
           Same(h) == Kin(u, h) /\ h.error = u.error
<1>1. a.g = u /\ a.issues = y
  BY PairFacts
<1>2. ASSUME NEW h, Same(h) PROVE Same(jump(h)) /\ Same(close(h))
  <2>1. h = [f \in Fields |-> h[f]]
    BY <1>2, KinFields
  <2> DEFINE s == <<"continue">>   ss == Last(y)
  <2> HIDE DEF s, ss
  <2>2. Kin(h, AppendStmt(h, b, s)) /\ AppendStmt(h, b, s).error = h.error
    <3> HIDE DEF b
    <3> QED BY <2>1, AppendKin
  <2>3. Kin(h, AppendAll(h, b, ss)) /\ AppendAll(h, b, ss).error = h.error
    <3> HIDE DEF b
    <3> QED BY <2>1, AppendKin
  <2>4. Same(AppendStmt(h, b, s)) /\ Same(AppendAll(h, b, ss))
    BY <1>2, <2>2, <2>3, KinTrans
  <2> HIDE DEF Same
  <2> QED BY <1>2, <2>4 DEF s, ss
<1>3. Same(u)
  BY KinItself
<1>4. \A s : Same(AppendStmt(u, b, s)) /\ Same(TestLcc(u, b, s))
  <2>1. SUFFICES ASSUME NEW s PROVE Same(AppendStmt(u, b, s)) /\ Same(TestLcc(u, b, s))
    OBVIOUS
  <2> HIDE DEF b
  <2> QED BY AppendKin, TestKin
<1>5. Kin(u, [u EXCEPT !.error = Stuck]) /\ [u EXCEPT !.error = Stuck].error = Stuck
  <2> DEFINE v == [u EXCEPT !.error = Stuck]
  <2>1. v = [f \in Fields |-> v[f]] /\ (\A f \in Fields \ {"error"} : v[f] = u[f]) /\ v.error = Stuck
    BY DEF Fields
  <2> HIDE DEF v
  <2>2. Kin(u, v)
    BY <2>1 DEF Kin, Alike, Fields
  <2> QED BY <2>1, <2>2 DEF v
<1>6. r = CASE exits.odd = nil /\ break -> Pair(close(AppendStmt(u, b, <<"break">>)), pop)
            [] exits.odd = nil /\ ~ break /\ continue -> Pair(close(jump(u)), pop)
            [] exits.odd = nil /\ ~ break /\ ~ continue -> [a EXCEPT !.g.error = Stuck]
            [] exits.odd # nil /\ break ->
                 IF continue
                   THEN Pair(close(jump(TestLcc(u, b, <<"ifBreak", Which(exits, after)>>))), pop)
                   ELSE [a EXCEPT !.g = TestLcc(u, b, <<"ifBreak", Which(exits, after)>>)]
            [] exits.odd # nil /\ ~ break /\ continue ->
                 [a EXCEPT !.g = TestLcc(u, b, <<"ifContinue", Which(exits, head)>>)]
            [] exits.odd # nil /\ ~ break /\ ~ continue ->
                 Pair(TestLcc(u, b, <<"if", Which(exits, m.blocs[i + 1])>>),
                      Append(Append(pop, << <<"}">> >> \o Last(y)), << <<"else">> >>))
  <2> HIDE DEF a
  <2> QED BY Zenon, <1>1 DEF LoopBloc, Stuck, Pair
<1> DEFINE s1 == <<"break">>   s2 == <<"ifBreak", Which(exits, after)>>
           s3 == <<"ifContinue", Which(exits, head)>>   s4 == <<"if", Which(exits, m.blocs[i + 1])>>
           y4 == Append(Append(pop, << <<"}">> >> \o Last(y)), << <<"else">> >>)
<1>7. r = CASE exits.odd = nil /\ break -> Pair(close(AppendStmt(u, b, s1)), pop)
            [] exits.odd = nil /\ ~ break /\ continue -> Pair(close(jump(u)), pop)
            [] exits.odd = nil /\ ~ break /\ ~ continue -> Pair([u EXCEPT !.error = Stuck], y)
            [] exits.odd # nil /\ break ->
                 IF continue THEN Pair(close(jump(TestLcc(u, b, s2))), pop)
                   ELSE Pair(TestLcc(u, b, s2), y)
            [] exits.odd # nil /\ ~ break /\ continue -> Pair(TestLcc(u, b, s3), y)
            [] exits.odd # nil /\ ~ break /\ ~ continue -> Pair(TestLcc(u, b, s4), y4)
  <2> HIDE DEF r, break, continue, exits, head, close, jump, b, pop, y4
  <2>1. y4 = Append(Append(pop, << <<"}">> >> \o Last(y)), << <<"else">> >>)
    BY DEF y4
  <2>2. \A z : [a EXCEPT !.g = z] = Pair(z, y)
    BY ZenonT(60), PairFacts
  <2>3. [a EXCEPT !.g.error = Stuck] = Pair([u EXCEPT !.error = Stuck], y)
    BY SMTT(60), PairFacts
  <2> HIDE DEF a
  <2> QED BY Zenon, <1>6, <2>1, <2>2, <2>3
<1> HIDE DEF s1, s2, s3, s4, y4, pop, a, r
<1> DEFINE stuck == exits.odd = nil /\ ~ continue /\ ~ break
           Is(v, z) == /\ r = Pair(v, z) /\ Kin(u, v)
                       /\ v.error = IF stuck THEN Stuck ELSE u.error
<1>8. \E v, z : Is(v, z)
  <2>1. CASE exits.odd = nil /\ break
    <3> DEFINE v == close(AppendStmt(u, b, s1))
    <3>1. Same(v)
      <4> HIDE DEF close, Same
      <4> QED BY <1>2, <1>4
    <3>2. r = Pair(v, pop)
      <4> HIDE DEF close, break, continue, exits, b
      <4> QED BY <1>7, <2>1
    <3>3. ~ stuck
      BY <2>1
    <3> HIDE DEF v, stuck
    <3>4. Is(v, pop)
      BY <3>1, <3>2, <3>3
    <3> QED BY <3>4
  <2>2. CASE exits.odd = nil /\ ~ break /\ continue
    <3> DEFINE v == close(jump(u))
    <3>1. Same(v)
      <4> HIDE DEF close, Same, jump
      <4> QED BY <1>2, <1>3
    <3>2. r = Pair(v, pop)
      <4> HIDE DEF close, break, continue, exits, b, jump
      <4> QED BY <1>7, <2>2
    <3>3. ~ stuck
      BY <2>2
    <3> HIDE DEF v, stuck
    <3>4. Is(v, pop)
      BY <3>1, <3>2, <3>3
    <3> QED BY <3>4
  <2>3. CASE exits.odd = nil /\ ~ break /\ ~ continue
    <3> DEFINE v == [u EXCEPT !.error = Stuck]
    <3>2. r = Pair(v, y)
      <4> HIDE DEF close, break, continue, exits, b, jump
      <4> QED BY <1>7, <2>3
    <3>3. stuck
      BY <2>3
    <3>1. Kin(u, v) /\ v.error = Stuck
      BY <1>5
    <3> HIDE DEF v, stuck
    <3>4. Is(v, y)
      BY <3>1, <3>2, <3>3
    <3> QED BY <3>4
  <2>4. CASE exits.odd # nil /\ break /\ continue
    <3> DEFINE v == close(jump(TestLcc(u, b, s2)))
    <3>1. Same(v)
      <4> HIDE DEF close, Same, jump
      <4> QED BY <1>2, <1>4
    <3>2. r = Pair(v, pop)
      <4> HIDE DEF close, break, continue, exits, b, jump
      <4> QED BY <1>7, <2>4
    <3>3. ~ stuck
      BY <2>4
    <3> HIDE DEF v, stuck
    <3>4. Is(v, pop)
      BY <3>1, <3>2, <3>3
    <3> QED BY <3>4
  <2>5. CASE exits.odd # nil /\ break /\ ~ continue
    <3> DEFINE v == TestLcc(u, b, s2)
    <3>1. Same(v)
      BY <1>4
    <3>2. r = Pair(v, y)
      <4> HIDE DEF close, break, continue, exits, b, jump
      <4> QED BY <1>7, <2>5
    <3>3. ~ stuck
      BY <2>5
    <3> HIDE DEF v, stuck
    <3>4. Is(v, y)
      BY <3>1, <3>2, <3>3
    <3> QED BY <3>4
  <2>6. CASE exits.odd # nil /\ ~ break /\ continue
    <3> DEFINE v == TestLcc(u, b, s3)
    <3>1. Same(v)
      BY <1>4
    <3>2. r = Pair(v, y)
      <4> HIDE DEF close, break, continue, exits, b, jump
      <4> QED BY <1>7, <2>6
    <3>3. ~ stuck
      BY <2>6
    <3> HIDE DEF v, stuck
    <3>4. Is(v, y)
      BY <3>1, <3>2, <3>3
    <3> QED BY <3>4
  <2>7. CASE exits.odd # nil /\ ~ break /\ ~ continue
    <3> DEFINE v == TestLcc(u, b, s4)
    <3>1. Same(v)
      BY <1>4
    <3>2. r = Pair(v, y4)
      <4> HIDE DEF close, break, continue, exits, b, jump
      <4> QED BY <1>7, <2>7
    <3>3. ~ stuck
      BY <2>7
    <3> HIDE DEF v, stuck
    <3>4. Is(v, y4)
      BY <3>1, <3>2, <3>3
    <3> QED BY <3>4
  <2> HIDE DEF Is, break, continue, exits
  <2> QED BY <2>1, <2>2, <2>3, <2>4, <2>5, <2>6, <2>7
<1> QED BY <1>8 DEF r, a

\* The blocs of loop m get their jumps.
LoopedAt(first, m, after, i, v) == IF i = 0 THEN first ELSE LoopBloc(v, i, m, after)
Looped(first, m, after) ==
  LET a[i \in 0 .. Len(m.blocs)] ==
    IF i = 0 THEN first
    ELSE LoopBloc(a[i - 1], i, m, after)
  IN a

LEMMA LoopedRec ==
  ASSUME NEW first, NEW m, NEW after, Len(m.blocs) \in Nat
  PROVE  /\ Looped(first, m, after) = [i \in 0 .. Len(m.blocs) |-> Looped(first, m, after)[i]]
         /\ Looped(first, m, after)[0] = first
         /\ \A i \in 1 .. Len(m.blocs) : Looped(first, m, after)[i] = LoopedAt(first, m, after, i, Looped(first, m, after)[i - 1])
<1> DEFINE body(i, v) == LoopedAt(first, m, after, i, v)
           L == Len(m.blocs)
           a[i \in 0 .. Len(m.blocs)] ==
             IF i = 0 THEN first
    ELSE LoopBloc(a[i - 1], i, m, after)
           is(h, k) == h = [i \in 0 .. k |-> body(i, h[i - 1])]
<1>1. Looped(first, m, after) = a
  BY DEF Looped
<1>2. (\A x, y : body(0, x) = body(0, y)) /\ \A x : body(0, x) = first
  BY DEF LoopedAt
<1> HIDE DEF body
<1>3. \E h : is(h, 0)
  <2> DEFINE h == [i \in 0 .. 0 |-> body(0, 0)]
  <2>1. h[0] = body(0, h[0 - 1])
    BY <1>2
  <2>2. \A i \in 0 .. 0 : h[i] = body(i, h[i - 1])
    BY <2>1
  <2>3. h = [i \in 0 .. 0 |-> h[i]]
    OBVIOUS
  <2> HIDE DEF h
  <2>4. is(h, 0)
    BY <2>2, <2>3
  <2> QED BY <2>4
<1>4. ASSUME NEW k \in Nat, NEW e, is(e, k) PROVE \E h : is(h, k + 1)
  <2> DEFINE h == [i \in 0 .. k + 1 |-> IF i = k + 1 THEN body(k + 1, e[k]) ELSE e[i]]
  <2>1. \A i \in 0 .. k : h[i] = e[i]
    OBVIOUS
  <2>2. h[k + 1] = body(k + 1, h[k])
    BY <2>1
  <2>3. ASSUME NEW i \in 0 .. k + 1 PROVE h[i] = body(i, h[i - 1])
    <3>1. CASE i = k + 1
      BY <3>1, <2>2
    <3>2. CASE i = 0
      <4>1. h[0] = body(0, e[0 - 1])
        BY <1>4, <2>1
      <4> QED BY <4>1, <3>2, <1>2
    <3>3. CASE i \in 1 .. k
      <4>1. i \in 0 .. k /\ i - 1 \in 0 .. k
        BY <3>3
      <4>2. e[i] = body(i, e[i - 1])
        BY <4>1, <1>4
      <4> QED BY <4>1, <4>2, <2>1
    <3> QED BY <3>1, <3>2, <3>3
  <2>4. h = [i \in 0 .. k + 1 |-> h[i]]
    OBVIOUS
  <2> HIDE DEF h
  <2>5. is(h, k + 1)
    BY <2>3, <2>4
  <2> QED BY <2>5
<1>5. PICK e : is(e, L)
  <2> DEFINE S == {k \in Nat : \E h : is(h, k)}
  <2> HIDE DEF is
  <2>1. 0 \in S
    BY <1>3
  <2>2. ASSUME NEW k \in Nat, k \in S PROVE k + 1 \in S
    BY <2>2, <1>4
  <2> HIDE DEF S, L
  <2>3. Nat \subseteq S
    BY <2>1, <2>2, Induction
  <2> QED BY <2>3 DEF S, L
<1>6. a = [i \in 0 .. L |-> body(i, a[i - 1])]
  BY <1>5 DEF a, body, LoopedAt
<1> HIDE DEF a, L
<1>7. \A i \in 0 .. L : a[i] = body(i, a[i - 1])
  BY <1>6
<1>8. a = [i \in 0 .. L |-> a[i]]
  <2> DEFINE r == [i \in 0 .. L |-> body(i, a[i - 1])]
  <2>1. \A i \in 0 .. L : r[i] = a[i]
    BY <1>7
  <2> QED BY <1>6, <2>1
<1>9. L \in Nat /\ 0 \in 0 .. L /\ \A i \in 1 .. L : i \in 0 .. L
  BY DEF L
<1> QED BY <1>1, <1>2, <1>7, <1>8, <1>9 DEF L, body

\* A bloc of a loop that neither forks, goes on nor leaves.
Lost(g, m, after, b) == /\ g.exits[b].odd = nil /\ ~ Has(g.exits[b], m.blocs[1])
                       /\ ~ (after # nil /\ Has(g.exits[b], after))

LEMMA MergeLoopFacts ==
  ASSUME NEW g, Sane(g), Rooted(g), NEW p, NEW m, Grouped(g, p, m), Has(m.exits, m.blocs[1])
  PROVE  LET h == MergeLoop(g, m)
             after == Get(m.exits, ~ Which(m.exits, m.blocs[1]))
         IN  /\ Sane(h) /\ Rooted(h)
             /\ \/ h.error = g.error
                \/ h.error = Stuck /\ \E b \in ToSet(m.blocs) : Lost(g, m, after, b)
             /\ Contracted(g, h, m.blocs, m.exits)
<1> DEFINE head == m.blocs[1]
           after == Get(m.exits, ~ Which(m.exits, head))
           x == Exits(after, nil)
           k == [m EXCEPT !.exits = x]
           n == Len(m.blocs)
           for == InsertStmt(g, head, <<"for">>)
           y == << <<<<"}">>>> >>
           first == [g |-> for, issues |-> y]
           a == Looped(first, m, after)
           h == MergeSubgraph(a[n].g, k)
           E == IF \E b \in ToSet(m.blocs) : Lost(g, m, after, b) THEN {Stuck} ELSE {}
<1>1. MergeLoop(g, m) = h
  BY Zenon DEF MergeLoop, Looped
<1>2. g = [f \in Fields |-> g[f]]
  BY DEF Sane, Pooled
<1>3. m = [blocs |-> m.blocs, exits |-> m.exits] /\ n \in Nat
      /\ \A i \in 1 .. n : m.blocs[i] \in ToSet(m.blocs)
  <2>1. m = [blocs |-> m.blocs, exits |-> m.exits] /\ m.blocs \in Seq(Blocs(g))
    BY DEF Grouped
  <2> QED BY <2>1, ItemFacts
<1>4. k.blocs = m.blocs /\ k.exits = x
  <2> HIDE DEF x
  <2>1. k = [blocs |-> m.blocs, exits |-> x]
    BY <1>3
  <2> QED BY <2>1
<1>5. Mergeable(g, m.blocs, x)
  BY GroupedMergeable
<1> HIDE DEF k, x
<1>6. Kin(g, for) /\ for.error = g.error
  <2> DEFINE s == <<"for">>
  <2> HIDE DEF s, head
  <2>1. Kin(g, InsertStmt(g, head, s)) /\ InsertStmt(g, head, s).error = g.error
    BY <1>2, AppendKin
  <2> QED BY <2>1 DEF s
<1>7. a[0] = Pair(for, y) /\ \A i \in 1 .. n : a[i] = LoopBloc(a[i - 1], i, m, after)
  <2> HIDE DEF after, for, y
  <2>1. n \in Nat /\ first = Pair(for, y)
    BY <1>3 DEF Pair
  <2> HIDE DEF first
  <2>2. a[0] = first /\ \A i \in 1 .. n : a[i] = LoopedAt(first, m, after, i, a[i - 1])
    BY <2>1, LoopedRec
  <2> HIDE DEF a, n
  <2>3. ASSUME NEW i \in 1 .. n PROVE a[i] = LoopBloc(a[i - 1], i, m, after)
    <3>1. i # 0
      BY <2>1
    <3>2. a[i] = LoopedAt(first, m, after, i, a[i - 1])
      BY <2>2
    <3> QED BY <3>1, <3>2 DEF LoopedAt
  <2> QED BY <2>1, <2>2, <2>3
<1> HIDE DEF a, n, y, for, first
<1>8. /\ \A i \in 0 .. n : \E v, z : a[i] = Pair(v, z) /\ Kin(g, v) /\ v.error \in {g.error} \cup E
  <2> DEFINE P(r) == \E v, z : r = Pair(v, z) /\ Kin(g, v) /\ v.error \in {g.error} \cup E
             S == {i \in Nat : i <= n => P(a[i])}
  <2>1. 0 \in S
    <3>1. P(Pair(for, y))
      BY <1>6
    <3> HIDE DEF P
    <3> QED BY <3>1, <1>7
  <2>2. ASSUME NEW i \in Nat, i \in S PROVE i + 1 \in S
    <3> SUFFICES ASSUME i + 1 <= n PROVE P(a[i + 1])
      OBVIOUS
    <3>1. i + 1 \in 1 .. n /\ (i + 1) - 1 = i /\ P(a[i])
      BY <1>3, <2>2
    <3>2. PICK v, z : a[i] = Pair(v, z) /\ Kin(g, v) /\ v.error \in {g.error} \cup E
      BY <3>1
    <3> DEFINE j == i + 1   b == m.blocs[j]   r == LoopBloc(Pair(v, z), j, m, after)
               lost == /\ v.exits[b].odd = nil /\ ~ Has(v.exits[b], m.blocs[1])
                       /\ ~ (after # nil /\ Has(v.exits[b], after))
    <3>3. a[i + 1] = r
      BY <1>7, <3>1, <3>2
    <3>4. \E w, t : r = Pair(w, t) /\ Kin(v, w) /\ w.error = IF lost THEN Stuck ELSE v.error
      <4>1. v = [f \in Fields |-> v[f]]
        BY <3>2, KinFields
      <4> HIDE DEF j, after
      <4> QED BY <4>1, LoopBlocKin
    <3>5. lost => Stuck \in E
      <4>1. v.exits = g.exits
        BY <3>2 DEF Kin, Alike, Fields
      <4>2. b \in ToSet(m.blocs)
        BY <1>3, <3>1
      <4>3. lost => Lost(g, m, after, b)
        BY <4>1 DEF Lost
      <4> HIDE DEF lost, after, b
      <4> QED BY <4>2, <4>3
    <3> HIDE DEF r, lost, E
    <3>6. PICK w, t : r = Pair(w, t) /\ Kin(v, w) /\ w.error = IF lost THEN Stuck ELSE v.error
      BY <3>4
    <3>7. Kin(g, w)
      BY <3>2, <3>6, KinTrans
    <3>8. w.error \in {g.error} \cup E
      BY <3>2, <3>5, <3>6
    <3> QED BY <3>3, <3>6, <3>7, <3>8
  <2> HIDE DEF S, P
  <2>3. Nat \subseteq S
    BY <2>1, <2>2, Induction
  <2>4. ASSUME NEW i \in 0 .. n PROVE P(a[i])
    <3>1. i \in Nat /\ i <= n
      BY <1>3
    <3> QED BY <3>1, <2>3 DEF S
  <2> QED BY <2>4 DEF P
<1>9. PICK v, z : a[n] = Pair(v, z) /\ Kin(g, v) /\ v.error \in {g.error} \cup E
  <2>1. n \in 0 .. n
    BY <1>3
  <2> HIDE DEF E
  <2> QED BY <1>8, <2>1
<1>10. h = MergeSubgraph(v, k)
  BY <1>9, PairFacts
<1> HIDE DEF h
<1>11. /\ Sane(v) /\ Rooted(v) /\ Blocs(v) = Blocs(g) /\ v.exits = g.exits
       /\ Mergeable(v, k.blocs, k.exits)
  <2> DEFINE bs == m.blocs
  <2>1. Mergeable(g, bs, x)
    BY <1>5
  <2> HIDE DEF bs
  <2>2. Sane(v) /\ Rooted(v) /\ Blocs(v) = Blocs(g) /\ v.exits = g.exits /\ Mergeable(v, bs, x)
    BY <2>1, <1>9, KinSane
  <2> QED BY <2>2, <1>4 DEF bs
<1>12. Sane(h) /\ Rooted(h) /\ h.error = v.error /\ Contracted(v, h, k.blocs, k.exits)
  BY <1>10, <1>11, MergeFacts
<1>13. \/ h.error = g.error
       \/ h.error = Stuck /\ \E b \in ToSet(m.blocs) : Lost(g, m, after, b)
  <2> HIDE DEF after
  <2> QED BY <1>9, <1>12
<1>14. Contracted(g, h, m.blocs, m.exits)
  <2>1. Contracted(v, h, m.blocs, x)
    BY <1>4, <1>12
  <2>2. Targets(x) \subseteq Targets(m.exits)
    BY DEF x, Targets, Exits, Get
  <2> QED BY <1>11, <2>1, <2>2 DEF Contracted, Succ
<1> QED BY <1>1, <1>12, <1>13, <1>14

\* A finite set as a sequence.
LEMMA SetToSeqFacts ==
  ASSUME NEW R, IsFiniteSet(R)
  PROVE  /\ SetToSeq(R) \in Seq(R) /\ ToSet(SetToSeq(R)) = R /\ IsInjective(SetToSeq(R))
         /\ Len(SetToSeq(R)) = Cardinality(R)
<1> DEFINE n == Cardinality(R)   s == SetToSeq(R)
<1>1. n \in Nat /\ ExistsBijection(1 .. n, R)
  BY FS_CardinalityType
<1>2. \E f \in [1 .. n -> R] : IsInjective(f)
  <2>1. PICK f \in Bijection(1 .. n, R) : TRUE
    BY <1>1 DEF ExistsBijection
  <2>2. f \in [1 .. n -> R] /\ IsInjective(f)
    BY <2>1 DEF Bijection, Injection, IsInjective
  <2> QED BY <2>2
<1>3. s \in [1 .. n -> R] /\ IsInjective(s)
  BY <1>2 DEF SetToSeq
<1> HIDE DEF s
<1>4. s \in Injection(1 .. n, R)
  BY <1>3 DEF Injection, IsInjective
<1>5. s \in Surjection(1 .. n, R)
  <2>1. Cardinality(1 .. n) = n
    BY <1>1, FS_Interval
  <2>2. Cardinality(1 .. n) = Cardinality(R)
    BY <2>1
  <2> HIDE DEF n
  <2> QED BY <1>4, <2>2, FS_Injection
<1>6. s \in Seq(R) /\ DOMAIN s = 1 .. n /\ Len(s) = n
  BY <1>1, <1>3
<1>7. ToSet(s) = R
  <2>1. ToSet(s) = {s[i] : i \in 1 .. n}
    BY <1>6 DEF ToSet
  <2>2. \A r \in R : \E i \in 1 .. n : s[i] = r
    BY <1>5 DEF Surjection
  <2>3. \A i \in 1 .. n : s[i] \in R
    BY <1>3
  <2> QED BY <2>1, <2>2, <2>3
<1> QED BY <1>3, <1>6, <1>7 DEF s

\* k is h but for bloc b, that may have lost exits to u for an exit to n.
Sending(h, k, b, u, n) ==
  /\ Sane(k) /\ Blocs(k) = Blocs(h) /\ k.error = h.error
  /\ \A c \in Blocs(h) \ {b} : k.exits[c] = h.exits[c]
  /\ Succ(h, b) \subseteq Succ(k, b) \cup u
  /\ Succ(k, b) \subseteq Succ(h, b) \cup {n}
  /\ Succ(k, b) = Succ(h, b) \/ (n \in Succ(k, b) /\ Succ(h, b) \cap u # {})
  /\ n \in Succ(h, b) => n \in Succ(k, b)
  /\ Succ(h, b) \cap u # {} => n \in Succ(k, b)

LEMMA ShiftFacts ==
  ASSUME NEW y, NEW x, y.nat = nil => y.odd = nil, x.nat # nil, x.odd # nil
  PROVE  LET cex == Common(y, x)
             choice == Which(y, cex)
             inverted == Xor(Which(x, cex), choice)
             u == Targets(x)
         IN  /\ choice \in BOOLEAN
             /\ cex = nil => Targets(y) \cap u = {}
             /\ cex # nil => Targets(y) \cap u # {}
             /\ cex # nil /\ Get(y, ~ choice) = Get(x, ~ Xor(inverted, choice))
                  => Targets(y) \subseteq u
             /\ cex # nil => (choice => y.nat # nil) /\ Get(y, choice) = cex /\ cex \in u
BY DEF Common, Which, Xor, Targets, Get, Has

LEMMA FunnelBlocFacts ==
  ASSUME NEW h, Sane(h), NEW b \in Blocs(h), NEW n \in Blocs(h), NEW v,
         NEW x \in ExitsTo(Blocs(h)), x.nat # nil, x.odd # nil, n \notin Targets(x)
  PROVE  Sending(h, FunnelBloc(h, b, x, v, n), b, Targets(x), n)
<1> DEFINE B == Blocs(h)
           y == h.exits[b]
           cex == Common(y, x)
           choice == Which(y, cex)
           inverted == Xor(Which(x, cex), choice)
           dual == Get(y, ~ choice) = Get(x, ~ Xor(inverted, choice))
           straight == Has(y, nil)
           s == <<"source", v, b>>
           with(f, r) == [t \in DOMAIN f \union {s} |-> IF t = s THEN r ELSE f[t]]
           r1 == with(h.source, [prev |-> IF straight THEN <<>> ELSE Last(h.stmts[b]), var |-> v])
           r2 == with(h.term, [term |-> lcc, inv |-> IF straight THEN Xor(inverted, choice)
                                                          ELSE inverted])
           p == [AppendStmt(h, b, s) EXCEPT !.source = r1, !.term = r2]
           k == FunnelBloc(h, b, x, v, n)
<1>1. h = [f \in Fields |-> h[f]] /\ h.exits \in [B -> ExitsTo(B)] /\ nil \notin B
      /\ (y.nat = nil => y.odd = nil)
  BY PoolFacts DEF Sane, Pooled, Linked
<1>2. k = IF cex = nil THEN h
          ELSE IF dual THEN SetExits(CondTerm(h, b, v, inverted), b, Exits(n, nil))
          ELSE SetExit(p, b, choice, n)
  <2> DEFINE a == AppendStmt(h, b, s)
  <2>1. a.source = h.source /\ a.term = h.term
    BY <1>1 DEF AppendStmt, Fields
  <2>2. k = IF cex = nil THEN h
          ELSE IF dual THEN SetExits(CondTerm(h, b, v, inverted), b, Exits(n, nil))
          ELSE SetExit([a EXCEPT
                    !.source = with(@, [prev |-> IF straight THEN <<>> ELSE Last(h.stmts[b]),
                                        var |-> v]),
                    !.term = with(@, [term |-> lcc, inv |-> IF straight THEN Xor(inverted, choice)
                                                          ELSE inverted])],
                 b, choice, n)
    BY Zenon DEF FunnelBloc
  <2> HIDE DEF a, k, cex, dual, inverted, choice, straight
  <2> QED BY <2>1, <2>2 DEF a
<1>3. /\ choice \in BOOLEAN
      /\ cex = nil => Targets(y) \cap Targets(x) = {}
      /\ cex # nil => Targets(y) \cap Targets(x) # {}
      /\ cex # nil /\ dual => Targets(y) \subseteq Targets(x)
      /\ cex # nil => (choice => y.nat # nil) /\ Get(y, choice) = cex /\ cex \in Targets(x)
  <2> HIDE DEF y
  <2> QED BY <1>1, ShiftFacts
<1> SUFFICES Sending(h, k, b, Targets(x), n)
  OBVIOUS
<1> HIDE DEF k
<1>4. CASE cex = nil
  <2>1. k = h
    BY <1>2, <1>4
  <2>2. Succ(h, b) \cap Targets(x) = {}
    BY <1>3, <1>4 DEF Succ
  <2> HIDE DEF cex, dual, y
  <2>3. Sending(h, h, b, Targets(x), n)
    BY <2>2 DEF Sending
  <2> QED BY <2>1, <2>3
<1> DEFINE inv == inverted   alt == choice
<1> HIDE DEF inv, alt
<1>5. CASE cex # nil /\ dual
  <2> DEFINE q == CondTerm(h, b, v, inv)   z == Exits(n, nil)
  <2>1. k = SetExits(q, b, z)
    <3> HIDE DEF cex, dual, inverted
    <3>1. k = SetExits(CondTerm(h, b, v, inverted), b, z)
      BY <1>2, <1>5
    <3> QED BY <3>1 DEF inv
  <2>2. Kin(h, q) /\ q.error = h.error
    BY <1>1, CondKin
  <2> HIDE DEF q
  <2>3. Sane(q) /\ Blocs(q) = B /\ q.exits = h.exits
    BY <2>2, KinSame
  <2>4. z \in ExitsTo(B) /\ z.nat = n /\ z.odd = nil /\ Targets(z) = {n}
    BY <1>1 DEF ExitsTo, Exits, Targets
  <2> HIDE DEF z
  <2>5. /\ Sane(k) /\ Blocs(k) = Blocs(q) /\ Alike(q, k, {"exits", "prevcount"})
        /\ k.exits = [q.exits EXCEPT ![b] = z]
    <3>1. b \in Blocs(q) /\ z \in ExitsTo(Blocs(q)) /\ (z.nat = nil => z.odd = nil)
      BY <2>3, <2>4
    <3> HIDE DEF y
    <3> QED BY <2>1, <2>3, <3>1, SetExitsFacts
  <2>6. k.error = h.error
    BY <2>2, <2>5 DEF Alike, Fields
  <2>7. k.exits[b] = z /\ \A c \in B \ {b} : k.exits[c] = h.exits[c]
    BY <1>1, <2>3, <2>5
  <2>8. Succ(k, b) = {n} /\ Succ(h, b) \subseteq Targets(x) /\ Succ(h, b) \cap Targets(x) # {}
    BY <1>3, <1>5, <2>4, <2>7 DEF Succ
  <2> QED BY <2>3, <2>5, <2>6, <2>7, <2>8 DEF Sending
<1>6. CASE cex # nil /\ ~ dual
  <2>1. k = SetExit(p, b, alt, n)
    <3> HIDE DEF cex, dual, p, choice
    <3>1. k = SetExit(p, b, choice, n)
      BY <1>2, <1>6
    <3> QED BY <3>1 DEF alt
  <2>2. Kin(h, p) /\ p.error = h.error
    <3> DEFINE a == AppendStmt(h, b, s)
    <3> HIDE DEF s, r1, r2
    <3>1. Kin(h, a) /\ a.error = h.error
      BY <1>1, AppendKin
    <3> HIDE DEF a
    <3>2. a = [f \in Fields |-> a[f]]
      BY <3>1, KinFields
    <3>3. Kin(a, p) /\ p.error = a.error
      <4>1. p = [a EXCEPT !.source = r1, !.term = r2]
        BY DEF a
      <4> HIDE DEF p
      <4>2. p = [f \in Fields |-> p[f]] /\ \A f \in Fields \ {"source", "term"} : p[f] = a[f]
        BY <4>1, <3>2 DEF Fields
      <4> QED BY <4>2 DEF Kin, Alike, Fields
    <3> HIDE DEF p
    <3> QED BY <3>1, <3>3, KinTrans
  <2> HIDE DEF p
  <2>3. Sane(p) /\ Blocs(p) = B /\ p.exits = h.exits
    BY <2>2, KinSame
  <2>4. alt \in BOOLEAN /\ (alt => y.nat # nil) /\ Get(y, alt) = cex /\ cex \in Targets(x)
    BY <1>3, <1>6 DEF alt
  <2> DEFINE z == Put(y, alt, n)
  <2>5. /\ Sane(k) /\ Blocs(k) = Blocs(p) /\ Alike(p, k, {"exits", "prevcount"})
        /\ k.exits = [p.exits EXCEPT ![b] = z]
    <3>1. b \in Blocs(p) /\ n \in Blocs(p) /\ (alt => p.exits[b].nat # nil)
      BY <2>3, <2>4
    <3>2. /\ Sane(k) /\ Blocs(k) = Blocs(p) /\ Alike(p, k, {"exits", "prevcount"})
          /\ k.exits = [p.exits EXCEPT ![b] = Put(@, alt, n)]
      <4> HIDE DEF cex, y
      <4> QED BY <2>1, <2>3, <2>4, <3>1, SetExitFacts
    <3> QED BY <2>3, <3>2
  <2>6. k.error = h.error
    BY <2>2, <2>5 DEF Alike, Fields
  <2>7. k.exits[b] = z /\ \A c \in B \ {b} : k.exits[c] = h.exits[c]
    <3> HIDE DEF z
    <3> QED BY <1>1, <2>3, <2>5
  <2>8. n \in Targets(z) /\ Targets(y) \subseteq Targets(z) \cup {cex}
        /\ Targets(z) \subseteq Targets(y) \cup {n}
    <3>1. n # nil
      BY <1>1
    <3>2. y \in ExitsTo(B)
      BY <1>1
    <3>3. z.nat = (IF alt THEN y.nat ELSE n) /\ z.odd = (IF alt THEN n ELSE y.odd)
      BY <2>4, <3>2 DEF Put, ExitsTo
    <3> HIDE DEF z, y, cex
    <3> QED BY <2>4, <3>1, <3>3 DEF Targets, Get
  <2>9. n \in Succ(k, b) /\ Succ(h, b) \subseteq Succ(k, b) \cup Targets(x)
        /\ Succ(k, b) \subseteq Succ(h, b) \cup {n} /\ Succ(h, b) \cap Targets(x) # {}
    <3> HIDE DEF z, cex
    <3> QED BY <1>3, <1>6, <2>4, <2>7, <2>8 DEF Succ
  <2> QED BY <2>3, <2>5, <2>6, <2>7, <2>9 DEF Sending
<1> HIDE DEF cex, dual
<1> QED BY <1>4, <1>5, <1>6

\* The blocs of order are sent to a funnel.
SendsAt(made, order, ex, fv, funnel, i, v) == IF i = 0 THEN made ELSE FunnelBloc(v, order[i], ex, fv, funnel)
Sends(made, order, ex, fv, funnel) ==
  LET sent[i \in 0 .. Len(order)] ==
    IF i = 0 THEN made
    ELSE FunnelBloc(sent[i - 1], order[i], ex, fv, funnel)
  IN sent

LEMMA SendsRec ==
  ASSUME NEW made, NEW order, NEW ex, NEW fv, NEW funnel, Len(order) \in Nat
  PROVE  /\ Sends(made, order, ex, fv, funnel) = [i \in 0 .. Len(order) |-> Sends(made, order, ex, fv, funnel)[i]]
         /\ Sends(made, order, ex, fv, funnel)[0] = made
         /\ \A i \in 1 .. Len(order) : Sends(made, order, ex, fv, funnel)[i] = SendsAt(made, order, ex, fv, funnel, i, Sends(made, order, ex, fv, funnel)[i - 1])
<1> DEFINE body(i, v) == SendsAt(made, order, ex, fv, funnel, i, v)
           L == Len(order)
           sent[i \in 0 .. Len(order)] ==
             IF i = 0 THEN made
    ELSE FunnelBloc(sent[i - 1], order[i], ex, fv, funnel)
           is(h, k) == h = [i \in 0 .. k |-> body(i, h[i - 1])]
<1>1. Sends(made, order, ex, fv, funnel) = sent
  BY DEF Sends
<1>2. (\A x, y : body(0, x) = body(0, y)) /\ \A x : body(0, x) = made
  BY DEF SendsAt
<1> HIDE DEF body
<1>3. \E h : is(h, 0)
  <2> DEFINE h == [i \in 0 .. 0 |-> body(0, 0)]
  <2>1. h[0] = body(0, h[0 - 1])
    BY <1>2
  <2>2. \A i \in 0 .. 0 : h[i] = body(i, h[i - 1])
    BY <2>1
  <2>3. h = [i \in 0 .. 0 |-> h[i]]
    OBVIOUS
  <2> HIDE DEF h
  <2>4. is(h, 0)
    BY <2>2, <2>3
  <2> QED BY <2>4
<1>4. ASSUME NEW k \in Nat, NEW e, is(e, k) PROVE \E h : is(h, k + 1)
  <2> DEFINE h == [i \in 0 .. k + 1 |-> IF i = k + 1 THEN body(k + 1, e[k]) ELSE e[i]]
  <2>1. \A i \in 0 .. k : h[i] = e[i]
    OBVIOUS
  <2>2. h[k + 1] = body(k + 1, h[k])
    BY <2>1
  <2>3. ASSUME NEW i \in 0 .. k + 1 PROVE h[i] = body(i, h[i - 1])
    <3>1. CASE i = k + 1
      BY <3>1, <2>2
    <3>2. CASE i = 0
      <4>1. h[0] = body(0, e[0 - 1])
        BY <1>4, <2>1
      <4> QED BY <4>1, <3>2, <1>2
    <3>3. CASE i \in 1 .. k
      <4>1. i \in 0 .. k /\ i - 1 \in 0 .. k
        BY <3>3
      <4>2. e[i] = body(i, e[i - 1])
        BY <4>1, <1>4
      <4> QED BY <4>1, <4>2, <2>1
    <3> QED BY <3>1, <3>2, <3>3
  <2>4. h = [i \in 0 .. k + 1 |-> h[i]]
    OBVIOUS
  <2> HIDE DEF h
  <2>5. is(h, k + 1)
    BY <2>3, <2>4
  <2> QED BY <2>5
<1>5. PICK e : is(e, L)
  <2> DEFINE S == {k \in Nat : \E h : is(h, k)}
  <2> HIDE DEF is
  <2>1. 0 \in S
    BY <1>3
  <2>2. ASSUME NEW k \in Nat, k \in S PROVE k + 1 \in S
    BY <2>2, <1>4
  <2> HIDE DEF S, L
  <2>3. Nat \subseteq S
    BY <2>1, <2>2, Induction
  <2> QED BY <2>3 DEF S, L
<1>6. sent = [i \in 0 .. L |-> body(i, sent[i - 1])]
  BY <1>5 DEF sent, body, SendsAt
<1> HIDE DEF sent, L
<1>7. \A i \in 0 .. L : sent[i] = body(i, sent[i - 1])
  BY <1>6
<1>8. sent = [i \in 0 .. L |-> sent[i]]
  <2> DEFINE r == [i \in 0 .. L |-> body(i, sent[i - 1])]
  <2>1. \A i \in 0 .. L : r[i] = sent[i]
    BY <1>7
  <2> QED BY <1>6, <2>1
<1>9. L \in Nat /\ 0 \in 0 .. L /\ \A i \in 1 .. L : i \in 0 .. L
  BY DEF L
<1> QED BY <1>1, <1>2, <1>7, <1>8, <1>9 DEF L, body

\* What the blocs of a part are, once k of them are sent to funnel n with exits x.
Emptied(g, h, n, x, D) ==
  /\ Sane(h) /\ Blocs(h) = Blocs(g) \cup {n} /\ h.error = g.error /\ Succ(h, n) = Targets(x)
  /\ \A b \in Blocs(g) :
       /\ Succ(g, b) \subseteq Succ(h, b) \cup Targets(x)
       /\ Succ(h, b) \subseteq Succ(g, b) \cup {n}
       /\ Succ(h, b) = Succ(g, b) \/ (n \in Succ(h, b) /\ b \in D)
       /\ b \in D /\ Succ(g, b) \cap Targets(x) # {} => n \in Succ(h, b)

LEMMA SentOne ==
  ASSUME NEW g, NEW h, NEW k, NEW n, n \notin Blocs(g), NEW x, Targets(x) \subseteq Blocs(g),
         NEW D, NEW b \in Blocs(g), Emptied(g, h, n, x, D), Sending(h, k, b, Targets(x), n)
  PROVE  Emptied(g, k, n, x, D \cup {b})
<1> DEFINE u == Targets(x)
<1>1. Sane(k) /\ Blocs(k) = Blocs(g) \cup {n} /\ k.error = g.error
  BY DEF Emptied, Sending
<1>2. \A c \in Blocs(h) \ {b} : Succ(k, c) = Succ(h, c)
  BY DEF Sending, Succ
<1>3. Succ(k, n) = u
  BY <1>2 DEF Emptied
<1>4. ASSUME NEW c \in Blocs(g)
      PROVE /\ Succ(g, c) \subseteq Succ(k, c) \cup u
            /\ Succ(k, c) \subseteq Succ(g, c) \cup {n}
            /\ Succ(k, c) = Succ(g, c) \/ (n \in Succ(k, c) /\ c \in D \cup {b})
            /\ c \in D \cup {b} /\ Succ(g, c) \cap u # {} => n \in Succ(k, c)
  <2>1. CASE c # b
    BY <1>2, <2>1 DEF Emptied
  <2>2. CASE c = b
    <3>1. /\ Succ(g, c) \subseteq Succ(h, c) \cup u /\ Succ(h, c) \subseteq Succ(g, c) \cup {n}
          /\ Succ(h, c) = Succ(g, c) \/ n \in Succ(h, c)
      BY DEF Emptied
    <3>2. /\ Succ(h, b) \subseteq Succ(k, b) \cup u /\ Succ(k, b) \subseteq Succ(h, b) \cup {n}
          /\ Succ(k, b) = Succ(h, b) \/ n \in Succ(k, b)
          /\ n \in Succ(h, b) => n \in Succ(k, b)
          /\ Succ(h, b) \cap u # {} => n \in Succ(k, b)
      BY DEF Sending
    <3> HIDE DEF u
    <3> QED BY <2>2, <3>1, <3>2
  <2> QED BY <2>1, <2>2
<1> QED BY <1>1, <1>3, <1>4 DEF Emptied

LEMMA FunnelFacts ==
  ASSUME NEW g, Sane(g), Rooted(g), NEW R \in SUBSET Blocs(g),
         NEW e \in PartExits(g, R), NEW f \in PartExits(g, R)
  PROVE  LET h == Funnel(g, R, Exits(e, f))
         IN  /\ Sane(h) /\ Rooted(h) /\ h.error = g.error
             /\ g.fresh \notin Blocs(g) /\ Blocs(h) = Blocs(g) \cup {g.fresh}
             /\ Succ(h, g.fresh) = {e, f}
             /\ \A b \in Blocs(g) : /\ Succ(h, b) \subseteq Succ(g, b) \cup {g.fresh}
                                    /\ b \notin R => Succ(h, b) = Succ(g, b)
<1> DEFINE x == Exits(e, f)   v == g.vars + 1   n == g.fresh   B == Blocs(g)   C == B \cup {n}
           a == [g EXCEPT !.vars = v]   ss == << <<"sink", v>> >>
           z == NewBloc(a, ss)
           made == SetExits(z, n, x)
           order == SetToSeq(R)
           L == Len(order)
           sent == Sends(made, order, x, v, n)
           h == sent[L]
<1>1. Funnel(g, R, x) = h
  BY Zenon DEF Funnel, Sends
<1>2. /\ g = [y \in Fields |-> g[y]] /\ g.exits \in [B -> ExitsTo(B)] /\ nil \notin B
      /\ \A b \in B : Succ(g, b) \subseteq B
  <2>1. /\ g = [y \in Fields |-> g[y]] /\ g.exits \in [B -> ExitsTo(B)] /\ nil \notin B
    BY PoolFacts DEF Sane, Pooled, Linked
  <2> QED BY <2>1 DEF Succ, ExitsTo, Targets
<1>3. e \in B /\ f \in B /\ e # nil /\ f # nil /\ \E b \in R : e \in Succ(g, b)
  <2>1. e \in UNION {Succ(g, b) : b \in R} /\ f \in UNION {Succ(g, b) : b \in R}
    BY DEF PartExits
  <2> QED BY <2>1, <1>2
<1>4. x.nat = e /\ x.odd = f /\ Targets(x) = {e, f}
  BY <1>3 DEF Exits, Targets
<1>5. Kin(g, a) /\ a.error = g.error
  <2> HIDE DEF v
  <2>1. a = [y \in Fields |-> a[y]] /\ \A y \in Fields \ {"vars"} : a[y] = g[y]
    BY <1>2 DEF Fields
  <2> HIDE DEF a
  <2> QED BY <2>1 DEF Kin, Alike, Fields
<1> HIDE DEF a, ss, v
<1>6. Sane(a) /\ Blocs(a) = B /\ a.exits = g.exits /\ a.fresh = n
  BY <1>5, KinSame
<1>7. /\ Sane(z) /\ n \notin B /\ Blocs(z) = C /\ z.error = g.error
      /\ \A b \in B : z.exits[b] = g.exits[b]
  <2>1. /\ Sane(z) /\ a.fresh \notin Blocs(a) /\ Blocs(z) = Blocs(a) \cup {a.fresh}
        /\ Alike(a, z, {"pool", "exits", "prevcount", "stmts", "fresh"})
        /\ \A b \in Blocs(a) : z.exits[b] = a.exits[b]
    BY <1>6, NewBlocFacts
  <2>2. z.error = a.error
    BY <2>1 DEF Alike, Fields
  <2> QED BY <1>5, <1>6, <2>1, <2>2
<1> HIDE DEF z
<1>8. x \in ExitsTo(C) /\ x.nat # nil /\ x.odd # nil /\ n \notin Targets(x)
      /\ Targets(x) \subseteq B /\ n # nil
  <2>1. x \in ExitsTo(C)
    BY <1>3 DEF Exits, ExitsTo
  <2>2. n # nil
    BY <1>6, NewBlocFacts
  <2> QED BY <2>1, <2>2, <1>3, <1>4, <1>7
<1>9. /\ Sane(made) /\ Blocs(made) = C /\ made.error = g.error
      /\ made.exits[n] = x /\ \A b \in B : made.exits[b] = g.exits[b]
  <2> HIDE DEF x
  <2>1. /\ Sane(made) /\ Blocs(made) = Blocs(z) /\ Alike(z, made, {"exits", "prevcount"})
        /\ made.exits = [z.exits EXCEPT ![n] = x]
    <3>1. n \in Blocs(z) /\ x \in ExitsTo(Blocs(z)) /\ (x.nat = nil => x.odd = nil)
      BY <1>7, <1>8
    <3>2. Sane(z)
      BY <1>7
    <3>3. made = SetExits(z, n, x)
      BY Zenon
    <3> HIDE DEF n, made
    <3> QED BY <3>1, <3>2, <3>3, SetExitsFacts
  <2>2. made.error = z.error
    BY <2>1 DEF Alike, Fields
  <2>3. z.exits \in [C -> ExitsTo(C)]
    BY <1>7 DEF Sane, Linked
  <2> HIDE DEF made
  <2> QED BY <1>7, <2>1, <2>2, <2>3
<1> HIDE DEF made
<1>10. order \in Seq(R) /\ ToSet(order) = R
  <2>1. IsFiniteSet(R)
    <3>1. IsFiniteSet(B)
      BY PoolFacts DEF Sane
    <3> QED BY <3>1, FS_Subset
  <2> QED BY <2>1, SetToSeqFacts
<1> HIDE DEF order
<1>11. L \in Nat /\ (\A i \in 1 .. L : order[i] \in R) /\ \A b \in R : \E i \in 1 .. L : order[i] = b
  BY <1>10, ItemFacts
<1>12. sent[0] = made /\ \A i \in 1 .. L : sent[i] = FunnelBloc(sent[i - 1], order[i], x, v, n)
  <2> HIDE DEF x, n
  <2>1. sent[0] = made /\ \A i \in 1 .. L : sent[i] = SendsAt(made, order, x, v, n, i, sent[i - 1])
    BY <1>11, SendsRec
  <2> HIDE DEF sent, L
  <2>2. \A i \in 1 .. L : i # 0
    BY <1>11
  <2> QED BY <2>1, <2>2 DEF SendsAt
<1> DEFINE D(i) == {order[j] : j \in 1 .. i}
           P(i) == Emptied(g, sent[i], n, x, D(i))
           S == {i \in Nat : i <= L => P(i)}
<1> HIDE DEF sent, L, x
<1>13. 0 \in S
  <2>1. \A b \in B : Succ(made, b) = Succ(g, b) /\ b \notin D(0)
    BY <1>9 DEF Succ
  <2>2. Succ(made, n) = Targets(x)
    BY <1>9 DEF Succ
  <2>3. Emptied(g, made, n, x, D(0))
    <3> HIDE DEF D, n
    <3>1. ASSUME NEW b \in B
          PROVE  /\ Succ(g, b) \subseteq Succ(made, b) \cup Targets(x)
                 /\ Succ(made, b) \subseteq Succ(g, b) \cup {n}
                 /\ Succ(made, b) = Succ(g, b) /\ b \notin D(0)
      BY <2>1
    <3> QED BY <1>9, <2>2, <3>1 DEF Emptied
  <2> QED BY <2>3, <1>12
<1>14. ASSUME NEW i \in Nat, i \in S PROVE i + 1 \in S
  <2> SUFFICES ASSUME i + 1 <= L PROVE P(i + 1)
    OBVIOUS
  <2>1. i + 1 \in 1 .. L /\ (i + 1) - 1 = i /\ P(i)
    BY <1>11, <1>14
  <2> DEFINE d == sent[i]   k == sent[i + 1]   b == order[i + 1]   G == D(i)
  <2>2. k = FunnelBloc(d, b, x, v, n) /\ b \in B
    BY <1>11, <1>12, <2>1
  <2>3. Emptied(g, d, n, x, G)
    BY <2>1
  <2>4. D(i + 1) = G \cup {b}
    <3>1. \A j \in 1 .. i + 1 : j = i + 1 \/ j \in 1 .. i
      OBVIOUS
    <3>2. i + 1 \in 1 .. i + 1 /\ \A j \in 1 .. i : j \in 1 .. i + 1
      OBVIOUS
    <3> QED BY <3>1, <3>2
  <2> HIDE DEF d, k, b, G, D
  <2>5. Sane(d) /\ Blocs(d) = C
    BY <2>3 DEF Emptied
  <2>6. Sending(d, k, b, Targets(x), n)
    <3>1. b \in Blocs(d) /\ n \in Blocs(d) /\ x \in ExitsTo(Blocs(d))
      BY <1>8, <2>2, <2>5
    <3> HIDE DEF n
    <3> QED BY <1>8, <2>2, <2>5, <3>1, FunnelBlocFacts
  <2>7. Emptied(g, k, n, x, G \cup {b})
    <3>1. n \notin Blocs(g) /\ Targets(x) \subseteq Blocs(g) /\ b \in Blocs(g)
      BY <1>7, <1>8, <2>2
    <3> HIDE DEF n
    <3> QED BY <2>3, <2>6, <3>1, SentOne
  <2> QED BY <2>4, <2>7 DEF k
<1>15. Emptied(g, h, n, x, D(L))
  <2> HIDE DEF S, P
  <2>1. Nat \subseteq S
    BY <1>13, <1>14, Induction
  <2>2. P(L)
    BY <2>1, <1>11 DEF S
  <2> HIDE DEF D
  <2> QED BY <2>2 DEF P
<1>16. R = D(L)
  BY <1>11
<1> HIDE DEF h, D
<1>17. Rooted(h)
  <2>1. Blocs(h) = C /\ Succ(h, n) = {e, f}
    BY <1>4, <1>15 DEF Emptied
  <2>2. \A b \in B : /\ Succ(g, b) \subseteq Succ(h, b) \cup {e, f}
                     /\ Succ(h, b) = Succ(g, b) \/ n \in Succ(h, b)
                     /\ b \in R /\ Succ(g, b) \cap {e, f} # {} => n \in Succ(h, b)
    <3> HIDE DEF n, B
    <3> QED BY <1>4, <1>15, <1>16 DEF Emptied, B
  <2>3. SUFFICES ASSUME NEW S0 \in SUBSET C, entry_bloc \in S0, \A b \in S0 : Succ(h, b) \subseteq S0
                 PROVE  S0 = C
    BY <2>1 DEF Rooted
  <2> HIDE DEF n
  <2>4. entry_bloc \in B
    BY PoolFacts DEF Sane
  <2>5. n \in S0
    <3>1. SUFFICES ASSUME n \notin S0 PROVE FALSE
      OBVIOUS
    <3>2. S0 \in SUBSET B /\ \A b \in S0 : Succ(g, b) = Succ(h, b)
      BY <3>1, <2>2, <2>3
    <3>3. \A b \in S0 : Succ(g, b) \subseteq S0
      BY <3>2, <2>3
    <3>4. S0 = B
      BY <3>2, <3>3, <2>3 DEF Rooted
    <3>5. PICK b \in R : e \in Succ(g, b)
      BY <1>3
    <3>6. n \in Succ(h, b) /\ b \in S0
      BY <2>2, <3>4, <3>5
    <3> QED BY <3>1, <3>6, <2>3
  <2>6. {e, f} \subseteq S0
    BY <2>1, <2>3, <2>5
  <2> DEFINE T == S0 \ {n}
  <2>7. T \in SUBSET B /\ entry_bloc \in T
    BY <2>3, <2>4, <1>7
  <2>8. ASSUME NEW b \in T PROVE Succ(g, b) \subseteq T
    <3>1. Succ(g, b) \subseteq Succ(h, b) \cup {e, f}
      BY <2>2, <2>7
    <3>2. Succ(h, b) \subseteq S0 /\ Succ(g, b) \subseteq B
      BY <2>3, <1>2, <2>7
    <3> QED BY <3>1, <3>2, <2>6, <1>7
  <2>9. T = B
    <3> HIDE DEF T
    <3> QED BY <2>7, <2>8 DEF Rooted
  <2> QED BY <2>3, <2>5, <2>9
<1>18. \A b \in B : /\ Succ(h, b) \subseteq Succ(g, b) \cup {n}
                     /\ b \notin R => Succ(h, b) = Succ(g, b)
  BY <1>15, <1>16 DEF Emptied
<1> QED BY <1>1, <1>4, <1>7, <1>15, <1>17, <1>18 DEF Emptied, x

\* What is reached in i steps.
ReachAt(g, from, avoid, i, v) == IF i = 0 THEN from ELSE (v \union ((UNION {Succ(g, b) : b \in v}) \ avoid))
Reach(g, from, avoid) ==
  LET reach[i \in Nat] == IF i = 0 THEN from ELSE (reach[i - 1] \union ((UNION {Succ(g, b) : b \in reach[i - 1]}) \ avoid))
  IN reach

LEMMA ReachRec ==
  ASSUME NEW g, NEW from, NEW avoid
  PROVE  /\ Reach(g, from, avoid)[0] = from
         /\ \A i \in Nat : Reach(g, from, avoid)[i + 1] = ReachAt(g, from, avoid, i + 1, Reach(g, from, avoid)[i])
<1> DEFINE body(i, v) == ReachAt(g, from, avoid, i, v)
           reach[i \in Nat] == IF i = 0 THEN from ELSE (reach[i - 1] \union ((UNION {Succ(g, b) : b \in reach[i - 1]}) \ avoid))
           is(h, k) == h = [i \in 0 .. k |-> body(i, h[i - 1])]
<1>1. Reach(g, from, avoid) = reach
  BY DEF Reach
<1>2. (\A x, y : body(0, x) = body(0, y)) /\ \A x : body(0, x) = from
  BY DEF ReachAt
<1> HIDE DEF body
<1>3. \E h : is(h, 0)
  <2> DEFINE h == [i \in 0 .. 0 |-> body(0, 0)]
  <2>1. h[0] = body(0, h[0 - 1])
    BY <1>2
  <2>2. \A i \in 0 .. 0 : h[i] = body(i, h[i - 1])
    BY <2>1
  <2>3. h = [i \in 0 .. 0 |-> h[i]]
    OBVIOUS
  <2> HIDE DEF h
  <2>4. is(h, 0)
    BY <2>2, <2>3
  <2> QED BY <2>4
<1>4. ASSUME NEW k \in Nat, NEW e, is(e, k) PROVE \E h : is(h, k + 1)
  <2> DEFINE h == [i \in 0 .. k + 1 |-> IF i = k + 1 THEN body(k + 1, e[k]) ELSE e[i]]
  <2>1. \A i \in 0 .. k : h[i] = e[i]
    OBVIOUS
  <2>2. h[k + 1] = body(k + 1, h[k])
    BY <2>1
  <2>3. ASSUME NEW i \in 0 .. k + 1 PROVE h[i] = body(i, h[i - 1])
    <3>1. CASE i = k + 1
      BY <3>1, <2>2
    <3>2. CASE i = 0
      <4>1. h[0] = body(0, e[0 - 1])
        BY <1>4, <2>1
      <4> QED BY <4>1, <3>2, <1>2
    <3>3. CASE i \in 1 .. k
      <4>1. i \in 0 .. k /\ i - 1 \in 0 .. k
        BY <3>3
      <4>2. e[i] = body(i, e[i - 1])
        BY <4>1, <1>4
      <4> QED BY <4>1, <4>2, <2>1
    <3> QED BY <3>1, <3>2, <3>3
  <2>4. h = [i \in 0 .. k + 1 |-> h[i]]
    OBVIOUS
  <2> HIDE DEF h
  <2>5. is(h, k + 1)
    BY <2>3, <2>4
  <2> QED BY <2>5
<1>5. \A k \in Nat : \E h : is(h, k)
  <2> DEFINE S == {k \in Nat : \E h : is(h, k)}
  <2> HIDE DEF is
  <2>1. 0 \in S
    BY <1>3
  <2>2. ASSUME NEW k \in Nat, k \in S PROVE k + 1 \in S
    BY <2>2, <1>4
  <2> HIDE DEF S
  <2>3. Nat \subseteq S
    BY <2>1, <2>2, Induction
  <2> QED BY <2>3 DEF S
<1> DEFINE p(k) == CHOOSE h : is(h, k)
<1>6. ASSUME NEW k \in Nat PROVE is(p(k), k)
  <2> HIDE DEF is
  <2> QED BY <1>5
<1> HIDE DEF p
<1>7. ASSUME NEW k \in Nat PROVE p(k)[0] = body(0, 0) /\ \A i \in 0 .. k : p(k)[i] = body(i, p(k)[i - 1])
  <2> DEFINE h == p(k)
  <2>1. h = [i \in 0 .. k |-> body(i, h[i - 1])]
    BY <1>6
  <2> HIDE DEF h
  <2>2. \A i \in 0 .. k : h[i] = body(i, h[i - 1])
    BY <2>1
  <2>3. h[0] = body(0, 0)
    BY <2>2, <1>2
  <2> QED BY <2>2, <2>3 DEF h
<1>8. ASSUME NEW k \in Nat PROVE \A i \in 0 .. k : p(k)[i] = p(k + 1)[i]
  <2> DEFINE S == {i \in Nat : i <= k => p(k)[i] = p(k + 1)[i]}
  <2>1. 0 \in S
    BY <1>7
  <2>2. ASSUME NEW i \in Nat, i \in S PROVE i + 1 \in S
    <3> SUFFICES ASSUME i + 1 <= k PROVE p(k)[i + 1] = p(k + 1)[i + 1]
      OBVIOUS
    <3>1. p(k)[i] = p(k + 1)[i] /\ i + 1 \in 0 .. k /\ i + 1 \in 0 .. k + 1 /\ (i + 1) - 1 = i
      BY <2>2
    <3> QED BY <3>1, <1>7
  <2> HIDE DEF S
  <2>3. Nat \subseteq S
    BY <2>1, <2>2, Induction
  <2> QED BY <2>3 DEF S
<1> DEFINE q == [k \in Nat |-> p(k)[k]]
<1>9. q = [i \in Nat |-> body(i, q[i - 1])]
  <2>1. ASSUME NEW i \in Nat PROVE q[i] = body(i, q[i - 1])
    <3>1. q[i] = body(i, p(i)[i - 1])
      <4>1. i \in 0 .. i
        OBVIOUS
      <4> QED BY <4>1, <1>7
    <3>2. CASE i = 0
      BY <3>1, <3>2, <1>2
    <3>3. CASE i # 0
      <4> DEFINE j == i - 1
      <4>1. j \in Nat /\ j + 1 = i /\ j \in 0 .. j
        BY <3>3
      <4> HIDE DEF j
      <4>2. p(j)[j] = p(i)[j]
        BY <4>1, <1>8
      <4>3. q[j] = p(i)[j]
        BY <4>1, <4>2
      <4> QED BY <3>1, <4>3 DEF j
    <3> QED BY <3>2, <3>3
  <2>2. q = [i \in Nat |-> q[i]]
    OBVIOUS
  <2> HIDE DEF q
  <2> QED BY <2>1, <2>2
<1> HIDE DEF q
<1>10. reach = [i \in Nat |-> body(i, reach[i - 1])]
  BY <1>9 DEF reach, body, ReachAt
<1> HIDE DEF reach
<1>11. \A i \in Nat : reach[i] = body(i, reach[i - 1])
  BY <1>10
<1>12. \A i \in Nat : i + 1 \in Nat /\ (i + 1) - 1 = i
  OBVIOUS
<1>13. reach[0] = from
  BY <1>2, <1>11
<1>14. \A i \in Nat : reach[i + 1] = body(i + 1, reach[i])
  <2>1. ASSUME NEW i \in Nat PROVE reach[i + 1] = body(i + 1, reach[i])
    <3>1. reach[i + 1] = body(i + 1, reach[(i + 1) - 1])
      BY <1>11, <1>12
    <3> QED BY <3>1, <1>12
  <2> QED BY <2>1
<1> QED BY <1>1, <1>13, <1>14 DEF body

\* Exits lead to blocs.
LEMMA SuccIn ==
  ASSUME NEW g, Sane(g), NEW b \in Blocs(g)
  PROVE  Succ(g, b) \subseteq Blocs(g)
<1>1. g.exits[b] \in ExitsTo(Blocs(g))
  BY DEF Sane, Linked
<1> QED BY <1>1 DEF Succ, ExitsTo, Targets

\* A closure is made of blocs.
LEMMA ClosureIn ==
  ASSUME NEW g, Sane(g), NEW from \in SUBSET Blocs(g), NEW avoid
  PROVE  Closure(g, from, avoid) \subseteq Blocs(g)
<1> DEFINE r == Reach(g, from, avoid)   L == Len(g.pool)   B == Blocs(g)
           S == {i \in Nat : r[i] \subseteq B}
<1>1. Closure(g, from, avoid) = r[L]
  BY Zenon DEF Closure, Reach
<1>2. L \in Nat
  BY PoolFacts DEF Sane
<1>3. r[0] = from /\ \A i \in Nat : r[i + 1] = r[i] \cup ((UNION {Succ(g, b) : b \in r[i]}) \ avoid)
  <2>1. r[0] = from /\ \A i \in Nat : r[i + 1] = ReachAt(g, from, avoid, i + 1, r[i])
    BY ReachRec
  <2> HIDE DEF r
  <2>2. ASSUME NEW i \in Nat
        PROVE  r[i + 1] = r[i] \cup ((UNION {Succ(g, b) : b \in r[i]}) \ avoid)
    <3>1. i + 1 # 0
      OBVIOUS
    <3>2. r[i + 1] = ReachAt(g, from, avoid, i + 1, r[i])
      BY <2>1
    <3> QED BY Zenon, <3>1, <3>2 DEF ReachAt
  <2> QED BY <2>1, <2>2
<1> HIDE DEF r, L
<1>4. 0 \in S
  BY <1>3
<1>5. ASSUME NEW i \in Nat, i \in S PROVE i + 1 \in S
  <2>1. r[i] \subseteq B
    BY <1>5
  <2>2. UNION {Succ(g, b) : b \in r[i]} \subseteq B
    BY <2>1, SuccIn
  <2> QED BY <1>3, <2>1, <2>2
<1> HIDE DEF S
<1>6. Nat \subseteq S
  BY <1>4, <1>5, Induction
<1> QED BY <1>1, <1>2, <1>6 DEF S

\* The place of a bloc in the pool.
LEMMA OrderingFacts ==
  ASSUME NEW g, Sane(g), NEW b \in Blocs(g)
  PROVE  /\ Ordering(g)[b] \in 1 .. Len(g.pool) /\ g.pool[Ordering(g)[b]] = b
         /\ \A i \in 1 .. Len(g.pool) : g.pool[i] = b => i = Ordering(g)[b]
         /\ DOMAIN Ordering(g) = Blocs(g)
<1> DEFINE I == {i \in 1 .. Len(g.pool) : g.pool[i] = b}   o == SelectInSeq(g.pool, LAMBDA c : c = b)
<1>1. o = IF I # {} THEN Min(I) ELSE 0
  BY Zenon DEF SelectInSeq
<1>2. PICK i \in 1 .. Len(g.pool) : g.pool[i] = b
  BY PoolFacts DEF Sane
<1>3. I # {} /\ I \subseteq Nat
  BY <1>2
<1>4. Ordering(g)[b] = o /\ DOMAIN Ordering(g) = Blocs(g)
  BY Zenon DEF Ordering
<1> HIDE DEF I
<1>5. Min(I) \in I
  BY <1>3, Least
<1>6. o \in I
  BY <1>1, <1>3, <1>5
<1> HIDE DEF o
<1>7. o \in 1 .. Len(g.pool) /\ g.pool[o] = b
  BY <1>6 DEF I
<1>8. \A j \in 1 .. Len(g.pool) : g.pool[j] = b => j = o
  BY <1>7, PoolFacts DEF Sane
<1> QED BY <1>4, <1>7, <1>8

\* The paths of i edges.
PathSetsAt(g, ord, n, i, v) == IF i = 0 THEN {<<b>> : b \in Blocs(g)} ELSE UNION {{Append(p, c) : c \in {d \in Succ(g, Last(p)) : ord[d] > ord[Last(p)]}}
                      : p \in v}
PathSets(g, ord, n) ==
  LET paths[i \in 0 .. n] ==
    IF i = 0 THEN {<<b>> : b \in Blocs(g)}
    ELSE UNION {{Append(p, c) : c \in {d \in Succ(g, Last(p)) : ord[d] > ord[Last(p)]}}
                      : p \in paths[i - 1]}
  IN paths

LEMMA PathSetsRec ==
  ASSUME NEW g, NEW ord, NEW n, n \in Nat
  PROVE  /\ PathSets(g, ord, n) = [i \in 0 .. n |-> PathSets(g, ord, n)[i]]
         /\ PathSets(g, ord, n)[0] = {<<b>> : b \in Blocs(g)}
         /\ \A i \in 1 .. n : PathSets(g, ord, n)[i] = PathSetsAt(g, ord, n, i, PathSets(g, ord, n)[i - 1])
<1> DEFINE body(i, v) == PathSetsAt(g, ord, n, i, v)
           L == n
           paths[i \in 0 .. n] ==
             IF i = 0 THEN {<<b>> : b \in Blocs(g)}
    ELSE UNION {{Append(p, c) : c \in {d \in Succ(g, Last(p)) : ord[d] > ord[Last(p)]}}
                      : p \in paths[i - 1]}
           is(h, k) == h = [i \in 0 .. k |-> body(i, h[i - 1])]
<1>1. PathSets(g, ord, n) = paths
  BY DEF PathSets
<1>2. (\A x, y : body(0, x) = body(0, y)) /\ \A x : body(0, x) = {<<b>> : b \in Blocs(g)}
  BY DEF PathSetsAt
<1> HIDE DEF body
<1>3. \E h : is(h, 0)
  <2> DEFINE h == [i \in 0 .. 0 |-> body(0, 0)]
  <2>1. h[0] = body(0, h[0 - 1])
    BY <1>2
  <2>2. \A i \in 0 .. 0 : h[i] = body(i, h[i - 1])
    BY <2>1
  <2>3. h = [i \in 0 .. 0 |-> h[i]]
    OBVIOUS
  <2> HIDE DEF h
  <2>4. is(h, 0)
    BY <2>2, <2>3
  <2> QED BY <2>4
<1>4. ASSUME NEW k \in Nat, NEW e, is(e, k) PROVE \E h : is(h, k + 1)
  <2> DEFINE h == [i \in 0 .. k + 1 |-> IF i = k + 1 THEN body(k + 1, e[k]) ELSE e[i]]
  <2>1. \A i \in 0 .. k : h[i] = e[i]
    OBVIOUS
  <2>2. h[k + 1] = body(k + 1, h[k])
    BY <2>1
  <2>3. ASSUME NEW i \in 0 .. k + 1 PROVE h[i] = body(i, h[i - 1])
    <3>1. CASE i = k + 1
      BY <3>1, <2>2
    <3>2. CASE i = 0
      <4>1. h[0] = body(0, e[0 - 1])
        BY <1>4, <2>1
      <4> QED BY <4>1, <3>2, <1>2
    <3>3. CASE i \in 1 .. k
      <4>1. i \in 0 .. k /\ i - 1 \in 0 .. k
        BY <3>3
      <4>2. e[i] = body(i, e[i - 1])
        BY <4>1, <1>4
      <4> QED BY <4>1, <4>2, <2>1
    <3> QED BY <3>1, <3>2, <3>3
  <2>4. h = [i \in 0 .. k + 1 |-> h[i]]
    OBVIOUS
  <2> HIDE DEF h
  <2>5. is(h, k + 1)
    BY <2>3, <2>4
  <2> QED BY <2>5
<1>5. PICK e : is(e, L)
  <2> DEFINE S == {k \in Nat : \E h : is(h, k)}
  <2> HIDE DEF is
  <2>1. 0 \in S
    BY <1>3
  <2>2. ASSUME NEW k \in Nat, k \in S PROVE k + 1 \in S
    BY <2>2, <1>4
  <2> HIDE DEF S, L
  <2>3. Nat \subseteq S
    BY <2>1, <2>2, Induction
  <2> QED BY <2>3 DEF S, L
<1>6. paths = [i \in 0 .. L |-> body(i, paths[i - 1])]
  BY <1>5 DEF paths, body, PathSetsAt
<1> HIDE DEF paths, L
<1>7. \A i \in 0 .. L : paths[i] = body(i, paths[i - 1])
  BY <1>6
<1>8. paths = [i \in 0 .. L |-> paths[i]]
  <2> DEFINE r == [i \in 0 .. L |-> body(i, paths[i - 1])]
  <2>1. \A i \in 0 .. L : r[i] = paths[i]
    BY <1>7
  <2> QED BY <1>6, <2>1
<1>9. L \in Nat /\ 0 \in 0 .. L /\ \A i \in 1 .. L : i \in 0 .. L
  BY DEF L
<1> QED BY <1>1, <1>2, <1>7, <1>8, <1>9 DEF L, body

LEMMA PathFacts ==
  ASSUME NEW g, Sane(g), NEW n \in Nat, NEW p \in Paths(g, Ordering(g), n)
  PROVE  /\ p \in Seq(Blocs(g)) /\ Len(p) = n + 1 /\ Last(p) = p[n + 1]
         /\ \A i \in 1 .. n : p[i + 1] \in Succ(g, p[i])
         /\ \A i \in 1 .. n : Ordering(g)[p[i + 1]] > Ordering(g)[p[i]]
<1> DEFINE ord == Ordering(g)   B == Blocs(g)   f == PathSets(g, ord, n)
           P(q, k) == /\ q \in Seq(B) /\ Len(q) = k + 1
                      /\ \A i \in 1 .. k : q[i + 1] \in Succ(g, q[i]) /\ ord[q[i + 1]] > ord[q[i]]
           S == {k \in Nat : k <= n => \A q \in f[k] : P(q, k)}
<1>1. Paths(g, ord, n) = f[n]
  BY Zenon DEF Paths, PathSets
<1>2. f[0] = {<<b>> : b \in B} /\ \A i \in 1 .. n : f[i] = PathSetsAt(g, ord, n, i, f[i - 1])
  <2> HIDE DEF ord
  <2> QED BY PathSetsRec
<1> HIDE DEF f, ord
<1>3. 0 \in S
  <2>1. ASSUME NEW b \in B PROVE P(<<b>>, 0)
    OBVIOUS
  <2> HIDE DEF P
  <2> QED BY <1>2, <2>1
<1>4. ASSUME NEW k \in Nat, k \in S PROVE k + 1 \in S
  <2> SUFFICES ASSUME k + 1 <= n, NEW q \in f[k + 1] PROVE P(q, k + 1)
    OBVIOUS
  <2>1. k + 1 \in 1 .. n /\ (k + 1) - 1 = k /\ k + 1 # 0 /\ \A r \in f[k] : P(r, k)
    BY <1>4
  <2>2. f[k + 1] = UNION {{Append(r, c) : c \in {d \in Succ(g, Last(r)) : ord[d] > ord[Last(r)]}}
                            : r \in f[k]}
    BY <1>2, <2>1 DEF PathSetsAt
  <2>3. PICK r \in f[k] : \E c \in {d \in Succ(g, Last(r)) : ord[d] > ord[Last(r)]} : q = Append(r, c)
    BY <2>2
  <2>4. PICK c \in Succ(g, Last(r)) : ord[c] > ord[Last(r)] /\ q = Append(r, c)
    BY <2>3
  <2>5. P(r, k)
    BY <2>1, <2>3
  <2>6. Last(r) = r[k + 1] /\ r[k + 1] \in B /\ \A i \in 1 .. k + 1 : r[i] \in B
    BY <2>5 DEF Last
  <2>7. c \in B
    BY <2>4, <2>6, SuccIn
  <2>8. /\ q \in Seq(B) /\ Len(q) = k + 2 /\ q[k + 2] = c /\ \A i \in 1 .. k + 1 : q[i] = r[i]
    BY <2>4, <2>5, <2>7
  <2>9. ASSUME NEW i \in 1 .. k + 1
        PROVE  q[i + 1] \in Succ(g, q[i]) /\ ord[q[i + 1]] > ord[q[i]]
    <3>1. CASE i = k + 1
      BY <3>1, <2>4, <2>6, <2>8
    <3>2. CASE i \in 1 .. k
      <4>1. i + 1 \in 1 .. k + 1
        BY <3>2
      <4> QED BY <3>2, <4>1, <2>5, <2>8
    <3> QED BY <3>1, <3>2
  <2> QED BY <2>8, <2>9
<1>5. P(p, n)
  <2> HIDE DEF S
  <2>1. Nat \subseteq S
    BY <1>3, <1>4, Induction
  <2> HIDE DEF P
  <2> QED BY <2>1, <1>1 DEF S, ord
<1>6. Last(p) = p[n + 1]
  BY <1>5 DEF Last
<1> QED BY <1>5, <1>6 DEF ord

\* In a cycle of several blocs each has another one before it.
LEMMA CycleFacts ==
  ASSUME NEW g, Sane(g), NEW n \in Nat \ {0}, NEW idom,
         NEW p \in BadCycles(g, Ordering(g), idom, n)
  PROVE  /\ ToSet(p) \subseteq Blocs(g)
         /\ \A e \in ToSet(p) : \E c \in ToSet(p) : c # e /\ e \in Succ(g, c)
         /\ p[1] \in Blocs(g) /\ Last(p) \in Blocs(g) /\ p[1] \in Succ(g, Last(p))
         /\ Ordering(g)[p[1]] < Ordering(g)[Last(p)]
<1> DEFINE ord == Ordering(g)   B == Blocs(g)
<1>1. p \in Paths(g, ord, n) /\ p[1] \in Succ(g, Last(p))
  BY DEF BadCycles
<1>2. /\ p \in Seq(B) /\ Len(p) = n + 1 /\ Last(p) = p[n + 1]
      /\ \A i \in 1 .. n : p[i + 1] \in Succ(g, p[i]) /\ ord[p[i + 1]] > ord[p[i]]
  BY <1>1, PathFacts
<1>3. \A b \in B : ord[b] \in Nat
  BY OrderingFacts
<1> HIDE DEF ord
<1> DEFINE S == {k \in Nat : k < n => ord[p[1]] < ord[p[k + 2]]}
<1>4. \A i \in 1 .. n + 1 : p[i] \in B
  BY <1>2
<1>5. 0 \in S
  <2>1. 1 \in 1 .. n /\ 1 + 1 = 0 + 2 /\ ord[p[1 + 1]] > ord[p[1]]
    BY <1>2
  <2>2. ord[p[1]] \in Nat /\ ord[p[2]] \in Nat
    <3>1. 1 \in 1 .. n + 1 /\ 2 \in 1 .. n + 1
      OBVIOUS
    <3> QED BY <3>1, <1>3, <1>4
  <2> QED BY <2>1, <2>2
<1>6. ASSUME NEW k \in Nat, k \in S PROVE k + 1 \in S
  <2> SUFFICES ASSUME k + 1 < n PROVE ord[p[1]] < ord[p[(k + 1) + 2]]
    OBVIOUS
  <2>1. k + 2 \in 1 .. n /\ (k + 2) + 1 = (k + 1) + 2 /\ ord[p[1]] < ord[p[k + 2]]
    BY <1>6
  <2>2. ord[p[(k + 2) + 1]] > ord[p[k + 2]]
    BY <1>2, <2>1
  <2>3. ord[p[1]] \in Nat /\ ord[p[k + 2]] \in Nat /\ ord[p[(k + 1) + 2]] \in Nat
    <3>1. 1 \in 1 .. n + 1 /\ k + 2 \in 1 .. n + 1 /\ (k + 1) + 2 \in 1 .. n + 1
      BY <2>1
    <3> QED BY <3>1, <1>3, <1>4
  <2> QED BY <2>1, <2>2, <2>3
<1>7. ord[p[1]] < ord[p[n + 1]]
  <2> HIDE DEF S
  <2>1. Nat \subseteq S
    BY <1>5, <1>6, Induction
  <2>2. n - 1 \in Nat /\ n - 1 < n /\ (n - 1) + 2 = n + 1
    OBVIOUS
  <2>3. n - 1 \in S
    BY <2>1, <2>2
  <2> QED BY <2>2, <2>3 DEF S
<1>8. \A i \in 1 .. n + 1 : p[i] \in ToSet(p)
  BY <1>2, ItemFacts
<1>9. ASSUME NEW e \in ToSet(p) PROVE \E c \in ToSet(p) : c # e /\ e \in Succ(g, c)
  <2>1. PICK i \in 1 .. n + 1 : p[i] = e
    BY <1>2, ItemFacts
  <2>2. CASE i = 1
    <3>1. n + 1 \in 1 .. n + 1 /\ 1 \in 1 .. n + 1
      OBVIOUS
    <3>2. ord[p[1]] \in Nat /\ ord[p[n + 1]] \in Nat
      BY <3>1, <1>3, <1>4
    <3>3. p[n + 1] # p[1]
      BY <3>2, <1>7
    <3> QED BY <3>1, <3>3, <2>1, <2>2, <1>1, <1>2, <1>8
  <2>3. CASE i # 1
    <3> DEFINE j == i - 1
    <3>1. j \in 1 .. n /\ j + 1 = i /\ j \in 1 .. n + 1
      BY <2>3
    <3> HIDE DEF j
    <3>2. e \in Succ(g, p[j]) /\ ord[e] > ord[p[j]]
      BY <3>1, <2>1, <1>2
    <3>3. ord[p[j]] \in Nat /\ ord[e] \in Nat
      BY <3>1, <2>1, <1>3, <1>4
    <3>4. p[j] # e
      BY <3>2, <3>3
    <3> QED BY <3>1, <3>2, <3>4, <1>8
  <2> QED BY <2>2, <2>3
<1>10. ToSet(p) \subseteq B
  BY <1>2, ItemFacts
<1>11. p[1] \in B /\ Last(p) \in B /\ ord[p[1]] < ord[Last(p)]
  <2>1. 1 \in 1 .. n + 1 /\ n + 1 \in 1 .. n + 1
    OBVIOUS
  <2> QED BY <1>2, <1>4, <1>7, <2>1
<1> QED BY <1>1, <1>9, <1>10, <1>11 DEF ord

\* An edge that enters a cycle from outside of it: its end keeps another way in.
Entering(g, e) ==
  /\ e \in Blocs(g) \X BOOLEAN
  /\ LET end == Get(g.exits[e[1]], e[2])
     IN  /\ end \in Blocs(g) \ {e[1]}
         /\ \E c \in Blocs(g) \ {e[1], end} : end \in Succ(g, c)

LEMMA IncomingFacts ==
  ASSUME NEW g, Sane(g), NEW e \in IncomingEdges(g)
  PROVE  Entering(g, e)
<1> DEFINE ord == Ordering(g)   idom == Idom(g)   B == Blocs(g)
           length == {n \in 1 .. Len(g.pool) - 1 : BadCycles(g, ord, idom, n) # {}}
           n == Min(length)
<1>1. IncomingEdges(g) = IF length = {} THEN {}
                         ELSE UNION {Raid(g, ToSet(p)) : p \in BadCycles(g, ord, idom, n)}
  BY Zenon DEF IncomingEdges
<1>2. length # {} /\ length \subseteq Nat
  <2>1. Len(g.pool) \in Nat
    BY PoolFacts DEF Sane
  <2> HIDE DEF ord, idom
  <2> QED BY <1>1, <2>1
<1>3. n \in length
  <2> HIDE DEF length
  <2> QED BY <1>2, Least
<1>4. n \in Nat \ {0}
  <2> HIDE DEF ord, idom, n
  <2>1. Len(g.pool) \in Nat
    BY PoolFacts DEF Sane
  <2> QED BY <1>3, <2>1
<1>5. PICK p \in BadCycles(g, ord, idom, n) : e \in Raid(g, ToSet(p))
  <2> HIDE DEF length, ord, idom, n
  <2> QED BY <1>1, <1>2
<1> DEFINE C == ToSet(p)
<1>6. C \subseteq B /\ \A b \in C : \E c \in C : c # b /\ b \in Succ(g, c)
  <2> HIDE DEF idom, n
  <2> QED BY <1>4, <1>5, CycleFacts
<1> HIDE DEF ord, idom, n, C
<1>7. e \in (Closure(g, {g.pool[1]}, C) \ C) \X BOOLEAN /\ Get(g.exits[e[1]], e[2]) \in C
  BY <1>5 DEF Raid, C
<1>8. {g.pool[1]} \in SUBSET B
  BY PoolFacts DEF Sane, Pooled
<1>9. Closure(g, {g.pool[1]}, C) \subseteq B
  <2> DEFINE from == {g.pool[1]}
  <2> HIDE DEF from
  <2>1. Closure(g, from, C) \subseteq B
    BY <1>8, ClosureIn DEF from
  <2> QED BY <2>1 DEF from
<1>10. e \in B \X BOOLEAN /\ e[1] \notin C
  BY <1>7, <1>9
<1> QED BY <1>6, <1>7, <1>10 DEF Entering

\* The edges of E for which r is least.
Fewest(E, r) == {x \in E : \A y \in E : r[x] <= r[y]}

LEMMA FewestFacts ==
  ASSUME NEW E, E # {}, NEW r, \A x \in E : r[x] \in Nat
  PROVE  /\ Fewest(E, r) # {} /\ Fewest(E, r) \subseteq E
         /\ \A x \in Fewest(E, r), y \in E : r[x] <= r[y]
         /\ \A x \in Fewest(E, r), y \in E : r[y] = r[x] => y \in Fewest(E, r)
<1> DEFINE I == {r[x] : x \in E}
<1>1. I # {} /\ I \subseteq Nat
  OBVIOUS
<1> HIDE DEF I
<1>2. PICK k \in I : \A j \in I : k <= j
  BY <1>1, Least
<1>3. PICK x \in E : k = r[x]
  BY DEF I
<1>4. x \in Fewest(E, r)
  BY <1>2, <1>3 DEF Fewest, I
<1> QED BY <1>4 DEF Fewest

\* Some edge has no worse one.
LEMMA WorstExists ==
  ASSUME NEW E, E # {}, NEW r, \A x \in E : r[x] \in Nat \X Nat \X Nat \X Nat \X Nat
  PROVE  \E x \in E : \A y \in E : ~ LexLess(r[y], r[x])
<1> DEFINE r1 == [x \in E |-> r[x][1]]   r2 == [x \in E |-> r[x][2]]   r3 == [x \in E |-> r[x][3]]
           r4 == [x \in E |-> r[x][4]]   r5 == [x \in E |-> r[x][5]]
           E1 == Fewest(E, r1)   E2 == Fewest(E1, r2)   E3 == Fewest(E2, r3)
           E4 == Fewest(E3, r4)   E5 == Fewest(E4, r5)
<1>1. \A x \in E : /\ r1[x] \in Nat /\ r2[x] \in Nat /\ r3[x] \in Nat /\ r4[x] \in Nat
                   /\ r5[x] \in Nat
                   /\ r1[x] = r[x][1] /\ r2[x] = r[x][2] /\ r3[x] = r[x][3] /\ r4[x] = r[x][4]
                   /\ r5[x] = r[x][5] /\ DOMAIN r[x] = 1 .. 5
  OBVIOUS
<1> HIDE DEF r1, r2, r3, r4, r5
<1>2. /\ E1 # {} /\ E1 \subseteq E
      /\ \A x \in E1, y \in E : r1[x] <= r1[y]
      /\ \A x \in E1, y \in E : r1[y] = r1[x] => y \in E1
  BY <1>1, FewestFacts
<1> HIDE DEF E1
<1>3. /\ E2 # {} /\ E2 \subseteq E1
      /\ \A x \in E2, y \in E1 : r2[x] <= r2[y]
      /\ \A x \in E2, y \in E1 : r2[y] = r2[x] => y \in E2
  <2>1. \A x \in E1 : r2[x] \in Nat
    BY <1>1, <1>2
  <2> QED BY <1>2, <2>1, FewestFacts
<1> HIDE DEF E2
<1>4. /\ E3 # {} /\ E3 \subseteq E2
      /\ \A x \in E3, y \in E2 : r3[x] <= r3[y]
      /\ \A x \in E3, y \in E2 : r3[y] = r3[x] => y \in E3
  <2>1. \A x \in E2 : r3[x] \in Nat
    BY <1>1, <1>2, <1>3
  <2> QED BY <1>3, <2>1, FewestFacts
<1> HIDE DEF E3
<1>5. /\ E4 # {} /\ E4 \subseteq E3
      /\ \A x \in E4, y \in E3 : r4[x] <= r4[y]
      /\ \A x \in E4, y \in E3 : r4[y] = r4[x] => y \in E4
  <2>1. \A x \in E3 : r4[x] \in Nat
    BY <1>1, <1>2, <1>3, <1>4
  <2> QED BY <1>4, <2>1, FewestFacts
<1> HIDE DEF E4
<1>6. /\ E5 # {} /\ E5 \subseteq E4
      /\ \A x \in E5, y \in E4 : r5[x] <= r5[y]
  <2>1. \A x \in E4 : r5[x] \in Nat
    BY <1>1, <1>2, <1>3, <1>4, <1>5
  <2> QED BY <1>5, <2>1, FewestFacts
<1> HIDE DEF E5
<1>7. PICK x \in E5 : TRUE
  BY <1>6
<1>8. x \in E /\ x \in E1 /\ x \in E2 /\ x \in E3 /\ x \in E4
  BY <1>2, <1>3, <1>4, <1>5, <1>6, <1>7
<1>9. ASSUME NEW y \in E, LexLess(r[y], r[x]) PROVE FALSE
  <2>1. PICK i \in 1 .. 5 : r[y][i] < r[x][i] /\ \A j \in 1 .. i - 1 : r[y][j] = r[x][j]
    BY <1>1, <1>9 DEF LexLess
  <2>2. CASE i = 1
    BY <2>1, <2>2, <1>1, <1>2, <1>8
  <2>3. i > 1 => y \in E1
    <3>1. i > 1 => 1 \in 1 .. i - 1
      OBVIOUS
    <3> QED BY <2>1, <3>1, <1>1, <1>2, <1>8
  <2>4. CASE i = 2
    BY <2>1, <2>3, <2>4, <1>1, <1>3, <1>8
  <2>5. i > 2 => y \in E2
    <3>1. i > 2 => 2 \in 1 .. i - 1
      OBVIOUS
    <3> QED BY <2>1, <2>3, <3>1, <1>1, <1>3, <1>8
  <2>6. CASE i = 3
    BY <2>1, <2>5, <2>6, <1>1, <1>4, <1>8
  <2>7. i > 3 => y \in E3
    <3>1. i > 3 => 3 \in 1 .. i - 1
      OBVIOUS
    <3> QED BY <2>1, <2>5, <3>1, <1>1, <1>4, <1>8
  <2>8. CASE i = 4
    BY <2>1, <2>7, <2>8, <1>1, <1>5, <1>8
  <2>9. i > 4 => y \in E4
    <3>1. i > 4 => 4 \in 1 .. i - 1
      OBVIOUS
    <3> QED BY <2>1, <2>7, <3>1, <1>1, <1>5, <1>8
  <2>10. CASE i = 5
    BY <2>1, <2>9, <2>10, <1>1, <1>6, <1>7, <1>8
  <2> QED BY <2>2, <2>4, <2>6, <2>8, <2>10
<1> QED BY <1>8, <1>9

\* The rank of an edge.
LEMMA RankFacts ==
  ASSUME NEW g, Sane(g), NEW e, Entering(g, e)
  PROVE  EdgeRank(g, Ordering(g), e) \in Nat \X Nat \X Nat \X Nat \X Nat
<1> DEFINE end == Get(g.exits[e[1]], e[2])   ord == Ordering(g)
<1>1. end \in Blocs(g) /\ e[1] \in Blocs(g)
  BY DEF Entering
<1>2. g.prevcount[end] \in Nat
  BY <1>1 DEF Sane, Counted
<1>3. ord[e[1]] \in Nat /\ ord[end] \in Nat
  <2>1. \A b \in Blocs(g) : ord[b] \in 1 .. Len(g.pool)
    BY OrderingFacts
  <2> HIDE DEF end, ord
  <2> QED BY <2>1, <1>1
<1>4. \A b : CountSuccessors(g, b) \in Nat
  BY DEF CountSuccessors
<1>5. EdgeRank(g, ord, e) = <<CountSuccessors(g, end), g.prevcount[end], CountSuccessors(g, e[1]),
                              ord[e[1]], ord[end]>>
  BY DEF EdgeRank
<1> HIDE DEF end, ord
<1>6. EdgeRank(g, ord, e) \in Nat \X Nat \X Nat \X Nat \X Nat
  BY <1>2, <1>3, <1>4, <1>5
<1> QED BY <1>6 DEF ord

\* The worst edge is led to a duplicate of its end.
LEMMA DuplicateWorstFacts ==
  ASSUME NEW g, Sane(g), Rooted(g), IncomingEdges(g) # {}
  PROVE  LET h == DuplicateWorst(g)
         IN  /\ Sane(h) /\ Rooted(h) /\ h.error = g.error
             /\ Blocs(h) = Blocs(g) \cup {g.fresh}
<1> DEFINE ord == Ordering(g)   E == IncomingEdges(g)   B == Blocs(g)   n == g.fresh
           worst == CHOOSE e \in E : \A f \in E :
                      ~ LexLess(EdgeRank(g, ord, f), EdgeRank(g, ord, e))
           o == worst[1]   alt == worst[2]
           end == Get(g.exits[o], alt)
           d == Duplicate(g, end)
           h == SetExit(d, o, alt, n)
<1>1. DuplicateWorst(g) = h
  BY Zenon DEF DuplicateWorst
<1>2. \A e \in E : Entering(g, e) /\ EdgeRank(g, ord, e) \in Nat \X Nat \X Nat \X Nat \X Nat
  BY IncomingFacts, RankFacts
<1>3. worst \in E
  <2> DEFINE r == [e \in E |-> EdgeRank(g, ord, e)]
  <2>1. \A e \in E : r[e] = EdgeRank(g, ord, e) /\ r[e] \in Nat \X Nat \X Nat \X Nat \X Nat
    BY <1>2
  <2> HIDE DEF r, ord, E
  <2>2. \E x \in E : \A y \in E : ~ LexLess(r[y], r[x])
    BY <2>1, WorstExists DEF E
  <2>3. \E x \in E : \A y \in E : ~ LexLess(EdgeRank(g, ord, y), EdgeRank(g, ord, x))
    BY <2>1, <2>2
  <2> QED BY <2>3
<1> HIDE DEF worst, E, ord
<1>4. /\ worst \in B \X BOOLEAN /\ end \in B \ {o}
      /\ \E c \in B \ {o, end} : end \in Succ(g, c)
  BY <1>2, <1>3 DEF Entering
<1>5. o \in B /\ alt \in BOOLEAN
  BY <1>4
<1> HIDE DEF o, alt
<1>6. PICK c \in B \ {o, end} : end \in Succ(g, c)
  BY <1>4
<1>7. g.exits \in [B -> ExitsTo(B)] /\ nil \notin B /\ entry_bloc \in B
      /\ (g.exits[o].nat = nil => g.exits[o].odd = nil)
  BY <1>5, PoolFacts DEF Sane, Linked
<1>8. /\ Sane(d) /\ n \notin B /\ n # nil /\ Blocs(d) = B \cup {n} /\ d.error = g.error
      /\ d.exits[n] = g.exits[end] /\ \A b \in B : d.exits[b] = g.exits[b]
  <2>1. end \in Blocs(g)
    BY <1>4
  <2> HIDE DEF end
  <2>2. /\ Sane(d) /\ g.fresh \notin Blocs(g) /\ g.fresh \in Nat \ {nil, entry_bloc}
        /\ Blocs(d) = Blocs(g) \cup {g.fresh} /\ d.error = g.error
        /\ d.exits[g.fresh] = g.exits[end]
        /\ \A b \in Blocs(g) : d.exits[b] = g.exits[b]
    BY <2>1, DuplicateFacts
  <2> QED BY <2>2
<1> DEFINE z == Put(g.exits[o], alt, n)
<1>9. alt => g.exits[o].nat # nil
  BY <1>4, <1>7 DEF Get
<1> HIDE DEF d, n
<1>10. /\ Sane(h) /\ Blocs(h) = B \cup {n} /\ h.error = g.error
       /\ h.exits[o] = z /\ \A b \in (B \cup {n}) \ {o} : h.exits[b] = d.exits[b]
  <2>1. o \in Blocs(d) /\ n \in Blocs(d) /\ (alt => d.exits[o].nat # nil)
    BY <1>5, <1>8, <1>9
  <2>2. /\ Sane(h) /\ Blocs(h) = Blocs(d) /\ Alike(d, h, {"exits", "prevcount"})
        /\ h.exits = [d.exits EXCEPT ![o] = Put(@, alt, n)]
    BY <2>1, <1>5, <1>8, SetExitFacts
  <2>3. h.error = d.error
    BY <2>2 DEF Alike, Fields
  <2>4. d.exits \in [B \cup {n} -> ExitsTo(B \cup {n})]
    BY <1>8 DEF Sane, Linked
  <2>5. h.exits[o] = Put(d.exits[o], alt, n)
        /\ \A b \in (B \cup {n}) \ {o} : h.exits[b] = d.exits[b]
    <3> HIDE DEF h
    <3> QED BY <2>2, <2>4, <1>5
  <2>6. d.exits[o] = g.exits[o]
    BY <1>5, <1>8
  <2> QED BY <2>2, <2>3, <2>5, <2>6, <1>8
<1> HIDE DEF h
<1>11. n \in Succ(h, o) /\ Succ(g, o) \subseteq Succ(h, o) \cup {end}
  <2>1. g.exits[o] \in ExitsTo(B)
    BY <1>5, <1>7
  <2> DEFINE y == g.exits[o]
  <2>2. z.nat = (IF alt THEN y.nat ELSE n) /\ z.odd = (IF alt THEN n ELSE y.odd)
    BY <2>1, <1>5 DEF Put, ExitsTo
  <2>3. Succ(h, o) = Targets(z) /\ Succ(g, o) = Targets(y) /\ end = Get(y, alt)
    BY <1>10 DEF Succ
  <2> HIDE DEF z, y, end
  <2> QED BY <2>2, <2>3, <1>5, <1>8 DEF Targets, Get
<1>12. Succ(h, n) = Succ(g, end) /\ \A b \in B \ {o} : Succ(h, b) = Succ(g, b)
  <2>1. n # o /\ end \in B
    BY <1>4, <1>5, <1>8
  <2> HIDE DEF end
  <2> QED BY <2>1, <1>8, <1>10 DEF Succ
<1>13. \A b \in B : Succ(g, b) \subseteq B
  BY SuccIn
<1>14. end \in B /\ end # o
  BY <1>4
<1> HIDE DEF end, z
<1>15. Rooted(h)
  <2>1. SUFFICES ASSUME NEW S \in SUBSET (B \cup {n}), entry_bloc \in S,
                        \A b \in S : Succ(h, b) \subseteq S
                 PROVE  S = B \cup {n}
    BY <1>10 DEF Rooted
  <2> DEFINE T == (S \ {n}) \cup (IF n \in S THEN {end} ELSE {})
  <2>2. T \in SUBSET B /\ entry_bloc \in T
    BY <2>1, <1>7, <1>8, <1>14
  <2>3. ASSUME NEW b \in T PROVE Succ(g, b) \subseteq T
    <3>1. b \in B /\ Succ(g, b) \subseteq B
      BY <2>2, <1>13
    <3>2. CASE b = o
      <4>1. o \in S
        BY <3>2, <1>14, <2>3
      <4>2. n \in S
        BY <4>1, <1>11, <2>1
      <4>3. Succ(h, o) \subseteq S
        BY <4>1, <2>1
      <4> QED BY <3>1, <3>2, <4>2, <4>3, <1>11, <1>8
    <3>3. CASE b \in S /\ b # o
      <4>1. Succ(g, b) \subseteq S
        BY <3>1, <3>3, <1>12, <2>1
      <4> QED BY <3>1, <4>1, <1>8
    <3>4. CASE b = end /\ n \in S
      <4>1. Succ(g, b) \subseteq S
        BY <3>4, <1>12, <2>1
      <4> QED BY <3>1, <4>1, <1>8
    <3> QED BY <2>3, <3>2, <3>3, <3>4
  <2> HIDE DEF T
  <2>4. T = B
    BY <2>2, <2>3 DEF Rooted
  <2>5. n \in S
    <3>1. SUFFICES ASSUME n \notin S PROVE FALSE
      OBVIOUS
    <3>2. o \in S
      BY <3>1, <2>4, <1>5 DEF T
    <3> QED BY <3>1, <3>2, <1>11, <2>1
  <2>6. end \in S
    <3>1. c \in S
      BY <2>4, <1>6 DEF T
    <3>2. end \in Succ(h, c)
      BY <1>6, <1>12
    <3> QED BY <3>1, <3>2, <2>1
  <2> QED BY <2>4, <2>5, <2>6, <2>1 DEF T
<1> QED BY <1>1, <1>10, <1>15 DEF n

\* The calls of the depth first search.
CallsAt(g, i, v) ==
  [b \in Blocs(g) \union {nil} |-> [w \in Visits(g) |->
           IF i = 0 \/ b = nil \/ b \in w.seen THEN w
           ELSE LET nat == v[g.exits[b].nat][[w EXCEPT !.seen = @ \union {b}]]
                    odd == IF g.exits[b].nat = nil THEN nat
                           ELSE v[g.exits[b].odd][nat]
                IN  [odd EXCEPT !.post = <<b>> \o @]]]
Calls(g) ==
  LET visit[i \in Nat] ==
    [b \in Blocs(g) \union {nil} |-> [w \in Visits(g) |->
           IF i = 0 \/ b = nil \/ b \in w.seen THEN w
           ELSE LET nat == visit[i - 1][g.exits[b].nat][[w EXCEPT !.seen = @ \union {b}]]
                    odd == IF g.exits[b].nat = nil THEN nat
                           ELSE visit[i - 1][g.exits[b].odd][nat]
                IN  [odd EXCEPT !.post = <<b>> \o @]]]
  IN visit

LEMMA CallsRec ==
  ASSUME NEW g
  PROVE  /\ Calls(g)[0] = [b \in Blocs(g) \union {nil} |-> [w \in Visits(g) |-> w]]
         /\ \A i \in Nat : Calls(g)[i + 1] = CallsAt(g, i + 1, Calls(g)[i])
<1> DEFINE body(i, v) == CallsAt(g, i, v)
           visit[i \in Nat] ==
             [b \in Blocs(g) \union {nil} |-> [w \in Visits(g) |->
           IF i = 0 \/ b = nil \/ b \in w.seen THEN w
           ELSE LET nat == visit[i - 1][g.exits[b].nat][[w EXCEPT !.seen = @ \union {b}]]
                    odd == IF g.exits[b].nat = nil THEN nat
                           ELSE visit[i - 1][g.exits[b].odd][nat]
                IN  [odd EXCEPT !.post = <<b>> \o @]]]
           is(h, k) == h = [i \in 0 .. k |-> body(i, h[i - 1])]
<1>1. Calls(g) = visit
  BY DEF Calls
<1>2. (\A x, y : body(0, x) = body(0, y)) /\ \A x : body(0, x) = [b \in Blocs(g) \union {nil} |-> [w \in Visits(g) |-> w]]
  <2>1. ASSUME NEW x
        PROVE  body(0, x) = [b \in Blocs(g) \union {nil} |-> [w \in Visits(g) |-> w]]
    BY DEF CallsAt
  <2> HIDE DEF body
  <2> QED BY <2>1
<1> HIDE DEF body
<1>3. \E h : is(h, 0)
  <2> DEFINE h == [i \in 0 .. 0 |-> body(0, 0)]
  <2>1. h[0] = body(0, h[0 - 1])
    BY <1>2
  <2>2. \A i \in 0 .. 0 : h[i] = body(i, h[i - 1])
    BY <2>1
  <2>3. h = [i \in 0 .. 0 |-> h[i]]
    OBVIOUS
  <2> HIDE DEF h
  <2>4. is(h, 0)
    BY <2>2, <2>3
  <2> QED BY <2>4
<1>4. ASSUME NEW k \in Nat, NEW e, is(e, k) PROVE \E h : is(h, k + 1)
  <2> DEFINE h == [i \in 0 .. k + 1 |-> IF i = k + 1 THEN body(k + 1, e[k]) ELSE e[i]]
  <2>1. \A i \in 0 .. k : h[i] = e[i]
    OBVIOUS
  <2>2. h[k + 1] = body(k + 1, h[k])
    BY <2>1
  <2>3. ASSUME NEW i \in 0 .. k + 1 PROVE h[i] = body(i, h[i - 1])
    <3>1. CASE i = k + 1
      BY <3>1, <2>2
    <3>2. CASE i = 0
      <4>1. h[0] = body(0, e[0 - 1])
        BY <1>4, <2>1
      <4> QED BY <4>1, <3>2, <1>2
    <3>3. CASE i \in 1 .. k
      <4>1. i \in 0 .. k /\ i - 1 \in 0 .. k
        BY <3>3
      <4>2. e[i] = body(i, e[i - 1])
        BY <4>1, <1>4
      <4> QED BY <4>1, <4>2, <2>1
    <3> QED BY <3>1, <3>2, <3>3
  <2>4. h = [i \in 0 .. k + 1 |-> h[i]]
    OBVIOUS
  <2> HIDE DEF h
  <2>5. is(h, k + 1)
    BY <2>3, <2>4
  <2> QED BY <2>5
<1>5. \A k \in Nat : \E h : is(h, k)
  <2> DEFINE S == {k \in Nat : \E h : is(h, k)}
  <2> HIDE DEF is
  <2>1. 0 \in S
    BY <1>3
  <2>2. ASSUME NEW k \in Nat, k \in S PROVE k + 1 \in S
    BY <2>2, <1>4
  <2> HIDE DEF S
  <2>3. Nat \subseteq S
    BY <2>1, <2>2, Induction
  <2> QED BY <2>3 DEF S
<1> DEFINE p(k) == CHOOSE h : is(h, k)
<1>6. ASSUME NEW k \in Nat PROVE is(p(k), k)
  <2> HIDE DEF is
  <2> QED BY <1>5
<1> HIDE DEF p
<1>7. ASSUME NEW k \in Nat PROVE p(k)[0] = body(0, 0) /\ \A i \in 0 .. k : p(k)[i] = body(i, p(k)[i - 1])
  <2> DEFINE h == p(k)
  <2>1. h = [i \in 0 .. k |-> body(i, h[i - 1])]
    BY <1>6
  <2> HIDE DEF h
  <2>2. \A i \in 0 .. k : h[i] = body(i, h[i - 1])
    BY <2>1
  <2>3. h[0] = body(0, 0)
    BY <2>2, <1>2
  <2> QED BY <2>2, <2>3 DEF h
<1>8. ASSUME NEW k \in Nat PROVE \A i \in 0 .. k : p(k)[i] = p(k + 1)[i]
  <2> DEFINE S == {i \in Nat : i <= k => p(k)[i] = p(k + 1)[i]}
  <2>1. 0 \in S
    BY <1>7
  <2>2. ASSUME NEW i \in Nat, i \in S PROVE i + 1 \in S
    <3> SUFFICES ASSUME i + 1 <= k PROVE p(k)[i + 1] = p(k + 1)[i + 1]
      OBVIOUS
    <3>1. p(k)[i] = p(k + 1)[i] /\ i + 1 \in 0 .. k /\ i + 1 \in 0 .. k + 1 /\ (i + 1) - 1 = i
      BY <2>2
    <3> QED BY <3>1, <1>7
  <2> HIDE DEF S
  <2>3. Nat \subseteq S
    BY <2>1, <2>2, Induction
  <2> QED BY <2>3 DEF S
<1> DEFINE q == [k \in Nat |-> p(k)[k]]
<1>9. q = [i \in Nat |-> body(i, q[i - 1])]
  <2>1. ASSUME NEW i \in Nat PROVE q[i] = body(i, q[i - 1])
    <3>1. q[i] = body(i, p(i)[i - 1])
      <4>1. i \in 0 .. i
        OBVIOUS
      <4> QED BY <4>1, <1>7
    <3>2. CASE i = 0
      BY <3>1, <3>2, <1>2
    <3>3. CASE i # 0
      <4> DEFINE j == i - 1
      <4>1. j \in Nat /\ j + 1 = i /\ j \in 0 .. j
        BY <3>3
      <4> HIDE DEF j
      <4>2. p(j)[j] = p(i)[j]
        BY <4>1, <1>8
      <4>3. q[j] = p(i)[j]
        BY <4>1, <4>2
      <4> QED BY <3>1, <4>3 DEF j
    <3> QED BY <3>2, <3>3
  <2>2. q = [i \in Nat |-> q[i]]
    OBVIOUS
  <2> HIDE DEF q
  <2> QED BY <2>1, <2>2
<1> HIDE DEF q
<1>10. visit = [i \in Nat |-> body(i, visit[i - 1])]
  BY ZenonT(60), <1>9 DEF visit, body, CallsAt
<1> HIDE DEF visit
<1>11. \A i \in Nat : visit[i] = body(i, visit[i - 1])
  BY <1>10
<1>12. \A i \in Nat : i + 1 \in Nat /\ (i + 1) - 1 = i
  OBVIOUS
<1>13. visit[0] = [b \in Blocs(g) \union {nil} |-> [w \in Visits(g) |-> w]]
  BY <1>2, <1>11
<1>14. \A i \in Nat : visit[i + 1] = body(i + 1, visit[i])
  <2>1. ASSUME NEW i \in Nat PROVE visit[i + 1] = body(i + 1, visit[i])
    <3>1. visit[i + 1] = body(i + 1, visit[(i + 1) - 1])
      BY <1>11, <1>12
    <3> QED BY <3>1, <1>12
  <2> QED BY <2>1
<1> QED BY <1>1, <1>13, <1>14 DEF body

\* a comes before c in s.
Precedes(s, a, c) == \E i, j \in 1 .. Len(s) : i < j /\ s[i] = a /\ s[j] = c

LEMMA PrependFacts ==
  ASSUME NEW B, NEW s \in Seq(B), NEW b \in B, b \notin ToSet(s), IsInjective(s)
  PROVE  LET t == <<b>> \o s
         IN  /\ t \in Seq(B) /\ IsInjective(t) /\ t # <<>> /\ t[1] = b
             /\ ToSet(t) = {b} \cup ToSet(s)
             /\ \A a, c : Precedes(t, a, c) <=> Precedes(s, a, c) \/ (a = b /\ c \in ToSet(s))
<1> DEFINE t == <<b>> \o s
<1>1. /\ t \in Seq(B) /\ Len(s) \in Nat /\ Len(t) = Len(s) + 1 /\ t[1] = b /\ t # <<>>
      /\ DOMAIN s = 1 .. Len(s) /\ DOMAIN t = 1 .. Len(s) + 1
      /\ \A i \in 1 .. Len(s) : t[i + 1] = s[i]
  OBVIOUS
<1>2. ToSet(t) = {b} \cup ToSet(s)
  BY ConsItems
<1> HIDE DEF t
<1>3. \A i \in 1 .. Len(s) + 1 : i # 1 => i - 1 \in 1 .. Len(s) /\ t[i] = s[i - 1]
  <2>1. SUFFICES ASSUME NEW i \in 1 .. Len(s) + 1, i # 1
                 PROVE  i - 1 \in 1 .. Len(s) /\ t[i] = s[i - 1]
    OBVIOUS
  <2>2. i - 1 \in 1 .. Len(s) /\ (i - 1) + 1 = i
    <3>1. Len(s) \in Nat
      BY <1>1
    <3> QED BY <3>1, <2>1
  <2>3. t[(i - 1) + 1] = s[i - 1]
    BY <2>2, <1>1
  <2> QED BY <2>2, <2>3
<1>4. \A i \in 1 .. Len(s) : s[i] \in ToSet(s)
  BY ItemFacts
<1>5. \A i, j \in 1 .. Len(s) : s[i] = s[j] => i = j
  BY <1>1 DEF IsInjective
<1>6. IsInjective(t)
  <2>1. SUFFICES ASSUME NEW i \in 1 .. Len(s) + 1, NEW j \in 1 .. Len(s) + 1, t[i] = t[j]
                 PROVE  i = j
    BY <1>1 DEF IsInjective
  <2>2. CASE i = 1 /\ j # 1
    BY <2>1, <2>2, <1>1, <1>3, <1>4
  <2>3. CASE j = 1 /\ i # 1
    BY <2>1, <2>3, <1>1, <1>3, <1>4
  <2>4. CASE i # 1 /\ j # 1
    <3>1. i - 1 \in 1 .. Len(s) /\ j - 1 \in 1 .. Len(s) /\ s[i - 1] = s[j - 1]
      BY <2>1, <2>4, <1>3
    <3>2. i - 1 = j - 1
      BY <3>1, <1>5
    <3> QED BY <3>2
  <2> QED BY <2>2, <2>3, <2>4
<1>7. ASSUME NEW a, NEW c
      PROVE  Precedes(t, a, c) <=> Precedes(s, a, c) \/ (a = b /\ c \in ToSet(s))
  <2>1. ASSUME Precedes(t, a, c) PROVE Precedes(s, a, c) \/ (a = b /\ c \in ToSet(s))
    <3>1. PICK i \in 1 .. Len(s) + 1, j \in 1 .. Len(s) + 1 : i < j /\ t[i] = a /\ t[j] = c
      BY <2>1, <1>1 DEF Precedes
    <3>2. j # 1
      BY <3>1
    <3>3. CASE i = 1
      BY <3>1, <3>2, <3>3, <1>1, <1>3, <1>4
    <3>4. CASE i # 1
      <4>1. i - 1 < j - 1
        BY <3>1
      <4> QED BY <3>1, <3>2, <3>4, <4>1, <1>3 DEF Precedes
    <3> QED BY <3>3, <3>4
  <2>2. ASSUME Precedes(s, a, c) PROVE Precedes(t, a, c)
    <3>1. PICK i \in 1 .. Len(s), j \in 1 .. Len(s) : i < j /\ s[i] = a /\ s[j] = c
      BY <2>2 DEF Precedes
    <3>2. i + 1 \in 1 .. Len(t) /\ j + 1 \in 1 .. Len(t) /\ i + 1 < j + 1
      BY <3>1, <1>1
    <3> QED BY <3>1, <3>2, <1>1 DEF Precedes
  <2>3. ASSUME a = b, c \in ToSet(s) PROVE Precedes(t, a, c)
    <3>1. PICK j \in 1 .. Len(s) : s[j] = c
      BY <2>3, ItemFacts
    <3>2. 1 \in 1 .. Len(t) /\ j + 1 \in 1 .. Len(t) /\ 1 < j + 1
      BY <3>1, <1>1
    <3> QED BY <2>3, <3>1, <3>2, <1>1 DEF Precedes
  <2> QED BY <2>1, <2>2, <2>3
<1> QED BY <1>1, <1>2, <1>6, <1>7 DEF t

\* From a, within the blocs that come after it in s, b is reached.
Within(g, s, a, b) ==
  \A S \in SUBSET Blocs(g) :
    a \in S /\ (\A x \in S : \A y \in Succ(g, x) : Precedes(s, a, y) => y \in S) => b \in S

\* A bloc that the search has left, and its successors, were seen; an edge
\* back to an earlier bloc closes a cycle.
Fine(g, w) ==
  /\ w \in Visits(g) /\ IsInjective(w.post) /\ ToSet(w.post) \subseteq w.seen
  /\ \A o \in ToSet(w.post) : Succ(g, o) \subseteq w.seen
  /\ \A o \in ToSet(w.post) : \A e \in Succ(g, o) :
       Precedes(w.post, e, o) => Within(g, w.post, e, o)

\* What a call for bloc b makes of visits w.
Visited(g, b, w, r) ==
  LET N == r.seen \ w.seen
  IN  /\ Fine(g, r) /\ w.seen \subseteq r.seen /\ ToSet(r.post) = ToSet(w.post) \cup N
      /\ b \in r.seen \cup {nil} /\ \A c \in N : Succ(g, c) \subseteq r.seen
      /\ \A c \in N \ {b} : \E p \in N : c \in Succ(g, p) /\ Precedes(r.post, p, c)
      /\ \A a, c : Precedes(w.post, a, c) => Precedes(r.post, a, c)
      /\ b \in Blocs(g) \ w.seen => r.post # <<>> /\ r.post[1] = b
      /\ N # {} => b \in N
      /\ \A S \in SUBSET Blocs(g) :
           b \in S /\ (\A x \in S : Succ(g, x) \cap N \subseteq S) => N \subseteq S

LEMMA VisitNone ==
  ASSUME NEW g, NEW w, Fine(g, w), NEW b \in w.seen \cup {nil}, nil \notin Blocs(g)
  PROVE  Visited(g, b, w, w)
<1>1. w.seen \subseteq Blocs(g) /\ w.seen \ w.seen = {}
  BY DEF Fine, Visits
<1> QED BY <1>1 DEF Visited

\* A bloc is seen before its successors are visited.
LEMMA VisitEnter ==
  ASSUME NEW g, NEW w, Fine(g, w), NEW b \in Blocs(g)
  PROVE  LET v == [w EXCEPT !.seen = @ \cup {b}]
         IN  Fine(g, v) /\ v.seen = w.seen \cup {b} /\ v.post = w.post
<1> DEFINE v == [w EXCEPT !.seen = @ \cup {b}]
<1>1. v \in Visits(g) /\ v.seen = w.seen \cup {b} /\ v.post = w.post
  BY DEF Fine, Visits
<1> HIDE DEF v
<1>2. Fine(g, v)
  BY <1>1 DEF Fine
<1> QED BY <1>1, <1>2 DEF v

\* ... and is left after them.
LEMMA VisitLeave ==
  ASSUME NEW g, NEW w, Fine(g, w), NEW b \in Blocs(g), b \notin w.seen, nil \notin Blocs(g),
         NEW v, Fine(g, v), v.seen = w.seen \cup {b}, v.post = w.post,
         NEW n1, NEW n2, Succ(g, b) = {n1, n2} \ {nil}, Succ(g, b) \subseteq Blocs(g),
         NEW d1, Visited(g, n1, v, d1), NEW d2, Visited(g, n2, d1, d2)
  PROVE  Visited(g, b, w, [d2 EXCEPT !.post = <<b>> \o @])
<1> DEFINE r == [d2 EXCEPT !.post = <<b>> \o @]
           N == r.seen \ w.seen   N1 == d1.seen \ v.seen   N2 == d2.seen \ d1.seen   B == Blocs(g)
<1>1. /\ Fine(g, d2) /\ d2 \in Visits(g) /\ d1 \in Visits(g)
  BY DEF Visited, Fine
<1>2. r \in Visits(g) /\ r.seen = d2.seen /\ r.post = <<b>> \o d2.post
  <2> DEFINE q == d2.post   t == <<b>> \o q
  <2>1. q \in Seq(B) /\ d2 = [seen |-> d2.seen, post |-> q] /\ d2.seen \in SUBSET B
    BY <1>1 DEF Visits
  <2> HIDE DEF q, B
  <2>2. t \in Seq(B)
    BY <2>1, ConsItems DEF B
  <2>3. r = [d2 EXCEPT !.post = t]
    BY DEF q
  <2> HIDE DEF t, r
  <2>4. r = [seen |-> d2.seen, post |-> t]
    BY <2>1, <2>3
  <2> QED BY <2>1, <2>2, <2>4 DEF Visits, t, q, B
<1> HIDE DEF r
<1>3. /\ v.seen \subseteq d1.seen /\ d1.seen \subseteq d2.seen /\ d2.seen \subseteq B
      /\ ToSet(d2.post) = ToSet(w.post) \cup N1 \cup N2
      /\ w.seen \subseteq B
  BY <1>1 DEF Visited, Visits, Fine
<1>4. N = {b} \cup N1 \cup N2 /\ b \notin N1 \cup N2 /\ b \notin ToSet(d2.post)
  <2>1. ToSet(w.post) \subseteq w.seen
    BY DEF Fine
  <2> QED BY <2>1, <1>2, <1>3
<1>5. /\ r.post \in Seq(B) /\ IsInjective(r.post) /\ r.post # <<>> /\ r.post[1] = b
      /\ ToSet(r.post) = {b} \cup ToSet(d2.post)
      /\ \A a, c : Precedes(r.post, a, c) <=>
                     Precedes(d2.post, a, c) \/ (a = b /\ c \in ToSet(d2.post))
  <2>1. d2.post \in Seq(B) /\ IsInjective(d2.post)
    BY <1>1 DEF Fine, Visits
  <2> DEFINE q == d2.post
  <2> HIDE DEF q
  <2>2. q \in Seq(B) /\ IsInjective(q) /\ b \notin ToSet(q)
    BY <2>1, <1>4 DEF q
  <2>3. /\ <<b>> \o q \in Seq(B) /\ IsInjective(<<b>> \o q) /\ <<b>> \o q # <<>>
        /\ (<<b>> \o q)[1] = b
        /\ ToSet(<<b>> \o q) = {b} \cup ToSet(q)
        /\ \A a, c : Precedes(<<b>> \o q, a, c) <=> Precedes(q, a, c) \/ (a = b /\ c \in ToSet(q))
    <3> HIDE DEF B
    <3> QED BY <2>2, PrependFacts DEF B
  <2> QED BY <2>3, <1>2 DEF q
<1>6. ToSet(r.post) = ToSet(w.post) \cup N
  BY <1>3, <1>4, <1>5
<1>7. n1 \in d2.seen \cup {nil} /\ n2 \in d2.seen \cup {nil}
  BY <1>3 DEF Visited
<1>8. \A c \in N : Succ(g, c) \subseteq r.seen
  <2>1. \A c \in N1 : Succ(g, c) \subseteq d1.seen
    BY DEF Visited
  <2>2. \A c \in N2 : Succ(g, c) \subseteq d2.seen
    BY DEF Visited
  <2>3. Succ(g, b) \subseteq d2.seen
    BY <1>7
  <2> HIDE DEF N1, N2, N
  <2> QED BY <2>1, <2>2, <2>3, <1>2, <1>3, <1>4
<1>9. \A c \in N \ {b} : \E p \in N : c \in Succ(g, p) /\ Precedes(r.post, p, c)
  <2>1. SUFFICES ASSUME NEW c \in N \ {b} PROVE \E p \in N : c \in Succ(g, p) /\ Precedes(r.post, p, c)
    OBVIOUS
  <2>2. c \in N1 \/ c \in N2
    BY <1>4
  <2>3. c \in ToSet(d2.post)
    BY <2>2, <1>3
  <2>4. CASE c \in Succ(g, b)
    BY <2>3, <2>4, <1>4, <1>5
  <2>5. CASE c \in N1 /\ c \notin Succ(g, b)
    <3>1. c \in N1 \ {n1}
      BY <2>5, <1>3
    <3>2. PICK p \in N1 : c \in Succ(g, p) /\ Precedes(d1.post, p, c)
      <4>1. \A t \in N1 \ {n1} : \E p \in N1 : t \in Succ(g, p) /\ Precedes(d1.post, p, t)
        BY DEF Visited
      <4> HIDE DEF N1
      <4> QED BY <4>1, <3>1
    <3>3. Precedes(d2.post, p, c)
      <4>1. \A a, t : Precedes(d1.post, a, t) => Precedes(d2.post, a, t)
        BY DEF Visited
      <4> QED BY <4>1, <3>2
    <3> QED BY <3>2, <3>3, <1>4, <1>5
  <2>6. CASE c \in N2 /\ c \notin Succ(g, b)
    <3>1. c \in N2 \ {n2}
      BY <2>6, <1>3
    <3>2. PICK p \in N2 : c \in Succ(g, p) /\ Precedes(d2.post, p, c)
      <4>1. \A t \in N2 \ {n2} : \E p \in N2 : t \in Succ(g, p) /\ Precedes(d2.post, p, t)
        BY DEF Visited
      <4> HIDE DEF N2
      <4> QED BY <4>1, <3>1
    <3> QED BY <3>2, <1>4, <1>5
  <2> QED BY <2>2, <2>4, <2>5, <2>6
<1>10. \A a, c : Precedes(w.post, a, c) => Precedes(r.post, a, c)
  <2>1. \A a, c : Precedes(w.post, a, c) => Precedes(d1.post, a, c)
    BY DEF Visited
  <2>2. \A a, c : Precedes(d1.post, a, c) => Precedes(d2.post, a, c)
    BY DEF Visited
  <2> QED BY <2>1, <2>2, <1>5
<1>11. ASSUME NEW S \in SUBSET B, b \in S, \A x \in S : Succ(g, x) \cap N \subseteq S
       PROVE  N \subseteq S
  <2>1. N1 \subseteq S
    <3>1. N1 # {} => n1 \in N1
      BY DEF Visited
    <3>2. N1 # {} => n1 \in S
      <4>1. N1 # {} => n1 \in Succ(g, b) \cap N
        <5>1. N1 # {} => n1 \in N /\ n1 # nil
          BY <3>1, <1>3, <1>4
        <5> QED BY <5>1
      <4> QED BY <4>1, <1>11
    <3>3. \A x \in S : Succ(g, x) \cap N1 \subseteq S
      BY <1>11, <1>4
    <3>4. n1 \in S /\ (\A x \in S : Succ(g, x) \cap N1 \subseteq S) => N1 \subseteq S
      BY DEF Visited
    <3> HIDE DEF N1
    <3> QED BY <3>2, <3>3, <3>4
  <2>2. N2 \subseteq S
    <3>1. N2 # {} => n2 \in N2
      BY DEF Visited
    <3>2. N2 # {} => n2 \in S
      <4>1. N2 # {} => n2 \in Succ(g, b) \cap N
        <5>1. N2 # {} => n2 \in N /\ n2 # nil
          BY <3>1, <1>3, <1>4
        <5> QED BY <5>1
      <4> QED BY <4>1, <1>11
    <3>3. \A x \in S : Succ(g, x) \cap N2 \subseteq S
      BY <1>11, <1>4
    <3>4. n2 \in S /\ (\A x \in S : Succ(g, x) \cap N2 \subseteq S) => N2 \subseteq S
      BY DEF Visited
    <3> HIDE DEF N2
    <3> QED BY <3>2, <3>3, <3>4
  <2> QED BY <2>1, <2>2, <1>4, <1>11
<1>12. \A o \in ToSet(r.post) : Succ(g, o) \subseteq r.seen
  <2>1. \A o \in ToSet(w.post) : Succ(g, o) \subseteq w.seen
    BY DEF Fine
  <2> HIDE DEF N
  <2> QED BY <2>1, <1>2, <1>3, <1>6, <1>8
<1>13. ASSUME NEW o \in ToSet(r.post), NEW e \in Succ(g, o), Precedes(r.post, e, o)
       PROVE  Within(g, r.post, e, o)
  <2>1. SUFFICES ASSUME NEW S \in SUBSET B, e \in S,
                        \A x \in S : \A y \in Succ(g, x) : Precedes(r.post, e, y) => y \in S
                 PROVE  o \in S
    BY DEF Within
  <2>2. CASE e = b
    <3>1. o \in ToSet(d2.post)
      <4>1. o # b
        <5>1. SUFFICES ASSUME o = b PROVE FALSE
          OBVIOUS
        <5>2. Precedes(d2.post, b, b) \/ b \in ToSet(d2.post)
          BY <5>1, <2>2, <1>5, <1>13
        <5>3. Precedes(d2.post, b, b) => b \in ToSet(d2.post)
          <6>1. d2.post \in Seq(B)
            BY <1>1 DEF Visits
          <6> HIDE DEF B
          <6> QED BY <6>1, ItemFacts DEF Precedes
        <5> QED BY <5>2, <5>3, <1>4
      <4> QED BY <4>1, <1>5
    <3>2. o \in N
      <4>1. CASE o \in ToSet(w.post)
        <5>1. b \in w.seen
          BY <4>1, <2>2 DEF Fine
        <5> QED BY <5>1
      <4> QED BY <4>1, <3>1, <1>3, <1>4
    <3>3. ASSUME NEW x \in S, NEW y \in Succ(g, x) \cap N PROVE y \in S
      <4>1. CASE y = b
        BY <4>1, <2>1, <2>2
      <4>2. CASE y # b
        <5>1. y \in ToSet(d2.post)
          BY <4>2, <3>3, <1>3, <1>4
        <5>2. Precedes(r.post, e, y)
          BY <5>1, <2>2, <1>5
        <5> QED BY <5>2, <2>1, <3>3
      <4> QED BY <4>1, <4>2
    <3>4. N \subseteq S
      <4> HIDE DEF N
      <4> QED BY <3>3, <2>1, <2>2, <1>11
    <3> QED BY <3>2, <3>4
  <2>3. CASE e # b
    <3>1. Precedes(d2.post, e, o)
      BY <2>3, <1>5, <1>13
    <3>2. o \in ToSet(d2.post)
      <4>1. d2.post \in Seq(B)
        BY <1>1 DEF Visits
      <4> HIDE DEF B
      <4> QED BY <3>1, <4>1, ItemFacts DEF Precedes
    <3>3. Within(g, d2.post, e, o)
      BY <3>1, <3>2, <1>1 DEF Fine
    <3>4. \A x \in S : \A y \in Succ(g, x) : Precedes(d2.post, e, y) => y \in S
      BY <2>1, <1>5
    <3> QED BY <3>3, <3>4, <2>1 DEF Within
  <2> QED BY <2>2, <2>3
<1>14. Fine(g, r)
  <2>1. ToSet(r.post) \subseteq r.seen
    <3>1. ToSet(d2.post) \subseteq d2.seen
      BY <1>1 DEF Fine
    <3> QED BY <3>1, <1>2, <1>3, <1>5
  <2> QED BY <2>1, <1>2, <1>5, <1>12, <1>13 DEF Fine
<1>15. w.seen \subseteq r.seen /\ b \in r.seen /\ b \in N
  BY <1>2, <1>3, <1>4
<1>16. Visited(g, b, w, r)
  <2> HIDE DEF N1, N2
  <2> QED BY <1>5, <1>6, <1>8, <1>9, <1>10, <1>11, <1>14, <1>15 DEF Visited
<1> QED BY <1>16 DEF r

\* The depth first search visits what it has not seen.
LEMMA VisitFacts ==
  ASSUME NEW g, Sane(g), NEW n \in Nat, NEW b \in Blocs(g) \cup {nil}, NEW w, Fine(g, w),
         Cardinality(Blocs(g) \ w.seen) < n
  PROVE  Visited(g, b, w, Visit(g)[n][b][w])
<1> DEFINE B == Blocs(g)   V == Calls(g)
           S == {i \in Nat : \A c \in B \cup {nil} : \A u \in Visits(g) :
                   Fine(g, u) /\ Cardinality(B \ u.seen) < i => Visited(g, c, u, V[i][c][u])}
<1>1. Visit(g) = V
  BY Zenon DEF Visit, Calls
<1>2. \A i \in Nat : V[i + 1] = CallsAt(g, i + 1, V[i])
  BY CallsRec
<1> HIDE DEF V
<1>3. IsFiniteSet(B) /\ nil \notin B
  BY PoolFacts DEF Sane
<1>4. \A C : C \subseteq B => IsFiniteSet(C) /\ Cardinality(C) \in Nat
  BY <1>3, FS_Subset, FS_CardinalityType
<1>5. 0 \in S
  <2>1. ASSUME NEW u \in Visits(g), Cardinality(B \ u.seen) < 0 PROVE FALSE
    <3>1. Cardinality(B \ u.seen) \in Nat
      BY <1>4
    <3> QED BY <2>1, <3>1
  <2> QED BY <2>1
<1>6. ASSUME NEW k \in Nat, k \in S PROVE k + 1 \in S
  <2> SUFFICES ASSUME NEW c \in B \cup {nil}, NEW u \in Visits(g), Fine(g, u),
                      Cardinality(B \ u.seen) < k + 1
               PROVE  Visited(g, c, u, V[k + 1][c][u])
    OBVIOUS
  <2> DEFINE v == [u EXCEPT !.seen = @ \union {c}]
             x == g.exits[c]
             nat == V[k][x.nat][v]
             odd == IF x.nat = nil THEN nat ELSE V[k][x.odd][nat]
             r == [odd EXCEPT !.post = <<c>> \o @]
  <2>1. V[k + 1][c][u] = IF c = nil \/ c \in u.seen THEN u ELSE r
    <3>1. V[k + 1] = CallsAt(g, k + 1, V[k])
      BY <1>2
    <3>2. k + 1 # 0
      OBVIOUS
    <3>3. CallsAt(g, k + 1, V[k])[c][u] = IF k + 1 = 0 \/ c = nil \/ c \in u.seen THEN u ELSE r
      BY Zenon DEF CallsAt
    <3> HIDE DEF r
    <3> QED BY <3>1, <3>2, <3>3
  <2>2. ASSUME NEW d \in B \cup {nil}, NEW z, Fine(g, z), Cardinality(B \ z.seen) < k
        PROVE  Visited(g, d, z, V[k][d][z])
    <3>1. z \in Visits(g)
      BY Zenon, <2>2 DEF Fine
    <3> QED BY <1>6, <2>2, <3>1
  <2> HIDE DEF S
  <2>3. CASE c = nil \/ c \in u.seen
    <3>1. Visited(g, c, u, u)
      BY <2>3, <1>3, VisitNone
    <3> QED BY Zenon, <2>1, <2>3, <3>1
  <2>4. CASE ~ (c = nil \/ c \in u.seen)
    <3>1. Fine(g, v) /\ v.seen = u.seen \cup {c} /\ v.post = u.post
      BY <2>4, VisitEnter
    <3>2. Cardinality(B \ v.seen) < k
      <4> DEFINE C == B \ u.seen
      <4>1. IsFiniteSet(C) /\ Cardinality(C) \in Nat /\ c \in C
        BY <1>4, <2>4
      <4>2. Cardinality(C \ {c}) = Cardinality(C) - 1
        <5> HIDE DEF C
        <5> QED BY <4>1, FS_RemoveElement
      <4>3. B \ v.seen = C \ {c}
        BY <3>1
      <4>4. Cardinality(C) < k + 1
        OBVIOUS
      <4> HIDE DEF C, v
      <4> DEFINE p == Cardinality(C)   q == Cardinality(B \ v.seen)
      <4>5. p \in Nat /\ q = p - 1 /\ p < k + 1
        BY <4>1, <4>2, <4>3, <4>4
      <4> HIDE DEF p
      <4> QED BY <4>5
    <3> HIDE DEF v
    <3>3. x \in ExitsTo(B) /\ (x.nat = nil => x.odd = nil)
      BY <2>4 DEF Sane, Linked
    <3>4. x.nat \in B \cup {nil} /\ x.odd \in B \cup {nil} /\ Succ(g, c) = {x.nat, x.odd} \ {nil}
      BY <3>3 DEF ExitsTo, Succ, Targets
    <3> HIDE DEF x
    <3>5. Visited(g, x.nat, v, nat)
      BY <2>2, <3>1, <3>2, <3>4
    <3> HIDE DEF nat
    <3>6. Fine(g, nat) /\ v.seen \subseteq nat.seen
      BY <3>5 DEF Visited
    <3>7. Cardinality(B \ nat.seen) < k
      <4>1. B \ nat.seen \subseteq B \ v.seen /\ IsFiniteSet(B \ v.seen)
        BY <3>6, <1>4
      <4>2. Cardinality(B \ nat.seen) <= Cardinality(B \ v.seen)
        BY <4>1, FS_Subset
      <4>3. Cardinality(B \ nat.seen) \in Nat /\ Cardinality(B \ v.seen) \in Nat
        BY <1>4
      <4> QED BY <4>2, <4>3, <3>2
    <3>8. Visited(g, x.odd, nat, odd)
      <4>1. CASE x.nat = nil
        <5>1. x.odd = nil /\ odd = nat
          BY <4>1, <3>3
        <5> HIDE DEF odd
        <5> QED BY <5>1, <3>6, <1>3, VisitNone
      <4>2. CASE x.nat # nil
        BY <4>2, <2>2, <3>4, <3>6, <3>7
      <4> QED BY <4>1, <4>2
    <3> HIDE DEF odd
    <3>9. Succ(g, c) \subseteq B
      BY <3>4
    <3>10. Visited(g, c, u, r)
      BY <2>4, <1>3, <3>1, <3>4, <3>5, <3>8, <3>9, VisitLeave
    <3> HIDE DEF r
    <3> QED BY <2>1, <2>4, <3>10
  <2> QED BY <2>3, <2>4
<1> HIDE DEF S
<1>7. Nat \subseteq S
  BY <1>5, <1>6, Induction
<1>8. w \in Visits(g)
  BY DEF Fine
<1> QED BY <1>1, <1>7, <1>8 DEF S

\* The order that a graph is refreshed with: an edge either leads to a later
\* bloc, or closes a cycle.
Sorted(g, order) ==
  /\ order \in Seq(Blocs(g)) /\ IsInjective(order) /\ ToSet(order) = Blocs(g)
  /\ order # <<>> /\ order[1] = entry_bloc
  /\ \A c \in Blocs(g) \ {entry_bloc} : \E p \in Blocs(g) : c \in Succ(g, p) /\ Precedes(order, p, c)
  /\ \A o \in Blocs(g) : \A e \in Succ(g, o) : Precedes(order, e, o) => Within(g, order, e, o)

LEMMA OrderFacts ==
  ASSUME NEW g, Sane(g), Rooted(g)
  PROVE  Sorted(g, ReversePostOrder(g))
<1> DEFINE w == [seen |-> {}, post |-> <<>>]   B == Blocs(g)   n == Len(g.pool) + 1
           r == Visit(g)[n][entry_bloc][w]
<1>1. g.pool[1] = entry_bloc /\ entry_bloc \in B /\ Len(g.pool) \in Nat
      /\ Cardinality(B) = Len(g.pool) /\ nil \notin B
  BY PoolFacts DEF Sane, Pooled
<1>2. ReversePostOrder(g) = r.post
  BY <1>1 DEF ReversePostOrder
<1>3. w.seen = {} /\ w.post = <<>> /\ ToSet(w.post) = {} /\ w \in Visits(g)
  <2>1. <<>> \in Seq(B)
    OBVIOUS
  <2> QED BY <2>1, NoItems DEF Visits
<1>4. Fine(g, w)
  BY <1>3 DEF Fine, IsInjective
<1>5. Visited(g, entry_bloc, w, r)
  <2>1. Cardinality(B \ w.seen) < n
    <3>1. B \ w.seen = B
      BY <1>3
    <3> QED BY <1>1, <3>1
  <2>2. n \in Nat
    BY <1>1
  <2> HIDE DEF n, w
  <2> QED BY <1>1, <1>4, <2>1, <2>2, VisitFacts
<1> HIDE DEF r, w
<1>6. r.seen \subseteq B /\ r.post \in Seq(B) /\ IsInjective(r.post)
  BY <1>5 DEF Visited, Fine, Visits
<1>7. entry_bloc \in r.seen /\ (\A c \in r.seen : Succ(g, c) \subseteq r.seen)
      /\ ToSet(r.post) = r.seen
  BY <1>1, <1>3, <1>5 DEF Visited
<1>8. r.seen = B
  BY <1>6, <1>7 DEF Rooted
<1>9. /\ \A c \in B \ {entry_bloc} : \E p \in B : c \in Succ(g, p) /\ Precedes(r.post, p, c)
      /\ r.post # <<>> /\ r.post[1] = entry_bloc
  BY <1>1, <1>3, <1>5, <1>8 DEF Visited
<1>10. \A o \in B : \A e \in Succ(g, o) : Precedes(r.post, e, o) => Within(g, r.post, e, o)
  BY <1>5, <1>7, <1>8 DEF Visited, Fine
<1> QED BY <1>2, <1>6, <1>7, <1>8, <1>9, <1>10 DEF Sorted

\* The graph is refreshed without an exception.
LEMMA RefreshFacts ==
  ASSUME NEW g, Sane(g), Rooted(g)
  PROVE  LET h == Refresh(g)
         IN  /\ Sane(h) /\ Rooted(h) /\ h.error = g.error /\ Blocs(h) = Blocs(g)
             /\ h.exits = g.exits /\ Alike(g, h, {"pool"}) /\ Sorted(h, h.pool)
<1> DEFINE B == Blocs(g)   order == ReversePostOrder(g)   h == [g EXCEPT !.pool = order]
<1>1. Sorted(g, order)
  BY OrderFacts
<1> HIDE DEF order
<1>2. /\ order \in Seq(B) /\ IsInjective(order) /\ ToSet(order) = B
      /\ order # <<>> /\ order[1] = entry_bloc
  BY <1>1 DEF Sorted
<1>3. g = [f \in Fields |-> g[f]] /\ g.pool[1] = entry_bloc /\ B \subseteq Nat \ {nil}
      /\ Cardinality(B) = Len(g.pool)
  BY PoolFacts DEF Sane, Pooled
<1>4. Len(order) = Len(g.pool) /\ order \in Seq(Nat \ {nil}) /\ Len(order) # 0
  <2>1. Len(order) \in Nat /\ DOMAIN order = 1 .. Len(order) /\ order \in [1 .. Len(order) -> B]
    BY <1>2
  <2>2. \A i, j \in 1 .. Len(order) : order[i] = order[j] => i = j
    BY <1>2, ItemFacts
  <2>3. \A b \in B : \E i \in 1 .. Len(order) : order[i] = b
    BY <1>2, ItemFacts
  <2>4. order \in Bijection(1 .. Len(order), B)
    BY <2>1, <2>2, <2>3 DEF Bijection, Injection, Surjection, IsInjective
  <2>5. Cardinality(B) = Len(order)
    <3>1. ExistsBijection(1 .. Len(order), B)
      BY <2>4 DEF ExistsBijection
    <3> HIDE DEF B
    <3> QED BY <2>1, <3>1, FS_CountingElements
  <2>6. order \in Seq(Nat \ {nil})
    <3>1. order \in [1 .. Len(order) -> Nat \ {nil}]
      BY <2>1, <1>3
    <3> QED BY <2>1, <3>1
  <2>7. Len(order) # 0
    BY <1>2
  <2> QED BY <2>5, <2>6, <2>7, <1>3
<1>5. Refresh(g) = h
  BY <1>3, <1>4 DEF Refresh, order
<1>6. /\ h = [f \in Fields |-> h[f]] /\ h.pool = order
      /\ \A f \in Fields \ {"pool"} : h[f] = g[f]
  BY <1>3 DEF Fields
<1> HIDE DEF h
<1>7. Alike(g, h, {"pool"}) /\ h.exits = g.exits /\ h.error = g.error
      /\ h.prevcount = g.prevcount /\ h.fresh = g.fresh /\ h.stmts = g.stmts
  BY <1>6 DEF Alike, Fields
<1>8. Blocs(h) = B
  BY <1>2, <1>6 DEF Blocs
<1>9. Sane(h)
  <2>1. Pooled(h)
    BY <1>2, <1>4, <1>6, <1>7, <1>8 DEF Sane, Pooled
  <2>2. Linked(h) /\ Counted(h)
    BY <1>7, <1>8 DEF Sane, Linked, Counted
  <2> QED BY <2>1, <2>2 DEF Sane
<1>10. \A b : Succ(h, b) = Succ(g, b)
  BY <1>7 DEF Succ
<1>11. Rooted(h)
  BY <1>8, <1>10 DEF Rooted
<1>12. Sorted(h, h.pool)
  <2>1. \A e, o : Within(g, order, e, o) => Within(h, order, e, o)
    BY <1>8, <1>10 DEF Within
  <2> QED BY <1>1, <1>6, <1>8, <1>10, <2>1 DEF Sorted
<1> QED BY <1>5, <1>7, <1>8, <1>9, <1>11, <1>12 DEF h

-----------------------------------------------------------------------------
(* Decoding.                                                               *)

\* The exits that w says are still to be set: different ones, none of them set,
\* and the natural exit of a bloc before the odd one.
Waiting(g, w) ==
  /\ w \in Seq(Blocs(g) \X BOOLEAN) /\ IsInjective(w)
  /\ \A i \in 1 .. Len(w) :
       /\ Get(g.exits[w[i][1]], w[i][2]) = nil
       /\ w[i][2] => \/ g.exits[w[i][1]].nat # nil
                     \/ \E j \in 1 .. i - 1 : w[j] = <<w[i][1], FALSE>>

LEMMA FetchedFacts ==
  /\ Sane(Fetched1) /\ Rooted(Fetched1) /\ Blocs(Fetched1) = {entry_bloc}
  /\ Fetched1.error = "none" /\ Fetched1.exits[entry_bloc] = NoExits
<1> DEFINE g == Fetched1
<1>1. /\ g = [f \in Fields |-> g[f]]
  BY DEF Fetched1, Fields
<1>2. /\ g.pool = <<1>> /\ g.exits = <<NoExits>> /\ g.prevcount = <<1>> /\ g.fresh = 2
      /\ DOMAIN g.stmts = {1} /\ g.error = "none"
  BY DEF Fetched1, entry_bloc
<1> HIDE DEF g
<1>3. Blocs(g) = {1}
  BY <1>2 DEF Blocs, ToSet
<1>4. Pooled(g)
  <2>1. g.pool \in Seq(Nat \ {nil}) /\ IsInjective(g.pool) /\ Len(g.pool) # 0 /\ g.pool[1] = entry_bloc
    BY <1>2 DEF IsInjective, nil, entry_bloc
  <2>2. g.fresh \in Nat /\ \A b \in Blocs(g) : b < g.fresh
    BY <1>2, <1>3
  <2>3. DOMAIN g.stmts = Blocs(g)
    BY <1>2, <1>3
  <2> QED BY <1>1, <2>1, <2>2, <2>3 DEF Pooled
<1>5. Linked(g) /\ g.exits[1] = NoExits
  BY <1>2, <1>3 DEF Linked, ExitsTo, NoExits, Exits, nil
<1>6. Counted(g)
  <2>1. Links(g.exits, Blocs(g), 1) = {}
    BY <1>3, <1>5 DEF Links, NoExits, Exits, Get, nil
  <2>2. Cardinality(Links(g.exits, Blocs(g), 1)) = 0
    BY <2>1, FS_EmptySet
  <2>3. Held(1) = 1
    BY DEF Held, One, entry_bloc
  <2> QED BY <1>2, <1>3, <2>2, <2>3 DEF Counted
<1>7. Rooted(g)
  BY <1>3 DEF Rooted, entry_bloc
<1> QED BY <1>2, <1>3, <1>4, <1>5, <1>6, <1>7 DEF Sane, g, entry_bloc

LEMMA WaitingHead ==
  ASSUME NEW g, NEW w, Waiting(g, w), w # <<>>
  PROVE  LET b == Head(w)[1]   alt == Head(w)[2]
         IN  /\ b \in Blocs(g) /\ alt \in BOOLEAN /\ Get(g.exits[b], alt) = nil
             /\ alt => g.exits[b].nat # nil
<1>1. 1 \in 1 .. Len(w) /\ Head(w) = w[1] /\ w[1] \in Blocs(g) \X BOOLEAN
  BY DEF Waiting
<1>2. 1 .. 1 - 1 = {}
  OBVIOUS
<1> QED BY <1>1, <1>2 DEF Waiting

LEMMA WaitingTail ==
  ASSUME NEW g, NEW h, NEW w, Waiting(g, w), w # <<>>, Blocs(g) \subseteq Blocs(h),
         g.exits \in [Blocs(g) -> ExitsTo(Blocs(g))],
         NEW t \in Nat \ {nil},
         h.exits[Head(w)[1]] = Put(g.exits[Head(w)[1]], Head(w)[2], t),
         \A b \in Blocs(g) : b # Head(w)[1] => h.exits[b] = g.exits[b]
  PROVE  /\ Waiting(h, Tail(w)) /\ Tail(w) \in Seq(Blocs(g) \X BOOLEAN)
<1> DEFINE b == Head(w)[1]   alt == Head(w)[2]   s == Tail(w)
<1>1. /\ w \in Seq(Blocs(g) \X BOOLEAN) /\ 1 \in 1 .. Len(w) /\ Head(w) = w[1]
      /\ w[1] \in Blocs(g) \X BOOLEAN
  BY DEF Waiting
<1>2. /\ s \in Seq(Blocs(g) \X BOOLEAN) /\ Len(s) = Len(w) - 1 /\ Len(w) \in Nat
      /\ \A i \in 1 .. Len(s) : s[i] = w[i + 1] /\ i + 1 \in 1 .. Len(w)
  BY <1>1
<1>3. \A i, j \in 1 .. Len(w) : w[i] = w[j] => i = j
  BY <1>1 DEF Waiting, IsInjective
<1>4. DOMAIN s = 1 .. Len(s)
  BY <1>2
<1>5. IsInjective(s)
  <2> HIDE DEF s
  <2>1. ASSUME NEW i \in 1 .. Len(s), NEW j \in 1 .. Len(s), s[i] = s[j] PROVE i = j
    <3>1. i + 1 = j + 1
      BY <1>2, <1>3, <2>1
    <3> QED BY <3>1
  <2> QED BY <1>4, <2>1 DEF IsInjective
<1>6. g.exits[b] \in ExitsTo(Blocs(g)) /\ b \in Blocs(g) /\ alt \in BOOLEAN
  BY <1>1
<1>7. ASSUME NEW i \in 1 .. Len(s)
      PROVE  /\ Get(h.exits[s[i][1]], s[i][2]) = nil
             /\ s[i][2] => \/ h.exits[s[i][1]].nat # nil
                           \/ \E j \in 1 .. i - 1 : s[j] = <<s[i][1], FALSE>>
  <2> DEFINE c == s[i][1]   a == s[i][2]
  <2>1. s[i] = w[i + 1] /\ i + 1 \in 1 .. Len(w) /\ w[i + 1] # w[1] /\ s[i] \in Blocs(g) \X BOOLEAN
    <3>1. i + 1 # 1
      OBVIOUS
    <3> QED BY <1>1, <1>2, <1>3, <3>1
  <2>2. /\ Get(g.exits[c], a) = nil
        /\ a => g.exits[c].nat # nil \/ \E j \in 1 .. (i + 1) - 1 : w[j] = <<c, FALSE>>
    <3>1. \A f \in 1 .. Len(w) :
            /\ Get(g.exits[w[f][1]], w[f][2]) = nil
            /\ w[f][2] => \/ g.exits[w[f][1]].nat # nil
                          \/ \E j \in 1 .. f - 1 : w[j] = <<w[f][1], FALSE>>
      BY DEF Waiting
    <3>2. c = w[i + 1][1] /\ a = w[i + 1][2]
      BY <2>1
    <3> HIDE DEF c, a
    <3> QED BY <2>1, <3>1, <3>2
  <2>3. c \in Blocs(g) /\ a \in BOOLEAN /\ s[i] = <<c, a>> /\ w[1] = <<b, alt>>
    BY <1>1, <2>1
  <2>4. c # b \/ a # alt
    BY <2>1, <2>3
  <2> HIDE DEF c, a, b, alt
  <2>5. Get(h.exits[c], a) = nil
    <3>1. CASE c # b
      BY <3>1, <2>2, <2>3 DEF b
    <3>2. CASE c = b
      <4>1. h.exits[b] = Put(g.exits[b], alt, t)
        BY DEF b, alt
      <4> QED BY <4>1, <3>2, <1>6, <2>2, <2>3, <2>4 DEF Put, Get, ExitsTo
    <3> QED BY <3>1, <3>2
  <2>6. ASSUME a PROVE h.exits[c].nat # nil \/ \E j \in 1 .. i - 1 : s[j] = <<c, FALSE>>
    <3>1. CASE g.exits[c].nat # nil
      <4>1. CASE c # b
        BY <3>1, <4>1, <2>3 DEF b
      <4>2. CASE c = b
        <5>1. h.exits[b] = Put(g.exits[b], alt, t)
          BY DEF b, alt
        <5> QED BY <5>1, <3>1, <4>2, <1>6 DEF Put, ExitsTo
      <4> QED BY <4>1, <4>2
    <3>2. CASE \E j \in 1 .. (i + 1) - 1 : w[j] = <<c, FALSE>>
      <4>1. PICK j \in 1 .. (i + 1) - 1 : w[j] = <<c, FALSE>>
        BY <3>2
      <4>2. CASE j = 1
        <5>1. b = c /\ alt = FALSE
          <6>1. <<b, alt>> = <<c, FALSE>>
            BY <4>1, <4>2, <2>3
          <6> QED BY <6>1
        <5>2. h.exits[b] = Put(g.exits[b], alt, t)
          BY DEF b, alt
        <5> QED BY <5>1, <5>2, <1>6 DEF Put, ExitsTo
      <4>3. CASE j # 1
        <5>1. j - 1 \in 1 .. Len(s) /\ j - 1 \in 1 .. i - 1 /\ (j - 1) + 1 = j
          BY <4>3, <1>2
        <5>2. s[j - 1] = w[j]
          BY <5>1, <1>2
        <5> QED BY <4>1, <5>1, <5>2
      <4> QED BY <4>2, <4>3
    <3> QED BY <3>1, <3>2, <2>2, <2>6
  <2> QED BY <2>5, <2>6 DEF c, a
<1>8. s \in Seq(Blocs(h) \X BOOLEAN)
  BY <1>2
<1> HIDE DEF s
<1> QED BY <1>2, <1>5, <1>7, <1>8 DEF Waiting, s

LEMMA WaitingMore ==
  ASSUME NEW g, NEW w, Waiting(g, w), NEW b \in Blocs(g), g.exits[b] = NoExits,
         \A i \in 1 .. Len(w) : w[i][1] # b, NEW k \in Kinds(b)
  PROVE  Waiting(g, k \o w)
<1> DEFINE s == k \o w   n == Len(k)   no == <<b, FALSE>>   yes == <<b, TRUE>>
<1>1. /\ w \in Seq(Blocs(g) \X BOOLEAN) /\ Len(w) \in Nat /\ DOMAIN w = 1 .. Len(w)
      /\ \A i, j \in 1 .. Len(w) : w[i] = w[j] => i = j
      /\ \A i \in 1 .. Len(w) : w[i] \in Blocs(g) \X BOOLEAN
  BY DEF Waiting, IsInjective
<1>2. /\ no \in Blocs(g) \X BOOLEAN /\ yes \in Blocs(g) \X BOOLEAN /\ no # yes
      /\ no[1] = b /\ yes[1] = b /\ ~ no[2] /\ yes[2] /\ no = <<yes[1], FALSE>>
      /\ Get(g.exits[no[1]], no[2]) = nil /\ Get(g.exits[yes[1]], yes[2]) = nil
  <2>1. no \in Blocs(g) \X BOOLEAN /\ yes \in Blocs(g) \X BOOLEAN
    OBVIOUS
  <2>2. no[1] = b /\ yes[1] = b /\ ~ no[2] /\ yes[2]
    OBVIOUS
  <2>3. no = <<yes[1], FALSE>>
    BY <2>2
  <2>4. Get(g.exits[no[1]], no[2]) = nil /\ Get(g.exits[yes[1]], yes[2]) = nil
    <3> HIDE DEF no, yes
    <3> QED BY <2>2 DEF Get, NoExits, Exits
  <2> HIDE DEF no, yes
  <2> QED BY <2>1, <2>2, <2>3, <2>4
<1>3. k \in { <<>>, << no >>, << no, yes >> }
  BY DEF Kinds
<1> HIDE DEF no, yes
<1>4. /\ n \in 0 .. 2 /\ k \in Seq(Blocs(g) \X BOOLEAN)
      /\ n >= 1 => k[1] = no
      /\ n = 2 => k[2] = yes
  <2> DEFINE P == Blocs(g) \X BOOLEAN
  <2>1. no \in P /\ yes \in P
    BY <1>2
  <2> SUFFICES n \in 0 .. 2 /\ k \in Seq(P) /\ (n >= 1 => k[1] = no) /\ (n = 2 => k[2] = yes)
    OBVIOUS
  <2> HIDE DEF P
  <2>2. CASE k = <<>>
    BY <2>2
  <2>3. CASE k = << no >>
    BY <2>1, <2>3
  <2>4. CASE k = << no, yes >>
    BY <2>1, <2>4
  <2> QED BY <2>2, <2>3, <2>4, <1>3
<1>5. /\ s \in Seq(Blocs(g) \X BOOLEAN) /\ Len(s) = n + Len(w) /\ DOMAIN s = 1 .. Len(s)
      /\ \A i \in 1 .. n : s[i] = k[i]
      /\ \A i \in 1 .. Len(w) : s[n + i] = w[i]
  BY <1>1, <1>4
<1> HIDE DEF s, n
<1> DEFINE From(i) == \E j \in 1 .. Len(w) : i = n + j /\ s[i] = w[j] /\ w[j][1] # b
<1>6. ASSUME NEW i \in 1 .. Len(s)
      PROVE  \/ i = 1 /\ n >= 1 /\ s[i] = no
             \/ i = 2 /\ n = 2 /\ s[i] = yes /\ s[1] = no
             \/ From(i)
  <2>1. CASE i <= n
    <3>1. n \in 1 .. 2 /\ i \in 1 .. n
      BY <2>1, <1>4
    <3>2. i = 1 \/ (i = 2 /\ n = 2)
      BY <3>1
    <3> QED BY <3>1, <3>2, <1>4, <1>5
  <2>2. CASE i > n
    <3>1. i - n \in 1 .. Len(w) /\ n + (i - n) = i
      BY <2>2, <1>1, <1>4, <1>5
    <3> QED BY <3>1, <1>5
  <2>3. i \in Int /\ n \in Int
    BY <1>4
  <2> HIDE DEF From
  <2> QED BY <2>1, <2>2, <2>3
<1>7. ASSUME NEW i \in 1 .. Len(s), From(i) PROVE s[i] # no /\ s[i] # yes
  BY <1>2, <1>7
<1>8. IsInjective(s)
  <2>1. ASSUME NEW i \in 1 .. Len(s), NEW j \in 1 .. Len(s), s[i] = s[j] PROVE i = j
    <3>1. CASE From(i) /\ From(j)
      BY <3>1, <2>1, <1>1
    <3> HIDE DEF From
    <3>2. CASE ~ (From(i) /\ From(j))
      BY <3>2, <2>1, <1>2, <1>6, <1>7
    <3> QED BY <3>1, <3>2
  <2> QED BY <1>5, <2>1 DEF IsInjective
<1>9. ASSUME NEW i \in 1 .. Len(s)
      PROVE  /\ Get(g.exits[s[i][1]], s[i][2]) = nil
             /\ s[i][2] => \/ g.exits[s[i][1]].nat # nil
                           \/ \E j \in 1 .. i - 1 : s[j] = <<s[i][1], FALSE>>
  <2>1. CASE s[i] = no
    BY <2>1, <1>2
  <2>2. CASE i = 2 /\ s[i] = yes /\ s[1] = no
    <3>1. 1 \in 1 .. i - 1 /\ s[1] = <<s[i][1], FALSE>>
      BY <2>2, <1>2
    <3> QED BY <2>2, <3>1, <1>2
  <2>3. CASE From(i)
    <3>1. PICK j \in 1 .. Len(w) : i = n + j /\ s[i] = w[j] /\ w[j][1] # b
      BY <2>3
    <3>2. /\ Get(g.exits[w[j][1]], w[j][2]) = nil
          /\ w[j][2] => \/ g.exits[w[j][1]].nat # nil
                        \/ \E f \in 1 .. j - 1 : w[f] = <<w[j][1], FALSE>>
      BY DEF Waiting
    <3>3. ASSUME NEW f \in 1 .. j - 1 PROVE n + f \in 1 .. i - 1 /\ s[n + f] = w[f]
      <4>1. f \in 1 .. Len(w) /\ f < j /\ n \in Nat /\ j \in Nat
        BY <1>1, <1>4
      <4>2. s[n + f] = w[f]
        BY <4>1, <1>5
      <4>3. n + f \in 1 .. i - 1
        BY <4>1, <3>1
      <4> QED BY <4>2, <4>3
    <3>4. ASSUME w[j][2], NEW f \in 1 .. j - 1, w[f] = <<w[j][1], FALSE>>
          PROVE  \E l \in 1 .. i - 1 : s[l] = <<w[j][1], FALSE>>
      <4>1. n + f \in 1 .. i - 1 /\ s[n + f] = w[f]
        BY <3>3
      <4> QED BY <3>4, <4>1
    <3> QED BY Zenon, <3>1, <3>2, <3>4
  <2> HIDE DEF From
  <2> QED BY <2>1, <2>2, <2>3, <1>6
<1> QED BY <1>5, <1>8, <1>9 DEF Waiting, s

\* An exit that was not set is led to a bloc already fetched.
LEMMA DecodeKnownFacts ==
  ASSUME NEW g, Sane(g), Rooted(g), NEW w, Waiting(g, w), w # <<>>, NEW t \in Blocs(g)
  PROVE  LET h == SetExit(g, Head(w)[1], Head(w)[2], t)
         IN  /\ Sane(h) /\ Rooted(h) /\ h.error = g.error /\ Waiting(h, Tail(w))
<1> DEFINE b == Head(w)[1]   alt == Head(w)[2]   h == SetExit(g, b, alt, t)   B == Blocs(g)
<1>1. b \in B /\ alt \in BOOLEAN /\ Get(g.exits[b], alt) = nil /\ (alt => g.exits[b].nat # nil)
  BY WaitingHead
<1>2. g.exits \in [B -> ExitsTo(B)] /\ B \subseteq Nat \ {nil}
  BY PoolFacts DEF Sane, Linked
<1>3. /\ Sane(h) /\ Blocs(h) = B /\ Alike(g, h, {"exits", "prevcount"})
      /\ h.exits = [g.exits EXCEPT ![b] = Put(@, alt, t)]
  <2> HIDE DEF b, alt
  <2> QED BY <1>1, SetExitFacts
<1>4. h.error = g.error
  BY <1>3 DEF Alike, Fields
<1> HIDE DEF h
<1>5. h.exits[b] = Put(g.exits[b], alt, t) /\ \A c \in B : c # b => h.exits[c] = g.exits[c]
  BY <1>1, <1>2, <1>3
<1>6. Waiting(h, Tail(w))
  BY <1>2, <1>3, <1>5, WaitingTail
<1> HIDE DEF b, alt
<1>7. \A c \in B : Succ(g, c) \subseteq Succ(h, c)
  <2>1. Targets(g.exits[b]) \subseteq Targets(Put(g.exits[b], alt, t))
    <3>1. g.exits[b] \in ExitsTo(B)
      BY <1>1, <1>2
    <3> QED BY <3>1, <1>1 DEF Targets, Put, Get, ExitsTo
  <2> QED BY <2>1, <1>5 DEF Succ
<1>8. Rooted(h)
  BY <1>3, <1>7 DEF Rooted
<1> QED BY <1>3, <1>4, <1>6, <1>8 DEF h, b, alt

\* ... or to a new one, whose own exits come next.
LEMMA DecodeNewFacts ==
  ASSUME NEW g, Sane(g), Rooted(g), NEW w, Waiting(g, w), w # <<>>, NEW ss,
         NEW k \in Kinds(g.fresh)
  PROVE  LET h == SetExit(NewBloc(g, ss), Head(w)[1], Head(w)[2], g.fresh)
         IN  /\ Sane(h) /\ Rooted(h) /\ h.error = g.error /\ Waiting(h, k \o Tail(w))
<1> DEFINE b == Head(w)[1]   alt == Head(w)[2]   n == g.fresh   f == NewBloc(g, ss)
           h == SetExit(f, b, alt, n)   B == Blocs(g)
<1>1. b \in B /\ alt \in BOOLEAN /\ Get(g.exits[b], alt) = nil /\ (alt => g.exits[b].nat # nil)
  BY WaitingHead
<1>2. g.exits \in [B -> ExitsTo(B)] /\ B \subseteq Nat \ {nil}
  BY PoolFacts DEF Sane, Linked
<1>3. /\ Sane(f) /\ n \notin B /\ n \in Nat \ {nil, entry_bloc} /\ Blocs(f) = B \cup {n}
      /\ Alike(g, f, {"pool", "exits", "prevcount", "stmts", "fresh"})
      /\ f.exits[n] = NoExits /\ \A c \in B : f.exits[c] = g.exits[c]
  BY NewBlocFacts
<1>4. f.error = g.error
  BY <1>3 DEF Alike, Fields
<1> HIDE DEF f, n
<1>5. /\ Sane(h) /\ Blocs(h) = Blocs(f) /\ Alike(f, h, {"exits", "prevcount"})
      /\ h.exits = [f.exits EXCEPT ![b] = Put(@, alt, n)]
  <2>1. b \in Blocs(f) /\ n \in Blocs(f) /\ (alt => f.exits[b].nat # nil)
    BY <1>1, <1>3
  <2>2. Sane(f)
    BY <1>3
  <2> HIDE DEF b, alt, B
  <2> QED BY <1>1, <2>1, <2>2, SetExitFacts
<1>6. h.error = g.error
  BY <1>4, <1>5 DEF Alike, Fields
<1> HIDE DEF h
<1>7. /\ h.exits[b] = Put(g.exits[b], alt, n) /\ \A c \in B : c # b => h.exits[c] = g.exits[c]
      /\ h.exits[n] = NoExits
  <2>1. f.exits \in [Blocs(f) -> ExitsTo(Blocs(f))]
    BY <1>3 DEF Sane, Linked
  <2>2. n # b
    BY <1>1, <1>3
  <2> HIDE DEF b, alt
  <2> QED BY <1>1, <1>3, <1>5, <2>1, <2>2
<1>8. B \subseteq Blocs(h) /\ n \in Blocs(h) /\ n \in Nat \ {nil}
  BY <1>3, <1>5
<1>9. Waiting(h, Tail(w)) /\ Tail(w) \in Seq(B \X BOOLEAN)
  BY <1>2, <1>7, <1>8, WaitingTail
<1>10. \A i \in 1 .. Len(Tail(w)) : Tail(w)[i][1] # n
  <2> DEFINE s == Tail(w)
  <2>1. s \in Seq(B \X BOOLEAN)
    BY <1>9
  <2> HIDE DEF s
  <2>2. \A i \in 1 .. Len(s) : s[i] \in B \X BOOLEAN
    BY <2>1
  <2>3. \A i \in 1 .. Len(s) : s[i][1] \in B
    BY <2>2
  <2> QED BY <2>3, <1>3 DEF s
<1>11. k \in Kinds(n)
  BY DEF n
<1>12. Waiting(h, k \o Tail(w))
  BY <1>7, <1>8, <1>9, <1>10, <1>11, WaitingMore
<1> HIDE DEF b, alt
<1>13. /\ \A c \in B : Succ(g, c) \subseteq Succ(h, c) /\ n \in Succ(h, b)
  <2>1. /\ Targets(g.exits[b]) \subseteq Targets(Put(g.exits[b], alt, n))
        /\ n \in Targets(Put(g.exits[b], alt, n))
    <3>1. g.exits[b] \in ExitsTo(B) /\ n # nil
      BY <1>1, <1>2, <1>3
    <3> QED BY <3>1, <1>1 DEF Targets, Put, Get, ExitsTo
  <2> QED BY <2>1, <1>7 DEF Succ
<1>14. Rooted(h)
  <2> SUFFICES ASSUME NEW S \in SUBSET Blocs(h), entry_bloc \in S,
                      \A c \in S : Succ(h, c) \subseteq S
               PROVE  S = Blocs(h)
    BY DEF Rooted
  <2> DEFINE T == S \cap B
  <2>1. \A c \in B : Succ(g, c) \subseteq B
    BY SuccIn
  <2>2. T \in SUBSET B /\ entry_bloc \in T /\ \A c \in T : Succ(g, c) \subseteq T
    <3>1. entry_bloc \in B
      BY PoolFacts DEF Sane
    <3> QED BY <2>1, <3>1, <1>13
  <2>3. T = B
    BY <2>2 DEF Rooted
  <2>4. n \in S
    BY <2>3, <1>1, <1>13
  <2> QED BY <2>3, <2>4, <1>3, <1>5
<1> QED BY <1>5, <1>6, <1>12, <1>14 DEF h, f, n, b, alt

-----------------------------------------------------------------------------
(* What the search is sure to find.                                        *)

LEMMA FoundDone ==
  ASSUME NEW g, NEW p, NEW n \in Nat, NEW c \in Trials(g, p), c.next = nil
  PROVE  Found(g, p)[n][c] = [blocs |-> c.matched, exits |-> c.exits]
<1>1. Found(g, p)[n] = FoundBody(g, p, n, Found(g, p)[n - 1])
  BY FoundRec
<1> QED BY <1>1, Zenon DEF FoundBody

LEMMA FoundLast ==
  ASSUME NEW g, NEW p, NEW n \in Nat, NEW c \in Trials(g, p), c.next # nil, NEW d,
         Found(g, p)[n][d] # NoMatch,
         Ways(g, p, c) = <<d>> \/ \E e : Ways(g, p, c) = <<e, d>>
  PROVE  Found(g, p)[n + 1][c] # NoMatch
<1> DEFINE F == Found(g, p)   ways == Ways(g, p, c)   one == F[n][ways[1]]
<1>1. F[n + 1] = FoundBody(g, p, n + 1, F[n])
  <2>1. n + 1 \in Nat /\ (n + 1) - 1 = n
    OBVIOUS
  <2>2. F[n + 1] = FoundBody(g, p, n + 1, F[(n + 1) - 1])
    BY <2>1, FoundRec
  <2> QED BY <2>1, <2>2
<1> HIDE DEF F
<1>2. F[n + 1][c] = IF c.next = nil THEN [blocs |-> c.matched, exits |-> c.exits]
                    ELSE IF n + 1 = 0 \/ ways = <<>> THEN NoMatch
                    ELSE IF Len(ways) = 1 \/ one # NoMatch THEN one
                    ELSE F[n][ways[2]]
  BY <1>1, Zenon DEF FoundBody
<1>3. n + 1 # 0 /\ F[n][d] # NoMatch
  BY DEF F
<1>4. CASE ways = <<d>>
  <2>1. ways # <<>> /\ Len(ways) = 1 /\ ways[1] = d
    BY <1>4
  <2> HIDE DEF ways
  <2> QED BY <1>2, <1>3, <2>1 DEF F
<1>5. CASE \E e : ways = <<e, d>>
  <2>1. PICK e : ways = <<e, d>>
    BY <1>5
  <2>2. ways # <<>> /\ Len(ways) = 2 /\ ways[2] = d
    BY <2>1
  <2> HIDE DEF ways
  <2> QED BY <1>2, <1>3, <2>2 DEF F
<1> QED BY <1>4, <1>5

\* A sequence is found from a bloc whose only successor has no other way in.
LEMMA SequenceFound ==
  ASSUME NEW g, Sane(g), Rooted(g), NEW b \in Blocs(g), g.exits[b].odd = nil,
         NEW t \in Blocs(g), g.exits[b].nat = t, t # b, g.prevcount[t] <= 1
  PROVE  Accepted(Seq2, Match(g, Seq2, b))
<1> DEFINE n == Nesting(g)   x == g.exits[t]
           c1 == Trial(1, b, <<>>, <<>>, NoExits)
           c2 == Trial(2, t, <<b>>, <<>>, NoExits)
           c3 == Trial(3, t, <<b>>, <<>>, NoExits)
           c5 == Trial(5, t, <<b>>, <<>>, NoExits)
           c6 == Trial(6, nil, Append(<<b>>, t), <<>>, x)
<1>1. n - 3 \in Nat /\ n - 2 \in Nat /\ n - 1 \in Nat /\ n \in Nat
      /\ (n - 3) + 1 = n - 2 /\ (n - 2) + 1 = n - 1 /\ (n - 1) + 1 = n
  <2>1. Len(g.pool) \in Nat
    BY PoolFacts DEF Sane
  <2> QED BY <2>1 DEF Nesting
<1> HIDE DEF n
<1>2. nil \notin Blocs(g) /\ b # nil /\ t # nil /\ Seq2 \in Patterns /\ Seq2 # Loop
  BY PoolFacts, Lengths DEF Sane, Patterns
<1>3. Len(Seq2) = 5 /\ Seq2[1] = "," /\ Seq2[2] = "(" /\ Seq2[5] = "!"
  BY DEF Seq2
<1>4. FirstTrial(b) = c1 /\ Tried(g, Seq2, b, c1)
  <2>1. FirstTrial(b) = c1
    BY DEF FirstTrial, Trial
  <2> QED BY <2>1, <1>2, FirstTried
<1>5. /\ c1.at = 1 /\ c1.next = b /\ c1.matched = <<>>
      /\ c2.at = 2 /\ c2.next = t /\ c2.matched = <<b>>
      /\ c5.at = 5 /\ c5.next = t /\ c5.matched = <<b>>
      /\ c6.next = nil /\ c6.matched = Append(<<b>>, t) /\ c6.exits = x
  BY DEF Trial
<1>6. Ways(g, Seq2, c1) = <<c2>>
  <2>1. Ways(g, Seq2, c1) = << Sent(Taken(Past(c1), b), t) >>
    <3>1. Middle(g, c1)
      BY <1>5 DEF Middle
    <3>2. Seq2[c1.at] = ","
      BY <1>3, <1>5
    <3>3. Ways(g, Seq2, c1) =
           IF Middle(g, c1) /\ g.exits[c1.next].odd = nil /\ g.exits[c1.next].nat # nil
             THEN << Sent(Taken(Past(c1), c1.next), g.exits[c1.next].nat) >> ELSE <<>>
      BY <3>2, WaysComma
    <3> HIDE DEF c1
    <3> QED BY <3>1, <3>3, <1>2, <1>5
  <2>2. Sent(Taken(Past(c1), b), t) = c2
    <3> DEFINE e == <<>>   m == Append(e, b)   x0 == NoExits   two == 1 + 1
    <3>1. m = <<b>> /\ two = 2
      OBVIOUS
    <3> HIDE DEF m, e, x0, two
    <3>2. Past(Trial(1, b, e, e, x0)) = Trial(two, b, e, e, x0)
      BY PastTrial DEF two
    <3>3. Taken(Trial(two, b, e, e, x0), b) = Trial(two, b, m, e, x0)
      BY TakenTrial DEF m
    <3>4. Sent(Trial(two, b, m, e, x0), t) = Trial(two, t, m, e, x0)
      BY SentTrial
    <3> QED BY <3>1, <3>2, <3>3, <3>4 DEF e, x0
  <2> HIDE DEF c1, c2
  <2> QED BY <2>1, <2>2
<1>7. Ways(g, Seq2, c2) = <<c3, c5>>
  <2>1. Seq2[c2.at] = "("
    BY <1>3, <1>5
  <2>2. Ways(g, Seq2, c2) = <<Past(c2), [c2 EXCEPT !.at = GroupEnd(Seq2, @) + 1]>>
    BY <2>1, WaysOpen
  <2>3. Past(c2) = c3 /\ [c2 EXCEPT !.at = GroupEnd(Seq2, @) + 1] = c5
    <3>1. GroupEnd(Seq2, 2) + 1 = 5
      BY Group
    <3>2. [c2 EXCEPT !.at = GroupEnd(Seq2, @) + 1] = Trial(GroupEnd(Seq2, 2) + 1, t, <<b>>, <<>>, NoExits)
      BY DEF Trial
    <3>3. Past(c2) = c3
      BY DEF Trial, Past
    <3> QED BY <3>1, <3>2, <3>3
  <2> HIDE DEF c2, c3, c5
  <2> QED BY <2>2, <2>3
<1>8. Ways(g, Seq2, c5) = <<c6>>
  <2>1. Middle(g, c5)
    <3>1. ToSet(<<b>>) = {b}
      BY DEF ToSet
    <3> HIDE DEF c5
    <3> QED BY <3>1, <1>5 DEF Middle, Contains, ToSet
  <2>2. Seq2[c5.at] = "!"
    BY <1>3, <1>5
  <2>3. Ways(g, Seq2, c5) =
           IF Middle(g, c5)
             THEN Close(Seq2, Given(Taken(Past(c5), c5.next), g.exits[c5.next])) ELSE <<>>
    BY <2>2, WaysBang
  <2>4. Given(Taken(Past(c5), t), x) = Trial(6, t, Append(<<b>>, t), <<>>, x)
    <3> DEFINE e == <<>>   s == <<b>>   m == Append(s, t)   x0 == NoExits   six == 5 + 1
    <3>1. six = 6
      OBVIOUS
    <3> HIDE DEF m, e, s, x0, six, x
    <3>2. Past(Trial(5, t, s, e, x0)) = Trial(six, t, s, e, x0)
      BY PastTrial DEF six
    <3>3. Taken(Trial(six, t, s, e, x0), t) = Trial(six, t, m, e, x0)
      BY TakenTrial DEF m
    <3>4. Given(Trial(six, t, m, e, x0), x) = Trial(six, t, m, e, x)
      BY GivenTrial
    <3> QED BY <3>1, <3>2, <3>3, <3>4 DEF e, s, m, x0
  <2>5. Close(Seq2, Trial(6, t, Append(<<b>>, t), <<>>, x)) = <<c6>>
    <3> DEFINE s == Append(<<b>>, t)   k == <<>>   d == Trial(6, t, s, k, x)
    <3> HIDE DEF s, k, x
    <3>1. d.at = 6 /\ d.back = k /\ [d EXCEPT !.next = nil] = Trial(6, nil, s, k, x)
      BY DEF Trial
    <3> HIDE DEF d
    <3>2. ~ d.at <= Len(Seq2) /\ d.back = <<>>
      BY <3>1, Lengths DEF k
    <3>3. Close(Seq2, d) = << [d EXCEPT !.next = nil] >>
      BY <3>2, Zenon DEF Close
    <3> QED BY <3>1, <3>3 DEF d, s, k
  <2> HIDE DEF c5, c6, x
  <2>6. Close(Seq2, Given(Taken(Past(c5), c5.next), g.exits[c5.next])) = <<c6>>
    BY <2>4, <2>5, <1>5 DEF x
  <2> QED BY <2>1, <2>3, <2>6
<1>9. /\ Tried(g, Seq2, b, c2) /\ Tried(g, Seq2, b, c5) /\ Tried(g, Seq2, b, c6)
  <2> HIDE DEF c1, c2, c3, c5, c6
  <2>1. Good(g, Seq2, b, <<c2>>)
    BY <1>2, <1>4, <1>5, <1>6, GoodWays
  <2>2. Tried(g, Seq2, b, c2)
    <3>1. <<c2>>[1] = c2 /\ Len(<<c2>>) = 1
      OBVIOUS
    <3> QED BY <2>1, <3>1 DEF Good
  <2>3. Good(g, Seq2, b, <<c3, c5>>)
    BY <1>2, <2>2, <1>5, <1>7, GoodWays
  <2>4. Tried(g, Seq2, b, c5)
    <3>1. <<c3, c5>>[2] = c5 /\ Len(<<c3, c5>>) = 2
      OBVIOUS
    <3> QED BY <2>3, <3>1 DEF Good
  <2>5. Good(g, Seq2, b, <<c6>>)
    BY <1>2, <2>4, <1>5, <1>8, GoodWays
  <2>6. Tried(g, Seq2, b, c6)
    <3>1. <<c6>>[1] = c6 /\ Len(<<c6>>) = 1
      OBVIOUS
    <3> QED BY <2>5, <3>1 DEF Good
  <2> QED BY <2>2, <2>4, <2>6
<1>10. c1 \in Trials(g, Seq2) /\ c2 \in Trials(g, Seq2) /\ c5 \in Trials(g, Seq2) /\ c6 \in Trials(g, Seq2)
  BY <1>4, <1>9 DEF Tried
<1> HIDE DEF c1, c2, c3, c5, c6
<1>11. Found(g, Seq2)[n - 3][c6] # NoMatch
  <2>1. Found(g, Seq2)[n - 3][c6] = [blocs |-> Append(<<b>>, t), exits |-> x]
    BY <1>1, <1>5, <1>10, FoundDone
  <2>2. [blocs |-> Append(<<b>>, t), exits |-> x] # NoMatch
    <3>1. Append(<<b>>, t) # <<>>
      OBVIOUS
    <3> HIDE DEF x
    <3> QED BY <3>1 DEF NoMatch
  <2> QED BY <2>1, <2>2
<1>12. Found(g, Seq2)[n - 2][c5] # NoMatch
  BY <1>1, <1>2, <1>5, <1>8, <1>10, <1>11, FoundLast
<1>13. Found(g, Seq2)[n - 1][c2] # NoMatch
  BY <1>1, <1>2, <1>5, <1>7, <1>10, <1>12, FoundLast
<1>14. Found(g, Seq2)[n][c1] # NoMatch
  BY <1>1, <1>2, <1>5, <1>6, <1>10, <1>13, FoundLast
<1> QED BY <1>2, <1>4, <1>14 DEF Accepted, Match, n

\* A bloc that only leads to itself is not reached.
LEMMA NotAlone ==
  ASSUME NEW g, Sane(g), Rooted(g), NEW b \in Blocs(g), g.prevcount[b] <= 1
  PROVE  b \notin Succ(g, b)
<1> SUFFICES ASSUME b \in Succ(g, b) PROVE FALSE
  OBVIOUS
<1>1. b # entry_bloc /\ \A q \in Blocs(g) : b \in Succ(g, q) => q = b
  BY Unique
<1> DEFINE S == Blocs(g) \ {b}
<1>2. entry_bloc \in S
  BY <1>1, PoolFacts DEF Sane
<1>3. \A q \in S : Succ(g, q) \subseteq S
  BY <1>1, SuccIn
<1>4. S = Blocs(g)
  BY <1>2, <1>3 DEF Rooted
<1> QED BY <1>4

\* When there is no sequence left, each bloc of a loop forks, or leads to its
\* head, or leaves it.
LEMMA NoneLost ==
  ASSUME NEW g, Sane(g), Rooted(g), NEW m, Grouped(g, Loop, m), Has(m.exits, m.blocs[1]),
         \A c \in Blocs(g) : ~ Accepted(Seq2, Match(g, Seq2, c))
  PROVE  LET after == Get(m.exits, ~ Which(m.exits, m.blocs[1]))
         IN  \A b \in ToSet(m.blocs) : ~ Lost(g, m, after, b)
<1> DEFINE head == m.blocs[1]   x == m.exits   M == ToSet(m.blocs)
           after == Get(x, ~ Which(x, head))
<1> SUFFICES ASSUME NEW b \in M, Lost(g, m, after, b) PROVE FALSE
  OBVIOUS
<1>1. Searched(g, head, M, {}, {}, x) /\ g.exits[b].nat # nil
  BY DEF Grouped
<1>2. M \subseteq Blocs(g) /\ Onward(g, M) \subseteq (M \ {head}) \cup Targets(x)
  BY <1>1 DEF Searched
<1> DEFINE t == g.exits[b].nat
<1>3. t \in Blocs(g) /\ t \in Succ(g, b) /\ nil \notin Blocs(g)
  BY <1>1, <1>2, ExitFacts
<1>4. g.exits[b].odd = nil /\ t # head /\ (after # nil => t # after)
  <2> HIDE DEF after, t
  <2>1. /\ g.exits[b].odd = nil /\ ~ Has(g.exits[b], m.blocs[1])
        /\ ~ (after # nil /\ Has(g.exits[b], after))
    BY DEF Lost
  <2> QED BY <2>1 DEF Has, t
<1>5. t \notin Targets(x)
  <2> HIDE DEF t
  <2>1. x.nat = head \/ x.odd = head
    BY DEF Has
  <2>2. CASE head = x.odd
    <3>1. after = x.nat
      BY <2>2 DEF Which, Get
    <3> HIDE DEF after
    <3> QED BY <2>2, <3>1, <1>4 DEF Targets
  <2>3. CASE head # x.odd
    <3>1. after = x.odd
      BY <2>3 DEF Which, Get
    <3> HIDE DEF after
    <3> QED BY <2>1, <2>3, <3>1, <1>4 DEF Targets
  <2> QED BY <2>2, <2>3
<1>6. t \in Onward(g, M)
  BY <1>3 DEF Onward
<1>7. t \in M \ {head}
  BY <1>2, <1>5, <1>6
<1>8. g.prevcount[t] <= 1
  BY <1>1, <1>7 DEF Searched
<1>9. t # b
  BY <1>3, <1>8, NotAlone
<1>10. Accepted(Seq2, Match(g, Seq2, b))
  <2>1. b \in Blocs(g)
    BY <1>2
  <2> HIDE DEF t
  <2> QED BY <2>1, <1>3, <1>4, <1>8, <1>9, SequenceFound DEF t
<1> QED BY <1>2, <1>10

-----------------------------------------------------------------------------
(* A bloc that leads to itself.                                            *)

\* A search for a loop, from a bloc that leads to itself, comes back to it.
Returns(b, c) == c.matched # <<>> /\ (b \in Ahead(c) \/ Has(c.exits, b))

LEMMA InsideReturns ==
  ASSUME NEW g, Sane(g), Rooted(g), NEW f, NEW c, Tried(g, Loop, f, c), c.next # nil,
         NEW b \in Blocs(g), g.prevcount[b] # 1, Returns(b, c), NEW w, Inside(g, c) = <<w>>
  PROVE  Returns(b, w)
<1> DEFINE u == c.next   n == g.exits[u].nat   v == g.exits[u].odd
           k == IF v # nil THEN <<v>> \o c.back ELSE c.back
<1>1. /\ u \in Blocs(g) /\ c.matched \in Seq(Blocs(g)) /\ c.back \in Seq(Blocs(g))
  BY TriedFacts
<1>2. c.matched # <<>>
  BY DEF Returns
<1>3. g.prevcount[u] = 1 /\ n # nil /\ w = Entered(Taken(c, u), n, v)
  <2>1. (g.prevcount[u] = 1 /\ n # nil) \/ Inside(g, c) = <<>>
    BY <1>2 DEF Inside
  <2>2. Inside(g, c) # <<>>
    OBVIOUS
  <2>3. Inside(g, c) = << Entered(Taken(c, u), n, v) >>
    BY <2>1, <2>2, <1>2 DEF Inside
  <2> DEFINE z == Entered(Taken(c, u), n, v)
  <2>4. <<w>> = <<z>>
    BY <2>3
  <2> HIDE DEF z
  <2>5. w = z
    BY <2>4
  <2> QED BY <2>1, <2>2, <2>5 DEF z
<1>4. w = Trial(c.at, n, Append(c.matched, u), k, c.exits)
  <2>1. c = Trial(c.at, u, c.matched, c.back, c.exits)
    BY TriedRecord
  <2> DEFINE a0 == c.at   m0 == c.matched   k0 == c.back   x0 == c.exits   m1 == Append(m0, u)
  <2> HIDE DEF a0, m0, k0, x0, u, n, v
  <2>2. Taken(Trial(a0, u, m0, k0, x0), u) = Trial(a0, u, m1, k0, x0)
    BY TakenTrial
  <2> HIDE DEF m1
  <2>3. Entered(Trial(a0, u, m1, k0, x0), n, v)
            = Trial(a0, n, m1, IF v # nil THEN <<v>> \o k0 ELSE k0, x0)
    BY EnteredTrial
  <2> QED BY <1>3, <2>1, <2>2, <2>3 DEF a0, m0, k0, x0, m1
<1>5. ToSet(c.back) \subseteq ToSet(k)
  <2>1. CASE v # nil
    <3>1. v \in Blocs(g)
      <4> HIDE DEF u
      <4> QED BY <1>1, <2>1, ExitFacts
    <3> DEFINE s == c.back
    <3> HIDE DEF v
    <3>2. s \in Seq(Blocs(g))
      BY <1>1
    <3> HIDE DEF s
    <3>3. ToSet(<<v>> \o s) = {v} \cup ToSet(s)
      BY <3>1, <3>2, ConsItems
    <3> QED BY <2>1, <3>3 DEF s
  <2>2. CASE v = nil
    BY <2>2
  <2> QED BY <2>1, <2>2
<1>6. b # u
  BY <1>3
<1>7. b \in ToSet(c.back) \/ Has(c.exits, b)
  BY <1>6 DEF Returns, Ahead
<1>8. w.next = n /\ w.matched = Append(c.matched, u) /\ w.back = k /\ w.exits = c.exits
  <2> HIDE DEF k, n
  <2> QED BY <1>4 DEF Trial
<1>9. w.matched # <<>>
  <2> DEFINE s == c.matched
  <2> HIDE DEF s, u
  <2>1. s \in Seq(Blocs(g)) /\ w.matched = Append(s, u)
    BY <1>1, <1>8 DEF s
  <2> QED BY <2>1
<1> HIDE DEF k, n
<1> QED BY <1>3, <1>5, <1>7, <1>8, <1>9 DEF Returns, Ahead

LEMMA CloseReturns ==
  ASSUME NEW d, NEW S, d.back \in Seq(S), nil \notin S, NEW b, d.matched # <<>>,
         b \in ToSet(d.back) \/ Has(d.exits, b), NEW w, Close(Loop, d) = <<w>>,
         d = Trial(d.at, d.next, d.matched, d.back, d.exits)
  PROVE  Returns(b, w)
<1> DEFINE a0 == d.at   n0 == d.next   m0 == d.matched   k0 == d.back   x0 == d.exits
<1>1. CASE k0 # <<>>
  <2>1. Close(Loop, d) = << [d EXCEPT !.next = Head(d.back), !.back = Tail(d.back)] >>
    BY <1>1 DEF Close
  <2> DEFINE z == [d EXCEPT !.next = Head(d.back), !.back = Tail(d.back)]
  <2>2. w = z
    <3>1. <<w>> = <<z>>
      BY <2>1
    <3> HIDE DEF z
    <3> QED BY <3>1
  <2>3. z = Trial(a0, Head(k0), m0, Tail(k0), x0)
    <3> DEFINE u == Head(k0)   t == Tail(k0)
    <3>1. z = [[d EXCEPT !.next = u] EXCEPT !.back = t]
      OBVIOUS
    <3> HIDE DEF u, t, z, a0, n0, m0, k0, x0
    <3>2. d = Trial(a0, n0, m0, k0, x0)
      BY DEF a0, n0, m0, k0, x0
    <3>3. [[d EXCEPT !.next = u] EXCEPT !.back = t] = Trial(a0, u, m0, t, x0)
      <4>1. [d EXCEPT !.next = u] = Trial(a0, u, m0, k0, x0)
        BY <3>2 DEF Trial
      <4>2. [Trial(a0, u, m0, k0, x0) EXCEPT !.back = t] = Trial(a0, u, m0, t, x0)
        BY DEF Trial
      <4> QED BY <4>1, <4>2
    <3> QED BY <3>1, <3>3 DEF u, t
  <2> HIDE DEF z
  <2> DEFINE u == Head(k0)   t == Tail(k0)
  <2>4. u \in S /\ ToSet(k0) = {u} \cup ToSet(t)
    <3>1. k0 \in Seq(S) /\ k0 # <<>>
      BY <1>1
    <3> HIDE DEF k0
    <3> QED BY <3>1, PopItems
  <2> HIDE DEF u, t
  <2>5. w.next = u /\ w.matched = m0 /\ w.back = t /\ w.exits = x0
    BY <2>2, <2>3 DEF Trial, u, t
  <2> QED BY <2>4, <2>5 DEF Returns, Ahead
<1>2. CASE k0 = <<>>
  <2>1. Close(Loop, d) = <<>> \/ Close(Loop, d) = << [d EXCEPT !.next = nil] >>
    BY <1>2 DEF Close
  <2> DEFINE z == [d EXCEPT !.next = nil]
  <2>2. w = z
    <3>1. <<w>> = <<z>>
      BY <2>1
    <3> HIDE DEF z
    <3> QED BY <3>1
  <2>3. z = Trial(a0, nil, m0, k0, x0)
    <3> HIDE DEF z, a0, n0, m0, k0, x0
    <3>1. d = Trial(a0, n0, m0, k0, x0)
      BY DEF a0, n0, m0, k0, x0
    <3>2. [d EXCEPT !.next = nil] = Trial(a0, nil, m0, k0, x0)
      BY <3>1 DEF Trial
    <3> QED BY <3>2 DEF z
  <2> HIDE DEF z
  <2>4. w.matched = m0 /\ w.exits = x0
    BY <2>2, <2>3 DEF Trial
  <2>5. ToSet(d.back) = {}
    BY <1>2 DEF ToSet
  <2> QED BY <2>4, <2>5 DEF Returns
<1> QED BY <1>1, <1>2

LEMMA OutsideReturns ==
  ASSUME NEW g, Sane(g), NEW f, NEW c, Tried(g, Loop, f, c), c.next # nil,
         NEW b \in Blocs(g), Returns(b, c), NEW w, Outside(Loop, c) = <<w>>
  PROVE  Returns(b, w)
<1> DEFINE u == c.next
<1>1. /\ u \in Blocs(g) /\ c.matched \in Seq(Blocs(g)) /\ c.back \in Seq(Blocs(g))
      /\ c.exits \in ExitsTo(Blocs(g)) /\ nil \notin Blocs(g)
  BY TriedFacts, PoolFacts DEF Sane
<1>2. c.matched # <<>>
  BY DEF Returns
<1>3. PICK r \in BOOLEAN : MaySetExit(c.exits, r, u) /\ Close(Loop, Out(Rest(c), r, u)) = <<w>>
  <2>1. Outside(Loop, c) # <<>>
    OBVIOUS
  <2> HIDE DEF u
  <2>2. CASE MaySetExit(c.exits, FALSE, u)
    BY <2>2, <1>2 DEF Outside, u
  <2>3. CASE ~ MaySetExit(c.exits, FALSE, u) /\ MaySetExit(c.exits, TRUE, u)
    BY <2>3, <1>2 DEF Outside, u
  <2>4. CASE ~ MaySetExit(c.exits, FALSE, u) /\ ~ MaySetExit(c.exits, TRUE, u)
    BY <2>1, <2>4, <1>2 DEF Outside, u
  <2> QED BY <2>2, <2>3, <2>4
<1> DEFINE y == Put(c.exits, r, u)   d == Out(Rest(c), r, u)   a == Rest(c).at
<1>4. Rest(c) = Trial(a, u, c.matched, c.back, c.exits)
  <2> DEFINE a0 == c.at   m0 == c.matched   k0 == c.back   x0 == c.exits
  <2>1. c = Trial(a0, u, m0, k0, x0)
    BY TriedRecord
  <2> HIDE DEF a0, m0, k0, x0, u
  <2>2. Past(c) = Trial(a0 + 1, u, m0, k0, x0)
    BY <2>1, PastTrial
  <2>3. Rest(c) = Trial(a0, u, m0, k0, x0) \/ Rest(c) = Trial(a0 + 1, u, m0, k0, x0)
    BY <2>1, <2>2 DEF Rest
  <2>4. Trial(a0, u, m0, k0, x0).at = a0 /\ Trial(a0 + 1, u, m0, k0, x0).at = a0 + 1
    BY DEF Trial
  <2> QED BY <2>3, <2>4 DEF a0, m0, k0, x0
<1>5. d = Trial(a, u, c.matched, c.back, y)
  <2> DEFINE m0 == c.matched   k0 == c.back   x0 == c.exits
  <2> HIDE DEF a, m0, k0, x0, u
  <2>1. Out(Trial(a, u, m0, k0, x0), r, u) = Trial(a, u, m0, k0, Put(x0, r, u))
    BY OutTrial
  <2> QED BY <2>1, <1>4 DEF m0, k0, x0
<1> HIDE DEF d, a, y
<1>6. d.at = a /\ d.next = u /\ d.matched = c.matched /\ d.back = c.back /\ d.exits = y
  BY <1>5 DEF Trial
<1>7. b \in ToSet(c.back) \/ Has(y, b)
  <2>1. b = u \/ b \in ToSet(c.back) \/ Has(c.exits, b)
    BY DEF Returns, Ahead
  <2> DEFINE x0 == c.exits
  <2>2. x0 \in ExitsTo(Blocs(g)) /\ y = Put(x0, r, u) /\ MaySetExit(x0, r, u) /\ b # nil
    BY <1>1, <1>3 DEF y
  <2> HIDE DEF x0, u
  <2>3. Has(y, u) /\ (Has(x0, b) => Has(y, b))
    <3>1. CASE r
      BY <3>1, <2>2 DEF Put, Has, MaySetExit, Get, ExitsTo
    <3>2. CASE ~ r
      BY <3>2, <2>2 DEF Put, Has, MaySetExit, Get, ExitsTo
    <3> QED BY <3>1, <3>2
  <2> QED BY <2>1, <2>3 DEF x0
<1>8. /\ d.back \in Seq(Blocs(g)) /\ d.matched # <<>> /\ (b \in ToSet(d.back) \/ Has(d.exits, b))
      /\ d = Trial(d.at, d.next, d.matched, d.back, d.exits) /\ Close(Loop, d) = <<w>>
  BY <1>1, <1>2, <1>3, <1>5, <1>6, <1>7 DEF d
<1> QED BY <1>1, <1>8, CloseReturns

LEMMA JoinTwo ==
  ASSUME NEW u, NEW v
  PROVE  <<u>> \o <<v>> = <<u, v>>
<1> DEFINE T == {u, v}   i == <<u>>   o == <<v>>   s == i \o o   t == <<u, v>>
<1>1. i \in Seq(T) /\ o \in Seq(T) /\ Len(i) = 1 /\ Len(o) = 1 /\ i[1] = u /\ o[1] = v
  OBVIOUS
<1>2. t \in Seq(T) /\ Len(t) = 2 /\ t[1] = u /\ t[2] = v
  OBVIOUS
<1> HIDE DEF T, i, o
<1>3. /\ s \in Seq(T) /\ Len(s) = Len(i) + Len(o)
      /\ \A n \in 1 .. Len(i) + Len(o) : s[n] = IF n <= Len(i) THEN i[n] ELSE o[n - Len(i)]
  BY <1>1, ConcatProperties
<1>4. Len(s) = 2 /\ s[1] = u /\ s[2] = v
  <2>1. Len(s) = 2 /\ \A n \in 1 .. 2 : s[n] = IF n <= 1 THEN i[n] ELSE o[n - 1]
    BY <1>1, <1>3
  <2>2. 1 \in 1 .. 2 /\ 2 \in 1 .. 2 /\ 1 <= 1 /\ ~ 2 <= 1 /\ 2 - 1 = 1
    OBVIOUS
  <2> HIDE DEF s
  <2> QED BY <1>1, <2>1, <2>2
<1> HIDE DEF s, t
<1>5. \A n \in 1 .. Len(s) : s[n] = t[n]
  <2>1. \A n \in 1 .. 2 : n = 1 \/ n = 2
    OBVIOUS
  <2> QED BY <2>1, <1>2, <1>4
<1>6. s = t
  BY <1>2, <1>3, <1>4, <1>5, SeqEqual
<1> QED BY <1>6 DEF s, t, i, o

\* Two lists of at most one way each, of T, one after the other.
LEMMA JoinedFacts ==
  ASSUME NEW i, NEW o, NEW T, i = <<>> \/ \E w \in T : i = <<w>>, o = <<>> \/ \E w \in T : o = <<w>>
  PROVE  /\ i \o o # <<>> => (i \o o)[1] \in T /\ (Len(i \o o) = 1 \/ (i \o o)[2] \in T)
         /\ \A w : o = <<w>> => i \o o = <<w>> \/ \E e : i \o o = <<e, w>>
<1>1. CASE i = <<>> /\ o = <<>>
  <2>1. i \o o = <<>>
    BY <1>1
  <2>2. \A w : o # <<w>>
    BY <1>1
  <2> QED BY <2>1, <2>2
<1>2. CASE i = <<>> /\ o # <<>>
  <2>1. PICK w \in T : o = <<w>>
    BY <1>2
  <2>2. i \o o = o
    BY <1>2, <2>1
  <2>3. <<w>>[1] = w /\ Len(<<w>>) = 1
    OBVIOUS
  <2>4. \A v : o = <<v>> => i \o o = <<v>>
    BY <2>2
  <2> QED BY <2>1, <2>2, <2>3, <2>4
<1>3. CASE i # <<>> /\ o = <<>>
  <2>1. PICK w \in T : i = <<w>>
    BY <1>3
  <2>2. i \o o = <<w>> /\ <<w>>[1] = w /\ Len(<<w>>) = 1
    BY <1>3, <2>1
  <2>3. \A v : o # <<v>>
    BY <1>3
  <2> QED BY <2>1, <2>2, <2>3
<1>4. CASE i # <<>> /\ o # <<>>
  <2>1. PICK w \in T : i = <<w>>
    BY <1>4
  <2>2. PICK v \in T : o = <<v>>
    BY <1>4
  <2>3. i \o o = <<w, v>>
    BY <2>1, <2>2, JoinTwo
  <2>4. <<w, v>>[1] = w /\ <<w, v>>[2] = v
    OBVIOUS
  <2>5. \A u : o = <<u>> => u = v
    BY <2>2
  <2> QED BY <2>1, <2>2, <2>3, <2>4, <2>5
<1> QED BY <1>1, <1>2, <1>3, <1>4

\* Whatever the search finds from there has that bloc among its exits.
LEMMA FoundReturns ==
  ASSUME NEW g, Sane(g), Rooted(g), NEW b \in Blocs(g), g.prevcount[b] # 1, NEW f,
         NEW n \in Nat, NEW c, Tried(g, Loop, f, c), Returns(b, c)
  PROVE  Found(g, Loop)[n][c] = NoMatch \/ Has(Found(g, Loop)[n][c].exits, b)
<1> DEFINE F == Found(g, Loop)
           T == {d \in Trials(g, Loop) : Tried(g, Loop, f, d) /\ Returns(b, d)}
           Of(r) == r = NoMatch \/ Has(r.exits, b)
           S == {k \in Nat : \A d \in T : Of(F[k][d])}
<1>1. \A d : d \in T <=> Tried(g, Loop, f, d) /\ Returns(b, d)
  BY DEF Tried
<1>2. Loop \in Patterns
  BY DEF Patterns
<1>3. ASSUME NEW k \in Nat, k > 0 => k - 1 \in S
      PROVE  k \in S
  <2> SUFFICES ASSUME NEW d \in T PROVE Of(F[k][d])
    OBVIOUS
  <2>1. Tried(g, Loop, f, d) /\ Returns(b, d) /\ d \in Trials(g, Loop)
    OBVIOUS
  <2> DEFINE ways == Ways(g, Loop, d)   one == F[k - 1][ways[1]]
  <2> HIDE DEF T, Of, S
  <2>2. F[k][d] = IF d.next = nil THEN [blocs |-> d.matched, exits |-> d.exits]
                  ELSE IF k = 0 \/ ways = <<>> THEN NoMatch
                  ELSE IF Len(ways) = 1 \/ one # NoMatch THEN one
                  ELSE F[k - 1][ways[2]]
    <3>1. F[k] = FoundBody(g, Loop, k, F[k - 1])
      BY FoundRec
    <3> HIDE DEF F
    <3> QED BY <3>1, <2>1, Zenon DEF FoundBody
  <2> HIDE DEF F
  <2>3. CASE d.next = nil
    <3>1. Has(d.exits, b)
      BY <2>1, <2>3 DEF Returns, Ahead
    <3>2. [blocs |-> d.matched, exits |-> d.exits].exits = d.exits
      OBVIOUS
    <3> HIDE DEF ways, one
    <3> QED BY <2>2, <2>3, <3>1, <3>2 DEF Of
  <2>4. CASE d.next # nil /\ (k = 0 \/ ways = <<>>)
    BY <2>2, <2>4 DEF Of
  <2>5. CASE d.next # nil /\ ~ (k = 0 \/ ways = <<>>)
    <3>1. k - 1 \in S
      BY <1>3, <2>5
    <3>2. \A e \in T : Of(F[k - 1][e])
      BY <3>1 DEF S
    <3> DEFINE i == Inside(g, d)   o == Outside(Loop, d)
    <3>3. ways = i \o o
      <4>1. d.at = 1
        <5>1. d.at \in 1 .. Len(Loop)
          BY <2>1, <2>5, TriedFacts
        <5> QED BY <5>1, Lengths
      <4>2. Loop[d.at] = "*"
        BY <4>1 DEF Loop
      <4> QED BY <4>2, WaysStar
    <3> HIDE DEF i, o
    <3>4. i = <<>> \/ \E w \in T : i = <<w>>
      <4>1. i = <<>> \/ \E w : i = <<w>> /\ Tried(g, Loop, f, w)
        BY <2>1, <2>5, GoodInside DEF i
      <4>2. ASSUME NEW w, i = <<w>> PROVE Returns(b, w)
        BY <2>1, <2>5, <4>2, InsideReturns DEF i
      <4> QED BY <1>1, <4>1, <4>2
    <3>5. o = <<>> \/ \E w \in T : o = <<w>>
      <4>1. o = <<>> \/ \E w : o = <<w>> /\ Tried(g, Loop, f, w)
        BY <2>1, <2>5, GoodOutside DEF o
      <4>2. ASSUME NEW w, o = <<w>> PROVE Returns(b, w)
        BY <2>1, <2>5, <4>2, OutsideReturns DEF o
      <4> QED BY <1>1, <4>1, <4>2
    <3>6. i \o o # <<>> => (i \o o)[1] \in T /\ (Len(i \o o) = 1 \/ (i \o o)[2] \in T)
      BY <3>4, <3>5, JoinedFacts
    <3> HIDE DEF ways
    <3>7. ways[1] \in T /\ (Len(ways) = 1 \/ ways[2] \in T)
      BY <2>5, <3>3, <3>6
    <3>8. Of(one) /\ (Len(ways) = 1 \/ Of(F[k - 1][ways[2]]))
      BY <3>2, <3>7
    <3> HIDE DEF one
    <3> QED BY <2>2, <2>5, <3>8
  <2> QED BY <2>3, <2>4, <2>5
<1>4. 0 \in S
  BY <1>3
<1>5. \A k \in Nat : k \in S => k + 1 \in S
  <2> SUFFICES ASSUME NEW k \in Nat, k \in S PROVE k + 1 \in S
    OBVIOUS
  <2> HIDE DEF S
  <2>1. k + 1 \in Nat /\ (k + 1) - 1 = k
    OBVIOUS
  <2> QED BY <2>1, <1>3
<1> HIDE DEF S
<1>6. Nat \subseteq S
  BY <1>4, <1>5, Induction
<1>7. c \in T
  BY <1>1
<1> HIDE DEF T, F
<1>8. Of(F[n][c])
  BY <1>6, <1>7 DEF S
<1> QED BY <1>8 DEF F

\* The last bloc of a search for a loop can be an exit of the group.
LEMMA LastExit ==
  ASSUME NEW g, Sane(g), NEW f, NEW n \in Nat, NEW c, Tried(g, Loop, f, c), c.next # nil,
         c.matched # <<>>, c.back = <<>>,
         MaySetExit(c.exits, FALSE, c.next) \/ MaySetExit(c.exits, TRUE, c.next), Rooted(g)
  PROVE  Found(g, Loop)[n + 1][c] # NoMatch
<1> DEFINE u == c.next
<1>1. /\ u \in Blocs(g) /\ c.matched \in Seq(Blocs(g)) /\ c.back \in Seq(Blocs(g))
      /\ c.exits \in ExitsTo(Blocs(g)) /\ nil \notin Blocs(g) /\ c.at \in 1 .. Len(Loop)
  BY TriedFacts, PoolFacts DEF Sane
<1>2. c.at = 1 /\ Loop[c.at] = "*" /\ Ways(g, Loop, c) = Inside(g, c) \o Outside(Loop, c)
  <2>1. c.at = 1
    BY <1>1, Lengths
  <2>2. Loop[c.at] = "*"
    BY <2>1 DEF Loop
  <2> QED BY <2>1, <2>2, WaysStar
<1>3. PICK r \in BOOLEAN : Outside(Loop, c) = Close(Loop, Out(Past(c), r, u))
  <2>1. Rest(c) = Past(c)
    BY DEF Rest
  <2>2. CASE MaySetExit(c.exits, FALSE, u)
    BY <2>1, <2>2 DEF Outside
  <2>3. CASE ~ MaySetExit(c.exits, FALSE, u) /\ MaySetExit(c.exits, TRUE, u)
    BY <2>1, <2>3 DEF Outside
  <2> QED BY <2>2, <2>3
<1> DEFINE y == Put(c.exits, r, u)   d == Trial(2, u, c.matched, <<>>, y)
           e == Trial(2, nil, c.matched, <<>>, y)
<1>4. Out(Past(c), r, u) = d
  <2> DEFINE m0 == c.matched   k0 == c.back   x0 == c.exits
  <2>1. c = Trial(1, u, m0, k0, x0) /\ k0 = <<>> /\ 1 + 1 = 2
    BY <1>2, TriedRecord
  <2> HIDE DEF m0, k0, x0, u
  <2>2. Past(Trial(1, u, m0, k0, x0)) = Trial(1 + 1, u, m0, k0, x0)
    BY PastTrial
  <2>3. Out(Trial(2, u, m0, k0, x0), r, u) = Trial(2, u, m0, k0, Put(x0, r, u))
    BY OutTrial
  <2> QED BY <2>1, <2>2, <2>3 DEF m0, x0
<1>5. Close(Loop, d) = <<e>>
  <2> DEFINE m0 == c.matched   k0 == <<>>
  <2> HIDE DEF m0, k0, y
  <2>1. d = Trial(2, u, m0, k0, y) /\ e = Trial(2, nil, m0, k0, y)
    BY DEF m0, k0
  <2> HIDE DEF d, e
  <2>2. d.at = 2 /\ d.back = k0 /\ [d EXCEPT !.next = nil] = e
    BY <2>1 DEF Trial
  <2>3. ~ d.at <= Len(Loop) /\ d.back = <<>>
    BY <2>2, Lengths DEF k0
  <2>4. Close(Loop, d) = << [d EXCEPT !.next = nil] >>
    BY <2>3, Zenon DEF Close
  <2> QED BY <2>2, <2>4
<1>6. e.next = nil /\ e.matched = c.matched
  <2> HIDE DEF y
  <2> QED BY DEF Trial
<1> HIDE DEF d, e
<1>7. Outside(Loop, c) = <<e>>
  BY <1>3, <1>4, <1>5
<1>8. Tried(g, Loop, f, e)
  <2>1. PICK w : Outside(Loop, c) = <<w>> /\ Tried(g, Loop, f, w)
    BY <1>7, GoodOutside
  <2>2. w = e
    BY <2>1, <1>7
  <2> QED BY <2>1, <2>2
<1>9. Found(g, Loop)[n][e] # NoMatch
  <2>1. e \in Trials(g, Loop)
    BY <1>8 DEF Tried
  <2>2. Found(g, Loop)[n][e] = [blocs |-> e.matched, exits |-> e.exits]
    BY <1>6, <2>1, FoundDone
  <2>3. e.matched # <<>>
    BY <1>6
  <2> QED BY <2>2, <2>3 DEF NoMatch
<1>10. Ways(g, Loop, c) = <<e>> \/ \E v : Ways(g, Loop, c) = <<v, e>>
  <2> DEFINE i == Inside(g, c)   o == Outside(Loop, c)   T == Trials(g, Loop)
  <2>1. i = <<>> \/ \E w \in T : i = <<w>>
    <3>1. i = <<>> \/ \E w : i = <<w>> /\ Tried(g, Loop, f, w)
      BY GoodInside
    <3> HIDE DEF i
    <3> QED BY <3>1 DEF Tried
  <2>2. o = <<>> \/ \E w \in T : o = <<w>>
    <3>1. o = <<>> \/ \E w : o = <<w>> /\ Tried(g, Loop, f, w)
      BY GoodOutside
    <3> HIDE DEF o
    <3> QED BY <3>1 DEF Tried
  <2>3. o = <<e>>
    BY <1>7
  <2> HIDE DEF i, o, T
  <2>4. \A w : o = <<w>> => i \o o = <<w>> \/ \E v : i \o o = <<v, w>>
    BY <2>1, <2>2, JoinedFacts
  <2> QED BY <2>3, <2>4, <1>2 DEF i, o
<1> QED BY <1>9, <1>10, FoundLast DEF Tried

LEMMA FoundOne ==
  ASSUME NEW g, NEW p, NEW n \in Nat, NEW c \in Trials(g, p), c.next # nil, NEW d,
         Ways(g, p, c) = <<d>>
  PROVE  Found(g, p)[n + 1][c] = Found(g, p)[n][d]
<1> DEFINE F == Found(g, p)   ways == Ways(g, p, c)   one == F[n][ways[1]]
<1>1. F[n + 1] = FoundBody(g, p, n + 1, F[n])
  <2>1. n + 1 \in Nat /\ (n + 1) - 1 = n
    OBVIOUS
  <2>2. F[n + 1] = FoundBody(g, p, n + 1, F[(n + 1) - 1])
    BY <2>1, FoundRec
  <2> QED BY <2>1, <2>2
<1> HIDE DEF F
<1>2. F[n + 1][c] = IF c.next = nil THEN [blocs |-> c.matched, exits |-> c.exits]
                    ELSE IF n + 1 = 0 \/ ways = <<>> THEN NoMatch
                    ELSE IF Len(ways) = 1 \/ one # NoMatch THEN one
                    ELSE F[n][ways[2]]
  BY <1>1, Zenon DEF FoundBody
<1>3. n + 1 # 0 /\ ways # <<>> /\ Len(ways) = 1 /\ ways[1] = d
  OBVIOUS
<1> HIDE DEF ways
<1> QED BY <1>2, <1>3 DEF F

\* A bloc that leads somewhere is a loop or the head of one, and when it leads to
\* itself the loop goes back to it.
LEMMA LoopFound ==
  ASSUME NEW g, Sane(g), Rooted(g), NEW b \in Blocs(g), b \in Succ(g, b)
  PROVE  Accepted(Loop, Match(g, Loop, b))
<1> DEFINE n == Nesting(g)   nat == g.exits[b].nat   odd == g.exits[b].odd
           F == Found(g, Loop)   x0 == NoExits   e == <<>>   m == <<b>>
           k == IF odd # nil THEN <<odd>> \o e ELSE e
           c1 == Trial(1, b, e, e, x0)
           c2 == Trial(1, nat, m, k, x0)
<1>1. n - 3 \in Nat /\ n - 2 \in Nat /\ n - 1 \in Nat /\ n \in Nat
      /\ (n - 3) + 1 = n - 2 /\ (n - 2) + 1 = n - 1 /\ (n - 1) + 1 = n
  <2>1. Len(g.pool) \in Nat
    BY PoolFacts DEF Sane
  <2> QED BY <2>1 DEF Nesting
<1> HIDE DEF n
<1>2. /\ nil \notin Blocs(g) /\ b # nil /\ Loop \in Patterns /\ nat # nil /\ nat \in Blocs(g)
      /\ (odd # nil => odd \in Blocs(g)) /\ b \in {nat, odd}
  <2>1. Succ(g, b) = {t \in {nat, odd} : t # nil} /\ nil \notin Blocs(g)
        /\ (nat = nil => odd = nil) /\ (nat # nil => nat \in Blocs(g)) /\ (odd # nil => odd \in Blocs(g))
    BY ExitFacts
  <2> HIDE DEF nat, odd
  <2> QED BY <2>1 DEF Patterns
<1>3. g.prevcount[b] # 1
  <2>1. g.prevcount[b] \in Nat
    BY DEF Sane, Counted
  <2> QED BY <2>1, NotAlone
<1>4. FirstTrial(b) = c1 /\ Tried(g, Loop, b, c1)
  <2>1. FirstTrial(b) = c1
    BY DEF FirstTrial, Trial
  <2> QED BY <2>1, <1>2, FirstTried
<1>5. Loop[1] = "*"
  BY DEF Loop
<1> HIDE DEF nat, odd, x0
<1>6. c1.at = 1 /\ c1.next = b /\ c1.matched = <<>>
  BY DEF Trial
<1>7. Ways(g, Loop, c1) = <<c2>>
  <2>1. Ways(g, Loop, c1) = Inside(g, c1) \o Outside(Loop, c1)
    BY <1>5, <1>6, WaysStar
  <2>2. Outside(Loop, c1) = <<>>
    BY <1>6 DEF Outside
  <2>3. Inside(g, c1) = << Entered(Taken(c1, b), nat, odd) >>
    <3> HIDE DEF c1
    <3> QED BY <1>2, <1>6 DEF Inside, nat, odd
  <2>4. Entered(Taken(c1, b), nat, odd) = c2
    <3> DEFINE s == Append(e, b)
    <3>1. s = m
      OBVIOUS
    <3> HIDE DEF s, e, m
    <3>2. Taken(Trial(1, b, e, e, x0), b) = Trial(1, b, s, e, x0)
      BY TakenTrial DEF s
    <3>3. Entered(Trial(1, b, s, e, x0), nat, odd) = Trial(1, nat, s, k, x0)
      BY EnteredTrial
    <3> QED BY <3>1, <3>2, <3>3
  <2> HIDE DEF c1, c2
  <2>5. Inside(g, c1) = <<c2>>
    BY <2>3, <2>4
  <2> QED BY <2>1, <2>2, <2>5
<1>8. Tried(g, Loop, b, c2)
  <2> HIDE DEF c1, c2
  <2>1. Good(g, Loop, b, <<c2>>)
    BY <1>2, <1>4, <1>6, <1>7, GoodWays
  <2>2. <<c2>>[1] = c2 /\ Len(<<c2>>) = 1
    OBVIOUS
  <2> QED BY <2>1, <2>2 DEF Good
<1>9. c2.at = 1 /\ c2.next = nat /\ c2.matched = m /\ c2.back = k /\ c2.exits = x0
  <2> HIDE DEF m, k
  <2> QED BY DEF Trial
<1>10. /\ m # <<>> /\ (odd = nil => k = <<>>)
       /\ odd # nil => k = <<odd>> /\ k # <<>> /\ Head(k) = odd /\ Tail(k) = e
  <2>1. <<odd>> \o <<>> = <<odd>> /\ <<odd>> # <<>> /\ Head(<<odd>>) = odd /\ Tail(<<odd>>) = <<>>
    OBVIOUS
  <2> QED BY <2>1
<1>11. Returns(b, c2)
  <2>1. ToSet(<<odd>>) = {odd}
    BY DEF ToSet
  <2> HIDE DEF c2, m, k
  <2> QED BY <2>1, <1>2, <1>9, <1>10 DEF Returns, Ahead
<1> HIDE DEF c1, c2, m, k
<1>12. F[n][c1] = F[n - 1][c2]
  <2>1. c1 \in Trials(g, Loop) /\ c1.next # nil
    BY <1>2, <1>4, <1>6 DEF Tried
  <2> QED BY <2>1, <1>1, <1>7, FoundOne
<1>13. F[n - 1][c2] = NoMatch \/ Has(F[n - 1][c2].exits, b)
  BY <1>1, <1>3, <1>8, <1>11, FoundReturns
<1>14. MaySetExit(x0, FALSE, nat)
  BY DEF MaySetExit, x0, NoExits, Exits, Get
<1>15. F[n - 1][c2] # NoMatch
  <2>1. CASE odd = nil
    <3>1. F[(n - 2) + 1][c2] # NoMatch
      BY <2>1, <1>1, <1>2, <1>8, <1>9, <1>10, <1>14, LastExit
    <3> QED BY <3>1, <1>1
  <2>2. CASE odd # nil
    <3> DEFINE r == FALSE   x == Put(x0, r, nat)   c3 == Trial(1, odd, m, e, x)
               d == Out(Rest(c2), r, nat)
    <3>0. Outside(Loop, c2) = Close(Loop, Out(Rest(c2), FALSE, nat))
      BY <1>9, <1>10, <1>14 DEF Outside
    <3>14. ~ r
      OBVIOUS
    <3>1. d = Trial(1, nat, m, k, x)
      <4>1. Rest(c2) = c2
        BY <2>2, <1>9, <1>10 DEF Rest
      <4> HIDE DEF r
      <4>2. Out(Trial(1, nat, m, k, x0), r, nat) = Trial(1, nat, m, k, Put(x0, r, nat))
        BY OutTrial
      <4> QED BY <4>1, <4>2 DEF c2
    <3>2. Outside(Loop, c2) = Close(Loop, d)
      BY <3>0
    <3> HIDE DEF x, d, r
    <3>3. d.back = k /\ d.at = 1
      BY <3>1 DEF Trial
    <3>4. Close(Loop, d) = << [d EXCEPT !.next = Head(d.back), !.back = Tail(d.back)] >>
      BY <3>3, <2>2, <1>10 DEF Close
    <3>5. Head(k) = odd /\ Tail(k) = e
      BY <2>2, <1>10
    <3>6. [d EXCEPT !.next = Head(d.back), !.back = Tail(d.back)] = c3
      <4> DEFINE u == Head(k)   t == Tail(k)
      <4>1. [d EXCEPT !.next = Head(d.back), !.back = Tail(d.back)] = [[d EXCEPT !.next = u] EXCEPT !.back = t]
        BY <3>3
      <4> HIDE DEF u, t, e
      <4>2. [d EXCEPT !.next = u] = Trial(1, u, m, k, x)
        BY <3>1 DEF Trial
      <4>3. [Trial(1, u, m, k, x) EXCEPT !.back = t] = Trial(1, u, m, t, x)
        BY DEF Trial
      <4> QED BY <4>1, <4>2, <4>3, <3>5 DEF u, t
    <3> HIDE DEF c3
    <3>7. Outside(Loop, c2) = <<c3>>
      BY <3>2, <3>4, <3>6
    <3>8. Tried(g, Loop, b, c3)
      <4>1. PICK w : Outside(Loop, c2) = <<w>> /\ Tried(g, Loop, b, w)
        <5>1. <<c3>> # <<>>
          OBVIOUS
        <5> HIDE DEF F
        <5> QED BY <5>1, <3>7, <1>2, <1>8, <1>9, GoodOutside
      <4>2. w = c3
        BY <4>1, <3>7
      <4> QED BY <4>1, <4>2
    <3>9. c3.next = odd /\ c3.matched = m /\ c3.back = <<>> /\ c3.exits = x
      <4> HIDE DEF e
      <4>1. c3.next = odd /\ c3.matched = m /\ c3.back = e /\ c3.exits = x
        BY DEF Trial, c3
      <4> QED BY <4>1 DEF e
    <3>10. MaySetExit(x, TRUE, odd)
      BY <3>14 DEF MaySetExit, x, x0, NoExits, Exits, Get, Put
    <3>11. F[n - 2][c3] # NoMatch
      <4>1. F[(n - 3) + 1][c3] # NoMatch
        BY <2>2, <1>1, <1>10, <3>8, <3>9, <3>10, LastExit
      <4> QED BY <4>1, <1>1
    <3>12. Ways(g, Loop, c2) = <<c3>> \/ \E v : Ways(g, Loop, c2) = <<v, c3>>
      <4> DEFINE i == Inside(g, c2)   o == Outside(Loop, c2)   T == Trials(g, Loop)
      <4>1. i = <<>> \/ \E w \in T : i = <<w>>
        <5>1. i = <<>> \/ \E w : i = <<w>> /\ Tried(g, Loop, b, w)
          BY <1>2, <1>8, <1>9, GoodInside
        <5> HIDE DEF i
        <5> QED BY <5>1 DEF Tried
      <4>2. o = <<c3>> /\ c3 \in T
        BY <3>7, <3>8 DEF Tried
      <4>3. Ways(g, Loop, c2) = i \o o
        BY <1>5, <1>9, WaysStar
      <4> HIDE DEF i, o, T
      <4>4. o = <<>> \/ \E w \in T : o = <<w>>
        BY <4>2
      <4>5. \A w : o = <<w>> => i \o o = <<w>> \/ \E v : i \o o = <<v, w>>
        BY <4>1, <4>4, JoinedFacts
      <4> QED BY <4>2, <4>3, <4>5
    <3>13. F[(n - 2) + 1][c2] # NoMatch
      BY <1>1, <1>2, <1>8, <1>9, <3>11, <3>12, FoundLast DEF Tried
    <3> QED BY <3>13, <1>1
  <2> QED BY <2>1, <2>2
<1>16. Match(g, Loop, b) = F[n - 1][c2]
  BY <1>4, <1>12 DEF Match, n
<1>17. Match(g, Loop, b).blocs[1] = b
  <2>1. Match(g, Loop, b) # NoMatch
    BY <1>15, <1>16
  <2> QED BY <2>1, <1>2, MatchFacts
<1> HIDE DEF F
<1> QED BY <1>13, <1>15, <1>16, <1>17, Zenon DEF Accepted

-----------------------------------------------------------------------------
(* The invariant of the program.                                           *)

\* The graph that decode made: the instruction that runs is one of it.
Flowing ==
  /\ flow \in [DOMAIN flow -> ExitsTo(DOMAIN flow)] /\ at \in DOMAIN flow
  /\ \A b \in DOMAIN flow : flow[b].nat = nil => flow[b].odd = nil

\* The graph is well built and its entry leads to every bloc; what decode still
\* has to set is not set; nothing was thrown but for want of a cycle to open.
Shaped ==
  /\ phase \in Phases /\ minsize \in Nat /\ Sane(lab) /\ Rooted(lab)
  /\ phase \in {"decode", "collapse"} => at = entry_bloc
  /\ IF phase = "decode" THEN Waiting(lab, pending) /\ flow = <<>> ELSE Flowing
  /\ lab.error = IF phase = "thrown" THEN "bad graph" ELSE "none"

LEMMA ShapedInit == ASSUME Init PROVE Shaped
<1>1. lab = Fetched1 /\ phase = "decode" /\ minsize = 0 /\ at = entry_bloc /\ flow = <<>>
      /\ pending \in Kinds(entry_bloc)
  BY DEF Init
<1>2. Sane(lab) /\ Rooted(lab) /\ Blocs(lab) = {entry_bloc} /\ lab.error = "none"
      /\ lab.exits[entry_bloc] = NoExits
  BY <1>1, FetchedFacts
<1>3. Waiting(lab, pending)
  <2> DEFINE e == <<>>
  <2>1. e \in Seq(Blocs(lab) \X BOOLEAN) /\ Len(e) = 0 /\ DOMAIN e = {}
    OBVIOUS
  <2>2. IsInjective(e) /\ 1 .. Len(e) = {}
    BY <2>1 DEF IsInjective
  <2>3. pending \o e = pending
    <3>1. pending \in Seq({<<entry_bloc, FALSE>>, <<entry_bloc, TRUE>>})
      <4> DEFINE no == <<entry_bloc, FALSE>>   yes == <<entry_bloc, TRUE>>
      <4>1. pending \in {<<>>, <<no>>, <<no, yes>>}
        BY <1>1 DEF Kinds
      <4> SUFFICES pending \in Seq({no, yes})
        OBVIOUS
      <4> HIDE DEF no, yes
      <4>2. <<>> \in Seq({no, yes}) /\ <<no>> \in Seq({no, yes}) /\ <<no, yes>> \in Seq({no, yes})
        OBVIOUS
      <4> QED BY <4>1, <4>2
    <3> QED BY <3>1, ConcatEmptySeq
  <2> HIDE DEF e
  <2>4. Waiting(lab, e)
    BY <2>1, <2>2 DEF Waiting
  <2>5. \A i \in 1 .. Len(e) : e[i][1] # entry_bloc
    BY <2>2
  <2>6. Waiting(lab, pending \o e)
    BY <1>1, <1>2, <2>4, <2>5, WaitingMore
  <2> QED BY <2>3, <2>6
<1>4. phase # "thrown" /\ phase \in Phases
  BY <1>1 DEF Phases
<1> QED BY <1>1, <1>2, <1>3, <1>4 DEF Shaped

LEMMA ShapedDecodeKnown == ASSUME Shaped, DecodeKnown PROVE Shaped'
<1>1. /\ phase = "decode" /\ pending # <<>> /\ Sane(lab) /\ Rooted(lab) /\ Waiting(lab, pending)
      /\ phase' = phase /\ pending' = Tail(pending) /\ flow' = flow /\ minsize' = minsize /\ at' = at
      /\ lab.error = "none" /\ flow = <<>> /\ at = entry_bloc /\ minsize \in Nat
  BY DEF Shaped, DecodeKnown, runVars
<1>2. PICK t \in Blocs(lab) : lab' = SetExit(lab, Head(pending)[1], Head(pending)[2], t)
  BY DEF DecodeKnown
<1>3. Sane(lab') /\ Rooted(lab') /\ lab'.error = lab.error /\ Waiting(lab', Tail(pending))
  BY <1>1, <1>2, DecodeKnownFacts
<1>4. phase' # "thrown" /\ phase' \in Phases
  BY <1>1 DEF Phases
<1> QED BY <1>1, <1>3, <1>4 DEF Shaped

LEMMA ShapedDecodeNew == ASSUME Shaped, DecodeNew PROVE Shaped'
<1>1. /\ phase = "decode" /\ pending # <<>> /\ Sane(lab) /\ Rooted(lab) /\ Waiting(lab, pending)
      /\ phase' = phase /\ flow' = flow /\ minsize' = minsize /\ at' = at
      /\ lab.error = "none" /\ flow = <<>> /\ at = entry_bloc /\ minsize \in Nat
  BY DEF Shaped, DecodeNew, runVars
<1>2. PICK k \in Kinds(lab.fresh) : pending' = k \o Tail(pending)
  BY DEF DecodeNew
<1> DEFINE ss == << <<"insn", lab.fresh>> >>
<1>3. lab' = SetExit(NewBloc(lab, ss), Head(pending)[1], Head(pending)[2], lab.fresh)
  BY DEF DecodeNew
<1> HIDE DEF ss
<1>4. Sane(lab') /\ Rooted(lab') /\ lab'.error = lab.error /\ Waiting(lab', k \o Tail(pending))
  BY <1>1, <1>3, DecodeNewFacts
<1>5. phase' # "thrown" /\ phase' \in Phases
  BY <1>1 DEF Phases
<1> QED BY <1>1, <1>2, <1>4, <1>5 DEF Shaped

LEMMA ShapedDecoded == ASSUME Shaped, Decoded PROVE Shaped'
<1>1. /\ phase = "decode" /\ phase' = "collapse" /\ flow' = lab.exits /\ minsize' = Len(lab.pool)
      /\ lab' = lab /\ at' = at /\ Sane(lab) /\ Rooted(lab) /\ lab.error = "none" /\ at = entry_bloc
  BY DEF Shaped, Decoded, runVars
<1>2. /\ flow' \in [Blocs(lab) -> ExitsTo(Blocs(lab))] /\ entry_bloc \in Blocs(lab)
      /\ minsize' \in Nat /\ \A b \in Blocs(lab) : flow'[b].nat = nil => flow'[b].odd = nil
  BY <1>1, PoolFacts DEF Sane, Linked
<1>3. DOMAIN flow' = Blocs(lab)
  BY <1>2
<1>4. Flowing'
  BY <1>1, <1>2, <1>3 DEF Flowing
<1>5. phase' # "thrown" /\ phase' # "decode" /\ phase' \in Phases
  BY <1>1 DEF Phases
<1> QED BY <1>1, <1>2, <1>4, <1>5 DEF Shaped

LEMMA ShapedEmit == ASSUME Shaped, Emit PROVE Shaped'
<1>1. /\ phase = "collapse" /\ phase' = "run" /\ UNCHANGED <<lab, pending, flow, minsize, at>>
  BY DEF Emit, runVars
<1>2. Flowing' /\ minsize' \in Nat /\ Sane(lab') /\ Rooted(lab') /\ lab'.error = "none"
  BY <1>1 DEF Shaped, Flowing
<1>3. phase' # "thrown" /\ phase' \notin {"decode", "collapse"} /\ phase' \in Phases
  BY <1>1 DEF Phases
<1> QED BY <1>2, <1>3 DEF Shaped

\* The graph that a round makes.
LEMMA ShapedRewrite ==
  ASSUME Shaped, phase = "collapse", NEW g, Sane(g), Rooted(g), g.error \in {"none", "bad graph"},
         Rewrite(g), UNCHANGED <<pending, flow, runVars>>
  PROVE  Shaped'
<1> DEFINE size == Len(g.pool)
<1>1. size \in Nat /\ minsize \in Nat
  BY PoolFacts DEF Sane, Shaped
<1>2. lab' = g /\ minsize' \in {size, minsize}
      /\ phase' \in (IF g.error # "none" THEN {"thrown"} ELSE {"failed", phase})
  BY Zenon DEF Rewrite
<1>3. minsize' \in Nat
  <2> HIDE DEF size
  <2> QED BY <1>1, <1>2
<1>4. Flowing /\ at = entry_bloc
  BY DEF Shaped
<1>9. flow' = flow /\ at' = at
  BY DEF runVars
<1>5. Flowing'
  BY <1>9, <1>4 DEF Flowing
<1> DEFINE err == g.error
<1>10. err \in {"none", "bad graph"}
  OBVIOUS
<1>11. phase' \in (IF err # "none" THEN {"thrown"} ELSE {"failed", phase})
  BY <1>2
<1> HIDE DEF err
<1>6. err = "none" => phase' \in {"failed", "collapse"}
  BY <1>11
<1>7. err # "none" => phase' = "thrown" /\ err = "bad graph"
  BY <1>10, <1>11
<1>8. phase' \in Phases /\ phase' # "decode" /\ err = IF phase' = "thrown" THEN "bad graph" ELSE "none"
  BY <1>6, <1>7 DEF Phases
<1>12. lab'.error = IF phase' = "thrown" THEN "bad graph" ELSE "none"
  BY <1>2, <1>8 DEF err
<1> QED BY <1>2, <1>3, <1>4, <1>5, <1>8, <1>9, <1>12 DEF Shaped

LEMMA CollapsingFacts ==
  ASSUME Shaped, Collapsing
  PROVE  phase = "collapse" /\ Sane(lab) /\ Rooted(lab) /\ lab.error = "none"
BY DEF Shaped, Collapsing

LEMMA NoneFacts ==
  ASSUME Sane(lab), Rooted(lab), NEW ps, None(ps), NEW p \in Patterns, p \in ps
  PROVE  \A b \in Blocs(lab) : ~ Accepted(p, Match(lab, p, b))
<1>1. FirstMatch(lab, p) = NoMatch
  BY DEF None
<1> QED BY <1>1, FirstMatchFacts

LEMMA ShapedStepSequence ==
  ASSUME Shaped, StepSequence, UNCHANGED <<pending, flow, runVars>> PROVE Shaped'
<1>1. Collapsing /\ \E m \in {FirstMatch(lab, Seq2)} : m # NoMatch /\ Rewrite(MergeSubgraph(lab, m))
  BY DEF StepSequence
<1>2. phase = "collapse" /\ Sane(lab) /\ Rooted(lab) /\ lab.error = "none"
  BY <1>1, CollapsingFacts
<1> DEFINE m == FirstMatch(lab, Seq2)   h == MergeSubgraph(lab, m)
<1>3. m # NoMatch /\ Rewrite(h)
  BY <1>1
<1>4. Seq2 \in Patterns
  BY DEF Patterns
<1>6. Grouped(lab, Seq2, m)
  BY <1>2, <1>3, <1>4, FirstMatchFacts
<1> HIDE DEF m
<1>7. Sane(h) /\ Rooted(h) /\ h.error = lab.error
  <2>1. Mergeable(lab, m.blocs, m.exits)
    BY <1>2, <1>6, GroupedMergeable
  <2> QED BY <1>2, <2>1, MergeFacts
<1> HIDE DEF h
<1>8. h.error \in {"none", "bad graph"}
  BY <1>2, <1>7
<1> QED BY <1>2, <1>3, <1>7, <1>8, ShapedRewrite

LEMMA ShapedStepIfThen ==
  ASSUME Shaped, StepIfThen, UNCHANGED <<pending, flow, runVars>> PROVE Shaped'
<1>1. Collapsing /\ \E m \in {FirstMatch(lab, IfThen)} : m # NoMatch /\ Rewrite(MergeIf(lab, m, << <<"}">> >>))
  BY DEF StepIfThen
<1>2. phase = "collapse" /\ Sane(lab) /\ Rooted(lab) /\ lab.error = "none"
  BY <1>1, CollapsingFacts
<1> DEFINE m == FirstMatch(lab, IfThen)   closers == << <<"}">> >>   h == MergeIf(lab, m, closers)
<1>3. m # NoMatch /\ Rewrite(h)
  BY <1>1
<1>4. IfThen \in Patterns
  BY DEF Patterns
<1>5. Len(closers) \in Nat
  OBVIOUS
<1> HIDE DEF closers
<1>6. Grouped(lab, IfThen, m)
  BY <1>2, <1>3, <1>4, FirstMatchFacts
<1> HIDE DEF m
<1>7. Sane(h) /\ Rooted(h) /\ h.error = lab.error
  BY <1>2, <1>5, <1>6, MergeIfFacts
<1> HIDE DEF h
<1>8. h.error \in {"none", "bad graph"}
  BY <1>2, <1>7
<1> QED BY <1>2, <1>3, <1>7, <1>8, ShapedRewrite

LEMMA ShapedStepIfThenElse ==
  ASSUME Shaped, StepIfThenElse, UNCHANGED <<pending, flow, runVars>> PROVE Shaped'
<1>1. Collapsing /\ \E m \in {FirstMatch(lab, IfThenElse)} : m # NoMatch /\ Rewrite(MergeIf(lab, m, << <<"else">>, <<"}">> >>))
  BY DEF StepIfThenElse
<1>2. phase = "collapse" /\ Sane(lab) /\ Rooted(lab) /\ lab.error = "none"
  BY <1>1, CollapsingFacts
<1> DEFINE m == FirstMatch(lab, IfThenElse)   closers == << <<"else">>, <<"}">> >>   h == MergeIf(lab, m, closers)
<1>3. m # NoMatch /\ Rewrite(h)
  BY <1>1
<1>4. IfThenElse \in Patterns
  BY DEF Patterns
<1>5. Len(closers) \in Nat
  OBVIOUS
<1> HIDE DEF closers
<1>6. Grouped(lab, IfThenElse, m)
  BY <1>2, <1>3, <1>4, FirstMatchFacts
<1> HIDE DEF m
<1>7. Sane(h) /\ Rooted(h) /\ h.error = lab.error
  BY <1>2, <1>5, <1>6, MergeIfFacts
<1> HIDE DEF h
<1>8. h.error \in {"none", "bad graph"}
  BY <1>2, <1>7
<1> QED BY <1>2, <1>3, <1>7, <1>8, ShapedRewrite

LEMMA ShapedStepExitIf ==
  ASSUME Shaped, StepExitIf, UNCHANGED <<pending, flow, runVars>> PROVE Shaped'
<1>1. Collapsing /\ \E m \in {FirstMatch(lab, ExitIf)} : m # NoMatch /\ Rewrite(MergeIf(lab, m, << <<"}">> >>))
  BY DEF StepExitIf
<1>2. phase = "collapse" /\ Sane(lab) /\ Rooted(lab) /\ lab.error = "none"
  BY <1>1, CollapsingFacts
<1> DEFINE m == FirstMatch(lab, ExitIf)   closers == << <<"}">> >>   h == MergeIf(lab, m, closers)
<1>3. m # NoMatch /\ Rewrite(h)
  BY <1>1
<1>4. ExitIf \in Patterns
  BY DEF Patterns
<1>5. Len(closers) \in Nat
  OBVIOUS
<1> HIDE DEF closers
<1>6. Grouped(lab, ExitIf, m)
  BY <1>2, <1>3, <1>4, FirstMatchFacts
<1> HIDE DEF m
<1>7. Sane(h) /\ Rooted(h) /\ h.error = lab.error
  BY <1>2, <1>5, <1>6, MergeIfFacts
<1> HIDE DEF h
<1>8. h.error \in {"none", "bad graph"}
  BY <1>2, <1>7
<1> QED BY <1>2, <1>3, <1>7, <1>8, ShapedRewrite

LEMMA ShapedStepLoop ==
  ASSUME Shaped, StepLoop, UNCHANGED <<pending, flow, runVars>> PROVE Shaped'
<1>1. /\ Collapsing /\ None({Seq2, IfThen, IfThenElse})
      /\ \E m \in {FirstMatch(lab, Loop)} : m # NoMatch /\ Rewrite(MergeLoop(lab, m))
  BY DEF StepLoop
<1>2. phase = "collapse" /\ Sane(lab) /\ Rooted(lab) /\ lab.error = "none"
  BY <1>1, CollapsingFacts
<1> DEFINE m == FirstMatch(lab, Loop)   h == MergeLoop(lab, m)
           after == Get(m.exits, ~ Which(m.exits, m.blocs[1]))
<1>3. m # NoMatch /\ Rewrite(h)
  BY <1>1
<1>4. Loop \in Patterns /\ Seq2 \in Patterns
  BY DEF Patterns
<1>5. Grouped(lab, Loop, m) /\ Accepted(Loop, m)
  BY <1>2, <1>3, <1>4, FirstMatchFacts
<1> HIDE DEF m
<1>6. Has(m.exits, m.blocs[1])
  BY <1>5 DEF Accepted
<1>7. \A b \in Blocs(lab) : ~ Accepted(Seq2, Match(lab, Seq2, b))
  BY <1>1, <1>2, <1>4, NoneFacts
<1>8. \A b \in ToSet(m.blocs) : ~ Lost(lab, m, after, b)
  BY <1>2, <1>5, <1>6, <1>7, NoneLost
<1>9. Sane(h) /\ Rooted(h) /\ h.error = lab.error
  BY <1>2, <1>5, <1>6, <1>8, MergeLoopFacts
<1> HIDE DEF h, after
<1>10. h.error \in {"none", "bad graph"}
  BY <1>2, <1>9
<1> QED BY <1>2, <1>3, <1>9, <1>10, ShapedRewrite

LEMMA ShapedStepFunnel ==
  ASSUME Shaped, StepFunnel, UNCHANGED <<pending, flow, runVars>> PROVE Shaped'
<1>1. Collapsing
  BY DEF StepFunnel
<1>2. phase = "collapse" /\ Sane(lab) /\ Rooted(lab) /\ lab.error = "none"
  BY <1>1, CollapsingFacts
<1>3. PICK R \in Hammocks(lab) : \E e, f \in PartExits(lab, R) : e # f /\ Rewrite(Funnel(lab, R, Exits(e, f)))
  BY DEF StepFunnel
<1>4. PICK e \in PartExits(lab, R), f \in PartExits(lab, R) : Rewrite(Funnel(lab, R, Exits(e, f)))
  BY <1>3
<1>5. R \in SUBSET Blocs(lab)
  BY DEF Hammocks
<1> DEFINE h == Funnel(lab, R, Exits(e, f))
<1>6. Sane(h) /\ Rooted(h) /\ h.error = lab.error
  BY <1>2, <1>5, FunnelFacts
<1>7. Rewrite(h)
  BY <1>4
<1> HIDE DEF h
<1>8. h.error \in {"none", "bad graph"}
  BY <1>2, <1>6
<1> QED BY <1>2, <1>6, <1>7, <1>8, ShapedRewrite

LEMMA ShapedStepDuplicate ==
  ASSUME Shaped, StepDuplicate, UNCHANGED <<pending, flow, runVars>> PROVE Shaped'
<1>1. Collapsing /\ NoGroup
  BY DEF StepDuplicate
<1>2. phase = "collapse" /\ Sane(lab) /\ Rooted(lab) /\ lab.error = "none"
  BY <1>1, CollapsingFacts
<1> DEFINE g == Refresh(lab)
           bad == [g EXCEPT !.error = "bad graph"]
           h == IF g.error # "none" THEN g
                ELSE IF \E b \in Blocs(g) : b \in Succ(g, b) THEN [g EXCEPT !.error = "self-cycle"]
                ELSE IF IncomingEdges(g) = {} THEN bad
                ELSE DuplicateWorst(g)
<1>3. Rewrite(h)
  BY DEF StepDuplicate
<1>4. Sane(g) /\ Rooted(g) /\ g.error = lab.error /\ Blocs(g) = Blocs(lab) /\ g.exits = lab.exits
  BY <1>2, RefreshFacts
<1> HIDE DEF g
<1>5. ~ \E b \in Blocs(g) : b \in Succ(g, b)
  <2> SUFFICES ASSUME NEW b \in Blocs(lab), b \in Succ(lab, b) PROVE FALSE
    BY <1>4 DEF Succ
  <2>1. Accepted(Loop, Match(lab, Loop, b))
    BY <1>2, LoopFound
  <2>2. Loop \in Patterns
    BY DEF Patterns
  <2>3. \A c \in Blocs(lab) : ~ Accepted(Loop, Match(lab, Loop, c))
    <3> DEFINE ps == {Seq2, IfThen, IfThenElse, Loop, ExitIf}
    <3>1. None(ps) /\ Loop \in ps
      BY <1>1 DEF NoGroup
    <3> HIDE DEF ps
    <3> QED BY <1>2, <2>2, <3>1, NoneFacts
  <2> QED BY <2>1, <2>3
<1>6. h = IF IncomingEdges(g) = {} THEN bad ELSE DuplicateWorst(g)
  BY <1>2, <1>4, <1>5
<1>7. CASE IncomingEdges(g) = {}
  <2>1. g = [f \in Fields |-> g[f]]
    BY <1>4 DEF Sane, Pooled
  <2> DEFINE e == "bad graph"   d == [g EXCEPT !.error = e]
  <2> HIDE DEF e
  <2>2. d = [f \in Fields |-> IF f = "error" THEN e ELSE g[f]]
    BY <2>1 DEF Fields
  <2> HIDE DEF d
  <2>3. Kin(g, d) /\ d.error = e
    <3>1. d = [f \in Fields |-> d[f]] /\ d.error = e /\ d.stmts = g.stmts
      BY <2>2 DEF Fields
    <3>2. \A f \in Fields : f # "error" => d[f] = g[f]
      BY <2>2
    <3> QED BY <3>1, <3>2 DEF Kin, Alike
  <2>4. Sane(d) /\ Rooted(d)
    BY <1>4, <2>3, KinSane
  <2>5. Rewrite(d) /\ d.error \in {"none", "bad graph"}
    BY <1>3, <1>6, <1>7, <2>3 DEF d, e
  <2> QED BY <1>2, <2>4, <2>5, ShapedRewrite
<1>8. CASE IncomingEdges(g) # {}
  <2> DEFINE d == DuplicateWorst(g)
  <2>1. Sane(d) /\ Rooted(d) /\ d.error = g.error
    BY <1>4, <1>8, DuplicateWorstFacts
  <2>2. Rewrite(d)
    BY <1>3, <1>6, <1>8
  <2> HIDE DEF d
  <2>3. d.error \in {"none", "bad graph"}
    BY <1>2, <1>4, <2>1
  <2> QED BY <1>2, <2>1, <2>2, <2>3, ShapedRewrite
<1> QED BY <1>7, <1>8

\* The emitted code runs, and the graph stays as it is.
LEMMA ShapedRun == ASSUME Shaped, Run PROVE Shaped'
<1>1. phase = "run" /\ UNCHANGED <<lab, flow, minsize>>
  BY DEF Run, RunInsn, RunFunnel, RunControl, Diverge, Running
<1>2. phase' \in {"run", "returned", "diverged"}
  BY <1>1 DEF Run, RunInsn, RunFunnel, RunControl, Diverge
<1>3. Flowing
  BY <1>1 DEF Shaped
<1>4. at' \in DOMAIN flow
  <2>1. CASE RunInsn
    <3>1. CASE DeadEnd([exits |-> flow], at)
      BY <2>1, <3>1, <1>3 DEF RunInsn, Flowing
    <3>2. CASE ~ DeadEnd([exits |-> flow], at)
      <4>1. PICK odd \in BOOLEAN : (odd => flow[at].odd # nil) /\ at' = Get(flow[at], odd)
        BY <2>1, <3>2 DEF RunInsn
      <4>2. flow[at] \in ExitsTo(DOMAIN flow) /\ (flow[at].nat = nil => flow[at].odd = nil)
        BY <1>3 DEF Flowing
      <4>3. flow[at] # NoExits
        BY <3>2 DEF DeadEnd
      <4>4. flow[at].nat # nil
        BY <4>2, <4>3 DEF ExitsTo, NoExits, Exits
      <4> QED BY <4>1, <4>2, <4>4 DEF Get, ExitsTo
    <3> QED BY <3>1, <3>2
  <2>2. CASE RunFunnel \/ RunControl \/ Diverge
    BY <2>2, <1>3 DEF RunFunnel, RunControl, Diverge, runVars, Flowing
  <2> QED BY <2>1, <2>2 DEF Run
<1>5. Flowing'
  BY <1>1, <1>3, <1>4 DEF Flowing
<1>6. phase' \in Phases /\ phase' \notin {"decode", "collapse", "thrown"} /\ phase # "thrown"
  BY <1>1, <1>2 DEF Phases
<1>7. minsize' \in Nat /\ Sane(lab') /\ Rooted(lab') /\ lab'.error = "none"
  BY <1>1, <1>6 DEF Shaped
<1> QED BY <1>5, <1>6, <1>7 DEF Shaped

LEMMA ShapedStutter == ASSUME Shaped, UNCHANGED vars PROVE Shaped'
BY DEF Shaped, Flowing, vars

LEMMA ShapedNext == ASSUME Shaped, [Next]_vars PROVE Shaped'
<1>1. CASE Decode
  BY <1>1, ShapedDecodeKnown, ShapedDecodeNew, ShapedDecoded DEF Decode
<1>2. CASE Round /\ UNCHANGED <<pending, flow, runVars>>
  BY <1>2, ShapedStepSequence, ShapedStepIfThen, ShapedStepIfThenElse, ShapedStepLoop,
     ShapedStepExitIf, ShapedStepFunnel, ShapedStepDuplicate DEF Round
<1>3. CASE Emit
  BY <1>3, ShapedEmit
<1>4. CASE Run
  BY <1>4, ShapedRun
<1>5. CASE Over \/ UNCHANGED vars
  BY <1>5, ShapedStutter DEF Over
<1> QED BY <1>1, <1>2, <1>3, <1>4, <1>5 DEF Next, Step

LEMMA ShapedAlways == Spec => []Shaped
BY ShapedInit, ShapedNext, PTL DEF Spec

\* The blocs, their exits, counts and statements keep their types whatever the
\* order in which decode sets exits and collapse rewrites the graph; exits
\* only lead to blocs of the pool (IBloc, Collapse::step).
THEOREM TypeCorrect == Spec => []TypeOK
<1>1. Shaped => TypeOK
  <2> SUFFICES ASSUME Shaped PROVE TypeOK
    OBVIOUS
  <2>1. /\ phase \in Phases /\ IsInjective(lab.pool)
        /\ lab.exits \in [Blocs(lab) -> ExitsTo(Blocs(lab))]
        /\ lab.prevcount \in [Blocs(lab) -> Nat]
        /\ DOMAIN lab.stmts = Blocs(lab) /\ minsize \in Nat
    BY DEF Shaped, Sane, Pooled, Linked, Counted
  <2>2. at \in DOMAIN flow \union {entry_bloc}
    <3>1. CASE phase = "decode"
      BY <3>1 DEF Shaped
    <3>2. CASE phase # "decode"
      BY <3>2 DEF Shaped, Flowing
    <3> QED BY <3>1, <3>2
  <2> QED BY <2>1, <2>2 DEF TypeOK
<1> QED BY <1>1, ShapedAlways, PTL

\* The count of references of each bloc is the number of exits that lead to it,
\* and one more for the entry, after every rewrite: a pattern that asks for a
\* bloc with one predecessor is not misled (IBloc::prevcount, UpdateNextExit).
THEOREM CountsExact == Spec => []RefCounts
<1>1. Shaped => RefCounts
  <2> SUFFICES ASSUME Shaped, NEW b \in Blocs(lab)
               PROVE  lab.prevcount[b] =
                        Cardinality({e \in Blocs(lab) \X BOOLEAN : Get(lab.exits[e[1]], e[2]) = b})
                          + (IF b = entry_bloc THEN 1 ELSE 0)
    BY DEF RefCounts
  <2>1. lab.prevcount[b] = Cardinality(Links(lab.exits, Blocs(lab), b)) + Held(b)
    BY DEF Shaped, Sane, Counted
  <2> QED BY <2>1 DEF Links, Held, One
<1> QED BY <1>1, ShapedAlways, PTL

\* Collapse gives up on a function in one way only, for want of an edge to cut
\* in a graph where no pattern matches.  Whatever the graph and the rewrites so
\* far, a bloc that is deleted is not referred to any more ("CFG leak"), the
\* order of refresh_props has every bloc ("sanity check"), a bloc of a loop with
\* one exit leaves the loop or repeats it, and no bloc leads to itself when
\* blocs are duplicated (IBloc::Delete, refresh_props, merge_loop, step).
THEOREM OneException == Spec => [](phase = "thrown" => lab.error = "bad graph")
<1>1. Shaped => (phase = "thrown" => lab.error = "bad graph")
  BY DEF Shaped
<1> QED BY <1>1, ShapedAlways, PTL

\* No rewrite leaves a bloc behind: the entry leads to every bloc that is in
\* the pool, so that what the emitted function does not reach was deleted, and
\* what was deleted was not reached (IBloc::Delete, Collapse::step).
THEOREM NoneStranded == Spec => []Rooted(lab)
<1>1. Shaped => Rooted(lab)
  BY DEF Shaped
<1> QED BY <1>1, ShapedAlways, PTL

-----------------------------------------------------------------------------
(* The seed of the test bench: what the waves should be.                   *)

\* The answers s are a whole run of a client that has made the wave w: as long
\* as it gets the answers of w it asks the same questions and does not return.
IsRun(s, w) ==
  /\ \A i \in DOMAIN w :
       (\A j \in 1 .. i - 1 : j \in DOMAIN s /\ s[j] = w[j].value)
         => i \in DOMAIN s /\ s[i] < w[i].count
  /\ (\A j \in DOMAIN w : j \in DOMAIN s /\ s[j] = w[j].value) => DOMAIN s = DOMAIN w

\* The answers s come after, or before, those of the wave w in lexicographic
\* order.
After(s, w) ==
  \E p \in DOMAIN s \intersect DOMAIN w :
    /\ s[p] > w[p].value
    /\ \A j \in 1 .. p - 1 : s[j] = w[j].value

Before(s, w) ==
  \E p \in DOMAIN s \intersect DOMAIN w :
    /\ s[p] < w[p].value
    /\ \A j \in 1 .. p - 1 : s[j] = w[j].value

Answers(w) == [i \in DOMAIN w |-> w[i].value]

\* No run comes before the first wave, none between two waves, none after the
\* last one; and each wave comes after the one before, so that none comes twice.
NoRunSkipped ==
  \A s \in Seq(Nat) :
    /\ seed = "over" /\ before = <<>> => ~ Before(s, choices)
    /\ seed = "over" /\ before # <<>> /\ IsRun(s, before) =>
         ~ (After(s, before) /\ Before(s, choices))
    /\ seed = "over" /\ before # <<>> => After(Answers(choices), before)
    /\ seed = "stopped" /\ IsRun(s, before) => ~ After(s, before)

-----------------------------------------------------------------------------
(* Sequences of choices.                                                   *)

LEMMA Elements ==
  ASSUME NEW S, NEW w \in Seq(S)
  PROVE  /\ Len(w) \in Nat
         /\ DOMAIN w = 1 .. Len(w)
         /\ \A i \in 1 .. Len(w) : w[i] \in S
  OBVIOUS

LEMMA Waves ==
  ASSUME NEW C \in SUBSET Nat, NEW w \in Seq([count : C, value : Nat])
  PROVE  /\ Len(w) \in Nat
         /\ DOMAIN w = 1 .. Len(w)
         /\ \A i \in 1 .. Len(w) : /\ w[i] \in [count : C, value : Nat]
                                   /\ w[i].value \in Nat
                                   /\ w[i].count \in Nat
  <1>1. \A i \in 1 .. Len(w) : w[i] \in [count : C, value : Nat]
    BY Elements
  <1> QED
    BY <1>1, Elements

-----------------------------------------------------------------------------
(* The invariant.                                                          *)

Inv == SeedType /\ Lexicographic

LEMMA InitInv == SeedInit => Inv
  BY DEF SeedInit, Inv, SeedType, Lexicographic

\* Making the choices of a wave one after the other keeps the successor of a
\* wave one.
LEMMA AppendSucceeds ==
  ASSUME NEW C, NEW cs \in Seq([count : C, value : Nat]), NEW w, Succeeds(cs, w),
         NEW c \in C
  PROVE  Succeeds(Append(cs, [count |-> c, value |-> 0]), w)
  <1> DEFINE ds == Append(cs, [count |-> c, value |-> 0])
  <1>1. PICK k \in DOMAIN cs :
          /\ k \in DOMAIN w /\ Left(w, k)
          /\ \A i \in k + 1 .. Len(w) : ~ Left(w, i)
          /\ \A i \in 1 .. k : cs[i] = Increment(w, k)[i]
          /\ \A i \in k + 1 .. Len(cs) : cs[i].value = 0
    BY DEF Succeeds
  <1>2. /\ k \in DOMAIN ds
        /\ Len(ds) = Len(cs) + 1
        /\ \A i \in 1 .. Len(cs) : ds[i] = cs[i]
        /\ ds[Len(cs) + 1].value = 0
    OBVIOUS
  <1>3. \A i \in 1 .. k : ds[i] = Increment(w, k)[i]
    BY <1>1, <1>2
  <1>4. \A i \in k + 1 .. Len(ds) : ds[i].value = 0
    BY <1>1, <1>2
  <1> QED
    BY <1>1, <1>2, <1>3, <1>4 DEF Succeeds

\* The choices that nextwave leaves are those of a wave, its successor.
LEMMA IncrementSucceeds ==
  ASSUME NEW C \in SUBSET Nat, NEW w \in Seq([count : C, value : Nat]),
         \A i \in DOMAIN w : w[i].value < w[i].count,
         NEW k \in DOMAIN w, Left(w, k), \A i \in k + 1 .. Len(w) : ~ Left(w, i)
  PROVE  /\ Increment(w, k) \in Seq([count : C, value : Nat])
         /\ \A i \in DOMAIN Increment(w, k) : Increment(w, k)[i].value < Increment(w, k)[i].count
         /\ Succeeds(Increment(w, k), w)
  <1> DEFINE cs == Increment(w, k)
  <1>1. k \in Nat /\ k >= 1 /\ k <= Len(w)
    BY Waves
  <1>3. cs = [i \in 1 .. k |-> IF i = k THEN [w[i] EXCEPT !.value = @ + 1] ELSE w[i]]
    BY DEF Increment
  <1>4. \A i \in 1 .. k : w[i] \in [count : C, value : Nat]
    BY <1>1, Waves
  <1>5. [w[k] EXCEPT !.value = @ + 1] \in [count : C, value : Nat]
    <2>1. w[k] \in [count : C, value : Nat]
      BY <1>1, <1>4
    <2> QED BY SMTT(60), <2>1
  <1>6. cs \in [1 .. k -> [count : C, value : Nat]]
    BY <1>3, <1>4, <1>5
  <1>7. cs \in Seq([count : C, value : Nat]) /\ Len(cs) = k /\ DOMAIN cs = 1 .. k
    BY <1>1, <1>6
  <1>8. \A i \in 1 .. k : cs[i].value < cs[i].count
    <2>1. cs[k].value = w[k].value + 1 /\ cs[k].count = w[k].count
      BY <1>1, <1>3, <1>4
    <2>2. cs[k].value < cs[k].count
      BY <2>1 DEF Left
    <2>3. \A i \in 1 .. k : i # k => cs[i] = w[i]
      BY <1>3
    <2> QED
      BY <1>1, <2>2, <2>3
  <1>9. Succeeds(cs, w)
    <2>1. k \in DOMAIN cs /\ k + 1 .. Len(cs) = {}
      BY <1>1, <1>7
    <2> QED
      BY <2>1 DEF Succeeds
  <1> HIDE DEF cs
  <1> QED
    BY <1>7, <1>8, <1>9 DEF cs

LEMMA NextInv == Inv /\ [SeedNext]_seedVars => Inv'
  <1> SUFFICES ASSUME Inv, [SeedNext]_seedVars PROVE Inv'
    OBVIOUS
  <1> USE DEF Inv
  <1>0. Counts \subseteq Nat \ {0}
    BY CountsAssumption
  <1>1. CASE tail < Len(choices) /\ Choose(choices[tail + 1].count)
    <2>1. choices' = choices /\ seed' = seed /\ before' = before /\ tail' = tail + 1
      BY <1>1 DEF Choose
    <2> QED
      BY <1>1, <2>1 DEF SeedType, Lexicographic, Choose
  <1>2. ASSUME NEW count \in Counts, tail = Len(choices), Choose(count)
        PROVE  Inv'
    <2>1. /\ choices' = Append(choices, [count |-> count, value |-> 0])
          /\ seed' = "wave" /\ seed = "wave" /\ before' = before /\ tail' = tail + 1
      BY <1>2 DEF Choose, SeedType
    <2>2. /\ choices' \in Seq([count : Counts, value : Nat])
          /\ Len(choices') = Len(choices) + 1
          /\ \A i \in 1 .. Len(choices) : choices'[i] = choices[i]
          /\ choices'[Len(choices) + 1] = [count |-> count, value |-> 0]
      BY <2>1 DEF SeedType
    <2>3. \A i \in DOMAIN choices' : choices'[i].value < choices'[i].count
      <3>1. DOMAIN choices = 1 .. Len(choices) /\ DOMAIN choices' = 1 .. Len(choices) + 1
            /\ Len(choices) \in Nat
        BY <2>2, Elements DEF SeedType
      <3>2. choices'[Len(choices) + 1].value < choices'[Len(choices) + 1].count
        BY <1>0, <2>2
      <3>3. \A i \in 1 .. Len(choices) : choices'[i].value < choices'[i].count
        BY <2>2, <3>1 DEF SeedType
      <3> QED
        BY <3>1, <3>2, <3>3
    <2>4. SeedType'
      BY <1>2, <2>1, <2>2, <2>3 DEF SeedType
    <2>5. before # <<>> => Succeeds(choices', before)
      BY <2>1, AppendSucceeds DEF SeedType, Lexicographic
    <2>6. before = <<>> => \A i \in DOMAIN choices' : choices'[i].value = 0
      BY <2>1, <2>2 DEF SeedType, Lexicographic
    <2> QED
      BY <2>1, <2>4, <2>5, <2>6 DEF Lexicographic
  <1>3. CASE tail = Len(choices) /\ tail > 0 /\ WaveEnd
    BY <1>3 DEF WaveEnd, SeedType, Lexicographic
  <1>4. CASE NextWave
    <2>0. seed = "over" /\ tail = Len(choices)
      BY <1>4 DEF NextWave, SeedType
    <2>1. CASE tail = 0 /\ choices = <<>> /\ seed' = "wave" /\ UNCHANGED <<choices, tail, before>>
      BY <2>0, <2>1 DEF SeedType, Lexicographic
    <2>2. ASSUME NEW k \in DOMAIN choices, Left(choices, k),
                 \A i \in k + 1 .. Len(choices) : ~ Left(choices, i),
                 choices' = Increment(choices, k), tail' = 0, before' = choices, seed' = "wave"
          PROVE  Inv'
      <3>1. Counts \in SUBSET Nat
        BY <1>0
      <3>2. /\ choices' \in Seq([count : Counts, value : Nat])
            /\ \A i \in DOMAIN choices' : choices'[i].value < choices'[i].count
            /\ Succeeds(choices', choices)
        BY <2>2, <3>1, IncrementSucceeds DEF SeedType
      <3>3. choices # <<>>
        BY <2>2
      <3> QED
        BY <2>2, <3>2, <3>3 DEF SeedType, Lexicographic
    <2>3. CASE /\ \A i \in DOMAIN choices : ~ Left(choices, i)
               /\ choices' = <<>> /\ seed' = "stopped" /\ before' = choices /\ UNCHANGED tail
      BY <2>3 DEF SeedType, Lexicographic
    <2> QED
      BY <1>4, <2>0, <2>1, <2>2, <2>3 DEF NextWave, SeedType
  <1>5. CASE UNCHANGED seedVars
    BY <1>5 DEF seedVars, SeedType, Lexicographic
  <1> QED
    BY <1>1, <1>2, <1>3, <1>4, <1>5 DEF SeedNext, Client

\* Each wave is the successor of the one before, whatever the client.
THEOREM LexicographicOrder == SeedSpec => []Lexicographic
  <1>1. Inv => Lexicographic
    BY DEF Inv
  <1> QED
    BY InitInv, NextInv, <1>1, PTL DEF SeedSpec

-----------------------------------------------------------------------------
(* What it means.                                                          *)

\* The comparison of the answers s with w and its successor cs, at the first
\* positions p and q where they differ.
LEMMA Squeezed ==
  ASSUME NEW m \in Nat, NEW w, \A i \in 1 .. m : w[i].value \in Nat /\ w[i].count \in Nat,
         NEW n \in Nat, NEW cs, \A i \in 1 .. n : cs[i].value \in Nat,
         NEW l \in Nat, NEW s, \A i \in 1 .. l : s[i] \in Nat,
         NEW k \in 1 .. m, k <= n,
         \A i \in k + 1 .. m : ~ (w[i].value + 1 < w[i].count),
         \A i \in 1 .. k - 1 : cs[i].value = w[i].value,
         cs[k].value = w[k].value + 1,
         \A i \in k + 1 .. n : cs[i].value = 0,
         NEW p \in 1 .. m, p <= l, s[p] > w[p].value, s[p] < w[p].count,
         \A j \in 1 .. p - 1 : s[j] = w[j].value,
         NEW q \in 1 .. n, q <= l, s[q] < cs[q].value,
         \A j \in 1 .. q - 1 : s[j] = cs[j].value
  PROVE  FALSE
  <1>1. s[p] \in Nat /\ s[q] \in Nat /\ w[p].value \in Nat /\ w[p].count \in Nat
        /\ cs[q].value \in Nat
    OBVIOUS
  <1>2. p <= k
    BY <1>1
  <1>3. q <= k
    BY <1>1
  <1>4. CASE q < p
    <2>1. s[q] = w[q].value /\ cs[q].value = w[q].value
      BY <1>2, <1>4
    <2> QED
      BY <1>1, <2>1
  <1>5. CASE q = p /\ p < k
    <2>1. cs[q].value = w[p].value
      BY <1>5
    <2> QED
      BY <1>1, <1>5, <2>1
  <1>6. CASE q = p /\ p = k
    BY <1>1, <1>6
  <1>7. CASE q > p
    <2>1. s[p] = cs[p].value /\ cs[p].value = w[p].value
      BY <1>3, <1>7
    <2> QED
      BY <1>1, <2>1
  <1> QED
    BY <1>2, <1>4, <1>5, <1>6, <1>7

\* The choice that a successor changes, and those before it.
LEMMA Changed ==
  ASSUME NEW C \in SUBSET Nat, NEW w \in Seq([count : C, value : Nat]),
         NEW k \in 1 .. Len(w)
  PROVE  /\ \A i \in 1 .. k - 1 : Increment(w, k)[i].value = w[i].value
         /\ Increment(w, k)[k].value = w[k].value + 1
  <1>1. w[k] \in [count : C, value : Nat] /\ k \in Nat
    BY Waves
  <1>2. [w[k] EXCEPT !.value = @ + 1].value = w[k].value + 1
    BY <1>1
  <1>3. Increment(w, k)[k] = [w[k] EXCEPT !.value = @ + 1]
    BY <1>1 DEF Increment
  <1>4. \A i \in 1 .. k - 1 : Increment(w, k)[i] = w[i]
    BY <1>1 DEF Increment
  <1> QED
    BY <1>2, <1>3, <1>4

\* Nothing lies between a wave and its successor.
LEMMA NothingBetween ==
  ASSUME NEW C \in SUBSET Nat,
         NEW w \in Seq([count : C, value : Nat]), NEW cs \in Seq([count : C, value : Nat]),
         Succeeds(cs, w), NEW s \in Seq(Nat), IsRun(s, w)
  PROVE  ~ (After(s, w) /\ Before(s, cs))
  <1> SUFFICES ASSUME After(s, w), Before(s, cs) PROVE FALSE
    OBVIOUS
  <1>1. PICK k \in DOMAIN cs :
          /\ k \in DOMAIN w /\ Left(w, k)
          /\ \A i \in k + 1 .. Len(w) : ~ Left(w, i)
          /\ \A i \in 1 .. k : cs[i] = Increment(w, k)[i]
          /\ \A i \in k + 1 .. Len(cs) : cs[i].value = 0
    BY DEF Succeeds
  <1>2. PICK p \in DOMAIN s \intersect DOMAIN w :
          s[p] > w[p].value /\ \A j \in 1 .. p - 1 : s[j] = w[j].value
    BY DEF After
  <1>3. PICK q \in DOMAIN s \intersect DOMAIN cs :
          s[q] < cs[q].value /\ \A j \in 1 .. q - 1 : s[j] = cs[j].value
    BY DEF Before
  <1>4. /\ Len(w) \in Nat /\ DOMAIN w = 1 .. Len(w)
        /\ \A i \in 1 .. Len(w) : w[i].value \in Nat /\ w[i].count \in Nat
        /\ Len(cs) \in Nat /\ DOMAIN cs = 1 .. Len(cs)
        /\ \A i \in 1 .. Len(cs) : cs[i].value \in Nat
    BY Waves
  <1>5. /\ Len(s) \in Nat /\ DOMAIN s = 1 .. Len(s)
        /\ \A i \in 1 .. Len(s) : s[i] \in Nat
    BY Elements
  <1>6. k \in 1 .. Len(w) /\ k <= Len(cs)
    BY <1>1, <1>4
  <1>7. /\ \A i \in 1 .. k - 1 : cs[i].value = w[i].value
        /\ cs[k].value = w[k].value + 1
    <2>1. \A i \in 1 .. k - 1 : i \in 1 .. k
      BY <1>6
    <2>2. k \in 1 .. k
      BY <1>6
    <2>3. /\ \A i \in 1 .. k - 1 : Increment(w, k)[i].value = w[i].value
          /\ Increment(w, k)[k].value = w[k].value + 1
      BY <1>6, Changed
    <2>4. \A i \in 1 .. k : cs[i] = Increment(w, k)[i]
      BY <1>1
    <2> QED
      BY <2>1, <2>2, <2>3, <2>4, Zenon
  <1>8. s[p] < w[p].count
    <2>1. ASSUME NEW j \in 1 .. p - 1
          PROVE  j \in DOMAIN s /\ s[j] = w[j].value
      <3>1. p \in 1 .. Len(s) /\ j \in 1 .. Len(s)
        BY <1>2, <1>5
      <3> QED
        BY <1>2, <1>5, <3>1
    <2> QED
      BY <1>2, <2>1 DEF IsRun
  <1>9. /\ p \in 1 .. Len(w) /\ p <= Len(s)
        /\ q \in 1 .. Len(cs) /\ q <= Len(s)
    BY <1>2, <1>3, <1>4, <1>5
  <1>10. \A i \in k + 1 .. Len(w) : ~ (w[i].value + 1 < w[i].count)
    BY <1>1 DEF Left
  <1> QED
    BY <1>1, <1>2, <1>3, <1>4, <1>5, <1>6, <1>7, <1>8, <1>9, <1>10, Squeezed

LEMMA Increases ==
  ASSUME NEW C \in SUBSET Nat,
         NEW w \in Seq([count : C, value : Nat]), NEW cs \in Seq([count : C, value : Nat]),
         Succeeds(cs, w)
  PROVE  After(Answers(cs), w)
  <1>1. PICK k \in DOMAIN cs :
          k \in DOMAIN w /\ \A i \in 1 .. k : cs[i] = Increment(w, k)[i]
    BY DEF Succeeds
  <1>2. k \in 1 .. Len(w) /\ k \in 1 .. Len(cs) /\ w[k].value \in Nat /\ DOMAIN cs = 1 .. Len(cs)
        /\ Len(cs) \in Nat
    BY <1>1, Waves
  <1>3. /\ \A i \in 1 .. k - 1 : Answers(cs)[i] = w[i].value
        /\ Answers(cs)[k] = w[k].value + 1
    <2>1. \A i \in 1 .. k - 1 : i \in 1 .. k /\ i \in DOMAIN cs
      BY <1>2
    <2>2. k \in 1 .. k
      BY <1>2
    <2>3. \A i \in 1 .. k : Answers(cs)[i] = Increment(w, k)[i].value
      BY <1>1, <1>2 DEF Answers
    <2>4. /\ \A i \in 1 .. k - 1 : Increment(w, k)[i].value = w[i].value
          /\ Increment(w, k)[k].value = w[k].value + 1
      BY <1>2, Changed
    <2> QED
      BY <2>1, <2>2, <2>3, <2>4
  <1>4. k \in DOMAIN Answers(cs) \intersect DOMAIN w
    BY <1>1 DEF Answers
  <1>5. Answers(cs)[k] > w[k].value
    BY <1>2, <1>3
  <1> QED
    BY <1>3, <1>4, <1>5 DEF After

\* A client is made to go through all of its runs, each of them once: nextwave
\* skips none, and stops when none is left.
THEOREM Exhaustive == SeedSpec => []NoRunSkipped
  <1>1. Inv => NoRunSkipped
    <2> SUFFICES ASSUME Inv, NEW s \in Seq(Nat)
                 PROVE  /\ seed = "over" /\ before = <<>> => ~ Before(s, choices)
                        /\ seed = "over" /\ before # <<>> /\ IsRun(s, before) =>
                             ~ (After(s, before) /\ Before(s, choices))
                        /\ seed = "over" /\ before # <<>> => After(Answers(choices), before)
                        /\ seed = "stopped" /\ IsRun(s, before) => ~ After(s, before)
      BY DEF NoRunSkipped
    <2>0. Counts \in SUBSET Nat
      BY CountsAssumption
    <2>1. ASSUME seed = "over", before = <<>> PROVE ~ Before(s, choices)
      <3>1. \A i \in DOMAIN choices : choices[i].value = 0
        BY <2>1 DEF Inv, Lexicographic
      <3>2. \A i \in DOMAIN s : s[i] \in Nat
        OBVIOUS
      <3> QED
        BY <3>1, <3>2 DEF Before
    <2>2. ASSUME seed = "over", before # <<>>
          PROVE  /\ IsRun(s, before) => ~ (After(s, before) /\ Before(s, choices))
                 /\ After(Answers(choices), before)
      <3>1. Succeeds(choices, before)
        BY <2>2 DEF Inv, Lexicographic
      <3> QED
        BY <2>0, <3>1, NothingBetween, Increases DEF Inv, SeedType
    <2>3. ASSUME seed = "stopped", IsRun(s, before), After(s, before) PROVE FALSE
      <3>1. PICK p \in DOMAIN s \intersect DOMAIN before :
              s[p] > before[p].value /\ \A j \in 1 .. p - 1 : s[j] = before[j].value
        BY <2>3 DEF After
      <3>2. p \in 1 .. Len(s) /\ p \in 1 .. Len(before) /\ s[p] \in Nat
            /\ before[p].value \in Nat /\ before[p].count \in Nat
        BY <2>0, <3>1, Waves, Elements DEF Inv, SeedType
      <3>3. \A j \in 1 .. p - 1 : j \in DOMAIN s /\ s[j] = before[j].value
        BY <3>1, <3>2
      <3>4. s[p] < before[p].count
        BY <2>3, <3>1, <3>3 DEF IsRun
      <3>5. ~ Left(before, p)
        BY <2>3, <3>1 DEF Inv, Lexicographic
      <3> QED
        BY <3>1, <3>2, <3>4, <3>5 DEF Left
    <2> QED
      BY <2>1, <2>2, <2>3
  <1> QED
    BY InitInv, NextInv, <1>1, PTL DEF SeedSpec

==============================================================================
