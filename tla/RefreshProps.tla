---------------------------- MODULE RefreshProps -----------------------------
(***************************************************************************)
(* uwt/trans/cfg.cc, CFG::refresh_props and CFG::reducible: the reverse    *)
(* post order of a graph, its immediate dominators by the iteration of     *)
(* Cooper, Harvey and Kennedy, and the test of reducibility that uses      *)
(* both; and what dominance and reducibility are by definition.            *)
(***************************************************************************)
EXTENDS IBloc, FiniteSets

-----------------------------------------------------------------------------
(* Ordering.                                                               *)

Visits(g) == [seen : SUBSET Blocs(g), post : Seq(Blocs(g))]

\* The depth first search from bloc b after visits v, natural exit first, with
\* at most n nested calls; post collects the blocs as the search leaves them,
\* last first.
Visit(g) ==
  LET blocs == Blocs(g) \union {nil}
      visits == Visits(g)
      visit[n \in Nat] ==
        [b \in blocs |-> [v \in visits |->
           IF n = 0 \/ b = nil \/ b \in v.seen THEN v
           ELSE LET nat == visit[n - 1][g.exits[b].nat][[v EXCEPT !.seen = @ \union {b}]]
                    odd == IF g.exits[b].nat = nil THEN nat
                           ELSE visit[n - 1][g.exits[b].odd][nat]
                IN  [odd EXCEPT !.post = <<b>> \o @]]]
  IN visit

\* A call for each bloc, and one that finds that it was seen.
ReversePostOrder(g) ==
  Visit(g)[Len(g.pool) + 1][g.pool[1]][[seen |-> {}, post |-> <<>>]].post

\* IBloc::get_ordering once the pool is sorted.
Ordering(g) == [b \in Blocs(g) |-> SelectInSeq(g.pool, LAMBDA c : c = b)]

\* refresh_props sorts the pool; its two sanity checks throw 0.
Refresh(g) ==
  LET order == ReversePostOrder(g)
  IN  IF Len(order) # Len(g.pool) \/ g.pool[1] # entry_bloc
        THEN [g EXCEPT !.error = "sanity check"]
        ELSE [g EXCEPT !.pool = order]

-----------------------------------------------------------------------------
(* Immediate dominators, of a graph that Refresh returned.                 *)

\* The nearest common ancestor of two blocs in the tree idom; each of n steps
\* climbs from the bloc that comes last.
Climb(idom, ord) ==
  LET blocs == DOMAIN ord \union {nil}
      climb[n \in Nat] ==
        [b1 \in blocs |-> [b2 \in blocs |->
           IF n = 0 \/ b1 = b2 \/ nil \in {b1, b2} THEN b1
           ELSE IF ord[b1] > ord[b2] THEN climb[n - 1][idom[b1]][b2]
           ELSE climb[n - 1][b1][idom[b2]]]]
  IN climb

NearestCommon(idom, ord, b1, b2) == Climb(idom, ord)[ord[b1] + ord[b2]][b1][b2]

\* Mutant: the first predecessor that has a dominator decides alone.
FirstIdom(g, ord, idom, b) ==
  FoldLeft(LAMBDA nidom, pred :
             IF b \notin Succ(g, pred) \/ idom[pred] = nil \/ nidom # nil THEN nidom
             ELSE pred,
           nil, g.pool)

\* The dominator that the predecessors of b that have one give to b.
NewIdom(g, ord, idom, b) ==
  LET nidom[i \in 0 .. Len(g.pool)] ==
        IF i = 0 THEN nil
        ELSE LET pred == g.pool[i]
                 before == nidom[i - 1]
             IN IF b \notin Succ(g, pred) \/ idom[pred] = nil THEN before
                ELSE IF before = nil THEN pred
                ELSE NearestCommon(idom, ord, before, pred)
  IN nidom[Len(g.pool)]

\* One pass over the pool, each bloc seeing the updates of the earlier ones.
Pass(g, ord, idom) ==
  LET pass[i \in 0 .. Len(g.pool)] ==
        IF i = 0 THEN idom
        ELSE LET b == g.pool[i]
                 before == pass[i - 1]
             IN IF b = entry_bloc THEN before
                ELSE [before EXCEPT ![b] = NewIdom(g, ord, before, b)]
  IN pass[Len(g.pool)]

\* Passes until one changes nothing, n at most.
DominatorFixpoint(g, ord) ==
  LET fixpoint[n \in Nat] ==
        [idom \in [Blocs(g) -> Blocs(g) \union {nil}] |->
           LET next == Pass(g, ord, idom)
           IN  IF n = 0 \/ next = idom THEN idom ELSE fixpoint[n - 1][next]]
  IN fixpoint

\* A pass that changes something takes a dominator from some bloc.
Idom(g) == DominatorFixpoint(g, Ordering(g))[Len(g.pool) * Len(g.pool) + 1]
             [[b \in Blocs(g) |-> IF b = entry_bloc THEN entry_bloc ELSE nil]]

\* Mutant: the climb stops at the immediate dominator.
DominatesAtOnce(idom, a, b) == a = b \/ idom[b] = a

\* IBloc::dominates: a is on the way from b to the root of the tree.
Dominates(idom, a, b) ==
  LET up[k \in Nat] == IF k = 0 THEN b ELSE idom[up[k - 1]]
  IN \E k \in 0 .. Cardinality(DOMAIN idom) : up[k] = a

\* CFG::reducible: every retreating edge goes to a dominator of its origin.
Reducible(g) ==
  LET ord == Ordering(g)
      idom == Idom(g)
  IN  \A o \in Blocs(g) : \A e \in Succ(g, o) :
        ord[e] < ord[o] => Dominates(idom, e, o)

-----------------------------------------------------------------------------
(* Definitions, to compare with.                                           *)

\* The blocs that lead from S without passing through a bloc of avoid.
Closure(g, S, avoid) ==
  LET reach[n \in Nat] ==
        IF n = 0 THEN S
        ELSE LET before == reach[n - 1]
             IN before \union ((UNION {Succ(g, b) : b \in before}) \ avoid)
  IN reach[Len(g.pool)]

\* a dominates b: no way from the entry to b avoids a.
DominatesByDefinition(g, a, b) ==
  a = b \/ a = entry_bloc \/ b \notin Closure(g, {entry_bloc}, {a})

\* Whether the blocs of C form a strongly connected set.
StronglyConnected(g, C) ==
  \A b \in C : C \subseteq Closure(g, Succ(g, b) \intersect C, Blocs(g) \ C)

\* The blocs of C that a path from the entry meets first.
Heads(g, C) ==
  IF entry_bloc \in C THEN {entry_bloc}
  ELSE LET before == Closure(g, {entry_bloc}, C)
       IN {b \in C : Pred(g, b) \intersect before # {}}

\* A graph is reducible when each strongly connected set is met first at the
\* same bloc.
ReducibleByDefinition(g) ==
  \A C \in (SUBSET Blocs(g)) \ {{}} :
    StronglyConnected(g, C) => Cardinality(Heads(g, C)) = 1
==============================================================================
