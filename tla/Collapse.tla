------------------------------ MODULE Collapse -------------------------------
(***************************************************************************)
(* uwt/trans/cfg.cc, CFG::collapse: the graph of a function is rewritten   *)
(* until a single bloc is left, whose statements are the structured code.  *)
(* This module has the transformations, as operators on a graph of         *)
(* IBloc.tla with these more fields:                                       *)
(*   term    of each statement that ends a fork, once SetCondTerm was      *)
(*           called on it, the variable that receives its condition and    *)
(*           whether inverted; part of the statement, hence common to the  *)
(*           blocs that hold it                                            *)
(*   source  of each FunnelSource, the statement it wraps and the variable *)
(*           it sets                                                       *)
(*   vars    the number of funnel variables                                *)
(*   clash   history: some statement has been given two different terms    *)
(*                                                                         *)
(* Statements: <<"insn", n>> and <<"sink", v>> may end a fork, and         *)
(* <<"source", v, b>> wraps one; the others are tokens of structured code. *)
(* Variables: lcc is 0, the funnel variables are 1, 2...                   *)
(***************************************************************************)
EXTENDS GraphMatch, RefreshProps, FiniteSetsExt

lcc == 0

\* Exclusive or.
Xor(p, q) == p # q

-----------------------------------------------------------------------------
(* Conditions.                                                             *)

\* The statement that puts the condition of s in a variable: a FunnelSource
\* leaves it to the statement that it wraps.
Wrapped(g, s) ==
  LET wrapped[k \in Nat] ==
        IF k = 0 THEN s
        ELSE LET t == wrapped[k - 1]
             IN IF t \in DOMAIN g.source THEN g.source[t].prev ELSE t
  IN [k \in 0 .. Cardinality(DOMAIN g.source) |-> wrapped[k]]

\* SetCondTerm of InsnStatement, FunnelSink (they record the term) and
\* FunnelSource (it passes the term on to the statement that it wraps).
SetCondTerm(g, s, term, inv) ==
  LET told == Range(Wrapped(g, s))
      last == Wrapped(g, s)[Cardinality(DOMAIN g.source)]
      record == [term |-> term, inv |-> inv]
  IN  [g EXCEPT
         !.term = [t \in DOMAIN @ \union told |->
                     IF t = last THEN record
                     ELSE IF t \in told THEN [term |-> term, inv |-> Xor(@[t].inv, inv)]
                     ELSE @[t]],
         !.clash = @ \/ (last \in DOMAIN g.term /\ g.term[last] # record)]

\* Mutant: a condition that is to be inverted is not.
CondTermUpright(g, b, term, inv) == SetCondTerm(g, Last(g.stmts[b]), term, FALSE)

\* The last statement of fork b puts its condition in a variable.
CondTerm(g, b, term, inv) == SetCondTerm(g, Last(g.stmts[b]), term, inv)

\* ... in lcc, which statement s tests at once.
TestLcc(g, b, s) == AppendStmt(CondTerm(g, b, lcc, FALSE), b, s)

\* Mutant: the loop that closes the blocks stops after the first one.
AppendFirst(g, b, ss) == AppendStmt(g, b, Head(ss))

AppendAll(g, b, ss) == [g EXCEPT !.stmts[b] = @ \o ss]

-----------------------------------------------------------------------------
(* Merging a group into its first bloc.                                    *)

\* merge_subgraph: the group is disconnected, its statements are gathered in
\* the first bloc, which gets the exits of the group; the others are deleted.
MergeSubgraph(g, m) ==
  LET final == m.blocs[1]
      cut[i \in 0 .. Len(m.blocs)] ==
        IF i = 0 THEN g ELSE SetExits(cut[i - 1], m.blocs[i], NoExits)
      code == FlattenSeq([i \in DOMAIN m.blocs |-> g.stmts[m.blocs[i]]])
  IN  SetExits(Delete([cut[Len(m.blocs)] EXCEPT !.stmts[final] = code], ToSet(Tail(m.blocs))),
               final, m.exits)

\* IfThen, IfThenElse, ExitIf: the condition ends the first bloc, and what
\* closers says the others.
MergeIf(g, m, closers) ==
  LET head == m.blocs[1]
      test == TestLcc(g, head, <<"if", Which(g.exits[head], m.blocs[2])>>)
      closed[i \in 0 .. Len(closers)] ==
        IF i = 0 THEN test ELSE AppendStmt(closed[i - 1], m.blocs[i + 1], closers[i])
  IN  MergeSubgraph(closed[Len(closers)], m)

\* The statements that bloc i of a loop gets; a.issues is the stack of what
\* remains to be closed.
LoopBloc(a, i, m, tail) ==
  LET g == a.g
      b == m.blocs[i]
      head == m.blocs[1]
      exits == g.exits[b]
      break == tail # nil /\ Has(exits, tail)
      continue == Has(exits, head)
      pop == Front(a.issues)
      jump(h) == IF i # Len(m.blocs) THEN AppendStmt(h, b, <<"continue">>) ELSE h
      close(h) == AppendAll(h, b, Last(a.issues))
  IN
  CASE exits.odd = nil /\ break ->
         [g |-> close(AppendStmt(g, b, <<"break">>)), issues |-> pop]
    [] exits.odd = nil /\ ~ break /\ continue ->
         [g |-> close(jump(g)), issues |-> pop]
    [] exits.odd = nil /\ ~ break /\ ~ continue ->
         [a EXCEPT !.g.error = "Inner loop single exit blocs"]
    [] exits.odd # nil /\ break ->
         LET h == TestLcc(g, b, <<"ifBreak", Which(exits, tail)>>)
         IN IF continue THEN [g |-> close(jump(h)), issues |-> pop]
                        ELSE [a EXCEPT !.g = h]
    [] exits.odd # nil /\ ~ break /\ continue ->
         [a EXCEPT !.g = TestLcc(g, b, <<"ifContinue", Which(exits, head)>>)]
    [] exits.odd # nil /\ ~ break /\ ~ continue ->
         [g |-> TestLcc(g, b, <<"if", Which(exits, m.blocs[i + 1])>>),
          issues |-> Append(Append(pop, <<<<"}">>>> \o Last(a.issues)), <<<<"else">>>>)]

\* Mutant: the loop is found and left as it is.
LoopUntouched(g, m) == g

\* Loop: the head is one exit of the group, the other is where break leads.
MergeLoop(g, m) ==
  LET head == m.blocs[1]
      tail == Get(m.exits, ~ Which(m.exits, head))
      a[i \in 0 .. Len(m.blocs)] ==
        IF i = 0 THEN [g |-> InsertStmt(g, head, <<"for">>), issues |-> << <<<<"}">>>> >>]
        ELSE LoopBloc(a[i - 1], i, m, tail)
  IN  MergeSubgraph(a[Len(m.blocs)].g, [m EXCEPT !.exits = Exits(tail, nil)])

-----------------------------------------------------------------------------
(* Funnels: a part of the graph with two exits is made to have one.        *)

\* The exits of the part R of the graph.
PartExits(g, R) == (UNION {Succ(g, b) : b \in R}) \ R

\* Mutant: the part may be entered at several blocs.
IsLooseHammock(g, R) ==
  /\ Cardinality(R) >= 2
  /\ Cardinality(PartExits(g, R)) = 2
  /\ Cardinality({b \in R : Succ(g, b) \intersect PartExits(g, R) # {}}) >= 2

\* What IO2 looks for: R grows from a bloc, its head, by exits of R and their
\* predecessors; it has two exits that at least two of its blocs lead to, and
\* the root can only be its head.
IsHammock(g, R) ==
  /\ Cardinality(R) >= 2
  /\ Cardinality(PartExits(g, R)) = 2
  /\ \E head \in R : \A b \in R \ {head} : b # entry_bloc /\ Pred(g, b) \subseteq R
  /\ Cardinality({b \in R : Succ(g, b) \intersect PartExits(g, R) # {}}) >= 2

\* IO2 keeps the smallest candidate.  Among those of one size it keeps the
\* first it meets, and it numbers the exits in the order it meets them: that
\* order is left open.
Hammocks(g) ==
  LET H == {R \in SUBSET Blocs(g) : IsHammock(g, R)}
      size == Min({Cardinality(R) : R \in H})
  IN  {R \in H : Cardinality(R) = size}

\* Bloc b of a part with exits x is sent to the funnel, and leaves in
\* variable v which exit it would have taken (true for the odd one).
FunnelBloc(g, b, x, v, funnel) ==
  LET exits == g.exits[b]
      cex == Common(exits, x)
      choice == Which(exits, cex)
      inverted == Xor(Which(x, cex), choice)
      dual == Get(exits, ~ choice) = Get(x, ~ Xor(inverted, choice))
      straight == Has(exits, nil)
      s == <<"source", v, b>>
      with(f, r) == [t \in DOMAIN f \union {s} |-> IF t = s THEN r ELSE f[t]]
  IN
  IF cex = nil THEN g
  ELSE IF dual
    THEN SetExits(CondTerm(g, b, v, inverted), b, Exits(funnel, nil))
    ELSE SetExit([AppendStmt(g, b, s) EXCEPT
                    !.source = with(@, [prev |-> IF straight THEN <<>> ELSE Last(g.stmts[b]),
                                        var |-> v]),
                    !.term = with(@, [term |-> lcc, inv |-> IF straight THEN Xor(inverted, choice)
                                                          ELSE inverted])],
                 b, choice, funnel)

\* The funnel itself forks on the variable.
Funnel(g, R, x) ==
  LET v == g.vars + 1
      funnel == g.fresh
      made == SetExits(NewBloc([g EXCEPT !.vars = v], << <<"sink", v>> >>), funnel, x)
      order == SetToSeq(R)
      sent[i \in 0 .. Len(order)] ==
        IF i = 0 THEN made ELSE FunnelBloc(sent[i - 1], order[i], x, v, funnel)
  IN  sent[Len(order)]

-----------------------------------------------------------------------------
(* Duplication: a cycle with several entries loses one.  g is refreshed.   *)

\* The canonical paths, of increasing ordering, of n edges.
Paths(g, ord, n) ==
  LET paths[k \in 0 .. n] ==
        IF k = 0 THEN {<<b>> : b \in Blocs(g)}
        ELSE UNION {{Append(p, c) : c \in {d \in Succ(g, Last(p)) : ord[d] > ord[Last(p)]}}
                      : p \in paths[k - 1]}
  IN paths[n]

\* The cycles that n such edges and a retreating one make, and whose head does
\* not dominate their tail.
BadCycles(g, ord, idom, n) ==
  {p \in Paths(g, ord, n) : /\ p[1] \in Succ(g, Last(p))
                            /\ ~ Dominates(idom, p[1], Last(p))}

\* raid: the edges into cycle C that can be reached from outside of it.
Raid(g, C) ==
  {e \in (Closure(g, {g.pool[1]}, C) \ C) \X BOOLEAN : Get(g.exits[e[1]], e[2]) \in C}

\* Edge::compare; its last criterion, the size, never decides.
EdgeRank(g, ord, e) ==
  LET end == Get(g.exits[e[1]], e[2])
  IN  <<CountSuccessors(g, end), g.prevcount[end], CountSuccessors(g, e[1]),
        ord[e[1]], ord[end]>>

LexLess(a, b) == \E i \in DOMAIN a : a[i] < b[i] /\ \A j \in 1 .. i - 1 : a[j] = b[j]

\* The edges into the shortest cycles with several entries.
IncomingEdges(g) ==
  LET ord == Ordering(g)
      idom == Idom(g)
      length == {n \in 1 .. Len(g.pool) - 1 : BadCycles(g, ord, idom, n) # {}}
  IN  IF length = {} THEN {}
      ELSE UNION {Raid(g, ToSet(p)) : p \in BadCycles(g, ord, idom, Min(length))}

\* Mutant: the edge still leads to the original.
DuplicateUnlinked(g) == Duplicate(g, Last(g.pool))

\* The worst one is led to a duplicate of its end.
DuplicateWorst(g) ==
  LET ord == Ordering(g)
      E == IncomingEdges(g)
      worst == CHOOSE e \in E : \A f \in E :
                 ~ LexLess(EdgeRank(g, ord, f), EdgeRank(g, ord, e))
      end == Get(g.exits[worst[1]], worst[2])
  IN  SetExit(Duplicate(g, end), worst[1], worst[2], g.fresh)
==============================================================================
