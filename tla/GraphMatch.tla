----------------------------- MODULE GraphMatch ------------------------------
(***************************************************************************)
(* uwt/trans/ibloc.cc, struct GraphMatch: the backtracking search for a    *)
(* group of blocs of a given shape.  A pattern is a sequence of one-letter *)
(* items; each item consumes the next bloc on the way, and a fork leaves   *)
(* its other branch in back_blocs for the rest of the pattern.             *)
(*                                                                         *)
(* The calls of test are a tree of trials, which is searched depth first;  *)
(* the exits found so far, a member that the code saves and restores       *)
(* around each trial, belong to the trial.                                 *)
(***************************************************************************)
EXTENDS IBloc

NoMatch == [blocs |-> <<>>, exits |-> NoExits]

\* GraphMatch::set_exit succeeds for a free slot or for the same bloc.
MaySetExit(x, alt, b) == Get(x, alt) \in {nil, b}

\* Where the group ( ) that begins or ends at i in pattern p ends or begins.
GroupEnd(p, i) == i + SelectInSeq(SubSeq(p, i + 1, Len(p)), LAMBDA c : c = ")")
GroupBegin(p, i) == SelectLastInSubSeq(p, 1, i, LAMBDA c : c = "(")

\* A call of test: item at of pattern p against bloc next, after the blocs
\* matched, with the branches back left behind.  When the pattern is matched
\* next is nil.
Trials(g, p) ==
  {c \in [at : 1 .. Len(p) + 1, next : Blocs(g) \union {nil}, matched : Seq(Blocs(g)),
          back : Seq(Blocs(g)), exits : ExitsTo(Blocs(g))] :
     c.next = nil \/ c.at <= Len(p)}

FirstTrial(b) == [at |-> 1, next |-> b, matched |-> <<>>, back |-> <<>>, exits |-> NoExits]

\* GraphMatch::close: the way is at its end; the branches left behind first.
Close(p, c) ==
  IF c.back # <<>> THEN << [c EXCEPT !.next = Head(c.back), !.back = Tail(c.back)] >>
  ELSE IF c.at <= Len(p) THEN <<>>
  ELSE << [c EXCEPT !.next = nil] >>

\* GraphMatch::test: the calls that trial c makes, in order.
Ways(g, p, c) ==
  LET cc == p[c.at]
      exits == g.exits[c.next]
      first == c.matched = <<>>
      \* Middle nodes are uniquely entered.
      middle == first \/ (g.prevcount[c.next] <= 1 /\ ~ Contains(c.matched, c.next))
      past == [c EXCEPT !.at = @ + 1]
      taken(d) == [d EXCEPT !.matched = Append(@, c.next)]
      branch(reversed) == [taken(past) EXCEPT !.next = Get(exits, reversed),
                                              !.back = <<Get(exits, ~ reversed)>> \o @]
      exit(d, alt) == [d EXCEPT !.exits = Put(@, alt, c.next)]
  IN
  CASE cc = "?" ->   \* conditional branch node: one branch first, or the other
         IF middle /\ exits.odd # nil THEN <<branch(FALSE), branch(TRUE)>> ELSE <<>>
    [] cc = "*" ->   \* whole bloc catcher: a member of the group, or its exit
         LET inside ==
               IF (first \/ g.prevcount[c.next] = 1) /\ exits.nat # nil
                 THEN << [taken(c) EXCEPT !.next = exits.nat,
                            !.back = IF exits.odd # nil THEN <<exits.odd>> \o @ ELSE @] >>
                 ELSE <<>>
             rest == IF c.back # <<>> THEN c ELSE past
             outside ==
               IF first THEN <<>>
               ELSE IF MaySetExit(c.exits, FALSE, c.next) THEN Close(p, exit(rest, FALSE))
               ELSE IF MaySetExit(c.exits, TRUE, c.next) THEN Close(p, exit(rest, TRUE))
               ELSE <<>>
         IN inside \o outside
    [] cc = "," ->   \* sequential operation
         IF middle /\ exits.odd = nil /\ exits.nat # nil
           THEN << [taken(past) EXCEPT !.next = exits.nat] >> ELSE <<>>
    [] cc = "." ->   \* end node
         IF middle /\ exits = NoExits THEN Close(p, taken(past)) ELSE <<>>
    [] cc = "!" ->   \* closing node: its exits are the exits of the group
         IF middle THEN Close(p, [taken(past) EXCEPT !.exits = exits]) ELSE <<>>
    [] cc = "1" ->   \* the natural exit of the group
         IF MaySetExit(c.exits, FALSE, c.next) THEN Close(p, exit(past, FALSE)) ELSE <<>>
    [] cc = "(" ->   \* once more, or past the list
         <<past, [c EXCEPT !.at = GroupEnd(p, @) + 1]>>
    [] cc = ")" -> << [c EXCEPT !.at = GroupBegin(p, @)] >>

\* What the search finds from each trial with at most n nested calls: the first
\* way that succeeds.
Found(g, p) ==
  LET trials == Trials(g, p)
      found[n \in Nat] ==
        [c \in trials |->
           IF c.next = nil THEN [blocs |-> c.matched, exits |-> c.exits]
           ELSE LET ways == Ways(g, p, c)
                    one == found[n - 1][ways[1]]
                IN IF n = 0 \/ ways = <<>> THEN NoMatch
                   ELSE IF Len(ways) = 1 \/ one # NoMatch THEN one
                   ELSE found[n - 1][ways[2]]]
  IN found

\* No call is nested deeper: each bloc is taken once, which leaves at most one
\* branch behind, and comes with at most two parentheses.
Nesting(g) == 4 * Len(g.pool) + 4

\* The constructor: what pattern matches from bloc first on.
Match(g, pattern, first) == Found(g, pattern)[Nesting(g)][FirstTrial(first)]

\* The patterns of CFG::collapse.
Seq2 == <<",", "(", ",", ")", "!">>
IfThen == <<"?", ",", "1", "1">>
IfThenElse == <<"?", ",", "1", ",", "1">>
Loop == <<"*">>
ExitIf == <<"?", ".", "1">>

\* What a search must have found; a loop has its head among its exits.
Accepted(pattern, m) == /\ m # NoMatch
                        /\ pattern = Loop => Has(m.exits, m.blocs[1])

\* The group found from the first origin, in the order of the pool, that
\* yields one.
FirstMatch(g, pattern) ==
  LET i == SelectInSeq(g.pool, LAMBDA b : Accepted(pattern, Match(g, pattern, b)))
  IN  IF i = 0 THEN NoMatch ELSE Match(g, pattern, g.pool[i])
==============================================================================
