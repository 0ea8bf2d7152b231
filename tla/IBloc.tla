-------------------------------- MODULE IBloc --------------------------------
(***************************************************************************)
(* uwt/trans/ibloc.hh, ibloc.cc: the blocs of a control flow graph, their  *)
(* two exits and their reference counts.                                   *)
(*                                                                         *)
(* A graph is a record.  Blocs are named by numbers that are never used    *)
(* again; the entry is the first bloc decoded.                             *)
(*   pool       the sequence bloc_pool                                     *)
(*   exits      the exits of each bloc of the pool                         *)
(*   prevcount  its reference count                                        *)
(*   stmts      its statements; a statement is a reference, so that two    *)
(*              blocs may hold the same one                                *)
(*   fresh      the next unused name                                       *)
(*   error      the exception thrown, if any                               *)
(***************************************************************************)
EXTENDS Naturals, Sequences, SequencesExt

nil == 0
entry_bloc == 1

-----------------------------------------------------------------------------
(* Exits.                                                                  *)

Exits(n, o) == [nat |-> n, odd |-> o]

NoExits == Exits(nil, nil)

\* The exits to blocs of S.
ExitsTo(S) == [nat : S \union {nil}, odd : S \union {nil}]

Get(x, alt) == IF alt THEN x.odd ELSE x.nat

Put(x, alt, b) == IF alt THEN [x EXCEPT !.odd = b] ELSE [x EXCEPT !.nat = b]

Has(x, b) == b \in {x.nat, x.odd}

\* Has(x, b) assumed: Exits::which throws otherwise.
Which(x, b) == b = x.odd

Targets(x) == {x.nat, x.odd} \ {nil}

\* Of x, an exit that y has as well (Exits::common, called on y).
Common(y, x) == IF Has(y, x.nat) THEN x.nat ELSE IF Has(y, x.odd) THEN x.odd ELSE nil

-----------------------------------------------------------------------------
(* Blocs.                                                                  *)

Blocs(g) == ToSet(g.pool)

Succ(g, b) == Targets(g.exits[b])

Pred(g, b) == {p \in Blocs(g) : b \in Succ(g, p)}

CountSuccessors(g, b) == (IF g.exits[b].nat # nil THEN 1 ELSE 0)
                         + (IF g.exits[b].odd # nil THEN 1 ELSE 0)

DeadEnd(g, b) == g.exits[b] = NoExits

\* IBloc::ref and IBloc::unref.
Ref(count, b) == IF b = nil THEN count ELSE [count EXCEPT ![b] = @ + 1]
Unref(count, b) == IF b = nil THEN count ELSE [count EXCEPT ![b] = @ - 1]

\* New references are taken before the old ones are dropped.
SetExits(g, b, x) ==
  LET old == g.exits[b]
      ref == Ref(Ref(g.prevcount, x.nat), x.odd)
  IN  [g EXCEPT !.prevcount = Unref(Unref(ref, old.nat), old.odd),
                !.exits[b] = x]

\* Mutant: the old reference is not dropped.
SetExitLeaks(g, b, alt, t) ==
  [g EXCEPT !.prevcount = Ref(@, t), !.exits[b] = Put(@, alt, t)]

SetExit(g, b, alt, t) ==
  [g EXCEPT !.prevcount = Unref(Ref(@, t), Get(g.exits[b], alt)),
            !.exits[b] = Put(@, alt, t)]

\* Mutant: the source of a funnel is forgotten.
AppendButSource(g, b, s) == IF s[1] = "source" THEN g ELSE [g EXCEPT !.stmts[b] = Append(@, s)]

AppendStmt(g, b, s) == [g EXCEPT !.stmts[b] = Append(@, s)]

InsertStmt(g, b, s) == [g EXCEPT !.stmts[b] = <<s>> \o @]

\* A new bloc at the end of the pool, with the statements ss and no exits.
NewBloc(g, ss) ==
  LET b == g.fresh
      with(f, v) == [n \in DOMAIN f \union {b} |-> IF n = b THEN v ELSE f[n]]
  IN  [g EXCEPT !.pool = Append(@, b), !.exits = with(@, NoExits),
                !.prevcount = with(@, 0), !.stmts = with(@, ss), !.fresh = b + 1]

\* IBloc::duplicate, and the push_back of its result: the statements of the
\* duplicate are those of b, the same objects.
Duplicate(g, b) ==
  SetExits(NewBloc(g, g.stmts[b]), g.fresh, g.exits[b])

\* Mutant: the pool keeps the blocs that are deleted.
DeleteKeepsPool(g, bs) ==
  [g EXCEPT !.exits = Restrict(@, Blocs(g) \ bs),
            !.prevcount = Restrict(@, Blocs(g) \ bs),
            !.stmts = Restrict(@, Blocs(g) \ bs)]

\* The destructor of the blocs of bs, that have no exits any more; it throws
\* for a bloc that is still referred to.
Delete(g, bs) ==
  LET keep == Blocs(g) \ bs
      pool[i \in 0 .. Len(g.pool)] ==
        IF i = 0 THEN <<>>
        ELSE IF g.pool[i] \in bs THEN pool[i - 1]
        ELSE Append(pool[i - 1], g.pool[i])
  IN  [g EXCEPT !.pool = pool[Len(g.pool)],
                !.exits = Restrict(@, keep),
                !.prevcount = Restrict(@, keep),
                !.stmts = Restrict(@, keep),
                !.error = IF \E b \in bs : g.prevcount[b] # 0
                            THEN "CFG leak" ELSE @]
==============================================================================
