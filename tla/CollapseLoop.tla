----------------------------- MODULE CollapseLoop -----------------------------
(***************************************************************************)
(* uwt/trans/cfg.cc, CFG::collapse: the loop around Iterative::step, one   *)
(* action per round.  A program that collapses graphs (Decompile, Scan)    *)
(* extends this module and says when phase becomes "collapse".             *)
(***************************************************************************)
EXTENDS Collapse

VARIABLES
  phase,     \* what the program is doing; "collapse" in the loop
  lab,       \* the graph of CFG (bloc_pool, entry_bloc, ...)
  minsize    \* the local variable of collapse

Collapsed == Len(lab.pool) = 1 /\ lab.prevcount[entry_bloc] <= 1

Collapsing == phase = "collapse" /\ ~ Collapsed

\* No group of these patterns.
None(patterns) == \A p \in patterns : FirstMatch(lab, p) = NoMatch

\* The graph becomes g; the loop of collapse then guards against inflation.
Rewrite(g) ==
  LET size == Len(g.pool)
  IN  /\ lab' = g
      /\ minsize' = IF size < minsize THEN size ELSE minsize
      /\ phase' = IF g.error # "none" THEN "thrown"
                  ELSE IF minsize <= size /\ 5 * minsize <= size THEN "failed"
                  ELSE phase

StepSequence ==
  /\ Collapsing
  /\ \E m \in {FirstMatch(lab, Seq2)} :
       m # NoMatch /\ Rewrite(MergeSubgraph(lab, m))

StepIfThen ==
  /\ Collapsing /\ None({Seq2})
  /\ \E m \in {FirstMatch(lab, IfThen)} :
       m # NoMatch /\ Rewrite(MergeIf(lab, m, << <<"}">> >>))

StepIfThenElse ==
  /\ Collapsing /\ None({Seq2, IfThen})
  /\ \E m \in {FirstMatch(lab, IfThenElse)} :
       m # NoMatch /\ Rewrite(MergeIf(lab, m, << <<"else">>, <<"}">> >>))

StepLoop ==
  /\ Collapsing /\ None({Seq2, IfThen, IfThenElse})
  /\ \E m \in {FirstMatch(lab, Loop)} :
       m # NoMatch /\ Rewrite(MergeLoop(lab, m))

StepExitIf ==
  /\ Collapsing /\ None({Seq2, IfThen, IfThenElse, Loop})
  /\ \E m \in {FirstMatch(lab, ExitIf)} :
       m # NoMatch /\ Rewrite(MergeIf(lab, m, << <<"}">> >>))

NoGroup == None({Seq2, IfThen, IfThenElse, Loop, ExitIf})

StepFunnel ==
  /\ Collapsing /\ NoGroup
  /\ \E R \in Hammocks(lab) : \E e, f \in PartExits(lab, R) :
       e # f /\ Rewrite(Funnel(lab, R, Exits(e, f)))

\* Without a funnel the properties are refreshed and cycles are looked for; a
\* self-cycle "shouldn't happen", and without a bad cycle collapse gives up.
StepDuplicate ==
  /\ Collapsing /\ NoGroup /\ Hammocks(lab) = {}
  /\ LET g == Refresh(lab)
     IN Rewrite(IF g.error # "none" THEN g
                ELSE IF \E b \in Blocs(g) : b \in Succ(g, b)
                  THEN [g EXCEPT !.error = "self-cycle"]
                ELSE IF IncomingEdges(g) = {} THEN [g EXCEPT !.error = "bad graph"]
                ELSE DuplicateWorst(g))

Round == \/ StepSequence \/ StepIfThen \/ StepIfThenElse \/ StepLoop
         \/ StepExitIf \/ StepFunnel \/ StepDuplicate
==============================================================================
