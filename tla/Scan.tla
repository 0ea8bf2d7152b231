-------------------------------- MODULE Scan ---------------------------------
(***************************************************************************)
(* The two programs that collapse every graph of a size: main of           *)
(* tests/scan.cc, which leaves the reducible graphs aside, and             *)
(* CFG_TestBench::test, which does not.  Both throw if a graph does not    *)
(* collapse, and both end when the seed stops or after MaxSteps graphs.    *)
(***************************************************************************)
EXTENDS TestBench

CONSTANTS
  Size,      \* the number of blocs of the graphs of each program
  MaxSteps   \* the largest number of graphs

ASSUME SizeAssumption == Size \in [{"scan", "test"} -> Nat \ {0}]
ASSUME StepsAssumption == MaxSteps \in Nat

VARIABLES
  program,   \* which one runs
  step,      \* the graphs done
  missing    \* history: the graphs that scan has not generated yet

vars == <<phase, lab, minsize, seedVars, genVars, program, step, missing>>

-----------------------------------------------------------------------------
(* What should be generated: the graphs of n blocs, whatever the order of  *)
(* exits, where the entry leads to every bloc.                             *)

RootedGraphs(n) ==
  {g \in [1 .. n -> {S \in SUBSET (1 .. n) : Cardinality(S) <= 2}] :
     \A R \in SUBSET (1 .. n) :
       entry_bloc \in R /\ (\A b \in R : g[b] \subseteq R) => R = 1 .. n}

\* The same graph, with the blocs other than the entry renamed.
Isomorphic(g, h) ==
  \E p \in [DOMAIN g -> DOMAIN h] :
    /\ IsInjective(p)
    /\ p[entry_bloc] = entry_bloc
    /\ \A b \in DOMAIN g : {p[t] : t \in g[b]} = h[p[b]]

-----------------------------------------------------------------------------

Init ==
  /\ program \in {"scan", "test"}
  /\ phase = "poll"
  /\ lab = NoBlocs
  /\ minsize = 0
  /\ SeedInit
  /\ todo = <<>> /\ subs = <<>> /\ slot = [bloc |-> 1, alt |-> FALSE, set |-> FALSE]
  /\ step = 0
  /\ missing = IF program = "scan" THEN RootedGraphs(Size[program]) ELSE {}

PollGraph ==
  /\ step < MaxSteps
  /\ Poll(Size[program])
  /\ UNCHANGED <<program, step, missing>>

\* The loop has been through all of its steps.
Enough ==
  /\ phase = "poll" /\ step = MaxSteps
  /\ phase' = "finished"
  /\ UNCHANGED <<lab, minsize, seedVars, genVars, program, step, missing>>

GenerateGraph == Generate /\ UNCHANGED <<program, step, missing>>

\* Collapse begins with graph g.
Enter(g) ==
  /\ lab' = g
  /\ phase' = IF g.error # "none" THEN "thrown" ELSE "collapse"
  /\ minsize' = Len(g.pool)
  /\ UNCHANGED step

\* scan: reducible and graphit refresh the properties.
Examine ==
  /\ phase = "made" /\ program = "scan"
  /\ missing' = {g \in missing : ~ Isomorphic(g, [b \in Blocs(lab) |-> Succ(lab, b)])}
  /\ LET g == Refresh(lab)
     IN IF g.error = "none" /\ Reducible(g)
          THEN /\ phase' = "poll"
               /\ step' = step + 1
               /\ UNCHANGED <<lab, minsize>>
          ELSE Enter(g)
  /\ UNCHANGED <<seedVars, genVars, program>>

Take ==
  /\ phase = "made" /\ program = "test"
  /\ Enter(lab)
  /\ UNCHANGED <<seedVars, genVars, program, missing>>

CollapseGraph == Round /\ UNCHANGED <<seedVars, genVars, program, step, missing>>

Done ==
  /\ phase = "collapse" /\ Collapsed
  /\ phase' = "poll"
  /\ step' = step + 1
  /\ UNCHANGED <<lab, minsize, seedVars, genVars, program, missing>>

Final == {"finished", "thrown", "failed"}

Over == phase \in Final /\ UNCHANGED vars

Progress == \/ PollGraph \/ GenerateGraph \/ Examine \/ Take
            \/ CollapseGraph \/ Done \/ Enough

Next == Progress \/ Over

\* One thread, that never waits.
Spec == Init /\ [][Next]_vars /\ WF_vars(Progress)

-----------------------------------------------------------------------------
(* Properties.                                                             *)

\* Every graph generated collapses, whatever the order that the parts of a
\* funnel are met in: neither program throws, and the seed never does.
ScanSucceeds == phase \notin {"thrown", "failed"} /\ seed # "thrown"

\* When scan is through, it has generated every rooted graph of its size at
\* least once, up to the names of the blocs and the order of exits.
EveryGraph == phase = "finished" /\ step < MaxSteps => missing = {}

\* Both programs end: no sequence of rewritings of a graph comes back to the
\* same graph, and the seed comes to its last leaf.
ScanEnds == <>(phase = "finished")
=============================================================================
