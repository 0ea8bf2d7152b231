------------------------------ MODULE FlagFlow -------------------------------
(***************************************************************************)
(* uwt/trans/functionlab.cc, FunctionLab::decompile: before the graph of a *)
(* function is collapsed, a backward data flow analysis finds which of the *)
(* processor flags that each instruction writes are needed afterwards, and *)
(* the writes of the others are erased (InsnStatement::SetNeededFlags).    *)
(*                                                                         *)
(* The pool of blocs is visited round robin until a whole round changes    *)
(* nothing.  The filtered function is then run next to the original one.   *)
(* The analysis takes a call for an instruction that neither reads nor     *)
(* writes flags, although the callee uses the same ones.  Flags are        *)
(* therefore served between two calls only: "own" are those whose value is *)
(* due to this very call of this function.                                 *)
(***************************************************************************)
EXTENDS Integers, FiniteSets

CONSTANTS
  N,        \* the number of blocs in the pool, ibcount
  FLAG,     \* the processor flags
  CanSkip   \* those that an instruction may leave alone on one of its paths

ASSUME NAssumption == N \in Nat \ {0}
ASSUME CanSkipAssumption == CanSkip \subseteq FLAG

\* A bloc is known by its index in bloc_pool; it holds one instruction.
Bloc == 0 .. N - 1

VARIABLES
  phase,        \* flow (the analysis), run (of the filtered function), returned
  exits,        \* exits[b]: the blocs that follow b
  calls,        \* the blocs that are calls
  m_needs,      \* the three fields of FlagStats
  m_begprods,
  m_endprods,
  idx,          \* the local variables of the loop
  last_update,
  reads,        \* what GetFlagStats says that the instructions read
  at,           \* the instruction that comes next in the run
  own,          \* history: the flags last written by the function itself
  fresh         \* those that have the value of the original function

stats == <<m_needs, m_begprods, m_endprods>>
running == <<at, own, fresh>>
flowVars == <<phase, exits, calls, stats, idx, last_update, reads, running>>

FlowType ==
  /\ phase \in {"flow", "run", "returned"}
  /\ exits \in [Bloc -> SUBSET Bloc]
  /\ calls \subseteq Bloc
  /\ m_needs \in [Bloc -> SUBSET FLAG]
  /\ m_begprods \in [Bloc -> SUBSET FLAG]
  /\ m_endprods \in [Bloc -> SUBSET FLAG]
  /\ reads \in [Bloc -> SUBSET FLAG]
  /\ idx \in Bloc
  /\ last_update \in Bloc
  /\ at \in Bloc
  /\ own \subseteq FLAG /\ fresh \subseteq own

\* Any function of N instructions: at most two exits each, any flags read and
\* written.  A call has one exit.
FlowInit ==
  /\ phase = "flow"
  /\ exits \in [Bloc -> {S \in SUBSET Bloc : Cardinality(S) <= 2}]
  /\ calls \in SUBSET {b \in Bloc : Cardinality(exits[b]) = 1}
  /\ reads \in [Bloc -> SUBSET FLAG]
  /\ m_begprods \in [Bloc -> SUBSET FLAG]
  /\ \A b \in calls : reads[b] = {} /\ m_begprods[b] = {}
  /\ m_needs = reads
  /\ m_endprods = m_begprods
  /\ idx = 0 /\ last_update = N - 1
  /\ at = 0 /\ own = {} /\ fresh = {}

-----------------------------------------------------------------------------
(* The analysis.                                                           *)

\* next_needs of bloc b.
NextNeeds(b) == UNION {m_needs[s] : s \in exits[b]}

\* FlagStats::update.
EndProds(b) == NextNeeds(b) \intersect m_begprods[b]

\* Mutants: what the bloc produces is not taken away; nothing is passed on to
\* the predecessors; the earlier needs are forgotten.
NeedsMore(b) == m_needs[b] \union NextNeeds(b)
NeedsLess(b) == m_needs[b]
NeedsForgotten(b) == NextNeeds(b) \ m_begprods[b]

Needs(b) == m_needs[b] \union (NextNeeds(b) \ m_begprods[b])

\* Mutant: the second changeto is not evaluated.
ChangedShort(b) == EndProds(b) # m_endprods[b]

Changed(b) == EndProds(b) # m_endprods[b] \/ Needs(b) # m_needs[b]

Following(i) == (i + 1) % N

\* A bloc that changes is marked as updated.
Update ==
  /\ phase = "flow" /\ Changed(idx)
  /\ m_endprods' = [m_endprods EXCEPT ![idx] = EndProds(idx)]
  /\ m_needs' = [m_needs EXCEPT ![idx] = Needs(idx)]
  /\ last_update' = idx
  /\ idx' = Following(idx)
  /\ UNCHANGED <<phase, exits, calls, m_begprods, reads, running>>

\* One that does not is passed over...
Pass ==
  /\ phase = "flow" /\ ~ Changed(idx) /\ idx # last_update
  /\ idx' = Following(idx)
  /\ UNCHANGED <<phase, exits, calls, stats, last_update, reads, running>>

\* ... unless it is the last one that was updated: no more updates.  The
\* statements are told of m_endprods, and erase the other writes.
Filter ==
  /\ phase = "flow" /\ ~ Changed(idx) /\ idx = last_update
  /\ phase' = "run"
  /\ UNCHANGED <<exits, calls, stats, idx, last_update, reads, running>>

-----------------------------------------------------------------------------
(* The function and its filtered form, in lockstep.                        *)

\* The flags that an instruction that may write W does write.
Written(W) == {w \in SUBSET W : W \ CanSkip \subseteq w}

\* An instruction makes stale the flags whose write was erased.
Execute(w) == /\ own' = own \union w
              /\ fresh' = (fresh \ w) \union (w \intersect m_endprods[at])

RunInsn ==
  /\ phase = "run" /\ at \notin calls
  /\ \E w \in Written(m_begprods[at]) : Execute(w)
  /\ at' \in exits[at]
  /\ UNCHANGED <<phase, exits, calls, stats, idx, last_update, reads>>

\* A call: the callee writes some flags, which were filtered for itself only.
RunCall ==
  /\ phase = "run" /\ at \in calls
  /\ \E w \in SUBSET FLAG : own' = own \ w /\ fresh' = fresh \ w
  /\ at' \in exits[at]
  /\ UNCHANGED <<phase, exits, calls, stats, idx, last_update, reads>>

\* A ret, a jump out of the function (a call in the emitted code), or a call
\* that did not come back where it should.
Return ==
  /\ phase = "run" /\ (exits[at] = {} \/ at \in calls)
  /\ phase' = "returned"
  /\ UNCHANGED <<exits, calls, stats, idx, last_update, reads, running>>

Returned == phase = "returned" /\ UNCHANGED flowVars

Analyse == Update \/ Pass \/ Filter

FlowNext == Analyse \/ RunInsn \/ RunCall \/ Return \/ Returned

\* decompile runs in one thread; the run of the result is not its business.
FlowSpec == FlowInit /\ [][FlowNext]_flowVars /\ WF_flowVars(Analyse)

-----------------------------------------------------------------------------
(* Properties.                                                             *)

\* Bloc b agrees with what its successors need.
Settled(b) == /\ m_endprods[b] = EndProds(b)
              /\ NextNeeds(b) \ m_begprods[b] \subseteq m_needs[b]

\* The blocs visited since the last update.
Visited(b) == IF last_update < idx THEN last_update < b /\ b < idx
              ELSE last_update < b \/ b < idx

\* The test idx = last_update ends the loop neither too early, nor on a bloc
\* that a later update of another one has invalidated: blocs visited since the
\* last update agree with their successors, hence all blocs do in the end.
AllSettled ==
  \A b \in Bloc : (phase # "flow" \/ Visited(b)) => Settled(b)

\* A solution of the equations of the analysis.
Solution(s) ==
  \A b \in Bloc :
    /\ reads[b] \subseteq s[b]
    /\ \A t \in exits[b] : s[t] \ m_begprods[b] \subseteq s[b]

\* "exact needs": no bloc is ever said to need a flag that some solution does
\* without, so that the result is the least solution.
NothingSuperfluous ==
  \A s \in [Bloc -> SUBSET FLAG] : Solution(s) => \A b \in Bloc : m_needs[b] \subseteq s[b]

\* Whenever an instruction of the filtered function reads a flag that the
\* function has written, and that no callee has overwritten since, its value is
\* the one that the original function would have stored.
ReadsServed == phase = "run" => reads[at] \intersect own \subseteq fresh

\* The analysis ends.
AnalysisEnds == <>(phase # "flow")
==============================================================================
