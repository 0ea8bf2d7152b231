------------------------------ MODULE Decompile ------------------------------
(***************************************************************************)
(* uwt/trans/functionlab.cc: a function is decoded into a graph            *)
(* (FunctionLab::decode), the graph is collapsed (CFG::collapse), and the  *)
(* code of the last bloc is printed (FunctionLab::translate).  The code is *)
(* then run side by side with the instructions it was made from.           *)
(*                                                                         *)
(* The memory that decode reads is not chosen in advance: an instruction   *)
(* is, when it is fetched.  It has no exit (ret, indirect jump), one       *)
(* (sequence, call, jump) or two different ones (conditional jump).        *)
(***************************************************************************)
EXTENDS CollapseLoop, EmittedCode

CONSTANT MaxBlocs   \* bound: the number of instructions of the function

ASSUME MaxBlocsAssumption == MaxBlocs \in Nat \ {0}

VARIABLES
  pending,   \* the exits that the nested calls of decode still have to set
  flow,      \* the graph that decode made
  pc,        \* where the emitted code is
  env,       \* its variables, those assigned so far
  at         \* the instruction that comes next in flow

runVars == <<pc, env, at>>
vars == <<phase, lab, pending, flow, minsize, pc, env, at>>

\* What decode has to do after the instruction of bloc b: nothing, follow its
\* only successor, or follow the next instruction then the target.
Kinds(b) == { <<>>, << <<b, FALSE>> >>, << <<b, FALSE>>, <<b, TRUE>> >> }

\* The graph of one bloc: decode holds one reference to the entry, by res
\* and later by entry_bloc.
Fetched1 == [pool |-> <<entry_bloc>>, exits |-> <<NoExits>>, prevcount |-> <<1>>,
             stmts |-> << << <<"insn", entry_bloc>> >> >>, fresh |-> entry_bloc + 1,
             error |-> "none", term |-> <<>>, source |-> <<>>, vars |-> 0,
             clash |-> FALSE]

Init == /\ phase = "decode"
        /\ lab = Fetched1
        /\ pending \in Kinds(entry_bloc)
        /\ flow = <<>>
        /\ minsize = 0
        /\ pc = 1 /\ env = <<>> /\ at = entry_bloc

-----------------------------------------------------------------------------
(* FunctionLab::decode.                                                    *)

\* The next exit leads to an instruction already fetched; the other exit of a
\* fork leads elsewhere.
DecodeKnown ==
  /\ phase = "decode" /\ pending # <<>>
  /\ \E t \in Blocs(lab) :
       /\ ~ Has(lab.exits[Head(pending)[1]], t)
       /\ lab' = SetExit(lab, Head(pending)[1], Head(pending)[2], t)
  /\ pending' = Tail(pending)
  /\ UNCHANGED <<phase, flow, minsize, runVars>>

\* The next exit leads to a new instruction, whose successors come first.
DecodeNew ==
  /\ phase = "decode" /\ pending # <<>>
  /\ Len(lab.pool) < MaxBlocs
  /\ LET b == lab.fresh
     IN /\ lab' = SetExit(NewBloc(lab, << <<"insn", b>> >>),
                          Head(pending)[1], Head(pending)[2], b)
        /\ \E k \in Kinds(b) : pending' = k \o Tail(pending)
  /\ UNCHANGED <<phase, flow, minsize, runVars>>

\* decompile calls collapse.
Decoded ==
  /\ phase = "decode" /\ pending = <<>>
  /\ phase' = "collapse"
  /\ flow' = lab.exits
  /\ minsize' = Len(lab.pool)
  /\ UNCHANGED <<lab, pending, runVars>>

\* translate prints the statements of the last bloc.
Emit ==
  /\ phase = "collapse" /\ Collapsed
  /\ phase' = "run"
  /\ UNCHANGED <<lab, pending, flow, minsize, runVars>>

-----------------------------------------------------------------------------
(* The emitted code and the instructions, side by side.                    *)

Code == lab.stmts[entry_bloc]

\* The values a variable may be read with: one that was not assigned yet is
\* uninitialized in the generated source.
Value(v) == IF v \in DOMAIN env THEN {env[v]} ELSE BOOLEAN

Assign(v, c) == env' = [w \in DOMAIN env \union {v} |-> IF w = v THEN c ELSE env[w]]

Running == phase = "run" /\ pc <= Len(Code)

\* An instruction: it goes one way in flow, and if it is a fork it puts its
\* condition in the variable it was told of.
RunInsn ==
  /\ Running /\ Code[pc] = <<"insn", at>>
  /\ pc' = pc + 1
  /\ IF DeadEnd([exits |-> flow], at)
       THEN phase' = "returned" /\ UNCHANGED <<at, env>>
       ELSE /\ UNCHANGED phase
            /\ \E odd \in BOOLEAN :
                 /\ odd => flow[at].odd # nil
                 /\ at' = Get(flow[at], odd)
                 /\ IF flow[at].odd = nil THEN UNCHANGED env
                    ELSE LET t == lab.term[Code[pc]]
                         IN Assign(t.term, Xor(odd, t.inv))
  /\ UNCHANGED <<lab, pending, flow, minsize>>

\* A funnel, or the source of one, copies a condition.
RunFunnel ==
  /\ Running /\ Code[pc][1] \in {"sink", "source"}
  /\ LET s == Code[pc]
         t == lab.term[s]
     IN IF s[1] = "sink"
          THEN \E c \in Value(s[2]) : Assign(t.term, Xor(c, t.inv))
          ELSE IF lab.source[s].prev = <<>> THEN Assign(s[2], t.inv)
          ELSE \E c \in Value(t.term) : Assign(s[2], Xor(c, t.inv))
  /\ pc' = pc + 1
  /\ UNCHANGED <<phase, lab, pending, flow, minsize, at>>

RunControl ==
  /\ Running /\ Code[pc][1] \notin {"insn", "sink", "source"}
  /\ \E c \in IF TestsLcc(Code[pc]) THEN Value(lcc) ELSE {FALSE} :
       pc' = Goto(Code, pc, c)
  /\ UNCHANGED <<phase, lab, pending, flow, minsize, env, at>>

\* The emitted code is about to do something else than the instructions do:
\* another instruction, or the end of a function that has not returned.
Diverge ==
  /\ phase = "run"
  /\ IF pc > Len(Code) THEN TRUE
     ELSE Code[pc][1] = "insn" /\ Code[pc] # <<"insn", at>>
  /\ phase' = "diverged"
  /\ UNCHANGED <<lab, pending, flow, minsize, runVars>>

Final == {"thrown", "failed", "returned", "diverged"}

Over == phase \in Final /\ UNCHANGED vars

Decode == DecodeKnown \/ DecodeNew \/ Decoded
Step == \/ Round /\ UNCHANGED <<pending, flow, runVars>>
        \/ Emit
Run == RunInsn \/ RunFunnel \/ RunControl \/ Diverge

Next == Decode \/ Step \/ Run \/ Over

\* One thread, that never waits.
Spec == Init /\ [][Next]_vars /\ WF_vars(Next)

-----------------------------------------------------------------------------
(* Properties.                                                             *)

Phases == {"decode", "collapse", "run", "returned", "thrown", "failed", "diverged"}

\* The graph is well built: the exits of its blocs are blocs of the pool,
\* never freed ones, and a bloc is in the pool once.
TypeOK ==
  /\ phase \in Phases
  /\ IsInjective(lab.pool)
  /\ lab.exits \in [Blocs(lab) -> ExitsTo(Blocs(lab))]
  /\ lab.prevcount \in [Blocs(lab) -> Nat]
  /\ DOMAIN lab.stmts = Blocs(lab)
  /\ minsize \in Nat
  /\ at \in DOMAIN flow \union {entry_bloc}

\* IBloc::ref and unref keep an exact count: a bloc counts the exits that lead
\* to it, and the entry the reference that the lab holds besides.  The patterns
\* trust the count to tell that a bloc is uniquely entered, and the destructor
\* to tell that nothing leads to the bloc any more.
RefCounts ==
  \A b \in Blocs(lab) :
    lab.prevcount[b] = Cardinality({e \in Blocs(lab) \X BOOLEAN : Get(lab.exits[e[1]], e[2]) = b})
                       + (IF b = entry_bloc THEN 1 ELSE 0)

\* collapse always ends with one bloc: no pattern is missing, no exception is
\* thrown on the way (in particular, every bloc stays reachable from the entry,
\* as refresh_props wants), and duplications never inflate the graph up to the bound
\* at which collapse gives up (tests/scan.cc throws if it does).
CollapseSucceeds == phase \notin {"thrown", "failed"}

\* The tree that the iteration over immediate dominators ends with is the
\* dominance relation, for each graph that collapse goes through.
DominatorsExact ==
  phase = "collapse" =>
    LET g == Refresh(lab)
        idom == Idom(g)
    IN  \A a, b \in Blocs(g) : Dominates(idom, a, b) <=> DominatesByDefinition(g, a, b)

\* CFG::reducible tells the graphs that are reducible.
ReducibleExact ==
  phase = "collapse" => (Reducible(Refresh(lab)) <=> ReducibleByDefinition(lab))

\* Merging groups and funnelling parts never make a reducible graph
\* irreducible, so that a reducible function never has a bloc duplicated.
ReducibleStays ==
  phase = "collapse" /\ ReducibleByDefinition([lab EXCEPT !.pool = SetToSeq(DOMAIN flow),
                                                          !.exits = flow])
    => ReducibleByDefinition(lab)

\* The braces and jumps of the emitted code are those of a C++ function (it does
\* not change while it runs: they are matched where it starts), and control
\* stays in it.
CodeWellFormed ==
  phase = "run" => /\ pc = 1 => WellFormed(Code)
                   /\ pc \in 1 .. Len(Code) + 1

\* The emitted code executes the instructions that the function executes, in
\* the same order, whatever the conditions are: none is lost while the graph is
\* rewritten.
FollowsFlow == phase # "diverged"

\* ... which it does provided no statement, shared by a bloc and its duplicate,
\* was told to put its condition in two different places.
FollowsFlowUnshared == phase = "diverged" => lab.clash

\* The emitted code tests no variable that it has not assigned before (again
\* unless a shared statement lost its variable).
AssignedBeforeRead ==
  Running /\ ~ lab.clash =>
    LET s == Code[pc]
    IN  /\ TestsLcc(s) => lcc \in DOMAIN env
        /\ s[1] = "sink" => s[2] \in DOMAIN env
        /\ (s[1] = "source" /\ lab.source[s].prev # <<>>) => lab.term[s].term \in DOMAIN env

=============================================================================
