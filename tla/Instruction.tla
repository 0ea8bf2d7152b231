----------------------------- MODULE Instruction -----------------------------
(***************************************************************************)
(* uwt/trans/insnstmt.cc, core.cc: an instruction, from its symbolic       *)
(* execution to the run of the code that is emitted for it.  The           *)
(* constructor of InsnStatement executes it once on each of its paths and  *)
(* closes each with the updates of the registers it has changed;           *)
(* translate emits temporaries, then a test and the updates of the paths,  *)
(* then the updates that are common to them.                               *)
(*                                                                         *)
(* What an instruction does to the registers is any sequence of accesses,  *)
(* with at most one condition: its operation is the processor library's.   *)
(* The code is run on the symbols, that is, for all values of them at once.*)
(***************************************************************************)
EXTENDS Registers

CONSTANT MaxOps   \* bound: the accesses of a path, and its condition

ASSUME MaxOpsAssumption == MaxOps \in Nat

Node == {"root", "then", "else"}

VARIABLES
  pc,        \* how far the constructor, then the emitted code, are
  core,      \* core[r]: regvalues of r, on the path being executed
  bytes,     \* the registers, as the accesses are meant to leave them
  operand,   \* what was read last
  ops,       \* how many there have been
  node,      \* path, the node of the actions that execution, or the run, is at
  saved,     \* the state at the condition
  cond,      \* the condition
  jumps,     \* whether only one of its paths goes to the next instruction
  addr,      \* the address of a jump that the instruction computes
  updates,   \* updates[n]: what node n gives to each register that it updates
  want,      \* want[n]: the registers at the end of the path that ends at n
  tmps,      \* tmps[n]: ccode.tmps in node n, with their values at run time
  regs,      \* the registers at run time
  left,      \* the registers that the node is still to update
  taken      \* the node of the path that the run takes

symbolic == <<core, bytes, operand, ops, saved, cond, jumps, addr>>
tree == <<updates, want>>
runtime == <<tmps, regs, left, taken>>
vars == <<pc, node, symbolic, tree, runtime>>

\* What was read: its size, its expression, and what it is meant to be.
Operand == [size : {1, 2, 4}, expr : Expr, value : Expr]
none == [size |-> 0]
nothing == [r \in {} |-> Zero]

\* The reads of the registers (newRegRead).
Before(r) == [i \in Pos |-> {<<r, i>>}]
Reference == [r \in Reg |-> [i \in Pos |-> IF i = 0 THEN Before(r) ELSE nil]]

Init == /\ pc = "step" /\ node = "root"
        /\ core = Reference /\ bytes = [r \in Reg |-> Before(r)]
        /\ operand = none /\ ops = 0 /\ saved = nothing
        /\ cond = none /\ jumps = FALSE /\ addr = none
        /\ updates = [n \in Node |-> nothing] /\ want = [n \in Node |-> nothing]
        /\ tmps = [n \in Node |-> nothing]
        /\ regs = [r \in Reg |-> Before(r)] /\ left = {} /\ taken = "root"

-----------------------------------------------------------------------------
(* The symbolic execution.                                                 *)

ReadAt(r, size, pos) == [size |-> size,
                         expr |-> eregread(core[r], size, pos),
                         value |-> Slice(bytes[r], size, pos)]

WriteAt(r, size, pos, x) ==
  /\ core' = [core EXCEPT ![r] = eregwrite(@, size, pos, x.expr)]
  /\ bytes' = [bytes EXCEPT ![r] = Overwrite(@, size, pos, x.value)]

Step == /\ pc = "step" /\ ops < MaxOps /\ ops' = ops + 1
        /\ UNCHANGED <<pc, node, saved, cond, jumps, addr, tree, runtime>>

Read == /\ Step
        /\ \E r \in Reg, a \in Access : operand' = ReadAt(r, a[1], a[2])
        /\ UNCHANGED <<core, bytes>>

Write == /\ Step /\ operand # none
         /\ \E r \in Reg, a \in Access :
              a[1] = operand.size /\ WriteAt(r, a[1], a[2], operand)
         /\ UNCHANGED operand

\* A read that is written at once: operand is kept, so that two registers may
\* be exchanged.
Move == /\ Step
        /\ \E r, q \in Reg, a, b \in Access :
             a[1] = b[1] /\ WriteAt(r, a[1], a[2], ReadAt(q, b[1], b[2]))
        /\ UNCHANGED operand

\* concretize: the operand decides.  Both paths are executed, each from the
\* start: the accesses before the condition, which are the same, are not
\* repeated here.
Concretize ==
  /\ pc = "step" /\ node = "root" /\ operand # none
  /\ ops < MaxOps /\ ops' = ops + 1
  /\ cond' = operand
  /\ jumps' \in BOOLEAN /\ (jumps' => addr = none)
  /\ saved' = [core |-> core, bytes |-> bytes, operand |-> operand, ops |-> ops']
  /\ node' = "then"
  /\ UNCHANGED <<pc, core, bytes, operand, addr, tree, runtime>>

\* setnip with an address that was read.  It is set before any condition: no
\* instruction has a conditional jump to an address that it computes.
SetNip ==
  /\ pc = "step" /\ node = "root" /\ addr = none
  /\ operand # none /\ operand.size = 4
  /\ addr' = operand
  /\ UNCHANGED <<pc, node, core, bytes, operand, ops, saved, cond, jumps, tree, runtime>>

\* A register is updated if any of its parts has changed, with all of it.
regdiff(r) == \E i \in Pos : core[r][i] # Reference[r][i]
Updates == [r \in {q \in Reg : regdiff(q)} |-> eregread(core[r], 4, 0)]

\* simplify: the updates that both paths make are made by the node above.
Common(u, v) == {r \in DOMAIN u \intersect DOMAIN v : u[r] = v[r]}
Without(u, S) == [r \in DOMAIN u \ S |-> u[r]]

\* The last Core is gone after its path.
Discard == /\ core' = Reference /\ bytes' = [r \in Reg |-> Before(r)]
           /\ operand' = none /\ ops' = 0

Close ==
  /\ pc = "step"
  /\ want' = [want EXCEPT ![node] = bytes]
  /\ \/ /\ node = "root"
        /\ updates' = [updates EXCEPT !["root"] = Updates]
        /\ pc' = "emit"
        /\ UNCHANGED <<node, saved, cond, jumps, addr>> /\ Discard
     \/ /\ node = "then"
        /\ updates' = [updates EXCEPT !["then"] = Updates]
        /\ node' = "else"
        /\ core' = saved.core /\ bytes' = saved.bytes
        /\ operand' = saved.operand /\ ops' = saved.ops
        /\ UNCHANGED <<pc, saved, cond, jumps, addr>>
     \/ /\ node = "else"
        /\ LET both == Common(updates["then"], Updates)
           IN  updates' = [n \in Node |->
                 CASE n = "root" -> [r \in both |-> Updates[r]]
                   [] n = "then" -> Without(updates["then"], both)
                   [] n = "else" -> Without(Updates, both)]
        /\ pc' = "emit" /\ node' = "root" /\ saved' = nothing
        /\ UNCHANGED <<cond, jumps, addr>> /\ Discard
  /\ UNCHANGED runtime

-----------------------------------------------------------------------------
(* The code that translate emits, at run time.                             *)

\* What an expression is worth.
Eval(e) == [i \in Pos |-> UNION {regs[s[1]][s[2]] : s \in e[i]}]

\* An expression is replaced by its temporary, if it has one.
ccode(e) == IF e \in DOMAIN tmps[node] THEN tmps[node][e] ELSE Eval(e)

\* What the branch uses: an address that the instruction computes, or the
\* condition of its jump.  They are updates of the root too: their values are
\* needed, although no register gets them.
Branch == {x \in {addr} : x # none} \union {x \in {cond} : jumps}
Needed == {x.expr : x \in Branch}

\* Mutant: the values that the branch needs are not computed beforehand.
OperandsOfUpdates(n) == {updates[n][r] : r \in DOMAIN updates[n]}

Operands(n) == {updates[n][r] : r \in DOMAIN updates[n]}
               \union (IF n = "root" THEN Needed ELSE {})

\* The values that the updates of a node give, and that have no temporary
\* yet, are all computed when the node is entered.
MakeTemps(n, known) ==
  [e \in DOMAIN known \union Operands(n) |->
     IF e \in DOMAIN known THEN known[e] ELSE Eval(e)]

Enter == /\ pc = "emit"
         /\ tmps' = [tmps EXCEPT !["root"] = MakeTemps("root", nothing)]
         /\ left' = DOMAIN updates["root"]
         /\ pc' = IF cond = none THEN "commit" ELSE "test"
         /\ UNCHANGED <<node, symbolic, tree, regs, taken>>

\* Either path may be the one that the values of the registers lead to, if
\* the condition is computed from those.
Test == /\ pc = "test"
        /\ node' \in {"then", "else"} /\ taken' = node'
        /\ tmps' = [tmps EXCEPT ![node'] = MakeTemps(node', tmps["root"])]
        /\ left' = DOMAIN updates[node']
        /\ pc' = "commit"
        /\ UNCHANGED <<symbolic, tree, regs>>

\* One by one, in the order of the set of the updates, which may be any.
Commit == /\ pc = "commit"
          /\ \E r \in left : /\ regs' = [regs EXCEPT ![r] = ccode(updates[node][r])]
                             /\ left' = left \ {r}
          /\ UNCHANGED <<pc, node, symbolic, tree, tmps, taken>>

\* After the updates of the path, those of the root, with its temporaries.
Leave == /\ pc = "commit" /\ left = {} /\ node # "root"
         /\ node' = "root"
         /\ left' = DOMAIN updates["root"]
         /\ UNCHANGED <<pc, symbolic, tree, tmps, regs, taken>>

\* The branch of the instruction is next.
Updated == /\ pc = "commit" /\ left = {} /\ node = "root"
           /\ pc' = "branch"
           /\ UNCHANGED <<node, symbolic, tree, runtime>>

\* The end of the instruction.
Terminating == pc = "branch" /\ UNCHANGED vars

Next == \/ Read \/ Write \/ Move \/ Concretize \/ SetNip \/ Close
        \/ Enter \/ Test \/ Commit \/ Leave \/ Updated
        \/ Terminating

Spec == Init /\ [][Next]_vars

-----------------------------------------------------------------------------
(* Properties.                                                             *)

Registers == [Reg -> Expr]

TypeOK ==
  /\ pc \in {"step", "emit", "test", "commit", "branch"}
  /\ node \in Node /\ taken \in Node
  /\ core \in [Reg -> Parts]
  /\ bytes \in Registers
  /\ operand \in Operand \union {none}
  /\ ops \in 0 .. MaxOps
  /\ jumps \in BOOLEAN
  /\ cond \in Operand \union {none} /\ addr \in Operand \union {none}
  /\ \A n \in Node : /\ DOMAIN updates[n] \subseteq Reg
                      /\ \A r \in DOMAIN updates[n] : updates[n][r] \in Expr
  /\ \A n \in Node : want[n] = nothing \/ want[n] \in Registers
  /\ regs \in Registers
  /\ left \subseteq Reg

\* The code of an instruction does to the registers what the accesses to
\* their parts mean, byte by byte, all at once and on the path that their
\* values before the instruction lead to; the branch sees these values too.
Exact ==
  /\ pc = "test" => ccode(cond.expr) = cond.value
  /\ pc = "branch" => /\ regs = want[taken]
                      /\ \A x \in Branch : ccode(x.expr) = x.value
==============================================================================
