------------------------------ MODULE FpuStack -------------------------------
(***************************************************************************)
(* uwt/trans/core.hh, core.cc, x86/context.hh: the registers of the FPU,   *)
(* which an instruction uses beside the others.  They are a ring of which  *)
(* a field of the status word is the top.  Core knows neither the top nor  *)
(* the registers: fpuregs[i] is what the register that was ST(i) before    *)
(* the instruction holds, and ftop how far the top has moved since.  The   *)
(* code that is emitted finds ST(i) from the top it reads, writes absolute *)
(* registers, and moves the top, all of it in any order.                   *)
(*                                                                         *)
(* A value is the index of the ST register that held it at the beginning:  *)
(* values are moved, what is computed from them is theirs.                 *)
(***************************************************************************)
EXTENDS Instruction

CONSTANT Depth   \* the number of registers, 8

ASSUME DepthAssumption == Depth \in Nat \ {0}

Index == 0 .. Depth - 1

VARIABLES
  ftop, fpuregs,   \* of the Core of the path being executed
  stack,           \* history: ST(0), ST(1)... as they are meant to be
  fval,            \* what was read last, and what it is meant to be
  fops,            \* how many accesses there have been
  fsaved,          \* the state at the condition
  fupdates,        \* fupdates[n]: the FRegWrites of node n, and its FTopWrite
  fwant,           \* history: fwant[n]: the stack at the end of the path of n
  FPUR, top,       \* the registers at run time, and which is ST(0)
  ftmps,           \* ftmps[n]: the temporaries of values and of register numbers
  fleft, topleft   \* what the node is still to update

fsymbolic == <<ftop, fpuregs, stack, fval, fops, fsaved>>
ftree == <<fupdates, fwant>>
fruntime == <<FPUR, top, ftmps, fleft, topleft>>
fvars == <<fsymbolic, ftree, fruntime>>
coreVars == <<vars, fvars>>

unread == [expr |-> -1]
unsaved == [ftop |-> 0]
NoUpdates == [freg |-> [i \in {} |-> 0], ftop |-> 0]
NoTemps == [value |-> [k \in {} |-> 0], slot |-> [i \in {} |-> 0]]
FReference == [i \in Index |-> i]

CoreInit ==
  /\ Init
  /\ ftop = 0 /\ fpuregs = FReference
  /\ stack = FReference
  /\ fval = unread /\ fops = 0 /\ fsaved = unsaved
  /\ fupdates = [n \in Node |-> NoUpdates] /\ fwant = [n \in Node |-> FReference]
  /\ top \in Index
  /\ FPUR = [p \in Index |-> (p + Depth - top) % Depth]
  /\ ftmps = [n \in Node |-> NoTemps]
  /\ fleft = {} /\ topleft = FALSE

-----------------------------------------------------------------------------
(* The symbolic execution.                                                 *)

Room == ops + fops < MaxOps

FStep == /\ pc = "step" /\ Room /\ fops' = fops + 1
         /\ UNCHANGED <<fsaved, ftree, fruntime>>

\* The register that is i above the top.
Ring(i) == (ftop + i) % Depth

FReadAt(i) == [expr |-> fpuregs[Ring(i)], value |-> stack[i]]

FWriteAt(i, x) == /\ fpuregs' = [fpuregs EXCEPT ![Ring(i)] = x.expr]
                  /\ stack' = [stack EXCEPT ![i] = x.value]

fread == /\ FStep
         /\ \E i \in Index : fval' = FReadAt(i)
         /\ UNCHANGED <<ftop, fpuregs, stack>>

fwrite == /\ FStep /\ fval # unread
          /\ \E i \in Index : FWriteAt(i, fval)
          /\ UNCHANGED <<ftop, fval>>

\* A value that is read and written at once, for exchanges.
fmove == /\ FStep
         /\ \E i, j \in Index : FWriteAt(i, FReadAt(j))
         /\ UNCHANGED <<ftop, fval>>

fpush == /\ FStep /\ fval # unread
         /\ ftop' = Ring(Depth - 1)
         /\ fpuregs' = [fpuregs EXCEPT ![Ring(Depth - 1)] = fval.expr]
         /\ stack' = [i \in Index |-> IF i = 0 THEN fval.value ELSE stack[i - 1]]
         /\ UNCHANGED fval

\* The value stays in its register, which becomes the last of the stack.
fpop == /\ FStep
        /\ fval' = FReadAt(0)
        /\ ftop' = Ring(1)
        /\ stack' = [i \in Index |-> stack[(i + 1) % Depth]]
        /\ UNCHANGED fpuregs

FConcretize ==
  /\ fsaved' = [ftop |-> ftop, fpuregs |-> fpuregs, stack |-> stack,
                fval |-> fval, fops |-> fops]
  /\ UNCHANGED <<ftop, fpuregs, stack, fval, fops, ftree, fruntime>>

\* The registers whose value has changed, and the top if it has moved.
FUpdates == [freg |-> [i \in {j \in Index : fpuregs[j] # FReference[j]} |-> fpuregs[i]],
             ftop |-> ftop]

\* simplify, for both kinds of updates.
FCommon(u, v) ==
  LET both == {i \in DOMAIN u.freg \intersect DOMAIN v.freg : u.freg[i] = v.freg[i]}
  IN  [freg |-> [i \in both |-> u.freg[i]],
       ftop |-> IF u.ftop = v.ftop THEN u.ftop ELSE 0]
FWithout(u, c) ==
  [freg |-> [i \in DOMAIN u.freg \ DOMAIN c.freg |-> u.freg[i]],
   ftop |-> IF u.ftop = c.ftop THEN 0 ELSE u.ftop]

FDiscard == /\ ftop' = 0 /\ fpuregs' = FReference /\ stack' = FReference
            /\ fval' = unread /\ fops' = 0 /\ fsaved' = unsaved

FClose ==
  /\ fwant' = [fwant EXCEPT ![node] = stack]
  /\ \/ /\ node = "root"
        /\ fupdates' = [fupdates EXCEPT !["root"] = FUpdates]
        /\ FDiscard
     \/ /\ node = "then"
        /\ fupdates' = [fupdates EXCEPT !["then"] = FUpdates]
        /\ ftop' = fsaved.ftop /\ fpuregs' = fsaved.fpuregs
        /\ stack' = fsaved.stack /\ fval' = fsaved.fval /\ fops' = fsaved.fops
        /\ UNCHANGED fsaved
     \/ /\ node = "else"
        /\ LET both == FCommon(fupdates["then"], FUpdates)
           IN  fupdates' = [n \in Node |->
                 CASE n = "root" -> both
                   [] n = "then" -> FWithout(fupdates["then"], both)
                   [] n = "else" -> FWithout(FUpdates, both)]
        /\ FDiscard
  /\ UNCHANGED fruntime

-----------------------------------------------------------------------------
(* The code that translate emits, at run time.                             *)

\* rfpust, and ftop_update of the top that is read.
rfpust(k) == FPUR[(top + k) % Depth]
ftop_update(i) == (top + i) % Depth

fvalue(k) == IF k \in DOMAIN ftmps[node].value THEN ftmps[node].value[k] ELSE rfpust(k)

\* Mutant: the number of a register is computed when the register is written.
fslotLate(i) == ftop_update(i)

fslot(i) == IF i \in DOMAIN ftmps[node].slot THEN ftmps[node].slot[i] ELSE ftop_update(i)

\* The values that a node gives to registers, and the numbers of these and of
\* the new top, are computed when the node is entered.
FValues(u) == {u.freg[i] : i \in DOMAIN u.freg}
FSlots(u) == DOMAIN u.freg \union ({u.ftop} \ {0})

FMakeTemps(u, known) ==
  [value |-> [k \in DOMAIN known.value \union FValues(u) |->
                IF k \in DOMAIN known.value THEN known.value[k] ELSE rfpust(k)],
   slot |-> [i \in DOMAIN known.slot \union FSlots(u) |->
                IF i \in DOMAIN known.slot THEN known.slot[i] ELSE ftop_update(i)]]

\* What a node has to update when its turn comes.
Pending(n) == /\ fleft' = DOMAIN fupdates[n].freg
              /\ topleft' = (fupdates[n].ftop # 0)

FEnter == /\ ftmps' = [ftmps EXCEPT !["root"] = FMakeTemps(fupdates["root"], NoTemps)]
          /\ Pending("root")
          /\ UNCHANGED <<fsymbolic, ftree, FPUR, top>>

FTest == /\ ftmps' = [ftmps EXCEPT ![node'] = FMakeTemps(fupdates[node'], ftmps["root"])]
         /\ Pending(node')
         /\ UNCHANGED <<fsymbolic, ftree, FPUR, top>>

\* wfpuabs.
FRegWrite == /\ pc = "commit"
             /\ \E i \in fleft :
                  /\ FPUR' = [FPUR EXCEPT ![fslot(i)] = fvalue(fupdates[node].freg[i])]
                  /\ fleft' = fleft \ {i}
             /\ UNCHANGED <<fsymbolic, ftree, top, ftmps, topleft>>

\* fputop.
FTopWrite == /\ pc = "commit" /\ topleft
             /\ top' = fslot(fupdates[node].ftop)
             /\ topleft' = FALSE
             /\ UNCHANGED <<fsymbolic, ftree, FPUR, ftmps, fleft>>

FDone == fleft = {} /\ ~ topleft

FLeave == Pending("root") /\ UNCHANGED <<fsymbolic, ftree, FPUR, top, ftmps>>

-----------------------------------------------------------------------------
(* The instruction: its accesses to both sets of registers, and then the   *)
(* updates of both, in any order.                                          *)

Access86 == (Read \/ Write \/ Move) /\ Room /\ UNCHANGED fvars
Access87 == (fread \/ fwrite \/ fmove \/ fpush \/ fpop) /\ UNCHANGED vars

Commit86 == Commit /\ UNCHANGED fvars
Commit87 == (FRegWrite \/ FTopWrite) /\ UNCHANGED vars

CoreNext ==
  \/ Access86
  \/ Access87
  \/ Concretize /\ Room /\ FConcretize
  \/ SetNip /\ UNCHANGED fvars
  \/ Close /\ FClose
  \/ Enter /\ FEnter
  \/ Test /\ FTest
  \/ Commit86
  \/ Commit87
  \/ Leave /\ FDone /\ FLeave
  \/ Updated /\ FDone /\ UNCHANGED fvars
  \/ Terminating /\ UNCHANGED fvars

CoreSpec == CoreInit /\ [][CoreNext]_coreVars

-----------------------------------------------------------------------------
(* Properties.                                                             *)

\* When an instruction is over, each ST(i) holds what its pushes, pops and
\* writes mean, wherever the top was and whichever of the registers and of the
\* top were written first.
StackExact ==
  pc = "branch" => \A i \in Index : FPUR[(top + i) % Depth] = fwant[taken][i]
==============================================================================
