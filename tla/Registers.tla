------------------------------ MODULE Registers ------------------------------
(***************************************************************************)
(* uwt/trans/core.cc: how a Core keeps one 32-bit register while it        *)
(* executes an instruction.  The register is cut in parts where smaller    *)
(* writes have cut it: regvalues[pos] is the value of the part that begins *)
(* at byte pos, nil if none does.                                          *)
(*                                                                         *)
(* Expressions are followed byte by byte: a value is four bytes, zero-     *)
(* extended, and a byte the set of the symbols that were merged into it, a *)
(* symbol being a byte of a register before the instruction.  Masks,       *)
(* shifts by bytes and unions of disjoint values are then computed.        *)
(***************************************************************************)
EXTENDS Integers, FiniteSets

CONSTANTS
  Reg,   \* the registers
  nil    \* no node

GREGSIZE == 4
Pos == 0 .. GREGSIZE - 1

Symbol == Reg \X Pos
Expr == [Pos -> SUBSET Symbol]

ASSUME NilAssumption == nil \notin Expr

Parts == [Pos -> Expr \union {nil}]

\* regread and regwrite access the register, its low half, or AL or AH.
Access == {<<4, 0>>, <<2, 0>>, <<1, 0>>, <<1, 1>>}

-----------------------------------------------------------------------------
(* The operations of the expressions, with shifts in bytes.                *)

Zero == [i \in Pos |-> {}]
Lsr(v, n) == [i \in Pos |-> IF i + n \in Pos THEN v[i + n] ELSE {}]
And(v, size) == [i \in Pos |-> IF i < size THEN v[i] ELSE {}]   \* value_mask

\* Concatenation, from idx = 0 up: the part at pos + idx is found to be
\* there, the one at idx is used, which differs if pos is not 0.
Concat(parts, size, pos) ==
  [i \in Pos |-> parts[pos][i] \union
     UNION {parts[idx][i - idx] :
              idx \in {k \in 1 .. size - 1 : parts[pos + k] # nil /\ k <= i}}]

-----------------------------------------------------------------------------
(* Positions: pos is a multiple of the size, which is a power of two.      *)

\* pos | size, and the position of the other half: pos ^ size.
OddHalf(pos, size) == (pos \div size) % 2 = 1
BitOr(pos, size) == IF OddHalf(pos, size) THEN pos ELSE pos + size
BitXor(pos, size) == IF OddHalf(pos, size) THEN pos - size ELSE pos + size

\* The nearest part that may hold pos: src & (src-1), until there is one.
\* From the positions below 4 it is taken twice at most.
ClearLow(src) == src - (IF src % 2 = 1 THEN 1 ELSE 2)
Source(parts, pos) ==
  LET src == ClearLow(pos)
  IN  IF parts[src] # nil THEN src ELSE ClearLow(src)

eregread(parts, size, pos) ==
  IF parts[pos] = nil
    \* in the middle of a larger value
    THEN LET src == Source(parts, pos)
         IN  And(Lsr(parts[src], pos - src), size)
  ELSE IF parts[BitOr(pos, size) % GREGSIZE] = nil
    \* in the lower bits of a larger value
    THEN And(parts[pos], size)
  ELSE IF size > 1 /\ parts[BitOr(pos, size \div 2)] # nil
    THEN Concat(parts, size, pos)
  ELSE parts[pos]

\* The rounds of the loop of eregwrite: isize doubles from size on until the
\* part at ipos and its other half, at cpos, are both there.
Ipos(pos, isize) == pos - (pos % isize)
Cpos(pos, isize) == BitXor(Ipos(pos, isize), isize) % GREGSIZE
Cut(parts, pos, isize) == parts[Ipos(pos, isize)] = nil \/ parts[Cpos(pos, isize)] = nil
Rounds(parts, size, pos) ==
  {isize \in {1, 2, 4} :
     isize >= size /\ \A t \in {1, 2, 4} :
                        t \in size .. isize => Cut(parts, pos, t)}

\* The parts once what is around the range to be written has its own.
Rest(parts, size, pos) ==
  [i \in Pos |->
     LET cuts == {isize \in Rounds(parts, size, pos) : Cpos(pos, isize) = i}
     IN  IF cuts = {} THEN parts[i]
         ELSE eregread(parts, CHOOSE isize \in cuts : TRUE, i)]

eregwrite(parts, size, pos, v) ==
  [i \in Pos |-> IF i = pos THEN v
                 ELSE IF i \in pos + 1 .. pos + size - 1 THEN nil
                 ELSE Rest(parts, size, pos)[i]]

-----------------------------------------------------------------------------
(* What the parts stand for.                                               *)

\* Bytes pos .. pos + size - 1 of a register, as a value.
Slice(bytes, size, pos) == And(Lsr(bytes, pos), size)

\* A register of which these bytes are replaced by those of v.
Overwrite(bytes, size, pos, v) ==
  [i \in Pos |-> IF i \in pos .. pos + size - 1 THEN v[i - pos] ELSE bytes[i]]
==============================================================================
