-------------------------- MODULE InstructionProofs --------------------------
(***************************************************************************)
(* Proofs about Registers.tla: the parts that a Core keeps of a register   *)
(* always are slices of its value, however it has been accessed; about     *)
(* Instruction.tla: the code of an instruction is exact, for any registers *)
(* and any number of accesses; and about FpuStack.tla: so it is for the    *)
(* registers of the FPU, whose top it does not know.                       *)
(***************************************************************************)
EXTENDS FpuStack, TLAPS

-----------------------------------------------------------------------------
(* Values, and the parts of a register.                                    *)

\* The parts of a register, in one of the three ways that the accesses cut
\* it, are slices of bytes.
Holds(parts, b) ==
  \/ /\ parts[0] = Slice(b, 4, 0)
     /\ parts[1] = nil /\ parts[2] = nil /\ parts[3] = nil
  \/ /\ parts[0] = Slice(b, 2, 0) /\ parts[2] = Slice(b, 2, 2)
     /\ parts[1] = nil /\ parts[3] = nil
  \/ /\ parts[0] = Slice(b, 1, 0) /\ parts[1] = Slice(b, 1, 1)
     /\ parts[2] = Slice(b, 2, 2) /\ parts[3] = nil

\* The access to all of a register.
Whole == <<4, 0>>

\* The four bytes.
LEMMA Positions == Pos = {0, 1, 2, 3}
BY DEF Pos, GREGSIZE

\* Two values with the same bytes are equal.
LEMMA SameBytes ==
  ASSUME NEW v \in Expr, NEW w \in Expr,
         v[0] = w[0], v[1] = w[1], v[2] = w[2], v[3] = w[3]
  PROVE  v = w
BY Positions DEF Expr

\* The operations of the expressions make values.
LEMMA Values ==
  ASSUME NEW v \in Expr, NEW n \in 0 .. 4
  PROVE  /\ Lsr(v, n) \in Expr
         /\ And(v, n) \in Expr
BY Positions DEF Expr, Lsr, And

\* The bytes of a slice.
LEMMA Slices ==
  ASSUME NEW v \in Expr, NEW size \in 0 .. 4, NEW pos \in 0 .. 3
  PROVE  /\ Slice(v, size, pos) \in Expr
         /\ \A i \in 0 .. 3 : Slice(v, size, pos)[i] =
              IF i < size /\ i + pos <= 3 THEN v[i + pos] ELSE {}
<1>1. Lsr(v, pos) \in Expr /\ Slice(v, size, pos) \in Expr
  BY Values DEF Slice
<1>2. ASSUME NEW i \in 0 .. 3
      PROVE  Slice(v, size, pos)[i] = IF i < size /\ i + pos <= 3 THEN v[i + pos] ELSE {}
  BY Positions DEF Slice, And, Lsr
<1> QED
  BY <1>1, <1>2

\* No slice is nil.
LEMMA NotNil ==
  ASSUME NEW v \in Expr, NEW size \in 0 .. 4, NEW pos \in 0 .. 3
  PROVE  Slice(v, size, pos) # nil
BY Slices, NilAssumption

\* A slice of the low bytes of a slice, or of its next ones.
LEMMA SliceOfSlice ==
  ASSUME NEW v \in Expr, NEW size \in 0 .. 4, NEW pos \in 0 .. 3,
         NEW n \in 0 .. 4, NEW k \in 0 .. 3, k + n <= size, pos + k <= 3
  PROVE  And(Lsr(Slice(v, size, pos), k), n) = Slice(v, n, pos + k)
<1> DEFINE s == Slice(v, size, pos)
           x == Slice(s, n, k)
           y == Slice(v, n, pos + k)
<1>1. s \in Expr /\ x \in Expr /\ y \in Expr
  BY Slices
<1>2. ASSUME NEW i \in 0 .. 3
      PROVE  x[i] = y[i]
  <2>1. x[i] = IF i < n /\ i + k <= 3 THEN s[i + k] ELSE {}
    BY <1>1, Slices
  <2>0. pos + k \in 0 .. 3
    OBVIOUS
  <2>2. y[i] = IF i < n /\ i + (pos + k) <= 3 THEN v[i + (pos + k)] ELSE {}
    <3> DEFINE p == pos + k
    <3>1. p \in 0 .. 3
      BY <2>0
    <3> HIDE DEF p
    <3>2. Slice(v, n, p)[i] = IF i < n /\ i + p <= 3 THEN v[i + p] ELSE {}
      BY <3>1, Slices
    <3> QED
      BY <3>2 DEF p
  <2>3. CASE i < n /\ i + k <= 3
    <3>1. s[i + k] = IF i + k < size /\ (i + k) + pos <= 3 THEN v[(i + k) + pos] ELSE {}
      <4> DEFINE j == i + k
      <4>1. j \in 0 .. 3
        BY <2>3
      <4> HIDE DEF j
      <4>2. s[j] = IF j < size /\ j + pos <= 3 THEN v[j + pos] ELSE {}
        BY <4>1, Slices
      <4> QED
        BY <4>2 DEF j
    <3>2. i + k < size /\ (i + k) + pos = i + (pos + k)
      BY <2>3
    <3>3. s[i + k] = IF i + (pos + k) <= 3 THEN v[i + (pos + k)] ELSE {}
      BY <3>1, <3>2
    <3> QED
      BY <2>1, <2>2, <2>3, <3>2, <3>3
  <2>4. CASE ~ (i < n /\ i + k <= 3)
    <3>1. ~ (i < n /\ i + (pos + k) <= 3)
      BY <2>4
    <3> QED
      BY <2>1, <2>2, <2>4, <3>1
  <2> QED
    BY <2>3, <2>4
<1>3. x[0] = y[0] /\ x[1] = y[1] /\ x[2] = y[2] /\ x[3] = y[3]
  BY <1>2
<1>4. x = y
  <2> HIDE DEF x, y
  <2> QED
    BY <1>1, <1>3, SameBytes
<1> QED
  BY <1>4 DEF Slice

\* The low bytes of a slice.
LEMMA Low ==
  ASSUME NEW v \in Expr, NEW size \in 0 .. 4, NEW n \in 0 .. size
  PROVE  And(Slice(v, size, 0), n) = Slice(v, n, 0)
<1> DEFINE s == Slice(v, size, 0)
           x == And(s, n)
           y == Slice(v, n, 0)
<1>1. n \in 0 .. 4
  OBVIOUS
<1>2. s \in Expr /\ x \in Expr /\ y \in Expr
  BY <1>1, Slices, Values
<1>3. ASSUME NEW i \in 0 .. 3
      PROVE  x[i] = y[i]
  <2>1. x[i] = IF i < n THEN s[i] ELSE {}
    BY Positions DEF And
  <2>2. s[i] = IF i < size THEN v[i] ELSE {}
    BY Positions DEF Slice, And, Lsr
  <2>3. y[i] = IF i < n THEN v[i] ELSE {}
    BY Positions DEF Slice, And, Lsr
  <2> QED
    BY <2>1, <2>2, <2>3
<1>4. x[0] = y[0] /\ x[1] = y[1] /\ x[2] = y[2] /\ x[3] = y[3]
  BY <1>3
<1> QED
  <2> HIDE DEF x, y
  <2>1. x = y
    BY <1>2, <1>4, SameBytes
  <2> QED
    BY <2>1 DEF x, y

-----------------------------------------------------------------------------
(* A register in parts.                                                    *)

\* The positions that the code computes.
LEMMA Halves ==
  /\ BitOr(0, 4) % 4 = 0 /\ BitOr(0, 2) % 4 = 2 /\ BitOr(0, 1) % 4 = 1
  /\ BitOr(1, 1) % 4 = 1 /\ BitOr(2, 2) % 4 = 2
  /\ BitOr(0, 4 \div 2) = 2 /\ BitOr(0, 2 \div 2) = 1 /\ BitOr(2, 2 \div 2) = 3
  /\ ClearLow(1) = 0 /\ ClearLow(2) = 0 /\ ClearLow(3) = 2
BY DEF BitOr, OddHalf, ClearLow

\* A concatenation of the parts of the low half, or of the whole register.
LEMMA Concatenation ==
  ASSUME NEW parts \in Parts, NEW b \in Expr, Holds(parts, b),
         NEW size \in {2, 4}, parts[1] # nil \/ (size = 4 /\ parts[2] # nil)
  PROVE  Concat(parts, size, 0) = Slice(b, size, 0)
<1> DEFINE c == Concat(parts, size, 0)
<1>1. /\ parts[0] \in Expr /\ parts[3] = nil /\ parts[2] # nil
      /\ parts[1] # nil => parts[1] \in Expr
      /\ parts[2] \in Expr
  BY NotNil, Positions DEF Holds, Parts
<1>2. ASSUME NEW i \in 0 .. 3, NEW x
      PROVE  x \in c[i] <=> \/ x \in parts[0][i]
                            \/ parts[1] # nil /\ 1 <= i /\ x \in parts[1][i - 1]
                            \/ size = 4 /\ 2 <= i /\ x \in parts[2][i - 2]
  <2>1. c[i] = parts[0][i] \union
                 UNION {parts[k][i - k] :
                          k \in {j \in 1 .. size - 1 : parts[0 + j] # nil /\ j <= i}}
    BY Positions DEF Concat
  <2>2. x \in c[i] <=> \/ x \in parts[0][i]
                       \/ \E k \in 1 .. size - 1 : /\ parts[0 + k] # nil /\ k <= i
                                                   /\ x \in parts[k][i - k]
    BY <2>1
  <2>3. \A k \in 1 .. size - 1 : 0 + k = k /\ (k = 1 \/ (size = 4 /\ (k = 2 \/ k = 3)))
    OBVIOUS
  <2> QED
    BY <2>2, <2>3, <1>1
<1> HIDE DEF c
<1>4. /\ c[0] = parts[0][0]
      /\ c[1] = parts[0][1] \union (IF parts[1] # nil THEN parts[1][0] ELSE {})
      /\ c[2] = (parts[0][2] \union (IF parts[1] # nil THEN parts[1][1] ELSE {}))
                            \union (IF size = 4 THEN parts[2][0] ELSE {})
      /\ c[3] = (parts[0][3] \union (IF parts[1] # nil THEN parts[1][2] ELSE {}))
                            \union (IF size = 4 THEN parts[2][1] ELSE {})
  <2>1. \A x : x \in c[0] <=> x \in parts[0][0]
    BY <1>2
  <2>2. \A x : x \in c[1] <=> x \in parts[0][1] \/ (parts[1] # nil /\ x \in parts[1][0])
    <3>1. 1 - 1 = 0 /\ 1 <= 1 /\ ~ (2 <= 1) /\ 1 \in 0 .. 3
      OBVIOUS
    <3> QED
      BY <1>2, <3>1
  <2>3. \A x : x \in c[2] <=> \/ x \in parts[0][2] \/ (parts[1] # nil /\ x \in parts[1][1])
                             \/ (size = 4 /\ x \in parts[2][0])
    <3>1. 2 - 1 = 1 /\ 2 - 2 = 0 /\ 1 <= 2 /\ 2 <= 2 /\ 2 \in 0 .. 3
      OBVIOUS
    <3> QED
      BY <1>2, <3>1
  <2>4. \A x : x \in c[3] <=> \/ x \in parts[0][3] \/ (parts[1] # nil /\ x \in parts[1][2])
                             \/ (size = 4 /\ x \in parts[2][1])
    <3>1. 3 - 1 = 2 /\ 3 - 2 = 1 /\ 1 <= 3 /\ 2 <= 3 /\ 3 \in 0 .. 3
      OBVIOUS
    <3> QED
      BY <1>2, <3>1
  <2>5. c[0] = parts[0][0]
    BY <2>1
  <2>6. c[1] = parts[0][1] \union (IF parts[1] # nil THEN parts[1][0] ELSE {})
    BY <2>2
  <2>7. c[2] = (parts[0][2] \union (IF parts[1] # nil THEN parts[1][1] ELSE {}))
                            \union (IF size = 4 THEN parts[2][0] ELSE {})
    BY <2>3
  <2>8. c[3] = (parts[0][3] \union (IF parts[1] # nil THEN parts[1][2] ELSE {}))
                            \union (IF size = 4 THEN parts[2][1] ELSE {})
    BY <2>4
  <2> QED
    BY <2>5, <2>6, <2>7, <2>8
<1>5. /\ Slice(b, 2, 2)[0] = b[2] /\ Slice(b, 2, 2)[1] = b[3]
      /\ Slice(b, 2, 0)[0] = b[0] /\ Slice(b, 2, 0)[1] = b[1]
      /\ Slice(b, 2, 0)[2] = {} /\ Slice(b, 2, 0)[3] = {}
  BY Slices
<1>6. /\ Slice(b, 1, 0)[0] = b[0] /\ Slice(b, 1, 0)[1] = {}
      /\ Slice(b, 1, 0)[2] = {} /\ Slice(b, 1, 0)[3] = {}
      /\ Slice(b, 1, 1)[0] = b[1] /\ Slice(b, 1, 1)[1] = {} /\ Slice(b, 1, 1)[2] = {}
  BY Slices
<1>7. /\ Slice(b, 4, 0)[0] = b[0] /\ Slice(b, 4, 0)[1] = b[1]
      /\ Slice(b, 4, 0)[2] = b[2] /\ Slice(b, 4, 0)[3] = b[3]
  BY Slices
<1>8. /\ c[0] = Slice(b, size, 0)[0] /\ c[1] = Slice(b, size, 0)[1]
      /\ c[2] = Slice(b, size, 0)[2] /\ c[3] = Slice(b, size, 0)[3]
  <2>1. parts[2] = Slice(b, 2, 2)
    BY <1>1, NotNil DEF Holds
  <2>2. CASE parts[1] = nil
    <3>1. parts[0] = Slice(b, 2, 0) /\ size = 4
      BY <1>1, <2>2, NotNil DEF Holds
    <3> QED
      BY <1>4, <1>5, <1>7, <2>1, <2>2, <3>1
  <2>3. CASE parts[1] # nil
    <3>1. parts[0] = Slice(b, 1, 0) /\ parts[1] = Slice(b, 1, 1)
      BY <1>1, <2>3, NotNil DEF Holds
    <3>2. /\ c[0] = b[0] /\ c[1] = b[1]
          /\ c[2] = IF size = 4 THEN b[2] ELSE {}
          /\ c[3] = IF size = 4 THEN b[3] ELSE {}
      BY <1>4, <1>5, <1>6, <2>1, <2>3, <3>1
    <3> QED
      BY <1>5, <1>7, <3>2
  <2> QED
    BY <2>2, <2>3
<1>9. c \in Expr
  <2>1. c = [i \in Pos |-> c[i]]
    BY DEF c, Concat
  <2>2. \A i \in Pos : c[i] \in SUBSET Symbol
    <3>1. \A i \in 0 .. 3 : Slice(b, size, 0)[i] \in SUBSET Symbol
      BY Slices, Positions DEF Expr
    <3> QED
      BY <1>8, <3>1, Positions
  <2> QED
    BY <2>1, <2>2 DEF Expr
<1>10. c = Slice(b, size, 0)
  BY <1>8, <1>9, Slices, SameBytes
<1> QED
  BY <1>10 DEF c

\* Reading any range that is accessed, or that a write cuts off, gives the
\* bytes of the register there.
THEOREM ReadExact ==
  ASSUME NEW parts \in Parts, NEW b \in Expr, Holds(parts, b),
         NEW a \in Access \union {<<2, 2>>}
  PROVE  eregread(parts, a[1], a[2]) = Slice(b, a[1], a[2])
<1>1. CASE a = <<4, 0>>
  <2>1. BitOr(0, 4) % GREGSIZE = 0 /\ BitOr(0, 4 \div 2) = 2
    BY Halves DEF GREGSIZE
  <2>2. parts[0] # nil
    BY NotNil DEF Holds
  <2>3. CASE parts[2] = nil
    <3>1. parts[0] = Slice(b, 4, 0)
      BY <2>3, NotNil DEF Holds
    <3> QED
      BY <1>1, <2>1, <2>2, <2>3, <3>1 DEF eregread
  <2>4. CASE parts[2] # nil
    <3>1. Concat(parts, 4, 0) = Slice(b, 4, 0)
      BY <2>4, Concatenation
    <3> QED
      BY <1>1, <2>1, <2>2, <2>4, <3>1 DEF eregread
  <2> QED
    BY <2>3, <2>4
<1>2. CASE a = <<2, 0>>
  <2>1. BitOr(0, 2) % GREGSIZE = 2 /\ BitOr(0, 2 \div 2) = 1
    BY Halves DEF GREGSIZE
  <2>2. parts[0] # nil
    BY NotNil DEF Holds
  <2>3. CASE parts[2] = nil
    <3>1. parts[0] = Slice(b, 4, 0)
      BY <2>3, NotNil DEF Holds
    <3>2. eregread(parts, 2, 0) = And(parts[0], 2)
      BY <2>1, <2>2, <2>3 DEF eregread
    <3>3. And(Slice(b, 4, 0), 2) = Slice(b, 2, 0)
      BY Low
    <3> QED
      BY <1>2, <3>1, <3>2, <3>3
  <2>4. CASE parts[2] # nil /\ parts[1] = nil
    <3>1. parts[0] = Slice(b, 2, 0)
      BY <2>4, NotNil DEF Holds
    <3> QED
      BY <1>2, <2>1, <2>2, <2>4, <3>1 DEF eregread
  <2>5. CASE parts[2] # nil /\ parts[1] # nil
    <3>1. Concat(parts, 2, 0) = Slice(b, 2, 0)
      BY <2>5, Concatenation
    <3> QED
      BY <1>2, <2>1, <2>2, <2>5, <3>1 DEF eregread
  <2> QED
    BY <2>3, <2>4, <2>5
<1>3. CASE a = <<1, 0>>
  <2>1. BitOr(0, 1) % GREGSIZE = 1
    BY Halves DEF GREGSIZE
  <2>2. parts[0] # nil
    BY NotNil DEF Holds
  <2>3. CASE parts[1] # nil
    <3>1. parts[0] = Slice(b, 1, 0)
      BY <2>3, NotNil DEF Holds
    <3> QED
      BY <1>3, <2>1, <2>2, <2>3, <3>1 DEF eregread
  <2>4. CASE parts[1] = nil
    <3>1. eregread(parts, 1, 0) = And(parts[0], 1)
      BY <2>1, <2>2, <2>4 DEF eregread
    <3>2. parts[0] = Slice(b, 4, 0) \/ parts[0] = Slice(b, 2, 0)
      BY <2>4, NotNil DEF Holds
    <3>3. And(Slice(b, 4, 0), 1) = Slice(b, 1, 0) /\ And(Slice(b, 2, 0), 1) = Slice(b, 1, 0)
      BY Low
    <3> QED
      BY <1>3, <3>1, <3>2, <3>3
  <2> QED
    BY <2>3, <2>4
<1>4. CASE a = <<1, 1>>
  <2>1. BitOr(1, 1) % GREGSIZE = 1 /\ ClearLow(1) = 0
    BY Halves DEF GREGSIZE
  <2>2. parts[0] # nil
    BY NotNil DEF Holds
  <2>3. CASE parts[1] # nil
    <3>1. parts[1] = Slice(b, 1, 1)
      BY <2>3, NotNil DEF Holds
    <3> QED
      BY <1>4, <2>1, <2>3, <3>1 DEF eregread
  <2>4. CASE parts[1] = nil
    <3>1. eregread(parts, 1, 1) = And(Lsr(parts[0], 1), 1)
      BY <2>1, <2>2, <2>4 DEF eregread, Source
    <3>2. parts[0] = Slice(b, 4, 0) \/ parts[0] = Slice(b, 2, 0)
      BY <2>4, NotNil DEF Holds
    <3>3. And(Lsr(Slice(b, 4, 0), 1), 1) = Slice(b, 1, 1)
      BY SliceOfSlice
    <3>4. And(Lsr(Slice(b, 2, 0), 1), 1) = Slice(b, 1, 1)
      BY SliceOfSlice
    <3> QED
      BY <1>4, <3>1, <3>2, <3>3, <3>4
  <2> QED
    BY <2>3, <2>4
<1>5. CASE a = <<2, 2>>
  <2>1. BitOr(2, 2) % GREGSIZE = 2 /\ BitOr(2, 2 \div 2) = 3 /\ ClearLow(2) = 0
    BY Halves DEF GREGSIZE
  <2>2. parts[0] # nil
    BY NotNil DEF Holds
  <2>3. CASE parts[2] # nil
    <3>1. parts[2] = Slice(b, 2, 2) /\ parts[3] = nil
      BY <2>3, NotNil DEF Holds
    <3> QED
      BY <1>5, <2>1, <2>3, <3>1 DEF eregread
  <2>4. CASE parts[2] = nil
    <3>1. eregread(parts, 2, 2) = And(Lsr(parts[0], 2), 2)
      BY <2>1, <2>2, <2>4 DEF eregread, Source
    <3>2. parts[0] = Slice(b, 4, 0)
      BY <2>4, NotNil DEF Holds
    <3>3. And(Lsr(Slice(b, 4, 0), 2), 2) = Slice(b, 2, 2)
      BY SliceOfSlice
    <3> QED
      BY <1>5, <3>1, <3>2, <3>3
  <2> QED
    BY <2>3, <2>4
<1> QED
  BY <1>1, <1>2, <1>3, <1>4, <1>5 DEF Access

\* The rounds of a write, and what each of them cuts.
LEMMA Cuts ==
  /\ Ipos(0, 1) = 0 /\ Ipos(0, 2) = 0 /\ Ipos(0, 4) = 0
  /\ Ipos(1, 1) = 1 /\ Ipos(1, 2) = 0 /\ Ipos(1, 4) = 0
  /\ Cpos(0, 1) = 1 /\ Cpos(0, 2) = 2 /\ Cpos(0, 4) = 0
  /\ Cpos(1, 1) = 0 /\ Cpos(1, 2) = 2 /\ Cpos(1, 4) = 0
BY DEF Ipos, Cpos, BitXor, OddHalf, GREGSIZE

LEMMA RoundsOfWrites ==
  ASSUME NEW parts, parts[0] # nil, parts[1] # nil => parts[2] # nil
  PROVE  /\ Rounds(parts, 4, 0) = {}
         /\ Rounds(parts, 2, 0) = IF parts[2] = nil THEN {2} ELSE {}
         /\ \A pos \in {0, 1} :
              Rounds(parts, 1, pos) = IF parts[2] = nil THEN {1, 2}
                                      ELSE IF parts[1] = nil THEN {1} ELSE {}
<1>1. ~ Cut(parts, 0, 4) /\ ~ Cut(parts, 1, 4)
  BY Cuts DEF Cut
<1>2. (Cut(parts, 0, 2) <=> parts[2] = nil) /\ (Cut(parts, 1, 2) <=> parts[2] = nil)
  BY Cuts DEF Cut
<1>3. (Cut(parts, 0, 1) <=> parts[1] = nil) /\ (Cut(parts, 1, 1) <=> parts[1] = nil)
  BY Cuts DEF Cut
<1>4. Rounds(parts, 4, 0) = {}
  BY <1>1 DEF Rounds
<1>5. Rounds(parts, 2, 0) = IF parts[2] = nil THEN {2} ELSE {}
  BY <1>1, <1>2 DEF Rounds
<1>6. ASSUME NEW pos \in {0, 1}
      PROVE  Rounds(parts, 1, pos) = IF parts[2] = nil THEN {1, 2}
                                     ELSE IF parts[1] = nil THEN {1} ELSE {}
  <2>1. ~ Cut(parts, pos, 4) /\ (Cut(parts, pos, 2) <=> parts[2] = nil)
        /\ (Cut(parts, pos, 1) <=> parts[1] = nil)
    BY <1>1, <1>2, <1>3
  <2>2. 1 \in Rounds(parts, 1, pos) <=> Cut(parts, pos, 1)
    BY DEF Rounds
  <2>3. 2 \in Rounds(parts, 1, pos) <=> Cut(parts, pos, 1) /\ Cut(parts, pos, 2)
    BY DEF Rounds
  <2>4. 4 \notin Rounds(parts, 1, pos)
    BY <2>1 DEF Rounds
  <2>5. Rounds(parts, 1, pos) \subseteq {1, 2, 4}
    BY DEF Rounds
  <2> QED
    BY <2>1, <2>2, <2>3, <2>4, <2>5
<1> QED
  BY <1>4, <1>5, <1>6

\* What is around the range that is written is kept, in parts of its own.
LEMMA RestExact ==
  ASSUME NEW parts \in Parts, NEW b \in Expr, Holds(parts, b)
  PROVE  /\ \A a \in Access \ {Whole} : /\ Rest(parts, a[1], a[2])[2] = Slice(b, 2, 2)
                                        /\ Rest(parts, a[1], a[2])[3] = nil
         /\ Rest(parts, 1, 0)[1] = Slice(b, 1, 1)
         /\ Rest(parts, 1, 1)[0] = Slice(b, 1, 0)
<1>1. parts[0] # nil /\ parts[3] = nil /\ (parts[1] # nil => parts[2] # nil)
  BY NotNil DEF Holds
<1>2. /\ parts[2] # nil => parts[2] = Slice(b, 2, 2)
      /\ parts[1] # nil => parts[1] = Slice(b, 1, 1) /\ parts[0] = Slice(b, 1, 0)
  BY NotNil DEF Holds
<1>3. /\ eregread(parts, 2, 2) = Slice(b, 2, 2)
      /\ eregread(parts, 1, 1) = Slice(b, 1, 1)
      /\ eregread(parts, 1, 0) = Slice(b, 1, 0)
  <2>1. <<2, 2>>[1] = 2 /\ <<2, 2>>[2] = 2 /\ <<1, 1>>[1] = 1 /\ <<1, 1>>[2] = 1
        /\ <<1, 0>>[1] = 1 /\ <<1, 0>>[2] = 0
    OBVIOUS
  <2>2. {<<2, 2>>, <<1, 1>>, <<1, 0>>} \subseteq Access \union {<<2, 2>>}
    BY DEF Access
  <2> QED
    BY <2>1, <2>2, ReadExact
<1>4. ASSUME NEW size, NEW pos, NEW i \in 0 .. 3, NEW t,
             {r \in Rounds(parts, size, pos) : Cpos(pos, r) = i} = {t}
      PROVE  Rest(parts, size, pos)[i] = eregread(parts, t, i)
  BY <1>4, Positions DEF Rest
<1>5. ASSUME NEW size, NEW pos, NEW i \in 0 .. 3,
             {r \in Rounds(parts, size, pos) : Cpos(pos, r) = i} = {}
      PROVE  Rest(parts, size, pos)[i] = parts[i]
  BY <1>5, Positions DEF Rest
<1>6. Rest(parts, 2, 0)[2] = Slice(b, 2, 2) /\ Rest(parts, 2, 0)[3] = nil
  <2>1. Rounds(parts, 2, 0) = IF parts[2] = nil THEN {2} ELSE {}
    BY <1>1, RoundsOfWrites
  <2>2. {r \in Rounds(parts, 2, 0) : Cpos(0, r) = 2} = Rounds(parts, 2, 0)
    BY <2>1, Cuts
  <2>3. {r \in Rounds(parts, 2, 0) : Cpos(0, r) = 3} = {}
    BY <2>1, Cuts
  <2>4. Rest(parts, 2, 0)[3] = nil
    BY <1>1, <1>5, <2>3
  <2>5. CASE parts[2] = nil
    BY <1>3, <1>4, <2>1, <2>2, <2>4, <2>5
  <2>6. CASE parts[2] # nil
    BY <1>2, <1>5, <2>1, <2>2, <2>4, <2>6
  <2> QED
    BY <2>5, <2>6
<1>7. ASSUME NEW pos \in {0, 1}
      PROVE  /\ Rest(parts, 1, pos)[2] = Slice(b, 2, 2) /\ Rest(parts, 1, pos)[3] = nil
             /\ Rest(parts, 1, pos)[1 - pos] = Slice(b, 1, 1 - pos)
  <2>1. Rounds(parts, 1, pos) = IF parts[2] = nil THEN {1, 2}
                                ELSE IF parts[1] = nil THEN {1} ELSE {}
    BY <1>1, RoundsOfWrites
  <2>2. Cpos(pos, 1) = 1 - pos /\ Cpos(pos, 2) = 2 /\ 1 - pos \in {0, 1}
    BY Cuts
  <2>3. {r \in Rounds(parts, 1, pos) : Cpos(pos, r) = 3} = {}
    BY <2>1, <2>2
  <2>4. Rest(parts, 1, pos)[3] = nil
    BY <1>1, <1>5, <2>3
  <2>5. Rest(parts, 1, pos)[2] = Slice(b, 2, 2)
    <3>1. CASE parts[2] = nil
      <4>1. {r \in Rounds(parts, 1, pos) : Cpos(pos, r) = 2} = {2}
        BY <2>1, <2>2, <3>1
      <4> QED
        BY <4>1, <1>3, <1>4
    <3>2. CASE parts[2] # nil
      <4>1. {r \in Rounds(parts, 1, pos) : Cpos(pos, r) = 2} = {}
        BY <2>1, <2>2, <3>2
      <4> QED
        BY <4>1, <1>2, <1>5, <3>2
    <3> QED
      BY <3>1, <3>2
  <2>6. Rest(parts, 1, pos)[1 - pos] = Slice(b, 1, 1 - pos)
    <3>1. CASE parts[1] = nil
      <4>1. {r \in Rounds(parts, 1, pos) : Cpos(pos, r) = 1 - pos} = {1}
        BY <2>1, <2>2, <3>1
      <4>2. Rest(parts, 1, pos)[1 - pos] = eregread(parts, 1, 1 - pos)
        BY <4>1, <2>2, <1>4
      <4> QED
        BY <4>2, <1>3
    <3>2. CASE parts[1] # nil
      <4>1. {r \in Rounds(parts, 1, pos) : Cpos(pos, r) = 1 - pos} = {}
        BY <1>1, <2>1, <2>2, <3>2
      <4>2. Rest(parts, 1, pos)[1 - pos] = parts[1 - pos]
        BY <4>1, <2>2, <1>5
      <4> QED
        BY <4>2, <1>2, <3>2
    <3> QED
      BY <3>1, <3>2
  <2> QED
    BY <2>4, <2>5, <2>6
<1>8. Rest(parts, 1, 0)[1] = Slice(b, 1, 1) /\ Rest(parts, 1, 1)[0] = Slice(b, 1, 0)
  BY <1>7
<1>9. ASSUME NEW a \in Access \ {Whole}
      PROVE  /\ Rest(parts, a[1], a[2])[2] = Slice(b, 2, 2)
             /\ Rest(parts, a[1], a[2])[3] = nil
  <2>1. a = <<2, 0>> \/ a = <<1, 0>> \/ a = <<1, 1>>
    BY DEF Access, Whole
  <2>2. CASE a = <<2, 0>>
    BY <2>2, <1>6
  <2>3. CASE a = <<1, 0>>
    BY <2>3, <1>7
  <2>4. CASE a = <<1, 1>>
    BY <2>4, <1>7
  <2> QED
    BY <2>1, <2>2, <2>3, <2>4
<1> QED
  BY <1>8, <1>9

\* The slices of a register of which a range is overwritten.
LEMMA Overwritten ==
  ASSUME NEW b \in Expr, NEW a \in Access, NEW v \in Expr, And(v, a[1]) = v
  PROVE  LET w == Overwrite(b, a[1], a[2], v) IN
         /\ w \in Expr
         /\ Slice(w, a[1], a[2]) = v
         /\ a # Whole => Slice(w, 2, 2) = Slice(b, 2, 2)
         /\ a = <<1, 0>> => Slice(w, 1, 1) = Slice(b, 1, 1)
         /\ a = <<1, 1>> => Slice(w, 1, 0) = Slice(b, 1, 0)
<1> DEFINE size == a[1]
           pos == a[2]
           w == Overwrite(b, size, pos, v)
<1>1. /\ size \in 1 .. 4 /\ pos \in 0 .. 1 /\ size + pos <= 4
      /\ a # Whole => size + pos <= 2
      /\ a = <<1, 0>> => size = 1 /\ pos = 0
      /\ a = <<1, 1>> => size = 1 /\ pos = 1
  BY DEF Access, Whole
<1> HIDE DEF size, pos
<1>2. ASSUME NEW i \in 0 .. 3
      PROVE  /\ w[i] = IF pos <= i /\ i < pos + size THEN v[i - pos] ELSE b[i]
             /\ w[i] \in SUBSET Symbol
  <2>1. w[i] = IF i \in pos .. pos + size - 1 THEN v[i - pos] ELSE b[i]
    BY Positions DEF Overwrite
  <2>2. i \in pos .. pos + size - 1 <=> pos <= i /\ i < pos + size
    BY <1>1
  <2>3. i \in pos .. pos + size - 1 => i - pos \in Pos
    BY <1>1, <2>2, Positions
  <2> QED
    BY <2>1, <2>2, <2>3, Positions DEF Expr
<1>3. w \in Expr
  <2>1. w = [i \in Pos |-> w[i]]
    BY DEF Overwrite
  <2> QED
    BY <1>2, <2>1, Positions DEF Expr
<1>4. Slice(w, size, pos) = v
  <2>1. Slice(w, size, pos) \in Expr
    BY <1>1, <1>3, Slices
  <2>2. ASSUME NEW i \in 0 .. 3
        PROVE  Slice(w, size, pos)[i] = v[i]
    <3>1. Slice(w, size, pos)[i] = IF i < size /\ i + pos <= 3 THEN w[i + pos] ELSE {}
      <4>1. size \in 0 .. 4 /\ pos \in 0 .. 3
        BY <1>1
      <4> HIDE DEF w
      <4> QED
        BY <4>1, <1>3, Slices
    <3>2. v[i] = IF i < size THEN v[i] ELSE {}
      <4>1. And(v, size)[i] = IF i < size THEN v[i] ELSE {}
        BY Positions DEF And
      <4> QED
        BY <4>1 DEF size
    <3>3. CASE i < size
      <4> DEFINE j == i + pos
      <4>1. j \in 0 .. 3 /\ pos <= j /\ j < pos + size /\ j - pos = i
        BY <1>1, <3>3
      <4> HIDE DEF j, w
      <4>2. w[j] = v[i]
        BY <1>2, <4>1
      <4> QED
        BY <3>1, <3>3, <4>1, <4>2 DEF j
    <3>4. CASE ~ (i < size)
      BY <3>1, <3>2, <3>4
    <3> QED
      BY <3>3, <3>4
  <2>3. /\ Slice(w, size, pos)[0] = v[0] /\ Slice(w, size, pos)[1] = v[1]
        /\ Slice(w, size, pos)[2] = v[2] /\ Slice(w, size, pos)[3] = v[3]
    BY <2>2
  <2> HIDE DEF w
  <2> QED
    BY <2>1, <2>3, SameBytes
<1>5. ASSUME NEW n \in 1 .. 2, NEW p \in 0 .. 2, n + p <= 4,
             \A k \in 0 .. 3 : p <= k /\ k < p + n => w[k] = b[k]
      PROVE  Slice(w, n, p) = Slice(b, n, p)
  <2>1. Slice(w, n, p) \in Expr /\ Slice(b, n, p) \in Expr
    BY <1>3, Slices
  <2>2. ASSUME NEW i \in 0 .. 3
        PROVE  Slice(w, n, p)[i] = Slice(b, n, p)[i]
    <3> DEFINE j == i + p
    <3> HIDE DEF j, w
    <3>0. n \in 0 .. 4 /\ p \in 0 .. 3
      OBVIOUS
    <3>1. Slice(w, n, p)[i] = IF i < n /\ j <= 3 THEN w[j] ELSE {}
      <4>1. Slice(w, n, p)[i] = IF i < n /\ i + p <= 3 THEN w[i + p] ELSE {}
        BY <3>0, <1>3, Slices
      <4> QED
        BY <4>1 DEF j
    <3>2. Slice(b, n, p)[i] = IF i < n /\ j <= 3 THEN b[j] ELSE {}
      <4>1. Slice(b, n, p)[i] = IF i < n /\ i + p <= 3 THEN b[i + p] ELSE {}
        BY <3>0, Slices
      <4> QED
        BY <4>1 DEF j
    <3>3. i < n /\ j <= 3 => j \in 0 .. 3 /\ p <= j /\ j < p + n
      BY DEF j
    <3>4. i < n /\ j <= 3 => w[j] = b[j]
      BY <3>3, <1>5
    <3> QED
      BY <3>1, <3>2, <3>4
  <2>3. /\ Slice(w, n, p)[0] = Slice(b, n, p)[0] /\ Slice(w, n, p)[1] = Slice(b, n, p)[1]
        /\ Slice(w, n, p)[2] = Slice(b, n, p)[2] /\ Slice(w, n, p)[3] = Slice(b, n, p)[3]
    BY <2>2
  <2> HIDE DEF w
  <2> QED
    BY <2>1, <2>3, SameBytes
<1>6. a # Whole => Slice(w, 2, 2) = Slice(b, 2, 2)
  <2>1. ASSUME a # Whole, NEW k \in 0 .. 3, 2 <= k
        PROVE  w[k] = b[k]
    BY <1>1, <1>2, <2>1
  <2> HIDE DEF w
  <2> QED
    BY <1>5, <2>1
<1>7. a = <<1, 0>> => Slice(w, 1, 1) = Slice(b, 1, 1)
  <2>1. ASSUME a = <<1, 0>>
        PROVE  w[1] = b[1]
    BY <1>1, <1>2, <2>1
  <2>2. \A k \in 0 .. 3 : 1 <= k /\ k < 1 + 1 => k = 1
    OBVIOUS
  <2> HIDE DEF w
  <2> QED
    BY <1>5, <2>1, <2>2
<1>8. a = <<1, 1>> => Slice(w, 1, 0) = Slice(b, 1, 0)
  <2>1. ASSUME a = <<1, 1>>
        PROVE  w[0] = b[0]
    BY <1>1, <1>2, <2>1
  <2>2. \A k \in 0 .. 3 : 0 <= k /\ k < 0 + 1 => k = 0
    OBVIOUS
  <2> HIDE DEF w
  <2> QED
    BY <1>5, <2>1, <2>2
<1> QED
  BY <1>3, <1>4, <1>6, <1>7, <1>8 DEF size, pos

\* Writing a range replaces its bytes and no other: the new parts are slices
\* of the register so changed, in one of the three ways again.
THEOREM WriteExact ==
  ASSUME NEW parts \in Parts, NEW b \in Expr, Holds(parts, b),
         NEW a \in Access, NEW v \in Expr, And(v, a[1]) = v
  PROVE  /\ eregwrite(parts, a[1], a[2], v) \in Parts
         /\ Holds(eregwrite(parts, a[1], a[2], v), Overwrite(b, a[1], a[2], v))
<1> DEFINE p == eregwrite(parts, a[1], a[2], v)
           w == Overwrite(b, a[1], a[2], v)
           R(i) == Rest(parts, a[1], a[2])[i]
<1>1. /\ w \in Expr /\ Slice(w, a[1], a[2]) = v
      /\ a # Whole => Slice(w, 2, 2) = Slice(b, 2, 2)
      /\ a = <<1, 0>> => Slice(w, 1, 1) = Slice(b, 1, 1)
      /\ a = <<1, 1>> => Slice(w, 1, 0) = Slice(b, 1, 0)
  BY Overwritten
<1> HIDE DEF w
<1>2. \A i \in 0 .. 3 : p[i] = IF i = a[2] THEN v
                               ELSE IF i \in a[2] + 1 .. a[2] + a[1] - 1 THEN nil ELSE R(i)
  BY Positions DEF eregwrite
<1>3. CASE a = <<4, 0>>
  <2>1. p[0] = v /\ p[1] = nil /\ p[2] = nil /\ p[3] = nil
    BY <1>2, <1>3
  <2> QED
    <3>1. p \in Parts
      BY <2>1, Positions DEF Parts, eregwrite
    <3>2. Holds(p, w)
      BY <1>1, <1>3, <2>1 DEF Holds
    <3> QED
      BY <3>1, <3>2 DEF w
<1>4. CASE a = <<2, 0>>
  <2>1. a # Whole /\ a \in Access \ {Whole}
    BY <1>4 DEF Whole
  <2>2. R(2) = Slice(b, 2, 2) /\ R(3) = nil
    BY <2>1, RestExact
  <2>3. p[0] = v /\ p[1] = nil /\ p[2] = Slice(b, 2, 2) /\ p[3] = nil
    BY <1>2, <1>4, <2>2
  <2>4. p \in Parts
    BY <2>3, Slices, Positions DEF Parts, eregwrite
  <2>5. Holds(p, w)
    BY <1>1, <1>4, <2>1, <2>3 DEF Holds
  <2> QED
    BY <2>4, <2>5 DEF w
<1>5. CASE a = <<1, 0>>
  <2>1. a # Whole /\ a \in Access \ {Whole}
    BY <1>5 DEF Whole
  <2>2. R(2) = Slice(b, 2, 2) /\ R(3) = nil
    BY <2>1, RestExact
  <2>3. R(1) = Slice(b, 1, 1)
    BY <1>5, RestExact
  <2>4. p[0] = v /\ p[1] = Slice(b, 1, 1) /\ p[2] = Slice(b, 2, 2) /\ p[3] = nil
    BY <1>2, <1>5, <2>2, <2>3
  <2>5. p \in Parts
    BY <2>4, Slices, Positions DEF Parts, eregwrite
  <2>6. Holds(p, w)
    BY <1>1, <1>5, <2>1, <2>4 DEF Holds
  <2> QED
    BY <2>5, <2>6 DEF w
<1>6. CASE a = <<1, 1>>
  <2>1. a # Whole /\ a \in Access \ {Whole}
    BY <1>6 DEF Whole
  <2>2. R(2) = Slice(b, 2, 2) /\ R(3) = nil
    BY <2>1, RestExact
  <2>3. R(0) = Slice(b, 1, 0)
    BY <1>6, RestExact
  <2>4. p[0] = Slice(b, 1, 0) /\ p[1] = v /\ p[2] = Slice(b, 2, 2) /\ p[3] = nil
    BY <1>2, <1>6, <2>2, <2>3
  <2>5. p \in Parts
    BY <2>4, Slices, Positions DEF Parts, eregwrite
  <2>6. Holds(p, w)
    BY <1>1, <1>6, <2>1, <2>4 DEF Holds
  <2> QED
    BY <2>5, <2>6 DEF w
<1> QED
  BY <1>3, <1>4, <1>5, <1>6 DEF Access

-----------------------------------------------------------------------------
(* The invariant.                                                          *)

\* What was read is what it is meant to be, and no longer than its size.
Good(x) == x # none => x.expr = x.value /\ And(x.value, x.size) = x.value

\* The parts of the registers are slices of the bytes.
Tracked(c, b) == /\ c \in [Reg -> Parts] /\ b \in Registers
                 /\ \A r \in Reg : Holds(c[r], b[r])

\* Updates u, made at once, lead to the registers w.
Lead(u, w) == /\ w \in Registers
              /\ \A r \in Reg : w[r] = IF r \in DOMAIN u THEN u[r] ELSE Before(r)

\* The paths are executed one after the other, from the condition on.
Executed ==
  pc = "step" =>
    /\ Tracked(core, bytes)
    /\ node = "root" <=> cond = none
    /\ node = "then" => /\ Tracked(saved.core, saved.bytes)
                        /\ saved.operand \in Operand \union {none} /\ Good(saved.operand)
                        /\ saved.ops \in 0 .. MaxOps
    /\ node = "else" => Lead(updates["then"], want["then"])

Meant == Good(operand) /\ Good(cond) /\ Good(addr) /\ (jumps => cond # none)

\* The tree: what a path updates is shared between its node and the root.
Built ==
  pc # "step" =>
    /\ cond = none => Lead(updates["root"], want["root"])
    /\ cond # none => \A n \in {"then", "else"} :
         /\ DOMAIN updates[n] \intersect DOMAIN updates["root"] = {}
         /\ want[n] \in Registers
         /\ \A r \in Reg :
              want[n][r] = IF r \in DOMAIN updates[n] THEN updates[n][r]
                           ELSE IF r \in DOMAIN updates["root"] THEN updates["root"][r]
                           ELSE Before(r)

\* A temporary has the value that its expression had before the instruction.
Temporaries == \A n \in Node : \A e \in DOMAIN tmps[n] : e \in Expr /\ tmps[n][e] = e

\* The registers, while they are updated one by one.
Committed(r) ==
  IF r \in DOMAIN updates[node] \ left THEN updates[node][r]
  ELSE IF node = "root" /\ taken # "root" /\ r \in DOMAIN updates[taken]
    THEN updates[taken][r]
  ELSE Before(r)

Running ==
  /\ pc \in {"step", "emit", "test"} => /\ regs = [r \in Reg |-> Before(r)]
                                        /\ taken = "root"
  /\ pc \in {"emit", "test", "branch"} => node = "root"
  /\ pc = "test" => cond # none
  /\ pc \in {"test", "commit", "branch"} => Operands("root") \subseteq DOMAIN tmps["root"]
  /\ pc = "commit" =>
       /\ taken = "root" <=> cond = none
       /\ node # "root" => taken = node /\ Operands(node) \subseteq DOMAIN tmps[node]
       /\ left \subseteq DOMAIN updates[node]
       /\ \A r \in Reg : regs[r] = Committed(r)
  /\ pc = "branch" => regs = want[taken]

Inv == /\ TypeOK
       /\ DOMAIN updates = Node /\ DOMAIN want = Node /\ DOMAIN tmps = Node
       /\ Executed /\ Meant /\ Built /\ Temporaries /\ Running

-----------------------------------------------------------------------------
(* Reads, writes and updates.                                              *)

LEMMA Accesses ==
  ASSUME NEW a \in Access
  PROVE  a[1] \in {1, 2, 4} /\ a[1] \in 0 .. 4 /\ a[2] \in 0 .. 3
BY DEF Access

\* A slice is no longer than its size, and the longest is everything.
LEMMA SlicesCut ==
  ASSUME NEW b \in Expr
  PROVE  /\ Slice(b, 4, 0) = b
         /\ \A a \in Access : And(Slice(b, a[1], a[2]), a[1]) = Slice(b, a[1], a[2])
<1>1. Slice(b, 4, 0) = b
  <2>1. Slice(b, 4, 0) \in Expr /\ \A i \in 0 .. 3 : Slice(b, 4, 0)[i] = b[i]
    <3>1. \A i \in 0 .. 3 : Slice(b, 4, 0)[i] = IF i < 4 /\ i + 0 <= 3 THEN b[i + 0] ELSE {}
      BY Slices
    <3>2. \A i \in 0 .. 3 : i < 4 /\ i + 0 = i
      OBVIOUS
    <3> QED
      BY <3>1, <3>2, Slices
  <2> QED
    BY <2>1, SameBytes
<1>2. ASSUME NEW a \in Access
      PROVE  And(Slice(b, a[1], a[2]), a[1]) = Slice(b, a[1], a[2])
  <2> DEFINE size == a[1]
             pos == a[2]
             v == Slice(b, size, pos)
  <2>1. size \in 0 .. 4 /\ pos \in 0 .. 3
    BY Accesses
  <2> HIDE DEF size, pos
  <2>2. v \in Expr /\ And(v, size) \in Expr
    BY <2>1, Slices, Values
  <2>3. ASSUME NEW i \in 0 .. 3
        PROVE  And(v, size)[i] = v[i]
    <3>1. v[i] = IF i < size /\ i + pos <= 3 THEN b[i + pos] ELSE {}
      BY <2>1, Slices
    <3>2. And(v, size)[i] = IF i < size THEN v[i] ELSE {}
      BY Positions DEF And
    <3> QED
      BY <3>1, <3>2
  <2> HIDE DEF v
  <2>4. And(v, size) = v
    BY <2>2, <2>3, SameBytes
  <2> QED
    BY <2>4 DEF v, size, pos
<1> QED
  BY <1>1, <1>2

\* A read is good.
LEMMA ReadGood ==
  ASSUME Tracked(core, bytes), NEW r \in Reg, NEW a \in Access
  PROVE  ReadAt(r, a[1], a[2]) \in Operand /\ Good(ReadAt(r, a[1], a[2]))
<1>1. /\ core[r] \in Parts /\ bytes[r] \in Expr /\ Holds(core[r], bytes[r])
  BY DEF Tracked, Registers
<1>2. eregread(core[r], a[1], a[2]) = Slice(bytes[r], a[1], a[2])
  BY <1>1, ReadExact
<1>3. Slice(bytes[r], a[1], a[2]) \in Expr
  BY <1>1, Accesses, Slices
<1>4. And(Slice(bytes[r], a[1], a[2]), a[1]) = Slice(bytes[r], a[1], a[2])
  BY <1>1, SlicesCut
<1> QED
  BY <1>2, <1>3, <1>4, Accesses DEF ReadAt, Operand, Good

\* A write of something good keeps the parts and the bytes together.
LEMMA WriteGood ==
  ASSUME Tracked(core, bytes), NEW r \in Reg, NEW a \in Access,
         NEW x \in Operand, x.size = a[1], x.expr = x.value, And(x.value, x.size) = x.value,
         WriteAt(r, a[1], a[2], x)
  PROVE  Tracked(core', bytes')
<1>1. core[r] \in Parts /\ bytes[r] \in Expr /\ Holds(core[r], bytes[r])
  BY DEF Tracked, Registers
<1>2. x.value \in Expr /\ And(x.value, a[1]) = x.value
  BY DEF Operand
<1> DEFINE p == eregwrite(core[r], a[1], a[2], x.expr)
           w == Overwrite(bytes[r], a[1], a[2], x.value)
<1>3. p \in Parts /\ Holds(p, w)
  BY <1>1, <1>2, WriteExact
<1>4. w \in Expr
  <2>1. LET u == Overwrite(bytes[r], a[1], a[2], x.value) IN u \in Expr
    BY <1>1, <1>2, Overwritten
  <2> QED
    BY <2>1
<1>5. core' = [core EXCEPT ![r] = p] /\ bytes' = [bytes EXCEPT ![r] = w]
  BY DEF WriteAt
<1> HIDE DEF p, w
<1> QED
  BY <1>3, <1>4, <1>5 DEF Tracked, Registers

\* At first, each register has one part, its value before the instruction.
LEMMA TrackedAtFirst ==
  /\ Tracked(Reference, [r \in Reg |-> Before(r)])
  /\ \A r \in Reg : Before(r) \in Expr
<1>1. ASSUME NEW r \in Reg
      PROVE  /\ Before(r) \in Expr /\ Reference[r] \in Parts
             /\ Holds(Reference[r], Before(r))
  <2>1. Before(r) \in Expr
    BY DEF Before, Expr, Symbol
  <2>2. Reference[r] \in Parts
    BY <2>1 DEF Reference, Parts
  <2>3. /\ Reference[r][0] = Before(r) /\ Reference[r][1] = nil
        /\ Reference[r][2] = nil /\ Reference[r][3] = nil
    BY Positions DEF Reference
  <2> QED
    BY <2>1, <2>2, <2>3, SlicesCut DEF Holds
<1>2. Reference \in [Reg -> Parts] /\ [r \in Reg |-> Before(r)] \in Registers
  BY <1>1 DEF Reference, Registers
<1> QED
  BY <1>1, <1>2 DEF Tracked

\* The updates that close makes lead to the registers that the path leaves.
LEMMA UpdatesLead ==
  ASSUME Tracked(core, bytes)
  PROVE  /\ Lead(Updates, bytes)
         /\ DOMAIN Updates \subseteq Reg
         /\ \A r \in DOMAIN Updates : Updates[r] \in Expr
<1>1. ASSUME NEW r \in Reg
      PROVE  eregread(core[r], 4, 0) = bytes[r] /\ bytes[r] \in Expr
  <2>1. core[r] \in Parts /\ bytes[r] \in Expr /\ Holds(core[r], bytes[r])
    BY DEF Tracked, Registers
  <2>2. <<4, 0>> \in Access /\ <<4, 0>>[1] = 4 /\ <<4, 0>>[2] = 0
    BY DEF Access
  <2>3. eregread(core[r], 4, 0) = Slice(bytes[r], 4, 0)
    BY <2>1, <2>2, ReadExact
  <2> QED
    BY <2>1, <2>3, SlicesCut
<1>2. ASSUME NEW r \in Reg, ~ regdiff(r)
      PROVE  bytes[r] = Before(r)
  <2>1. core[r] \in Parts /\ Reference[r] \in Parts
    BY TrackedAtFirst DEF Tracked
  <2>2. \A i \in Pos : core[r][i] = Reference[r][i]
    BY <1>2 DEF regdiff
  <2>3. core[r] = Reference[r]
    BY <2>1, <2>2 DEF Parts
  <2>4. Holds(Reference[r], Before(r)) /\ Before(r) \in Expr
    BY TrackedAtFirst DEF Tracked
  <2>5. <<4, 0>> \in Access /\ <<4, 0>>[1] = 4 /\ <<4, 0>>[2] = 0
    BY DEF Access
  <2>6. eregread(Reference[r], 4, 0) = Slice(Before(r), 4, 0)
    BY <2>1, <2>4, <2>5, ReadExact
  <2> QED
    BY <1>1, <2>3, <2>4, <2>6, SlicesCut
<1>3. DOMAIN Updates = {q \in Reg : regdiff(q)}
      /\ \A r \in DOMAIN Updates : Updates[r] = eregread(core[r], 4, 0)
  BY DEF Updates
<1>4. bytes \in Registers
  BY DEF Tracked
<1> QED
  BY <1>1, <1>2, <1>3, <1>4 DEF Lead

-----------------------------------------------------------------------------
(* Expressions at run time.                                                *)

\* As long as no register is updated, an expression is worth itself.
LEMMA Unupdated ==
  ASSUME regs = [r \in Reg |-> Before(r)], NEW e \in Expr
  PROVE  Eval(e) = e
<1>1. ASSUME NEW i \in Pos
      PROVE  UNION {regs[s[1]][s[2]] : s \in e[i]} = e[i]
  <2>1. ASSUME NEW s \in e[i]
        PROVE  regs[s[1]][s[2]] = {s}
    <3>1. s \in Symbol
      BY DEF Expr
    <3>2. s[1] \in Reg /\ s[2] \in Pos /\ s = <<s[1], s[2]>>
      BY <3>1 DEF Symbol
    <3> QED
      BY <3>2 DEF Before
  <2> QED
    BY <2>1
<1> QED
  BY <1>1 DEF Eval, Expr

\* The operands of the updates and of the branch are values.
LEMMA OperandsType ==
  ASSUME TypeOK, Meant, NEW n \in Node
  PROVE  Operands(n) \subseteq Expr
<1>1. \A r \in DOMAIN updates[n] : updates[n][r] \in Expr
  BY DEF TypeOK
<1>2. Branch \subseteq Operand
  BY DEF TypeOK, Meant, Branch
<1>3. Needed \subseteq Expr
  BY <1>2 DEF Needed, Operand
<1> QED
  BY <1>1, <1>3 DEF Operands

\* The temporaries that are made before any update have the right values.
LEMMA MadeBefore ==
  ASSUME TypeOK, Meant, regs = [r \in Reg |-> Before(r)], NEW n \in Node,
         NEW known, \A e \in DOMAIN known : e \in Expr /\ known[e] = e
  PROVE  /\ Operands(n) \subseteq DOMAIN MakeTemps(n, known)
         /\ \A e \in DOMAIN MakeTemps(n, known) : e \in Expr /\ MakeTemps(n, known)[e] = e
<1>1. \A e \in Operands(n) : e \in Expr /\ Eval(e) = e
  BY OperandsType, Unupdated
<1>2. DOMAIN MakeTemps(n, known) = DOMAIN known \union Operands(n)
  BY DEF MakeTemps
<1>3. \A e \in DOMAIN MakeTemps(n, known) :
        MakeTemps(n, known)[e] = IF e \in DOMAIN known THEN known[e] ELSE Eval(e)
  BY DEF MakeTemps
<1> QED
  BY <1>1, <1>2, <1>3

-----------------------------------------------------------------------------
(* The invariant holds at first, and every action keeps it.                *)

LEMMA InvInit == Init => Inv
<1> SUFFICES ASSUME Init PROVE Inv
  OBVIOUS
<1>1. /\ core \in [Reg -> Parts] /\ bytes \in Registers /\ regs \in Registers
      /\ Tracked(core, bytes)
  BY TrackedAtFirst DEF Init, Tracked
<1>2. /\ \A n \in Node : updates[n] = nothing /\ want[n] = nothing /\ tmps[n] = nothing
      /\ DOMAIN updates = Node /\ DOMAIN want = Node /\ DOMAIN tmps = Node
      /\ DOMAIN nothing = {}
  BY DEF Init, nothing
<1>3. TypeOK
  <2>1. /\ pc = "step" /\ node \in Node /\ taken \in Node
        /\ operand = none /\ cond = none /\ addr = none /\ left = {}
    BY DEF Init, Node
  <2>2. ops \in 0 .. MaxOps
    BY MaxOpsAssumption DEF Init
  <2>3. jumps \in BOOLEAN
    BY DEF Init
  <2>4. \A n \in Node : /\ DOMAIN updates[n] \subseteq Reg
                         /\ \A r \in DOMAIN updates[n] : updates[n][r] \in Expr
    BY <1>2
  <2> QED
    BY <1>1, <1>2, <2>1, <2>2, <2>3, <2>4 DEF TypeOK
<1>4. Executed /\ Meant /\ Built /\ Temporaries /\ Running
  BY <1>1, <1>2 DEF Init, Executed, Meant, Good, Built, Temporaries, Running, Node
<1> QED
  BY <1>2, <1>3, <1>4 DEF Inv

\* Read, Write and Move.
LEMMA AccessKeepsInv ==
  ASSUME Inv, Read \/ Write \/ Move
  PROVE  Inv'
<1>1. Step /\ Tracked(core, bytes) /\ pc = "step"
  BY DEF Inv, Executed, Read, Write, Move, Step
<1>2. /\ Tracked(core', bytes')
      /\ operand' \in Operand \union {none} /\ Good(operand')
  <2>1. CASE Read
    <3>1. PICK r \in Reg, a \in Access : operand' = ReadAt(r, a[1], a[2])
      BY <2>1 DEF Read
    <3>2. ReadAt(r, a[1], a[2]) \in Operand /\ Good(ReadAt(r, a[1], a[2]))
      BY <1>1, ReadGood
    <3> QED
      BY <1>1, <2>1, <3>1, <3>2 DEF Read
  <2>2. CASE Write
    <3>1. PICK r \in Reg, a \in Access :
            a[1] = operand.size /\ WriteAt(r, a[1], a[2], operand)
      BY <2>2 DEF Write
    <3>2. operand \in Operand /\ Good(operand) /\ operand # none
      BY <2>2 DEF Write, Inv, TypeOK, Meant
    <3>3. Tracked(core', bytes')
      BY <1>1, <3>1, <3>2, WriteGood DEF Good
    <3> QED
      BY <2>2, <3>2, <3>3 DEF Write
  <2>3. CASE Move
    <3>1. PICK r \in Reg, q \in Reg, a \in Access, b \in Access :
            a[1] = b[1] /\ WriteAt(r, a[1], a[2], ReadAt(q, b[1], b[2]))
      BY <2>3 DEF Move
    <3> DEFINE x == ReadAt(q, b[1], b[2])
    <3>2. x \in Operand /\ Good(x)
      BY <1>1, ReadGood
    <3>3. x.size = a[1] /\ x # none
      BY <3>1, Accesses DEF ReadAt, none
    <3>4. WriteAt(r, a[1], a[2], x)
      BY <3>1
    <3> HIDE DEF x
    <3>5. Tracked(core', bytes')
      BY <1>1, <3>2, <3>3, <3>4, WriteGood DEF Good
    <3>6. UNCHANGED operand
      BY <2>3 DEF Move
    <3> QED
      BY <3>5, <3>6 DEF Inv, TypeOK, Meant
  <2> QED
    BY <2>1, <2>2, <2>3
<1>3. ops' \in 0 .. MaxOps
  BY <1>1, MaxOpsAssumption DEF Inv, TypeOK, Step
<1>4. /\ UNCHANGED <<pc, node, saved, cond, jumps, addr>>
      /\ UNCHANGED <<updates, want>> /\ UNCHANGED <<tmps, regs, left, taken>>
  BY <1>1 DEF Step, tree, runtime
<1>5. TypeOK'
  BY <1>2, <1>3, <1>4 DEF Inv, TypeOK, Tracked
<1>6. Executed' /\ Meant'
  BY <1>2, <1>4 DEF Inv, Executed, Meant, Lead, Good
<1>7. Built' /\ Temporaries' /\ Running'
  BY <1>1, <1>4 DEF Inv, Built, Temporaries, Running
<1> QED
  BY <1>4, <1>5, <1>6, <1>7 DEF Inv

LEMMA ConcretizeKeepsInv == ASSUME Inv, Concretize PROVE Inv'
<1>1. /\ pc = "step" /\ node = "root" /\ operand # none /\ cond = none
      /\ Tracked(core, bytes) /\ Good(operand)
  BY DEF Inv, Executed, Meant, Concretize
<1>2. ops' \in 0 .. MaxOps
  BY MaxOpsAssumption DEF Inv, TypeOK, Concretize
<1>3. /\ UNCHANGED <<pc, core, bytes, operand, addr>>
      /\ UNCHANGED <<updates, want>> /\ UNCHANGED <<tmps, regs, left, taken>>
      /\ node' = "then" /\ cond' = operand /\ jumps' \in BOOLEAN
      /\ saved' = [core |-> core, bytes |-> bytes, operand |-> operand, ops |-> ops']
  BY DEF Concretize, tree, runtime
<1>4. TypeOK'
  BY <1>2, <1>3 DEF Inv, TypeOK, Node
<1>5. Executed' /\ Meant'
  BY <1>1, <1>2, <1>3 DEF Inv, TypeOK, Executed, Meant
<1>6. Built' /\ Temporaries' /\ Running'
  BY <1>1, <1>3 DEF Inv, Built, Temporaries, Running
<1> QED
  BY <1>3, <1>4, <1>5, <1>6 DEF Inv

LEMMA SetNipKeepsInv == ASSUME Inv, SetNip PROVE Inv'
<1>1. /\ UNCHANGED <<pc, node, core, bytes, operand, ops, saved, cond, jumps>>
      /\ UNCHANGED <<updates, want>> /\ UNCHANGED <<tmps, regs, left, taken>>
      /\ addr' = operand /\ pc = "step"
  BY DEF SetNip, tree, runtime
<1>2. TypeOK'
  BY <1>1 DEF Inv, TypeOK
<1>3. Executed' /\ Meant'
  BY <1>1 DEF Inv, Executed, Meant, Good, Lead, Tracked
<1>4. Built' /\ Temporaries' /\ Running'
  BY <1>1 DEF Inv, Built, Temporaries, Running
<1> QED
  BY <1>1, <1>2, <1>3, <1>4 DEF Inv

\* The last path that is closed completes the tree.
LEMMA CloseKeepsInv == ASSUME Inv, Close PROVE Inv'
<1> DEFINE U == Updates
<1>1. /\ Lead(U, bytes) /\ DOMAIN U \subseteq Reg
      /\ \A r \in DOMAIN U : U[r] \in Expr
      /\ Tracked(core, bytes) /\ pc = "step"
  BY UpdatesLead DEF Inv, Executed, Close
<1>2. /\ want' = [want EXCEPT ![node] = bytes]
      /\ UNCHANGED <<tmps, regs, left, taken>> /\ UNCHANGED <<cond, jumps, addr>>
      /\ DOMAIN want' = Node /\ DOMAIN tmps' = Node
  BY DEF Close, runtime, Inv
<1>3. want'[node] = bytes /\ \A n \in Node \ {node} : want'[n] = want[n]
  BY <1>2 DEF Inv, TypeOK
<1>4. ASSUME Discard
      PROVE  /\ core' \in [Reg -> Parts] /\ bytes' \in Registers
             /\ operand' = none /\ ops' \in 0 .. MaxOps
  BY <1>4, TrackedAtFirst, MaxOpsAssumption DEF Discard, Tracked
<1>5. \A n \in Node : want'[n] = nothing \/ want'[n] \in Registers
  BY <1>1, <1>3 DEF Inv, TypeOK, Tracked
<1> HIDE DEF U
<1>6. CASE node = "root"
  <2>1. /\ updates' = [updates EXCEPT !["root"] = U] /\ pc' = "emit"
        /\ Discard /\ node' = node /\ saved' = saved
    BY <1>6 DEF Close, U
  <2>2. /\ DOMAIN updates' = Node /\ updates'["root"] = U
        /\ \A n \in Node \ {"root"} : updates'[n] = updates[n]
    BY <2>1 DEF Inv, Node
  <2>3. TypeOK'
    BY <1>1, <1>2, <1>4, <1>5, <2>1, <2>2 DEF Inv, TypeOK, Node
  <2>4. cond = none
    BY <1>1, <1>6 DEF Inv, Executed
  <2>5. Executed' /\ Meant' /\ Built'
    BY <1>1, <1>2, <1>3, <1>4, <1>6, <2>1, <2>2, <2>4
    DEF Inv, Executed, Meant, Good, Built, Lead
  <2>6. Temporaries' /\ Running'
    BY <1>1, <1>2, <1>6, <2>1 DEF Inv, Temporaries, Running
  <2> QED
    BY <1>2, <2>2, <2>3, <2>5, <2>6 DEF Inv
<1>7. CASE node = "then"
  <2>1. /\ updates' = [updates EXCEPT !["then"] = U] /\ pc' = pc /\ node' = "else"
        /\ core' = saved.core /\ bytes' = saved.bytes
        /\ operand' = saved.operand /\ ops' = saved.ops /\ saved' = saved
    BY <1>7 DEF Close, U
  <2>2. /\ DOMAIN updates' = Node /\ updates'["then"] = U
        /\ \A n \in Node \ {"then"} : updates'[n] = updates[n]
    BY <2>1 DEF Inv, Node
  <2>3. /\ Tracked(saved.core, saved.bytes) /\ cond # none
        /\ saved.operand \in Operand \union {none} /\ Good(saved.operand)
        /\ saved.ops \in 0 .. MaxOps
    BY <1>1, <1>7 DEF Inv, Executed
  <2>4. TypeOK'
    BY <1>1, <1>2, <1>5, <2>1, <2>2, <2>3 DEF Inv, TypeOK, Node, Tracked
  <2>5. Executed' /\ Meant' /\ Built'
    BY <1>1, <1>2, <1>3, <1>7, <2>1, <2>2, <2>3 DEF Inv, Executed, Meant, Built, Lead
  <2>6. Temporaries' /\ Running'
    BY <1>1, <1>2, <2>1 DEF Inv, Temporaries, Running
  <2> QED
    BY <1>2, <2>2, <2>4, <2>5, <2>6 DEF Inv
<1>8. CASE node = "else"
  <2> DEFINE V == updates["then"]
             both == Common(V, U)
  <2>1. /\ pc' = "emit" /\ node' = "root" /\ saved' = nothing /\ Discard
        /\ updates' = [n \in Node |->
              CASE n = "root" -> [r \in both |-> U[r]]
                [] n = "then" -> Without(V, both)
                [] n = "else" -> Without(U, both)]
    BY <1>8 DEF Close, U
  <2>2. /\ Lead(V, want["then"]) /\ cond # none
        /\ DOMAIN V \subseteq Reg /\ \A r \in DOMAIN V : V[r] \in Expr
    BY <1>1, <1>8 DEF Inv, Executed, TypeOK, Node
  <2>3. /\ DOMAIN updates' = Node
        /\ DOMAIN updates'["root"] = both
        /\ \A r \in both : updates'["root"][r] = U[r] /\ U[r] = V[r]
                           /\ r \in DOMAIN U /\ r \in DOMAIN V
        /\ DOMAIN updates'["then"] = DOMAIN V \ both
        /\ \A r \in DOMAIN V \ both : updates'["then"][r] = V[r]
        /\ DOMAIN updates'["else"] = DOMAIN U \ both
        /\ \A r \in DOMAIN U \ both : updates'["else"][r] = U[r]
    BY <2>1 DEF Node, Without, Common
  <2> HIDE DEF V, both
  <2>4. \A n \in Node : /\ DOMAIN updates'[n] \subseteq Reg
                         /\ \A r \in DOMAIN updates'[n] : updates'[n][r] \in Expr
    BY <1>1, <2>2, <2>3 DEF Node
  <2>5. TypeOK'
    BY <1>1, <1>2, <1>4, <1>5, <2>1, <2>4 DEF Inv, TypeOK, Node
  <2>6. want'["else"] = bytes /\ want'["then"] = want["then"]
    BY <1>3, <1>8 DEF Node
  <2>7. Built'
    <3>1. ASSUME NEW r \in Reg
          PROVE  /\ bytes[r] = IF r \in DOMAIN U \ both THEN U[r]
                               ELSE IF r \in both THEN U[r] ELSE Before(r)
                 /\ want["then"][r] = IF r \in DOMAIN V \ both THEN V[r]
                                      ELSE IF r \in both THEN U[r] ELSE Before(r)
      BY <1>1, <2>2, <2>3 DEF Lead
    <3>2. bytes \in Registers /\ want["then"] \in Registers
      BY <1>1, <2>2 DEF Lead
    <3>3. ASSUME NEW r \in Reg
          PROVE  /\ want'["else"][r] = IF r \in DOMAIN updates'["else"] THEN updates'["else"][r]
                                       ELSE IF r \in DOMAIN updates'["root"]
                                         THEN updates'["root"][r] ELSE Before(r)
                 /\ want'["then"][r] = IF r \in DOMAIN updates'["then"] THEN updates'["then"][r]
                                       ELSE IF r \in DOMAIN updates'["root"]
                                         THEN updates'["root"][r] ELSE Before(r)
      BY <2>3, <2>6, <3>1
    <3>4. cond' # none
      BY <1>2, <2>2
    <3>5. \A n \in {"then", "else"} :
             DOMAIN updates'[n] \intersect DOMAIN updates'["root"] = {}
      BY <2>3
    <3> QED
      BY <2>6, <3>2, <3>3, <3>4, <3>5 DEF Built
  <2>8. Executed' /\ Meant'
    BY <1>1, <1>2, <1>4, <2>1 DEF Inv, Executed, Meant, Good
  <2>9. Temporaries' /\ Running'
    BY <1>1, <1>2, <2>1 DEF Inv, Temporaries, Running
  <2> QED
    BY <1>2, <2>3, <2>5, <2>7, <2>8, <2>9 DEF Inv
<1> QED
  BY <1>6, <1>7, <1>8 DEF Close

\* The actions of the run keep what was built before it.
LEMMA EnterKeepsInv == ASSUME Inv, Enter PROVE Inv'
<1>1. /\ pc = "emit" /\ node = "root" /\ taken = "root"
      /\ regs = [r \in Reg |-> Before(r)]
      /\ UNCHANGED <<node, regs, taken>> /\ UNCHANGED <<updates, want>>
      /\ UNCHANGED <<core, bytes, operand, ops, saved, cond, jumps, addr>>
      /\ tmps' = [tmps EXCEPT !["root"] = MakeTemps("root", nothing)]
      /\ left' = DOMAIN updates["root"]
      /\ pc' = IF cond = none THEN "commit" ELSE "test"
  BY DEF Inv, Running, Enter, symbolic, tree
<1>2. /\ "root" \in Node /\ TypeOK /\ Meant /\ DOMAIN tmps = Node
      /\ \A e \in DOMAIN nothing : e \in Expr /\ nothing[e] = e
  BY DEF Inv, Node, nothing
<1> DEFINE T == MakeTemps("root", nothing)
<1>3. /\ Operands("root") \subseteq DOMAIN T
      /\ \A e \in DOMAIN T : e \in Expr /\ T[e] = e
  BY <1>1, <1>2, MadeBefore
<1> HIDE DEF T
<1>4. /\ DOMAIN tmps' = Node /\ tmps'["root"] = T
      /\ \A n \in Node \ {"root"} : tmps'[n] = tmps[n]
  BY <1>1, <1>2 DEF T
<1>5. Operands("root")' = Operands("root")
  BY <1>1 DEF Operands, Needed, Branch
<1>6. TypeOK'
  BY <1>1, <1>2 DEF TypeOK
<1>7. Executed' /\ Meant' /\ Built' /\ Temporaries'
  BY <1>1, <1>3, <1>4 DEF Inv, Executed, Meant, Good, Built, Lead, Temporaries
<1>8. Running'
  <2>1. ASSUME cond = none
        PROVE  \A r \in Reg : regs'[r] = Committed(r)'
    BY <1>1 DEF Committed
  <2> QED
    BY <1>1, <1>3, <1>4, <1>5, <2>1 DEF Running
<1> QED
  BY <1>1, <1>4, <1>6, <1>7, <1>8 DEF Inv

LEMMA TestKeepsInv == ASSUME Inv, Test PROVE Inv'
<1>1. /\ pc = "test" /\ node = "root" /\ cond # none
      /\ regs = [r \in Reg |-> Before(r)]
      /\ Operands("root") \subseteq DOMAIN tmps["root"]
      /\ UNCHANGED regs /\ UNCHANGED <<updates, want>>
      /\ UNCHANGED <<core, bytes, operand, ops, saved, cond, jumps, addr>>
      /\ node' \in {"then", "else"} /\ taken' = node'
      /\ tmps' = [tmps EXCEPT ![node'] = MakeTemps(node', tmps["root"])]
      /\ left' = DOMAIN updates[node'] /\ pc' = "commit"
  BY DEF Inv, Running, Test, symbolic, tree
<1> DEFINE m == node'
           T == MakeTemps(m, tmps["root"])
<1>2. /\ m \in Node /\ m # "root" /\ TypeOK /\ Meant /\ DOMAIN tmps = Node
      /\ \A e \in DOMAIN tmps["root"] : e \in Expr /\ tmps["root"][e] = e
  BY <1>1 DEF Inv, Node, Temporaries
<1> HIDE DEF m
<1>3. /\ Operands(m) \subseteq DOMAIN T
      /\ \A e \in DOMAIN T : e \in Expr /\ T[e] = e
  BY <1>1, <1>2, MadeBefore
<1> HIDE DEF T
<1>4. /\ DOMAIN tmps' = Node /\ tmps'[m] = T
      /\ \A n \in Node \ {m} : tmps'[n] = tmps[n]
  BY <1>1, <1>2 DEF T, m
<1>5. /\ Operands("root")' = Operands("root")
      /\ Operands(node)' = Operands(m)
  BY <1>1 DEF Operands, Needed, Branch, m
<1>6. TypeOK'
  BY <1>1, <1>2 DEF TypeOK, m
<1>7. Executed' /\ Meant' /\ Built' /\ Temporaries'
  BY <1>1, <1>2, <1>3, <1>4 DEF Inv, Executed, Meant, Good, Built, Lead, Temporaries
<1>8. Running'
  <2>1. \A r \in Reg : regs'[r] = Committed(r)'
    BY <1>1 DEF Committed
  <2>2. tmps'["root"] = tmps["root"]
    BY <1>2, <1>4 DEF Node
  <2> QED
    BY <1>1, <1>2, <1>3, <1>4, <1>5, <2>1, <2>2 DEF Running, m
<1> QED
  BY <1>1, <1>4, <1>6, <1>7, <1>8 DEF Inv

LEMMA CommitKeepsInv == ASSUME Inv, Commit PROVE Inv'
<1>1. PICK q \in left : /\ regs' = [regs EXCEPT ![q] = ccode(updates[node][q])]
                         /\ left' = left \ {q}
  BY DEF Commit
<1>2. /\ pc = "commit" /\ UNCHANGED <<pc, node, tmps, taken>>
      /\ UNCHANGED <<updates, want>>
      /\ UNCHANGED <<core, bytes, operand, ops, saved, cond, jumps, addr>>
  BY DEF Commit, symbolic, tree
<1>3. /\ node \in Node /\ left \subseteq DOMAIN updates[node]
      /\ DOMAIN updates[node] \subseteq Reg /\ regs \in Registers
      /\ \A r \in DOMAIN updates[node] : updates[node][r] \in Expr
      /\ Operands(node) \subseteq DOMAIN tmps[node]
  BY <1>2 DEF Inv, TypeOK, Running
<1>4. ccode(updates[node][q]) = updates[node][q]
  <2>1. updates[node][q] \in DOMAIN tmps[node]
    BY <1>3 DEF Operands
  <2> QED
    BY <1>3, <2>1 DEF Inv, Temporaries, ccode
<1>5. /\ regs' \in Registers /\ regs'[q] = updates[node][q]
      /\ \A r \in Reg \ {q} : regs'[r] = regs[r]
  BY <1>1, <1>3, <1>4 DEF Registers
<1>6. TypeOK'
  BY <1>1, <1>2, <1>5 DEF Inv, TypeOK
<1>7. Executed' /\ Meant' /\ Built' /\ Temporaries'
  BY <1>2 DEF Inv, Executed, Meant, Good, Built, Lead, Temporaries
<1>8. Running'
  <2>1. ASSUME NEW r \in Reg
        PROVE  regs'[r] = Committed(r)'
    <3>1. regs[r] = Committed(r)
      BY <1>2 DEF Inv, Running
    <3> QED
      BY <1>1, <1>2, <1>3, <1>5, <3>1 DEF Committed
  <2>2. Operands("root")' = Operands("root") /\ Operands(node)' = Operands(node)
    BY <1>2 DEF Operands, Needed, Branch
  <2> QED
    BY <1>1, <1>2, <1>3, <2>1, <2>2 DEF Inv, Running
<1> QED
  BY <1>2, <1>6, <1>7, <1>8 DEF Inv

LEMMA LeaveKeepsInv == ASSUME Inv, Leave PROVE Inv'
<1>1. /\ pc = "commit" /\ left = {} /\ node # "root" /\ taken = node
      /\ node' = "root" /\ left' = DOMAIN updates["root"]
      /\ UNCHANGED <<pc, tmps, regs, taken>> /\ UNCHANGED <<updates, want>>
      /\ UNCHANGED <<core, bytes, operand, ops, saved, cond, jumps, addr>>
  BY DEF Inv, Running, Leave, symbolic, tree
<1>2. TypeOK'
  BY <1>1 DEF Inv, TypeOK, Node
<1>3. Executed' /\ Meant' /\ Built' /\ Temporaries'
  BY <1>1 DEF Inv, Executed, Meant, Good, Built, Lead, Temporaries
<1>4. Running'
  <2>1. ASSUME NEW r \in Reg
        PROVE  regs'[r] = Committed(r)'
    <3>1. regs[r] = Committed(r)
      BY <1>1 DEF Inv, Running
    <3> QED
      BY <1>1, <3>1 DEF Committed
  <2>2. Operands("root")' = Operands("root")
    BY <1>1 DEF Operands, Needed, Branch
  <2> QED
    BY <1>1, <2>1, <2>2 DEF Inv, Running
<1> QED
  BY <1>1, <1>2, <1>3, <1>4 DEF Inv

\* Once all updates are made, they lead where they were built to lead.
LEMMA UpdatedKeepsInv == ASSUME Inv, Updated PROVE Inv'
<1>1. /\ pc = "commit" /\ left = {} /\ node = "root" /\ pc' = "branch"
      /\ UNCHANGED <<node, tmps, regs, left, taken>> /\ UNCHANGED <<updates, want>>
      /\ UNCHANGED <<core, bytes, operand, ops, saved, cond, jumps, addr>>
  BY DEF Updated, symbolic, tree, runtime
<1>2. TypeOK'
  BY <1>1 DEF Inv, TypeOK
<1>3. Executed' /\ Meant' /\ Built' /\ Temporaries'
  BY <1>1 DEF Inv, Executed, Meant, Good, Built, Lead, Temporaries
<1>4. taken \in Node /\ (taken = "root" <=> cond = none) /\ Built /\ regs \in Registers
  BY <1>1 DEF Inv, TypeOK, Running
<1>5. want[taken] \in Registers
  BY <1>1, <1>4 DEF Built, Lead, Node
<1>6. ASSUME NEW r \in Reg
      PROVE  regs[r] = want[taken][r]
  <2>1. regs[r] = IF r \in DOMAIN updates["root"] THEN updates["root"][r]
                  ELSE IF taken # "root" /\ r \in DOMAIN updates[taken]
                    THEN updates[taken][r]
                  ELSE Before(r)
    BY <1>1 DEF Inv, Running, Committed
  <2>2. CASE taken = "root"
    BY <1>1, <1>4, <2>1, <2>2 DEF Built, Lead
  <2>3. CASE taken # "root"
    <3>1. taken \in {"then", "else"} /\ cond # none
      BY <1>4, <2>3 DEF Node
    <3>2. /\ DOMAIN updates[taken] \intersect DOMAIN updates["root"] = {}
          /\ want[taken][r] = IF r \in DOMAIN updates[taken] THEN updates[taken][r]
                              ELSE IF r \in DOMAIN updates["root"] THEN updates["root"][r]
                              ELSE Before(r)
      BY <1>1, <1>4, <3>1 DEF Built
    <3> QED
      BY <2>1, <2>3, <3>2
  <2> QED
    BY <2>2, <2>3
<1>7. regs = want[taken]
  BY <1>4, <1>5, <1>6 DEF Registers
<1>8. Operands("root")' = Operands("root")
  BY <1>1 DEF Operands, Needed, Branch
<1>9. Running'
  BY <1>1, <1>7, <1>8 DEF Inv, Running
<1> QED
  BY <1>1, <1>2, <1>3, <1>9 DEF Inv

LEMMA InvStutters == ASSUME Inv, UNCHANGED vars PROVE Inv'
<1>1. /\ UNCHANGED <<pc, node, core, bytes, operand, ops, saved, cond, jumps, addr>>
      /\ UNCHANGED <<updates, want>> /\ UNCHANGED <<tmps, regs, left, taken>>
  BY DEF vars, symbolic, tree, runtime
<1>2. TypeOK' /\ Executed' /\ Meant' /\ Built' /\ Temporaries'
  BY <1>1 DEF Inv, TypeOK, Executed, Tracked, Lead, Meant, Good, Built, Temporaries
<1>3. Operands("root")' = Operands("root") /\ Operands(node)' = Operands(node)
  BY <1>1 DEF Operands, Needed, Branch
<1>4. Running'
  BY <1>1, <1>3 DEF Inv, Running, Committed
<1> QED
  BY <1>1, <1>2, <1>4 DEF Inv

-----------------------------------------------------------------------------
(* Theorems.                                                               *)

\* The parts of each register are slices of its value, the updates of the
\* tree lead where the accesses did, and temporaries hold values from before
\* the instruction, in every state (core.cc, insnstmt.cc).
THEOREM Invariance == Spec => []Inv
<1>1. Inv /\ [Next]_vars => Inv'
  BY AccessKeepsInv, ConcretizeKeepsInv, SetNipKeepsInv, CloseKeepsInv, EnterKeepsInv,
     TestKeepsInv, CommitKeepsInv, LeaveKeepsInv, UpdatedKeepsInv, InvStutters
  DEF Next, Terminating
<1> QED
  BY InvInit, <1>1, PTL DEF Spec

\* The variables keep their types; no read or write of a register looks for a
\* part that is not there (eregread, eregwrite).
THEOREM TypeCorrect == Spec => []TypeOK
<1>1. Inv => TypeOK
  BY DEF Inv
<1> QED
  BY Invariance, <1>1, PTL

\* The code of an instruction does what its accesses mean, for any registers
\* and any number of accesses, and so does its branch (InsnStatement::translate).
THEOREM Exactness == Spec => []Exact
<1>1. ASSUME Inv PROVE Exact
  <2>1. ASSUME pc = "test"
        PROVE  ccode(cond.expr) = cond.value
    <3>1. /\ cond \in Operand /\ cond.expr = cond.value /\ cond.expr \in Expr
          /\ regs = [r \in Reg |-> Before(r)] /\ node \in Node
      BY <1>1, <2>1 DEF Inv, TypeOK, Meant, Good, Running, Operand
    <3>2. Eval(cond.expr) = cond.expr
      BY <3>1, Unupdated
    <3> QED
      BY <1>1, <3>1, <3>2 DEF Inv, Temporaries, ccode
  <2>2. ASSUME pc = "branch"
        PROVE  /\ regs = want[taken]
               /\ \A x \in Branch : ccode(x.expr) = x.value
    <3>1. /\ regs = want[taken] /\ node = "root" /\ node \in Node
          /\ Operands("root") \subseteq DOMAIN tmps["root"]
      BY <1>1, <2>2 DEF Inv, Running, Node
    <3>2. ASSUME NEW x \in Branch
          PROVE  ccode(x.expr) = x.value
      <4>1. x # none /\ x.expr = x.value
        BY <1>1 DEF Branch, Inv, Meant, Good
      <4>2. x.expr \in DOMAIN tmps["root"]
        BY <3>1 DEF Needed, Operands
      <4> QED
        BY <1>1, <3>1, <4>1, <4>2 DEF Inv, Temporaries, ccode
    <3> QED
      BY <3>1, <3>2
  <2> QED
    BY <2>1, <2>2 DEF Exact
<1> QED
  BY Invariance, <1>1, PTL

-----------------------------------------------------------------------------
(* The ring of the registers of the FPU: numbers modulo Depth.             *)

LEMMA InRing ==
  ASSUME NEW a \in Int
  PROVE  a % Depth \in Index
BY DepthAssumption DEF Index

LEMMA Remainder ==
  ASSUME NEW k \in Int, NEW r \in Index
  PROVE  (Depth * k + r) % Depth = r
<1> DEFINE x == Depth * k + r
           d == x \div Depth
           m == x % Depth
<1>1. Depth \in Nat /\ Depth > 0 /\ r \in Int /\ 0 <= r /\ r < Depth /\ x \in Int
  BY DepthAssumption DEF Index
<1>2. d \in Int /\ m \in 0 .. Depth - 1 /\ x = Depth * d + m
  BY <1>1
<1>3. Depth * (k - d) = m - r
  BY <1>1, <1>2
<1>4. CASE k - d >= 1
  <2>1. Depth * (k - d) >= Depth
    BY <1>1, <1>2, <1>4
  <2> QED
    BY <1>1, <1>2, <1>3, <2>1
<1>5. CASE k - d <= -1
  <2>1. Depth * (k - d) <= - Depth
    BY <1>1, <1>2, <1>5
  <2> QED
    BY <1>1, <1>2, <1>3, <2>1
<1>6. CASE k - d = 0
  BY <1>1, <1>2, <1>3, <1>6
<1> QED
  BY <1>2, <1>4, <1>5, <1>6

\* A sum may be reduced at once or step by step.
LEMMA RingSum ==
  ASSUME NEW a \in Int, NEW b \in Int
  PROVE  ((a % Depth) + b) % Depth = (a + b) % Depth
<1> DEFINE q == a \div Depth
           m == a % Depth
           k == (m + b) \div Depth
           r == (m + b) % Depth
<1>1. Depth \in Nat /\ Depth > 0
  BY DepthAssumption
<1>2. q \in Int /\ m \in Int /\ a = Depth * q + m
  BY <1>1
<1>3. k \in Int /\ r \in Index /\ m + b = Depth * k + r
  BY <1>1, <1>2 DEF Index
<1>4. r \in Int
  BY <1>1, <1>3 DEF Index
<1>5. Depth * q + Depth * k = Depth * (q + k) /\ q + k \in Int
  BY <1>1, <1>2, <1>3
<1>6. a + b = Depth * (q + k) + r
  BY <1>1, <1>2, <1>3, <1>4, <1>5
<1>7. (Depth * (q + k) + r) % Depth = r
  BY <1>3, <1>5, Remainder
<1> QED
  BY <1>6, <1>7

LEMMA RingIndex ==
  ASSUME NEW i \in Index
  PROVE  i \in Int /\ i % Depth = i
<1>1. i \in Int /\ Depth * 0 + i = i
  BY DepthAssumption DEF Index
<1> QED
  BY <1>1, Remainder

\* No two ST(i) are the same register.
LEMMA RingInjective ==
  ASSUME NEW t \in Int, NEW i \in Index, NEW j \in Index,
         (t + i) % Depth = (t + j) % Depth
  PROVE  i = j
<1>1. i \in Int /\ j \in Int /\ t + i \in Int /\ t + j \in Int /\ - t \in Int
  BY RingIndex
<1>2. (((t + i) % Depth) + (- t)) % Depth = ((t + i) + (- t)) % Depth
  BY <1>1, RingSum
<1>3. (((t + j) % Depth) + (- t)) % Depth = ((t + j) + (- t)) % Depth
  BY <1>1, RingSum
<1>4. (t + i) + (- t) = i /\ (t + j) + (- t) = j
  BY <1>1
<1> QED
  BY <1>2, <1>3, <1>4, RingIndex

-----------------------------------------------------------------------------
(* The invariant of the FPU.                                               *)

Stack == [Index -> Index]

\* The registers r, from register t on, are the stack s.
Means(s, r, t) == \A i \in Index : s[i] = r[(t + i) % Depth]

FGood(x) == x # unread => x.expr \in Index /\ x.value = x.expr

FTracked(t, r, s, x) == t \in Index /\ r \in Stack /\ s \in Stack /\ Means(s, r, t) /\ FGood(x)

FUpdate(u) == /\ DOMAIN u.freg \subseteq Index
              /\ \A i \in DOMAIN u.freg : u.freg[i] \in Index
              /\ u.ftop \in Index

\* What updates u and v leave in the register that was ST(i), and the top.
Left(u, v, i) == IF i \in DOMAIN u.freg THEN u.freg[i]
                 ELSE IF i \in DOMAIN v.freg THEN v.freg[i] ELSE i
LeftTop(u, v) == IF u.ftop # 0 THEN u.ftop ELSE v.ftop

\* Updates u and v lead to the stack w, in any order.
FLead(u, v, w) ==
  /\ w \in Stack
  /\ DOMAIN u.freg \intersect DOMAIN v.freg = {}
  /\ u.ftop = 0 \/ v.ftop = 0
  /\ \A i \in Index : w[i] = Left(u, v, (LeftTop(u, v) + i) % Depth)

FExecuted ==
  pc = "step" =>
    /\ FTracked(ftop, fpuregs, stack, fval)
    /\ node = "then" => FTracked(fsaved.ftop, fsaved.fpuregs, fsaved.stack, fsaved.fval)
    /\ node = "else" => FLead(fupdates["then"], NoUpdates, fwant["then"])

FBuilt ==
  pc # "step" =>
    /\ cond = none => FLead(fupdates["root"], NoUpdates, fwant["root"])
    /\ cond # none => \A n \in {"then", "else"} :
                        FLead(fupdates[n], fupdates["root"], fwant[n])

\* No register is written yet.
Unwritten == \A k \in Index : FPUR[(top + k) % Depth] = k

\* The temporaries m are values from before the instruction, and numbers of
\* registers from t on; there are those that the updates u use.
FTemporaries(m, t, u) ==
  /\ \A k \in DOMAIN m.value : m.value[k] = k
  /\ \A i \in DOMAIN m.slot : m.slot[i] = (t + i) % Depth
  /\ FValues(u) \subseteq DOMAIN m.value /\ FSlots(u) \subseteq DOMAIN m.slot

\* What the register that was ST(i) holds, and the top, during the updates.
OnPath == node = "root" /\ taken # "root"
FCommitted(i) ==
  IF i \in DOMAIN fupdates[node].freg \ fleft THEN fupdates[node].freg[i]
  ELSE IF OnPath /\ i \in DOMAIN fupdates[taken].freg THEN fupdates[taken].freg[i]
  ELSE i
TopCommitted ==
  IF fupdates[node].ftop # 0 /\ ~ topleft THEN fupdates[node].ftop
  ELSE IF OnPath THEN fupdates[taken].ftop ELSE 0

\* The updates, from the top t before the instruction.
FCommitting(t) ==
  /\ FTemporaries(ftmps["root"], t, fupdates["root"])
  /\ FTemporaries(ftmps[node], t, fupdates[node])
  /\ fleft \subseteq DOMAIN fupdates[node].freg
  /\ topleft => fupdates[node].ftop # 0
  /\ \A i \in Index : FPUR[(t + i) % Depth] = FCommitted(i)
  /\ top = (t + TopCommitted) % Depth

FRunning ==
  /\ pc \in {"step", "emit", "test"} => Unwritten
  /\ pc = "test" => FTemporaries(ftmps["root"], top, fupdates["root"])
  /\ pc = "commit" => \E t \in Index : FCommitting(t)
  /\ StackExact

FTypeOK ==
  /\ DOMAIN fupdates = Node /\ DOMAIN fwant = Node /\ DOMAIN ftmps = Node
  /\ \A n \in Node : FUpdate(fupdates[n])
  /\ top \in Index /\ FPUR \in Stack
  /\ topleft \in BOOLEAN

FInv == FTypeOK /\ FExecuted /\ FBuilt /\ FRunning

-----------------------------------------------------------------------------
(* The symbolic execution.                                                 *)

\* The numbers that Ring computes.
LEMMA RingNumbers ==
  ASSUME ftop \in Index, NEW i \in Int
  PROVE  ftop \in Int /\ ftop + i \in Int /\ Ring(i) \in Index
<1>1. ftop \in Int
  BY RingIndex
<1> QED
  BY <1>1, InRing DEF Ring

LEMMA FReadGood ==
  ASSUME FTracked(ftop, fpuregs, stack, fval), NEW i \in Index
  PROVE  FGood(FReadAt(i)) /\ FReadAt(i).expr \in Index
<1>1. i \in Int /\ ftop \in Index
  BY RingIndex DEF FTracked
<1>2. Ring(i) \in Index
  BY <1>1, RingNumbers
<1> QED
  BY <1>2 DEF FTracked, Means, Stack, FReadAt, FGood, Ring

\* A write changes one register, that of one ST(i).
LEMMA FWriteGood ==
  ASSUME FTracked(ftop, fpuregs, stack, fval), NEW i \in Index,
         NEW x, x.expr \in Index, x.value = x.expr, FWriteAt(i, x)
  PROVE  fpuregs' \in Stack /\ stack' \in Stack /\ Means(stack', fpuregs', ftop)
<1>1. i \in Int /\ ftop \in Index /\ ftop \in Int /\ fpuregs \in Stack /\ stack \in Stack
  BY RingIndex DEF FTracked
<1>2. Ring(i) \in Index
  BY <1>1, RingNumbers
<1>3. /\ fpuregs' = [fpuregs EXCEPT ![Ring(i)] = x.expr]
      /\ stack' = [stack EXCEPT ![i] = x.value]
  BY DEF FWriteAt
<1>4. fpuregs' \in Stack /\ stack' \in Stack
  BY <1>1, <1>2, <1>3 DEF Stack
<1>5. ASSUME NEW j \in Index
      PROVE  stack'[j] = fpuregs'[(ftop + j) % Depth]
  <2>1. (ftop + j) % Depth \in Index
    BY <1>1, RingIndex, RingNumbers DEF Ring
  <2>2. CASE j = i
    BY <1>1, <1>2, <1>3, <2>2 DEF Stack, Ring
  <2>3. CASE j # i
    <3>1. (ftop + j) % Depth # Ring(i)
      BY <1>1, <2>3, RingInjective DEF Ring
    <3>2. stack[j] = fpuregs[(ftop + j) % Depth]
      BY DEF FTracked, Means
    <3> QED
      BY <1>1, <1>3, <2>1, <2>3, <3>1, <3>2 DEF Stack
  <2> QED
    BY <2>2, <2>3
<1> QED
  BY <1>4, <1>5 DEF Means

\* What was ST(i) is ST(i + 1) after a push, which takes the last register.
LEMMA PushGood ==
  ASSUME FTracked(ftop, fpuregs, stack, fval), fpush
  PROVE  FTracked(ftop', fpuregs', stack', fval')
<1> DEFINE t == Ring(Depth - 1)
<1>1. /\ ftop' = t /\ fval' = fval /\ fval # unread
      /\ fpuregs' = [fpuregs EXCEPT ![t] = fval.expr]
      /\ stack' = [i \in Index |-> IF i = 0 THEN fval.value ELSE stack[i - 1]]
  BY DEF fpush
<1>2. Depth \in Int /\ Depth - 1 \in Int /\ ftop \in Index /\ ftop \in Int
  BY DepthAssumption, RingIndex DEF FTracked
<1>3. t \in Index /\ t \in Int
  BY <1>2, RingNumbers, RingIndex
<1>4. fval.expr \in Index /\ fval.value = fval.expr /\ fpuregs \in Stack /\ stack \in Stack
  BY <1>1 DEF FTracked, FGood
<1>5. ASSUME NEW i \in Index, i # 0
      PROVE  i - 1 \in Index /\ (t + i) % Depth = (ftop + (i - 1)) % Depth
  <2>1. i - 1 \in Index /\ i \in Int
    BY <1>5, DepthAssumption DEF Index
  <2>2. (((ftop + (Depth - 1)) % Depth) + i) % Depth = ((ftop + (Depth - 1)) + i) % Depth
    BY <1>2, <2>1, RingSum
  <2>3. (ftop + (Depth - 1)) + i = Depth + (ftop + (i - 1)) /\ ftop + (i - 1) \in Int
    BY <1>2, <2>1
  <2>4. ((Depth % Depth) + (ftop + (i - 1))) % Depth = (Depth + (ftop + (i - 1))) % Depth
    BY <1>2, <2>3, RingSum
  <2>5. Depth % Depth = 0 /\ 0 + (ftop + (i - 1)) = ftop + (i - 1)
    <3>1. Depth = Depth * 1 + 0 /\ 0 \in Index /\ 1 \in Int
      BY DepthAssumption DEF Index
    <3>2. (Depth * 1 + 0) % Depth = 0
      BY <3>1, Remainder
    <3> QED
      BY <2>3, <3>1, <3>2
  <2> QED
    BY <2>1, <2>2, <2>3, <2>4, <2>5 DEF Ring
<1>6. fpuregs' \in Stack /\ stack' \in Stack
  BY <1>1, <1>3, <1>4, <1>5 DEF Stack
<1>7. ASSUME NEW i \in Index
      PROVE  stack'[i] = fpuregs'[(t + i) % Depth]
  <2>1. 0 \in Index /\ t + 0 = t /\ t % Depth = t
    BY <1>3, DepthAssumption, RingIndex DEF Index
  <2>2. CASE i = 0
    BY <1>1, <1>3, <1>4, <2>1, <2>2 DEF Stack
  <2>3. CASE i # 0
    <3>1. (t + i) % Depth # t
      BY <1>3, <2>1, <2>3, RingInjective
    <3>2. stack[i - 1] = fpuregs[(t + i) % Depth]
      BY <1>5, <2>3 DEF FTracked, Means
    <3>3. (t + i) % Depth \in Index
      BY <1>3, RingIndex, InRing
    <3> QED
      BY <1>1, <1>4, <2>3, <3>1, <3>2, <3>3 DEF Stack
  <2> QED
    BY <2>2, <2>3
<1> QED
  BY <1>1, <1>3, <1>4, <1>6, <1>7 DEF FTracked, Means, FGood

\* A pop turns the stack.
LEMMA PopGood ==
  ASSUME FTracked(ftop, fpuregs, stack, fval), fpop
  PROVE  FTracked(ftop', fpuregs', stack', fval')
<1>1. /\ ftop' = Ring(1) /\ fval' = FReadAt(0) /\ fpuregs' = fpuregs
      /\ stack' = [i \in Index |-> stack[(i + 1) % Depth]]
  BY DEF fpop
<1>2. ftop \in Index /\ ftop \in Int /\ 0 \in Index
  BY RingIndex, DepthAssumption DEF FTracked, Index
<1>3. Ring(1) \in Index
  BY <1>2, RingNumbers
<1>4. FGood(FReadAt(0))
  BY <1>2, FReadGood
<1>5. ASSUME NEW i \in Index
      PROVE  /\ (i + 1) % Depth \in Index
             /\ stack[(i + 1) % Depth] = fpuregs[(Ring(1) + i) % Depth]
  <2>1. i \in Int /\ i + 1 \in Int
    BY RingIndex
  <2>2. (i + 1) % Depth \in Index /\ (i + 1) % Depth \in Int
    BY <2>1, InRing, RingIndex
  <2>3. stack[(i + 1) % Depth] = fpuregs[(ftop + ((i + 1) % Depth)) % Depth]
    BY <2>2 DEF FTracked, Means
  <2>4. (((i + 1) % Depth) + ftop) % Depth = ((i + 1) + ftop) % Depth
    BY <1>2, <2>1, RingSum
  <2>5. (((ftop + 1) % Depth) + i) % Depth = ((ftop + 1) + i) % Depth
    BY <1>2, <2>1, RingSum
  <2>6. (i + 1) + ftop = (ftop + 1) + i /\ ((i + 1) % Depth) + ftop = ftop + ((i + 1) % Depth)
    BY <1>2, <2>1, <2>2
  <2> QED
    BY <2>2, <2>3, <2>4, <2>5, <2>6 DEF Ring
<1>6. stack' \in Stack
  BY <1>1, <1>5 DEF Stack, FTracked
<1> QED
  BY <1>1, <1>3, <1>4, <1>5, <1>6 DEF FTracked, Means

LEMMA FAccessGood ==
  ASSUME FTracked(ftop, fpuregs, stack, fval), fread \/ fwrite \/ fmove \/ fpush \/ fpop
  PROVE  FTracked(ftop, fpuregs, stack, fval)'
<1>1. CASE fread
  BY <1>1, FReadGood DEF fread, FTracked
<1>2. CASE fwrite
  <2>1. PICK i \in Index : FWriteAt(i, fval)
    BY <1>2 DEF fwrite
  <2>2. fval.expr \in Index /\ fval.value = fval.expr /\ UNCHANGED <<ftop, fval>>
    BY <1>2 DEF fwrite, FTracked, FGood
  <2>3. fpuregs' \in Stack /\ stack' \in Stack /\ Means(stack', fpuregs', ftop)
    BY <2>1, <2>2, FWriteGood
  <2> QED
    BY <2>2, <2>3 DEF FTracked
<1>3. CASE fmove
  <2>1. PICK i \in Index, j \in Index : FWriteAt(i, FReadAt(j))
    BY <1>3 DEF fmove
  <2>2. /\ FReadAt(j).expr \in Index /\ FReadAt(j).value = FReadAt(j).expr
        /\ UNCHANGED <<ftop, fval>>
    <3>1. FReadAt(j).expr \in Index /\ FReadAt(j).value = FReadAt(j).expr
      <4>1. j \in Int /\ ftop \in Index
        BY RingIndex DEF FTracked
      <4>2. Ring(j) \in Index
        BY <4>1, RingNumbers
      <4> QED
        BY <4>2 DEF FTracked, Means, Stack, FReadAt, Ring
    <3> QED
      BY <1>3, <3>1 DEF fmove
  <2>3. fpuregs' \in Stack /\ stack' \in Stack /\ Means(stack', fpuregs', ftop)
    BY <2>1, <2>2, FWriteGood
  <2> QED
    BY <2>2, <2>3 DEF FTracked
<1> QED
  BY <1>1, <1>2, <1>3, PushGood, PopGood

\* The updates of a path lead to its stack.
LEMMA FUpdatesLead ==
  ASSUME FTracked(ftop, fpuregs, stack, fval)
  PROVE  FUpdate(FUpdates) /\ FLead(FUpdates, NoUpdates, stack)
<1> DEFINE U == FUpdates
<1>1. /\ DOMAIN U.freg = {j \in Index : fpuregs[j] # j}
      /\ \A i \in DOMAIN U.freg : U.freg[i] = fpuregs[i]
      /\ U.ftop = ftop
  BY DEF FUpdates, FReference
<1>2. DOMAIN NoUpdates.freg = {} /\ NoUpdates.ftop = 0
  BY DEF NoUpdates
<1>3. ftop \in Index /\ fpuregs \in Stack /\ stack \in Stack /\ Means(stack, fpuregs, ftop)
  BY DEF FTracked
<1>4. FUpdate(U)
  BY <1>1, <1>3 DEF FUpdate, Stack
<1>5. \A j \in Index : Left(U, NoUpdates, j) = fpuregs[j]
  BY <1>1, <1>2 DEF Left
<1>6. LeftTop(U, NoUpdates) = ftop
  BY <1>1, <1>2 DEF LeftTop
<1>7. \A i \in Index : (ftop + i) % Depth \in Index
  BY <1>3, RingIndex, RingNumbers DEF Ring
<1> QED
  BY <1>2, <1>3, <1>4, <1>5, <1>6, <1>7 DEF FLead, Means

\* What simplify moves to the root is not lost, nor done twice.
LEMMA FShared ==
  ASSUME NEW u, NEW v, FUpdate(u), FUpdate(v), NEW w, NEW x \in {u, v},
         FLead(x, NoUpdates, w)
  PROVE  LET c == FCommon(u, v)
         IN  FUpdate(c) /\ FUpdate(FWithout(x, c)) /\ FLead(FWithout(x, c), c, w)
<1> DEFINE c == FCommon(u, v)
           r == FWithout(x, c)
<1>1. /\ DOMAIN c.freg = {i \in DOMAIN u.freg \intersect DOMAIN v.freg : u.freg[i] = v.freg[i]}
      /\ \A i \in DOMAIN c.freg : c.freg[i] = u.freg[i]
      /\ c.ftop = IF u.ftop = v.ftop THEN u.ftop ELSE 0
  BY DEF FCommon
<1>2. /\ DOMAIN r.freg = DOMAIN x.freg \ DOMAIN c.freg
      /\ \A i \in DOMAIN r.freg : r.freg[i] = x.freg[i]
      /\ r.ftop = IF x.ftop = c.ftop THEN 0 ELSE x.ftop
  BY DEF FWithout
<1>3. 0 \in Index /\ FUpdate(x)
  BY DepthAssumption DEF Index
<1> HIDE DEF c, r
<1>4. FUpdate(c) /\ FUpdate(r)
  BY <1>1, <1>2, <1>3 DEF FUpdate
<1>5. DOMAIN NoUpdates.freg = {} /\ NoUpdates.ftop = 0
  BY DEF NoUpdates
<1>6. LeftTop(r, c) = LeftTop(x, NoUpdates) /\ (r.ftop = 0 \/ c.ftop = 0)
  BY <1>1, <1>2, <1>5 DEF LeftTop
<1>7. \A i : Left(r, c, i) = Left(x, NoUpdates, i)
  BY <1>1, <1>2, <1>5 DEF Left
<1>8. DOMAIN r.freg \intersect DOMAIN c.freg = {}
  BY <1>2
<1>9. FLead(r, c, w)
  BY <1>6, <1>7, <1>8 DEF FLead
<1> QED
  BY <1>4, <1>9 DEF c, r

-----------------------------------------------------------------------------
(* The invariant of the FPU holds at first, and every step keeps it.       *)

LEMMA FInvInit == CoreInit => FInv
<1> SUFFICES ASSUME CoreInit PROVE FInv
  OBVIOUS
<1>1. /\ pc = "step" /\ node = "root"
      /\ ftop = 0 /\ fpuregs = FReference /\ stack = FReference /\ fval = unread
      /\ fupdates = [n \in Node |-> NoUpdates] /\ fwant = [n \in Node |-> FReference]
      /\ top \in Index /\ FPUR = [p \in Index |-> (p + Depth - top) % Depth]
      /\ ftmps = [n \in Node |-> NoTemps] /\ topleft = FALSE
  BY DEF CoreInit, Init
<1>2. 0 \in Index /\ 1 \in Int /\ Depth \in Int /\ FReference \in Stack
  BY DepthAssumption DEF Index, FReference, Stack
<1>3. Means(FReference, FReference, 0)
  <2>1. ASSUME NEW i \in Index
        PROVE  FReference[i] = FReference[(0 + i) % Depth]
    <3>1. i \in Int /\ i % Depth = i
      BY RingIndex
    <3>2. 0 + i = i
      BY <3>1
    <3> QED
      BY <3>1, <3>2
  <2> QED
    BY <2>1 DEF Means
<1>4. FUpdate(NoUpdates)
  BY <1>2 DEF FUpdate, NoUpdates
<1>5. ASSUME NEW a \in Int
      PROVE  (a + Depth - top) % Depth \in Index
  <2>1. a + Depth - top \in Int
    BY <1>1, <1>2, RingIndex
  <2> QED
    BY <2>1, InRing
<1>6. FPUR \in Stack
  BY <1>1, <1>5, RingIndex DEF Stack
<1>7. ASSUME NEW k \in Index
      PROVE  FPUR[(top + k) % Depth] = k
  <2> DEFINE p == (top + k) % Depth
  <2>1. top \in Int /\ k \in Int
    BY <1>1, RingIndex
  <2>2. top + k \in Int /\ Depth - top \in Int
    BY <1>2, <2>1
  <2>3. p \in Index
    BY <2>2, InRing
  <2>4. p \in Int
    BY <2>3, RingIndex
  <2>5. (p + (Depth - top)) % Depth = ((top + k) + (Depth - top)) % Depth
    BY <2>2, RingSum
  <2>6. (top + k) + (Depth - top) = Depth * 1 + k
    BY <1>2, <2>1
  <2>7. (Depth * 1 + k) % Depth = k
    BY <1>2, Remainder
  <2>8. p + (Depth - top) = p + Depth - top
    BY <1>2, <2>1, <2>4
  <2>9. FPUR[p] = (p + Depth - top) % Depth
    BY <1>1, <2>3
  <2> QED
    BY <2>5, <2>6, <2>7, <2>8, <2>9
<1>8. FTracked(ftop, fpuregs, stack, fval)
  BY <1>1, <1>2, <1>3 DEF FTracked, FGood
<1>9. FTypeOK
  BY <1>1, <1>4, <1>6 DEF FTypeOK
<1> QED
  BY <1>1, <1>7, <1>8, <1>9
  DEF FInv, FExecuted, FBuilt, FRunning, Unwritten, StackExact

\* A step that leaves the FPU alone, and the run at the same place.
LEMMA FUnmoved ==
  ASSUME FInv, UNCHANGED fvars, UNCHANGED <<pc, node, cond, taken>>
  PROVE  FInv'
<1>1. /\ UNCHANGED <<ftop, fpuregs, stack, fval, fops, fsaved>>
      /\ UNCHANGED <<fupdates, fwant>> /\ UNCHANGED <<FPUR, top, ftmps, fleft, topleft>>
      /\ UNCHANGED pc /\ UNCHANGED node /\ UNCHANGED cond /\ UNCHANGED taken
  BY DEF fvars, fsymbolic, ftree, fruntime
<1>2. FTypeOK' /\ FExecuted' /\ FBuilt'
  BY <1>1 DEF FInv, FTypeOK, FExecuted, FBuilt
<1>3. ASSUME NEW t \in Index, FCommitting(t)
      PROVE  FCommitting(t)'
  BY <1>1, <1>3 DEF FCommitting, FCommitted, TopCommitted, OnPath
<1>4. FRunning'
  BY <1>1, <1>3 DEF FInv, FRunning, Unwritten, StackExact
<1> QED
  BY <1>2, <1>4 DEF FInv

LEMMA Access87KeepsFInv == ASSUME FInv, Access87 PROVE FInv'
<1>1. /\ pc = "step" /\ UNCHANGED fsaved
      /\ UNCHANGED <<fupdates, fwant>> /\ UNCHANGED <<FPUR, top, ftmps, fleft, topleft>>
      /\ UNCHANGED pc /\ UNCHANGED node /\ UNCHANGED cond /\ UNCHANGED taken
  BY DEF Access87, fread, fwrite, fmove, fpush, fpop, FStep, ftree, fruntime,
         vars, symbolic, runtime
<1>2. FTracked(ftop, fpuregs, stack, fval)
  BY <1>1 DEF FInv, FExecuted
<1>3. FTracked(ftop', fpuregs', stack', fval')
  BY <1>2, FAccessGood DEF Access87
<1>4. FTypeOK' /\ FExecuted' /\ FBuilt'
  BY <1>1, <1>3 DEF FInv, FTypeOK, FExecuted, FBuilt
<1>5. FRunning'
  BY <1>1 DEF FInv, FRunning, Unwritten, StackExact
<1> QED
  BY <1>4, <1>5 DEF FInv

LEMMA ConcretizeKeepsFInv ==
  ASSUME FInv, Concretize, FConcretize
  PROVE  FInv'
<1>1. /\ pc = "step" /\ node = "root" /\ node' = "then" /\ UNCHANGED pc
      /\ fsaved' = [ftop |-> ftop, fpuregs |-> fpuregs, stack |-> stack,
                    fval |-> fval, fops |-> fops]
      /\ UNCHANGED <<ftop, fpuregs, stack, fval>>
      /\ UNCHANGED <<fupdates, fwant>> /\ UNCHANGED <<FPUR, top, ftmps, fleft, topleft>>
  BY DEF Concretize, FConcretize, ftree, fruntime
<1>2. FTypeOK' /\ FExecuted' /\ FBuilt'
  BY <1>1 DEF FInv, FTypeOK, FExecuted, FBuilt
<1>3. FRunning'
  BY <1>1 DEF FInv, FRunning, Unwritten, StackExact
<1> QED
  BY <1>2, <1>3 DEF FInv

LEMMA CloseKeepsFInv == ASSUME Inv, FInv, Close, FClose PROVE FInv'
<1>1. /\ pc = "step" /\ UNCHANGED taken /\ UNCHANGED cond
      /\ UNCHANGED <<FPUR, top, ftmps, fleft, topleft>>
      /\ fwant' = [fwant EXCEPT ![node] = stack]
  BY DEF Close, FClose, runtime, fruntime
<1>2. FTracked(ftop, fpuregs, stack, fval)
  BY <1>1 DEF FInv, FExecuted
<1> DEFINE U == FUpdates
<1>3. FUpdate(U) /\ FLead(U, NoUpdates, stack)
  BY <1>2, FUpdatesLead
<1>4. /\ DOMAIN fupdates = Node /\ DOMAIN fwant = Node /\ DOMAIN ftmps = Node
      /\ \A n \in Node : FUpdate(fupdates[n])
      /\ top \in Index /\ FPUR \in Stack /\ topleft \in BOOLEAN
      /\ "root" \in Node /\ "then" \in Node /\ "else" \in Node /\ Unwritten
  BY <1>1 DEF FInv, FTypeOK, FRunning, Node
<1> HIDE DEF U
<1>5. ASSUME pc' # "branch", pc' # "commit", pc' # "test" PROVE FRunning'
  BY <1>1, <1>4, <1>5 DEF FRunning, Unwritten, StackExact
<1>6. CASE node = "root"
  <2>1. /\ pc' = "emit" /\ cond' = cond /\ cond = none
        /\ fupdates' = [fupdates EXCEPT !["root"] = U]
    BY <1>1, <1>6 DEF Close, FClose, U, Inv, Executed
  <2>2. FTypeOK'
    BY <1>1, <1>3, <1>4, <2>1 DEF FTypeOK
  <2>3. FExecuted' /\ FBuilt'
    BY <1>1, <1>3, <1>4, <1>6, <2>1 DEF FExecuted, FBuilt
  <2> QED
    BY <1>5, <2>1, <2>2, <2>3 DEF FInv
<1>7. CASE node = "then"
  <2>1. /\ pc' = "step" /\ node' = "else"
        /\ fupdates' = [fupdates EXCEPT !["then"] = U]
        /\ ftop' = fsaved.ftop /\ fpuregs' = fsaved.fpuregs
        /\ stack' = fsaved.stack /\ fval' = fsaved.fval
    BY <1>1, <1>7 DEF Close, FClose, U
  <2>2. FTracked(ftop', fpuregs', stack', fval')
    BY <1>1, <1>7, <2>1 DEF FInv, FExecuted
  <2>3. FTypeOK'
    BY <1>1, <1>3, <1>4, <2>1 DEF FTypeOK
  <2>4. FExecuted' /\ FBuilt'
    BY <1>1, <1>3, <1>4, <1>7, <2>1, <2>2 DEF FExecuted, FBuilt
  <2> QED
    BY <1>5, <2>1, <2>3, <2>4 DEF FInv
<1>8. CASE node = "else"
  <2> DEFINE T == fupdates["then"]
             c == FCommon(T, U)
  <2>1. /\ pc' = "emit" /\ cond' = cond /\ cond # none
        /\ fupdates' = [n \in Node |-> CASE n = "root" -> c
                                         [] n = "then" -> FWithout(T, c)
                                         [] n = "else" -> FWithout(U, c)]
    BY <1>1, <1>8 DEF Close, FClose, U, Inv, Executed
  <2>2. FUpdate(T) /\ FLead(T, NoUpdates, fwant["then"])
    BY <1>1, <1>4, <1>8 DEF FInv, FExecuted
  <2> HIDE DEF T
  <2>3. FUpdate(c) /\ FUpdate(FWithout(T, c)) /\ FLead(FWithout(T, c), c, fwant["then"])
    BY <1>3, <2>2, FShared
  <2>4. FUpdate(FWithout(U, c)) /\ FLead(FWithout(U, c), c, stack)
    BY <1>3, <2>2, FShared
  <2> HIDE DEF c
  <2>5. /\ fupdates'["root"] = c /\ fupdates'["then"] = FWithout(T, c)
        /\ fupdates'["else"] = FWithout(U, c) /\ DOMAIN fupdates' = Node
        /\ fwant'["then"] = fwant["then"] /\ fwant'["else"] = stack /\ DOMAIN fwant' = Node
    BY <1>1, <1>4, <1>8, <2>1
  <2>6. FTypeOK'
    BY <1>1, <1>4, <2>3, <2>4, <2>5 DEF FTypeOK, Node
  <2>7. FExecuted' /\ FBuilt'
    BY <2>1, <2>3, <2>4, <2>5 DEF FExecuted, FBuilt
  <2> QED
    BY <1>5, <2>1, <2>6, <2>7 DEF FInv
<1> QED
  BY <1>6, <1>7, <1>8 DEF Close

\* Temporaries are computed before any register is written.
LEMMA FTempsMade ==
  ASSUME Unwritten, NEW u, FUpdate(u), NEW known,
         \A k \in DOMAIN known.value : known.value[k] = k,
         \A i \in DOMAIN known.slot : known.slot[i] = (top + i) % Depth
  PROVE  FTemporaries(FMakeTemps(u, known), top, u)
<1> DEFINE M == FMakeTemps(u, known)
<1>1. FValues(u) \subseteq Index
  BY DEF FUpdate, FValues
<1>2. /\ DOMAIN M.value = DOMAIN known.value \union FValues(u)
      /\ DOMAIN M.slot = DOMAIN known.slot \union FSlots(u)
      /\ \A k \in DOMAIN M.value :
           M.value[k] = IF k \in DOMAIN known.value THEN known.value[k] ELSE rfpust(k)
      /\ \A i \in DOMAIN M.slot :
           M.slot[i] = IF i \in DOMAIN known.slot THEN known.slot[i] ELSE ftop_update(i)
  BY DEF FMakeTemps
<1>3. \A k \in Index : rfpust(k) = k
  BY DEF Unwritten, rfpust
<1>4. \A i : ftop_update(i) = (top + i) % Depth
  BY DEF ftop_update
<1> HIDE DEF M
<1>5. FTemporaries(M, top, u)
  BY <1>1, <1>2, <1>3, <1>4 DEF FTemporaries
<1> QED
  BY <1>5 DEF M

LEMMA EnterKeepsFInv == ASSUME Inv, FInv, Enter, FEnter PROVE FInv'
<1>1. /\ pc = "emit" /\ node = "root" /\ taken = "root"
      /\ UNCHANGED node /\ UNCHANGED taken /\ UNCHANGED cond
      /\ pc' = IF cond = none THEN "commit" ELSE "test"
      /\ ftmps' = [ftmps EXCEPT !["root"] = FMakeTemps(fupdates["root"], NoTemps)]
      /\ Pending("root") /\ UNCHANGED <<fupdates, fwant>> /\ UNCHANGED <<FPUR, top>>
  BY DEF Inv, Running, Enter, FEnter, symbolic, ftree
<1>2. FTypeOK /\ "root" \in Node /\ Unwritten /\ top \in Index
  BY <1>1 DEF FInv, FTypeOK, FRunning, Node
<1>3. FTemporaries(FMakeTemps(fupdates["root"], NoTemps), top, fupdates["root"])
  BY <1>2, FTempsMade DEF FTypeOK, NoTemps
<1>4. ftmps'["root"] = FMakeTemps(fupdates["root"], NoTemps) /\ DOMAIN ftmps' = Node
  BY <1>1, <1>2 DEF FTypeOK
<1>5. /\ fleft' = DOMAIN fupdates["root"].freg
      /\ topleft' = (fupdates["root"].ftop # 0)
  BY <1>1 DEF Pending
<1>6. FTypeOK' /\ FExecuted' /\ FBuilt'
  BY <1>1, <1>2, <1>4, <1>5 DEF FInv, FTypeOK, FExecuted, FBuilt
<1>7. FCommitting(top)'
  <2>1. \A i \in Index : FPUR'[(top + i) % Depth] = FCommitted(i)'
    BY <1>1, <1>2, <1>5 DEF Unwritten, FCommitted, OnPath
  <2>2. TopCommitted' = 0 /\ top' = (top' + 0) % Depth
    <3>1. top + 0 = top /\ top % Depth = top
      BY <1>2, RingIndex
    <3> QED
      BY <1>1, <1>5, <3>1 DEF TopCommitted, OnPath
  <2> QED
    BY <1>1, <1>3, <1>4, <1>5, <2>1, <2>2 DEF FCommitting
<1>8. FRunning'
  BY <1>1, <1>2, <1>3, <1>4, <1>7 DEF FRunning, Unwritten, StackExact
<1> QED
  BY <1>6, <1>8 DEF FInv

LEMMA TestKeepsFInv == ASSUME Inv, FInv, Test, FTest PROVE FInv'
<1>1. /\ pc = "test" /\ node = "root" /\ taken = "root" /\ cond # none
      /\ node' \in {"then", "else"} /\ taken' = node' /\ UNCHANGED cond /\ pc' = "commit"
      /\ ftmps' = [ftmps EXCEPT ![node'] = FMakeTemps(fupdates[node'], ftmps["root"])]
      /\ Pending(node') /\ UNCHANGED <<fupdates, fwant>> /\ UNCHANGED <<FPUR, top>>
  BY DEF Inv, Running, Test, FTest, symbolic, ftree
<1> DEFINE m == node'
           M == FMakeTemps(fupdates[m], ftmps["root"])
<1>2. /\ FTypeOK /\ m \in Node /\ m # "root" /\ Unwritten /\ top \in Index
      /\ FTemporaries(ftmps["root"], top, fupdates["root"])
  BY <1>1 DEF FInv, FTypeOK, FRunning, Node
<1>3. FTemporaries(M, top, fupdates[m])
  BY <1>2, FTempsMade DEF FTypeOK, FTemporaries
<1>4. ftmps'[m] = M /\ ftmps'["root"] = ftmps["root"] /\ DOMAIN ftmps' = Node
  BY <1>1, <1>2 DEF FTypeOK, Node
<1>5. /\ fleft' = DOMAIN fupdates[m].freg
      /\ topleft' = (fupdates[m].ftop # 0)
  BY <1>1 DEF Pending
<1>6. FTypeOK' /\ FExecuted' /\ FBuilt'
  BY <1>1, <1>2, <1>4, <1>5 DEF FInv, FTypeOK, FExecuted, FBuilt
<1>7. FCommitting(top)'
  <2>1. \A i \in Index : FPUR'[(top + i) % Depth] = FCommitted(i)'
    BY <1>1, <1>2, <1>5 DEF Unwritten, FCommitted, OnPath
  <2>2. TopCommitted' = 0 /\ top' = (top' + 0) % Depth
    <3>1. top + 0 = top /\ top % Depth = top
      BY <1>2, RingIndex
    <3> QED
      BY <1>1, <1>2, <1>5, <3>1 DEF TopCommitted, OnPath
  <2> QED
    BY <1>1, <1>2, <1>3, <1>4, <1>5, <2>1, <2>2 DEF FCommitting
<1>8. FRunning'
  BY <1>1, <1>2, <1>7 DEF FRunning, StackExact
<1> QED
  BY <1>6, <1>8 DEF FInv

\* A register is written where the stack was before the instruction, whether
\* the top has been moved or not.
LEMMA FRegWriteKeepsFInv == ASSUME Inv, FInv, FRegWrite, UNCHANGED vars PROVE FInv'
<1>1. PICK q \in fleft :
        /\ FPUR' = [FPUR EXCEPT ![fslot(q)] = fvalue(fupdates[node].freg[q])]
        /\ fleft' = fleft \ {q}
  BY DEF FRegWrite
<1>2. /\ pc = "commit" /\ UNCHANGED <<pc, node, taken, cond>>
      /\ UNCHANGED <<fupdates, fwant>> /\ UNCHANGED <<top, ftmps, topleft>>
  BY DEF FRegWrite, vars, symbolic, runtime, ftree
<1>3. PICK t \in Index : FCommitting(t)
  BY <1>2 DEF FInv, FRunning
<1>4. FTypeOK /\ node \in Node /\ t \in Int
  BY <1>3, RingIndex DEF FInv, Inv, TypeOK
<1>5. /\ q \in DOMAIN fupdates[node].freg /\ q \in Index
      /\ fupdates[node].freg[q] \in FValues(fupdates[node])
      /\ q \in FSlots(fupdates[node])
      /\ fupdates[node].freg[q] \in Index
  BY <1>1, <1>3, <1>4 DEF FCommitting, FTypeOK, FUpdate, FValues, FSlots
<1>6. /\ fvalue(fupdates[node].freg[q]) = fupdates[node].freg[q]
      /\ fslot(q) = (t + q) % Depth
  BY <1>3, <1>5 DEF FCommitting, FTemporaries, fvalue, fslot
<1>7. \A i \in Index : (t + i) % Depth \in Index
  BY <1>4, RingIndex, InRing
<1>8. FPUR \in Stack /\ FPUR' \in Stack
  BY <1>1, <1>4, <1>5, <1>6, <1>7 DEF FTypeOK, Stack
<1>9. FTypeOK' /\ FExecuted' /\ FBuilt'
  BY <1>2, <1>8 DEF FInv, FTypeOK, FExecuted, FBuilt
<1>10. ASSUME NEW i \in Index
       PROVE  FPUR'[(t + i) % Depth] = FCommitted(i)'
  <2>1. FPUR[(t + i) % Depth] = FCommitted(i) /\ (t + i) % Depth \in Index
    BY <1>3, <1>7 DEF FCommitting
  <2>2. CASE i = q
    <3>1. FPUR'[(t + q) % Depth] = fupdates[node].freg[q]
      BY <1>1, <1>5, <1>6, <1>7, <1>8 DEF Stack
    <3>2. FCommitted(q)' = fupdates[node].freg[q]
      BY <1>1, <1>2, <1>5 DEF FCommitted
    <3> QED
      BY <2>2, <3>1, <3>2
  <2>3. CASE i # q
    <3>1. (t + i) % Depth # (t + q) % Depth
      BY <1>4, <1>5, <2>3, RingInjective
    <3>2. FPUR'[(t + i) % Depth] = FPUR[(t + i) % Depth]
      BY <1>1, <1>6, <1>8, <2>1, <3>1 DEF Stack
    <3>3. FCommitted(i)' = FCommitted(i)
      BY <1>1, <1>2, <2>3 DEF FCommitted, OnPath
    <3> QED
      BY <2>1, <3>2, <3>3
  <2> QED
    BY <2>2, <2>3
<1>11. FCommitting(t)'
  <2>1. TopCommitted' = TopCommitted
    BY <1>2 DEF TopCommitted, OnPath
  <2> QED
    BY <1>1, <1>2, <1>3, <1>10, <2>1 DEF FCommitting
<1>12. FRunning'
  BY <1>2, <1>11 DEF FRunning, StackExact
<1> QED
  BY <1>9, <1>12 DEF FInv

LEMMA FTopWriteKeepsFInv == ASSUME Inv, FInv, FTopWrite, UNCHANGED vars PROVE FInv'
<1>1. /\ pc = "commit" /\ topleft
      /\ top' = fslot(fupdates[node].ftop) /\ topleft' = FALSE
      /\ UNCHANGED pc /\ UNCHANGED node /\ UNCHANGED taken /\ UNCHANGED cond
      /\ UNCHANGED <<fupdates, fwant>> /\ UNCHANGED <<FPUR, ftmps, fleft>>
  BY DEF FTopWrite, vars, symbolic, runtime, ftree
<1>2. PICK t \in Index : FCommitting(t)
  BY <1>1 DEF FInv, FRunning
<1>3. FTypeOK /\ node \in Node /\ t \in Int
  BY <1>2, RingIndex DEF FInv, Inv, TypeOK
<1> DEFINE f == fupdates[node].ftop
<1>4. f # 0 /\ f \in FSlots(fupdates[node]) /\ f \in Index
  BY <1>1, <1>2, <1>3 DEF FCommitting, FTypeOK, FUpdate, FSlots
<1> HIDE DEF f
<1>5. top' = (t + f) % Depth
  BY <1>1, <1>2, <1>4 DEF FCommitting, FTemporaries, fslot, f
<1>6. t + f \in Int
  BY <1>3, <1>4, RingIndex
<1>7. top' \in Index
  BY <1>5, <1>6, InRing
<1>8. FTypeOK' /\ FExecuted' /\ FBuilt'
  BY <1>1, <1>3, <1>7 DEF FInv, FTypeOK, FExecuted, FBuilt
<1>9. FCommitting(t)'
  <2>1. \A i \in Index : FCommitted(i)' = FCommitted(i)
    BY <1>1 DEF FCommitted, OnPath
  <2>2. TopCommitted' = f
    BY <1>1, <1>4 DEF TopCommitted, f
  <2> QED
    BY <1>1, <1>2, <1>5, <2>1, <2>2 DEF FCommitting
<1>10. FRunning'
  BY <1>1, <1>9 DEF FRunning, StackExact
<1> QED
  BY <1>8, <1>10 DEF FInv

LEMMA LeaveKeepsFInv == ASSUME Inv, FInv, Leave, FDone, FLeave PROVE FInv'
<1>1. /\ pc = "commit" /\ node # "root" /\ taken = node /\ node' = "root"
      /\ UNCHANGED pc /\ UNCHANGED taken /\ UNCHANGED cond
      /\ fleft = {} /\ ~ topleft
      /\ fleft' = DOMAIN fupdates["root"].freg
      /\ topleft' = (fupdates["root"].ftop # 0)
      /\ UNCHANGED <<fupdates, fwant>> /\ UNCHANGED <<FPUR, top, ftmps>>
  BY DEF Inv, Running, Leave, FDone, FLeave, Pending, symbolic, ftree
<1>2. PICK t \in Index : FCommitting(t)
  BY <1>1 DEF FInv, FRunning
<1>3. FTypeOK' /\ FExecuted' /\ FBuilt'
  BY <1>1 DEF FInv, FTypeOK, FExecuted, FBuilt
<1>4. FCommitting(t)'
  <2>1. \A i \in Index : FCommitted(i)' = FCommitted(i)
    BY <1>1 DEF FCommitted, OnPath
  <2>2. TopCommitted' = TopCommitted
    BY <1>1 DEF TopCommitted, OnPath
  <2> QED
    BY <1>1, <1>2, <2>1, <2>2 DEF FCommitting
<1>5. FRunning'
  BY <1>1, <1>4 DEF FRunning, StackExact
<1> QED
  BY <1>3, <1>5 DEF FInv

\* Once all updates are made, ST(i) is found from the new top.
LEMMA UpdatedKeepsFInv ==
  ASSUME Inv, FInv, Updated, FDone, UNCHANGED fvars
  PROVE  FInv'
<1>1. /\ pc = "commit" /\ node = "root" /\ pc' = "branch"
      /\ UNCHANGED node /\ UNCHANGED taken /\ UNCHANGED cond
      /\ fleft = {} /\ ~ topleft
      /\ UNCHANGED <<ftop, fpuregs, stack, fval, fops, fsaved>>
      /\ UNCHANGED <<fupdates, fwant>> /\ UNCHANGED <<FPUR, top, ftmps, fleft, topleft>>
  BY DEF Updated, FDone, symbolic, runtime, fvars, fsymbolic, ftree, fruntime
<1>2. PICK t \in Index : FCommitting(t)
  BY <1>1 DEF FInv, FRunning
<1>3. /\ FTypeOK /\ taken \in Node /\ (taken = "root" <=> cond = none)
      /\ FUpdate(fupdates[taken]) /\ FUpdate(fupdates["root"])
  BY <1>1 DEF FInv, FTypeOK, Inv, TypeOK, Running, Node
<1> DEFINE r == fupdates["root"]
           u == fupdates[taken]
           v == IF taken = "root" THEN NoUpdates ELSE r
           T == LeftTop(u, v)
<1>4. FLead(u, v, fwant[taken])
  BY <1>1, <1>3 DEF FInv, FBuilt, Node
<1>5. DOMAIN NoUpdates.freg = {} /\ NoUpdates.ftop = 0 /\ 0 \in Index
  BY DepthAssumption DEF NoUpdates, Index
<1>6. T \in Index
  BY <1>3, <1>5 DEF LeftTop, FUpdate
<1>7. TopCommitted = T
  BY <1>1, <1>4, <1>5 DEF TopCommitted, OnPath, LeftTop, FLead
<1>8. \A j \in Index : FCommitted(j) = Left(u, v, j)
  BY <1>1, <1>4, <1>5 DEF FCommitted, OnPath, Left, FLead
<1> HIDE DEF T
<1>9. top = (t + T) % Depth /\ t \in Int /\ T \in Int /\ t + T \in Int
  BY <1>2, <1>6, <1>7, RingIndex DEF FCommitting
<1>10. ASSUME NEW i \in Index
       PROVE  FPUR[(top + i) % Depth] = fwant[taken][i]
  <2> DEFINE j == (T + i) % Depth
  <2>1. i \in Int /\ T + i \in Int
    BY <1>9, RingIndex
  <2>2. j \in Index /\ j \in Int
    BY <2>1, InRing, RingIndex
  <2>3. (top + i) % Depth = ((t + T) + i) % Depth
    BY <1>9, <2>1, RingSum
  <2>4. (j + t) % Depth = ((T + i) + t) % Depth
    BY <1>9, <2>1, RingSum
  <2>5. (t + T) + i = (T + i) + t /\ j + t = t + j
    BY <1>9, <2>1, <2>2
  <2>6. fwant[taken][i] = Left(u, v, j)
    BY <1>4 DEF FLead, T
  <2>7. FPUR[(t + j) % Depth] = Left(u, v, j)
    BY <1>2, <1>8, <2>2 DEF FCommitting
  <2> QED
    BY <2>3, <2>4, <2>5, <2>6, <2>7
<1>11. FTypeOK' /\ FExecuted' /\ FBuilt'
  BY <1>1 DEF FInv, FTypeOK, FExecuted, FBuilt
<1>12. StackExact'
  BY <1>1, <1>10 DEF StackExact
<1>13. FRunning'
  BY <1>1, <1>12 DEF FRunning
<1> QED
  BY <1>11, <1>13 DEF FInv

-----------------------------------------------------------------------------
(* Theorems about the FPU.                                                 *)

\* The registers of the FPU do not disturb the others: an instruction that
\* uses both does to the latter what Instruction.tla says (Core, core.hh).
THEOREM Projection == CoreSpec => Spec
<1>1. CoreInit => Init
  BY DEF CoreInit
<1>2. CoreNext => [Next]_vars
  BY DEF CoreNext, Access86, Access87, Commit86, Commit87, Next
<1>3. UNCHANGED coreVars => UNCHANGED vars
  BY DEF coreVars
<1>4. [CoreNext]_coreVars => [Next]_vars
  BY <1>2, <1>3
<1> QED
  BY <1>1, <1>4, PTL DEF CoreSpec, Spec

\* An instruction leaves in each ST(i) what its pushes, pops and writes mean,
\* for any number of registers and of accesses, from any top, and in any order
\* of the updates (FTop, FRegID, core.hh; close, core.cc).
THEOREM StackExactness == CoreSpec => []StackExact
<1>1. Inv /\ FInv /\ [CoreNext]_coreVars => FInv'
  <2> SUFFICES ASSUME Inv, FInv, [CoreNext]_coreVars PROVE FInv'
    OBVIOUS
  <2>1. CASE Access86
    BY <2>1, FUnmoved DEF Access86, Read, Write, Move, Step, runtime
  <2>2. CASE Access87
    BY <2>2, Access87KeepsFInv
  <2>3. CASE Concretize /\ Room /\ FConcretize
    BY <2>3, ConcretizeKeepsFInv
  <2>4. CASE SetNip /\ UNCHANGED fvars
    BY <2>4, FUnmoved DEF SetNip, runtime
  <2>5. CASE Close /\ FClose
    BY <2>5, CloseKeepsFInv
  <2>6. CASE Enter /\ FEnter
    BY <2>6, EnterKeepsFInv
  <2>7. CASE Test /\ FTest
    BY <2>7, TestKeepsFInv
  <2>8. CASE Commit86
    BY <2>8, FUnmoved DEF Commit86, Commit, symbolic
  <2>9. CASE Commit87
    BY <2>9, FRegWriteKeepsFInv, FTopWriteKeepsFInv DEF Commit87
  <2>10. CASE Leave /\ FDone /\ FLeave
    BY <2>10, LeaveKeepsFInv
  <2>11. CASE Updated /\ FDone /\ UNCHANGED fvars
    BY <2>11, UpdatedKeepsFInv
  <2>12. CASE (Terminating /\ UNCHANGED fvars) \/ UNCHANGED coreVars
    BY <2>12, FUnmoved DEF Terminating, coreVars, vars, symbolic, runtime
  <2> QED
    BY <2>1, <2>2, <2>3, <2>4, <2>5, <2>6, <2>7, <2>8, <2>9, <2>10, <2>11, <2>12
    DEF CoreNext
<1>2. FInv => StackExact
  BY DEF FInv, FRunning
<1>3. CoreSpec => []Inv
  BY Projection, Invariance
<1> QED
  BY <1>1, <1>2, <1>3, FInvInit, PTL DEF CoreSpec
==============================================================================
