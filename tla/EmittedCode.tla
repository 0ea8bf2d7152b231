----------------------------- MODULE EmittedCode -----------------------------
(***************************************************************************)
(* The meaning of the structured code that CFG::collapse leaves in the     *)
(* last bloc and FunctionLab::translate prints: the statements of          *)
(* uwt/trans/ctrlstmt.cc and those of cfg.cc, read as C++.  The braces     *)
(* that the statements open and close are matched here, as the compiler of *)
(* the generated source does.                                              *)
(*                                                                         *)
(* Tokens: <<"for">>      for (;;) {                                       *)
(*         <<"if", a>>    if( lcc ) { when a, else if( not (lcc) ) {       *)
(*         <<"else">>     } else {                                         *)
(*         <<"}">>        }                                                *)
(*         <<"ifBreak", a>>, <<"ifContinue", a>>, <<"break">>,             *)
(*         <<"continue">>                                                  *)
(***************************************************************************)
EXTENDS Naturals, Sequences, FiniteSets, FiniteSetsExt

Opens(t) == t[1] \in {"for", "if", "else"}
Closes(t) == t[1] \in {"else", "}"}

\* The number of blocks open between i and j, both excluded.
Depth(code, i, j) ==
  Cardinality({k \in i + 1 .. j - 1 : Opens(code[k])})
    - Cardinality({k \in i + 1 .. j - 1 : Closes(code[k])})

\* The token that closes the block opened at i.
BlockEnd(code, i) ==
  Min({j \in i + 1 .. Len(code) : Closes(code[j]) /\ Depth(code, i, j) = 0})

\* The token that opens the block closed at j.
BlockBegin(code, j) ==
  CHOOSE i \in 1 .. j - 1 : Opens(code[i]) /\ BlockEnd(code, i) = j

\* The innermost loop around i.
LoopAround(code, i) ==
  Max({k \in 1 .. i - 1 : code[k] = <<"for">> /\ BlockEnd(code, k) > i})

\* Every block is closed, and jumps are inside loops.
WellFormed(code) ==
  /\ \A j \in 1 .. Len(code) + 1 : Depth(code, 0, j) >= 0
  /\ Depth(code, 0, Len(code) + 1) = 0
  /\ \A i \in DOMAIN code :
       code[i][1] \in {"ifBreak", "ifContinue", "break", "continue"} =>
         \E k \in 1 .. i - 1 : code[k] = <<"for">> /\ BlockEnd(code, k) > i

\* Where control goes from the token at i, when lcc has value c.
Continue(code, i) == LoopAround(code, i) + 1
Break(code, i) == BlockEnd(code, LoopAround(code, i)) + 1

Goto(code, i, c) ==
  LET t == code[i]
  IN CASE t[1] = "if" -> IF c = t[2] THEN i + 1 ELSE BlockEnd(code, i) + 1
       [] t[1] = "else" -> BlockEnd(code, i) + 1
       [] t[1] = "}" -> IF code[BlockBegin(code, i)] = <<"for">>
                          THEN BlockBegin(code, i) + 1 ELSE i + 1
       [] t[1] = "break" -> Break(code, i)
       [] t[1] = "continue" -> Continue(code, i)
       [] t[1] = "ifBreak" -> IF c = t[2] THEN Break(code, i) ELSE i + 1
       [] t[1] = "ifContinue" -> IF c = t[2] THEN Continue(code, i) ELSE i + 1
       [] OTHER -> i + 1

\* The tokens that read lcc.
TestsLcc(t) == t[1] \in {"if", "ifBreak", "ifContinue"}
==============================================================================
