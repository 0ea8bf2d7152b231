---------------------------- MODULE Comprehensive ----------------------------
(***************************************************************************)
(* uwt/trans/cfg_testbench.hh and .cc, Comprehensive: the seed that makes  *)
(* a client, which asks it for choices, go through all of its choices.  A  *)
(* wave is one run of the client.  The seed replays the choices of the     *)
(* wave before but the last that had another value left, which gets its    *)
(* next value; new choices start at 0.                                     *)
(*                                                                         *)
(* The client is any that, after the same answers, asks for the same       *)
(* number of alternatives: its decisions form a tree, and the waves should *)
(* be the leaves of the tree, in lexicographic order.                      *)
(***************************************************************************)
EXTENDS Naturals, Sequences

CONSTANTS
  Counts,    \* the numbers of alternatives that the client asks for
  MaxDepth   \* bound: the number of choices of a wave

ASSUME CountsAssumption == Counts \subseteq Nat \ {0}
ASSUME DepthAssumption == MaxDepth \in Nat

VARIABLES
  choices,   \* the chain of Choice after base: their count and value
  tail,      \* the position of base.tail in it; 0 is base
  seed,      \* "wave", "over" between waves, "stopped" by Stop, or "thrown"
  before     \* history: the choices of the wave before, <<>> in the first

seedVars == <<choices, tail, seed, before>>

SeedInit == choices = <<>> /\ tail = 0 /\ seed = "over" /\ before = <<>>

\* The answer of choose, whatever is asked.
Chosen == IF tail < Len(choices) THEN choices[tail + 1].value ELSE 0

\* choose: a choice that was not made by the wave before starts at 0; the same
\* choice, if it is not the same number of alternatives, throws.
Choose(count) ==
  /\ seed = "wave"
  /\ tail' = tail + 1
  /\ choices' = IF tail < Len(choices) THEN choices
                ELSE Append(choices, [count |-> count, value |-> 0])
  /\ seed' = IF tail < Len(choices) /\ choices[tail + 1].count # count THEN "thrown" ELSE seed
  /\ UNCHANGED before

\* The client returns.
WaveEnd ==
  /\ seed = "wave"
  /\ seed' = "over"
  /\ UNCHANGED <<choices, tail, before>>

\* Whether choice i has another value left.
Left(cs, i) == cs[i].value + 1 < cs[i].count

\* Mutant: the choices after the one that is incremented are not deleted.
IncrementInPlace(cs, k) == [cs EXCEPT ![k].value = @ + 1]

\* The choices that remain when the last one that has a value left, k, takes it.
Increment(cs, k) == [i \in 1 .. k |-> IF i = k THEN [cs[i] EXCEPT !.value = @ + 1] ELSE cs[i]]

\* nextwave: the choices that have no value left are deleted from the end.
NextWave ==
  /\ seed = "over"
  /\ \/ /\ tail < Len(choices)          \* the wave before made fewer choices
        /\ seed' = "thrown"
        /\ UNCHANGED <<choices, tail, before>>
     \/ /\ tail = 0 /\ choices = <<>>   \* the first wave
        /\ seed' = "wave"
        /\ UNCHANGED <<choices, tail, before>>
     \/ /\ tail = Len(choices)
        /\ \E k \in DOMAIN choices :
             /\ Left(choices, k)
             /\ \A i \in k + 1 .. Len(choices) : ~ Left(choices, i)
             /\ choices' = Increment(choices, k)
        /\ tail' = 0
        /\ before' = choices
        /\ seed' = "wave"
     \/ /\ tail = Len(choices) /\ choices # <<>>
        /\ \A i \in DOMAIN choices : ~ Left(choices, i)
        /\ choices' = <<>>
        /\ seed' = "stopped"
        /\ before' = choices
        /\ UNCHANGED tail

\* The client knows how many alternatives it wants from the answers it had,
\* and returns when it did after the same answers.
Client ==
  \/ /\ tail < Len(choices)
     /\ Choose(choices[tail + 1].count)
  \/ /\ tail = Len(choices) /\ tail < MaxDepth
     /\ \E count \in Counts : Choose(count)
  \/ /\ tail = Len(choices) /\ tail > 0
     /\ WaveEnd

SeedNext == Client \/ NextWave

SeedSpec == SeedInit /\ [][SeedNext]_seedVars

-----------------------------------------------------------------------------
(* Properties.                                                             *)

\* The choices cs are the first of the lexicographic successor of wave w: w up
\* to the last choice that has a value left, the next value of this one, and 0
\* from then on.
Succeeds(cs, w) ==
  \E k \in DOMAIN cs :
    /\ k \in DOMAIN w /\ Left(w, k)
    /\ \A i \in k + 1 .. Len(w) : ~ Left(w, i)
    /\ \A i \in 1 .. k : cs[i] = Increment(w, k)[i]
    /\ \A i \in k + 1 .. Len(cs) : cs[i].value = 0

\* Types; and a wave has replayed its choices when it is over.
SeedType ==
  /\ choices \in Seq([count : Counts, value : Nat])
  /\ before \in Seq([count : Counts, value : Nat])
  /\ \A i \in DOMAIN choices : choices[i].value < choices[i].count
  /\ tail \in Nat
  /\ seed \in {"wave", "over", "stopped", "thrown"}
  /\ seed \in {"wave", "over"} => tail <= Len(choices)
  /\ seed = "over" => tail = Len(choices)

\* No leaf of the tree is skipped and none comes twice: the first wave is the
\* first leaf, each wave is the successor of the one before, and the seed stops
\* after the last leaf.
Lexicographic ==
  /\ seed # "thrown"
  /\ seed = "stopped" => \A i \in DOMAIN before : ~ Left(before, i)
  /\ seed \in {"wave", "over"} =>
       IF before = <<>> THEN \A i \in DOMAIN choices : choices[i].value = 0
                        ELSE Succeeds(choices, before)
=============================================================================
