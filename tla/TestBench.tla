------------------------------ MODULE TestBench ------------------------------
(***************************************************************************)
(* uwt/trans/cfg_testbench.cc, CFG_TestBench::generate: a graph is made    *)
(* from the choices of a seed.  First a spanning tree is, by the recursive *)
(* function process, then the exits that the tree leaves are set.  Bloc i  *)
(* is that of gblocs[i - 1].                                               *)
(***************************************************************************)
EXTENDS Comprehensive, CollapseLoop

VARIABLES
  todo,      \* the calls of process still to come, the first one first
  subs,      \* the field subs of gblocs: the size of the tree of each bloc
  slot       \* the exit that is being considered: of which bloc, odd or not,
             \* and whether it is to be set

genVars == <<todo, subs, slot>>

NoBlocs == [pool |-> <<>>, exits |-> <<>>, prevcount |-> <<>>, stmts |-> <<>>,
            fresh |-> entry_bloc, error |-> "none", term |-> <<>>, source |-> <<>>,
            vars |-> 0, clash |-> FALSE]

\* A call of process: the new bloc is exit alt of from.
Call(from, alt, count) == [from |-> from, alt |-> alt, count |-> count]

\* The calls that process makes for bloc b when count blocs are left: t of them
\* go to the odd exit.
Calls(b, count, t) ==
  IF count = 0 THEN <<>>
  ELSE IF t = 0 THEN <<Call(b, FALSE, count)>>
  ELSE <<Call(b, FALSE, count - t), Call(b, TRUE, t)>>

\* The seed begins a wave for a graph of the given size, or has no other one.
Poll(size) ==
  /\ phase = "poll"
  /\ NextWave
  /\ IF seed' = "wave"
       THEN /\ phase' = "tree"
            /\ todo' = <<Call(nil, FALSE, size)>>
       ELSE /\ phase' = IF seed' = "stopped" THEN "finished" ELSE "thrown"
            /\ UNCHANGED todo
  /\ lab' = NoBlocs
  /\ subs' = <<>>
  /\ UNCHANGED <<slot, minsize>>

\* A call of process, up to its own calls.  The exit of the caller is set when
\* process returns in the code; nothing reads it before.
Process ==
  /\ phase = "tree" /\ todo # <<>>
  /\ LET call == Head(todo)
         b == lab.fresh
         made == NewBloc(lab, << <<"nop", b>> >>)
         count == call.count - 1
     IN /\ lab' = IF call.from = nil THEN made ELSE SetExit(made, call.from, call.alt, b)
        /\ subs' = Append(subs, call.count)
        /\ IF count > 1
             THEN /\ Choose(count)
                  /\ todo' = Calls(b, count, Chosen) \o Tail(todo)
             ELSE /\ todo' = Calls(b, count, 0) \o Tail(todo)
                  /\ UNCHANGED seedVars
  /\ UNCHANGED <<phase, minsize, slot>>

Spanned ==
  /\ phase = "tree" /\ todo = <<>>
  /\ phase' = "edges"
  /\ slot' = [bloc |-> 1, alt |-> FALSE, set |-> FALSE]
  /\ UNCHANGED <<lab, minsize, todo, subs, seedVars>>

NextBloc == [bloc |-> slot.bloc + 1, alt |-> FALSE, set |-> FALSE]

\* Mutant: once an exit is set, the other one is not considered.
NextSlotBreaks == NextBloc

NextSlot == IF slot.alt THEN NextBloc ELSE [slot EXCEPT !.alt = TRUE, !.set = FALSE]

\* Mutant: only the blocs met before.
EndingsBefore(b) == b - 1

\* The number of blocs that the search of the tree has met before bloc b, or
\* that descend from it.
Endings(b) == b - 1 + subs[b]

Considering == phase = "edges" /\ slot.bloc <= Len(subs)

\* The exit is an edge of the tree.
Keep ==
  /\ Considering /\ ~ slot.set
  /\ Get(lab.exits[slot.bloc], slot.alt) # nil
  /\ slot' = NextSlot
  /\ UNCHANGED <<phase, lab, minsize, todo, subs, seedVars>>

\* The exit is set or, like the next one, it is not.
Offer ==
  /\ Considering /\ ~ slot.set
  /\ Get(lab.exits[slot.bloc], slot.alt) = nil
  /\ Choose(2)
  /\ slot' = IF Chosen = 1 THEN NextBloc ELSE [slot EXCEPT !.set = TRUE]
  /\ UNCHANGED <<phase, lab, minsize, todo, subs>>

\* It may lead to any of them, but not where the other exit leads.
Link ==
  /\ Considering /\ slot.set
  /\ Choose(Endings(slot.bloc))
  /\ LET ending == Chosen + 1
     IN IF ending = Get(lab.exits[slot.bloc], ~ slot.alt)
          THEN slot' = NextBloc /\ UNCHANGED lab
          ELSE /\ slot' = NextSlot
               /\ lab' = SetExit(lab, slot.bloc, slot.alt, ending)
  /\ UNCHANGED <<phase, minsize, todo, subs>>

\* setroot.
Generated ==
  /\ phase = "edges" /\ slot.bloc > Len(subs)
  /\ WaveEnd
  /\ phase' = "made"
  /\ lab' = [lab EXCEPT !.prevcount = Ref(@, entry_bloc)]
  /\ UNCHANGED <<minsize, genVars>>

Generate == Process \/ Spanned \/ Keep \/ Offer \/ Link \/ Generated
=============================================================================
