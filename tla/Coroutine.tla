------------------------------ MODULE Coroutine ------------------------------
(***************************************************************************)
(* What an execution context promises to the scheduler, independently of   *)
(* how control changes hands: the scheduler ("main") and the translated    *)
(* program ("side") run in strict alternation, the scheduler learns the    *)
(* state of the context exactly when control comes back to it, and a       *)
(* context that has ended is never resumed.  Context.tla implements it     *)
(* with two threads and three rotating mutexes.                            *)
(***************************************************************************)

CONSTANT Ended   \* the states in which a context has stopped for good

VARIABLES
  control,       \* who runs: "main" or "side"
  status         \* what the scheduler knows of the context

vars == <<control, status>>

\* Context::State, "Running" apart.
TypeOK == /\ control \in {"main", "side"}
          /\ status \in Ended \union {"Running"}

Init == control = "main" /\ status = "Running"

\* The scheduler lets the context run (a call of Context::cont).
Resume == /\ control = "main" /\ status = "Running"
          /\ control' = "side"
          /\ UNCHANGED status

\* The context hands control back and may be resumed later.
Yield == /\ control = "side"
         /\ control' = "main"
         /\ UNCHANGED status

\* The context ends and hands control back for the last time.
Finish == /\ control = "side"
          /\ control' = "main"
          /\ status' \in Ended

Next == Resume \/ Yield \/ Finish

Spec == Init /\ [][Next]_vars /\ WF_vars(Resume)
==============================================================================
