------------------------------- MODULE MCScan -------------------------------
(***************************************************************************)
(* Scan on small graphs (scan is run on graphs of 6 blocs, and test on     *)
(* graphs of 8), with its fairness written so that TLC sees from phase     *)
(* alone whether a step is possible: a variable more changes at each step, *)
(* and it is that change which is fair.  A step is possible in every state *)
(* before the end, or TLC finds a deadlock, so that WF_tick(Tick) says     *)
(* what WF_vars(Progress) says.                                            *)
(***************************************************************************)
EXTENDS Scan

VARIABLE tick   \* the parity of the number of steps taken

Tick == phase \notin Final /\ tick' = ~ tick

TickInit == Init /\ tick = FALSE

TickNext == \/ Progress /\ Tick
            \/ Over /\ UNCHANGED tick

TickSpec == TickInit /\ [][TickNext]_<<vars, tick>> /\ WF_tick(Tick)

MCSize == [scan |-> 3, test |-> 4]
=============================================================================
