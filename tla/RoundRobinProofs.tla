-------------------------- MODULE RoundRobinProofs --------------------------
(***************************************************************************)
(* Proofs about the two round robins of the program.                       *)
(*                                                                         *)
(* Context.tla: three mutexes in rotation hand the control over between    *)
(* the scheduler and the translated program.                               *)
(*                                                                         *)
(* FlagFlow.tla, for pools of any size and any set of flags: the analysis, *)
(* which goes round the blocs, keeps its window of settled blocs, hence    *)
(* ends on a solution of its equations; the solution is the least one; and *)
(* a function whose writes are filtered by it reads the right flags, as    *)
(* long as an instruction that may write a flag always does.               *)
(***************************************************************************)
EXTENDS Context, FlagFlow, TLAPS

-----------------------------------------------------------------------------
(* The arithmetic of the rotation.                                         *)

\* Three turns come back to the first; no two consecutive ones coincide.
LEMMA RotTurn ==
  ASSUME NEW t \in Turn
  PROVE  /\ Rot(t, 1) \in Turn /\ Rot(t, 2) \in Turn
         /\ Rot(Rot(t, 1), 2) = t /\ Rot(Rot(t, 2), 1) = t
         /\ Rot(t, 1) # t /\ Rot(t, 2) # t /\ Rot(t, 1) # Rot(t, 2)
<1>1. t = 0 \/ t = 1 \/ t = 2
  BY DEF Turn, s_turns
<1>2. CASE t = 0
  BY <1>2 DEF Turn, s_turns, Rot
<1>3. CASE t = 1
  BY <1>3 DEF Turn, s_turns, Rot
<1>4. CASE t = 2
  BY <1>4 DEF Turn, s_turns, Rot
<1>5. QED
  BY <1>1, <1>2, <1>3, <1>4

-----------------------------------------------------------------------------
\* The variables keep their types (uwt/x86/context.cc, cont, run and yield).
THEOREM TypeCorrect == Spec => []TypeOK
<1>1. Init => TypeOK
  BY DEF Init, TypeOK, Turn, s_turns, State, Ended, PcMain, PcSide,
         Exception, Cause
<1>2. TypeOK /\ [Next]_vars => TypeOK'
  <2> SUFFICES ASSUME TypeOK, [Next]_vars
               PROVE  TypeOK'
    OBVIOUS
  <2> USE DEF TypeOK
  <2>1. CASE Main
    <3>1. m_rotmutex' \in [Turn -> BOOLEAN] /\ UNCHANGED sideVars
      BY <2>1 DEF Main, ContEnter, ContUnlock, ContLock, ContState, ContJoin,
                  ContRelease, Switch, Leave, Lock, Unlock
    <3>2. pcMain' \in PcMain /\ turn' \in Turn
      BY <2>1 DEF Main, ContEnter, ContUnlock, ContLock, ContState, ContJoin,
                  ContRelease, Switch, Leave, PcMain
    <3>3. QED
      BY <3>1, <3>2 DEF sideVars
  <2>2. CASE Host
    <3>1. m_turn' \in Turn
      BY <2>2, RotTurn DEF Host, HostYield, HostRequest, HostExit,
         HostInterrupt, HostThrow, HostReturn, Unwind
    <3>2. UNCHANGED <<m_rotmutex, mainVars>>
      BY <2>2 DEF Host, HostYield, HostRequest, HostExit, HostInterrupt,
                  HostThrow, HostReturn, Unwind
    <3>3. /\ pcSide' \in PcSide /\ thrown' \in Exception
          /\ cause' \in Cause /\ m_state' \in State
      BY <2>2 DEF Host, HostYield, HostRequest, HostExit, HostInterrupt,
                  HostThrow, HostReturn, Unwind, PcSide, Exception, Cause,
                  State, Ended
    <3>4. QED
      BY <3>1, <3>2, <3>3 DEF mainVars
  <2>3. CASE Run
    <3>1. m_rotmutex' \in [Turn -> BOOLEAN] /\ UNCHANGED <<mainVars, m_turn>>
      BY <2>3 DEF Run, RunLock, YieldUnlock, YieldLock, YieldState, RunCatch,
                  RunEnd, RunUnlock, PthreadExit, Lock, Unlock
    <3>2. m_state' \in State
      BY <2>3 DEF Run, RunLock, YieldUnlock, YieldLock, YieldState, RunCatch,
                  RunEnd, RunUnlock, PthreadExit, Caught, State, Ended,
                  Exception
    <3>3. pcSide' \in PcSide /\ thrown' \in Exception /\ cause' \in Cause
      BY <2>3 DEF Run, RunLock, YieldUnlock, YieldLock, YieldState, RunCatch,
                  RunEnd, RunUnlock, PthreadExit, PcSide, Exception, Cause
    <3>4. QED
      BY <3>1, <3>2, <3>3 DEF mainVars
  <2>4. CASE Gone \/ UNCHANGED vars
    BY <2>4 DEF Gone, vars
  <2>5. QED
    BY <2>1, <2>2, <2>3, <2>4 DEF Next
<1>3. QED
  BY <1>1, <1>2, PTL DEF Spec

-----------------------------------------------------------------------------
(* The phases of a hand-over.                                              *)

\* Init is in PhaseMain.
LEMMA RotationInit == Init => Rotation
BY DEF Init, Rotation, PhaseMain, SideWaits, AllLocked, SideUndisturbed

\* A step of the scheduler moves on from the phases in which it is not blocked.
LEMMA RotationMain == TypeOK /\ Rotation /\ Main => Rotation'
<1> SUFFICES ASSUME TypeOK, Rotation, Main
             PROVE  Rotation'
  OBVIOUS
<1> USE DEF TypeOK
<1>0. UNCHANGED sideVars /\ SideUndisturbed'
  BY DEF Main, ContEnter, ContUnlock, ContLock, ContState, ContJoin,
         ContRelease, Switch, Leave, Rotation, SideUndisturbed, sideVars
<1>1. CASE ContEnter
  <2>1. PhaseMain
    BY <1>1 DEF ContEnter, Rotation, PhaseResume, PhaseSide, PhaseYield,
                PhaseLast, PhaseEnd
  <2>2. PhaseMain'
    BY <1>0, <1>1, <2>1 DEF ContEnter, PhaseMain, SideWaits, AllLocked, sideVars
  <2>3. QED
    BY <1>0, <2>2 DEF Rotation
<1>2. CASE ContUnlock
  <2>1. PhaseMain
    BY <1>2 DEF ContUnlock, Rotation, PhaseResume, PhaseSide, PhaseYield,
                PhaseLast, PhaseEnd
  <2>2. m_rotmutex' = [j \in Turn |-> j # Rot(turn, 1)]
    BY <1>2, <2>1, RotTurn DEF ContUnlock, PhaseMain, AllLocked, Unlock
  <2>3. PhaseResume'
    BY <1>0, <1>2, <2>1, <2>2 DEF ContUnlock, PhaseMain, PhaseResume,
       SideWaits, OnlyFree, sideVars
  <2>4. QED
    BY <1>0, <2>3 DEF Rotation
<1>3. CASE ContLock
  <2>1. ~ PhaseMain /\ ~ PhaseEnd /\ ~ PhaseSide
    BY <1>3 DEF ContLock, Lock, PhaseMain, PhaseEnd, PhaseSide, AllLocked
  <2>2. ~ PhaseResume
    BY <1>3, RotTurn DEF ContLock, Lock, PhaseResume, OnlyFree
  <2>3. ASSUME OnlyFree(turn)
        PROVE  m_rotmutex' = [i \in Turn |-> TRUE]
    BY <1>3, <2>3 DEF ContLock, Lock, OnlyFree
  <2>4. PhaseYield => PhaseMain'
    BY <1>0, <1>3, <2>3 DEF ContLock, PhaseYield, PhaseMain, SideWaits,
       AllLocked, sideVars
  <2>5. PhaseLast => PhaseEnd'
    BY <1>0, <1>3, <2>3 DEF ContLock, PhaseLast, PhaseEnd, SideEnds, sideVars
  <2>6. QED
    BY <1>0, <2>1, <2>2, <2>4, <2>5 DEF Rotation
<1>4. CASE ContState \/ ContJoin \/ Switch \/ Leave
  <2>1. PhaseMain \/ PhaseEnd
    BY <1>4 DEF ContState, ContJoin, Switch, Leave, Rotation, PhaseResume,
                PhaseSide, PhaseYield, PhaseLast
  <2>2. PhaseMain => PhaseMain'
    BY <1>0, <1>4 DEF ContState, ContJoin, Switch, Leave, PhaseMain,
       SideWaits, AllLocked, sideVars
  <2>3. PhaseEnd => PhaseEnd'
    <3> SUFFICES ASSUME PhaseEnd PROVE PhaseEnd'
      OBVIOUS
    <3>1. UNCHANGED m_rotmutex
      BY <1>4 DEF ContState, ContJoin, Switch, Leave
    <3>2. m_rotmutex = [i \in Turn |->
                          \/ pcMain' \in {"contState", "join", "release0"}
                          \/ pcMain' = "release1" /\ i # 0
                          \/ pcMain' = "release2" /\ i = 2]
      BY <1>4 DEF ContState, ContJoin, Switch, Leave, PhaseEnd
    <3>3. QED
      BY <1>0, <1>4, <3>1, <3>2 DEF ContState, ContJoin, Switch, Leave,
         PhaseEnd, SideEnds, sideVars
  <2>4. QED
    BY <1>0, <2>1, <2>2, <2>3 DEF Rotation
<1>5. CASE ContRelease
  <2>1. PhaseEnd
    BY <1>5 DEF ContRelease, Rotation, PhaseMain, PhaseResume, PhaseSide,
                PhaseYield, PhaseLast
  <2>2. m_rotmutex' = [i \in Turn |->
                         \/ pcMain' \in {"contState", "join", "release0"}
                         \/ pcMain' = "release1" /\ i # 0
                         \/ pcMain' = "release2" /\ i = 2]
    BY <1>5, <2>1 DEF ContRelease, PhaseEnd, Unlock, Turn, s_turns
  <2>3. PhaseEnd'
    BY <1>0, <1>5, <2>1, <2>2 DEF ContRelease, PhaseEnd, SideEnds, sideVars
  <2>4. QED
    BY <1>0, <2>3 DEF Rotation
<1>6. QED
  BY <1>1, <1>2, <1>3, <1>4, <1>5 DEF Main

\* A step of the translated code keeps the side thread in its phase.
LEMMA RotationHost == TypeOK /\ Rotation /\ Host => Rotation'
<1> SUFFICES ASSUME TypeOK, Rotation, Host
             PROVE  Rotation'
  OBVIOUS
<1> USE DEF TypeOK
<1>1. pcSide = "host" /\ UNCHANGED <<m_rotmutex, mainVars>>
  BY DEF Host, HostYield, HostRequest, HostExit, HostInterrupt, HostThrow,
         HostReturn, Unwind
<1>2. PhaseSide
  BY <1>1 DEF Rotation, PhaseMain, PhaseResume, PhaseYield, PhaseLast,
              PhaseEnd, SideWaits, SideEnds
<1>3. turn' = IF pcSide' = "yieldUnlock" THEN Rot(m_turn', 2) ELSE m_turn'
  BY <1>1, <1>2, RotTurn DEF Host, HostYield, HostRequest, HostExit,
     HostInterrupt, HostThrow, HostReturn, Unwind, PhaseSide, mainVars
<1>4. PhaseSide'
  BY <1>1, <1>2, <1>3 DEF Host, HostYield, HostRequest, HostExit,
     HostInterrupt, HostThrow, HostReturn, Unwind, PhaseSide, SideRuns,
     AllLocked, mainVars
<1>5. SideUndisturbed'
  BY <1>1 DEF Host, HostYield, HostRequest, HostExit, HostInterrupt,
              HostThrow, HostReturn, Unwind, Rotation, SideUndisturbed
<1>6. QED
  BY <1>4, <1>5 DEF Rotation

\* The side thread gets the mutex it waits for in PhaseResume only, and all
\* mutexes are locked when it has it.
LEMMA SideResumes ==
  ASSUME TypeOK, Rotation, RunLock \/ YieldLock
  PROVE  PhaseResume /\ PhaseSide'
<1> USE DEF TypeOK
<1>0. UNCHANGED <<mainVars, m_turn, m_state>>
  BY DEF RunLock, YieldLock
<1>1. Lock(Rot(m_turn, 1))
  BY DEF RunLock, YieldLock, Rotation, SideUndisturbed, Rot, s_turns
<1>2. SideWaits /\ ~ m_rotmutex[Rot(m_turn, 1)]
  BY <1>1 DEF RunLock, YieldLock, Lock, SideWaits
<1>3. ~ PhaseMain /\ ~ PhaseSide
  BY <1>2, RotTurn DEF PhaseMain, PhaseSide, SideWaits, SideRuns, AllLocked
<1>4. ~ PhaseLast /\ ~ PhaseEnd
  BY <1>2 DEF PhaseLast, PhaseEnd, SideWaits, SideEnds
<1>5. ~ PhaseYield
  BY <1>2, RotTurn DEF PhaseYield, OnlyFree
<1>6. PhaseResume
  BY <1>3, <1>4, <1>5 DEF Rotation
<1>7. m_rotmutex' = [i \in Turn |-> TRUE]
  BY <1>1, <1>6, RotTurn DEF PhaseResume, OnlyFree, Lock
<1>8. PhaseSide'
  BY <1>0, <1>6, <1>7 DEF RunLock, YieldLock, PhaseResume, PhaseSide,
     SideRuns, AllLocked, mainVars
<1>9. QED
  BY <1>6, <1>8

\* A step of the side thread in context.cc.
LEMMA RotationRun == TypeOK /\ Rotation /\ Run => Rotation'
<1> SUFFICES ASSUME TypeOK, Rotation, Run
             PROVE  Rotation'
  OBVIOUS
<1> USE DEF TypeOK
<1>0. UNCHANGED <<mainVars, m_turn>>
  BY DEF Run, RunLock, YieldUnlock, YieldLock, YieldState, RunCatch, RunEnd,
         RunUnlock, PthreadExit
<1>1. CASE RunLock \/ YieldLock
  BY <1>1, SideResumes DEF RunLock, YieldLock, Rotation, SideUndisturbed
<1>2. CASE YieldUnlock
  <2>1. PhaseSide
    BY <1>2 DEF YieldUnlock, Rotation, PhaseMain, PhaseResume, PhaseYield,
                PhaseLast, PhaseEnd, SideWaits, SideEnds
  <2>2. turn = Rot(m_turn, 2) /\ m_state = "Running"
    BY <1>2, <2>1 DEF YieldUnlock, PhaseSide
  <2>3. m_rotmutex' = [j \in Turn |-> j # turn]
    BY <1>2, <2>1, <2>2 DEF YieldUnlock, Unlock, PhaseSide, AllLocked
  <2>4. PhaseYield'
    BY <1>0, <1>2, <2>1, <2>2, <2>3 DEF YieldUnlock, PhaseSide, PhaseYield,
       OnlyFree, mainVars
  <2>5. SideUndisturbed'
    BY <1>2 DEF YieldUnlock, Rotation, SideUndisturbed
  <2>6. QED
    BY <2>4, <2>5 DEF Rotation
<1>3. CASE YieldState \/ RunCatch \/ RunEnd
  <2>1. PhaseSide
    BY <1>3 DEF YieldState, RunCatch, RunEnd, Rotation, PhaseMain,
                PhaseResume, PhaseYield, PhaseLast, PhaseEnd, SideWaits, SideEnds
  <2>2. PhaseSide'
    BY <1>0, <1>3, <2>1 DEF YieldState, RunCatch, RunEnd, PhaseSide, SideRuns,
       AllLocked, mainVars
  <2>3. SideUndisturbed'
    BY <1>3, <2>1 DEF YieldState, RunCatch, RunEnd, PhaseSide, Rotation,
       SideUndisturbed
  <2>4. QED
    BY <2>2, <2>3 DEF Rotation
<1>4. CASE RunUnlock
  <2>1. PhaseSide
    BY <1>4 DEF RunUnlock, Rotation, PhaseMain, PhaseResume, PhaseYield,
                PhaseLast, PhaseEnd, SideWaits, SideEnds
  <2>2. turn = m_turn /\ m_state # "Running"
    BY <1>4, <2>1 DEF RunUnlock, PhaseSide
  <2>3. m_rotmutex' = [j \in Turn |-> j # turn]
    BY <1>4, <2>1, <2>2, RotTurn DEF RunUnlock, Unlock, PhaseSide, AllLocked
  <2>4. PhaseLast'
    BY <1>0, <1>4, <2>1, <2>2, <2>3 DEF RunUnlock, PhaseSide, PhaseLast,
       SideEnds, OnlyFree, mainVars
  <2>5. SideUndisturbed'
    BY <1>4 DEF RunUnlock, Rotation, SideUndisturbed
  <2>6. QED
    BY <2>4, <2>5 DEF Rotation
<1>5. CASE PthreadExit
  <2>1. PhaseLast \/ PhaseEnd
    BY <1>5 DEF PthreadExit, Rotation, PhaseMain, PhaseResume, PhaseSide,
                PhaseYield, SideWaits, SideRuns
  <2>2. PhaseLast => PhaseLast'
    BY <1>0, <1>5 DEF PthreadExit, PhaseLast, SideEnds, OnlyFree, mainVars
  <2>3. PhaseEnd => PhaseEnd'
    BY <1>0, <1>5 DEF PthreadExit, PhaseEnd, SideEnds, mainVars
  <2>4. SideUndisturbed'
    BY <1>5 DEF PthreadExit, Rotation, SideUndisturbed
  <2>5. QED
    BY <2>1, <2>2, <2>3, <2>4 DEF Rotation
<1>6. QED
  BY <1>1, <1>2, <1>3, <1>4, <1>5 DEF Run

\* Every reachable state is in one of the phases of a hand-over.
THEOREM RotationInvariant == Spec => []Rotation
<1>1. TypeOK /\ Rotation /\ [Next]_vars => Rotation'
  <2> SUFFICES ASSUME TypeOK, Rotation, [Next]_vars
               PROVE  Rotation'
    OBVIOUS
  <2>1. CASE Gone \/ UNCHANGED vars
    BY <2>1 DEF Gone, vars, Rotation, PhaseMain, PhaseResume, PhaseSide,
       PhaseYield, PhaseLast, PhaseEnd, SideWaits, SideRuns, SideEnds,
       AllLocked, OnlyFree, SideUndisturbed
  <2>2. QED
    BY <2>1, RotationMain, RotationHost, RotationRun DEF Next
<1>2. QED
  BY <1>1, RotationInit, TypeCorrect, PTL DEF Spec

-----------------------------------------------------------------------------
(* The consequences: what a user of Context relies on.                     *)

\* The scheduler and the translated program never run at the same time.
THEOREM MutualExclusion == Spec => []NonPreemptive
<1>1. Rotation => NonPreemptive
  BY DEF Rotation, PhaseMain, PhaseResume, PhaseSide, PhaseYield, PhaseLast,
         PhaseEnd, NonPreemptive, MainRuns, SideRuns, SideWaits, SideEnds
<1>2. QED
  BY <1>1, RotationInvariant, PTL

\* Only locked mutexes are unlocked, so that no signal is doubled.
THEOREM NoDoubleSignal == Spec => []UnlocksLocked
<1>1. ASSUME TypeOK, Rotation
      PROVE  UnlocksLocked
  <2> USE <1>1 DEF TypeOK
  <2>1. PhaseMain => UnlocksLocked
    BY RotTurn DEF PhaseMain, UnlocksLocked, SideWaits, AllLocked
  <2>2. PhaseResume => UnlocksLocked
    BY DEF PhaseResume, UnlocksLocked, SideWaits
  <2>3. PhaseSide => UnlocksLocked
    BY RotTurn DEF PhaseSide, UnlocksLocked, SideRuns, AllLocked
  <2>4. PhaseYield \/ PhaseLast => UnlocksLocked
    BY DEF PhaseYield, PhaseLast, UnlocksLocked, SideEnds
  <2>5. PhaseEnd => UnlocksLocked
    BY DEF PhaseEnd, UnlocksLocked, SideEnds, Turn, s_turns
  <2>6. QED
    BY <2>1, <2>2, <2>3, <2>4, <2>5 DEF Rotation
<1>2. QED
  BY <1>1, TypeCorrect, RotationInvariant, PTL

\* A context is destroyed only when it has stopped, its thread has been
\* joined and its mutexes are free.
THEOREM CleanDestruction == Spec => []CleanEnd
<1>1. Rotation => CleanEnd
  BY DEF Rotation, PhaseMain, PhaseResume, PhaseSide, PhaseYield, PhaseLast,
         PhaseEnd, CleanEnd
<1>2. QED
  BY <1>1, RotationInvariant, PTL

\* Both: from the constructor to the destructor, mutexes are used as pthreads
\* allow.
THEOREM MutexesWellUsed == Spec => []MutexUse
<1>1. UnlocksLocked /\ CleanEnd => MutexUse
  BY DEF MutexUse
<1>2. QED
  BY <1>1, NoDoubleSignal, CleanDestruction, PTL

\* The assertion at the head of run holds, and no context is ever stopped by
\* the test at the end of yield.
THEOREM Undisturbed == Spec => []SideUndisturbed
<1>1. Rotation => SideUndisturbed
  BY DEF Rotation
<1>2. QED
  BY <1>1, RotationInvariant, PTL

-----------------------------------------------------------------------------
(* The protocol implements the alternation of Coroutine.                   *)

\* What InSide, hence the refinement mapping, is worth in each phase.
LEMMA MappedControl ==
  ASSUME TypeOK, Rotation
  PROVE  /\ PhaseMain \/ PhaseEnd => ~ InSide
         /\ PhaseResume \/ PhaseSide => InSide
         /\ PhaseYield \/ PhaseLast => ~ InSide
<1> USE DEF TypeOK, InSide
<1>1. PhaseMain \/ PhaseEnd => ~ InSide
  BY DEF PhaseMain, PhaseEnd
<1>2. PhaseResume => InSide
  BY RotTurn DEF PhaseResume, OnlyFree
<1>3. PhaseSide => InSide
  BY DEF PhaseSide, AllLocked
<1>4. PhaseYield \/ PhaseLast => ~ InSide
  BY DEF PhaseYield, PhaseLast, OnlyFree
<1>5. QED
  BY <1>1, <1>2, <1>3, <1>4

\* Every behaviour of the two threads is a behaviour of Coroutine: strict
\* alternation, a state published with the hand-over, no resumption after
\* the end.
THEOREM Implementation == Spec => C!Init /\ [][C!Next]_(C!vars)
<1>1. Init => C!Init
  BY DEF Init, C!Init, InSide
<1>2. TypeOK /\ Rotation /\ Rotation' /\ TypeOK' /\ [Next]_vars => [C!Next]_(C!vars)
  <2> SUFFICES ASSUME TypeOK, Rotation, Rotation', TypeOK', [Next]_vars
               PROVE  [C!Next]_(C!vars)
    OBVIOUS
  <2> USE DEF TypeOK
  <2>1. CASE ContUnlock
    <3>1. PhaseMain /\ m_state = "Running" /\ ~ InSide
      BY <2>1, MappedControl DEF ContUnlock, Rotation, PhaseMain, PhaseResume,
         PhaseSide, PhaseYield, PhaseLast, PhaseEnd
    <3>2. InSide'
      BY <2>1, <3>1, RotTurn DEF ContUnlock, Unlock, InSide, PhaseMain, AllLocked
    <3>3. C!Resume
      BY <3>1, <3>2 DEF C!Resume
    <3>4. QED
      BY <3>3 DEF C!Next
  <2>2. CASE YieldUnlock
    <3>1. PhaseSide /\ InSide /\ turn = Rot(m_turn, 2) /\ m_state = "Running"
      BY <2>2, MappedControl DEF YieldUnlock, Rotation, PhaseMain, PhaseResume,
         PhaseSide, PhaseYield, PhaseLast, PhaseEnd, SideWaits, SideEnds
    <3>2. ~ InSide' /\ m_state' = "Running"
      BY <2>2, <3>1 DEF YieldUnlock, Unlock, InSide, mainVars
    <3>3. C!Yield
      BY <3>1, <3>2 DEF C!Yield
    <3>4. QED
      BY <3>3 DEF C!Next
  <2>3. CASE RunUnlock
    <3>1. PhaseSide /\ InSide /\ turn = m_turn /\ m_state # "Running"
      BY <2>3, MappedControl DEF RunUnlock, Rotation, PhaseMain, PhaseResume,
         PhaseSide, PhaseYield, PhaseLast, PhaseEnd, SideWaits, SideEnds
    <3>2. ~ InSide' /\ m_state' \in Ended
      BY <2>3, <3>1, RotTurn DEF RunUnlock, Unlock, InSide, mainVars, State
    <3>3. C!Finish
      BY <3>1, <3>2 DEF C!Finish
    <3>4. QED
      BY <3>3 DEF C!Next
  <2>4. CASE ContLock
    <3>1. ~ InSide /\ ~ InSide' /\ UNCHANGED m_state
      BY <2>4 DEF ContLock, Lock, InSide, sideVars
    <3>2. QED
      BY <3>1 DEF C!vars
  <2>5. CASE ContEnter \/ ContState \/ ContJoin \/ ContRelease \/ Switch
             \/ Leave \/ Gone \/ UNCHANGED vars
    <3>1. (InSide' <=> InSide) /\ UNCHANGED m_state
      BY <2>5 DEF ContEnter, ContState, ContJoin, ContRelease, Switch, Leave,
         Gone, InSide, sideVars, vars
    <3>2. QED
      BY <3>1 DEF C!vars
  <2>6. CASE RunLock \/ YieldLock
    <3>1. PhaseResume /\ PhaseSide' /\ UNCHANGED m_state
      BY <2>6, SideResumes DEF RunLock, YieldLock
    <3>2. InSide
      BY <3>1, MappedControl
    <3>3. InSide'
      BY <3>1 DEF InSide, PhaseSide, AllLocked
    <3>4. QED
      BY <3>1, <3>2, <3>3 DEF C!vars
  <2>7. CASE Host \/ YieldState \/ RunCatch \/ RunEnd
    <3>1. PhaseSide /\ InSide
      BY <2>7, MappedControl DEF Host, HostYield, HostRequest, HostExit,
         HostInterrupt, HostThrow, HostReturn, Unwind, YieldState, RunCatch,
         RunEnd, Rotation, PhaseMain, PhaseResume, PhaseSide, PhaseYield,
         PhaseLast, PhaseEnd, SideWaits, SideEnds
    <3>2. UNCHANGED <<m_rotmutex, pcMain, turn>>
      BY <2>7 DEF Host, HostYield, HostRequest, HostExit, HostInterrupt,
         HostThrow, HostReturn, Unwind, YieldState, RunCatch, RunEnd, mainVars
    <3>3. QED
      BY <3>1, <3>2 DEF C!vars, InSide
  <2>8. CASE PthreadExit
    <3>1. (InSide' <=> InSide) /\ UNCHANGED m_state
      BY <2>8 DEF PthreadExit, InSide, mainVars
    <3>2. QED
      BY <3>1 DEF C!vars
  <2>9. QED
    BY <2>1, <2>2, <2>3, <2>4, <2>5, <2>6, <2>7, <2>8 DEF Next, Main, Run
<1>3. QED
  BY <1>1, <1>2, TypeCorrect, RotationInvariant, PTL DEF Spec

-----------------------------------------------------------------------------
(* The round robin over the pool of blocs.                                 *)

\* The index that follows is an index, the next one or the first.
LEMMA FollowingIndex ==
  ASSUME NEW i \in Bloc
  PROVE  /\ Following(i) \in Bloc
         /\ Following(i) = IF i = N - 1 THEN 0 ELSE i + 1
  <1>1. CASE i = N - 1
    BY <1>1, NAssumption DEF Following, Bloc
  <1>2. CASE i # N - 1
    <2>1. i + 1 \in 0 .. N - 1
      BY <1>2, NAssumption DEF Bloc
    <2>2. (i + 1) % N = i + 1
      BY <2>1, NAssumption DEF Bloc
    <2> QED
      BY <1>2, <2>1, <2>2 DEF Following, Bloc
  <1> QED
    BY <1>1, <1>2

\* The sets that FlagStats::update computes are sets of flags.
LEMMA UpdateType ==
  ASSUME FlowType, NEW b \in Bloc
  PROVE  /\ NextNeeds(b) \subseteq FLAG
         /\ EndProds(b) \subseteq FLAG
         /\ Needs(b) \subseteq FLAG
  BY DEF FlowType, NextNeeds, EndProds, Needs

-----------------------------------------------------------------------------
(* Types of the analysis.                                                  *)

LEMMA InitType == FlowInit => FlowType
  <1> SUFFICES ASSUME FlowInit PROVE FlowType
    OBVIOUS
  <1>1. 0 \in Bloc /\ N - 1 \in Bloc
    BY NAssumption DEF Bloc
  <1> QED
    BY <1>1 DEF FlowInit, FlowType

LEMMA NextType == FlowType /\ [FlowNext]_flowVars => FlowType'
  <1> SUFFICES ASSUME FlowType, [FlowNext]_flowVars PROVE FlowType'
    OBVIOUS
  <1>0. idx \in Bloc /\ Following(idx) \in Bloc
    BY FollowingIndex DEF FlowType
  <1>1. CASE Update
    <2>1. EndProds(idx) \in SUBSET FLAG /\ Needs(idx) \in SUBSET FLAG
      BY <1>0, UpdateType
    <2>2. m_endprods' \in [Bloc -> SUBSET FLAG] /\ m_needs' \in [Bloc -> SUBSET FLAG]
      BY <1>1, <2>1 DEF Update, FlowType
    <2> QED
      BY <1>0, <1>1, <2>2 DEF Update, FlowType, running
  <1>2. CASE Pass
    BY <1>0, <1>2 DEF Pass, FlowType, stats, running
  <1>3. CASE Filter
    BY <1>3 DEF Filter, FlowType, stats, running
  <1>4. CASE RunInsn
    <2>1. own' \subseteq FLAG /\ fresh' \subseteq own'
      BY <1>4 DEF RunInsn, Written, Execute, FlowType
    <2>2. at' \in Bloc
      BY <1>4 DEF RunInsn, FlowType
    <2> QED
      BY <1>4, <2>1, <2>2 DEF RunInsn, FlowType, stats
  <1>5. CASE RunCall
    BY <1>5 DEF RunCall, FlowType, stats
  <1>6. CASE Return
    BY <1>6 DEF Return, FlowType, stats, running
  <1>7. CASE UNCHANGED flowVars
    BY <1>7 DEF FlowType, flowVars, stats, running
  <1> QED
    BY <1>1, <1>2, <1>3, <1>4, <1>5, <1>6, <1>7 DEF FlowNext, Analyse, Returned

\* The analysis and the run keep every variable within its type.
THEOREM FlagTypes == FlowSpec => []FlowType
  BY InitType, NextType, PTL DEF FlowSpec

-----------------------------------------------------------------------------
(* The window of settled blocs.                                            *)

\* A bloc that does not change agrees with its successors.
LEMMA UnchangedSettled ==
  ASSUME NEW b \in Bloc, ~ Changed(b)
  PROVE  Settled(b)
  BY DEF Changed, Settled, Needs

\* A bloc stays settled as long as the statistics and the graph do not change.
LEMMA SettledStays ==
  ASSUME UNCHANGED <<exits, stats>>, NEW b \in Bloc
  PROVE  Settled(b)' <=> Settled(b)
  BY DEF Settled, EndProds, NextNeeds, stats

LEMMA InitSettled == FlowInit => AllSettled
  <1> SUFFICES ASSUME FlowInit, NEW b \in Bloc PROVE ~ Visited(b)
    BY DEF AllSettled, FlowInit
  <1> QED
    BY NAssumption DEF FlowInit, Visited, Bloc

LEMMA NextSettled == FlowType /\ AllSettled /\ [FlowNext]_flowVars => AllSettled'
  <1> SUFFICES ASSUME FlowType, AllSettled, [FlowNext]_flowVars,
                      NEW b \in Bloc, phase' # "flow" \/ Visited(b)'
               PROVE  Settled(b)'
    BY DEF AllSettled
  <1>0. idx \in 0 .. N - 1 /\ last_update \in 0 .. N - 1 /\ b \in 0 .. N - 1
    BY DEF FlowType, Bloc
  <1>1. CASE Update
    \* The window is empty again.
    <2>1. last_update' = idx /\ idx' = Following(idx) /\ phase' = "flow"
      BY <1>1 DEF Update
    <2>2. ~ Visited(b)'
      BY <1>0, <2>1, FollowingIndex, NAssumption DEF Visited, Bloc
    <2> QED
      BY <2>1, <2>2
  <1>2. CASE Pass
    \* The window grows by idx.
    <2>1. last_update' = last_update /\ idx' = Following(idx) /\ idx # last_update
          /\ phase = "flow" /\ phase' = "flow"
      BY <1>2 DEF Pass
    <2>2. Visited(b) \/ b = idx
      BY <1>0, <2>1, FollowingIndex, NAssumption DEF Visited, Bloc
    <2>3. Settled(b)
      BY <1>2, <2>2, UnchangedSettled DEF AllSettled, Pass
    <2> QED
      BY <1>2, <2>3, SettledStays DEF Pass
  <1>3. CASE Filter
    \* The window and idx are the whole pool.
    <2>1. Visited(b) \/ b = idx
      BY <1>0, <1>3 DEF Filter, Visited
    <2>2. Settled(b)
      BY <1>3, <2>1, UnchangedSettled DEF AllSettled, Filter
    <2> QED
      BY <1>3, <2>2, SettledStays DEF Filter
  <1>4. CASE RunInsn \/ RunCall \/ Return \/ UNCHANGED flowVars
    <2>1. UNCHANGED <<exits, stats, idx, last_update>>
      BY <1>4 DEF RunInsn, RunCall, Return, flowVars
    <2>2. phase # "flow" \/ Visited(b)
      BY <1>4, <2>1 DEF RunInsn, RunCall, Return, flowVars, Visited
    <2>3. Settled(b)
      BY <2>2 DEF AllSettled
    <2> QED
      BY <2>1, <2>3, SettledStays
  <1> QED
    BY <1>1, <1>2, <1>3, <1>4 DEF FlowNext, Analyse, Returned

\* The loop of decompile ends only when every bloc agrees with its successors,
\* whatever the size of the pool.
THEOREM RoundRobin == FlowSpec => []AllSettled
  BY InitType, NextType, InitSettled, NextSettled, PTL DEF FlowSpec

-----------------------------------------------------------------------------
(* The least solution.                                                     *)

LEMMA InitLeast == FlowInit => NothingSuperfluous
  BY DEF FlowInit, NothingSuperfluous, Solution

LEMMA NextLeast == FlowType /\ NothingSuperfluous /\ [FlowNext]_flowVars => NothingSuperfluous'
  <1> SUFFICES ASSUME FlowType, NothingSuperfluous, [FlowNext]_flowVars,
                      NEW s \in [Bloc -> SUBSET FLAG], Solution(s)', NEW b \in Bloc
               PROVE  m_needs'[b] \subseteq s[b]
    BY DEF NothingSuperfluous
  <1>1. Solution(s)
    BY DEF FlowNext, Analyse, Update, Pass, Filter, RunInsn, RunCall, Return, Returned,
           flowVars, stats, Solution
  <1>2. \A c \in Bloc : m_needs[c] \subseteq s[c]
    BY <1>1 DEF NothingSuperfluous
  <1>3. CASE Update
    <2>1. idx \in Bloc
      BY DEF FlowType
    <2>2. NextNeeds(idx) \ m_begprods[idx] \subseteq s[idx]
      BY <1>1, <1>2, <2>1 DEF NextNeeds, Solution, FlowType
    <2>3. Needs(idx) \subseteq s[idx]
      BY <1>2, <2>1, <2>2 DEF Needs
    <2> QED
      BY <1>2, <1>3, <2>3 DEF Update, FlowType
  <1>4. CASE UNCHANGED m_needs
    BY <1>2, <1>4
  <1> QED
    BY <1>3, <1>4 DEF FlowNext, Analyse, Pass, Filter, RunInsn, RunCall, Return, Returned,
                       flowVars, stats

\* No flag is generated that a solution of the equations does without.
THEOREM LeastSolution == FlowSpec => []NothingSuperfluous
  BY InitType, NextType, InitLeast, NextLeast, PTL DEF FlowSpec

-----------------------------------------------------------------------------
(* The filtered function.                                                  *)

\* What makes ReadsServed inductive: the flags needed are fresh, not only
\* those that are read at once.
NeedsFresh == /\ phase = "flow" => own = {}
              /\ \A b \in Bloc : reads[b] \subseteq m_needs[b]
              /\ \A b \in calls : m_begprods[b] = {}
              /\ m_needs[at] \intersect own \subseteq fresh

LEMMA InitFresh == FlowInit => NeedsFresh
  <1> SUFFICES ASSUME FlowInit PROVE NeedsFresh
    OBVIOUS
  <1>1. calls \subseteq Bloc
    BY DEF FlowInit
  <1> QED
    BY <1>1 DEF FlowInit, NeedsFresh

LEMMA NextFresh ==
  ASSUME CanSkip = {}
  PROVE  FlowType /\ AllSettled /\ NeedsFresh /\ [FlowNext]_flowVars => NeedsFresh'
  <1> SUFFICES ASSUME FlowType, AllSettled, NeedsFresh, [FlowNext]_flowVars
               PROVE  NeedsFresh'
    OBVIOUS
  <1>0. idx \in Bloc /\ at \in Bloc
    BY DEF FlowType
  <1>1. CASE Update
    <2>1. \A b \in Bloc : m_needs[b] \subseteq m_needs'[b]
      BY <1>0, <1>1 DEF Update, FlowType, Needs
    <2> QED
      BY <1>1, <2>1 DEF Update, NeedsFresh, running
  \* What the next instruction needs, this one needed or has produced.
  <1>2. ASSUME NEW b \in exits[at], phase = "run"
        PROVE  /\ m_needs[b] \subseteq m_needs[at] \union m_begprods[at]
               /\ m_needs[b] \intersect m_begprods[at] \subseteq m_endprods[at]
    <2>1. Settled(at)
      BY <1>0, <1>2 DEF AllSettled
    <2> QED
      BY <1>2, <2>1 DEF Settled, EndProds, NextNeeds
  <1>3. CASE RunInsn
    <2>1. PICK w \in Written(m_begprods[at]) : Execute(w)
      BY <1>3 DEF RunInsn
    <2>2. w = m_begprods[at]
      BY <1>0, <2>1 DEF Written, FlowType
    <2>3. m_needs[at'] \intersect own' \subseteq fresh'
      BY <1>2, <1>3, <2>1, <2>2 DEF RunInsn, Execute, NeedsFresh
    <2> QED
      BY <1>3, <2>3 DEF RunInsn, NeedsFresh, stats
  <1>4. CASE RunCall
    <2>1. m_begprods[at] = {}
      BY <1>4 DEF RunCall, NeedsFresh
    <2>2. m_needs[at'] \intersect own' \subseteq fresh'
      BY <1>2, <1>4, <2>1 DEF RunCall, NeedsFresh
    <2> QED
      BY <1>4, <2>2 DEF RunCall, NeedsFresh, stats
  <1>5. CASE /\ UNCHANGED <<calls, m_begprods, m_needs, reads, running>>
             /\ phase' = "flow" => phase = "flow"
    BY <1>5 DEF NeedsFresh, running
  <1> QED
    BY <1>1, <1>3, <1>4, <1>5 DEF FlowNext, Analyse, Pass, Filter, Return, Returned, flowVars, stats

LEMMA FreshServes == FlowType /\ NeedsFresh => ReadsServed
  BY DEF FlowType, NeedsFresh, ReadsServed

\* A function in which no write of a flag is conditional reads, once filtered,
\* the flags that the original function reads, those that its callees have left
\* or that its caller has set excepted.
THEOREM FilteredReadsServed ==
  ASSUME CanSkip = {}
  PROVE  FlowSpec => []ReadsServed
  BY InitType, NextType, InitSettled, NextSettled, InitFresh, NextFresh, FreshServes,
     PTL DEF FlowSpec
==============================================================================
