------------------------------- MODULE Context -------------------------------
(***************************************************************************)
(* uwt/x86/context.cc: a translated program runs in a side thread, the     *)
(* scheduler WinNT::execute in the main thread, and the two alternate by   *)
(* means of three mutexes whose roles rotate with m_turn.  The mutexes are *)
(* used as binary semaphores: a thread regularly unlocks what the other    *)
(* one locked, which the default mutexes of the C library this program is  *)
(* built with accept.  A step is one access to a mutex, or the code        *)
(* between two such accesses that touches m_turn or m_state.               *)
(*                                                                         *)
(* The initial state is the one the constructor leaves: all mutexes locked *)
(* by the main thread, the side thread created.                            *)
(***************************************************************************)
EXTENDS Naturals

s_turns == 3

Turn == 0 .. s_turns - 1

\* The index arithmetic of lock, unlock and yield.
Rot(t, n) == (t + n) % s_turns

Ended == {"Exited", "CallException", "FatalError"}

State == Ended \union {"Running"}

\* What may unwind the translated code up to Context::run.
Exception == {"TransRequest", "Stop", "other", "none"}

VARIABLES
  m_rotmutex,   \* m_rotmutex[i]: mutex i is locked
  m_turn,       \* the current turn, written by the side thread
  m_state,      \* what the scheduler reads when cont returns
  pcMain,       \* where the scheduler is
  pcSide,       \* where the side thread is
  turn,         \* the local variable of cont
  thrown,       \* the exception that unwinds the side thread
  cause         \* history: how the translated code came to its end

mainVars == <<pcMain, turn>>
sideVars == <<pcSide, m_turn, m_state, thrown, cause>>
vars == <<m_rotmutex, m_turn, m_state, pcMain, pcSide, turn, thrown, cause>>

PcMain == {"execute", "contUnlock", "contLock", "contState", "join",
           "release0", "release1", "release2", "switch", "left", "gone"}

PcSide == {"start", "host", "yieldUnlock", "yieldLock", "yieldState",
           "catch", "runEnd", "runUnlock", "pthreadExit", "ended"}

Cause == {"none", "request", "exit", "stopped", "interrupt", "exception",
          "return"}

TypeOK == /\ m_rotmutex \in [Turn -> BOOLEAN]
          /\ m_turn \in Turn
          /\ m_state \in State
          /\ pcMain \in PcMain
          /\ pcSide \in PcSide
          /\ turn \in Turn
          /\ thrown \in Exception
          /\ cause \in Cause

Init == /\ m_rotmutex = [i \in Turn |-> TRUE]
        /\ m_turn = 0
        /\ m_state = "Running"
        /\ pcMain = "execute"
        /\ pcSide = "start"
        /\ turn = 0
        /\ thrown = "none"
        /\ cause = "none"

\* Context::lock: blocks as long as the mutex is locked.
Lock(i) == /\ ~ m_rotmutex[i]
           /\ m_rotmutex' = [m_rotmutex EXCEPT ![i] = TRUE]

\* Context::unlock.
Unlock(i) == m_rotmutex' = [m_rotmutex EXCEPT ![i] = FALSE]

-----------------------------------------------------------------------------
(* The main thread: WinNT::execute and Context::cont.                      *)

\* execute calls cont, which saves the turn "before any side thread
\* modification".
ContEnter == /\ pcMain = "execute"
             /\ turn' = m_turn
             /\ pcMain' = "contUnlock"
             /\ UNCHANGED <<m_rotmutex, sideVars>>

\* Mutant: the wrong mutex is unlocked.
ContUnlockOwn == /\ pcMain = "contUnlock"
                 /\ Unlock(turn)
                 /\ pcMain' = "contLock"
                 /\ UNCHANGED <<turn, sideVars>>

\* "Side continue signal".
ContUnlock == /\ pcMain = "contUnlock"
              /\ Unlock(Rot(turn, 1))
              /\ pcMain' = "contLock"
              /\ UNCHANGED <<turn, sideVars>>

\* "Self stop signal".
ContLock == /\ pcMain = "contLock"
            /\ Lock(turn)
            /\ pcMain' = "contState"
            /\ UNCHANGED <<turn, sideVars>>

\* cont returns at once to execute, or waits for the end of the side thread.
ContState == /\ pcMain = "contState"
             /\ pcMain' = IF m_state = "Running" THEN "switch" ELSE "join"
             /\ UNCHANGED <<m_rotmutex, turn, sideVars>>

\* Mutant: the side thread is not waited for.
ContNoJoin == /\ pcMain = "join"
              /\ pcMain' = "release0"
              /\ UNCHANGED <<m_rotmutex, turn, sideVars>>

ContJoin == /\ pcMain = "join"
            /\ pcSide = "ended"
            /\ pcMain' = "release0"
            /\ UNCHANGED <<m_rotmutex, turn, sideVars>>

ContRelease == /\ \/ /\ pcMain = "release0"
                     /\ Unlock(0)
                     /\ pcMain' = "release1"
                  \/ /\ pcMain = "release1"
                     /\ Unlock(1)
                     /\ pcMain' = "release2"
                  \/ /\ pcMain = "release2"
                     /\ Unlock(2)
                     /\ pcMain' = "switch"
               /\ UNCHANGED <<turn, sideVars>>

\* The switch of WinNT::execute: another round while the context runs;
\* otherwise execute is left, by return (CallException) or by an exception.
Switch == /\ pcMain = "switch"
          /\ pcMain' = IF m_state = "Running" THEN "execute" ELSE "left"
          /\ UNCHANGED <<m_rotmutex, turn, sideVars>>

\* Out of execute, the process either replaces itself (IterBox::restart,
\* possible after a CallException only) or destroys WinNT and its contexts;
\* ~Context throws when it finds the context Running.
Leave == /\ pcMain = "left"
         /\ pcMain' = "gone"
         /\ UNCHANGED <<m_rotmutex, turn, sideVars>>

Main == \/ ContEnter \/ ContUnlock \/ ContLock \/ ContState \/ ContJoin
        \/ ContRelease \/ Switch \/ Leave

-----------------------------------------------------------------------------
(* The side thread: Context::run, Context::yield and the translated code.  *)

\* run takes its first "self stop signal", which asserts that m_turn is 0.
RunLock == /\ pcSide = "start"
           /\ Lock(1)
           /\ pcSide' = "host"
           /\ UNCHANGED <<mainVars, m_turn, m_state, thrown, cause>>

\* The translated code calls yield, whose first act is to take the next turn.
HostYield == /\ pcSide = "host"
             /\ m_turn' = Rot(m_turn, 1)
             /\ pcSide' = "yieldUnlock"
             /\ UNCHANGED <<m_rotmutex, mainVars, m_state, thrown, cause>>

\* Mutant: the wrong mutex is unlocked.
YieldUnlockNext == /\ pcSide = "yieldUnlock"
                   /\ Unlock(Rot(m_turn, 1))
                   /\ pcSide' = "yieldLock"
                   /\ UNCHANGED <<mainVars, m_turn, m_state, thrown, cause>>

\* "Main continue signal".
YieldUnlock == /\ pcSide = "yieldUnlock"
               /\ Unlock(Rot(m_turn, 2))
               /\ pcSide' = "yieldLock"
               /\ UNCHANGED <<mainVars, m_turn, m_state, thrown, cause>>

\* Mutant: yield does not stop.
YieldNoStop == /\ pcSide = "yieldLock"
               /\ pcSide' = "yieldState"
               /\ UNCHANGED <<m_rotmutex, mainVars, m_turn, m_state, thrown, cause>>

\* "Self stop signal".
YieldLock == /\ pcSide = "yieldLock"
             /\ Lock(Rot(m_turn, 1))
             /\ pcSide' = "yieldState"
             /\ UNCHANGED <<mainVars, m_turn, m_state, thrown, cause>>

\* "Continue ?": the translated code goes on, or is stopped.
YieldState == /\ pcSide = "yieldState"
              /\ IF m_state = "Running"
                   THEN pcSide' = "host" /\ UNCHANGED <<thrown, cause>>
                   ELSE pcSide' = "catch" /\ thrown' = "Stop" /\ cause' = "stopped"
              /\ UNCHANGED <<m_rotmutex, mainVars, m_turn, m_state>>

\* The translated code is over, for the reason c, and unwinds with exception e.
Unwind(c, e) == /\ pcSide = "host"
                /\ pcSide' = "catch"
                /\ thrown' = e
                /\ cause' = c
                /\ UNCHANGED <<m_rotmutex, mainVars, m_turn>>

\* CallDB::operator[] finds no host code for the address called.
HostRequest == Unwind("request", "TransRequest") /\ UNCHANGED m_state

\* Context::exit.
HostExit == Unwind("exit", "Stop") /\ UNCHANGED m_state

\* Context::interrupt: int3, into, int imm8.
HostInterrupt == Unwind("interrupt", "Stop") /\ m_state' = "FatalError"

\* Any other exception leaves the translated code.
HostThrow == Unwind("exception", "other") /\ UNCHANGED m_state

\* The translated code returns to its inexistent caller.
HostReturn == Unwind("return", "none") /\ UNCHANGED m_state

\* The state that the catch clauses of run leave.
Caught(e) == CASE e = "TransRequest" -> "CallException"
               [] e = "Stop" -> "Exited"
               [] e = "other" -> "FatalError"
               [] e = "none" -> m_state

RunCatch == /\ pcSide = "catch"
            /\ m_state' = Caught(thrown)
            /\ pcSide' = "runEnd"
            /\ UNCHANGED <<m_rotmutex, mainVars, m_turn, thrown, cause>>

\* "returning to inexistent parent context" is fatal.
RunEnd == /\ pcSide = "runEnd"
          /\ m_state' = IF m_state = "Running" THEN "FatalError" ELSE m_state
          /\ pcSide' = "runUnlock"
          /\ UNCHANGED <<m_rotmutex, mainVars, m_turn, thrown, cause>>

\* Mutant: the turn is not advanced.
RunUnlockSameTurn == /\ pcSide = "runUnlock"
                     /\ Unlock(Rot(m_turn, 2))
                     /\ pcSide' = "pthreadExit"
                     /\ UNCHANGED <<mainVars, m_turn, m_state, thrown, cause>>

\* The last "main continue signal": run computes the next turn in a local
\* variable and leaves m_turn alone.
RunUnlock == /\ pcSide = "runUnlock"
             /\ Unlock(Rot(Rot(m_turn, 1), 2))
             /\ pcSide' = "pthreadExit"
             /\ UNCHANGED <<mainVars, m_turn, m_state, thrown, cause>>

PthreadExit == /\ pcSide = "pthreadExit"
               /\ pcSide' = "ended"
               /\ UNCHANGED <<m_rotmutex, mainVars, m_turn, m_state, thrown, cause>>

\* What the translated code, external to the sources, may do next.
Host == \/ HostYield \/ HostRequest \/ HostExit \/ HostInterrupt
        \/ HostThrow \/ HostReturn

\* What the side thread does in the code of context.cc.
Run == \/ RunLock \/ YieldUnlock \/ YieldLock \/ YieldState
       \/ RunCatch \/ RunEnd \/ RunUnlock \/ PthreadExit

\* The process is over (or replaced).
Gone == pcMain = "gone" /\ UNCHANGED vars

Next == Main \/ Host \/ Run \/ Gone

\* The operating system runs both threads; nothing says that the translated
\* code ever yields or ends, so Host has no fairness.
Spec == Init /\ [][Next]_vars /\ WF_vars(Main) /\ WF_vars(Run)

-----------------------------------------------------------------------------
(* Properties.                                                             *)

\* The main thread is between the return of one wait and the next hand-over.
MainRuns == pcMain # "contLock"

\* The side thread is in the translated code, or in the code of yield and run
\* that touches m_turn and m_state.
SideRuns == pcSide \in {"host", "yieldUnlock", "yieldState", "catch",
                        "runEnd", "runUnlock"}

\* The scheduler and the translated program never run at the same time, so
\* the unprotected accesses to m_turn, m_state, the registers and the memory
\* by both threads are no data races (cont, yield, run).
NonPreemptive == ~ (MainRuns /\ SideRuns)

\* Whichever mutex a thread is about to unlock is locked: no continue signal
\* is given twice, or lost, and pthread_mutex_unlock is never called on a
\* free mutex (cont, yield, run, and the three releases at the end of cont).
UnlocksLocked ==
  /\ pcMain = "contUnlock" => m_rotmutex[Rot(turn, 1)]
  /\ pcMain = "release0" => m_rotmutex[0]
  /\ pcMain = "release1" => m_rotmutex[1]
  /\ pcMain = "release2" => m_rotmutex[2]
  /\ pcSide = "yieldUnlock" => m_rotmutex[Rot(m_turn, 2)]
  /\ pcSide = "runUnlock" => m_rotmutex[Rot(Rot(m_turn, 1), 2)]

\* ~Context finds a context that is not Running, a joined thread and no
\* locked mutex to destroy (pthread_mutex_destroy).
CleanEnd == pcMain \in {"left", "gone"} =>
              /\ m_state # "Running"
              /\ pcSide = "ended"
              /\ \A i \in Turn : ~ m_rotmutex[i]

\* The mutexes are used as pthreads allow, from the constructor to the
\* destructor: none is unlocked twice, none is destroyed locked.
MutexUse == UnlocksLocked /\ CleanEnd

\* The assertion at the head of run, and the test at the end of yield that
\* would stop a context: the scheduler changes neither m_turn nor m_state.
SideUndisturbed == /\ pcSide = "start" => m_turn = 0
                   /\ cause # "stopped"

\* A context that execute resumes does get control, and one that has yielded
\* or ended is brought to the knowledge of the scheduler.
HandedOver == /\ pcMain = "contUnlock" ~> pcSide = "host"
              /\ pcSide = "yieldUnlock" ~> pcMain = "switch"
              /\ pcSide = "catch" ~> pcMain = "gone"

\* "Context exited normally" (winnt.cc, the case Exited of execute): a state
\* Exited means that the translated code called exit.
ExitedNormally == pcMain = "switch" /\ m_state = "Exited" => cause = "exit"

-----------------------------------------------------------------------------
(* Where the mutexes stand in each phase of a hand-over.                   *)

AllLocked == m_rotmutex = [i \in Turn |-> TRUE]
OnlyFree(i) == m_rotmutex = [j \in Turn |-> j # i]

SideWaits == pcSide \in {"start", "yieldLock"}
SideEnds == pcSide \in {"pthreadExit", "ended"}

\* The scheduler runs, the side thread waits for mutex m_turn + 1.
PhaseMain == /\ pcMain \in {"execute", "contUnlock", "contState", "switch"}
             /\ pcMain = "contUnlock" => turn = m_turn
             /\ SideWaits /\ m_state = "Running"
             /\ AllLocked

\* The side thread is signalled and has not noticed.
PhaseResume == /\ pcMain = "contLock" /\ turn = m_turn
               /\ SideWaits /\ m_state = "Running"
               /\ OnlyFree(Rot(turn, 1))

\* The side thread runs, the scheduler waits for the mutex of its turn.
PhaseSide == /\ pcMain = "contLock"
             /\ turn = IF pcSide = "yieldUnlock" THEN Rot(m_turn, 2) ELSE m_turn
             /\ SideRuns
             /\ pcSide \in {"host", "yieldUnlock", "yieldState"} => m_state = "Running"
             /\ pcSide = "runUnlock" => m_state # "Running"
             /\ AllLocked

\* The scheduler is signalled, by yield or by run, and has not noticed.
PhaseYield == /\ pcMain = "contLock" /\ turn = Rot(m_turn, 2)
              /\ pcSide = "yieldLock" /\ m_state = "Running"
              /\ OnlyFree(turn)

PhaseLast == /\ pcMain = "contLock"
             /\ SideEnds /\ m_state # "Running"
             /\ OnlyFree(turn)

\* The context has ended; the scheduler winds up.
PhaseEnd == /\ pcMain \in {"contState", "join", "release0", "release1",
                           "release2", "switch", "left", "gone"}
            /\ SideEnds /\ m_state # "Running"
            /\ pcMain \notin {"contState", "join"} => pcSide = "ended"
            /\ m_rotmutex = [i \in Turn |->
                                \/ pcMain \in {"contState", "join", "release0"}
                                \/ pcMain = "release1" /\ i # 0
                                \/ pcMain = "release2" /\ i = 2]

\* Every reachable state is in one of the phases: this is the inductive
\* invariant that the safety properties above follow from.
Rotation == /\ \/ PhaseMain \/ PhaseResume \/ PhaseSide
               \/ PhaseYield \/ PhaseLast \/ PhaseEnd
            /\ SideUndisturbed

-----------------------------------------------------------------------------
\* The alternation of Coroutine: the main thread has control except between
\* the moment it signals the side thread and the moment it is signalled; the
\* scheduler does not see m_state meanwhile.
InSide == pcMain = "contLock" /\ m_rotmutex[turn]

C == INSTANCE Coroutine WITH
       control <- IF InSide THEN "side" ELSE "main",
       status <- IF InSide THEN "Running" ELSE m_state

Alternation == C!Spec
==============================================================================
