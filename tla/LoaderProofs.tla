---------------------------- MODULE LoaderProofs -----------------------------
(***************************************************************************)
(* Proofs about Loader, for any modules, imports and address space.        *)
(* First the current directory: it is that of the innermost LibModule in   *)
(* init, whatever is nested in it and however loading ends.  Then what     *)
(* loading leaves: no module is loaded twice or put over another one, and  *)
(* the addresses that were linked are those of the functions asked for.    *)
(***************************************************************************)
EXTENDS Loader, TLAPS

Frame == DOMAIN frames

Phase == {"idle", "init", "mount", "stack", "heap", "dirs", "import", "entries", "map", "mapped"}

\* The frame k has a WorkingDir.
Inside(k) == frames[k] \in Lib /\ phase[frames[k]] \notin {"init", "map"}

\* d is the directory that the frames from k on have left.
DirFrom(k, d) ==
  \/ d = Root /\ \A j \in Frame : j >= k => ~ Inside(j)
  \/ \E j \in Frame : /\ j >= k /\ Inside(j) /\ d = frames[j]
                      /\ \A i \in Frame : k <= i /\ i < j => ~ Inside(i)

\* The frames are those of distinct modules that are marked as loaded.
Stacked == /\ loaded \subseteq Module /\ frames \in Seq(loaded)
           /\ phase \in [Module -> Phase]
           /\ saved \in [Lib -> {Root} \union Lib]
           /\ \A j, k \in Frame : frames[j] = frames[k] => j = k

\* The invariant: each WorkingDir has saved the directory of those around it.
Directories == /\ DirFrom(1, cwd)
               /\ \A k \in Frame : Inside(k) => DirFrom(k + 1, saved[frames[k]])

-----------------------------------------------------------------------------
(* Sequences used as stacks.                                               *)

LEMMA Pushed ==
  ASSUME NEW S, NEW s \in Seq(S), NEW e \in S
  PROVE  /\ <<e>> \o s \in Seq(S)
         /\ DOMAIN (<<e>> \o s) = 1 .. Len(s) + 1
         /\ (<<e>> \o s)[1] = e
         /\ \A k \in DOMAIN s : (<<e>> \o s)[k + 1] = s[k]
  OBVIOUS

LEMMA Popped ==
  ASSUME NEW S, NEW s \in Seq(S), s # <<>>
  PROVE  /\ Tail(s) \in Seq(S)
         /\ DOMAIN Tail(s) = 1 .. Len(s) - 1 /\ DOMAIN s = 1 .. Len(s) /\ Len(s) \in Nat \ {0}
         /\ Head(s) = s[1] /\ s[1] \in S
         /\ \A k \in DOMAIN Tail(s) : Tail(s)[k] = s[k + 1]
  OBVIOUS

LEMMA Widened == ASSUME NEW S, NEW T, S \subseteq T, NEW s \in Seq(S) PROVE s \in Seq(T)
  OBVIOUS

-----------------------------------------------------------------------------
(* Steps that leave the frames and the directory alone.                    *)

\* At most the phase of the innermost frame changes, and not between those
\* with a WorkingDir and those without.
Moves(p) == /\ phase' = [phase EXCEPT ![Top] = p]
            /\ \/ Top \notin Lib
               \/ phase[Top] \notin {"init", "map"} /\ p \notin {"init", "map"}

Quiet == /\ UNCHANGED <<frames, loaded, cwd, saved>>
         /\ phase' = phase \/ \E p \in Phase : Moves(p)

LEMMA TopModule ==
  ASSUME Stacked, frames # <<>>
  PROVE  Top = frames[1] /\ 1 \in Frame /\ Top \in Module
  BY Popped DEF Stacked, Top, Frame

LEMMA QuietAllocate ==
  ASSUME NEW region, NEW topdown, NEW n, NEW next \in Phase,
         Allocate(region, topdown, n, next), frames # <<>>,
         Top \notin Lib \/ (phase[Top] \notin {"init", "map"} /\ next \notin {"init", "map"})
  PROVE  Quiet
  BY DEF Allocate, Quiet, Moves, Goto, dir

LEMMA QuietSteps ==
  ASSUME Stacked,
         \/ Mount \/ Stack \/ Heap \/ HostInit \/ ReadDirs \/ EndEntries
         \/ \E e \in Entry : LinkEntry(e)
         \/ UNCHANGED vars
  PROVE  Quiet
<1>1. CASE Mount
  <2>1. /\ UNCHANGED <<frames, loaded, cwd, saved>> /\ frames # <<>> /\ phase[Top] = "mount"
        /\ phase' = phase \/ phase' = [phase EXCEPT ![Top] = "stack"]
                         \/ phase' = [phase EXCEPT ![Top] = "dirs"]
    BY <1>1 DEF Mount, At, Goto, dir
  <2>2. QED
    BY <2>1 DEF Quiet, Moves, Phase
<1>2. CASE Stack
  <2>1. PICK n \in Size :
          Allocate([first |-> 0, last |-> (image[Main].first - 1) % (Last + 1)], TRUE, n, "heap")
    BY <1>2 DEF Stack
  <2>2. QED
    BY <1>2, <2>1, QuietAllocate DEF Stack, At, Phase
<1>3. CASE Heap
  <2>1. CASE Throw("empty")
    BY <2>1 DEF Throw, Quiet, dir
  <2>2. CASE \E n \in Size :
               Allocate([first |-> image[Main].first, last |-> Last \div 2], FALSE, n, "dirs")
    BY <1>3, <2>2, QuietAllocate DEF Heap, At, Phase
  <2>3. QED
    BY <1>3, <2>1, <2>2 DEF Heap
<1>4. CASE HostInit
  <2>1. frames # <<>> /\ Top \notin Lib
    BY <1>4, NamesAssumption DEF HostInit, At
  <2>2. PICK f \in Base, n \in Size : Allocate([first |-> f, last |-> Last], FALSE, n, "map")
    BY <1>4 DEF HostInit
  <2>3. QED
    BY <2>1, <2>2 DEF Allocate, Quiet, Moves, Goto, dir, Phase
<1>5. CASE ReadDirs
  <2>1. /\ UNCHANGED <<frames, loaded, cwd, saved>> /\ frames # <<>> /\ phase[Top] = "dirs"
        /\ phase' = [phase EXCEPT ![Top] = "import"]
    BY <1>5 DEF ReadDirs, At, Goto, dir
  <2>2. QED
    BY <2>1 DEF Quiet, Moves, Phase
<1>6. CASE EndEntries
  <2>1. /\ UNCHANGED <<frames, loaded, cwd, saved>> /\ frames # <<>> /\ phase[Top] = "entries"
        /\ phase' = [phase EXCEPT ![Top] = "import"]
    BY <1>6 DEF EndEntries, At, Goto, dir
  <2>2. QED
    BY <2>1 DEF Quiet, Moves, Phase
<1>7. CASE \E e \in Entry : LinkEntry(e)
  BY <1>7 DEF LinkEntry, Quiet, dir
<1>8. CASE UNCHANGED vars
  BY <1>8 DEF vars, Quiet, dir
<1>9. QED
  BY <1>1, <1>2, <1>3, <1>4, <1>5, <1>6, <1>7, <1>8

LEMMA QuietInvariant ==
  ASSUME Stacked, Directories, Quiet
  PROVE  Stacked' /\ Directories'
<1>1. Frame' = Frame /\ frames' = frames /\ loaded' = loaded /\ cwd' = cwd /\ saved' = saved
  BY DEF Quiet, Frame
<1>2. phase' \in [Module -> Phase]
  BY DEF Quiet, Moves, Stacked
<1>3. \A k \in Frame : Inside(k)' <=> Inside(k)
  <2>1. CASE phase' = phase
    BY <1>1, <2>1 DEF Inside
  <2>2. CASE phase' # phase
    <3>1. PICK p \in Phase : Moves(p)
      BY <2>2 DEF Quiet
    <3>2. TAKE k \in Frame
    <3>3. frames[k] \in Module
      BY DEF Stacked, Frame
    <3>4. phase'[frames[k]] = IF frames[k] = Top THEN p ELSE phase[frames[k]]
      BY <3>1, <3>3 DEF Stacked, Moves
    <3>5. Inside(k)' <=> frames[k] \in Lib /\ phase'[frames[k]] \notin {"init", "map"}
      BY <1>1 DEF Inside
    <3>6. QED
      BY <3>1, <3>4, <3>5 DEF Inside, Moves
  <2>3. QED
    BY <2>1, <2>2
<1>4. \A d : \A k \in Nat : DirFrom(k, d) => DirFrom(k, d)'
  BY <1>1, <1>3 DEF DirFrom
<1>5. Stacked'
  BY <1>1, <1>2 DEF Stacked
<1>6. Directories'
  <2>1. Frame \subseteq Nat
    BY DEF Stacked, Frame
  <2>2. DirFrom(1, cwd)'
    BY <1>1, <1>4 DEF Directories
  <2>3. ASSUME NEW k \in Frame, Inside(k)'
        PROVE  DirFrom(k + 1, saved[frames[k]])'
    BY <1>1, <1>3, <1>4, <2>1, <2>3 DEF Directories
  <2>4. QED
    BY <1>1, <2>2, <2>3 DEF Directories
<1>7. QED
  BY <1>5, <1>6
-----------------------------------------------------------------------------
(* The other steps.                                                        *)

LEMMA InitInvariant == Init => Stacked /\ Directories
<1> SUFFICES ASSUME Init
             PROVE  Stacked /\ Directories
  OBVIOUS
<1>1. frames = <<Main>> /\ Frame = {1} /\ frames[1] = Main /\ Main \notin Lib
  BY NamesAssumption DEF Init, Frame
<1>2. ~ Inside(1)
  BY <1>1 DEF Inside
<1>3. Stacked
  <2>1. loaded \subseteq Module /\ frames \in Seq(loaded) /\ saved \in [Lib -> {Root} \union Lib]
    BY DEF Init, Module, Image
  <2>2. phase \in [Module -> Phase]
    BY DEF Init, Phase
  <2>3. QED
    BY <1>1, <2>1, <2>2 DEF Stacked
<1>4. Directories
  BY <1>1, <1>2 DEF Init, Directories, DirFrom
<1>5. QED
  BY <1>3, <1>4

\* An import either only moves on, or throws, or adds a frame.
LEMMA ImportInvariant ==
  ASSUME Stacked, Directories, NEW n \in Module \union Absent, Import(n)
  PROVE  Stacked' /\ Directories'
<1>1. CASE ~ Found(n)
  <2>1. Quiet
    BY <1>1 DEF Import, Throw, Quiet, dir
  <2>2. QED
    BY <2>1, QuietInvariant
<1>2. CASE Found(n) /\ n \in loaded
  <2>1. Quiet
    BY <1>2 DEF Import, At, Goto, Quiet, Moves, dir, Phase
  <2>2. QED
    BY <2>1, QuietInvariant
<1>3. CASE Found(n) /\ n \notin loaded
  <2>1. /\ frames # <<>> /\ phase[Top] = "import" /\ n \in Module
        /\ loaded' = loaded \union {n} /\ frames' = <<n>> \o frames
        /\ phase' = [phase EXCEPT ![Top] = "entries", ![n] = FirstPhase(n)]
        /\ cwd' = cwd /\ saved' = saved
    BY <1>3 DEF Import, At, Mark, Found, dir
  <2>2. Top = frames[1] /\ 1 \in Frame /\ Top \in loaded /\ Frame = 1 .. Len(frames) /\ Len(frames) \in Nat
    BY <2>1, TopModule DEF Stacked, Frame
  <2>3. frames \in Seq(loaded')
    BY <2>1 DEF Stacked
  <2>4. /\ frames' \in Seq(loaded') /\ Frame' = 1 .. Len(frames) + 1 /\ frames'[1] = n
        /\ \A k \in Frame : frames'[k + 1] = frames[k]
    BY <2>1, <2>3, Pushed DEF Frame
  <2>5. \A k \in Frame : frames[k] \in loaded /\ frames[k] # n
    BY <1>3 DEF Stacked, Frame
  <2>6. \A k \in Frame' : k # 1 => k - 1 \in Frame /\ frames'[k] = frames[k - 1]
    <3>1. ASSUME NEW k \in Frame', k # 1 PROVE k - 1 \in Frame /\ frames'[(k - 1) + 1] = frames[k - 1]
      BY <2>2, <2>4, <3>1
    <3>2. \A k \in Frame' : (k - 1) + 1 = k
      BY <2>2, <2>4
    <3>3. QED
      BY <3>1, <3>2
  <2>7. Stacked'
    <3>1. loaded' \subseteq Module
      BY <2>1 DEF Stacked
    <3>2. phase' \in [Module -> Phase]
      BY <2>1 DEF Stacked, FirstPhase, Phase
    <3>3. ASSUME NEW j \in Frame', NEW k \in Frame', frames'[j] = frames'[k]
          PROVE  j = k
      <4>1. CASE j = 1 \/ k = 1
        BY <2>4, <2>5, <2>6, <3>3, <4>1
      <4>2. CASE j # 1 /\ k # 1
        <5>1. j - 1 = k - 1
          BY <2>6, <3>3, <4>2 DEF Stacked
        <5>2. QED
          BY <2>2, <2>4, <5>1
      <4>3. QED
        BY <4>1, <4>2
    <3>4. QED
      BY <2>1, <2>4, <3>1, <3>2, <3>3 DEF Stacked
  <2>8. ~ Inside(1)'
    <3>1. n # Top /\ phase'[n] = FirstPhase(n)
      BY <2>1, <2>2, <2>5 DEF Stacked
    <3>2. QED
      BY <2>4, <3>1, NamesAssumption DEF Inside, FirstPhase
  <2>9. \A k \in Frame : Inside(k + 1)' <=> Inside(k)
    <3>1. TAKE k \in Frame
    <3>2. frames[k] \in Module /\ frames[k] # n
      BY <2>5 DEF Stacked
    <3>3. phase'[frames[k]] = IF frames[k] = Top THEN "entries" ELSE phase[frames[k]]
      BY <2>1, <3>2 DEF Stacked
    <3>4. Inside(k + 1)' <=> frames[k] \in Lib /\ phase'[frames[k]] \notin {"init", "map"}
      BY <2>4 DEF Inside
    <3>5. phase'[frames[k]] \notin {"init", "map"} <=> phase[frames[k]] \notin {"init", "map"}
      BY <2>1, <3>3
    <3>6. QED
      BY <3>4, <3>5 DEF Inside
  <2>10. ASSUME NEW k \in Nat, NEW d, DirFrom(k, d)
         PROVE  DirFrom(k + 1, d)'
    <3>1. CASE d = Root /\ \A j \in Frame : j >= k => ~ Inside(j)
      <4>1. ASSUME NEW j \in Frame', j >= k + 1 PROVE ~ Inside(j)'
        <5>1. CASE j = 1
          BY <2>8, <5>1
        <5>2. CASE j # 1
          <6>1. j - 1 \in Frame /\ j - 1 >= k /\ (j - 1) + 1 = j
            BY <2>2, <2>4, <2>6, <4>1, <5>2
          <6>2. ~ Inside((j - 1) + 1)'
            BY <2>9, <3>1, <6>1
          <6>3. QED
            BY <6>1, <6>2
        <5>3. QED
          BY <5>1, <5>2
      <4>2. QED
        BY <3>1, <4>1 DEF DirFrom
    <3>2. CASE \E j \in Frame : /\ j >= k /\ Inside(j) /\ d = frames[j]
                                /\ \A i \in Frame : k <= i /\ i < j => ~ Inside(i)
      <4>1. PICK j \in Frame : /\ j >= k /\ Inside(j) /\ d = frames[j]
                               /\ \A i \in Frame : k <= i /\ i < j => ~ Inside(i)
        BY <3>2
      <4>2. j + 1 \in Frame' /\ j + 1 >= k + 1 /\ Inside(j + 1)' /\ d = frames'[j + 1]
        BY <2>2, <2>4, <2>9, <4>1
      <4>3. ASSUME NEW i \in Frame', k + 1 <= i, i < j + 1 PROVE ~ Inside(i)'
        <5>1. CASE i = 1
          BY <2>8, <5>1
        <5>2. CASE i # 1
          <6>1. i - 1 \in Frame /\ k <= i - 1 /\ i - 1 < j /\ (i - 1) + 1 = i
            BY <2>2, <2>4, <2>6, <4>3, <5>2
          <6>2. ~ Inside((i - 1) + 1)'
            BY <2>9, <4>1, <6>1
          <6>3. QED
            BY <6>1, <6>2
        <5>3. QED
          BY <5>1, <5>2
      <4>4. QED
        BY <4>2, <4>3 DEF DirFrom
    <3>3. QED
      BY <2>10, <3>1, <3>2 DEF DirFrom
  <2>11. DirFrom(1, cwd)'
    <3>1. DirFrom(2, cwd)'
      BY <2>1, <2>10 DEF Directories
    <3>2. QED
      BY <2>2, <2>4, <2>8, <3>1 DEF DirFrom
  <2>12. ASSUME NEW k \in Frame', Inside(k)'
         PROVE  DirFrom(k + 1, saved[frames[k]])'
    <3>1. k # 1
      BY <2>8, <2>12
    <3>2. k - 1 \in Frame /\ frames'[k] = frames[k - 1] /\ (k - 1) + 1 = k /\ k \in Nat
      BY <2>2, <2>4, <2>6, <3>1
    <3>3. Inside(k - 1)
      BY <2>9, <2>12, <3>2
    <3>4. DirFrom(k, saved[frames[k - 1]])
      BY <3>2, <3>3 DEF Directories
    <3>5. QED
      BY <2>1, <2>10, <3>2, <3>4
  <2>13. QED
    BY <2>7, <2>11, <2>12 DEF Directories
<1>4. QED
  BY <1>1, <1>2, <1>3

\* The constructor of a WorkingDir saves the directory of those around it.
LEMMA ChangeDirInvariant ==
  ASSUME Stacked, Directories, ChangeDir
  PROVE  Stacked' /\ Directories'
<1>1. /\ frames # <<>> /\ phase[Top] = "init" /\ Top \in Lib
      /\ frames' = frames /\ Frame' = Frame /\ loaded' = loaded
      /\ saved' = [saved EXCEPT ![Top] = cwd]
  BY DEF ChangeDir, At, Frame
<1>2. Top = frames[1] /\ 1 \in Frame /\ Frame \subseteq Nat \ {0} /\ Top \in Module
  BY <1>1, TopModule DEF Stacked, Frame
<1>3. ~ Inside(1) /\ DirFrom(1, cwd)
  BY <1>1, <1>2 DEF Inside, Directories
<1>4. DirFrom(2, cwd)
  <2>1. \A j \in Frame : j >= 1 /\ (j >= 2 <=> j # 1)
    BY <1>2
  <2>2. QED
    BY <1>3, <2>1 DEF DirFrom
<1>5. cwd \in {Root} \union Lib
  BY <1>4 DEF DirFrom, Inside
<1>6. phase' = phase \/ phase' = [phase EXCEPT ![Top] = "mount"]
  BY DEF ChangeDir, Goto
<1>7. Stacked'
  <2>1. phase' \in [Module -> Phase]
    BY <1>6 DEF Stacked, Phase
  <2>2. saved' \in [Lib -> {Root} \union Lib]
    BY <1>1, <1>5 DEF Stacked
  <2>3. QED
    BY <1>1, <2>1, <2>2 DEF Stacked
<1>8. \A k \in Frame : k # 1 => frames[k] # Top /\ frames[k] \in Module
  BY <1>2 DEF Stacked, Frame
<1>9. \A k \in Frame : k # 1 => (Inside(k)' <=> Inside(k))
  <2>1. \A k \in Frame : k # 1 => phase'[frames[k]] = phase[frames[k]]
    BY <1>6, <1>8 DEF Stacked
  <2>2. QED
    BY <1>1, <2>1 DEF Inside
<1>10. ASSUME NEW k \in Nat, k >= 2, NEW d, DirFrom(k, d)
       PROVE  DirFrom(k, d)'
  <2>1. \A j \in Frame : j >= k => j # 1
    BY <1>2, <1>10
  <2>2. QED
    BY <1>1, <1>9, <1>10, <2>1 DEF DirFrom
<1>11. ASSUME NEW k \in Frame, k # 1, Inside(k)'
       PROVE  DirFrom(k + 1, saved[frames[k]])'
  <2>1. DirFrom(k + 1, saved[frames[k]])
    BY <1>9, <1>11 DEF Directories
  <2>2. saved'[frames[k]] = saved[frames[k]]
    BY <1>1, <1>8, <1>11 DEF Inside, Stacked
  <2>3. k + 1 \in Nat /\ k + 1 >= 2
    BY <1>2
  <2>4. QED
    BY <1>1, <1>10, <2>1, <2>2, <2>3
<1>12. DirFrom(2, saved[frames[1]])'
  <2>1. saved'[frames[1]] = cwd
    BY <1>1, <1>2 DEF Stacked
  <2>2. QED
    BY <1>1, <1>4, <1>10, <2>1
<1>13. DirFrom(1, cwd)'
  <2>1. CASE error' = "chdir" /\ cwd' = cwd /\ phase' = phase
    <3>1. Inside(1)' <=> Inside(1)
      BY <1>1, <2>1 DEF Inside
    <3>2. \A j \in Frame : j >= 1 /\ (j >= 2 <=> j # 1)
      BY <1>2
    <3>3. \A j \in Frame : Inside(j)' <=> Inside(j)
      BY <1>9, <3>1
    <3>4. QED
      BY <1>1, <1>3, <2>1, <3>3 DEF DirFrom
  <2>2. CASE cwd' = Top /\ phase' = [phase EXCEPT ![Top] = "mount"]
    <3>1. phase'[Top] = "mount"
      BY <1>2, <2>2 DEF Stacked
    <3>2. Inside(1)'
      BY <1>1, <1>2, <3>1 DEF Inside
    <3>3. \A i \in Frame : ~ (i < 1)
      BY <1>2
    <3>4. QED
      BY <1>1, <1>2, <2>2, <3>2, <3>3 DEF DirFrom
  <2>3. QED
    BY <2>1, <2>2 DEF ChangeDir, Goto
<1>14. QED
  BY <1>1, <1>7, <1>11, <1>12, <1>13 DEF Directories

\* Without the innermost frame, the frames from 2 on are those from 1 on.
LEMMA BelowTop ==
  ASSUME Stacked, frames # <<>>, ~ Inside(1), NEW d, DirFrom(1, d)
  PROVE  DirFrom(2, d)
<1>1. Frame \subseteq Nat \ {0}
  BY DEF Stacked, Frame
<1>2. \A j \in Frame : j >= 1 /\ (j >= 2 <=> j # 1)
  BY <1>1
<1>3. QED
  BY <1>2 DEF DirFrom

\* The end of init destroys the WorkingDir.
LEMMA EndLinkInvariant ==
  ASSUME Stacked, Directories, EndLink
  PROVE  Stacked' /\ Directories'
<1>1. /\ frames # <<>> /\ phase[Top] = "import" /\ phase' = [phase EXCEPT ![Top] = "map"]
      /\ frames' = frames /\ Frame' = Frame /\ loaded' = loaded /\ saved' = saved
      /\ cwd' = IF Top \in Lib THEN saved[Top] ELSE cwd
  BY DEF EndLink, At, Goto, RestoredDir, Frame
<1>2. Top = frames[1] /\ 1 \in Frame /\ Frame \subseteq Nat \ {0} /\ Top \in Module
  BY <1>1, TopModule DEF Stacked, Frame
<1>3. CASE Top \notin Lib
  <2>1. Quiet
    BY <1>1, <1>3 DEF Quiet, Moves, Phase
  <2>2. QED
    BY <2>1, QuietInvariant
<1>4. CASE Top \in Lib
  <2>1. DirFrom(2, saved[Top])
    BY <1>1, <1>2, <1>4 DEF Directories, Inside
  <2>2. \A k \in Frame : k # 1 => frames[k] # Top /\ frames[k] \in Module
    BY <1>2 DEF Stacked, Frame
  <2>3. \A k \in Frame : k # 1 => (Inside(k)' <=> Inside(k))
    <3>1. \A k \in Frame : k # 1 => phase'[frames[k]] = phase[frames[k]]
      BY <1>1, <2>2 DEF Stacked
    <3>2. QED
      BY <1>1, <3>1 DEF Inside
  <2>4. ~ Inside(1)'
    BY <1>1, <1>2 DEF Inside, Stacked
  <2>5. ASSUME NEW k \in Nat, k >= 2, NEW d, DirFrom(k, d)
        PROVE  DirFrom(k, d)'
    <3>1. \A j \in Frame : j >= k => j # 1
      BY <1>2, <2>5
    <3>2. QED
      BY <1>1, <2>3, <2>5, <3>1 DEF DirFrom
  <2>6. DirFrom(1, cwd)'
    <3>1. DirFrom(2, cwd)'
      BY <1>1, <1>4, <2>1, <2>5
    <3>2. \A j \in Frame : j >= 1 /\ (j >= 2 <=> j # 1)
      BY <1>2
    <3>3. QED
      BY <1>1, <2>4, <3>1, <3>2 DEF DirFrom
  <2>7. ASSUME NEW k \in Frame, Inside(k)'
        PROVE  DirFrom(k + 1, saved[frames[k]])'
    <3>1. DirFrom(k + 1, saved[frames[k]])
      BY <2>3, <2>4, <2>7 DEF Directories
    <3>2. k + 1 \in Nat /\ k + 1 >= 2
      BY <1>2
    <3>3. QED
      BY <1>1, <2>5, <3>1, <3>2
  <2>8. Stacked'
    <3>1. phase' \in [Module -> Phase]
      BY <1>1 DEF Stacked, Phase
    <3>2. QED
      BY <1>1, <3>1 DEF Stacked
  <2>9. QED
    BY <1>1, <2>6, <2>7, <2>8 DEF Directories
<1>5. QED
  BY <1>3, <1>4

\* A return or an exception removes the innermost frame.
LEMMA PopInvariant ==
  ASSUME Stacked, Directories, frames # <<>>,
         frames' = Tail(frames), loaded' = loaded, saved' = saved,
         phase' = phase \/ phase' = [phase EXCEPT ![Top] = "mapped"],
         DirFrom(2, cwd')
  PROVE  Stacked' /\ Directories'
<1>1. /\ Top = frames[1] /\ Frame = 1 .. Len(frames) /\ Len(frames) \in Nat \ {0}
      /\ frames' \in Seq(loaded) /\ Frame' = 1 .. Len(frames) - 1
      /\ \A k \in Frame' : frames'[k] = frames[k + 1]
  BY Popped DEF Stacked, Top, Frame
<1>2. \A k \in Frame' : k \in Nat \ {0} /\ k + 1 \in Frame
  BY <1>1
<1>3. \A k \in Frame' : frames[k + 1] # Top /\ frames[k + 1] \in Module
  <2>1. \A k \in Frame : frames[k] \in Module
    BY DEF Stacked, Frame
  <2>2. \A k \in Frame' : k + 1 # 1 /\ 1 \in Frame
    BY <1>1
  <2>3. QED
    BY <1>1, <1>2, <2>1, <2>2 DEF Stacked
<1>4. \A k \in Frame' : Inside(k)' <=> Inside(k + 1)
  <2>1. \A k \in Frame' : phase'[frames[k + 1]] = phase[frames[k + 1]]
    BY <1>3 DEF Stacked
  <2>2. QED
    BY <1>1, <2>1 DEF Inside
<1>5. ASSUME NEW k \in Nat, k >= 1, NEW d, DirFrom(k + 1, d)
      PROVE  DirFrom(k, d)'
  <2>1. CASE d = Root /\ \A j \in Frame : j >= k + 1 => ~ Inside(j)
    <3>1. \A j \in Frame' : j >= k => j + 1 >= k + 1
      BY <1>2
    <3>2. QED
      BY <1>2, <1>4, <2>1, <3>1 DEF DirFrom
  <2>2. CASE \E j \in Frame : /\ j >= k + 1 /\ Inside(j) /\ d = frames[j]
                              /\ \A i \in Frame : k + 1 <= i /\ i < j => ~ Inside(i)
    <3>1. PICK j \in Frame : /\ j >= k + 1 /\ Inside(j) /\ d = frames[j]
                             /\ \A i \in Frame : k + 1 <= i /\ i < j => ~ Inside(i)
      BY <2>2
    <3>2. j - 1 \in Frame' /\ j - 1 >= k /\ (j - 1) + 1 = j
      BY <1>1, <1>5, <3>1
    <3>3. Inside(j - 1)' /\ d = frames'[j - 1]
      BY <1>1, <1>4, <3>1, <3>2
    <3>4. ASSUME NEW i \in Frame', k <= i, i < j - 1 PROVE ~ Inside(i)'
      <4>1. i + 1 \in Frame /\ k + 1 <= i + 1 /\ i + 1 < j
        BY <1>1, <1>2, <3>1, <3>4
      <4>2. QED
        BY <1>4, <3>1, <4>1
    <3>5. QED
      BY <3>2, <3>3, <3>4 DEF DirFrom
  <2>3. QED
    BY <1>5, <2>1, <2>2 DEF DirFrom
<1>6. DirFrom(1, cwd)'
  <2>1. DirFrom(1 + 1, cwd')
    OBVIOUS
  <2>2. QED
    BY <1>5, <2>1
<1>7. ASSUME NEW k \in Frame', Inside(k)'
      PROVE  DirFrom(k + 1, saved[frames[k]])'
  <2>1. DirFrom((k + 1) + 1, saved[frames[k + 1]])
    BY <1>2, <1>4, <1>7 DEF Directories
  <2>2. k + 1 \in Nat /\ k + 1 >= 1
    BY <1>2
  <2>3. QED
    BY <1>1, <1>5, <2>1, <2>2
<1>8. Stacked'
  <2>1. phase' \in [Module -> Phase]
    BY DEF Stacked, Phase
  <2>2. ASSUME NEW j \in Frame', NEW k \in Frame', frames'[j] = frames'[k]
        PROVE  j = k
    <3>1. j + 1 = k + 1
      BY <1>1, <1>2, <2>2 DEF Stacked
    <3>2. QED
      BY <1>2, <3>1
  <2>3. QED
    BY <1>1, <2>1, <2>2 DEF Stacked
<1>9. QED
  BY <1>6, <1>7, <1>8 DEF Directories

LEMMA HostCodeMapInvariant ==
  ASSUME Stacked, Directories, HostCodeMap
  PROVE  Stacked' /\ Directories'
<1>1. CASE Throw("Conflict")
  <2>1. Quiet
    BY <1>1 DEF Throw, Quiet, dir
  <2>2. QED
    BY <2>1, QuietInvariant
<1>2. CASE ~ Throw("Conflict")
  <2>1. /\ frames # <<>> /\ phase[Top] = "map" /\ phase' = [phase EXCEPT ![Top] = "mapped"]
        /\ frames' = Tail(frames) /\ loaded' = loaded /\ cwd' = cwd /\ saved' = saved
    BY <1>2 DEF HostCodeMap, At, Goto, dir
  <2>2. ~ Inside(1)
    BY <2>1, TopModule DEF Inside
  <2>3. DirFrom(2, cwd')
    BY <2>1, <2>2, BelowTop DEF Directories
  <2>4. QED
    BY <2>1, <2>3, PopInvariant
<1>3. QED
  BY <1>1, <1>2

LEMMA UnwindInvariant ==
  ASSUME Stacked, Directories, Unwind
  PROVE  Stacked' /\ Directories'
<1>1. /\ frames # <<>> /\ frames' = Tail(frames)
      /\ loaded' = loaded /\ phase' = phase /\ saved' = saved
      /\ cwd' = IF phase[Top] \notin {"init", "map"} /\ Top \in Lib THEN saved[Top] ELSE cwd
  BY DEF Unwind, RestoredDir
<1>2. Top = frames[1] /\ 1 \in Frame
  BY <1>1, TopModule
<1>3. DirFrom(2, cwd')
  <2>1. CASE Inside(1)
    BY <1>1, <1>2, <2>1 DEF Directories, Inside
  <2>2. CASE ~ Inside(1)
    <3>1. cwd' = cwd
      BY <1>1, <1>2, <2>2 DEF Inside
    <3>2. QED
      BY <1>1, <2>2, <3>1, BelowTop DEF Directories
  <2>3. QED
    BY <2>1, <2>2
<1>4. QED
  BY <1>1, <1>3, PopInvariant

-----------------------------------------------------------------------------
(* The theorem.                                                            *)

LEMMA NextInvariant == Stacked /\ Directories /\ [Next]_vars => Stacked' /\ Directories'
<1> SUFFICES ASSUME Stacked, Directories, [Next]_vars
             PROVE  Stacked' /\ Directories'
  OBVIOUS
<1>1. CASE \/ Mount \/ Stack \/ Heap \/ HostInit \/ ReadDirs \/ EndEntries
           \/ (\E e \in Entry : LinkEntry(e))
           \/ UNCHANGED vars
  BY <1>1, QuietSteps, QuietInvariant
<1>2. CASE ChangeDir
  BY <1>2, ChangeDirInvariant
<1>3. CASE Unwind
  BY <1>3, UnwindInvariant
<1>4. CASE \E n \in Module \union Absent : Import(n)
  BY <1>4, ImportInvariant
<1>5. CASE EndLink
  BY <1>5, EndLinkInvariant
<1>6. CASE HostCodeMap
  BY <1>6, HostCodeMapInvariant
<1>7. QED
  BY <1>1, <1>2, <1>3, <1>4, <1>5, <1>6 DEF Next, Step, Over

\* The working directory is always that of the innermost LibModule in init: it
\* is restored by returns and by exceptions, however the DLLs import one
\* another, and the process is back in its own when loading is over.
THEOREM WorkingDirectory == Spec => []InDirectory
<1>1. Stacked /\ Directories => InDirectory
  <2> SUFFICES ASSUME Stacked, Directories
               PROVE  InDirectory
    OBVIOUS
  <2> DEFINE In == {k \in DOMAIN frames : frames[k] \in Lib /\ phase[frames[k]] \notin {"init", "map"}}
  <2>1. \A k \in Frame : k \in Nat /\ k >= 1
    BY DEF Frame, Stacked
  <2>2. \A k : k \in In <=> k \in Frame /\ Inside(k)
    BY DEF Frame, Inside
  <2> HIDE DEF In
  <2>3. CASE cwd = Root /\ \A j \in Frame : j >= 1 => ~ Inside(j)
    <3>1. \A j \in Frame : ~ Inside(j)
      BY <2>1, <2>3
    <3>2. In = {}
      BY <2>2, <3>1
    <3>3. QED
      BY <2>3, <3>2 DEF InDirectory, In
  <2>4. CASE \E j \in Frame : /\ j >= 1 /\ Inside(j) /\ cwd = frames[j]
                              /\ \A i \in Frame : 1 <= i /\ i < j => ~ Inside(i)
    <3>1. PICK j \in Frame : /\ Inside(j) /\ cwd = frames[j]
                             /\ \A i \in Frame : 1 <= i /\ i < j => ~ Inside(i)
      BY <2>4
    <3>2. j \in In
      BY <2>2, <3>1
    <3>3. ASSUME NEW l \in In
          PROVE  j <= l
      <4>1. l \in Frame /\ Inside(l)
        BY <2>2, <3>3
      <4>2. ~ (1 <= l /\ l < j)
        BY <3>1, <4>1
      <4>3. QED
        BY <2>1, <4>1, <4>2
    <3>4. QED
      BY <3>1, <3>2, <3>3 DEF InDirectory, In
  <2>5. QED
    BY <2>3, <2>4 DEF Directories, DirFrom
<1>2. QED
  BY <1>1, InitInvariant, NextInvariant, PTL DEF Spec

-----------------------------------------------------------------------------
(* Modules are loaded once, and their imports resolved: the invariant.     *)

\* Where the module is in the address space, and where the directories of an
\* image were read.
Placed == {"stack", "heap", "dirs", "import", "entries", "map", "mapped"}
Read == {"import", "entries", "map", "mapped"}

Typed ==
  /\ recorded \in [Module -> SUBSET Symbol] /\ exports \in [Lib -> SUBSET Symbol]
  /\ image \in [Module -> Interval]
  /\ modmap \subseteq [range : Interval, module : Module]
  /\ written \in [Page -> Module \union {none}]
  /\ current \in [Image -> Module \union {none}] /\ linked \in [Image -> SUBSET Module]

\* A module is placed once, where nothing else is, and its sections stay.
Placement ==
  /\ \A m \in Module : phase[m] \in Placed => [range |-> image[m], module |-> m] \in modmap
  /\ \A d \in modmap : phase[d.module] \in Placed
  /\ \A d, e \in modmap :
       d # e => ~ Meets(d.range, e.range) /\ (d.module = e.module => d.module = Main)
  /\ \A m \in Image : phase[m] \in Placed =>
       \A p \in image[m].first .. image[m].last : written[p] = m

\* All frames but the innermost are importing; what is loaded is in a frame or
\* is done.
Nested ==
  /\ \A m \in Host : phase[m] \in {"idle", "init", "map", "mapped"}
  /\ \A m \in Module : phase[m] \in {"stack", "heap"} => m = Main
  /\ \A m \in Module \ loaded : phase[m] = "idle"
  /\ \A m \in Image : phase[m] \in Read => m \in dirs
  /\ \A m \in Module : phase[m] = "entries" => current[m] \in loaded
  /\ \A m \in Image : linked[m] \subseteq loaded
  /\ \A k \in Frame : k >= 2 => phase[frames[k]] = "entries"
  /\ error = none => \A m \in loaded : phase[m] = "mapped" \/ \E k \in Frame : frames[k] = m
  /\ error # "Conflict"

\* The CallDB has the functions of the modules that are done.
Entered ==
  /\ \A a \in DOMAIN calldb : /\ calldb[a] \in Module /\ phase[calldb[a]] = "mapped"
                              /\ \E s \in Symbol : a = ValueAt(calldb[a], s)
  /\ \A m \in Module : phase[m] = "mapped" =>
       \A s \in recorded[m] : ValueAt(m, s) \in DOMAIN calldb /\ calldb[ValueAt(m, s)] = m

\* What a lookup of a symbol of m uses does not change any more.
Settled(m) == phase[m] \in (IF m \in Host THEN {"mapped"} ELSE Read)

\* A lookup would give again what it has given.
Looked == \A i \in iat : /\ i.from \in Module /\ i.entry \in Entry /\ Settled(i.from)
                         /\ i.value = symboladdr(i.from, i.entry)

Loading == Typed /\ Placement /\ Nested /\ Entered /\ Looked

LEMMA LoadingInit == Init => Loading
<1> SUFFICES ASSUME Init PROVE Loading
  OBVIOUS
<1>1. Main \in Module /\ Main \notin Host /\ Image \subseteq Module
  BY NamesAssumption DEF Module, Image
<1>2. Everything \in Interval
  BY SpaceAssumption DEF Everything, Interval, Page
<1>3. Typed
  BY <1>2 DEF Init, Typed
<1>4. /\ \A m \in Module : phase[m] = IF m = Main THEN "mount" ELSE "idle"
      /\ loaded = {Main} /\ frames = <<Main>> /\ modmap = {} /\ iat = {} /\ error = none
      /\ linked = [m \in Image |-> {}] /\ calldb = <<>>
  BY DEF Init
<1>5. Placement
  BY <1>1, <1>4 DEF Placement, Placed
<1>6. Nested
  <2>1. Frame = {1} /\ frames[1] = Main
    BY <1>4 DEF Frame
  <2>2. \A m \in Module : phase[m] = "mount" \/ phase[m] = "idle"
    BY <1>4
  <2>3. \A m \in Host : phase[m] = "idle"
    BY <1>1, <1>4 DEF Module
  <2>4. \A m \in loaded : \E k \in Frame : frames[k] = m
    BY <1>4, <2>1
  <2>5. \A k \in Frame : ~ k >= 2
    BY <2>1
  <2>6. /\ \A m \in Module \ loaded : phase[m] = "idle"
        /\ \A m \in Image : linked[m] \subseteq loaded
        /\ error # "Conflict"
    BY <1>4 DEF none
  <2> QED
    BY <1>1, <2>2, <2>3, <2>4, <2>5, <2>6 DEF Nested, Read
<1>7. Entered
  <2>1. DOMAIN calldb = {}
    BY <1>4
  <2> QED
    BY <1>4, <2>1 DEF Entered
<1> QED
  BY <1>3, <1>4, <1>5, <1>6, <1>7 DEF Loading, Looked

\* Steps that change nothing, or throw (but not out of the CallDB).
LEMMA SameLoading ==
  ASSUME Loading, UNCHANGED <<file, loaded, frames, phase, space, import, calldb>>,
         error' = error \/ (error' # none /\ error' # "Conflict")
  PROVE  Loading'
<1>1. /\ UNCHANGED <<recorded, exports, links>> /\ UNCHANGED <<image, modmap, written>>
      /\ UNCHANGED <<dirs, current, linked, iat>> /\ UNCHANGED <<loaded, frames, phase, calldb>>
  BY DEF file, space, import
<1>2. Typed' /\ Placement' /\ Entered'
  BY <1>1 DEF Loading, Typed, Placement, Entered, ValueAt
<1>3. Looked'
  BY <1>1 DEF Loading, Looked, Settled, symboladdr, LibSymbol, ModuleSymbol, Readable, ValueAt
<1>4. Nested'
  BY <1>1 DEF Loading, Nested, Frame
<1> QED
  BY <1>2, <1>3, <1>4 DEF Loading

\* What no lookup may see.
Unseen ==
  \A m \in Module :
    Settled(m) => /\ Settled(m)' /\ image'[m] = image[m]
                  /\ m \in Lib => exports'[m] = exports[m] /\ (m \in dirs' <=> m \in dirs)
                  /\ \A p \in image[m].first .. image[m].last : written'[p] = written[p]

LEMMA LookedKept ==
  ASSUME Looked, UNCHANGED <<iat, recorded>>, Unseen
  PROVE  Looked'
<1> SUFFICES ASSUME NEW i \in iat
             PROVE  /\ i.from \in Module /\ i.entry \in Entry /\ Settled(i.from)'
                    /\ i.value = symboladdr(i.from, i.entry)'
  BY DEF Looked
<1> DEFINE m == i.from
<1>1. m \in Module /\ i.entry \in Entry /\ Settled(m) /\ i.value = symboladdr(m, i.entry)
  BY DEF Looked
<1>2. Settled(m)' /\ image'[m] = image[m] /\ recorded' = recorded
  BY <1>1 DEF Unseen
<1>3. CASE m \in Lib
  <2>1. exports'[m] = exports[m] /\ (Readable(m)' <=> Readable(m))
    BY <1>1, <1>2, <1>3 DEF Unseen, Readable
  <2> QED
    BY <1>1, <1>2, <1>3, <2>1 DEF symboladdr, LibSymbol, ValueAt
<1>4. CASE m \notin Lib
  BY <1>1, <1>2, <1>4 DEF symboladdr, ModuleSymbol, ValueAt
<1> QED
  BY <1>1, <1>2, <1>3, <1>4

LEMMA EnteredKept ==
  ASSUME Entered, UNCHANGED <<calldb, recorded>>, Unseen,
         \A m \in Module : phase'[m] = "mapped" <=> phase[m] = "mapped"
  PROVE  Entered'
<1>1. \A m \in Module : phase[m] = "mapped" => image'[m] = image[m]
  BY DEF Unseen, Settled, Read
<1> QED
  BY <1>1 DEF Entered, ValueAt

\* Steps that leave the address space alone.
LEMMA SpaceKept ==
  ASSUME Typed, Placement, UNCHANGED space,
         \A m \in Module : phase'[m] \in Placed <=> phase[m] \in Placed
  PROVE  Placement'
<1>1. UNCHANGED image /\ UNCHANGED modmap /\ UNCHANGED written
  BY DEF space
<1>2. Image \subseteq Module /\ \A d \in modmap : d.module \in Module
  BY DEF Image, Module, Typed
<1> QED
  BY <1>1, <1>2 DEF Placement

\* A step of the innermost frame which stays.
LEMMA NestedTurn ==
  ASSUME Stacked, Nested, frames # <<>>, UNCHANGED <<frames, loaded>>, error' # "Conflict",
         error = none, NEW p, phase' = [phase EXCEPT ![Top] = p],
         Top \in Host => p = "map",
         p \in {"stack", "heap"} => Top = Main,
         dirs \subseteq dirs', Top \in Image /\ p \in Read => Top \in dirs',
         p = "entries" => current'[Top] \in loaded,
         \A m \in Module : m # Top => current'[m] = current[m],
         \A m \in Image : linked'[m] \subseteq loaded
  PROVE  Nested'
<1>1. Top = frames[1] /\ 1 \in Frame /\ Top \in Module /\ Top \in loaded
  BY TopModule, Popped DEF Stacked, Top
<1>2. /\ phase'[Top] = p /\ \A m \in Module : m # Top => phase'[m] = phase[m]
      /\ frames' = frames /\ loaded' = loaded /\ Frame' = Frame
      /\ Image \subseteq Module /\ Host \subseteq Module /\ loaded \subseteq Module
  BY <1>1 DEF Stacked, Frame, Image, Module
<1>3. \A k \in Frame : k >= 2 => frames[k] # Top /\ frames[k] \in Module
  BY <1>1, <1>2 DEF Stacked, Frame
<1>4. /\ \A m \in Host : phase'[m] \in {"idle", "init", "map", "mapped"}
      /\ \A m \in Module : phase'[m] \in {"stack", "heap"} => m = Main
      /\ \A m \in Module \ loaded : phase'[m] = "idle"
      /\ \A m \in Image : phase'[m] \in Read => m \in dirs'
      /\ \A m \in Module : phase'[m] = "entries" => current'[m] \in loaded
  BY <1>1, <1>2 DEF Nested
<1>5. \A k \in Frame : k >= 2 => phase'[frames[k]] = "entries"
  BY <1>2, <1>3 DEF Nested
<1>6. \A m \in loaded : phase'[m] = "mapped" \/ \E k \in Frame : frames[k] = m
  BY <1>1, <1>2 DEF Nested
<1> QED
  BY <1>2, <1>4, <1>5, <1>6 DEF Nested

\* What was placed is at its place, and away from a range that is free.
LEMMA PlacedAway ==
  ASSUME Typed, Placement, NEW m \in Module, phase[m] \in Placed, NEW r \in Interval, IsFree(r)
  PROVE  \A p \in image[m].first .. image[m].last : p \in Int /\ p \notin r.first .. r.last
<1>1. ~ Meets(r, image[m]) /\ image[m] \in Interval
  BY DEF Placement, IsFree, Typed
<1>2. /\ image[m].first \in Int /\ image[m].last \in Int
      /\ r.first \in Int /\ r.last \in Int
  BY <1>1, SpaceAssumption DEF Interval, Page
<1> QED
  BY <1>1, <1>2 DEF Meets

\* Sections are written only where nothing is.
LEMMA MountLoading ==
  ASSUME Stacked, Loading, Mount
  PROVE  Loading'
<1>1. /\ frames # <<>> /\ phase[Top] = "mount" /\ error = none
      /\ UNCHANGED <<recorded, exports>> /\ UNCHANGED <<frames, loaded, calldb>>
      /\ UNCHANGED <<dirs, current, linked, iat>>
  BY DEF Mount, At, file, import
<1>2. /\ Top = frames[1] /\ 1 \in Frame /\ Top \in Module
      /\ Typed /\ Placement /\ Nested /\ Entered /\ Looked
      /\ phase \in [Module -> Phase] /\ Image \subseteq Module
  BY <1>1, TopModule DEF Loading, Stacked, Image, Module
<1>3. Top \notin Host /\ Top \in Image
  BY <1>1, <1>2 DEF Nested, Module
<1>4. PICK b \in Base, n \in Size :
        LET r == [first |-> b, last |-> b + n - 1]
        IN /\ r.last <= Last
           /\ image' = [image EXCEPT ![Top] = r]
           /\ IF Recordable(r)
                THEN /\ Own(r)
                     /\ written' = [p \in Page |-> IF p \in b .. r.last THEN Top ELSE written[p]]
                     /\ Goto(IF Top = Main THEN "stack" ELSE "dirs")
                     /\ UNCHANGED error
                ELSE error' = "overlap" /\ UNCHANGED <<modmap, written, phase>>
  BY DEF Mount
<1> DEFINE r == [first |-> b, last |-> b + n - 1]
<1>5. r \in Interval /\ r.first = b
  BY <1>4, SpaceAssumption DEF Interval, Page
<1>6. /\ image' = [image EXCEPT ![Top] = r] /\ image' \in [Module -> Interval]
      /\ \A m \in Module : m # Top => image'[m] = image[m]
  BY <1>2, <1>4, <1>5 DEF Typed
<1>7. \A m \in Module : Settled(m) => m # Top /\ phase[m] \in Placed
  BY <1>1 DEF Settled, Read, Placed
<1>8. CASE ~ IsFree(r)
  <2>1. error' = "overlap" /\ UNCHANGED <<modmap, written, phase>>
    BY <1>4, <1>8 DEF Recordable
  <2>2. Typed'
    BY <1>1, <1>2, <1>6, <2>1 DEF Typed
  <2>3. Placement'
    <3>1. phase[Top] \notin Placed
      BY <1>1 DEF Placed
    <3> QED
      BY <1>2, <1>6, <2>1, <3>1 DEF Placement
  <2>4. Nested'
    BY <1>1, <1>2, <2>1 DEF Nested, Frame, none
  <2>5. Unseen
    BY <1>1, <1>6, <1>7, <2>1 DEF Unseen, Settled
  <2> QED
    BY <1>1, <1>2, <2>1, <2>2, <2>3, <2>4, <2>5, LookedKept, EnteredKept DEF Loading
<1>9. CASE IsFree(r)
  <2> DEFINE q == IF Top = Main THEN "stack" ELSE "dirs"
  <2>1. /\ modmap' = modmap \union {[range |-> r, module |-> Top]}
        /\ written' = [p \in Page |-> IF p \in r.first .. r.last THEN Top ELSE written[p]]
        /\ phase' = [phase EXCEPT ![Top] = q] /\ error' = error
    BY <1>4, <1>5, <1>9 DEF Recordable, Own, Goto
  <2>2. /\ q \in Placed /\ q \notin Read /\ q # "entries" /\ q # "mapped" /\ phase'[Top] = q
        /\ \A m \in Module : m # Top => phase'[m] = phase[m]
    BY <1>2, <2>1 DEF Placed, Read
  <2>3. Typed'
    BY <1>1, <1>2, <1>5, <1>6, <2>1 DEF Typed
  <2>4. Placement'
    <3> DEFINE new == [range |-> r, module |-> Top]
    <3>1. \A m \in Module : phase'[m] \in Placed => [range |-> image'[m], module |-> m] \in modmap'
      BY <1>2, <1>6, <2>1, <2>2 DEF Placement, Typed
    <3>2. \A d \in modmap : d.module \in Module /\ d.module # Top
      BY <1>1, <1>2 DEF Placement, Typed, Placed
    <3>3. \A d \in modmap' : phase'[d.module] \in Placed
      BY <1>2, <2>1, <2>2, <3>2 DEF Placement
    <3>4. \A d \in modmap : ~ Meets(r, d.range) /\ ~ Meets(d.range, r)
      BY <1>9 DEF IsFree, Meets
    <3>5. \A d, e \in modmap' :
            d # e => ~ Meets(d.range, e.range) /\ (d.module = e.module => d.module = Main)
      BY <1>2, <2>1, <3>2, <3>4 DEF Placement
    <3>6. ASSUME NEW m \in Image, phase'[m] \in Placed,
                 NEW p \in image'[m].first .. image'[m].last
          PROVE  written'[p] = m
      <4>1. CASE m = Top
        <5>1. p \in Page
          BY <1>2, <1>5, <1>6, <3>6, <4>1, SpaceAssumption DEF Interval, Page, Typed
        <5> QED
          BY <1>2, <1>6, <2>1, <3>6, <4>1, <5>1 DEF Typed
      <4>2. CASE m # Top
        <5>1. m \in Module /\ phase[m] \in Placed /\ image'[m] = image[m]
          BY <1>2, <1>6, <2>2, <3>6, <4>2
        <5>2. image[m] \in Interval
          BY <1>2, <5>1 DEF Typed
        <5>3. p \in Page /\ p \notin r.first .. r.last
          BY <1>2, <1>5, <1>9, <3>6, <5>1, <5>2, PlacedAway, SpaceAssumption DEF Interval, Page
        <5> QED
          BY <1>2, <2>1, <3>6, <5>1, <5>3 DEF Placement
      <4> QED
        BY <4>1, <4>2
    <3> QED
      BY <3>1, <3>3, <3>5, <3>6 DEF Placement
  <2>5. Nested'
    BY <1>1, <1>2, <1>3, <2>1, <2>2, NestedTurn DEF Nested, none
  <2>6. Unseen
    <3>1. ASSUME NEW m \in Module, Settled(m), NEW p \in image[m].first .. image[m].last
          PROVE  written'[p] = written[p]
      <4>1. image[m] \in Interval /\ phase[m] \in Placed
        BY <1>2, <1>7, <3>1 DEF Typed
      <4>2. p \in Page /\ p \notin r.first .. r.last
        BY <1>2, <1>5, <1>9, <3>1, <4>1, PlacedAway, SpaceAssumption DEF Interval, Page
      <4> QED
        BY <2>1, <4>2
    <3> QED
      BY <1>1, <1>6, <1>7, <2>2, <3>1 DEF Unseen, Settled
  <2> QED
    BY <1>1, <1>2, <2>2, <2>3, <2>4, <2>5, <2>6, LookedKept, EnteredKept DEF Loading
<1> QED
  BY <1>8, <1>9

\* The stack and the heap of the program, and the range of a host module.
LEMMA AllocateLoading ==
  ASSUME Stacked, Loading, frames # <<>>, error = none,
         NEW region, NEW topdown, NEW n, NEW next, Allocate(region, topdown, n, next),
         \/ /\ Top = Main /\ phase[Top] \in {"stack", "heap"} /\ next \in {"heap", "dirs"}
         \/ /\ Top \in Host /\ phase[Top] = "init" /\ next = "map"
  PROVE  Loading'
<1>1. /\ UNCHANGED <<recorded, exports>> /\ UNCHANGED <<frames, loaded, calldb, written>>
      /\ UNCHANGED <<dirs, current, linked, iat>>
  BY DEF Allocate, file, import
<1>2. /\ Top = frames[1] /\ 1 \in Frame /\ Top \in Module
      /\ Typed /\ Placement /\ Nested /\ Entered /\ Looked
      /\ phase \in [Module -> Phase] /\ Image \subseteq Module /\ Host \subseteq Module
      /\ Main \in Image /\ Main \notin Host
  BY TopModule, NamesAssumption DEF Loading, Stacked, Image, Module
<1>3. CASE Fits(region, n) = {} /\ error' = "full" /\ UNCHANGED <<image, modmap, phase>>
  BY <1>3, SameLoading DEF Allocate, none, space
<1>4. CASE \E r \in First(Fits(region, n), topdown) :
             /\ Own(r) /\ Goto(next)
             /\ image' = IF Top \in Host THEN [image EXCEPT ![Top] = r] ELSE image
             /\ UNCHANGED error
  <2>1. PICK r \in First(Fits(region, n), topdown) :
             /\ Own(r) /\ Goto(next)
             /\ image' = IF Top \in Host THEN [image EXCEPT ![Top] = r] ELSE image
             /\ UNCHANGED error
    BY <1>4
  <2>2. r \in Interval /\ IsFree(r)
    BY DEF First, Fits
  <2>3. /\ modmap' = modmap \union {[range |-> r, module |-> Top]}
        /\ phase' = [phase EXCEPT ![Top] = next] /\ error' = error
        /\ image' \in [Module -> Interval]
        /\ \A m \in Module : m # Top => image'[m] = image[m]
        /\ Top \in Host => image'[Top] = r
        /\ Top \notin Host => image'[Top] = image[Top]
    BY <1>2, <2>1, <2>2 DEF Own, Goto, Typed
  <2>4. /\ next \in Placed /\ next # "entries" /\ next # "mapped" /\ phase'[Top] = next
        /\ \A m \in Module : m # Top => phase'[m] = phase[m]
    BY <1>2, <2>3 DEF Placed
  <2>5. Typed'
    BY <1>1, <1>2, <2>2, <2>3 DEF Typed
  <2>6. Placement'
    <3>1. \A m \in Module : phase'[m] \in Placed => [range |-> image'[m], module |-> m] \in modmap'
      BY <1>2, <2>3, <2>4 DEF Placement, Placed
    <3>2. \A d \in modmap : d.module \in Module /\ (d.module = Top => Top = Main)
      BY <1>2 DEF Placement, Typed, Placed
    <3>3. \A d \in modmap' : phase'[d.module] \in Placed
      BY <1>2, <2>3, <2>4, <3>2 DEF Placement
    <3>4. \A d \in modmap : ~ Meets(r, d.range) /\ ~ Meets(d.range, r)
      BY <2>2 DEF IsFree, Meets
    <3>5. \A d, e \in modmap' :
            d # e => ~ Meets(d.range, e.range) /\ (d.module = e.module => d.module = Main)
      BY <1>2, <2>3, <3>2, <3>4 DEF Placement
    <3>6. ASSUME NEW m \in Image, phase'[m] \in Placed
          PROVE  /\ phase[m] \in Placed /\ image'[m] = image[m]
      BY <1>2, <2>3, <2>4, <3>6, NamesAssumption DEF Placed, Image
    <3> QED
      BY <1>1, <1>2, <3>1, <3>3, <3>5, <3>6 DEF Placement
  <2>7. Nested'
    <3>1. /\ Top \in Host => next = "map" /\ Top \notin Image
          /\ next \in {"stack", "heap"} => Top = Main
          /\ next \in Read => Top \in Host
      BY <1>2, NamesAssumption DEF Image, Read
    <3>2. error' # "Conflict"
      BY <2>3 DEF none
    <3>3. \A m \in Image : linked'[m] \subseteq loaded
      BY <1>1, <1>2 DEF Nested
    <3> QED
      BY <1>1, <1>2, <2>3, <2>4, <3>1, <3>2, <3>3, NestedTurn
  <2>8. Unseen
    <3>1. \A m \in Module : Settled(m) => m # Top
      BY <1>2 DEF Settled, Read
    <3> QED
      BY <1>1, <2>3, <2>4, <3>1 DEF Unseen, Settled
  <2>9. \A m \in Module : phase'[m] = "mapped" <=> phase[m] = "mapped"
    BY <1>2, <2>4
  <2> QED
    BY <1>1, <1>2, <2>5, <2>6, <2>7, <2>8, <2>9, LookedKept, EnteredKept DEF Loading
<1> QED
  BY <1>3, <1>4 DEF Allocate

LEMMA AllocationsLoading ==
  ASSUME Stacked, Loading, Stack \/ Heap \/ HostInit
  PROVE  Loading'
<1>1. frames # <<>> /\ error = none
  BY DEF Stack, Heap, HostInit, At
<1>2. Top \in Module /\ Nested
  BY <1>1, TopModule DEF Loading
<1>3. CASE Stack
  <2>1. phase[Top] = "stack" /\ Top = Main
    BY <1>2, <1>3 DEF Stack, At, Nested
  <2> QED
    BY <1>1, <1>3, <2>1, AllocateLoading DEF Stack
<1>4. CASE Heap
  <2>1. phase[Top] = "heap" /\ Top = Main
    BY <1>2, <1>4 DEF Heap, At, Nested
  <2>2. CASE Throw("empty")
    BY <2>2, SameLoading DEF Throw, none
  <2>3. CASE \E n \in Size :
               Allocate([first |-> image[Main].first, last |-> Last \div 2], FALSE, n, "dirs")
    BY <1>1, <2>1, <2>3, AllocateLoading
  <2> QED
    BY <1>4, <2>2, <2>3 DEF Heap
<1>5. CASE HostInit
  BY <1>1, <1>5, AllocateLoading DEF HostInit, At
<1> QED
  BY <1>3, <1>4, <1>5

LEMMA ChangeDirLoading ==
  ASSUME Stacked, Loading, ChangeDir
  PROVE  Loading'
<1>1. /\ frames # <<>> /\ phase[Top] = "init" /\ error = none /\ Top \in Lib
      /\ UNCHANGED <<file, loaded, frames, space, import, calldb>>
  BY DEF ChangeDir, At
<1>2. /\ Top \in Module /\ Typed /\ Placement /\ Nested /\ Entered /\ Looked
      /\ phase \in [Module -> Phase] /\ Top \notin Host
  BY <1>1, TopModule, NamesAssumption DEF Loading, Stacked
<1>3. CASE error' = "chdir" /\ UNCHANGED phase
  BY <1>1, <1>3, SameLoading DEF none
<1>4. CASE Goto("mount") /\ UNCHANGED error
  <2>1. /\ UNCHANGED <<recorded, exports>> /\ UNCHANGED <<image, modmap, written>>
        /\ UNCHANGED <<dirs, current, linked, iat>> /\ UNCHANGED <<frames, loaded, calldb>>
        /\ phase' = [phase EXCEPT ![Top] = "mount"] /\ error' = error
    BY <1>1, <1>4 DEF Goto, file, space, import
  <2>2. phase'[Top] = "mount" /\ \A m \in Module : m # Top => phase'[m] = phase[m]
    BY <1>2, <2>1
  <2>3. Typed'
    BY <1>2, <2>1 DEF Typed
  <2>4. Placement'
    BY <1>1, <1>2, <2>2, SpaceKept DEF Placed
  <2>5. Nested'
    BY <1>1, <1>2, <2>1, NestedTurn DEF Nested, none, Read
  <2>6. Unseen
    BY <1>1, <2>1, <2>2 DEF Unseen, Settled, Readable, Read
  <2> QED
    BY <1>1, <1>2, <2>1, <2>2, <2>3, <2>4, <2>5, <2>6, LookedKept, EnteredKept DEF Loading
<1> QED
  BY <1>3, <1>4 DEF ChangeDir

\* Exports are read before anything is looked up in them.
LEMMA ReadDirsLoading ==
  ASSUME Stacked, Loading, ReadDirs
  PROVE  Loading'
<1>1. /\ frames # <<>> /\ phase[Top] = "dirs" /\ error = none
      /\ dirs' = dirs \union {Top} /\ UNCHANGED recorded /\ UNCHANGED space
      /\ UNCHANGED <<image, modmap, written>> /\ UNCHANGED <<loaded, frames, calldb, error>>
      /\ UNCHANGED <<current, linked, iat>>
      /\ phase' = [phase EXCEPT ![Top] = "import"]
      /\ \/ /\ Top \in Lib
            /\ \E names \in SUBSET Symbol : exports' = [exports EXCEPT ![Top] = names]
         \/ UNCHANGED exports
  BY DEF ReadDirs, At, Goto, Located, space
<1>2. /\ Top \in Module /\ Typed /\ Placement /\ Nested /\ Entered /\ Looked
      /\ phase \in [Module -> Phase] /\ Top \notin Host
  BY <1>1, TopModule DEF Loading, Stacked, Nested
<1>3. /\ exports' \in [Lib -> SUBSET Symbol]
      /\ \A m \in Lib : m # Top => exports'[m] = exports[m]
  BY <1>1, <1>2 DEF Typed
<1>4. phase'[Top] = "import" /\ \A m \in Module : m # Top => phase'[m] = phase[m]
  BY <1>1, <1>2
<1>5. Typed'
  BY <1>1, <1>2, <1>3 DEF Typed
<1>6. Placement'
  BY <1>1, <1>2, <1>4, SpaceKept DEF Placed
<1>7. Nested'
  BY <1>1, <1>2, NestedTurn DEF Nested, none
<1>8. Unseen
  BY <1>1, <1>3, <1>4 DEF Unseen, Settled, Read
<1> QED
  BY <1>1, <1>2, <1>4, <1>5, <1>6, <1>7, <1>8, LookedKept, EnteredKept DEF Loading

\* A module is marked before it is loaded.
LEMMA ImportLoading ==
  ASSUME Stacked, Loading, NEW n \in Module \union Absent, Import(n)
  PROVE  Loading'
<1>1. frames # <<>> /\ phase[Top] = "import" /\ error = none
  BY DEF Import, At
<1>2. /\ Top = frames[1] /\ 1 \in Frame /\ Top \in Module /\ Top \in loaded
      /\ Typed /\ Placement /\ Nested /\ Entered /\ Looked
      /\ phase \in [Module -> Phase] /\ Top \notin Host /\ Top \in Image
      /\ Image \subseteq Module /\ Host \subseteq Module /\ loaded \subseteq Module
  BY <1>1, TopModule, Popped DEF Loading, Stacked, Nested, Image, Module, Top
<1>3. CASE ~ Found(n)
  BY <1>3, SameLoading DEF Import, Throw, none
<1>4. CASE Found(n)
  <2>1. /\ n \in Module /\ UNCHANGED space /\ UNCHANGED <<recorded, exports>>
        /\ UNCHANGED <<image, modmap, written>> /\ UNCHANGED <<dirs, linked, iat, calldb, error>>
        /\ current' = [current EXCEPT ![Top] = n]
        /\ \/ /\ n \in loaded /\ UNCHANGED <<loaded, frames>>
              /\ phase' = [phase EXCEPT ![Top] = "entries"]
           \/ /\ n \notin loaded /\ loaded' = loaded \union {n}
              /\ frames' = <<n>> \o frames
              /\ phase' = [phase EXCEPT ![Top] = "entries", ![n] = FirstPhase(n)]
    BY <1>4 DEF Import, Found, Goto, Mark, file, space
  <2>2. /\ current' \in [Image -> Module \union {none}] /\ current'[Top] = n
        /\ \A m \in Module : m # Top => current'[m] = current[m]
    BY <1>2, <2>1 DEF Typed
  <2>3. Typed'
    BY <1>2, <2>1, <2>2 DEF Typed
  <2>4. CASE n \in loaded
    <3>1. /\ UNCHANGED <<loaded, frames>> /\ phase' = [phase EXCEPT ![Top] = "entries"]
          /\ phase'[Top] = "entries" /\ \A m \in Module : m # Top => phase'[m] = phase[m]
      BY <1>2, <2>1, <2>4
    <3>2. Placement'
      BY <1>1, <1>2, <2>1, <3>1, SpaceKept DEF Placed
    <3>3. Nested'
      <4>1. Top \in dirs' /\ dirs \subseteq dirs' /\ error' # "Conflict"
        BY <1>1, <1>2, <2>1 DEF Nested, none, Read
      <4>2. \A m \in Image : linked'[m] \subseteq loaded
        BY <1>2, <2>1 DEF Nested
      <4> QED
        BY <1>1, <1>2, <2>2, <2>4, <3>1, <4>1, <4>2, NestedTurn
    <3>4. Unseen
      BY <1>1, <1>2, <2>1, <3>1 DEF Unseen, Settled, Read
    <3> QED
      BY <1>1, <1>2, <2>1, <2>3, <3>1, <3>2, <3>3, <3>4, LookedKept, EnteredKept DEF Loading
  <2>5. CASE n \notin loaded
    <3>1. /\ loaded' = loaded \union {n} /\ frames' = <<n>> \o frames
          /\ phase' = [phase EXCEPT ![Top] = "entries", ![n] = FirstPhase(n)]
          /\ n # Top /\ phase[n] = "idle"
      BY <1>2, <2>1, <2>5 DEF Nested
    <3>2. /\ phase'[Top] = "entries" /\ phase'[n] = FirstPhase(n)
          /\ \A m \in Module : m # Top /\ m # n => phase'[m] = phase[m]
          /\ FirstPhase(n) \in {"mount", "init"} /\ (n \in Host => FirstPhase(n) = "init")
      BY <1>2, <2>1, <3>1, NamesAssumption DEF FirstPhase
    <3>3. Placement'
      BY <1>1, <1>2, <2>1, <3>1, <3>2, SpaceKept DEF Placed
    <3>4. /\ frames \in Seq(Module) /\ Frame = 1 .. Len(frames) /\ Frame' = 1 .. Len(frames) + 1
          /\ frames'[1] = n /\ \A k \in Frame : frames'[k + 1] = frames[k] /\ k + 1 \in Frame'
      <4>1. frames \in Seq(Module)
        BY <1>2, Widened DEF Stacked
      <4>2. /\ DOMAIN (<<n>> \o frames) = 1 .. Len(frames) + 1 /\ (<<n>> \o frames)[1] = n
            /\ \A k \in DOMAIN frames : (<<n>> \o frames)[k + 1] = frames[k]
        BY <2>1, <4>1, Pushed
      <4> QED
        BY <3>1, <4>1, <4>2 DEF Frame
    <3>5. ASSUME NEW k \in Frame', k >= 2
          PROVE  phase'[frames'[k]] = "entries"
      <4>1. /\ k - 1 \in Frame /\ frames'[k] = frames[k - 1] /\ frames[k - 1] \in loaded
            /\ (k - 1 = 1 \/ k - 1 >= 2)
        <5>1. k - 1 \in Frame /\ (k - 1) + 1 = k /\ (k - 1 = 1 \/ k - 1 >= 2)
          BY <3>4, <3>5
        <5> QED
          BY <3>4, <5>1 DEF Stacked, Frame
      <4>2. CASE k - 1 = 1
        BY <1>2, <3>2, <4>1, <4>2
      <4>3. CASE k - 1 >= 2
        <5>1. phase[frames[k - 1]] = "entries"
          BY <1>2, <4>1, <4>3 DEF Nested
        <5> QED
          BY <1>1, <1>2, <2>5, <3>2, <4>1, <5>1
      <4> QED
        BY <4>1, <4>2, <4>3
    <3>6. ASSUME NEW m \in loaded'
          PROVE  phase'[m] = "mapped" \/ \E k \in Frame' : frames'[k] = m
      <4>1. CASE m = n
        BY <3>4, <4>1
      <4>2. CASE m # n
        <5>1. m \in loaded /\ (phase[m] = "mapped" \/ \E k \in Frame : frames[k] = m)
          BY <1>1, <1>2, <3>1, <4>2 DEF Nested
        <5>2. CASE phase[m] = "mapped"
          BY <1>1, <1>2, <3>2, <4>2, <5>1, <5>2
        <5>3. CASE \E k \in Frame : frames[k] = m
          BY <3>4, <5>3
        <5> QED
          BY <5>1, <5>2, <5>3
      <4> QED
        BY <4>1, <4>2
    <3>7. Nested'
      <4>1. /\ \A m \in Host : phase'[m] \in {"idle", "init", "map", "mapped"}
            /\ \A m \in Module : phase'[m] \in {"stack", "heap"} => m = Main
            /\ \A m \in Module \ loaded' : phase'[m] = "idle"
        BY <1>2, <3>1, <3>2 DEF Nested
      <4>2. \A m \in Image : phase'[m] \in Read => m \in dirs'
        BY <1>1, <1>2, <2>1, <3>2 DEF Nested, Read
      <4>3. \A m \in Module : phase'[m] = "entries" => current'[m] \in loaded'
        BY <1>2, <2>2, <3>1, <3>2 DEF Nested
      <4>4. (\A m \in Image : linked'[m] \subseteq loaded') /\ error' # "Conflict"
        BY <1>1, <1>2, <2>1, <3>1 DEF Nested, none
      <4> QED
        BY <3>5, <3>6, <4>1, <4>2, <4>3, <4>4 DEF Nested
    <3>8. Unseen
      BY <1>1, <1>2, <2>1, <3>1, <3>2 DEF Unseen, Settled, Read
    <3>9. \A m \in Module : phase'[m] = "mapped" <=> phase[m] = "mapped"
      BY <1>1, <3>1, <3>2
    <3> QED
      BY <1>1, <1>2, <2>1, <2>3, <3>3, <3>7, <3>8, <3>9, LookedKept, EnteredKept DEF Loading
  <2> QED
    BY <2>4, <2>5
<1> QED
  BY <1>3, <1>4

\* The module that is looked in was loaded, or is in a frame below.
LEMMA LinkEntryLoading ==
  ASSUME Stacked, Loading, NEW e \in Entry, LinkEntry(e)
  PROVE  Loading'
<1> DEFINE n == current[Top]
<1>1. /\ frames # <<>> /\ phase[Top] = "entries" /\ error = none
      /\ UNCHANGED <<file, loaded, frames, phase, space, dirs, current, linked, calldb, error>>
      /\ iat' = iat \union {[to |-> Top, from |-> n, entry |-> e, value |-> symboladdr(n, e)]}
  BY DEF LinkEntry, At
<1>2. /\ UNCHANGED <<recorded, exports, links>> /\ UNCHANGED <<image, modmap, written>>
      /\ UNCHANGED <<loaded, frames, phase, calldb, error>> /\ UNCHANGED <<dirs, current, linked>>
  BY <1>1 DEF file, space
<1>3. /\ Top = frames[1] /\ Top \in Module
      /\ Typed /\ Placement /\ Nested /\ Entered /\ Looked
      /\ loaded \subseteq Module
  BY <1>1, TopModule DEF Loading, Stacked
<1>4. Typed' /\ Placement' /\ Entered'
  BY <1>2, <1>3 DEF Typed, Placement, Entered, ValueAt
<1>5. Nested'
  BY <1>2, <1>3 DEF Nested, Frame
<1>6. n \in Module /\ Settled(n)
  <2>1. n \in loaded /\ n \in Module
    BY <1>1, <1>3 DEF Nested
  <2>2. CASE phase[n] = "mapped"
    BY <2>1, <2>2 DEF Settled, Read
  <2>3. CASE \E k \in Frame : frames[k] = n
    <3>1. PICK k \in Frame : frames[k] = n
      BY <2>3
    <3>2. k = 1 \/ k >= 2
      BY DEF Frame, Stacked
    <3>3. phase[n] = "entries"
      BY <1>1, <1>3, <3>1, <3>2 DEF Nested
    <3>4. n \notin Host
      BY <1>3, <3>3 DEF Nested
    <3> QED
      BY <2>1, <3>3, <3>4 DEF Settled, Read
  <2> QED
    BY <1>1, <1>3, <2>1, <2>2, <2>3 DEF Nested
<1>7. /\ \A m \in Module : Settled(m)' <=> Settled(m)
      /\ \A m \in Module : \A i \in Entry : symboladdr(m, i)' = symboladdr(m, i)
  BY <1>2 DEF Settled, symboladdr, LibSymbol, ModuleSymbol, Readable, ValueAt
<1> HIDE DEF n
<1>8. Looked'
  <2> SUFFICES ASSUME NEW i \in iat'
               PROVE  /\ i.from \in Module /\ i.entry \in Entry /\ Settled(i.from)'
                      /\ i.value = symboladdr(i.from, i.entry)'
    BY DEF Looked
  <2>1. CASE i \in iat
    BY <1>3, <1>7, <2>1 DEF Looked
  <2>2. CASE i = [to |-> Top, from |-> n, entry |-> e, value |-> symboladdr(n, e)]
    <3>1. i.from = n /\ i.entry = e /\ i.value = symboladdr(n, e)
      BY <2>2
    <3> QED
      BY <1>6, <1>7, <3>1
  <2> QED
    BY <1>1, <2>1, <2>2
<1> QED
  BY <1>4, <1>5, <1>8 DEF Loading

LEMMA EndEntriesLoading ==
  ASSUME Stacked, Loading, EndEntries
  PROVE  Loading'
<1>1. /\ frames # <<>> /\ phase[Top] = "entries" /\ error = none
      /\ linked' = [linked EXCEPT ![Top] = @ \union {current[Top]}]
      /\ current' = [current EXCEPT ![Top] = none]
      /\ phase' = [phase EXCEPT ![Top] = "import"]
      /\ UNCHANGED <<recorded, exports>> /\ UNCHANGED <<image, modmap, written>> /\ UNCHANGED space
      /\ UNCHANGED <<loaded, frames, dirs, iat, calldb, error>>
  BY DEF EndEntries, At, Goto, NextDescriptor, file, space
<1>2. /\ Top \in Module /\ Typed /\ Placement /\ Nested /\ Entered /\ Looked
      /\ phase \in [Module -> Phase] /\ loaded \subseteq Module
  BY <1>1, TopModule DEF Loading, Stacked
<1>3. Top \notin Host /\ Top \in Image /\ Top \in dirs /\ current[Top] \in loaded
  <2>1. Top \notin Host
    BY <1>1, <1>2 DEF Nested
  <2> QED
    BY <1>1, <1>2, <2>1 DEF Nested, Read, Module
<1>4. phase'[Top] = "import" /\ \A m \in Module : m # Top => phase'[m] = phase[m]
  BY <1>1, <1>2
<1>5. /\ \A m \in Image : linked'[m] \subseteq loaded
      /\ linked' \in [Image -> SUBSET Module] /\ current' \in [Image -> Module \union {none}]
      /\ \A m \in Module : m # Top => current'[m] = current[m]
  BY <1>1, <1>2, <1>3 DEF Nested, Typed
<1>6. Typed'
  BY <1>1, <1>2, <1>5 DEF Typed
<1>7. Placement'
  BY <1>1, <1>2, <1>4, SpaceKept DEF Placed
<1>8. Nested'
  <2>1. error' # "Conflict"
    BY <1>1 DEF none
  <2> QED
    BY <1>1, <1>2, <1>3, <1>5, <2>1, NestedTurn
<1>9. Unseen
  BY <1>1, <1>3, <1>4 DEF Unseen, Settled, Read
<1> QED
  BY <1>1, <1>2, <1>4, <1>6, <1>7, <1>8, <1>9, LookedKept, EnteredKept DEF Loading

LEMMA EndLinkLoading ==
  ASSUME Stacked, Loading, EndLink
  PROVE  Loading'
<1>1. /\ frames # <<>> /\ phase[Top] = "import" /\ error = none
      /\ phase' = [phase EXCEPT ![Top] = "map"]
      /\ UNCHANGED <<recorded, exports>> /\ UNCHANGED <<image, modmap, written>> /\ UNCHANGED space
      /\ UNCHANGED <<dirs, current, linked, iat>> /\ UNCHANGED <<loaded, frames, calldb, error>>
  BY DEF EndLink, At, Goto, file, space, import
<1>2. /\ Top \in Module /\ Typed /\ Placement /\ Nested /\ Entered /\ Looked
      /\ phase \in [Module -> Phase]
  BY <1>1, TopModule DEF Loading, Stacked
<1>3. Top \notin Host /\ Top \in Image /\ Top \in dirs
  <2>1. Top \notin Host
    BY <1>1, <1>2 DEF Nested
  <2> QED
    BY <1>1, <1>2, <2>1 DEF Nested, Read, Module
<1>4. phase'[Top] = "map" /\ \A m \in Module : m # Top => phase'[m] = phase[m]
  BY <1>1, <1>2
<1>5. Typed'
  BY <1>1, <1>2 DEF Typed
<1>6. Placement'
  BY <1>1, <1>2, <1>4, SpaceKept DEF Placed
<1>7. Nested'
  <2>1. error' # "Conflict" /\ \A m \in Image : linked'[m] \subseteq loaded
    BY <1>1, <1>2 DEF none, Nested
  <2> QED
    BY <1>1, <1>2, <1>3, <2>1, NestedTurn
<1>8. Unseen
  BY <1>1, <1>3, <1>4 DEF Unseen, Settled, Read
<1> QED
  BY <1>1, <1>2, <1>4, <1>5, <1>6, <1>7, <1>8, LookedKept, EnteredKept DEF Loading

\* The innermost frame returns, or is left by an exception.
LEMMA NestedPop ==
  ASSUME Stacked, Nested, frames # <<>>, frames' = Tail(frames), UNCHANGED loaded,
         UNCHANGED <<dirs, current, linked>>, error' = error,
         \/ error # none /\ UNCHANGED phase
         \/ phase[Top] = "map" /\ phase' = [phase EXCEPT ![Top] = "mapped"]
  PROVE  Nested'
<1>1. /\ Top = frames[1] /\ 1 \in Frame /\ Top \in Module /\ Top \in loaded
      /\ phase \in [Module -> Phase] /\ loaded \subseteq Module
      /\ Image \subseteq Module /\ Host \subseteq Module
  BY TopModule, Popped DEF Stacked, Image, Module, Top
<1>2. /\ Frame = 1 .. Len(frames) /\ Len(frames) \in Nat \ {0} /\ Frame' = 1 .. Len(frames) - 1
      /\ \A k \in Frame' : frames'[k] = frames[k + 1]
  BY Popped DEF Stacked, Frame
<1>3. /\ \A m \in Module : m # Top => phase'[m] = phase[m]
      /\ phase'[Top] = phase[Top] \/ (phase[Top] = "map" /\ phase'[Top] = "mapped")
  BY <1>1
<1>4. ASSUME NEW k \in Frame', k >= 2
      PROVE  phase'[frames'[k]] = "entries"
  <2>1. k + 1 \in Frame /\ k + 1 >= 2 /\ k + 1 # 1 /\ frames'[k] = frames[k + 1]
    BY <1>2, <1>4
  <2>2. frames[k + 1] # Top /\ frames[k + 1] \in Module
    BY <1>1, <2>1 DEF Stacked, Frame
  <2>3. phase[frames[k + 1]] = "entries"
    BY <2>1 DEF Nested
  <2>4. phase'[frames[k + 1]] = "entries"
    BY <1>3, <2>2, <2>3
  <2> QED
    BY <2>1, <2>4
<1>5. ASSUME error = none, NEW m \in loaded
      PROVE  phase'[m] = "mapped" \/ \E k \in Frame' : frames'[k] = m
  <2>1. CASE m = Top
    BY <1>1, <1>5, <2>1
  <2>2. CASE m # Top
    <3>1. phase[m] = "mapped" \/ \E k \in Frame : frames[k] = m
      BY <1>5 DEF Nested
    <3>2. CASE phase[m] = "mapped"
      BY <1>1, <1>3, <2>2, <3>2
    <3>3. CASE \E k \in Frame : frames[k] = m
      <4>1. PICK k \in Frame : frames[k] = m
        BY <3>3
      <4>2. k # 1
        BY <1>1, <2>2, <4>1
      <4>3. k - 1 \in Frame' /\ (k - 1) + 1 = k
        BY <1>2, <4>2
      <4> QED
        BY <1>2, <4>1, <4>3
    <3> QED
      BY <3>1, <3>2, <3>3
  <2> QED
    BY <2>1, <2>2
<1>6. /\ \A m \in Host : phase'[m] \in {"idle", "init", "map", "mapped"}
      /\ \A m \in Module : phase'[m] \in {"stack", "heap"} => m = Main
      /\ \A m \in Module \ loaded : phase'[m] = "idle"
      /\ \A m \in Image : phase'[m] \in Read => m \in dirs
      /\ \A m \in Module : phase'[m] = "entries" => current[m] \in loaded
  BY <1>1, <1>3 DEF Nested, Read
<1> QED
  BY <1>4, <1>5, <1>6 DEF Nested

LEMMA UnwindLoading ==
  ASSUME Stacked, Loading, Unwind
  PROVE  Loading'
<1>1. /\ UNCHANGED <<recorded, exports>> /\ UNCHANGED <<image, modmap, written>>
      /\ UNCHANGED <<dirs, current, linked, iat>> /\ UNCHANGED <<loaded, phase, calldb, error>>
      /\ error # none /\ frames # <<>> /\ frames' = Tail(frames)
  BY DEF Unwind, file, space, import
<1>2. Typed' /\ Placement' /\ Entered'
  BY <1>1 DEF Loading, Typed, Placement, Entered, ValueAt
<1>3. Looked'
  BY <1>1 DEF Loading, Looked, Settled, symboladdr, LibSymbol, ModuleSymbol, Readable, ValueAt
<1>4. Nested'
  BY <1>1, NestedPop DEF Loading
<1> QED
  BY <1>2, <1>3, <1>4 DEF Loading

\* No address is in the CallDB twice, as no two modules are at one place.
LEMMA HostCodeMapLoading ==
  ASSUME Stacked, Loading, HostCodeMap
  PROVE  Loading'
<1> DEFINE new == {ValueAt(Top, s) : s \in recorded[Top]}
<1>1. frames # <<>> /\ phase[Top] = "map" /\ error = none
  BY DEF HostCodeMap, At
<1>2. /\ Top \in Module /\ Typed /\ Placement /\ Nested /\ Entered /\ Looked
      /\ phase \in [Module -> Phase] /\ recorded[Top] \subseteq Symbol
  BY <1>1, TopModule DEF Loading, Stacked, Typed
<1>3. ~ Conflicts(new)
  <2> SUFFICES ASSUME NEW a \in new, a \in DOMAIN calldb PROVE FALSE
    BY DEF Conflicts
  <2>1. PICK s \in recorded[Top] : a = <<image[Top].first, s>>
    BY DEF ValueAt
  <2> DEFINE m == calldb[a]
  <2>2. /\ m \in Module /\ phase[m] = "mapped" /\ m # Top
        /\ \E z \in Symbol : a = <<image[m].first, z>>
    BY <1>1, <1>2 DEF Entered, ValueAt
  <2>3. image[m].first = image[Top].first
    BY <2>1, <2>2
  <2> HIDE DEF m
  <2>4. /\ [range |-> image[m], module |-> m] \in modmap
        /\ [range |-> image[Top], module |-> Top] \in modmap
    BY <1>1, <1>2, <2>2 DEF Placement, Placed
  <2>5. ~ Meets(image[m], image[Top])
    BY <1>2, <2>2, <2>4 DEF Placement
  <2>6. image[m] \in Interval /\ image[Top] \in Interval
    BY <1>2, <2>2 DEF Typed
  <2> QED
    BY <2>3, <2>5, <2>6 DEF Meets, Interval
<1>4. /\ UNCHANGED <<recorded, exports>> /\ UNCHANGED <<image, modmap, written>> /\ UNCHANGED space
      /\ UNCHANGED <<dirs, current, linked, iat>> /\ UNCHANGED <<loaded, error>>
      /\ phase' = [phase EXCEPT ![Top] = "mapped"] /\ frames' = Tail(frames)
      /\ calldb' = Added(new, Top)
  BY <1>3 DEF HostCodeMap, Goto, file, space, import
<1>5. phase'[Top] = "mapped" /\ \A m \in Module : m # Top => phase'[m] = phase[m]
  BY <1>2, <1>4
<1>6. Typed'
  BY <1>2, <1>4 DEF Typed
<1>7. Placement'
  BY <1>1, <1>2, <1>4, <1>5, SpaceKept DEF Placed
<1>8. Nested'
  BY <1>1, <1>2, <1>4, NestedPop
<1>9. Looked'
  <2>1. Unseen
    BY <1>1, <1>4, <1>5 DEF Unseen, Settled, Read
  <2> QED
    BY <1>2, <1>4, <2>1, LookedKept
<1>10. Entered'
  <2>1. /\ DOMAIN calldb' = DOMAIN calldb \union new
        /\ \A a \in new : calldb'[a] = Top
        /\ \A a \in DOMAIN calldb \ new : calldb'[a] = calldb[a]
    BY <1>4 DEF Added
  <2>2. new \cap DOMAIN calldb = {}
    BY <1>3 DEF Conflicts
  <2>3. /\ \A a \in new : \E s \in Symbol : a = <<image[Top].first, s>>
        /\ \A s \in recorded[Top] : <<image[Top].first, s>> \in new
    BY <1>2 DEF ValueAt
  <2>4. image' = image /\ recorded' = recorded
    BY <1>4
  <2> HIDE DEF new
  <2>5. ASSUME NEW a \in DOMAIN calldb'
        PROVE  /\ calldb'[a] \in Module /\ phase'[calldb'[a]] = "mapped"
               /\ \E s \in Symbol : a = <<image'[calldb'[a]].first, s>>
    <3>1. CASE a \in new
      BY <1>2, <1>5, <2>1, <2>3, <2>4, <3>1
    <3>2. CASE a \notin new
      BY <1>1, <1>2, <1>5, <2>1, <2>4, <3>2 DEF Entered, ValueAt
    <3> QED
      BY <3>1, <3>2
  <2>6. ASSUME NEW m \in Module, phase'[m] = "mapped", NEW s \in recorded'[m]
        PROVE  /\ <<image'[m].first, s>> \in DOMAIN calldb'
               /\ calldb'[<<image'[m].first, s>>] = m
    <3>1. CASE m = Top
      BY <1>4, <2>1, <2>3, <2>4, <3>1
    <3>2. CASE m # Top
      <4>1. <<image[m].first, s>> \in DOMAIN calldb /\ calldb[<<image[m].first, s>>] = m
        BY <1>2, <1>5, <2>4, <2>6, <3>2 DEF Entered, ValueAt
      <4> QED
        BY <2>1, <2>2, <2>4, <4>1
    <3> QED
      BY <3>1, <3>2
  <2> QED
    BY <2>5, <2>6 DEF Entered, ValueAt
<1> QED
  BY <1>6, <1>7, <1>8, <1>9, <1>10 DEF Loading

LEMMA LoadingInvariance == Spec => [](Stacked /\ Loading)
<1>1. Stacked /\ Directories /\ Loading /\ [Next]_vars => Loading'
  <2> SUFFICES ASSUME Stacked, Loading, [Next]_vars PROVE Loading'
    OBVIOUS
  <2>1. CASE UNCHANGED vars
    BY <2>1, SameLoading DEF vars
  <2> QED
    BY <2>1, MountLoading, AllocationsLoading, ChangeDirLoading, UnwindLoading, ReadDirsLoading,
       ImportLoading, LinkEntryLoading, EndEntriesLoading, EndLinkLoading, HostCodeMapLoading
    DEF Next, Step, Over
<1> QED
  BY <1>1, InitInvariant, LoadingInit, NextInvariant, PTL DEF Spec

\* No module is loaded twice, whatever the cycles of imports: it meets neither
\* its own image nor its own functions, and when loading returns all modules
\* and their translated functions are there (loadmodule, hostcodemap).
THEOREM OneLoad == Spec => []LoadedOnce
<1>1. Stacked /\ Loading => LoadedOnce
  <2> SUFFICES ASSUME Stacked, Loading PROVE LoadedOnce
    OBVIOUS
  <2>1. \A k, l \in DOMAIN frames : frames[k] = frames[l] => k = l
    BY DEF Stacked, Frame
  <2>2. \A d, e \in modmap : d.module = e.module /\ d # e => d.module = Main
    BY DEF Loading, Placement
  <2>3. error # "Conflict"
    BY DEF Loading, Nested
  <2>4. ASSUME frames = <<>>, error = none
        PROVE  \A m \in loaded : phase[m] = "mapped" /\ m \in Module
    <3>1. Frame = {}
      BY <2>4 DEF Frame
    <3> QED
      BY <2>4, <3>1 DEF Loading, Nested, Stacked
  <2>5. \A m \in loaded \cap Image : linked[m] \subseteq loaded
    BY DEF Loading, Nested
  <2> QED
    BY <2>1, <2>2, <2>3, <2>4, <2>5 DEF LoadedOnce, Loading, Entered
<1> QED
  BY <1>1, LoadingInvariance, PTL

\* The addresses that link writes are, and stay, those of the functions asked
\* for, although they may be looked up in a module that is half linked
\* (PEFModule::link, symboladdr).
THEOREM Resolution == Spec => []Resolved
<1>1. Stacked /\ Loading => Resolved
  <2> SUFFICES ASSUME Stacked, Loading, NEW i \in iat,
                      i.entry.by = "name" \/ i.from \notin Based
               PROVE  IF Offers(i.from, i.entry)
                        THEN /\ i.value = ValueAt(i.from, i.entry.symbol)
                             /\ [range |-> image[i.from], module |-> i.from] \in modmap
                             /\ i.from \in Lib => Readable(i.from)
                             /\ phase[i.from] = "mapped" /\ i.entry.symbol \in recorded[i.from]
                                  => i.value \in DOMAIN calldb /\ calldb[i.value] = i.from
                        ELSE i.value = null
    BY DEF Resolved
  <2> DEFINE n == i.from
             s == i.entry.symbol
  <2>1. /\ n \in Module /\ Settled(n) /\ i.value = symboladdr(n, i.entry)
        /\ i.entry.by \in {"name", "ordinal"} /\ s \in Symbol
    BY DEF Loading, Looked, Entry
  <2>2. phase[n] \in Placed
    BY <2>1 DEF Settled, Read, Placed
  <2>3. [range |-> image[n], module |-> n] \in modmap
    BY <2>1, <2>2 DEF Loading, Placement
  <2>4. ASSUME n \in Lib
        PROVE  Readable(n) /\ n \notin Host
    <3>1. n \in Image /\ n \notin Host
      BY <2>4, NamesAssumption DEF Image
    <3> QED
      BY <2>1, <2>2, <3>1 DEF Loading, Placement, Nested, Settled, Readable
  <2>5. phase[n] = "mapped" /\ s \in recorded[n]
          => ValueAt(n, s) \in DOMAIN calldb /\ calldb[ValueAt(n, s)] = n
    BY <2>1 DEF Loading, Entered
  <2>6. i.value = IF Offers(n, i.entry) THEN ValueAt(n, s) ELSE null
    <3>1. CASE n \in Lib /\ i.entry.by = "name"
      BY <2>1, <2>4, <3>1 DEF Offers, symboladdr, LibSymbol
    <3>2. CASE n \in Lib /\ i.entry.by = "ordinal"
      <4>1. n \notin Based
        BY <3>2
      <4>2. s + 0 = s /\ ~ s >= Symbols
        BY <2>1, SpaceAssumption DEF Symbol
      <4> QED
        BY <2>1, <2>4, <3>2, <4>1, <4>2 DEF Offers, symboladdr, LibSymbol
    <3>3. CASE n \notin Lib
      BY <2>1, <3>3 DEF Offers, symboladdr, ModuleSymbol
    <3> QED
      BY <2>1, <3>1, <3>2, <3>3
  <2> QED
    BY <2>3, <2>4, <2>5, <2>6
<1> QED
  BY <1>1, LoadingInvariance, PTL

-----------------------------------------------------------------------------
(* Types.                                                                  *)

LEMMA SymbolValue ==
  ASSUME Loading, NEW n \in Module, Settled(n), NEW e \in Entry
  PROVE  symboladdr(n, e) \in Address \union {null}
<1>1. e.by \in {"name", "ordinal"} /\ e.symbol \in Symbol
  BY DEF Entry
<1>2. image[n] \in Interval /\ image[n].first \in Page
  BY DEF Loading, Typed, Interval
<1>3. \A s \in Symbol : ValueAt(n, s) \in Address
  BY <1>2 DEF ValueAt, Address
<1>4. CASE n \in Lib
  <2>1. n \in Image /\ n \notin Host
    BY <1>4, NamesAssumption DEF Image
  <2>2. phase[n] \in Read /\ phase[n] \in Placed
    BY <2>1 DEF Settled, Read, Placed
  <2>3. Readable(n)
    BY <2>1, <2>2 DEF Loading, Placement, Nested, Readable
  <2>4. \A o : o = e.symbol + (IF n \in Based THEN 1 ELSE 0) /\ ~ o >= Symbols => o \in Symbol
    BY <1>1, SpaceAssumption DEF Symbol
  <2> QED
    BY <1>1, <1>3, <1>4, <2>3, <2>4 DEF symboladdr, LibSymbol
<1>5. CASE n \notin Lib
  BY <1>1, <1>3, <1>5 DEF symboladdr, ModuleSymbol
<1> QED
  BY <1>4, <1>5

\* What the user has linked, the images whose directories were read and the
\* import tables that were written, and why loading stops.
Errors == {none, "NotFound", "chdir", "overlap", "empty", "full", "Conflict"}
Listed ==
  /\ links \subseteq Lib \X Lib /\ dirs \subseteq Image /\ error \in Errors
  /\ \A i \in iat : /\ i = [to |-> i.to, from |-> i.from, entry |-> i.entry, value |-> i.value]
                    /\ i.to \in Image

LEMMA ListedInit == Init => Listed
  BY DEF Init, Listed, Errors

LEMMA ListedStep == Stacked /\ Loading /\ Listed /\ [Next]_vars => Listed'
<1> SUFFICES ASSUME Stacked, Loading, Listed, [Next]_vars PROVE Listed'
  OBVIOUS
<1>1. CASE /\ UNCHANGED <<links, dirs, iat>> /\ error' \in Errors
  BY <1>1 DEF Listed
<1>2. error \in Errors
  BY DEF Listed
<1>3. CASE UNCHANGED vars
  BY <1>1, <1>2, <1>3 DEF vars, file, import
<1>4. ASSUME NEW r, NEW t, NEW n, NEW p, Allocate(r, t, n, p)
      PROVE  Listed'
  BY <1>1, <1>2, <1>4 DEF Allocate, file, import, Errors
<1>5. CASE Mount
  BY <1>1, <1>2, <1>5 DEF Mount, file, import, Errors
<1>6. ASSUME NEW e \in Errors, Throw(e)
      PROVE  Listed'
  BY <1>1, <1>6 DEF Throw, file, import
<1>7. CASE Stack
  BY <1>4, <1>7 DEF Stack
<1>8. CASE Heap
  BY <1>4, <1>6, <1>8 DEF Heap, Errors
<1>9. CASE HostInit
  BY <1>4, <1>9 DEF HostInit
<1>10. CASE ChangeDir
  BY <1>1, <1>2, <1>10 DEF ChangeDir, file, import, Errors
<1>11. CASE Unwind
  BY <1>1, <1>2, <1>11 DEF Unwind, file, import
<1>12. CASE EndEntries \/ EndLink
  BY <1>1, <1>2, <1>12 DEF EndEntries, EndLink, file, import
<1>13. CASE HostCodeMap
  BY <1>1, <1>2, <1>6, <1>13 DEF HostCodeMap, file, import, Errors
<1>14. CASE \E n \in Module \union Absent : Import(n)
  BY <1>1, <1>2, <1>6, <1>14 DEF Import, file, Errors
\* Only an image has directories, and an import table.
<1>15. ASSUME At("dirs") \/ At("entries")
       PROVE  Top \in Image
  <2>1. Top \in Module
    BY <1>15, TopModule DEF At
  <2>2. Top \notin Host
    BY <1>15 DEF At, Loading, Nested
  <2> QED
    BY <2>1, <2>2 DEF Module
<1>16. CASE ReadDirs
  <2>1. Top \in Image /\ dirs' = dirs \union {Top} /\ UNCHANGED <<links, iat, error>>
    BY <1>15, <1>16 DEF ReadDirs, Located
  <2> QED
    BY <2>1 DEF Listed
<1>17. CASE \E e \in Entry : LinkEntry(e)
  <2>1. PICK e \in Entry : LinkEntry(e)
    BY <1>17
  <2> DEFINE new == [to |-> Top, from |-> current[Top], entry |-> e,
                     value |-> symboladdr(current[Top], e)]
  <2>2. Top \in Image /\ iat' = iat \union {new} /\ UNCHANGED <<links, dirs, error>>
    BY <1>15, <2>1 DEF LinkEntry, file
  <2>3. new = [to |-> new.to, from |-> new.from, entry |-> new.entry, value |-> new.value]
        /\ new.to = Top
    OBVIOUS
  <2> HIDE DEF new
  <2> QED
    BY <2>2, <2>3 DEF Listed
<1> QED
  BY <1>3, <1>5, <1>7, <1>8, <1>9, <1>10, <1>11, <1>12, <1>13, <1>14, <1>16, <1>17
  DEF Next, Step, Over

\* The variables keep their types; in particular link never writes what a
\* read outside an export table would give, although the module may be half
\* linked when its symbol is looked up (PEFModule::link, symboladdr).
THEOREM TypeCorrect == Spec => []TypeOK
<1>1. Stacked /\ Directories /\ Loading /\ Listed => TypeOK
  <2> SUFFICES ASSUME Stacked, Directories, Loading, Listed PROVE TypeOK
    OBVIOUS
  <2>1. Typed /\ Entered /\ Looked
    BY DEF Loading
  <2>2. cwd \in {Root} \union Lib
    BY DEF Directories, DirFrom, Inside
  <2>3. ASSUME NEW i \in iat
        PROVE  i \in [to : Image, from : Module, entry : Entry, value : Address \union {null}]
    <3>1. i.from \in Module /\ i.entry \in Entry /\ i.value \in Address \union {null}
      BY <2>1, SymbolValue DEF Looked
    <3> QED
      BY <3>1 DEF Listed
  <2>4. ASSUME NEW a \in DOMAIN calldb
        PROVE  a \in Address /\ calldb[a] \in Module
    <3>1. calldb[a] \in Module /\ \E s \in Symbol : a = ValueAt(calldb[a], s)
      BY <2>1 DEF Entered
    <3>2. image[calldb[a]] \in Interval
      BY <2>1, <3>1 DEF Typed
    <3> QED
      BY <3>1, <3>2 DEF ValueAt, Address, Interval
  <2> QED
    BY <2>1, <2>2, <2>3, <2>4 DEF TypeOK, Typed, Stacked, Phase, Listed, Errors
<1> QED
  BY <1>1, InitInvariant, LoadingInit, ListedInit, ListedStep, NextInvariant, LoadingInvariance, PTL DEF Spec

==============================================================================
