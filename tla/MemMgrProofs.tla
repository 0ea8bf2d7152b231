---------------------------- MODULE MemMgrProofs -----------------------------
(***************************************************************************)
(* Proofs about MemMgr.tla, for an address space and pages of any size and *)
(* any number of ranges: the ranges of the map never overlap, what is      *)
(* allocated is free, in its region and the first fit, and allocate gives  *)
(* up only when nothing fits.                                              *)
(***************************************************************************)
EXTENDS MemMgr, TLAPS

-----------------------------------------------------------------------------
(* Alignment.                                                              *)

\* Rounding an address to the limits of its page stays in the address space.
LEMMA AlignType ==
  ASSUME NEW a \in Addr
  PROVE  /\ AlignDown(a) \in Addr /\ AlignDown(a) <= a
         /\ AlignUp(a) \in Addr /\ a <= AlignUp(a)
  <1>0. a \in Nat /\ Page \in Nat /\ Page > 0 /\ Top \in Nat /\ a <= Top
    BY TopAssumption, PageAssumption DEF Addr
  <1>1. a % Page \in 0 .. Page - 1 /\ a = Page * (a \div Page) + (a % Page)
    BY <1>0
  <1>2. a \div Page \in Nat
    BY <1>0
  <1>3. a - (a % Page) = Page * (a \div Page)
    BY <1>0, <1>1, <1>2
  <1>4. a - (a % Page) \in Nat /\ a - (a % Page) <= a
    BY <1>0, <1>1, <1>2, <1>3
  <1>5. a - (a % Page) + Page - 1 <= Top
    <2> DEFINE q == (Top + 1) \div Page
               k == a \div Page
    <2>1. q \in Nat /\ Top + 1 = Page * q
      BY <1>0, PageAssumption
    <2>2. k \in Nat /\ Page * k < Page * q
      BY <1>0, <1>1, <1>2, <1>3, <1>4, <2>1
    <2>3. k + 1 <= q
      BY <1>0, <2>1, <2>2
    <2>4. Page * (k + 1) <= Page * q
      BY <1>0, <2>1, <2>2, <2>3
    <2>5. Page * (k + 1) = Page * k + Page
      BY <1>0, <2>2
    <2> QED
      BY <1>0, <1>3, <2>1, <2>2, <2>4, <2>5
  <1>6. a <= a - (a % Page) + Page - 1
    BY <1>0, <1>1
  <1> QED
    BY <1>0, <1>1, <1>4, <1>5, <1>6 DEF AlignDown, AlignUp, Addr

\* The rounded size is a size.
LEMMA RoundedType ==
  ASSUME NEW size \in Addr
  PROVE  Rounded(size) \in Addr
  <1>1. (size + Page - 1) % (Top + 1) \in Addr
    BY TopAssumption, PageAssumption DEF Addr
  <1> QED
    BY <1>1, AlignType DEF Rounded

-----------------------------------------------------------------------------
(* Types.                                                                  *)

LEMMA InitType == Init => TypeOK
  <1> SUFFICES ASSUME Init PROVE TypeOK
    OBVIOUS
  <1>1. 0 \in Addr /\ Top \in Addr
    BY TopAssumption DEF Addr
  <1> QED
    BY <1>1 DEF Init, TypeOK, Interval

\* What lower_bound, ++ and -- return are iterators.
LEMMA IteratorType ==
  ASSUME NEW it \in Iterators PROVE it \subseteq modmap
  BY DEF Iterators

LEMMA NextType == TypeOK /\ [Next]_vars => TypeOK'
  <1> SUFFICES ASSUME TypeOK, [Next]_vars PROVE TypeOK'
    OBVIOUS
  <1>0. Top \in Nat
    BY TopAssumption
  <1>1. ASSUME NEW r \in Recordable, NEW m \in Module, Record(r.first, r.last, m)
        PROVE  TypeOK'
    <2> DEFINE e == [first |-> AlignDown(r.first), last |-> AlignUp(r.last), module |-> m]
    <2>1. e \in Entry
      BY AlignType DEF Recordable, Entry
    <2>2. modmap' = modmap \/ modmap' = modmap \union {e}
      BY <1>1 DEF Record
    <2>3. outcome' \in {"overlap", "done"}
      BY <1>1 DEF Record
    <2>4. UNCHANGED <<phase, scan, range, itr>>
      BY <1>1 DEF Record
    <2>5. modmap' \subseteq Entry /\ itr \subseteq modmap'
      BY <2>1, <2>2 DEF TypeOK
    <2> QED
      BY <2>3, <2>4, <2>5 DEF TypeOK, scan
  <1>2. ASSUME NEW reg \in Region, NEW dir \in BOOLEAN, NEW size \in Addr,
               NEW m \in Module, Allocate(reg, dir, size, m)
        PROVE  TypeOK'
    <2> DEFINE s == Rounded(size) - 1
    <2>1. Rounded(size) \in Addr
      BY RoundedType
    <2>2. reg \in Interval /\ reg.first <= reg.last
      BY DEF Region, Recordable, Interval
    <2>3. CASE s < 0 \/ s > reg.last - reg.first
      <3>1. UNCHANGED <<modmap, phase, scan, range, itr>> /\ outcome' = "invalid"
        BY <1>2, <2>3 DEF Allocate
      <3> QED
        BY <3>1 DEF TypeOK, scan
    <2>4. CASE ~ (s < 0 \/ s > reg.last - reg.first)
      <3>1. s \in Addr /\ s <= reg.last - reg.first
        BY <1>0, <2>1, <2>2, <2>4 DEF Addr, Interval
      <3>2. /\ region' = reg /\ topdown' = dir /\ span' = s /\ owner' = m
            /\ range' = IF dir THEN [first |-> reg.last - s, last |-> reg.last]
                               ELSE [first |-> reg.first, last |-> reg.first + s]
            /\ \E it \in Iterators : itr' = it
            /\ phase' = "test" /\ outcome' = "none" /\ modmap' = modmap
        BY <1>2, <2>4 DEF Allocate
      <3>3. range' \in Interval
        BY <1>0, <2>2, <3>1, <3>2 DEF Interval, Addr
      <3>4. itr' \subseteq modmap'
        BY <3>2, IteratorType
      <3> QED
        BY <2>2, <3>1, <3>2, <3>3, <3>4 DEF TypeOK
    <2> QED
      BY <2>3, <2>4
  <1>3. CASE Test
    BY <1>3 DEF Test, TypeOK, scan
  <1>4. CASE MoveUp
    <2>1. PICK e \in itr :
            IF NoRoomAbove(e) THEN Full
            ELSE /\ range' = [first |-> e.last + 1, last |-> e.last + 1 + span]
                 /\ \E it \in Iterators : itr' = it
                 /\ phase' = "again"
                 /\ UNCHANGED outcome
      BY <1>4 DEF MoveUp
    <2>2. UNCHANGED <<modmap, scan>> /\ phase = "move" /\ e \in Entry
      BY <1>4 DEF MoveUp, TypeOK
    <2>3. CASE NoRoomAbove(e)
      BY <2>1, <2>2, <2>3 DEF Full, TypeOK, scan
    <2>4. CASE ~ NoRoomAbove(e)
      <3>1. range' \in Interval
        BY <1>0, <2>1, <2>2, <2>4 DEF NoRoomAbove, TypeOK, Interval, Entry, Addr
      <3>2. itr' \subseteq modmap'
        BY <2>1, <2>2, <2>4, IteratorType
      <3> QED
        BY <2>1, <2>2, <2>4, <3>1, <3>2 DEF TypeOK, scan
    <2> QED
      BY <2>3, <2>4
  <1>5. CASE MoveDown
    <2>1. PICK e \in itr :
            IF NoRoomBelow(e) THEN Full
            ELSE /\ range' = [first |-> e.first - 1 - span, last |-> e.first - 1]
                 /\ \E it \in Iterators : itr' = it
                 /\ phase' = "again"
                 /\ UNCHANGED outcome
      BY <1>5 DEF MoveDown
    <2>2. UNCHANGED <<modmap, scan>> /\ phase = "move" /\ e \in Entry
      BY <1>5 DEF MoveDown, TypeOK
    <2>3. CASE NoRoomBelow(e)
      BY <2>1, <2>2, <2>3 DEF Full, TypeOK, scan
    <2>4. CASE ~ NoRoomBelow(e)
      <3>1. range' \in Interval
        BY <1>0, <2>1, <2>2, <2>4 DEF NoRoomBelow, TypeOK, Interval, Entry, Addr
      <3>2. itr' \subseteq modmap'
        BY <2>1, <2>2, <2>4, IteratorType
      <3> QED
        BY <2>1, <2>2, <2>4, <3>1, <3>2 DEF TypeOK, scan
    <2> QED
      BY <2>3, <2>4
  <1>6. CASE Insert
    <2>1. [first |-> range.first, last |-> range.last, module |-> owner] \in Entry
      BY DEF TypeOK, Interval, Entry
    <2> QED
      BY <1>6, <2>1 DEF Insert, TypeOK, scan
  <1>7. CASE UNCHANGED vars
    BY <1>7 DEF vars, scan, TypeOK
  <1> QED
    BY <1>1, <1>2, <1>3, <1>4, <1>5, <1>6, <1>7 DEF Next, Client, Loop

\* Every address that the map and the searches compute is a 32-bit address: no
\* sum or difference of allocate wraps round.
THEOREM TypeCorrect == Spec => []TypeOK
  BY InitType, NextType, PTL DEF Spec

-----------------------------------------------------------------------------
(* The search.                                                             *)

\* During a search the candidate is in the region, and the starts that the
\* search has left behind are obstructed.
InRegion == /\ region.first <= range.first /\ range.last <= region.last
            /\ range.last = range.first + span

Behind == IF topdown THEN \A f \in range.first + 1 .. region.last - span : Blocked(f)
                     ELSE \A f \in region.first .. range.first - 1 : Blocked(f)

\* Downwards, the elements that are not above the candidate are at itr or
\* before it.
Downwards == /\ \A e \in modmap : \/ Before(range, e)
                                  \/ \E i \in itr : e = i \/ Before(e, i)
             /\ \A i, j \in itr : i = j
             /\ \A i \in itr : i.first <= range.last + 1

\* The element at itr is in the way of the candidate (or, when -- came back to
\* it, right after the candidate).
InTheWay == \A i \in itr : /\ i.first <= range.last + 1 /\ range.first <= i.last
                           /\ ~ topdown => i.first <= range.last

\* Where itr is, in each phase.
Position == /\ phase = "test" => LowerBound(itr, range)
            /\ phase = "again" => IF topdown THEN Downwards ELSE LowerBound(itr, range)
            /\ phase = "move" => InTheWay
            /\ phase = "insert" => Free(range)

\* The inductive invariant.
Search == /\ Disjoint
          /\ phase # "idle" => InRegion /\ Behind /\ outcome = "none"
          /\ Position
          /\ FullOnly

LEMMA InitSearch == Init => Search
  BY DEF Init, Search, Disjoint, Position, FullOnly

\* A range inserted where it is free leaves the map disjoint.
LEMMA DisjointInsert ==
  ASSUME Disjoint, NEW r, r.first <= r.last, Free(r), modmap' = modmap \union {r}
  PROVE  Disjoint'
  BY DEF Disjoint, Free, Before

\* A range that lower_bound does not find in the way is free.
LEMMA FreeAtLowerBound ==
  ASSUME modmap \subseteq Entry, Disjoint, NEW it, NEW r, r.last \in Int,
         LowerBound(it, r), \A e \in it : Before(r, e)
  PROVE  Free(r)
  <1> SUFFICES ASSUME NEW d \in modmap PROVE Before(d, r) \/ Before(r, d)
    BY DEF Free
  <1>1. CASE it = {}
    BY <1>1 DEF LowerBound
  <1>2. CASE it # {}
    <2>1. PICK e \in modmap : /\ it = {e}
                              /\ \A c \in modmap : Before(c, r) \/ c = e \/ Before(e, c)
      BY <1>2 DEF LowerBound
    <2>2. Before(r, e)
      BY <2>1
    <2>3. d.first \in Int /\ e.first \in Int /\ e.last \in Int /\ e.first <= e.last
      BY TopAssumption DEF Entry, Addr, Disjoint
    <2> QED
      BY <2>1, <2>2, <2>3 DEF Before
  <1> QED
    BY <1>1, <1>2

\* Recording and starting a search.
LEMMA RecordSearch ==
  ASSUME TypeOK, Search, NEW r \in Recordable, NEW m \in Module,
         Record(r.first, r.last, m)
  PROVE  Search'
  <1> DEFINE e == [first |-> AlignDown(r.first), last |-> AlignUp(r.last), module |-> m]
  <1>1. PICK it \in Iterators :
          /\ LowerBound(it, e)
          /\ IF \E i \in it : ~ Before(e, i)
               THEN outcome' = "overlap" /\ UNCHANGED modmap
               ELSE outcome' = "done" /\ modmap' = modmap \union {e}
    BY DEF Record
  <1>2. phase = "idle" /\ UNCHANGED <<phase, scan, range, itr>>
    BY DEF Record
  <1>3. e.first \in Addr /\ e.last \in Addr /\ e.first <= e.last
    <2>1. r.first \in Addr /\ r.last \in Addr /\ r.first <= r.last
      BY DEF Recordable
    <2>2. /\ AlignDown(r.first) \in Addr /\ AlignDown(r.first) <= r.first
          /\ AlignUp(r.last) \in Addr /\ r.last <= AlignUp(r.last)
      BY <2>1, AlignType
    <2> QED
      BY <2>1, <2>2, TopAssumption DEF Addr
  <1>4. Disjoint'
    <2>1. CASE \E i \in it : ~ Before(e, i)
      BY <1>1, <2>1 DEF Search, Disjoint
    <2>2. CASE \A i \in it : Before(e, i)
      <3>1. modmap \subseteq Entry /\ e.last \in Int
        BY <1>3, TopAssumption DEF TypeOK, Addr
      <3>2. Free(e)
        BY <1>1, <2>2, <3>1, FreeAtLowerBound DEF Search
      <3> QED
        BY <1>1, <1>3, <2>2, <3>2, DisjointInsert DEF Search
    <2> QED
      BY <2>1, <2>2
  <1>5. outcome' # "full"
    BY <1>1
  <1> QED
    BY <1>2, <1>4, <1>5 DEF Search, Position, FullOnly

LEMMA AllocateSearch ==
  ASSUME TypeOK, Search, NEW reg \in Region, NEW dir \in BOOLEAN, NEW size \in Addr,
         NEW m \in Module, Allocate(reg, dir, size, m)
  PROVE  Search'
  <1> DEFINE s == Rounded(size) - 1
  <1>0. reg.first \in Int /\ reg.last \in Int /\ s \in Int
    BY RoundedType, TopAssumption DEF Region, Recordable, Addr
  <1>1. phase = "idle" /\ modmap' = modmap
    BY DEF Allocate
  <1>2. Disjoint'
    BY <1>1 DEF Search, Disjoint
  <1>3. CASE s < 0 \/ s > reg.last - reg.first
    <2>1. phase' = "idle" /\ outcome' = "invalid"
      BY <1>1, <1>3 DEF Allocate
    <2> QED
      BY <1>2, <2>1 DEF Search, Position, FullOnly
  <1>4. CASE ~ (s < 0 \/ s > reg.last - reg.first)
    <2>1. /\ region' = reg /\ topdown' = dir /\ span' = s
          /\ range' = IF dir THEN [first |-> reg.last - s, last |-> reg.last]
                             ELSE [first |-> reg.first, last |-> reg.first + s]
          /\ \E it \in Iterators : LowerBound(it, range') /\ itr' = it
          /\ phase' = "test" /\ outcome' = "none"
      BY <1>4 DEF Allocate
    <2>2. InRegion'
      BY <1>0, <1>4, <2>1 DEF InRegion
    <2>3. Behind'
      BY <1>0, <1>4, <2>1 DEF Behind
    <2>4. LowerBound(itr, range)'
      BY <1>1, <2>1 DEF LowerBound
    <2> QED
      BY <1>2, <2>1, <2>2, <2>3, <2>4 DEF Search, Position, FullOnly
  <1> QED
    BY <1>3, <1>4

\* The numbers that the leaves below compute with.
LEMMA Numbers ==
  ASSUME TypeOK, Disjoint
  PROVE  /\ region.first \in Int /\ region.last \in Int
         /\ range.first \in Int /\ range.last \in Int /\ span \in Nat
         /\ \A e \in modmap : e.first \in Int /\ e.last \in Int /\ e.first <= e.last
         /\ itr \subseteq modmap
  BY TopAssumption DEF TypeOK, Interval, Entry, Addr, Disjoint

\* What the tests of the two loops conclude.
LEMMA TestSearch ==
  ASSUME TypeOK, Search, Test PROVE Search'
  <1>1. /\ phase \in {"test", "again"}
        /\ phase' = IF Collides THEN "move" ELSE "insert"
        /\ UNCHANGED <<modmap, scan, range, itr, outcome>>
    BY DEF Test
  <1>2. Disjoint /\ InRegion /\ Behind /\ outcome = "none"
    BY <1>1 DEF Search
  <1>3. Disjoint' /\ InRegion' /\ Behind' /\ outcome' = "none"
    BY <1>1, <1>2 DEF Disjoint, InRegion, Behind, Blocked, scan
  <1>4. CASE ~ (phase = "again" /\ topdown)
    <2>1. LowerBound(itr, range)
      BY <1>1, <1>4 DEF Search, Position
    <2>2. Collides <=> \E e \in itr : ~ Before(range, e)
      BY <1>4 DEF Collides
    <2>3. CASE Collides
      <3>1. PICK e \in modmap : itr = {e} /\ ~ Before(e, range)
        BY <2>1, <2>2, <2>3 DEF LowerBound
      <3>2. ~ Before(range, e)
        BY <2>2, <2>3, <3>1
      <3>3. InTheWay
        BY <1>2, <3>1, <3>2, Numbers DEF InTheWay, Before
      <3>4. InTheWay'
        BY <1>1, <3>3 DEF InTheWay, scan
      <3> QED
        BY <1>1, <1>3, <2>3, <3>4 DEF Search, Position, FullOnly
    <2>4. CASE ~ Collides
      <3>1. modmap \subseteq Entry /\ range.last \in Int
        BY <1>2, Numbers DEF TypeOK
      <3>2. Free(range)
        BY <1>2, <2>1, <2>2, <2>4, <3>1, FreeAtLowerBound
      <3>3. Free(range)'
        BY <1>1, <3>2 DEF Free
      <3> QED
        BY <1>1, <1>3, <2>4, <3>3 DEF Search, Position, FullOnly
    <2> QED
      BY <2>3, <2>4
  <1>5. CASE phase = "again" /\ topdown
    <2>1. Downwards
      BY <1>5 DEF Search, Position
    <2>2. Collides <=> \E e \in itr : ~ Before(e, range)
      BY <1>5 DEF Collides
    <2>4. CASE Collides
      <3>1. InTheWay
        BY <1>2, <1>5, <2>1, <2>2, <2>4, Numbers DEF InTheWay, Downwards, Before
      <3>2. InTheWay'
        BY <1>1, <3>1 DEF InTheWay, scan
      <3> QED
        BY <1>1, <1>3, <2>4, <3>2 DEF Search, Position, FullOnly
    <2>5. CASE ~ Collides
      <3>1. \A i \in itr : Before(i, range)
        BY <2>2, <2>5
      <3>2. Free(range)
        <4> SUFFICES ASSUME NEW e \in modmap, ~ Before(range, e) PROVE Before(e, range)
          BY DEF Free
        <4>1. PICK i \in itr : e = i \/ Before(e, i)
          BY <2>1 DEF Downwards
        <4> QED
          BY <1>2, <3>1, <4>1, Numbers DEF Before
      <3>3. Free(range)'
        BY <1>1, <3>2 DEF Free
      <3> QED
        BY <1>1, <1>3, <2>5, <3>3 DEF Search, Position, FullOnly
    <2> QED
      BY <2>4, <2>5
  <1> QED
    BY <1>4, <1>5

\* Upwards, what is left behind is obstructed by the element in the way.
LEMMA MoveUpSearch ==
  ASSUME TypeOK, Search, MoveUp PROVE Search'
  <1>1. PICK e \in itr :
          IF NoRoomAbove(e) THEN Full
          ELSE /\ range' = [first |-> e.last + 1, last |-> e.last + 1 + span]
               /\ \E it \in Iterators : Next1(it, e) /\ itr' = it
               /\ phase' = "again"
               /\ UNCHANGED outcome
    BY DEF MoveUp
  <1>2. phase = "move" /\ ~ topdown /\ UNCHANGED <<modmap, region, topdown, span>>
    BY DEF MoveUp, scan
  <1>3. Disjoint /\ InRegion /\ Behind /\ outcome = "none" /\ InTheWay
    BY <1>2 DEF Search, Position
  <1>4. Disjoint'
    BY <1>2, <1>3 DEF Disjoint
  <1>5. e \in modmap /\ e.first <= range.last /\ range.first <= e.last
    BY <1>2, <1>3, Numbers DEF InTheWay
  <1>6. \A f \in range.first .. e.last : Blocked(f)
    BY <1>3, <1>5, Numbers DEF Blocked, InRegion
  <1>7. \A f \in region.first .. e.last : Blocked(f)
    BY <1>2, <1>3, <1>5, <1>6, Numbers DEF Behind
  <1>8. CASE NoRoomAbove(e)
    <2>1. phase' = "idle"
      BY <1>1, <1>8 DEF Full
    <2>2. \A f \in region.first .. region.last - span : Blocked(f)
      BY <1>3, <1>5, <1>7, <1>8, Numbers DEF NoRoomAbove
    <2>3. FullOnly'
      BY <1>2, <2>2 DEF FullOnly, Blocked
    <2> QED
      BY <1>4, <2>1, <2>3 DEF Search, Position
  <1>9. CASE ~ NoRoomAbove(e)
    <2>1. /\ range' = [first |-> e.last + 1, last |-> e.last + 1 + span]
          /\ Next1(itr', e) /\ phase' = "again" /\ outcome' = "none"
      BY <1>1, <1>3, <1>9
    <2>2. InRegion'
      BY <1>2, <1>3, <1>5, <1>9, <2>1, Numbers DEF InRegion, NoRoomAbove
    <2>3. Behind'
      <3>1. \A f \in region.first .. (e.last + 1) - 1 : Blocked(f)
        BY <1>3, <1>5, <1>7, Numbers
      <3> QED
        BY <1>2, <2>1, <3>1 DEF Behind, Blocked
    <2>4. LowerBound(itr', range')
      <3>1. CASE itr' = {} /\ \A d \in modmap : d = e \/ Before(d, e)
        BY <1>3, <1>5, <2>1, <3>1, Numbers DEF LowerBound, Before
      <3>2. CASE \E n \in modmap :
                   /\ itr' = {n} /\ Before(e, n)
                   /\ \A d \in modmap : d = e \/ Before(d, e) \/ d = n \/ Before(n, d)
        <4>1. PICK n \in modmap :
                   /\ itr' = {n} /\ Before(e, n)
                   /\ \A d \in modmap : d = e \/ Before(d, e) \/ d = n \/ Before(n, d)
          BY <3>2
        <4>2. ~ Before(n, range')
          BY <1>3, <1>5, <2>1, <4>1, Numbers DEF Before
        <4>3. \A d \in modmap : d = e \/ Before(d, e) => Before(d, range')
          BY <1>3, <1>5, <2>1, Numbers DEF Before
        <4> QED
          BY <4>1, <4>2, <4>3 DEF LowerBound
      <3> QED
        BY <2>1, <3>1, <3>2 DEF Next1
    <2>5. LowerBound(itr, range)'
      BY <1>2, <2>4 DEF LowerBound
    <2> QED
      BY <1>2, <1>4, <2>1, <2>2, <2>3, <2>5 DEF Search, Position, FullOnly
  <1> QED
    BY <1>8, <1>9

\* Downwards, too; and -- leads to the last element that is not above the new
\* candidate.
LEMMA MoveDownSearch ==
  ASSUME TypeOK, Search, MoveDown PROVE Search'
  <1>1. PICK e \in itr :
          IF NoRoomBelow(e) THEN Full
          ELSE /\ range' = [first |-> e.first - 1 - span, last |-> e.first - 1]
               /\ \E it \in Iterators : Prev1(it, e) /\ itr' = it
               /\ phase' = "again"
               /\ UNCHANGED outcome
    BY DEF MoveDown
  <1>2. phase = "move" /\ topdown /\ UNCHANGED <<modmap, region, topdown, span>>
    BY DEF MoveDown, scan
  <1>3. Disjoint /\ InRegion /\ Behind /\ outcome = "none" /\ InTheWay
    BY <1>2 DEF Search, Position
  <1>4. Disjoint'
    BY <1>2, <1>3 DEF Disjoint
  <1>5. e \in modmap /\ e.first <= range.last + 1 /\ range.first <= e.last
    BY <1>2, <1>3, Numbers DEF InTheWay
  <1>6. \A f \in e.first - span .. range.first : Blocked(f)
    BY <1>3, <1>5, Numbers DEF Blocked
  <1>7. \A f \in e.first - span .. region.last - span : Blocked(f)
    BY <1>2, <1>3, <1>5, <1>6, Numbers DEF Behind
  <1>8. CASE NoRoomBelow(e)
    <2>1. phase' = "idle"
      BY <1>1, <1>8 DEF Full
    <2>2. \A f \in region.first .. region.last - span : Blocked(f)
      BY <1>3, <1>5, <1>7, <1>8, Numbers DEF NoRoomBelow
    <2>3. FullOnly'
      BY <1>2, <2>2 DEF FullOnly, Blocked
    <2> QED
      BY <1>4, <2>1, <2>3 DEF Search, Position
  <1>9. CASE ~ NoRoomBelow(e)
    <2>1. /\ range' = [first |-> e.first - 1 - span, last |-> e.first - 1]
          /\ Prev1(itr', e) /\ phase' = "again" /\ outcome' = "none"
      BY <1>1, <1>3, <1>9
    <2>2. InRegion'
      BY <1>2, <1>3, <1>5, <1>9, <2>1, Numbers DEF InRegion, NoRoomBelow
    <2>3. Behind'
      <3>1. \A f \in e.first - 1 - span + 1 .. region.last - span : Blocked(f)
        BY <1>3, <1>5, <1>7, Numbers
      <3> QED
        BY <1>2, <2>1, <3>1 DEF Behind, Blocked
    <2>4. \A d \in modmap : d = e \/ Before(e, d) => Before(range', d)
      BY <1>3, <1>5, <2>1, Numbers DEF Before
    <2>5. /\ \A d \in modmap : \/ Before(range', d)
                               \/ \E i \in itr' : d = i \/ Before(d, i)
          /\ \A i, j \in itr' : i = j
          /\ \A i \in itr' : i.first <= range'.last + 1
      <3>1. CASE itr' \in {{}, {e}} /\ \A d \in modmap : d = e \/ Before(e, d)
        BY <1>3, <1>5, <2>1, <2>4, <3>1, Numbers
      <3>2. CASE \E p \in modmap :
                   /\ itr' = {p} /\ Before(p, e)
                   /\ \A d \in modmap : d = e \/ Before(e, d) \/ d = p \/ Before(d, p)
        <4>1. PICK p \in modmap :
                   /\ itr' = {p} /\ Before(p, e)
                   /\ \A d \in modmap : d = e \/ Before(e, d) \/ d = p \/ Before(d, p)
          BY <3>2
        <4>2. p.first <= range'.last + 1
          BY <1>3, <1>5, <2>1, <4>1, Numbers DEF Before
        <4> QED
          BY <2>4, <4>1, <4>2
      <3> QED
        BY <2>1, <3>1, <3>2 DEF Prev1
    <2>6. Downwards'
      BY <1>2, <2>5 DEF Downwards, Before
    <2> QED
      BY <1>2, <1>4, <2>1, <2>2, <2>3, <2>6 DEF Search, Position, FullOnly
  <1> QED
    BY <1>8, <1>9

LEMMA InsertSearch ==
  ASSUME TypeOK, Search, Insert PROVE Search'
  <1> DEFINE r == [first |-> range.first, last |-> range.last, module |-> owner]
  <1>1. phase = "insert" /\ phase' = "idle" /\ outcome' = "done" /\ modmap' = modmap \union {r}
    BY DEF Insert
  <1>2. Disjoint /\ InRegion /\ Free(range)
    BY <1>1 DEF Search, Position
  <1>3. Free(r) /\ r.first <= r.last
    BY <1>2, Numbers DEF Free, Before, InRegion
  <1>4. Disjoint'
    BY <1>1, <1>2, <1>3, DisjointInsert
  <1> QED
    BY <1>1, <1>4 DEF Search, Position, FullOnly

LEMMA NextSearch == TypeOK /\ Search /\ [Next]_vars => Search'
  <1> SUFFICES ASSUME TypeOK, Search, [Next]_vars PROVE Search'
    OBVIOUS
  <1>1. CASE Client
    BY <1>1, RecordSearch, AllocateSearch DEF Client
  <1>2. CASE Loop
    BY <1>2, TestSearch, MoveUpSearch, MoveDownSearch, InsertSearch DEF Loop
  <1>3. CASE UNCHANGED vars
    BY <1>3 DEF vars, scan, Search, Disjoint, InRegion, Behind, Position, LowerBound,
                Downwards, InTheWay, Free, FullOnly, Blocked
  <1> QED
    BY <1>1, <1>2, <1>3 DEF Next

LEMMA SearchInvariant == Spec => []Search
  BY InitType, NextType, InitSearch, NextSearch, PTL DEF Spec

\* Recording and allocating never make two ranges overlap: every address has
\* one owner, whatever the order of the calls (memmgr.cc, record and allocate).
THEOREM OneOwner == Spec => []Disjoint
  <1>1. Search => Disjoint
    BY DEF Search
  <1> QED
    BY <1>1, SearchInvariant, PTL

\* What allocate inserts is free and in the region it was asked for, although
\* it compares its candidate with one range of the map only.
THEOREM InsertedFree == Spec => []InsertsFree
  <1>1. Search => InsertsFree
    BY DEF Search, Position, InRegion, InsertsFree
  <1> QED
    BY <1>1, SearchInvariant, PTL

\* What allocate inserts is the lowest, or the highest, range that fits.
THEOREM BestFit == Spec => []FirstFit
  <1>1. Search => FirstFit
    BY DEF Search, Behind, FirstFit
  <1> QED
    BY <1>1, SearchInvariant, PTL

\* allocate throws Range::empty only when no range of the region fits.
THEOREM Exhausted == Spec => []FullOnly
  <1>1. Search => FullOnly
    BY DEF Search
  <1> QED
    BY <1>1, SearchInvariant, PTL

\* allocate answers with the first hole of its region, or there is none.
THEOREM Allocation == Spec => []FirstHole
  <1>1. InsertsFree /\ FirstFit /\ FullOnly => FirstHole
    BY DEF FirstHole
  <1> QED
    BY <1>1, InsertedFree, BestFit, Exhausted, PTL

-----------------------------------------------------------------------------
(* Whole pages.                                                            *)

Multiple(a) == \E k \in Int : a = Page * k

\* What is added to a multiple is the remainder.
LEMMA Remainder ==
  ASSUME NEW k \in Int, NEW r \in 0 .. Page - 1
  PROVE  (Page * k + r) % Page = r
  <1> DEFINE x == Page * k + r
             d == x \div Page
             m == x % Page
  <1>0. Page \in Nat /\ Page > 0
    BY PageAssumption
  <1>1. x \in Int
    BY <1>0
  <1>2. d \in Int /\ m \in 0 .. Page - 1 /\ x = Page * d + m
    BY <1>0, <1>1
  <1>3. Page * (k - d) = m - r
    BY <1>0, <1>2
  <1>4. CASE k - d >= 1
    <2>1. Page * (k - d) >= Page
      BY <1>0, <1>2, <1>4
    <2> QED
      BY <1>0, <1>2, <1>3, <2>1
  <1>5. CASE k - d <= -1
    <2>1. Page * (k - d) <= - Page
      BY <1>0, <1>2, <1>5
    <2> QED
      BY <1>0, <1>2, <1>3, <2>1
  <1>6. CASE k - d = 0
    BY <1>0, <1>2, <1>3, <1>6
  <1> QED
    BY <1>2, <1>4, <1>5, <1>6

LEMMA MultipleSum ==
  ASSUME NEW a \in Int, NEW b \in Int, Multiple(a), Multiple(b)
  PROVE  Multiple(a + b) /\ Multiple(a - b)
  <1>1. PICK j \in Int : a = Page * j
    BY DEF Multiple
  <1>2. PICK k \in Int : b = Page * k
    BY DEF Multiple
  <1>3. a + b = Page * (j + k) /\ a - b = Page * (j - k)
    BY <1>1, <1>2, PageAssumption
  <1>4. j + k \in Int /\ j - k \in Int
    OBVIOUS
  <1> QED
    BY <1>3, <1>4 DEF Multiple

\* AlignDown leaves the first address of a page as it is, AlignUp the last one.
LEMMA Aligned ==
  ASSUME NEW a \in Addr
  PROVE  /\ Multiple(AlignDown(a)) /\ Multiple(AlignUp(a) + 1)
         /\ AlignDown(a) = a <=> Multiple(a)
         /\ AlignUp(a) = a <=> Multiple(a + 1)
  <1> DEFINE d == a \div Page
             m == a % Page
  <1>0. Page \in Nat /\ Page > 0 /\ a \in Nat
    BY PageAssumption DEF Addr
  <1>1. d \in Int /\ m \in 0 .. Page - 1 /\ a = Page * d + m
    BY <1>0
  <1>2. Multiple(AlignDown(a))
    <2>1. AlignDown(a) = Page * d
      BY <1>0, <1>1 DEF AlignDown
    <2> QED
      BY <1>1, <2>1 DEF Multiple
  <1>3. AlignUp(a) + 1 = Page * d + Page
    BY <1>0, <1>1 DEF AlignUp
  <1>4. AlignUp(a) + 1 = Page * (d + 1) /\ d + 1 \in Int
    BY <1>0, <1>1, <1>3
  <1>5. Multiple(AlignUp(a) + 1)
    BY <1>4 DEF Multiple
  <1>6. ASSUME Multiple(a) PROVE AlignDown(a) = a
    <2>1. PICK k \in Int : a = Page * k
      BY <1>6 DEF Multiple
    <2>2. a = Page * k + 0 /\ 0 \in 0 .. Page - 1
      BY <1>0, <2>1
    <2>3. m = 0
      BY <2>2, Remainder
    <2> QED
      BY <1>0, <2>3 DEF AlignDown
  <1>7. ASSUME Multiple(a + 1) PROVE AlignUp(a) = a
    <2>1. PICK k \in Int : a + 1 = Page * k
      BY <1>7 DEF Multiple
    <2>2. a = Page * (k - 1) + (Page - 1) /\ k - 1 \in Int /\ Page - 1 \in 0 .. Page - 1
      BY <1>0, <2>1
    <2>3. m = Page - 1
      BY <2>2, Remainder
    <2> QED
      BY <1>0, <2>3 DEF AlignUp
  <1> QED
    BY <1>2, <1>5, <1>6, <1>7

Whole(r) == Multiple(r.first) /\ Multiple(r.last + 1)

\* The ranges are whole pages because the candidates are, and these are because
\* they are one size, a whole number of pages, away from whole pages.
PagesInvariant ==
  /\ \A e \in modmap : Whole(e)
  /\ phase # "idle" => Whole(region) /\ Multiple(span + 1) /\ Whole(range)

LEMMA RecordPages ==
  ASSUME TypeOK, PagesInvariant,
         NEW r \in Recordable, NEW m \in Module, Record(r.first, r.last, m)
  PROVE  PagesInvariant'
  <1> DEFINE e == [first |-> AlignDown(r.first), last |-> AlignUp(r.last), module |-> m]
  <1>1. Whole(e)
    BY Aligned DEF Whole, Recordable
  <1>2. modmap' = modmap \/ modmap' = modmap \union {e}
    BY DEF Record
  <1>3. phase = "idle" /\ phase' = "idle"
    BY DEF Record
  <1> QED
    BY <1>1, <1>2, <1>3 DEF PagesInvariant

\* The region and the size of a candidate are whole pages.
LEMMA AllocatePages ==
  ASSUME TypeOK, PagesInvariant, NEW reg \in Region, NEW dir \in BOOLEAN,
         NEW size \in Addr, NEW m \in Module, Allocate(reg, dir, size, m)
  PROVE  PagesInvariant'
  <1> DEFINE s == Rounded(size) - 1
  <1>0. Top \in Nat /\ reg \in Interval
    BY TopAssumption DEF Region, Recordable, Interval
  <1>1. UNCHANGED modmap
    BY DEF Allocate
  <1>2. CASE s < 0 \/ s > reg.last - reg.first
    <2>1. UNCHANGED phase /\ phase = "idle"
      BY <1>2 DEF Allocate
    <2> QED
      BY <1>1, <2>1 DEF PagesInvariant
  <1>3. CASE ~ (s < 0 \/ s > reg.last - reg.first)
    <2>1. /\ region' = reg /\ span' = s
          /\ range' = IF dir THEN [first |-> reg.last - s, last |-> reg.last]
                             ELSE [first |-> reg.first, last |-> reg.first + s]
      BY <1>3 DEF Allocate
    <2>2. Whole(reg)
      BY Aligned DEF Whole, Region, Recordable
    <2>3. Rounded(size) \in Int /\ Multiple(Rounded(size))
      <3>1. (size + Page - 1) % (Top + 1) \in Addr
        BY TopAssumption, PageAssumption DEF Addr
      <3> QED
        BY <3>1, Aligned, RoundedType DEF Rounded, Addr
    <2>4. Multiple(s + 1)
      BY <2>3
    <2>5. reg.first \in Int /\ reg.last \in Int /\ reg.last + 1 \in Int
      BY <1>0 DEF Interval, Addr
    <2>6. Multiple((reg.last + 1) - Rounded(size)) /\ Multiple(reg.first + Rounded(size))
      BY <2>2, <2>3, <2>5, MultipleSum DEF Whole
    <2>7. /\ (reg.last + 1) - Rounded(size) = reg.last - s
          /\ reg.first + Rounded(size) = (reg.first + s) + 1
      BY <2>3, <2>5
    <2>8. Whole(range')
      BY <2>1, <2>2, <2>6, <2>7 DEF Whole
    <2> QED
      BY <1>1, <2>1, <2>2, <2>4, <2>8 DEF PagesInvariant
  <1> QED
    BY <1>2, <1>3

\* The next candidate begins after, or ends before, a range of the map.
LEMMA MovePages ==
  ASSUME TypeOK, PagesInvariant, MoveUp \/ MoveDown
  PROVE  PagesInvariant'
  <1>1. PICK e \in itr :
          \/ phase' = "idle"
          \/ range' = [first |-> e.last + 1, last |-> e.last + 1 + span]
          \/ range' = [first |-> e.first - 1 - span, last |-> e.first - 1]
    BY DEF MoveUp, MoveDown, Full
  <1>2. UNCHANGED <<modmap, region, span>> /\ phase = "move" /\ e \in modmap
    BY DEF MoveUp, MoveDown, scan, TypeOK
  <1>3. e.first \in Int /\ e.last + 1 \in Int /\ span + 1 \in Int
    BY <1>2 DEF TypeOK, Entry, Addr
  <1>4. Whole(e) /\ Multiple(span + 1)
    BY <1>2 DEF PagesInvariant
  <1>5. Multiple((e.last + 1) + (span + 1)) /\ Multiple(e.first - (span + 1))
    BY <1>3, <1>4, MultipleSum DEF Whole
  <1>6. /\ (e.last + 1) + (span + 1) = (e.last + 1 + span) + 1
        /\ e.first - (span + 1) = e.first - 1 - span
        /\ (e.first - 1) + 1 = e.first
    BY <1>2 DEF TypeOK, Entry, Addr
  <1>7. phase' = "idle" \/ Whole(range')
    BY <1>1, <1>4, <1>5, <1>6 DEF Whole
  <1> QED
    BY <1>2, <1>7 DEF PagesInvariant

LEMMA InitPages == Init => PagesInvariant
  BY DEF Init, PagesInvariant

LEMMA NextPages == TypeOK /\ PagesInvariant /\ [Next]_vars => PagesInvariant'
  <1> SUFFICES ASSUME TypeOK, PagesInvariant, [Next]_vars PROVE PagesInvariant'
    OBVIOUS
  <1>1. CASE Client
    BY <1>1, RecordPages, AllocatePages DEF Client
  <1>2. CASE Test
    BY <1>2 DEF Test, scan, PagesInvariant
  <1>3. CASE MoveUp \/ MoveDown
    BY <1>3, MovePages
  <1>4. CASE Insert
    <2>1. modmap' = modmap \union {[first |-> range.first, last |-> range.last, module |-> owner]}
      BY <1>4 DEF Insert
    <2>2. Whole(range) /\ phase' = "idle"
      BY <1>4 DEF Insert, PagesInvariant
    <2> QED
      BY <2>1, <2>2 DEF PagesInvariant, Whole
  <1>5. CASE UNCHANGED vars
    BY <1>5 DEF vars, scan, PagesInvariant
  <1> QED
    BY <1>1, <1>2, <1>3, <1>4, <1>5 DEF Next, Loop

LEMMA PagesWhole == TypeOK /\ PagesInvariant => WholePages
  <1> SUFFICES ASSUME TypeOK, PagesInvariant, NEW e \in modmap
               PROVE  AlignDown(e.first) = e.first /\ AlignUp(e.last) = e.last /\ e.last <= Top
    BY DEF WholePages
  <1>1. e.first \in Addr /\ e.last \in Addr
    BY DEF TypeOK, Entry
  <1>2. Whole(e)
    BY DEF PagesInvariant
  <1> QED
    BY <1>1, <1>2, Aligned, TopAssumption DEF Whole, Addr

\* Every range of the map is made of whole pages, although allocate rounds
\* sizes only: its regions are made of pages, and so is what is left of them.
THEOREM PagesOnly == Spec => []WholePages
  BY InitType, NextType, InitPages, NextPages, PagesWhole, PTL DEF Spec
==============================================================================
