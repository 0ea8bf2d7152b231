------------------------------- MODULE MemMgr --------------------------------
(***************************************************************************)
(* uwt/win/memmgr.cc: the map of the 32-bit address space.  Images are     *)
(* recorded where their headers put them; the stack, the heap and what the *)
(* host modules ask for are allocated in the first hole of a region, from  *)
(* its bottom or from its top.  The map is a std::map<Range,Module*> whose *)
(* comparison makes overlapping ranges equivalent.                         *)
(*                                                                         *)
(* An iterator is a set: {} is end(), {e} designates element e.            *)
(***************************************************************************)
EXTENDS Integers, FiniteSets

CONSTANTS
  Top,      \* the last address: Range::top, 2^32 - 1
  Page,     \* the alignment, Memory::Page::s_size
  Module    \* the owners of the ranges

ASSUME TopAssumption == Top \in Nat
ASSUME PageAssumption == Page \in Nat \ {0} /\ (Top + 1) % Page = 0

Addr == 0 .. Top

VARIABLES
  modmap,   \* the ranges recorded so far
  phase,    \* where allocate is: idle, test, move, again, insert
  region,   \* its arguments, span being the rounded size less one
  topdown,
  span,
  owner,
  range,    \* its local variables
  itr,
  outcome   \* of the last operation: none yet, done, overlap, full, invalid

scan == <<region, topdown, span, owner>>
vars == <<modmap, phase, scan, range, itr, outcome>>

Interval == [first : Addr, last : Addr]
Entry == [first : Addr, last : Addr, module : Module]

TypeOK == /\ modmap \subseteq Entry
          /\ phase \in {"idle", "test", "move", "again", "insert"}
          /\ region \in Interval
          /\ topdown \in BOOLEAN
          /\ span \in Addr
          /\ owner \in Module
          /\ range \in Interval
          /\ itr \subseteq modmap
          /\ outcome \in {"none", "done", "overlap", "full", "invalid"}

Init == /\ modmap = {}
        /\ phase = "idle"
        /\ region = [first |-> 0, last |-> Top]
        /\ topdown = FALSE
        /\ span = 0
        /\ owner \in Module
        /\ range = [first |-> 0, last |-> Top]
        /\ itr = {}
        /\ outcome = "none"

-----------------------------------------------------------------------------
(* Ranges and iterators.                                                   *)

\* addr & ~m_mask, and addr | m_mask.
AlignDown(a) == a - (a % Page)
AlignUp(a) == a - (a % Page) + Page - 1

\* Mutant: the size is taken as it is.
Unrounded(size) == size

\* The size in whole pages, in 32-bit arithmetic.
Rounded(size) == AlignDown((size + Page - 1) % (Top + 1))

\* Range::operator<.
Before(a, b) == a.last < b.first

\* it is what lower_bound(r) returns: the first element that is not before r.
LowerBound(it, r) ==
  \/ it = {} /\ \A d \in modmap : Before(d, r)
  \/ \E e \in modmap : /\ it = {e} /\ ~ Before(e, r)
                       /\ \A d \in modmap : Before(d, r) \/ d = e \/ Before(e, d)

\* Mutants: the iterator stays where it is, or goes to the end at once.
NextStays(it, e) == it = {e}
NextEnds(it, e) == it = {}

\* it is what ++ makes of an iterator at e.
Next1(it, e) ==
  \/ it = {} /\ \A d \in modmap : d = e \/ Before(d, e)
  \/ \E n \in modmap : /\ it = {n} /\ Before(e, n)
                       /\ \A d \in modmap : d = e \/ Before(d, e) \/ d = n \/ Before(n, d)

\* it is what -- makes of an iterator at e.  When e is the first element this
\* is undefined: the library either reaches end() or, from a root without a
\* left child, comes back to e.
Prev1(it, e) ==
  \/ it \in {{}, {e}} /\ \A d \in modmap : d = e \/ Before(e, d)
  \/ \E p \in modmap : /\ it = {p} /\ Before(p, e)
                       /\ \A d \in modmap : d = e \/ Before(e, d) \/ d = p \/ Before(d, p)

Iterators == {{}} \union {{e} : e \in modmap}

-----------------------------------------------------------------------------
(* MemMgr::record.                                                         *)

\* An image is recorded unless a range of the map is in its way.
Record(first, last, m) ==
  /\ phase = "idle"
  /\ LET r == [first |-> AlignDown(first), last |-> AlignUp(last), module |-> m]
     IN \E it \in Iterators :
          /\ LowerBound(it, r)
          /\ IF \E e \in it : ~ Before(r, e)
               THEN outcome' = "overlap" /\ UNCHANGED modmap
               ELSE outcome' = "done" /\ modmap' = modmap \union {r}
  /\ UNCHANGED <<phase, scan, range, itr>>

-----------------------------------------------------------------------------
(* MemMgr::allocate: one step per test and per turn of its loops.          *)

\* A size that overflows, is null or does not fit in the region is refused;
\* otherwise the first candidate is at one end of the region.
Allocate(reg, dir, size, m) ==
  /\ phase = "idle"
  /\ LET s == Rounded(size) - 1
     IN IF s < 0 \/ s > reg.last - reg.first
          THEN /\ outcome' = "invalid"
               /\ UNCHANGED <<phase, scan, range, itr>>
          ELSE /\ region' = reg /\ topdown' = dir /\ span' = s /\ owner' = m
               /\ range' = IF dir THEN [first |-> reg.last - s, last |-> reg.last]
                                  ELSE [first |-> reg.first, last |-> reg.first + s]
               /\ \E it \in Iterators : LowerBound(it, range') /\ itr' = it
               /\ phase' = "test"
               /\ outcome' = "none"
  /\ UNCHANGED modmap

\* Mutant: the elements below are taken for elements in the way.
CollidesAbove == \E e \in itr : ~ Before(range, e)

\* The element at itr is in the way of the candidate.
Collides == IF phase = "again" /\ topdown
              THEN \E e \in itr : ~ Before(e, range)
              ELSE \E e \in itr : ~ Before(range, e)

Test == /\ phase \in {"test", "again"}
        /\ phase' = IF Collides THEN "move" ELSE "insert"
        /\ UNCHANGED <<modmap, scan, range, itr, outcome>>

Full == /\ phase' = "idle"
        /\ outcome' = "full"
        /\ UNCHANGED <<range, itr>>

\* The region has no room past element e, on either side.
NoRoomAbove(e) == e.last >= region.last - span
NoRoomBelow(e) == e.first <= region.first + span

\* The next candidate is right after the element in the way...
MoveUp ==
  /\ phase = "move" /\ ~ topdown
  /\ \E e \in itr :
       IF NoRoomAbove(e) THEN Full
       ELSE /\ range' = [first |-> e.last + 1, last |-> e.last + 1 + span]
            /\ \E it \in Iterators : Next1(it, e) /\ itr' = it
            /\ phase' = "again"
            /\ UNCHANGED outcome
  /\ UNCHANGED <<modmap, scan>>

\* ... or right before it.
MoveDown ==
  /\ phase = "move" /\ topdown
  /\ \E e \in itr :
       IF NoRoomBelow(e) THEN Full
       ELSE /\ range' = [first |-> e.first - 1 - span, last |-> e.first - 1]
            /\ \E it \in Iterators : Prev1(it, e) /\ itr' = it
            /\ phase' = "again"
            /\ UNCHANGED outcome
  /\ UNCHANGED <<modmap, scan>>

Insert ==
  /\ phase = "insert"
  /\ modmap' = modmap \union {[first |-> range.first, last |-> range.last, module |-> owner]}
  /\ phase' = "idle"
  /\ outcome' = "done"
  /\ UNCHANGED <<scan, range, itr>>

-----------------------------------------------------------------------------
\* What the loader asks for: ranges of addresses to record, and regions of
\* whole pages to allocate in (image bases are page aligned: mount asserts it).
Recordable == {r \in [first : Addr, last : Addr] : r.first <= r.last}
Region == {r \in Recordable : AlignDown(r.first) = r.first /\ AlignUp(r.last) = r.last}

Client == \/ \E r \in Recordable, m \in Module : Record(r.first, r.last, m)
          \/ \E reg \in Region, dir \in BOOLEAN, size \in Addr, m \in Module :
               Allocate(reg, dir, size, m)

Loop == Test \/ MoveUp \/ MoveDown \/ Insert

Next == Client \/ Loop

Spec == Init /\ [][Next]_vars /\ WF_vars(Loop)

-----------------------------------------------------------------------------
(* Properties.                                                             *)

\* No two ranges of the map overlap, so that an address has one owner and the
\* map stays ordered (a range equivalent to another would be lost silently).
Disjoint == /\ \A a \in modmap : a.first <= a.last
            /\ \A a, b \in modmap : a = b \/ Before(a, b) \/ Before(b, a)

\* A candidate that is inserted is in its region and is free.
Free(r) == \A e \in modmap : Before(e, r) \/ Before(r, e)

InsertsFree ==
  phase = "insert" => /\ range.last = range.first + span
                      /\ region.first <= range.first /\ range.last <= region.last
                      /\ Free(range)

\* A hole for span + 1 bytes that starts at f is obstructed.
Blocked(f) == \E e \in modmap : e.first <= f + span /\ f <= e.last

\* The range that allocate inserts is the lowest possible one of the region
\* (the highest one if topdown), although it looks only at some of them.
FirstFit ==
  phase = "insert" =>
    IF topdown THEN \A f \in range.first + 1 .. region.last - span : Blocked(f)
               ELSE \A f \in region.first .. range.first - 1 : Blocked(f)

\* allocate gives up only when the region has no hole.
FullOnly == outcome = "full" => \A f \in region.first .. region.last - span : Blocked(f)

\* What a caller of allocate relies on: it gets the first hole of its region,
\* and an exception only if there is none.
FirstHole == InsertsFree /\ FirstFit /\ FullOnly

\* Every range is made of whole pages: allocate does not round its candidates,
\* and relies on the regions for it.
WholePages == \A e \in modmap : /\ AlignDown(e.first) = e.first
                                /\ AlignUp(e.last) = e.last /\ e.last <= Top

\* Once asked for, a search upwards ends: it goes past one element of the map
\* at each turn.  (Downwards, the decrement of begin() may never end it.)
SearchEnds == (phase # "idle" /\ ~ topdown) ~> (phase = "idle")
==============================================================================
