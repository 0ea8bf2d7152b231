------------------------------- MODULE Memory --------------------------------
(***************************************************************************)
(* uwt/x86/memory.cc, memory.hh: the guest memory is a hash table of       *)
(* pages.  The pages of a key are chained, the last one used first; they   *)
(* are made when they are first used.  An access is cut in chunks, one for *)
(* each page: a step is a chunk, from getpage to the end of the loop body. *)
(* Addresses are numbers of 32 bits: they wrap at Space.                   *)
(***************************************************************************)
EXTENDS Integers, Sequences

CONSTANTS
  PageSize,   \* Page::s_size
  MapSize,    \* s_mapsize
  Pages,      \* the number of pages of the address space
  Byte,       \* the values of a byte
  MaxSize     \* bound: the size of an access

ASSUME SizeAssumption == /\ PageSize \in Nat \ {0} /\ MapSize \in Nat \ {0}
                         /\ Pages \in Nat \ {0}
ASSUME ByteAssumption == Byte \subseteq Nat /\ 0 \in Byte
ASSUME MaxSizeAssumption == MaxSize \in 1 .. Pages * PageSize - 1

Space == Pages * PageSize
Addr == 0 .. Space - 1
Key == 0 .. MapSize - 1

none == -1   \* what a stream that has ended gives

VARIABLES
  m_map,     \* m_map[k]: the chain of the pages of key k
  op,        \* the access in progress: the method, idle if none
  addr,      \* its local variable _addr
  data,      \* what _buffer, _string or _data still has to give
  size,      \* _size, of a read
  start,     \* the local variables of zfill and of the write of a stream
  chunk,
  got,       \* what the last read has read
  outcome    \* of the last access

locals == <<op, addr, data, size, start, chunk>>
vars == <<m_map, locals, got, outcome>>

Page == [index : 0 .. Pages - 1, storage : [0 .. PageSize - 1 -> Byte]]

-----------------------------------------------------------------------------
(* The pages.                                                              *)

Index(a) == a \div PageSize
MapKey(a) == Index(a) % MapSize

\* Where the page of a is in its chain, and that it is.
At(a, n) == n \in DOMAIN m_map[MapKey(a)] /\ m_map[MapKey(a)][n].index = Index(a)
Present(a) == \E n \in DOMAIN m_map[MapKey(a)] : At(a, n)
Position(a) == CHOOSE n \in DOMAIN m_map[MapKey(a)] :
                 At(a, n) /\ \A k \in 1 .. n - 1 : ~ At(a, k)

\* Mutant: the page found is put first, and stays where it was.
FrontCopying(chain, n) == <<chain[n]>> \o chain

\* The n-th element of a chain is extracted and made the first.
Front(chain, n) ==
  [k \in DOMAIN chain |-> IF k = 1 THEN chain[n]
                          ELSE IF k <= n THEN chain[k - 1] ELSE chain[k]]

\* getpage, not const: the chain of a once the page of a is the first.
getpage(a) ==
  IF Present(a) THEN Front(m_map[MapKey(a)], Position(a))
  ELSE << [index |-> Index(a), storage |-> [o \in 0 .. PageSize - 1 |-> 0]] >>
         \o m_map[MapKey(a)]

\* getpage, const: the page of a, which is Present.
Getpage(a) == m_map[MapKey(a)][Position(a)]

-----------------------------------------------------------------------------
(* The chunks.                                                             *)

Least(m, n) == IF m < n THEN m ELSE n

\* pageoffset and subChunkSize, the latter for what is left of an access.
Offset(a) == a % PageSize
SubChunk(a, left) == Least(PageSize - Offset(a), left)

\* _addr += n
Add(a, n) == (a + n) % Space

\* The first page of the chain gets the n next bytes at offset o.
Store(chain, o, n) ==
  [chain EXCEPT ![1].storage = [i \in 0 .. PageSize - 1 |->
     IF i \in o .. o + n - 1 /\ data[i - o + 1] # none
       THEN data[i - o + 1] ELSE @[i]]]

\* What the storage of a page has at n offsets from o on.
Load(page, o, n) == [i \in 1 .. n |-> page.storage[o + (i - 1)]]

Init == /\ m_map = [k \in Key |-> <<>>]
        /\ op = "idle" /\ addr = 0 /\ data = <<>> /\ size = 0
        /\ start = 0 /\ chunk = PageSize
        /\ got = <<>> /\ outcome = "done"

\* Contents n bytes long for the calls.  A stream may give less than asked; it
\* repeats a byte, to have few of them.
Contents(n) == [1 .. n -> Byte]
Stream(n) == {[i \in 1 .. n |-> IF i <= k THEN c ELSE none] : k \in 0 .. n, c \in Byte}

\* The memory read from any address has a zero or a hole, where the read of a
\* string ends.
Bounded == \E a \in Addr : Present(a) => Getpage(a).storage[Offset(a)] = 0

\* A call: its first bytes, its initial values of locals.  An access of size
\* 0 does nothing; a string is written up to its final zero, included.
Begin ==
  /\ op = "idle"
  /\ addr' \in Addr
  /\ \/ \E n \in 1 .. MaxSize :
          \/ op' = "write" /\ data' \in Contents(n) /\ size' = 0
          \/ op' = "zfill" /\ data' = [i \in 1 .. n |-> 0] /\ size' = 0
          \/ op' = "stream" /\ data' \in Stream(n) /\ size' = 0
          \/ op' \in {"read", "constread"} /\ data' = <<>> /\ size' = n
     \/ op' = "string" /\ Bounded /\ data' = <<>> /\ size' = 0
  /\ start' = IF op' \in {"zfill", "stream"} THEN Offset(addr') ELSE 0
  /\ chunk' = PageSize - start'
  /\ got' = <<>>
  /\ UNCHANGED <<m_map, outcome>>

\* The end of a loop body that has done n bytes.  The locals of an access that
\* is over are forgotten.
Advance(n, last) == /\ addr' = IF last THEN 0 ELSE Add(addr, n)
                    /\ op' = IF last THEN "idle" ELSE op
                    /\ outcome' = IF last THEN "done" ELSE outcome

\* write( uint32_t, uint8_t const*, uint32_t ), write( uint32_t, char const* )
Write == /\ op = "write"
         /\ LET n == SubChunk(addr, Len(data))
            IN  /\ m_map' = [m_map EXCEPT ![MapKey(addr)] =
                               Store(getpage(addr), Offset(addr), n)]
                /\ data' = SubSeq(data, n + 1, Len(data))
                /\ Advance(n, n = Len(data))
         /\ UNCHANGED <<size, start, chunk, got>>

\* Mutant: the chunks after the first begin where the first one does.
FillSameStart ==
  /\ op \in {"zfill", "stream"}
  /\ LET n == Least(chunk, Len(data))
     IN  /\ m_map' = [m_map EXCEPT ![MapKey(addr)] = Store(getpage(addr), start, n)]
         /\ data' = SubSeq(data, n + 1, Len(data))
         /\ Advance(n, n = Len(data))
  /\ chunk' = PageSize
  /\ UNCHANGED <<size, got, start>>

\* zfill, and write( uint32_t, std::istream&, uint32_t ).
Fill == /\ op \in {"zfill", "stream"}
        /\ LET n == Least(chunk, Len(data))
           IN  /\ m_map' = [m_map EXCEPT ![MapKey(addr)] =
                              Store(getpage(addr), start, n)]
               /\ data' = SubSeq(data, n + 1, Len(data))
               /\ Advance(n, n = Len(data))
        /\ start' = 0 /\ chunk' = PageSize
        /\ UNCHANGED <<size, got>>

\* read( uint32_t, uint8_t*, uint32_t ), not const: a missing page is made.
Read == /\ op = "read"
        /\ LET n == SubChunk(addr, size)
           IN  /\ m_map' = [m_map EXCEPT ![MapKey(addr)] = getpage(addr)]
               /\ got' = got \o Load(getpage(addr)[1], Offset(addr), n)
               /\ size' = size - n
               /\ Advance(n, n = size)
        /\ UNCHANGED <<data, start, chunk>>

\* The same, const.
ReadConst == /\ op = "constread" /\ Present(addr)
             /\ LET n == SubChunk(addr, size)
                IN  /\ got' = got \o Load(Getpage(addr), Offset(addr), n)
                    /\ size' = size - n
                    /\ Advance(n, n = size)
             /\ UNCHANGED <<m_map, data, start, chunk>>

\* read( uint32_t, std::string& ): up to a zero, or to the end of the page.
ReadString ==
  /\ op = "string" /\ Present(addr)
  /\ \E end \in Offset(addr) .. PageSize :
       /\ \A i \in Offset(addr) .. end - 1 : Getpage(addr).storage[i] # 0
       /\ end < PageSize => Getpage(addr).storage[end] = 0
       /\ got' = got \o Load(Getpage(addr), Offset(addr), end - Offset(addr))
       /\ Advance(end - Offset(addr), end < PageSize)
  /\ UNCHANGED <<m_map, data, size, start, chunk>>

\* getpage throws: the access is abandoned where it is.
AccessError == /\ op \in {"constread", "string"} /\ ~ Present(addr)
               /\ op' = "idle" /\ outcome' = "AccessError"
               /\ addr' = 0 /\ size' = 0
               /\ UNCHANGED <<m_map, data, start, chunk, got>>

Next == \/ Begin \/ Write \/ Fill \/ Read \/ ReadConst \/ ReadString \/ AccessError

Spec == Init /\ [][Next]_vars

-----------------------------------------------------------------------------
(* Properties.                                                             *)

TypeOK ==
  /\ m_map \in [Key -> Seq(Page)]
  /\ op \in {"idle", "write", "zfill", "stream", "read", "constread", "string"}
  /\ addr \in Addr
  /\ data \in Seq(Byte \union {none})
  /\ size \in 0 .. MaxSize
  /\ start \in 0 .. PageSize - 1
  /\ chunk \in 1 .. PageSize
  /\ got \in Seq(Byte)
  /\ outcome \in {"done", "AccessError"}

\* A page is in the chain of its key, and once: neither making the pages nor
\* moving them to the front while they are looked up ever duplicates one.
Chained ==
  \A k \in Key : \A n \in DOMAIN m_map[k] :
    /\ m_map[k][n].index % MapSize = k
    /\ \A j \in DOMAIN m_map[k] : m_map[k][j].index = m_map[k][n].index => j = n

\* The memory that the accesses see.
Content == [a \in Addr |-> IF Present(a) THEN Getpage(a).storage[Offset(a)] ELSE 0]
Used == {i \in 0 .. Pages - 1 : Present(i * PageSize)}

Memory == INSTANCE FlatMemory WITH mem <- Content, used <- Used

\* Whatever the chains have become, and wherever accesses are cut, the table
\* is an array of bytes: an access reads and writes the bytes it was asked
\* for, across pages and the end of the address space, and no other, and
\* fails only at a page that no access has made.
Flat == Memory!Spec
==============================================================================
