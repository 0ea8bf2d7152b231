---------------------------- MODULE MemoryProofs -----------------------------
(***************************************************************************)
(* Proofs about Memory.tla, for any size of page, of table and of address  *)
(* space.  The invariant Inv adds to the types and to Chained that the     *)
(* running values of zfill are those that the other accesses compute, and  *)
(* that an access in progress has something left to do.  The theorem of    *)
(* the module, Implementation, says that the table is a flat memory; most  *)
(* of its proof is about what a chain holds after getpage.                 *)
(***************************************************************************)
EXTENDS Memory, TLAPS, SequenceTheorems

-----------------------------------------------------------------------------
(* Division.                                                               *)

LEMMA Multiple == ASSUME NEW p \in Nat, NEW k \in Int, k >= 1 PROVE p * k >= p
<1>1. p * k = p * (k - 1) + p
  OBVIOUS
<1>2. p * (k - 1) >= 0
  OBVIOUS
<1> QED BY <1>1, <1>2

LEMMA Division ==
  ASSUME NEW p \in Nat \ {0}, NEW a \in Nat
  PROVE  a = p * (a \div p) + (a % p) /\ a % p \in 0 .. p - 1 /\ a \div p \in Nat
  OBVIOUS

LEMMA DivisionUnique ==
  ASSUME NEW p \in Nat \ {0}, NEW q \in Int, NEW r \in 0 .. p - 1,
         NEW d \in Int, NEW m \in 0 .. p - 1, p * q + r = p * d + m
  PROVE  q = d /\ r = m
<1>1. CASE q > d
  <2>1. p * (q - d) >= p
    BY <1>1, Multiple
  <2>2. p * (q - d) = p * q - p * d
    OBVIOUS
  <2> QED BY <2>1, <2>2
<1>2. CASE d > q
  <2>1. p * (d - q) >= p
    BY <1>2, Multiple
  <2>2. p * (d - q) = p * d - p * q
    OBVIOUS
  <2> QED BY <2>1, <2>2
<1> QED BY <1>1, <1>2

\* How Index and Offset see an address.
LEMMA Located ==
  ASSUME NEW a \in Addr
  PROVE  /\ Index(a) \in 0 .. Pages - 1
         /\ Offset(a) \in 0 .. PageSize - 1
         /\ a = PageSize * Index(a) + Offset(a)
         /\ MapKey(a) \in Key
<1> USE SizeAssumption
<1>1. Space \in Nat /\ a \in Nat /\ a < Space
  BY DEF Space, Addr
<1>2. /\ a = PageSize * Index(a) + Offset(a)
      /\ Offset(a) \in 0 .. PageSize - 1 /\ Index(a) \in Nat
  BY <1>1, Division DEF Index, Offset
<1>3. Index(a) < Pages
  <2> SUFFICES ASSUME Index(a) >= Pages PROVE FALSE
    BY <1>2
  <2>1. PageSize * (Index(a) - Pages) >= 0
    BY <1>2
  <2>2. PageSize * (Index(a) - Pages) = PageSize * Index(a) - Space
    BY <1>2 DEF Space
  <2> QED BY <2>1, <2>2, <1>1, <1>2
<1>4. MapKey(a) \in Key
  BY <1>2, Division DEF MapKey, Key
<1> QED BY <1>2, <1>3, <1>4

\* An address is determined by its page and its offset in it.
LEMMA Composed ==
  ASSUME NEW i \in 0 .. Pages - 1, NEW o \in 0 .. PageSize - 1
  PROVE  LET a == PageSize * i + o
         IN  a \in Addr /\ Index(a) = i /\ Offset(a) = o
<1> USE SizeAssumption
<1> DEFINE a == PageSize * i + o
<1>1. PageSize * i \in Nat
  OBVIOUS
<1>2. PageSize * (Pages - 1 - i) >= 0
  OBVIOUS
<1>3. PageSize * (Pages - 1 - i) = Space - PageSize - PageSize * i
  BY DEF Space
<1>4. a \in Addr
  BY <1>1, <1>2, <1>3 DEF Addr, Space
<1>5. Index(a) = i /\ Offset(a) = o
  <2>1. /\ a = PageSize * Index(a) + Offset(a)
        /\ Index(a) \in 0 .. Pages - 1 /\ Offset(a) \in 0 .. PageSize - 1
    BY <1>4, Located
  <2> QED BY <2>1, DivisionUnique
<1> QED BY <1>4, <1>5

\* The addresses of a chunk are in its page, and what follows it is in the
\* address space, at the start of a page if the chunk ends its page.
LEMMA InChunk ==
  ASSUME NEW a \in Addr, NEW n \in Nat, Offset(a) + n <= PageSize
  PROVE  /\ \A i \in 0 .. n - 1 : /\ a + i \in Addr /\ Add(a, i) = a + i
                                  /\ Index(a + i) = Index(a)
                                  /\ Offset(a + i) = Offset(a) + i
         /\ a + n <= Space
         /\ Add(a, n) \in Addr
         /\ Offset(a) + n = PageSize => Offset(Add(a, n)) = 0
<1> USE SizeAssumption
<1>1. /\ Index(a) \in 0 .. Pages - 1 /\ Offset(a) \in 0 .. PageSize - 1
      /\ a = PageSize * Index(a) + Offset(a) /\ Space \in Nat \ {0}
      /\ a \in Nat /\ a < Space
  <2>1. Pages * PageSize >= Pages
    BY Multiple
  <2>2. Space \in Nat \ {0}
    BY <2>1 DEF Space
  <2> QED BY <2>2, Located DEF Addr
<1>0. Index(a) \in 0 .. Pages - 1 /\ Offset(a) \in 0 .. PageSize - 1
  BY <1>1
<1>2. ASSUME NEW b \in Addr PROVE b % Space = b
  <2>0. Space \in Nat \ {0} /\ b \in Nat
    BY <1>1 DEF Addr
  <2>1. b = Space * (b \div Space) + (b % Space) /\ b % Space \in 0 .. Space - 1
        /\ b \div Space \in Nat
    BY <2>0, Division
  <2>2. Space * 0 + b = Space * (b \div Space) + (b % Space)
        /\ b \in 0 .. Space - 1 /\ 0 \in Int /\ b \div Space \in Int
    BY <1>1, <2>1 DEF Addr
  <2>3. b = b % Space
    BY <2>1, <2>2, <1>1, DivisionUnique
  <2> QED BY <2>3
<1>3. ASSUME NEW i \in 0 .. n - 1
      PROVE  /\ a + i \in Addr /\ Add(a, i) = a + i
             /\ Index(a + i) = Index(a) /\ Offset(a + i) = Offset(a) + i
  <2>1. Offset(a) + i \in 0 .. PageSize - 1
    BY <1>1
  <2>2. a + i = PageSize * Index(a) + (Offset(a) + i)
    BY <1>1
  <2> QED BY <2>1, <2>2, <1>1, <1>2, Composed DEF Add
<1>4. CASE Offset(a) + n < PageSize
  <2>1. a + n = PageSize * Index(a) + (Offset(a) + n)
    BY <1>1
  <2>2. a + n \in Addr
    BY <2>1, <1>1, <1>4, Composed
  <2> QED BY <1>1, <1>2, <1>3, <2>2, <1>4 DEF Add, Addr
<1>5. CASE Offset(a) + n = PageSize /\ Index(a) < Pages - 1
  <2>1. a + n = PageSize * (Index(a) + 1) + 0
    BY <1>1, <1>5
  <2>2. a + n \in Addr /\ Offset(a + n) = 0
    BY <2>1, <1>1, <1>5, Composed
  <2> QED BY <1>1, <1>2, <1>3, <2>2 DEF Add, Addr
<1>6. CASE Offset(a) + n = PageSize /\ Index(a) = Pages - 1
  <2>1. a + n = Space
    BY <1>1, <1>6 DEF Space
  <2>2. Space % Space = 0
    <3>1. /\ Space = Space * (Space \div Space) + (Space % Space)
          /\ Space % Space \in 0 .. Space - 1 /\ Space \div Space \in Nat
      BY <1>1, Division
    <3>2. Space = Space * 1 + 0 /\ 0 \in 0 .. Space - 1
      BY <1>1
    <3> QED BY <3>1, <3>2, <1>1, DivisionUnique
  <2>3. 0 \in Addr /\ Offset(0) = 0
    <3>1. PageSize * 0 + 0 \in Addr /\ Offset(PageSize * 0 + 0) = 0
      BY Composed
    <3>2. PageSize * 0 + 0 = 0
      OBVIOUS
    <3> QED BY <3>1, <3>2
  <2>4. Add(a, n) = 0
    BY <2>1, <2>2 DEF Add
  <2>5. Space <= Space
    BY <1>1
  <2> QED BY <2>1, <2>3, <2>4, <2>5, <1>3, <1>6
<1>7. Offset(a) + n < PageSize \/ Offset(a) + n = PageSize
  BY <1>0
<1>8. Index(a) < Pages - 1 \/ Index(a) = Pages - 1
  BY <1>0
<1> QED BY <1>4, <1>5, <1>6, <1>7, <1>8

-----------------------------------------------------------------------------
(* Chains.                                                                 *)

Storage == [0 .. PageSize - 1 -> Byte]

\* A chain of key k as Chained wants it, and that it holds page i as st.
Chain(c, k) == /\ c \in Seq(Page)
               /\ \A n \in DOMAIN c :
                    /\ c[n].index % MapSize = k
                    /\ \A j \in DOMAIN c : c[j].index = c[n].index => j = n
Holds(c, i, st) == \E n \in DOMAIN c : c[n].index = i /\ c[n].storage = st

\* Moving a page to the front changes its place only.
LEMMA FrontMoves ==
  ASSUME NEW c, NEW k, Chain(c, k), NEW n \in DOMAIN c
  PROVE  /\ Chain(Front(c, n), k) /\ Front(c, n) # <<>> /\ Front(c, n)[1] = c[n]
         /\ \A i, st : Holds(Front(c, n), i, st) <=> Holds(c, i, st)
<1> DEFINE f == Front(c, n)
<1>1. c \in Seq(Page) /\ DOMAIN c = 1 .. Len(c) /\ Len(c) \in Nat /\ n \in 1 .. Len(c)
  BY DEF Chain
<1>2. /\ f \in Seq(Page) /\ DOMAIN f = DOMAIN c /\ Len(f) = Len(c)
      /\ \A m \in DOMAIN c : f[m] = IF m = 1 THEN c[n]
                                   ELSE IF m <= n THEN c[m - 1] ELSE c[m]
  BY <1>1 DEF Front
<1> HIDE DEF f
\* Where an element of f comes from, and where one of c goes.
<1> DEFINE from(m) == IF m = 1 THEN n ELSE IF m <= n THEN m - 1 ELSE m
           to(m) == IF m = n THEN 1 ELSE IF m < n THEN m + 1 ELSE m
<1>3. \A m \in DOMAIN c : from(m) \in DOMAIN c /\ f[m] = c[from(m)]
                          /\ to(m) \in DOMAIN c /\ f[to(m)] = c[m]
  BY <1>1, <1>2
<1>4. \A m, j \in DOMAIN c : from(m) = from(j) => m = j
  BY <1>1
<1> HIDE DEF from, to
<1>5. Chain(f, k)
  BY <1>2, <1>3, <1>4 DEF Chain
<1>6. ASSUME NEW i, NEW st PROVE Holds(f, i, st) <=> Holds(c, i, st)
  <2>1. ASSUME Holds(f, i, st) PROVE Holds(c, i, st)
    <3>1. PICK m \in DOMAIN f : f[m].index = i /\ f[m].storage = st
      BY <2>1 DEF Holds
    <3>2. from(m) \in DOMAIN c /\ c[from(m)] = f[m]
      BY <1>2, <1>3
    <3> QED BY <3>1, <3>2 DEF Holds
  <2>2. ASSUME Holds(c, i, st) PROVE Holds(f, i, st)
    <3>1. PICK m \in DOMAIN c : c[m].index = i /\ c[m].storage = st
      BY <2>2 DEF Holds
    <3>2. to(m) \in DOMAIN f /\ f[to(m)] = c[m]
      BY <1>2, <1>3
    <3> QED BY <3>1, <3>2 DEF Holds
  <2> QED BY <2>1, <2>2
<1>7. f # <<>> /\ f[1] = c[n]
  BY <1>1, <1>2
<1> QED BY <1>5, <1>6, <1>7 DEF f

\* Adding a page that a chain does not have.
LEMMA Added ==
  ASSUME NEW c, NEW k, Chain(c, k), NEW p \in Page, p.index % MapSize = k,
         \A n \in DOMAIN c : c[n].index # p.index
  PROVE  /\ Chain(<<p>> \o c, k) /\ <<p>> \o c # <<>> /\ (<<p>> \o c)[1] = p
         /\ \A i, st : Holds(<<p>> \o c, i, st) <=>
                        (Holds(c, i, st) \/ (p.index = i /\ p.storage = st))
<1> DEFINE f == <<p>> \o c
<1>1. c \in Seq(Page) /\ DOMAIN c = 1 .. Len(c) /\ Len(c) \in Nat
  BY DEF Chain
<1>2. /\ f \in Seq(Page) /\ Len(f) = Len(c) + 1 /\ DOMAIN f = 1 .. Len(c) + 1
      /\ f[1] = p /\ \A m \in 1 .. Len(c) : f[m + 1] = c[m]
  BY <1>1
<1> HIDE DEF f
<1>3. \A m \in DOMAIN f : m = 1 \/ (m - 1 \in DOMAIN c /\ f[m] = c[m - 1])
  <2> SUFFICES ASSUME NEW m \in DOMAIN f, m # 1
               PROVE  m - 1 \in DOMAIN c /\ f[m] = c[m - 1]
    OBVIOUS
  <2>1. m - 1 \in 1 .. Len(c) /\ (m - 1) + 1 = m
    BY <1>1, <1>2
  <2> QED BY <2>1, <1>1, <1>2
<1>4. Chain(f, k)
  <2> SUFFICES ASSUME NEW n \in DOMAIN f
               PROVE  /\ f[n].index % MapSize = k
                      /\ \A j \in DOMAIN f : f[j].index = f[n].index => j = n
    BY <1>2 DEF Chain
  <2>1. f[n].index % MapSize = k
    BY <1>2, <1>3 DEF Chain
  <2>2. ASSUME NEW j \in DOMAIN f, f[j].index = f[n].index PROVE j = n
    <3>1. CASE n = 1 \/ j = 1
      BY <3>1, <2>2, <1>2, <1>3
    <3>2. CASE n # 1 /\ j # 1
      <4>1. n - 1 = j - 1
        BY <3>2, <2>2, <1>3 DEF Chain
      <4> QED BY <4>1, <1>2, <1>1
    <3> QED BY <3>1, <3>2
  <2> QED BY <2>1, <2>2
<1>5. \A i, st : Holds(f, i, st) <=> (Holds(c, i, st) \/ (p.index = i /\ p.storage = st))
  <2> SUFFICES ASSUME NEW i, NEW st
               PROVE  Holds(f, i, st) <=> (Holds(c, i, st) \/ (p.index = i /\ p.storage = st))
    OBVIOUS
  <2>1. \A m \in DOMAIN c : m + 1 \in DOMAIN f /\ f[m + 1] = c[m]
    BY <1>1, <1>2
  <2>2. 1 \in DOMAIN f /\ f[1] = p
    BY <1>1, <1>2
  <2>3. Holds(c, i, st) => Holds(f, i, st)
    BY <2>1 DEF Holds
  <2> QED BY <2>2, <2>3, <1>3 DEF Holds
<1>6. f # <<>>
  BY <1>1, <1>2
<1> QED BY <1>2, <1>4, <1>5, <1>6 DEF f

\* What a chain holds for a page is unique.
LEMMA HoldsOne ==
  ASSUME NEW c, NEW k, Chain(c, k), NEW i, NEW st, Holds(c, i, st),
         NEW su, Holds(c, i, su)
  PROVE  st = su
  BY DEF Chain, Holds

-----------------------------------------------------------------------------
(* The table.                                                              *)

Table == m_map \in [Key -> Seq(Page)]

LEMMA TableChain ==
  ASSUME Table, Chained, NEW a \in Addr
  PROVE  Chain(m_map[MapKey(a)], MapKey(a))
  BY Located DEF Table, Chained, Chain

\* What Content says of an address, by what its chain holds.
Seen ==
  (Table /\ Chained) =>
    \A a \in Addr :
      LET c == m_map[MapKey(a)] IN
      /\ Present(a) => /\ Position(a) \in DOMAIN c /\ Getpage(a) \in Page
                       /\ Getpage(a) = c[Position(a)]
                       /\ Getpage(a).index = Index(a)
                       /\ Holds(c, Index(a), Getpage(a).storage)
      /\ \A st : Holds(c, Index(a), st) =>
           Present(a) /\ Getpage(a).storage = st

LEMMA AlwaysSeen == Seen
<1> SUFFICES ASSUME Table, Chained, NEW a \in Addr
    PROVE  LET c == m_map[MapKey(a)] IN
           /\ Present(a) => /\ Position(a) \in DOMAIN c /\ Getpage(a) \in Page
                            /\ Getpage(a) = c[Position(a)]
                            /\ Getpage(a).index = Index(a)
                            /\ Holds(c, Index(a), Getpage(a).storage)
           /\ \A st : Holds(c, Index(a), st) =>
                Present(a) /\ Getpage(a).storage = st
  BY DEF Seen
<1> DEFINE c == m_map[MapKey(a)]
<1>1. Chain(c, MapKey(a)) /\ c \in Seq(Page) /\ DOMAIN c = 1 .. Len(c) /\ Len(c) \in Nat
  BY TableChain DEF Chain
<1>2. \A n \in DOMAIN c : At(a, n) <=> c[n].index = Index(a)
  BY DEF At
<1>3. ASSUME Present(a)
      PROVE  /\ Position(a) \in DOMAIN c /\ c[Position(a)].index = Index(a)
             /\ Getpage(a) = c[Position(a)]
  <2>1. PICK n \in DOMAIN c : At(a, n)
    BY <1>3 DEF Present
  <2>2. \A k \in 1 .. n - 1 : ~ At(a, k)
    <3> SUFFICES ASSUME NEW k \in 1 .. n - 1, At(a, k) PROVE FALSE
      OBVIOUS
    <3>1. k \in DOMAIN c
      BY <1>1
    <3>2. c[k].index = c[n].index
      BY <3>1, <2>1, <1>2
    <3> QED BY <3>1, <3>2, <1>1 DEF Chain
  <2>3. Position(a) \in DOMAIN c /\ At(a, Position(a))
    BY <2>1, <2>2 DEF Position
  <2> QED BY <2>3, <1>2 DEF Getpage
<1>4. ASSUME Present(a)
      PROVE  Getpage(a) \in Page /\ Holds(c, Index(a), Getpage(a).storage)
  BY <1>3, <1>4, <1>1 DEF Holds
<1>5. ASSUME NEW st, Holds(c, Index(a), st)
      PROVE  Present(a) /\ Getpage(a).storage = st
  <2>1. Present(a)
    BY <1>5, <1>2 DEF Holds, Present
  <2> QED BY <2>1, <1>4, <1>5, <1>1, HoldsOne
<1> QED BY <1>3, <1>4, <1>5

\* After getpage the page of a is the first of its chain, with the bytes it
\* had or with zeros, and no other page of the chain has changed.
LEMMA Got ==
  ASSUME Table, Chained, NEW a \in Addr
  PROVE  LET c == m_map[MapKey(a)]
             f == getpage(a)
         IN  /\ Chain(f, MapKey(a)) /\ f # <<>> /\ f[1] \in Page
             /\ f[1].index = Index(a)
             /\ f[1].storage = IF Present(a) THEN Getpage(a).storage
                               ELSE [o \in 0 .. PageSize - 1 |-> 0]
             /\ \A i, st : i # Index(a) => (Holds(f, i, st) <=> Holds(c, i, st))
<1> DEFINE c == m_map[MapKey(a)]
           f == getpage(a)
           new == [index |-> Index(a), storage |-> [o \in 0 .. PageSize - 1 |-> 0]]
<1>1. Chain(c, MapKey(a))
  BY TableChain
<1>2. CASE Present(a)
  <2>1. Position(a) \in DOMAIN c /\ Getpage(a) = c[Position(a)]
        /\ Getpage(a) \in Page /\ Getpage(a).index = Index(a)
    BY <1>2, AlwaysSeen DEF Seen
  <2>2. f = Front(c, Position(a))
    BY <1>2 DEF getpage
  <2> QED BY <1>1, <1>2, <2>1, <2>2, FrontMoves
<1>3. CASE ~ Present(a)
  <2>1. f = <<new>> \o c
    BY <1>3 DEF getpage
  <2>2. new \in Page
    BY Located, ByteAssumption DEF Page
  <2>3. new.index % MapSize = MapKey(a)
    BY DEF MapKey
  <2>4. \A n \in DOMAIN c : c[n].index # new.index
    BY <1>3 DEF Present, At
  <2>5. /\ Chain(f, MapKey(a)) /\ f # <<>> /\ f[1] = new
        /\ \A i, st : Holds(f, i, st) <=>
                       (Holds(c, i, st) \/ (new.index = i /\ new.storage = st))
    <3> HIDE DEF new, c
    <3>1. /\ Chain(<<new>> \o c, MapKey(a)) /\ <<new>> \o c # <<>>
          /\ (<<new>> \o c)[1] = new
          /\ \A i, st : Holds(<<new>> \o c, i, st) <=>
                         (Holds(c, i, st) \/ (new.index = i /\ new.storage = st))
      BY <1>1, <2>2, <2>3, <2>4, Added
    <3> QED BY <2>1, <3>1
  <2>6. new.index = Index(a) /\ new.storage = [o \in 0 .. PageSize - 1 |-> 0]
    OBVIOUS
  <2> HIDE DEF new, f
  <2>7. \A i, st : i # Index(a) => (Holds(f, i, st) <=> Holds(c, i, st))
    BY <2>5, <2>6
  <2> QED BY <1>3, <2>2, <2>5, <2>6, <2>7 DEF f
<1> QED BY <1>2, <1>3

\* What becomes of the memory when chain c, whose first page is that of a,
\* takes the place of one that had the same other pages.
LEMMA Replaced ==
  ASSUME Table, Chained, NEW a \in Addr, NEW c,
         Chain(c, MapKey(a)), c # <<>>, c[1] \in Page, c[1].index = Index(a),
         \A i, st : i # Index(a) => (Holds(c, i, st) <=> Holds(m_map[MapKey(a)], i, st)),
         m_map' = [m_map EXCEPT ![MapKey(a)] = c]
  PROVE  /\ Table' /\ Chained'
         /\ \A b \in Addr : Present(b)' <=> (Present(b) \/ Index(b) = Index(a))
         /\ Content' = [b \in Addr |-> IF Index(b) = Index(a)
                                        THEN c[1].storage[Offset(b)] ELSE Content[b]]
<1>1. /\ m_map' \in [Key -> Seq(Page)] /\ m_map \in [Key -> Seq(Page)]
      /\ MapKey(a) \in Key /\ m_map'[MapKey(a)] = c
      /\ \A k \in Key : k # MapKey(a) => m_map'[k] = m_map[k]
  <2>1. c \in Seq(Page)
    BY DEF Chain
  <2> QED BY <2>1, Located DEF Table
<1>2. Chained'
  BY <1>1 DEF Chained, Chain
<1>3. Seen' /\ Table'
  <2>1. Seen'
    BY AlwaysSeen, PTL
  <2> QED BY <1>1, <2>1 DEF Table
<1>4. ASSUME NEW b \in Addr, Index(b) = Index(a)
      PROVE  Present(b)' /\ Getpage(b)'.storage = c[1].storage
  <2>1. MapKey(b) = MapKey(a)
    BY <1>4 DEF MapKey
  <2>2. c \in Seq(Page) /\ 1 \in DOMAIN c
    BY DEF Chain
  <2>3. Holds(m_map'[MapKey(b)], Index(b), c[1].storage)
    BY <1>1, <1>4, <2>1, <2>2 DEF Holds
  <2> QED BY <1>2, <1>3, <2>3 DEF Seen
<1>5. ASSUME NEW b \in Addr, Index(b) # Index(a)
      PROVE  /\ Present(b)' <=> Present(b)
             /\ Present(b) => Getpage(b)'.storage = Getpage(b).storage
  <2>1. \A st : Holds(m_map'[MapKey(b)], Index(b), st) <=>
               Holds(m_map[MapKey(b)], Index(b), st)
    BY <1>1, <1>5, Located
  <2>2. \A st : Holds(m_map[MapKey(b)], Index(b), st) =>
               Present(b) /\ Getpage(b).storage = st
    BY AlwaysSeen DEF Seen
  <2>3. Present(b) => Holds(m_map[MapKey(b)], Index(b), Getpage(b).storage)
    BY AlwaysSeen DEF Seen
  <2>4. \A st : Holds(m_map'[MapKey(b)], Index(b), st) =>
               Present(b)' /\ Getpage(b)'.storage = st
    BY <1>2, <1>3 DEF Seen
  <2>5. Present(b)' => Holds(m_map'[MapKey(b)], Index(b), Getpage(b)'.storage)
    BY <1>2, <1>3 DEF Seen
  <2> QED BY <2>1, <2>2, <2>3, <2>4, <2>5
<1>6. \A b \in Addr : Present(b)' <=> (Present(b) \/ Index(b) = Index(a))
  BY <1>4, <1>5
<1>7. Content' = [b \in Addr |-> IF Index(b) = Index(a)
                                 THEN c[1].storage[Offset(b)] ELSE Content[b]]
  BY <1>4, <1>5 DEF Content
<1> QED BY <1>2, <1>3, <1>6, <1>7

-----------------------------------------------------------------------------
(* The inductive invariant.                                                *)

Filling == op \in {"zfill", "stream"} => start = Offset(addr) /\ chunk = PageSize - start

Busy == /\ op \in {"write", "zfill", "stream"} => data # <<>>
        /\ op \in {"read", "constread"} => size > 0

Inv == TypeOK /\ Chained /\ Filling /\ Busy

\* The size of a chunk.
LEMMA ChunkSize ==
  ASSUME NEW a \in Addr, NEW left \in Nat, left > 0
  PROVE  LET n == SubChunk(a, left)
         IN  /\ n \in 1 .. left /\ Offset(a) + n <= PageSize
             /\ n # left => Offset(a) + n = PageSize
<1>1. Offset(a) \in 0 .. PageSize - 1 /\ PageSize \in Nat
  BY Located, SizeAssumption
<1> QED BY <1>1 DEF SubChunk, Least

\* Where an access is after a chunk.
LEMMA Advanced ==
  ASSUME addr \in Addr, NEW n \in Nat, Offset(addr) + n <= PageSize,
         addr' \in {0, Add(addr, n)}
  PROVE  /\ addr' \in Addr
         /\ Offset(addr) + n = PageSize => Offset(addr') = 0
<1>2. Add(addr, n) \in Addr /\ (Offset(addr) + n = PageSize => Offset(Add(addr, n)) = 0)
  BY InChunk
<1>3. 0 \in Addr /\ Offset(0) = 0
  <2>1. PageSize * 0 + 0 \in Addr /\ Offset(PageSize * 0 + 0) = 0
    BY Composed, SizeAssumption
  <2>2. PageSize * 0 + 0 = 0
    BY SizeAssumption
  <2> QED BY <2>1, <2>2
<1> QED BY <1>2, <1>3

\* What is left of a sequence.
LEMMA Rest ==
  ASSUME NEW S, NEW d \in Seq(S), NEW n \in 1 .. Len(d)
  PROVE  /\ SubSeq(d, n + 1, Len(d)) \in Seq(S)
         /\ n # Len(d) => SubSeq(d, n + 1, Len(d)) # <<>>
<1>0. /\ \A i \in n + 1 .. Len(d) : d[i] \in S
      /\ n + 1 \in Int /\ Len(d) \in Int
  OBVIOUS
<1>1. SubSeq(d, n + 1, Len(d)) \in Seq(S) /\ Len(SubSeq(d, n + 1, Len(d))) = Len(d) - n
  <2>1. /\ SubSeq(d, n + 1, Len(d)) \in Seq(S)
        /\ Len(SubSeq(d, n + 1, Len(d)))
             = IF n + 1 <= Len(d) THEN Len(d) - (n + 1) + 1 ELSE 0
    BY <1>0, SubSeqProperties
  <2> DEFINE r == SubSeq(d, n + 1, Len(d))
             l == Len(d)
  <2>2. r \in Seq(S) /\ Len(r) = (IF n + 1 <= l THEN l - (n + 1) + 1 ELSE 0)
    BY <2>1
  <2>3. l \in Int /\ n \in 1 .. l
    BY <1>0
  <2> HIDE DEF r, l
  <2>4. r \in Seq(S) /\ Len(r) = l - n
    BY <2>2, <2>3
  <2> QED BY <2>4 DEF r, l
<1> DEFINE r == SubSeq(d, n + 1, Len(d))
<1>2. r \in Seq(S) /\ (n # Len(d) => Len(r) # 0)
  BY <1>1
<1> HIDE DEF r
<1>3. n # Len(d) => r # <<>>
  BY <1>2
<1> QED BY <1>2, <1>3 DEF r

\* The first page of a chain with n bytes more.
LEMMA Stored ==
  ASSUME NEW c, NEW k, Chain(c, k), c # <<>>, c[1] \in Page,
         data \in Seq(Byte \union {none}), NEW o \in 0 .. PageSize - 1,
         NEW n \in 1 .. Len(data), o + n <= PageSize
  PROVE  LET f == Store(c, o, n)
         IN  /\ Chain(f, k) /\ f # <<>> /\ f[1] \in Page /\ f[1].index = c[1].index
             /\ f[1].storage = [i \in 0 .. PageSize - 1 |->
                   IF i \in o .. o + n - 1 /\ data[i - o + 1] # none
                     THEN data[i - o + 1] ELSE c[1].storage[i]]
             /\ \A i, st : i # c[1].index => (Holds(f, i, st) <=> Holds(c, i, st))
<1> DEFINE st1 == [i \in 0 .. PageSize - 1 |->
                     IF i \in o .. o + n - 1 /\ data[i - o + 1] # none
                       THEN data[i - o + 1] ELSE c[1].storage[i]]
           f == Store(c, o, n)
<1>1. c \in Seq(Page) /\ DOMAIN c = 1 .. Len(c) /\ Len(c) \in Nat /\ 1 \in DOMAIN c
  BY DEF Chain
<1>2. ASSUME NEW i \in 0 .. PageSize - 1
      PROVE  (IF i \in o .. o + n - 1 /\ data[i - o + 1] # none
                THEN data[i - o + 1] ELSE c[1].storage[i]) \in Byte
  <2>1. CASE i \in o .. o + n - 1
    <3>1. i - o + 1 \in 1 .. Len(data)
      BY <2>1, SizeAssumption
    <3>2. data[i - o + 1] \in Byte \union {none}
      BY <3>1
    <3> QED BY <2>1, <3>2, <1>1 DEF Page
  <2>2. CASE i \notin o .. o + n - 1
    BY <2>2, <1>1 DEF Page
  <2> QED BY <2>1, <2>2
<1>3. st1 \in Storage
  BY <1>2 DEF Storage
<1>4. f = [c EXCEPT ![1].storage = st1]
  BY DEF Store
<1> HIDE DEF st1, f
<1>5. /\ f \in Seq(Page) /\ DOMAIN f = DOMAIN c
      /\ f[1].index = c[1].index /\ f[1].storage = st1 /\ f[1] \in Page
      /\ \A m \in DOMAIN c : m # 1 => f[m] = c[m]
  BY <1>1, <1>3, <1>4 DEF Page, Storage
<1>6. \A m \in DOMAIN c : f[m].index = c[m].index
  BY <1>5
<1>7. Chain(f, k)
  BY <1>5, <1>6 DEF Chain
<1>8. \A i, st : i # c[1].index => (Holds(f, i, st) <=> Holds(c, i, st))
  BY <1>5, <1>6 DEF Holds
<1>9. f # <<>>
  BY <1>1, <1>5
<1> QED BY <1>5, <1>7, <1>8, <1>9 DEF f, st1

\* The distance of two addresses, modulo the address space.
LEMMA Distance ==
  ASSUME NEW a \in Addr, NEW b \in Addr
  PROVE  (b - a) % Space = IF b >= a THEN b - a ELSE (b - a) + Space
<1> DEFINE d == IF b >= a THEN b - a ELSE (b - a) + Space
<1>1. Space \in Nat \ {0}
  <2>1. Pages * PageSize >= Pages
    BY Multiple, SizeAssumption
  <2> QED BY <2>1, SizeAssumption DEF Space
<1>2. d \in 0 .. Space - 1
  BY <1>1 DEF Addr
<1>3. /\ b - a = Space * ((b - a) \div Space) + ((b - a) % Space)
      /\ (b - a) % Space \in 0 .. Space - 1 /\ (b - a) \div Space \in Int
  BY <1>1 DEF Addr
<1> DEFINE q == (b - a) \div Space
           m == (b - a) % Space
<1>4. \E k \in Int : Space * k + d = Space * q + m
  <2>1. CASE b >= a
    <3>1. Space * 0 + d = Space * q + m
      BY <1>1, <1>3, <2>1 DEF Addr
    <3> QED BY <3>1
  <2>2. CASE ~ (b >= a)
    <3>1. Space * (-1) + d = Space * q + m
      BY <1>1, <1>3, <2>2 DEF Addr
    <3> QED BY <3>1
  <2> QED BY <2>1, <2>2
<1>5. q \in Int /\ m \in 0 .. Space - 1
  BY <1>3
<1> HIDE DEF d, q, m
<1>6. d = m
  BY <1>1, <1>2, <1>4, <1>5, DivisionUnique
<1> QED BY <1>6 DEF d, m

\* Which bytes a chunk is about.
LEMMA ChunkBytes ==
  ASSUME NEW a \in Addr, NEW n \in Nat, n > 0, Offset(a) + n <= PageSize, NEW b \in Addr
  PROVE  LET i == ((b - a) % Space) + 1
         IN  /\ i \in Nat \ {0}
             /\ i <= n <=> (Index(b) = Index(a) /\ Offset(b) \in Offset(a) .. Offset(a) + n - 1)
             /\ i <= n => i = Offset(b) - Offset(a) + 1
<1> DEFINE d == (b - a) % Space
<1>1. /\ Offset(a) \in 0 .. PageSize - 1 /\ Offset(b) \in 0 .. PageSize - 1
      /\ PageSize \in Nat
  BY Located, SizeAssumption
<1>2. a \in Nat /\ b \in Nat /\ a < Space /\ b < Space /\ Space \in Nat
  BY SizeAssumption DEF Addr, Space
<1>3. a + n <= Space /\ \A k \in 0 .. n - 1 : /\ Index(a + k) = Index(a)
                                           /\ Offset(a + k) = Offset(a) + k
  BY InChunk
<1>4. d = IF b >= a THEN b - a ELSE (b - a) + Space
  BY Distance
<1>5. d \in Nat
  BY <1>2, <1>4
<1> HIDE DEF d
<1>6. ASSUME d + 1 <= n
      PROVE  /\ Index(b) = Index(a) /\ Offset(b) \in Offset(a) .. Offset(a) + n - 1
             /\ d + 1 = Offset(b) - Offset(a) + 1
  <2>1. b >= a /\ d = b - a
    BY <1>2, <1>3, <1>4, <1>6
  <2>2. d \in 0 .. n - 1 /\ b = a + d
    BY <2>1, <1>2, <1>5, <1>6
  <2>3. Index(b) = Index(a) /\ Offset(b) = Offset(a) + d
    BY <2>2, <1>3
  <2> QED BY <2>2, <2>3, <1>1
<1>7. ASSUME Index(b) = Index(a), Offset(b) \in Offset(a) .. Offset(a) + n - 1
      PROVE  d + 1 <= n
  <2>1. b - a = Offset(b) - Offset(a)
    <3>1. a = PageSize * Index(a) + Offset(a) /\ b = PageSize * Index(a) + Offset(b)
      BY <1>7, Located
    <3>2. PageSize * Index(a) \in Int
      BY <1>1, Located
    <3> QED BY <3>1, <3>2, <1>1
  <2> QED BY <2>1, <1>1, <1>2, <1>4, <1>7
<1> QED BY <1>5, <1>6, <1>7 DEF d

-----------------------------------------------------------------------------
(* What a chunk does to the memory.                                        *)

\* The pages of the bytes of a chunk are the page of its first byte.
LEMMA ChunkPages ==
  ASSUME addr \in Addr, NEW n \in Nat, n > 0, Offset(addr) + n <= PageSize
  PROVE  Memory!PagesOf(n) = {Index(addr)}
<1>1. \A i \in 0 .. n - 1 : ((addr + i) % Space) \div PageSize = Index(addr)
  BY InChunk DEF Add, Index
<1>2. 0 \in 0 .. n - 1
  OBVIOUS
<1> QED BY <1>1, <1>2 DEF Memory!PagesOf, Memory!Space, Space

\* A page is used if any of its addresses is there.
LEMMA UsedPage ==
  ASSUME NEW i \in 0 .. Pages - 1
  PROVE  i * PageSize \in Addr /\ Index(i * PageSize) = i
<1>1. PageSize * i + 0 \in Addr /\ Index(PageSize * i + 0) = i
  BY Composed, SizeAssumption
<1>2. PageSize * i + 0 = i * PageSize
  BY SizeAssumption
<1> QED BY <1>1, <1>2

LEMMA PresentUsed ==
  ASSUME NEW a \in Addr
  PROVE  Present(a) <=> Index(a) \in Used
<1>1. Index(a) \in 0 .. Pages - 1 /\ Index(Index(a) * PageSize) = Index(a)
  BY Located, UsedPage
<1>2. Present(Index(a) * PageSize) <=> Present(a)
  BY <1>1 DEF Present, At, MapKey
<1> QED BY <1>1, <1>2 DEF Used

\* The pages in use after getpage, not const, wherever it was called.
LEMMA UsedGrows ==
  ASSUME NEW a \in Addr, \A b \in Addr : Present(b)' <=> (Present(b) \/ Index(b) = Index(a))
  PROVE  Used' = Used \union {Index(a)}
<1>1. \A i \in 0 .. Pages - 1 : Present(i * PageSize)' <=> (Present(i * PageSize) \/ i = Index(a))
  BY UsedPage
<1>2. Index(a) \in 0 .. Pages - 1
  BY Located
<1> QED BY <1>1, <1>2 DEF Used

LEMMA PutEffect ==
  ASSUME Table, Chained, addr \in Addr, data \in Seq(Byte \union {none}),
         NEW n \in 1 .. Len(data), Offset(addr) + n <= PageSize,
         m_map' = [m_map EXCEPT ![MapKey(addr)] = Store(getpage(addr), Offset(addr), n)]
  PROVE  /\ Table' /\ Chained' /\ Used' = Used \union {Index(addr)}
         /\ Content' = [a \in Addr |->
              LET i == ((a - addr) % Space) + 1
              IN  IF i <= n /\ data[i] # none THEN data[i] ELSE Content[a]]
<1> DEFINE c == getpage(addr)
           f == Store(c, Offset(addr), n)
<1>1. /\ Chain(c, MapKey(addr)) /\ c # <<>> /\ c[1] \in Page /\ c[1].index = Index(addr)
      /\ c[1].storage = IF Present(addr) THEN Getpage(addr).storage
                        ELSE [o \in 0 .. PageSize - 1 |-> 0]
      /\ \A i, st : i # Index(addr) =>
           (Holds(c, i, st) <=> Holds(m_map[MapKey(addr)], i, st))
  BY Got
<1>2. Offset(addr) \in 0 .. PageSize - 1
  BY Located
<1> HIDE DEF c
<1>3. /\ Chain(f, MapKey(addr)) /\ f # <<>> /\ f[1] \in Page /\ f[1].index = c[1].index
      /\ f[1].storage = [i \in 0 .. PageSize - 1 |->
            IF i \in Offset(addr) .. Offset(addr) + n - 1
                 /\ data[i - Offset(addr) + 1] # none
              THEN data[i - Offset(addr) + 1] ELSE c[1].storage[i]]
      /\ \A i, st : i # c[1].index => (Holds(f, i, st) <=> Holds(c, i, st))
  BY <1>1, <1>2, Stored
<1> HIDE DEF f
<1>4. m_map' = [m_map EXCEPT ![MapKey(addr)] = f]
  BY DEF f, c
<1>5. /\ Table' /\ Chained'
      /\ \A b \in Addr : Present(b)' <=> (Present(b) \/ Index(b) = Index(addr))
      /\ Content' = [b \in Addr |-> IF Index(b) = Index(addr)
                                     THEN f[1].storage[Offset(b)] ELSE Content[b]]
  <2>1. f[1].index = Index(addr)
        /\ \A i, st : i # Index(addr) =>
             (Holds(f, i, st) <=> Holds(m_map[MapKey(addr)], i, st))
    BY <1>1, <1>3
  <2> QED BY <1>3, <1>4, <2>1, Replaced
<1>6. ASSUME NEW b \in Addr
      PROVE  Content'[b] = LET i == ((b - addr) % Space) + 1
                           IN  IF i <= n /\ data[i] # none THEN data[i] ELSE Content[b]
  <2> DEFINE i == ((b - addr) % Space) + 1
  <2>1. /\ i \in Nat \ {0}
        /\ i <= n <=> (Index(b) = Index(addr)
                         /\ Offset(b) \in Offset(addr) .. Offset(addr) + n - 1)
        /\ i <= n => i = Offset(b) - Offset(addr) + 1
    BY ChunkBytes
  <2>2. Offset(b) \in 0 .. PageSize - 1
    BY Located
  <2> HIDE DEF i
  <2>3. CASE Index(b) = Index(addr)
    <3>1. Present(b) <=> Present(addr)
      BY <2>3, PresentUsed
    <3>2. MapKey(b) = MapKey(addr)
      BY <2>3 DEF MapKey
    <3>3. Getpage(b) = Getpage(addr)
      BY <2>3, <3>2 DEF Getpage, Position, At
    <3>4. Content[b] = c[1].storage[Offset(b)]
      BY <1>1, <2>2, <3>1, <3>3 DEF Content
    <3>5. Content'[b] = f[1].storage[Offset(b)]
      BY <1>5, <2>3
    <3> QED BY <1>3, <2>1, <2>2, <2>3, <3>4, <3>5 DEF i
  <2>4. CASE Index(b) # Index(addr)
    BY <1>5, <2>1, <2>4 DEF i
  <2> QED BY <2>3, <2>4
<1>7. Content' = [a \in Addr |->
        LET i == ((a - addr) % Space) + 1
        IN  IF i <= n /\ data[i] # none THEN data[i] ELSE Content[a]]
  BY <1>5, <1>6
<1> QED BY <1>5, <1>7, UsedGrows

LEMMA TakeEffect ==
  ASSUME Table, Chained, addr \in Addr,
         m_map' = [m_map EXCEPT ![MapKey(addr)] = getpage(addr)]
  PROVE  /\ Table' /\ Chained' /\ Used' = Used \union {Index(addr)}
         /\ Content' = Content
<1> DEFINE c == getpage(addr)
<1>1. /\ Chain(c, MapKey(addr)) /\ c # <<>> /\ c[1] \in Page /\ c[1].index = Index(addr)
      /\ c[1].storage = IF Present(addr) THEN Getpage(addr).storage
                        ELSE [o \in 0 .. PageSize - 1 |-> 0]
      /\ \A i, st : i # Index(addr) =>
           (Holds(c, i, st) <=> Holds(m_map[MapKey(addr)], i, st))
  BY Got
<1> HIDE DEF c
<1>2. m_map' = [m_map EXCEPT ![MapKey(addr)] = c]
  BY DEF c
<1>3. /\ Table' /\ Chained'
      /\ \A b \in Addr : Present(b)' <=> (Present(b) \/ Index(b) = Index(addr))
      /\ Content' = [b \in Addr |-> IF Index(b) = Index(addr)
                                     THEN c[1].storage[Offset(b)] ELSE Content[b]]
  BY <1>1, <1>2, Replaced
<1>4. ASSUME NEW b \in Addr, Index(b) = Index(addr)
      PROVE  Content[b] = c[1].storage[Offset(b)]
  <2>1. Present(b) <=> Present(addr)
    BY <1>4, PresentUsed
  <2>2. MapKey(b) = MapKey(addr)
    BY <1>4 DEF MapKey
  <2>3. Getpage(b) = Getpage(addr)
    BY <1>4, <2>2 DEF Getpage, Position, At
  <2>4. Offset(b) \in 0 .. PageSize - 1
    BY Located
  <2> QED BY <1>1, <2>1, <2>3, <2>4 DEF Content
<1>5. Content' = Content
  BY <1>3, <1>4 DEF Content
<1> QED BY <1>3, <1>5, UsedGrows

\* What a chunk loads from the page that it looked up.
LEMMA LoadsBytes ==
  ASSUME addr \in Addr, NEW n \in Nat, Offset(addr) + n <= PageSize,
         NEW page, \A b \in Addr : Index(b) = Index(addr) =>
                     Content[b] = page.storage[Offset(b)]
  PROVE  Load(page, Offset(addr), n) = Memory!Bytes(n)
<1>1. ASSUME NEW i \in 1 .. n
      PROVE  page.storage[Offset(addr) + (i - 1)] = Content[(addr + (i - 1)) % Space]
  <2>1. i - 1 \in 0 .. n - 1
    OBVIOUS
  <2>2. /\ addr + (i - 1) \in Addr /\ (addr + (i - 1)) % Space = addr + (i - 1)
        /\ Index(addr + (i - 1)) = Index(addr)
        /\ Offset(addr + (i - 1)) = Offset(addr) + (i - 1)
    BY <2>1, InChunk DEF Add
  <2> QED BY <2>2
<1> QED BY <1>1 DEF Load, Memory!Bytes, Memory!Space, Space

-----------------------------------------------------------------------------
(* The invariant is inductive.                                             *)

LEMMA LoadType ==
  ASSUME NEW page \in Page, NEW o \in 0 .. PageSize - 1, NEW n \in Nat,
         o + n <= PageSize, got \in Seq(Byte)
  PROVE  got \o Load(page, o, n) \in Seq(Byte)
<1>1. \A i \in 1 .. n : o + (i - 1) \in 0 .. PageSize - 1
  BY SizeAssumption
<1>2. \A i \in 1 .. n : page.storage[o + (i - 1)] \in Byte
  BY <1>1 DEF Page
<1>3. Load(page, o, n) \in [1 .. n -> Byte]
  BY <1>2 DEF Load
<1>4. Load(page, o, n) \in Seq(Byte)
  BY <1>3
<1> QED BY <1>4

LEMMA InitInv == Init => Inv
<1> SUFFICES ASSUME Init PROVE Inv
  OBVIOUS
<1>1. 0 \in Addr
  <2>1. PageSize * 0 + 0 \in Addr
    BY Composed, SizeAssumption
  <2> QED BY <2>1, SizeAssumption
<1>2. MaxSize \in Nat
  BY MaxSizeAssumption, SizeAssumption
<1>3. TypeOK
  BY <1>1, <1>2, SizeAssumption DEF Init, TypeOK
<1>4. Chained
  BY DEF Init, Chained
<1> QED BY <1>3, <1>4 DEF Init, Inv, Filling, Busy

\* The chunk of a write, whatever its method, as one formula.
PutBy(n) == /\ m_map' = [m_map EXCEPT ![MapKey(addr)] =
                            Store(getpage(addr), Offset(addr), n)]
            /\ data' = SubSeq(data, n + 1, Len(data))
            /\ Advance(n, n = Len(data))

LEMMA WriteIsPut ==
  ASSUME Inv, Write \/ Fill
  PROVE  /\ addr \in Addr /\ data \in Seq(Byte \union {none})
         /\ \E n \in 1 .. Len(data) :
              /\ Offset(addr) + n <= PageSize /\ PutBy(n)
              /\ n # Len(data) => Offset(addr) + n = PageSize
<1>1. /\ addr \in Addr /\ data \in Seq(Byte \union {none}) /\ Len(data) \in Nat
      /\ data # <<>> => Len(data) > 0
  BY DEF Inv, TypeOK
<1>2. CASE Write
  <2>1. data # <<>>
    BY <1>2 DEF Write, Inv, Busy
  <2> DEFINE n == SubChunk(addr, Len(data))
  <2>2. /\ n \in 1 .. Len(data) /\ Offset(addr) + n <= PageSize
        /\ n # Len(data) => Offset(addr) + n = PageSize
    BY <1>1, <2>1, ChunkSize
  <2>3. PutBy(n)
    BY <1>2 DEF Write, PutBy
  <2> QED BY <1>1, <2>2, <2>3
<1>3. CASE Fill
  <2>1. data # <<>> /\ start = Offset(addr) /\ chunk = PageSize - start
    BY <1>3 DEF Fill, Inv, Busy, Filling
  <2> DEFINE n == Least(chunk, Len(data))
  <2>2. n = SubChunk(addr, Len(data))
    BY <2>1 DEF SubChunk
  <2>3. /\ n \in 1 .. Len(data) /\ Offset(addr) + n <= PageSize
        /\ n # Len(data) => Offset(addr) + n = PageSize
    BY <1>1, <2>1, <2>2, ChunkSize
  <2>4. PutBy(n)
    BY <1>3, <2>1 DEF Fill, PutBy
  <2> QED BY <1>1, <2>3, <2>4
<1> QED BY <1>2, <1>3

LEMMA NextInv == Inv /\ [Next]_vars => Inv'
<1> SUFFICES ASSUME Inv, [Next]_vars PROVE Inv'
  OBVIOUS
<1> USE DEF Inv
<1>0. /\ Table /\ addr \in Addr /\ Offset(addr) \in 0 .. PageSize - 1
      /\ size \in Nat /\ MaxSize \in Nat /\ PageSize \in Nat \ {0}
  <2>1. MaxSize \in Nat /\ PageSize \in Nat \ {0}
    BY MaxSizeAssumption, SizeAssumption
  <2> QED BY <2>1, Located DEF TypeOK, Table
<1>1. CASE Begin
  <2>1. addr' \in Addr /\ Offset(addr') \in 0 .. PageSize - 1
    BY <1>1, Located DEF Begin
  <2>2. /\ op' \in {"write", "zfill", "stream", "read", "constread", "string"}
        /\ data' \in Seq(Byte \union {none}) /\ size' \in 0 .. MaxSize
        /\ op' \in {"write", "zfill", "stream"} => data' # <<>>
        /\ op' \in {"read", "constread"} => size' > 0
    <3>1. CASE op' = "string" /\ data' = <<>> /\ size' = 0
      BY <3>1, <1>0
    <3>2. ASSUME NEW n \in 1 .. MaxSize,
                 \/ op' = "write" /\ data' \in Contents(n) /\ size' = 0
                 \/ op' = "zfill" /\ data' = [i \in 1 .. n |-> 0] /\ size' = 0
                 \/ op' = "stream" /\ data' \in Stream(n) /\ size' = 0
                 \/ op' \in {"read", "constread"} /\ data' = <<>> /\ size' = n
          PROVE  /\ op' \in {"write", "zfill", "stream", "read", "constread", "string"}
                 /\ data' \in Seq(Byte \union {none}) /\ size' \in 0 .. MaxSize
                 /\ op' \in {"write", "zfill", "stream"} => data' # <<>>
                 /\ op' \in {"read", "constread"} => size' > 0
      <4>1. \A d \in [1 .. n -> Byte \union {none}] :
              d \in Seq(Byte \union {none}) /\ d # <<>>
        BY <1>0
      <4>2. /\ Contents(n) \subseteq [1 .. n -> Byte \union {none}]
            /\ [i \in 1 .. n |-> 0] \in [1 .. n -> Byte \union {none}]
            /\ Stream(n) \subseteq [1 .. n -> Byte \union {none}]
        BY ByteAssumption DEF Contents, Stream
      <4>3. CASE op' = "write" /\ data' \in Contents(n) /\ size' = 0
        BY <4>1, <4>2, <4>3, <1>0
      <4>4. CASE op' = "zfill" /\ data' = [i \in 1 .. n |-> 0] /\ size' = 0
        <5>1. data' \in [1 .. n -> Byte \union {none}]
          BY <4>2, <4>4
        <5> QED BY <4>1, <4>4, <5>1, <1>0
      <4>5. CASE op' = "stream" /\ data' \in Stream(n) /\ size' = 0
        BY <4>1, <4>2, <4>5, <1>0
      <4>6. CASE op' \in {"read", "constread"} /\ data' = <<>> /\ size' = n
        BY <4>6, <1>0
      <4> QED BY <3>2, <4>3, <4>4, <4>5, <4>6
    <3> QED BY <1>1, <3>1, <3>2 DEF Begin
  <2>3. start' \in 0 .. PageSize - 1 /\ chunk' \in 1 .. PageSize /\ Filling'
    BY <1>1, <2>1, <1>0 DEF Begin, Filling
  <2>4. m_map' = m_map /\ outcome' = outcome /\ got' = <<>>
    BY <1>1 DEF Begin
  <2>5. TypeOK'
    BY <2>1, <2>2, <2>3, <2>4 DEF TypeOK
  <2>6. Chained'
    BY <2>4 DEF Chained
  <2> QED BY <2>2, <2>3, <2>5, <2>6 DEF Busy
<1>2. CASE Write \/ Fill
  <2>1. PICK n \in 1 .. Len(data) :
               /\ Offset(addr) + n <= PageSize /\ PutBy(n)
               /\ n # Len(data) => Offset(addr) + n = PageSize
    BY <1>2, WriteIsPut
  <2>2. data \in Seq(Byte \union {none}) /\ Len(data) \in Nat
    BY DEF TypeOK
  <2>3. Table' /\ Chained'
    BY <1>0, <2>1, <2>2, PutEffect DEF PutBy
  <2>4. /\ addr' \in Addr
        /\ Offset(addr) + n = PageSize => Offset(addr') = 0
    <3>1. addr' \in {0, Add(addr, n)} /\ n \in Nat
      BY <2>1, <2>2 DEF PutBy, Advance
    <3> QED BY <1>0, <2>1, <3>1, Advanced
  <2>5. /\ data' \in Seq(Byte \union {none})
        /\ n # Len(data) => data' # <<>>
    BY <2>1, <2>2, Rest DEF PutBy
  <2>6. /\ size' = size /\ got' = got
        /\ op' = IF n = Len(data) THEN "idle" ELSE op
        /\ outcome' = IF n = Len(data) THEN "done" ELSE outcome
    BY <1>2, <2>1 DEF Write, Fill, PutBy, Advance
  <2>7. /\ start' \in 0 .. PageSize - 1 /\ chunk' \in 1 .. PageSize
        /\ op # "write" => start' = 0 /\ chunk' = PageSize
    BY <1>2, <1>0 DEF Write, Fill, TypeOK
  <2>8. TypeOK'
    BY <2>3, <2>4, <2>5, <2>6, <2>7 DEF TypeOK, Table
  <2>9. Filling'
    <3>1. ASSUME op' \in {"zfill", "stream"} PROVE start' = Offset(addr')
                                                /\ chunk' = PageSize - start'
      <4>1. n # Len(data) /\ op # "write"
        BY <2>6, <3>1
      <4>2. Offset(addr') = 0
        BY <2>1, <2>4, <4>1
      <4> QED BY <1>0, <2>7, <4>1, <4>2
    <3> QED BY <3>1 DEF Filling
  <2>10. Busy'
    <3>1. op' \in {"idle", "write", "zfill", "stream"}
      BY <1>2, <2>6 DEF Write, Fill
    <3> QED BY <2>5, <2>6, <3>1 DEF Busy
  <2> QED BY <2>3, <2>8, <2>9, <2>10
<1>3. CASE Read
  <2> DEFINE n == SubChunk(addr, size)
  <2>1. /\ n \in 1 .. size /\ Offset(addr) + n <= PageSize /\ n \in Nat
    <3>1. size > 0
      BY <1>3 DEF Read, Busy
    <3>2. n \in 1 .. size /\ Offset(addr) + n <= PageSize
      BY <3>1, <1>0, ChunkSize
    <3> QED BY <3>2, <1>0
  <2>2. Table' /\ Chained'
    BY <1>0, <1>3, TakeEffect DEF Read
  <2>3. addr' \in Addr
    <3>1. addr' \in {0, Add(addr, n)}
      BY <1>3 DEF Read, Advance
    <3> QED BY <1>0, <2>1, <3>1, Advanced
  <2>4. got' \in Seq(Byte)
    <3>1. getpage(addr)[1] \in Page
      BY <1>0, Got
    <3> QED BY <1>0, <1>3, <2>1, <3>1, LoadType DEF Read, TypeOK
  <2>5. /\ size' = size - n /\ data' = data /\ start' = start /\ chunk' = chunk
        /\ op' = IF n = size THEN "idle" ELSE op
        /\ outcome' = IF n = size THEN "done" ELSE outcome
    BY <1>3 DEF Read, Advance
  <2> HIDE DEF n
  <2>6. size' \in 0 .. MaxSize /\ (n # size => size' > 0)
    BY <2>1, <2>5, <1>0 DEF TypeOK
  <2>7. TypeOK'
    BY <2>2, <2>3, <2>4, <2>5, <2>6 DEF TypeOK, Table
  <2>8. Filling' /\ Busy'
    BY <1>3, <2>5, <2>6 DEF Filling, Busy, Read
  <2> QED BY <2>2, <2>7, <2>8
<1>4. CASE ReadConst
  <2> DEFINE n == SubChunk(addr, size)
  <2>1. /\ n \in 1 .. size /\ Offset(addr) + n <= PageSize /\ n \in Nat
    <3>1. size > 0
      BY <1>4 DEF ReadConst, Busy
    <3>2. n \in 1 .. size /\ Offset(addr) + n <= PageSize
      BY <3>1, <1>0, ChunkSize
    <3> QED BY <3>2, <1>0
  <2>2. m_map' = m_map
    BY <1>4 DEF ReadConst
  <2>3. addr' \in Addr
    <3>1. addr' \in {0, Add(addr, n)}
      BY <1>4 DEF ReadConst, Advance
    <3> QED BY <1>0, <2>1, <3>1, Advanced
  <2>4. got' \in Seq(Byte)
    <3>1. Getpage(addr) \in Page
      BY <1>0, <1>4, AlwaysSeen DEF Seen, ReadConst
    <3> QED BY <1>0, <1>4, <2>1, <3>1, LoadType DEF ReadConst, TypeOK
  <2>5. /\ size' = size - n /\ data' = data /\ start' = start /\ chunk' = chunk
        /\ op' = IF n = size THEN "idle" ELSE op
        /\ outcome' = IF n = size THEN "done" ELSE outcome
    BY <1>4 DEF ReadConst, Advance
  <2> HIDE DEF n
  <2>6. size' \in 0 .. MaxSize /\ (n # size => size' > 0)
    BY <2>1, <2>5, <1>0 DEF TypeOK
  <2>7. TypeOK'
    BY <2>2, <2>3, <2>4, <2>5, <2>6 DEF TypeOK
  <2>8. Filling' /\ Busy'
    BY <1>4, <2>5, <2>6 DEF Filling, Busy, ReadConst
  <2>9. Chained'
    BY <2>2 DEF Chained
  <2> QED BY <2>7, <2>8, <2>9
<1>5. CASE ReadString
  <2>1. PICK end \in Offset(addr) .. PageSize :
          /\ got' = got \o Load(Getpage(addr), Offset(addr), end - Offset(addr))
          /\ Advance(end - Offset(addr), end < PageSize)
    BY <1>5 DEF ReadString
  <2>2. end - Offset(addr) \in Nat /\ Offset(addr) + (end - Offset(addr)) <= PageSize
    BY <1>0, <2>1
  <2>3. addr' \in Addr
    <3>1. addr' \in {0, Add(addr, end - Offset(addr))}
      BY <2>1 DEF Advance
    <3> QED BY <1>0, <2>2, <3>1, Advanced
  <2>4. got' \in Seq(Byte)
    <3>1. Getpage(addr) \in Page
      BY <1>0, <1>5, AlwaysSeen DEF Seen, ReadString
    <3> QED BY <1>0, <2>1, <2>2, <3>1, LoadType DEF TypeOK
  <2>5. /\ m_map' = m_map /\ size' = size /\ data' = data /\ start' = start
        /\ chunk' = chunk /\ op = "string" /\ op' \in {"idle", "string"}
        /\ outcome' \in {"done", outcome}
    BY <1>5, <2>1 DEF ReadString, Advance
  <2>6. TypeOK'
    BY <2>3, <2>4, <2>5 DEF TypeOK
  <2>7. Chained'
    BY <2>5 DEF Chained
  <2> QED BY <2>5, <2>6, <2>7 DEF Filling, Busy
<1>6. CASE AccessError
  <2>1. 0 \in Addr
    <3>1. PageSize * 0 + 0 \in Addr
      BY Composed, SizeAssumption
    <3> QED BY <3>1, <1>0
  <2>2. TypeOK'
    BY <1>6, <2>1, <1>0 DEF AccessError, TypeOK
  <2>3. Chained'
    BY <1>6 DEF AccessError, Chained
  <2> QED BY <1>6, <2>2, <2>3 DEF AccessError, Filling, Busy
<1>7. CASE UNCHANGED vars
  BY <1>7 DEF vars, locals, TypeOK, Chained, Filling, Busy
<1> QED BY <1>1, <1>2, <1>3, <1>4, <1>5, <1>6, <1>7 DEF Next

\* The invariant holds in every state of the memory.
THEOREM Invariance == Spec => []Inv
  BY InitInv, NextInv, PTL DEF Spec

\* The locals of an access and the pages keep their types, for any sizes.
THEOREM TypeCorrect == Spec => []TypeOK
<1>1. Inv => TypeOK
  BY DEF Inv
<1> QED BY <1>1, Invariance, PTL

\* getpage keeps every page in the chain of its key, once.
THEOREM ChainsSound == Spec => []Chained
<1>1. Inv => Chained
  BY DEF Inv
<1> QED BY <1>1, Invariance, PTL

-----------------------------------------------------------------------------
(* The table is a flat memory.                                             *)

LEMMA SameSpace == Memory!Space = Space /\ Memory!Addr = Addr /\ Memory!none = none
  BY DEF Memory!Space, Space, Memory!Addr, Addr, Memory!none, none

LEMMA InitFlat == Init => Memory!Init
<1> SUFFICES ASSUME Init PROVE Memory!Init
  OBVIOUS
<1>1. \A a \in Addr : ~ Present(a)
  BY Located DEF Init, Present
<1>2. Content = [a \in Memory!Addr |-> 0]
  BY <1>1, SameSpace DEF Content
<1>3. Used = {}
  BY <1>1, UsedPage DEF Used
<1> QED BY <1>2, <1>3 DEF Init, Memory!Init

\* A chunk ends in the same way in both.
LEMMA AdvanceFlat ==
  ASSUME NEW n, NEW last \in BOOLEAN
  PROVE  Advance(n, last) = Memory!Advance(n, last)
  BY SameSpace DEF Advance, Memory!Advance, Add, Memory!After

\* The part of a string that is in a page.
LEMMA StringFlat == ASSUME Inv, ReadString PROVE Memory!TakeString
<1>1. /\ Table /\ Chained /\ addr \in Addr /\ Offset(addr) \in 0 .. PageSize - 1
      /\ PageSize \in Nat \ {0} /\ Present(addr)
  BY Located, SizeAssumption DEF Inv, TypeOK, Table, ReadString
<1>2. PICK end \in Offset(addr) .. PageSize :
        /\ \A i \in Offset(addr) .. end - 1 : Getpage(addr).storage[i] # 0
        /\ end < PageSize => Getpage(addr).storage[end] = 0
        /\ got' = got \o Load(Getpage(addr), Offset(addr), end - Offset(addr))
        /\ Advance(end - Offset(addr), end < PageSize)
  BY DEF ReadString
<1> DEFINE n == end - Offset(addr)
           last == end < PageSize
<1>3. n \in Nat /\ Offset(addr) + n = end /\ end <= PageSize
  BY <1>1, <1>2
<1>4. ASSUME NEW b \in Addr, Index(b) = Index(addr)
      PROVE  Content[b] = Getpage(addr).storage[Offset(b)]
  <2>1. Present(b) /\ MapKey(b) = MapKey(addr)
    BY <1>1, <1>4, PresentUsed DEF MapKey
  <2>2. Getpage(b) = Getpage(addr)
    BY <1>4, <2>1 DEF Getpage, Position, At
  <2> QED BY <2>1, <2>2 DEF Content
<1>5. Load(Getpage(addr), Offset(addr), n) = Memory!Bytes(n)
  BY <1>1, <1>3, <1>4, LoadsBytes
<1>6. Index(addr) \in Used
  BY <1>1, PresentUsed
<1>7. Memory!PagesOf(n) \subseteq Used
  <2>1. CASE n = 0
    BY <2>1 DEF Memory!PagesOf
  <2>2. CASE n > 0
    BY <1>1, <1>3, <1>6, <2>2, ChunkPages
  <2> QED BY <1>3, <2>1, <2>2
<1>8. \A i \in 1 .. n : Memory!Bytes(n)[i] # 0
  <2>1. \A i \in 1 .. n : Offset(addr) + (i - 1) \in Offset(addr) .. end - 1
    BY <1>1, <1>3
  <2>2. \A i \in 1 .. n : Load(Getpage(addr), Offset(addr), n)[i] # 0
    BY <1>2, <2>1 DEF Load
  <2> QED BY <1>5, <2>2
<1>9. ASSUME last
      PROVE  Memory!After(n) \div PageSize \in Used /\ Content[Memory!After(n)] = 0
  <2>1. /\ addr + n \in Addr /\ Add(addr, n) = addr + n /\ Index(addr + n) = Index(addr)
        /\ Offset(addr + n) = end
    <3>1. Offset(addr) + (n + 1) <= PageSize /\ n + 1 \in Nat /\ n \in 0 .. (n + 1) - 1
      BY <1>1, <1>2, <1>3, <1>9
    <3> QED BY <1>1, <1>3, <3>1, InChunk
  <2>2. Memory!After(n) = addr + n
    BY <2>1, SameSpace DEF Memory!After, Add
  <2>3. Content[addr + n] = Getpage(addr).storage[end]
    BY <1>4, <2>1
  <2> QED BY <1>2, <1>6, <1>9, <2>1, <2>2, <2>3 DEF Index
<1>10. n \in 0 .. Memory!Space
  <2>1. Space \in Nat /\ addr \in Nat /\ addr + n <= Space
    BY <1>1, <1>3, InChunk, SizeAssumption DEF Addr, Space
  <2> QED BY <1>3, <2>1, SameSpace
<1>11. Memory!Advance(n, last)
  <2>1. Advance(n, last)
    BY <1>2
  <2> HIDE DEF n, last
  <2> QED BY <2>1, SameSpace DEF Advance, Memory!Advance, Add, Memory!After
<1>12. /\ op = "string" /\ Content' = Content /\ Used' = Used /\ data' = data
       /\ size' = size
  <2>1. m_map' = m_map /\ op = "string" /\ data' = data /\ size' = size
    BY DEF ReadString
  <2>2. Content' = Content /\ Used' = Used
    BY <2>1 DEF Content, Used, Present, At, Getpage, Position
  <2> QED BY <2>1, <2>2
<1>13. got' = got \o Memory!Bytes(n)
  BY <1>2, <1>5
<1> HIDE DEF n
<1>14. last \in BOOLEAN
  OBVIOUS
<1> QED BY <1>7, <1>8, <1>9, <1>10, <1>11, <1>12, <1>13, <1>14 DEF Memory!TakeString

LEMMA NextFlat == Inv /\ [Next]_vars => [Memory!Next]_(Memory!vars)
<1> SUFFICES ASSUME Inv, [Next]_vars PROVE Memory!Next \/ UNCHANGED Memory!vars
  OBVIOUS
<1>0. /\ Table /\ Chained /\ addr \in Addr /\ Offset(addr) \in 0 .. PageSize - 1
      /\ size \in Nat /\ PageSize \in Nat \ {0}
  <2>1. MaxSize \in Nat /\ PageSize \in Nat \ {0}
    BY MaxSizeAssumption, SizeAssumption
  <2> QED BY <2>1, Located DEF Inv, TypeOK, Table
<1>1. ASSUME m_map' = m_map PROVE Content' = Content /\ Used' = Used
  BY <1>1 DEF Content, Used, Present, At, Getpage, Position
<1>2. CASE Begin
  <2>1. /\ op = "idle" /\ addr' \in Memory!Addr /\ got' = <<>> /\ outcome' = outcome
        /\ Content' = Content /\ Used' = Used
    BY <1>1, <1>2, SameSpace DEF Begin
  <2>2. Inv'
    BY NextInv
  <2>3. /\ data' \in Seq(Byte \union {none}) /\ size' \in 0 .. Space - 1
        /\ op' \in Memory!Writes => data' # <<>>
        /\ op' \in {"read", "constread"} => size' \in 1 .. Space - 1
    <3>1. MaxSize \in 1 .. Space - 1 /\ Space \in Int
      BY MaxSizeAssumption, SizeAssumption DEF Space
    <3>2. /\ data' \in Seq(Byte \union {none}) /\ size' \in 0 .. MaxSize
          /\ op' \in Memory!Writes => data' # <<>>
          /\ op' \in {"read", "constread"} => size' > 0
      BY <2>2 DEF Inv, TypeOK, Busy, Memory!Writes
    <3> QED BY <3>1, <3>2
  <2>4. \/ op' \in Memory!Writes /\ size' = 0
        \/ op' \in {"read", "constread"} /\ data' = <<>>
        \/ op' = "string" /\ data' = <<>> /\ size' = 0
    BY <1>2 DEF Begin, Memory!Writes
  <2>5. Memory!Begin
    BY <2>1, <2>3, <2>4, SameSpace DEF Memory!Begin, Memory!Reads
  <2> QED BY <2>5 DEF Memory!Next
<1>3. CASE Write \/ Fill
  <2>1. PICK n \in 1 .. Len(data) :
               /\ Offset(addr) + n <= PageSize /\ PutBy(n)
               /\ n # Len(data) => Offset(addr) + n = PageSize
    BY <1>3, WriteIsPut
  <2>2. data \in Seq(Byte \union {none}) /\ Len(data) \in Nat /\ n \in Nat /\ n > 0
    BY <2>1 DEF Inv, TypeOK
  <2>3. /\ Used' = Used \union {Index(addr)}
        /\ Content' = [a \in Addr |->
             LET i == ((a - addr) % Space) + 1
             IN  IF i <= n /\ data[i] # none THEN data[i] ELSE Content[a]]
    BY <1>0, <2>1, <2>2, PutEffect DEF PutBy
  <2>4. Memory!PagesOf(n) = {Index(addr)}
    BY <1>0, <2>1, <2>2, ChunkPages
  <2>5. data' = SubSeq(data, n + 1, Len(data)) /\ Memory!Advance(n, n = Len(data))
    BY <2>1, AdvanceFlat DEF PutBy
  <2>6. op \in Memory!Writes /\ size' = size /\ got' = got
    BY <1>3 DEF Write, Fill, Memory!Writes
  <2>7. Memory!Put
    BY <2>1, <2>3, <2>4, <2>5, <2>6, SameSpace DEF Memory!Put
  <2> QED BY <2>7 DEF Memory!Next
<1>4. ASSUME Present(addr), NEW b \in Addr, Index(b) = Index(addr)
      PROVE  Content[b] = Getpage(addr).storage[Offset(b)]
  <2>1. Present(b)
    BY <1>0, <1>4, PresentUsed
  <2>2. MapKey(b) = MapKey(addr)
    BY <1>4 DEF MapKey
  <2>3. Getpage(b) = Getpage(addr)
    BY <1>4, <2>2 DEF Getpage, Position, At
  <2> QED BY <2>1, <2>3 DEF Content
<1>5. CASE Read
  <2> DEFINE n == SubChunk(addr, size)
  <2>1. n \in 1 .. size /\ Offset(addr) + n <= PageSize /\ n \in Nat /\ n > 0
    <3>1. size > 0
      BY <1>5 DEF Read, Inv, Busy
    <3>2. n \in 1 .. size /\ Offset(addr) + n <= PageSize
      BY <3>1, <1>0, ChunkSize
    <3> QED BY <3>2, <1>0
  <2>2. /\ Used' = Used \union {Index(addr)} /\ Content' = Content
    BY <1>0, <1>5, TakeEffect DEF Read
  <2>3. Memory!PagesOf(n) = {Index(addr)}
    BY <1>0, <2>1, ChunkPages
  <2>4. ASSUME NEW b \in Addr, Index(b) = Index(addr)
        PROVE  Content[b] = getpage(addr)[1].storage[Offset(b)]
    <3>1. getpage(addr)[1].storage = IF Present(addr) THEN Getpage(addr).storage
                                    ELSE [o \in 0 .. PageSize - 1 |-> 0]
      BY <1>0, Got
    <3>2. Offset(b) \in 0 .. PageSize - 1
      BY Located
    <3>3. Present(b) <=> Present(addr)
      BY <1>0, <2>4, PresentUsed
    <3>4. CASE Present(addr)
      BY <1>4, <2>4, <3>1, <3>4
    <3>5. CASE ~ Present(addr)
      BY <3>1, <3>2, <3>3, <3>5 DEF Content
    <3> QED BY <3>4, <3>5
  <2>5. Load(getpage(addr)[1], Offset(addr), n) = Memory!Bytes(n)
    BY <1>0, <2>1, <2>4, LoadsBytes
  <2>6. /\ op = "read" /\ got' = got \o Memory!Bytes(n) /\ size' = size - n
        /\ data' = data
    BY <1>5, <2>5 DEF Read
  <2>7. Memory!Advance(n, n = size)
    BY <1>5, AdvanceFlat DEF Read
  <2> HIDE DEF n
  <2>8. Memory!Take
    BY <2>1, <2>2, <2>3, <2>6, <2>7 DEF Memory!Take
  <2> QED BY <2>8 DEF Memory!Next
<1>6. CASE ReadConst
  <2> DEFINE n == SubChunk(addr, size)
  <2>1. n \in 1 .. size /\ Offset(addr) + n <= PageSize /\ n \in Nat /\ n > 0
    <3>1. size > 0
      BY <1>6 DEF ReadConst, Inv, Busy
    <3>2. n \in 1 .. size /\ Offset(addr) + n <= PageSize
      BY <3>1, <1>0, ChunkSize
    <3> QED BY <3>2, <1>0
  <2>2. Used' = Used /\ Content' = Content
    BY <1>1, <1>6 DEF ReadConst
  <2>3. Memory!PagesOf(n) \subseteq Used
    <3>1. Memory!PagesOf(n) = {Index(addr)}
      BY <1>0, <2>1, ChunkPages
    <3>2. Index(addr) \in Used
      BY <1>0, <1>6, PresentUsed DEF ReadConst
    <3> QED BY <3>1, <3>2
  <2>4. Load(Getpage(addr), Offset(addr), n) = Memory!Bytes(n)
    <3>1. Present(addr)
      BY <1>6 DEF ReadConst
    <3> QED BY <1>0, <1>4, <2>1, <3>1, LoadsBytes
  <2>5. /\ op = "constread" /\ got' = got \o Memory!Bytes(n) /\ size' = size - n
        /\ data' = data
    BY <1>6, <2>4 DEF ReadConst
  <2>6. Memory!Advance(n, n = size)
    BY <1>6, AdvanceFlat DEF ReadConst
  <2> HIDE DEF n
  <2>7. Used' = Used \union Memory!PagesOf(n)
    BY <2>2, <2>3
  <2>8. Memory!Take
    BY <2>1, <2>2, <2>3, <2>5, <2>6, <2>7 DEF Memory!Take
  <2> QED BY <2>8 DEF Memory!Next
<1>7. CASE ReadString
  BY <1>7, StringFlat DEF Memory!Next
<1>8. CASE AccessError
  <2>1. Used' = Used /\ Content' = Content
    BY <1>1, <1>8 DEF AccessError
  <2>2. addr \div PageSize \notin Used
    BY <1>0, <1>8, PresentUsed DEF AccessError, Index
  <2>3. Memory!AccessError
    BY <1>8, <2>1, <2>2 DEF AccessError, Memory!AccessError, Memory!Const
  <2> QED BY <2>3 DEF Memory!Next
<1>9. CASE UNCHANGED vars
  BY <1>1, <1>9 DEF vars, locals, Memory!vars
<1> QED BY <1>2, <1>3, <1>5, <1>6, <1>7, <1>8, <1>9 DEF Next

\* Whatever the accesses, the hash table of pages is an array of bytes whose
\* addresses wrap, and a const access fails only where no page was made.
THEOREM Implementation == Spec => Flat
<1>1. Init => Memory!Init
  BY InitFlat
<1>2. Inv /\ [Next]_vars => [Memory!Next]_(Memory!vars)
  BY NextFlat
<1> QED BY <1>1, <1>2, Invariance, PTL DEF Spec, Flat, Memory!Spec
=============================================================================
