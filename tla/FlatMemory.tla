----------------------------- MODULE FlatMemory ------------------------------
(***************************************************************************)
(* What the guest memory promises to the translated code and to the        *)
(* loader: an array of bytes, zero at first, whose addresses wrap.  Bytes  *)
(* exist by pages: a page does from its first access that is not const,    *)
(* and a const access to any other page fails.  An access proceeds by any  *)
(* number of bytes at a time.  Memory.tla implements it.                   *)
(***************************************************************************)
EXTENDS Integers, Sequences

CONSTANTS
  PageSize,   \* bytes of a page
  Pages,      \* pages of the address space
  Byte        \* the values of a byte

Space == Pages * PageSize

Addr == 0 .. Space - 1

\* What a stream that has ended gives: the byte in memory stays.
none == -1

VARIABLES
  mem,       \* the bytes
  used,      \* the pages that exist
  op,        \* the access in progress, idle if none
  addr,      \* where its next byte is
  data,      \* of a write: the bytes still to be written
  size,      \* of a read: how many are still to be read
  got,       \* what the last read has read
  outcome    \* of the last access

vars == <<mem, used, op, addr, data, size, got, outcome>>

Writes == {"write", "zfill", "stream"}
Reads == {"read", "constread", "string"}
Const == {"constread", "string"}

\* The address n bytes after addr; the n bytes from addr on; their pages.
After(n) == (addr + n) % Space
Bytes(n) == [i \in 1 .. n |-> mem[(addr + (i - 1)) % Space]]
PagesOf(n) == {((addr + i) % Space) \div PageSize : i \in 0 .. n - 1}

Init == /\ mem = [a \in Addr |-> 0] /\ used = {}
        /\ op = "idle" /\ addr = 0 /\ data = <<>> /\ size = 0
        /\ got = <<>> /\ outcome = "done"

Begin == /\ op = "idle"
         /\ addr' \in Addr
         /\ \/ /\ op' \in Writes
               /\ data' \in Seq(Byte \union {none}) /\ data' # <<>>
               /\ size' = 0
            \/ /\ op' \in Reads \ {"string"}
               /\ data' = <<>> /\ size' \in 1 .. Space - 1
            \/ /\ op' = "string"
               /\ data' = <<>> /\ size' = 0
         /\ got' = <<>>
         /\ UNCHANGED <<mem, used, outcome>>

\* n bytes have been done; the access is over if there is none left.
Advance(n, last) == /\ addr' = IF last THEN 0 ELSE After(n)
                    /\ op' = IF last THEN "idle" ELSE op
                    /\ outcome' = IF last THEN "done" ELSE outcome

Put == /\ op \in Writes
       /\ \E n \in 1 .. Len(data) :
            /\ mem' = [a \in Addr |->
                 LET i == ((a - addr) % Space) + 1
                 IN  IF i <= n /\ data[i] # none THEN data[i] ELSE mem[a]]
            /\ used' = used \union PagesOf(n)
            /\ data' = SubSeq(data, n + 1, Len(data))
            /\ Advance(n, n = Len(data))
       /\ UNCHANGED <<size, got>>

Take == /\ op \in {"read", "constread"}
        /\ \E n \in 1 .. size :
             /\ op = "constread" => PagesOf(n) \subseteq used
             /\ got' = got \o Bytes(n)
             /\ used' = used \union PagesOf(n)
             /\ size' = size - n
             /\ Advance(n, n = size)
        /\ UNCHANGED <<mem, data>>

\* A string ends before its first zero.
TakeString == /\ op = "string"
              /\ \E n \in 0 .. Space, last \in BOOLEAN :
                   /\ PagesOf(n) \subseteq used
                   /\ \A i \in 1 .. n : Bytes(n)[i] # 0
                   /\ last => After(n) \div PageSize \in used /\ mem[After(n)] = 0
                   /\ got' = got \o Bytes(n)
                   /\ Advance(n, last)
              /\ UNCHANGED <<mem, used, data, size>>

\* Memory::AccessError is thrown: what was read before it is kept.
AccessError == /\ op \in Const
               /\ addr \div PageSize \notin used
               /\ op' = "idle" /\ outcome' = "AccessError"
               /\ addr' = 0 /\ size' = 0
               /\ UNCHANGED <<mem, used, data, got>>

Next == Begin \/ Put \/ Take \/ TakeString \/ AccessError

Spec == Init /\ [][Next]_vars
==============================================================================
