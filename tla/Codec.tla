------------------------------- MODULE Codec -------------------------------
(***************************************************************************)
(* The serialisation of utils/codec: a ZeroCopySink appends values to a    *)
(* buffer that it grows and reuses, a ZeroCopySource reads them back.      *)
(* StateDB writes accounts with it and RemoteDB the accounts it fetches.   *)
(*                                                                         *)
(* A byte has Radix values instead of 256, so that an unsigned integer of  *)
(* 8 bytes stays within reach; the marks of a variable-length integer are  *)
(* the three largest bytes, 0xFD to 0xFF.                                  *)
(***************************************************************************)
EXTENDS Integers, Sequences

CONSTANT Radix

VARIABLE z

LittleEndian(x, n) == [i \in 1..n |-> (x \div Radix ^ (i - 1)) % Radix]
number(b) ==
  LET f[i \in 0..Len(b)] == IF i = 0 THEN 0 ELSE f[i - 1] + b[i] * Radix ^ (i - 1) IN f[Len(b)]
signed(x, n) == IF 2 * x >= Radix ^ n THEN x - Radix ^ n ELSE x

-----------------------------------------------------------------------------
(* ZeroCopySink: the array behind the buffer, and the buffer's length.      *)
-----------------------------------------------------------------------------
Bytes(k) == SubSeq(k.array, 1, k.len)

\* grow and tryGrowByReslice: n more bytes, in the array behind the buffer if
\* it has them, in a new one of twice its size and n otherwise.  The bytes
\* are whatever the array holds.
grow(k, n) ==
  LET c == Len(k.array)
  IN IF n <= c - k.len THEN [k EXCEPT !.len = @ + n]
     ELSE [array |-> [i \in 1..2 * c + n |-> IF i <= k.len THEN k.array[i] ELSE 0], len |-> k.len + n]

\* The buffer with b copied to its last n bytes, NextBytes(n).
copied(k, n, b) ==
  [k EXCEPT !.array = [i \in DOMAIN @ |-> IF i - (k.len - n) \in DOMAIN b
                                          THEN b[i - (k.len - n)] ELSE @[i]]]

WriteBytes(k, b) == copied(grow(k, Len(b)), Len(b), b)
BackUp(k, n) == [k EXCEPT !.len = @ - n]
Reset(k) == [k EXCEPT !.len = 0]

WriteUint(k, x, n) == WriteBytes(k, LittleEndian(x, n))
WriteInt(k, x, n) == WriteUint(k, x % Radix ^ n, n)
WriteBool(k, b) == WriteUint(k, IF b THEN 1 ELSE 0, 1)

getVarUintSize(x) ==
  CASE x < Radix - 3 -> 1
    [] x >= Radix - 3 /\ x < Radix ^ 2 -> 3
    [] x >= Radix ^ 2 /\ x < Radix ^ 4 -> 5
    [] OTHER -> 9

mark(size) == CASE size = 3 -> Radix - 3 [] size = 5 -> Radix - 2 [] size = 9 -> Radix - 1

\* WriteVarUint takes the most room and gives back what it did not use.
WriteVarUint(k, x) ==
  LET size == getVarUintSize(x)
      b == IF size = 1 THEN <<x>> ELSE <<mark(size)>> \o LittleEndian(x, size - 1)
  IN BackUp(copied(grow(k, 9), 9, b), 9 - size)

WriteVarBytes(k, b) == WriteBytes(WriteVarUint(k, Len(b)), b)

-----------------------------------------------------------------------------
(* ZeroCopySource: the bytes s and the place off.  A reader returns the     *)
(* value, whether the input ended, whether it was irregular, and the place. *)
-----------------------------------------------------------------------------
read(v, off) == [val |-> v, eof |-> FALSE, irregular |-> FALSE, off |-> off]
ended(off) == [val |-> 0, eof |-> TRUE, irregular |-> FALSE, off |-> off]

uint64 == Radix ^ 8
SafeAdd(x, y) == [sum |-> (x + y) % uint64, over |-> y > uint64 - 1 - x]

\* mutant: the sum of offset and length may wrap around.
NextBytes_Wrapped(r, n) ==
  LET to == SafeAdd(r.off, n).sum
  IN IF to > Len(r.s) THEN [ended(Len(r.s)) EXCEPT !.val = SubSeq(r.s, r.off + 1, Len(r.s))]
     ELSE read(SubSeq(r.s, r.off + 1, to), to)

\* NextBytes and Skip: past the end, the rest.
NextBytes(r, n) ==
  LET end == SafeAdd(r.off, n)
  IN IF end.over \/ end.sum > Len(r.s)
     THEN [ended(Len(r.s)) EXCEPT !.val = SubSeq(r.s, r.off + 1, Len(r.s))]
     ELSE read(SubSeq(r.s, r.off + 1, end.sum), end.sum)

NextByte(r) == IF r.off >= Len(r.s) THEN ended(r.off) ELSE read(r.s[r.off + 1], r.off + 1)

\* NextUint16, NextUint32, NextUint64 and the signed ones.
NextUint(r, n) ==
  LET b == NextBytes(r, n) IN IF b.eof THEN ended(b.off) ELSE read(number(b.val), b.off)
NextInt(r, n) ==
  LET x == NextUint(r, n) IN [x EXCEPT !.val = signed(@, n)]

NextBool(r) ==
  LET b == NextByte(r) IN [b EXCEPT !.val = b.val # 0, !.irregular = b.val > 1]

\* NextAddress and NextHash: a value of n bytes.
NextFixed(r, n) == LET b == NextBytes(r, n) IN IF b.eof THEN ended(b.off) ELSE b

NextVarUint(r) ==
  LET size(first) == CASE first = Radix - 3 -> 3 [] first = Radix - 2 -> 5
                       [] first = Radix - 1 -> 9 [] OTHER -> 1
      checked(x, n) ==
        IF x.eof THEN ended(x.off) ELSE [x EXCEPT !.irregular = n # getVarUintSize(x.val)]
      counted(first, n) ==
        checked(IF n = 1 THEN first ELSE NextUint([r EXCEPT !.off = first.off], n - 1), n)
      after(first) == IF first.eof THEN ended(first.off) ELSE counted(first, size(first.val))
  IN after(NextByte(r))

NextVarBytes(r) ==
  LET after(count) ==
        IF count.val > 0
        THEN [NextBytes([r EXCEPT !.off = count.off], count.val) EXCEPT !.irregular = count.irregular]
        ELSE [count EXCEPT !.val = <<>>]
  IN after(NextVarUint(r))

\* ReadVarBytes, ReadString and the account readers refuse both defects.
refused(x) == x.irregular \/ x.eof

-----------------------------------------------------------------------------
CONSTANTS Items, MaxItems, Streams

Write(k, item) ==
  CASE item.op = "uint" -> WriteUint(k, item.val, item.n)
    [] item.op = "int" -> WriteInt(k, item.val, item.n)
    [] item.op = "bool" -> WriteBool(k, item.val)
    [] item.op = "fixed" -> WriteBytes(k, item.val)
    [] item.op = "varUint" -> WriteVarUint(k, item.val)
    [] item.op = "varBytes" -> WriteVarBytes(k, item.val)

Next(r, item) ==
  CASE item.op = "uint" -> NextUint(r, item.n)
    [] item.op = "int" -> NextInt(r, item.n)
    [] item.op = "bool" -> NextBool(r)
    [] item.op = "fixed" -> NextFixed(r, item.n)
    [] item.op = "varUint" -> NextVarUint(r)
    [] item.op = "varBytes" -> NextVarBytes(r)

\* A sink of no or little capacity, which writes and may be reset and used
\* again; or a source over any short stream.
InitCodec ==
  \/ \E c \in {0, 2} :
       z = [step |-> "write", sink |-> [array |-> [i \in 1..c |-> 0], len |-> 0], items |-> <<>>, reused |-> FALSE]
  \/ \E s \in Streams : z = [step |-> "stream", source |-> [s |-> s, off |-> 0]]

WriteItem ==
  /\ z.step = "write" /\ Len(z.items) < MaxItems
  /\ \E item \in Items : z' = [z EXCEPT !.sink = Write(@, item), !.items = Append(@, item)]

ResetSink ==
  /\ z.step = "write" /\ z.items # <<>> /\ ~z.reused
  /\ z' = [z EXCEPT !.sink = Reset(@), !.items = <<>>, !.reused = TRUE]

\* The bytes are read as a whole or without their last one.
Open ==
  /\ z.step = "write" /\ z.items # <<>>
  /\ \E lost \in {0, 1} :
       z' = [step |-> "read", items |-> z.items, lost |-> lost, got |-> <<>>,
             source |-> [s |-> SubSeq(Bytes(z.sink), 1, z.sink.len - lost), off |-> 0]]

ReadItem ==
  /\ z.step = "read" /\ Len(z.got) < Len(z.items)
  /\ \E x \in {Next(z.source, z.items[Len(z.got) + 1])} :
       z' = [z EXCEPT !.source.off = x.off, !.got = Append(@, x)]

ReadStream ==
  /\ z.step = "stream"
  /\ z' = [step |-> "streamed", source |-> z.source, got |-> NextVarBytes(z.source)]

NextCodec == WriteItem \/ ResetSink \/ Open \/ ReadItem \/ ReadStream

-----------------------------------------------------------------------------
\* What a sink wrote, through the growth of its buffer and over the bytes of
\* an earlier use, a source reads back value by value to the last byte.
ReadsBack ==
  z.step = "read" /\ z.lost = 0 =>
    /\ \A i \in DOMAIN z.got : ~refused(z.got[i]) /\ z.got[i].val = z.items[i].val
    /\ Len(z.got) = Len(z.items) => z.source.off = Len(z.source.s)

\* With the last byte lost, the last value is reported as ended and no
\* earlier one is.
EndIsNoticed ==
  z.step = "read" /\ z.lost = 1 =>
    \A i \in DOMAIN z.got : z.got[i].eof <=> i = Len(z.items)

\* Of all streams, NextVarBytes accepts only what WriteVarBytes writes, and
\* its count never takes it out of the stream, however large it is.
OnlyCanonical ==
  z.step = "streamed" =>
    /\ z.got.off <= Len(z.source.s)
    /\ ~refused(z.got) =>
         LET k == WriteVarBytes([array |-> <<>>, len |-> 0], z.got.val)
         IN Bytes(k) = SubSeq(z.source.s, 1, z.got.off)
=============================================================================
