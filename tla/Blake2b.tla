------------------------------ MODULE Blake2b ------------------------------
(***************************************************************************)
(* The BLAKE2b of crypto/blake2b: the digest that takes its message in     *)
(* pieces, the one-shot checksum, the extendable output, and the           *)
(* compression function that the blake2F precompile calls.                 *)
(*                                                                         *)
(* In the digest the compression function is free: the chain value h is    *)
(* the list of what was compressed, with the counter and the final flag of *)
(* each block.  A block has BlockSize bytes instead of 128, an output      *)
(* block Size bytes instead of 64, and a counter word CounterRange values  *)
(* instead of 2^64.                                                        *)
(***************************************************************************)
EXTENDS Integers, Sequences, Bitwise

CONSTANTS BlockSize, Size, CounterRange, MaxOutput

VARIABLE b

zeroes(n) == [i \in 1..n |-> 0]
from(s, i) == SubSeq(s, i + 1, Len(s))
first(s, n) == SubSeq(s, 1, n)
padded(s) == s \o zeroes(BlockSize - Len(s))
least(x, y) == IF x < y THEN x ELSE y

iv(config) == <<config>>

\* hashBlocks: one compression for each block, with the bytes so far in two
\* counter words.
hashBlocks(h, c, flag, blocks) ==
  LET f[i \in 0..Len(blocks) \div BlockSize] ==
        IF i = 0 THEN [h |-> h, c |-> c]
        ELSE LET p == f[i - 1]
                 c0 == (p.c[1] + BlockSize) % CounterRange
                 c1 == (IF c0 < BlockSize THEN p.c[2] + 1 ELSE p.c[2]) % CounterRange
             IN [h |-> Append(p.h, <<SubSeq(blocks, (i - 1) * BlockSize + 1, i * BlockSize), c0, c1, flag>>),
                 c |-> <<c0, c1>>]
  IN f[Len(blocks) \div BlockSize]

\* The whole blocks of a message, without the last one even when it is full.
whole(n) == IF n <= BlockSize THEN 0 ELSE ((n - 1) \div BlockSize) * BlockSize

\* The counter without the bytes of the last block that are not there.
rewound(c, remaining) ==
  <<(c[1] - remaining) % CounterRange,
    (IF c[1] < remaining THEN c[2] - 1 ELSE c[2]) % CounterRange>>

checkSum(size, data) ==
  LET n == whole(Len(data))
      start == hashBlocks(iv([size |-> size, key |-> 0]), <<0, 0>>, FALSE, first(data, n))
      last == from(data, n)
  IN hashBlocks(start.h, rewound(start.c, BlockSize - Len(last)), TRUE, padded(last)).h

-----------------------------------------------------------------------------
(* digest.                                                                  *)
-----------------------------------------------------------------------------
Reset(d) ==
  [d EXCEPT !.h = iv([size |-> d.size, key |-> Len(d.key)]), !.c = <<0, 0>>,
            !.block = IF d.key # <<>> THEN padded(d.key) ELSE @,
            !.offset = IF d.key # <<>> THEN BlockSize ELSE 0]

\* For a size and a key newDigest and NewXOF accept; their errors are left out.
newDigest(size, key) ==
  Reset([h |-> <<>>, c |-> <<0, 0>>, size |-> size, block |-> zeroes(BlockSize), offset |-> 0, key |-> key])

\* copy(d.block[at:], p).
copied(block, at, p) ==
  [i \in 1..BlockSize |-> IF i - at \in DOMAIN p THEN p[i - at] ELSE block[i]]

\* The part of Write after the block that was begun is full.
writeBlocks(d, p) ==
  LET nn == whole(Len(p))
      hashed == hashBlocks(d.h, d.c, FALSE, first(p, nn))
  IN [d EXCEPT !.h = hashed.h, !.c = hashed.c, !.block = copied(@, 0, from(p, nn)), !.offset = Len(p) - nn]

Write(d, p) ==
  LET remaining == BlockSize - d.offset
      full == copied(d.block, d.offset, first(p, least(remaining, Len(p))))
      hashed == hashBlocks(d.h, d.c, FALSE, full)
  IN CASE d.offset > 0 /\ Len(p) <= remaining -> [d EXCEPT !.block = full, !.offset = @ + Len(p)]
       [] d.offset > 0 /\ Len(p) > remaining ->
            writeBlocks([d EXCEPT !.h = hashed.h, !.c = hashed.c, !.block = full, !.offset = 0],
                        from(p, remaining))
       [] OTHER -> writeBlocks(d, p)

\* finalize works on copies: the digest can go on after a Sum.
finalize(d) ==
  hashBlocks(d.h, rewound(d.c, BlockSize - d.offset), TRUE, padded(first(d.block, d.offset))).h

\* MarshalBinary and UnmarshalBinary: every field but the key, which a MAC
\* does not give away.
MarshalBinary(d) == <<d.h, d.c, d.size, d.block, d.offset>>
UnmarshalBinary(m) ==
  [h |-> m[1], c |-> m[2], size |-> m[3], block |-> m[4], offset |-> m[5], key |-> <<>>]

-----------------------------------------------------------------------------
(* The extendable output.  A byte of output is its place in the block that  *)
(* the root, the node's offset and the node's length give.                  *)
-----------------------------------------------------------------------------
NewXOF(size, key) ==
  [d |-> newDigest(Size, key), remaining |-> IF size = 0 THEN MaxOutput ELSE size, root |-> <<>>,
   block |-> <<>>, offset |-> 0, nodeOffset |-> 0, length |-> Size, readMode |-> FALSE]

node(x, length) == [i \in 1..Size |-> <<x.root, x.nodeOffset, length, i>>]

\* The node length is shortened for the last block only.
nodeLength(x, todo) == IF todo < Size /\ x.remaining < Size THEN x.remaining ELSE x.length

\* The two loops of Read that make new blocks.
RECURSIVE readNodes(_, _, _)
readNodes(x, todo, out) ==
  LET length == nodeLength(x, todo)
      block == node(x, length)
      take == least(todo, Size)
  IN IF todo = 0 THEN [x |-> x, out |-> out]
     ELSE readNodes([x EXCEPT !.length = length, !.nodeOffset = @ + 1, !.block = block,
                              !.remaining = @ - take, !.offset = IF take = Size THEN @ ELSE take],
                    todo - take, out \o first(block, take))

Read(x0, want) ==
  LET x == IF x0.readMode THEN x0 ELSE [x0 EXCEPT !.root = finalize(x0.d), !.readMode = TRUE]
      n == least(want, x.remaining)
      left == Size - x.offset
  IN CASE x.offset > 0 /\ n < left ->
            [x |-> [x EXCEPT !.offset = @ + n, !.remaining = @ - n],
             out |-> SubSeq(x.block, x.offset + 1, x.offset + n)]
       [] x.offset > 0 /\ n >= left ->
            readNodes([x EXCEPT !.offset = 0, !.remaining = @ - left], n - left, from(x.block, x.offset))
       [] OTHER -> readNodes(x, n, <<>>)

-----------------------------------------------------------------------------
(* The compression function, on words of WordBits bits.                     *)
-----------------------------------------------------------------------------
CONSTANTS WordBits, Rotations

precomputed ==
  << <<0, 2, 4, 6, 1, 3, 5, 7, 8, 10, 12, 14, 9, 11, 13, 15>>,
     <<14, 4, 9, 13, 10, 8, 15, 6, 1, 0, 11, 5, 12, 2, 7, 3>>,
     <<11, 12, 5, 15, 8, 0, 2, 13, 10, 3, 7, 9, 14, 6, 1, 4>>,
     <<7, 3, 13, 11, 9, 1, 12, 14, 2, 5, 4, 15, 6, 10, 0, 8>>,
     <<9, 5, 2, 10, 0, 7, 4, 15, 14, 11, 6, 3, 1, 12, 8, 13>>,
     <<2, 6, 0, 8, 12, 10, 11, 3, 4, 7, 15, 1, 13, 5, 14, 9>>,
     <<12, 1, 14, 4, 5, 15, 13, 10, 0, 6, 9, 8, 7, 3, 2, 11>>,
     <<13, 7, 12, 3, 11, 14, 1, 9, 5, 15, 8, 2, 0, 4, 6, 10>>,
     <<6, 14, 11, 0, 15, 9, 3, 8, 12, 13, 1, 10, 2, 7, 4, 5>>,
     <<10, 8, 7, 1, 2, 4, 6, 5, 15, 9, 3, 13, 11, 14, 12, 0>> >>

add(x, y) == (x + y) % 2 ^ WordBits
rotated(x, r) == (x \div 2 ^ r) + (x % 2 ^ r) * 2 ^ (WordBits - r)

columns == <<<<1, 5, 9, 13>>, <<2, 6, 10, 14>>, <<3, 7, 11, 15>>, <<4, 8, 12, 16>>>>
diagonals == <<<<1, 6, 11, 16>>, <<2, 7, 12, 13>>, <<3, 8, 9, 14>>, <<4, 5, 10, 15>>>>

\* Seven lines of fGeneric: one word of the message into four of the state.
mixed(v, q, word, r1, r2) ==
  LET x == add(add(v[q[1]], word), v[q[2]])
      d == rotated(v[q[4]] ^^ x, r1)
      y == add(v[q[3]], d)
  IN [v EXCEPT ![q[1]] = x, ![q[4]] = d, ![q[3]] = y, ![q[2]] = rotated(@ ^^ y, r2)]

\* One of the four blocks of a round: each of four groups takes one word.
quarter(v, groups, words, r1, r2) ==
  LET a1 == mixed(v, groups[1], words[1], r1, r2)
      a2 == mixed(a1, groups[2], words[2], r1, r2)
      a3 == mixed(a2, groups[3], words[3], r1, r2)
  IN mixed(a3, groups[4], words[4], r1, r2)

round(v, m, i) ==
  LET s == precomputed[(i % 10) + 1]
      words(k) == [j \in 1..4 |-> m[s[4 * k + j] + 1]]
      r == Rotations
      q1 == quarter(v, columns, words(0), r[1], r[2])
      q2 == quarter(q1, columns, words(1), r[3], r[4])
      q3 == quarter(q2, diagonals, words(2), r[1], r[2])
  IN quarter(q3, diagonals, words(3), r[3], r[4])

\* fGeneric before and after its rounds, and F with the flag of the last block.
started(w) ==
  LET flag == IF w.final THEN 2 ^ WordBits - 1 ELSE 0
  IN w.h \o <<w.iv[1], w.iv[2], w.iv[3], w.iv[4], w.iv[5] ^^ w.c[1], w.iv[6] ^^ w.c[2],
              w.iv[7] ^^ flag, w.iv[8]>>

finished(h, v) == [i \in 1..8 |-> h[i] ^^ (v[i] ^^ v[i + 8])]

-----------------------------------------------------------------------------
CONSTANTS
  Keys, Pieces,     \* keys, and the pieces a message comes in
  MaxMessage,       \* bound on the message's length
  Outputs, Reads,   \* lengths of an extendable output, and of its reads
  Vectors           \* inputs of the compression function

\* A digest or an extendable output takes a message in pieces; a digest may
\* be saved and restored meanwhile, an output is read in pieces.
InitBlake ==
  \/ \E k \in Keys : b = [step |-> "digest", d |-> newDigest(Size, k), key |-> k, message |-> <<>>]
  \/ \E k \in Keys, n \in Outputs :
       b = [step |-> "output", x |-> NewXOF(n, k), key |-> k, length |-> n, message |-> <<>>, out |-> <<>>]
  \/ \E w \in Vectors : b = [step |-> "F", in |-> w, v |-> started(w), standard |-> started(w), i |-> 0]

WriteDigest ==
  /\ b.step = "digest"
  /\ \E p \in Pieces : /\ Len(b.message) + Len(p) <= MaxMessage
                       /\ b' = [b EXCEPT !.d = Write(@, p), !.message = @ \o p]

SaveAndRestore ==
  /\ b.step = "digest" /\ b.d.key = <<>>
  /\ b' = [b EXCEPT !.d = UnmarshalBinary(MarshalBinary(@))]

ResetDigest ==
  /\ b.step = "digest"
  /\ b' = [b EXCEPT !.d = Reset(@), !.message = <<>>]

WriteOutput ==
  /\ b.step = "output" /\ ~b.x.readMode
  /\ \E p \in Pieces : /\ Len(b.message) + Len(p) <= BlockSize
                       /\ b' = [b EXCEPT !.x.d = Write(@, p), !.message = @ \o p]

ReadOutput ==
  /\ b.step = "output"
  /\ \E n \in Reads :
       LET r == Read(b.x, n) IN b' = [b EXCEPT !.x = r.x, !.out = @ \o r.out]

-----------------------------------------------------------------------------
\* The blocks of a whole message, the key's block first, each with the count
\* of bytes to its end and the last one with the flag.
Compressed(key, message) ==
  LET all == (IF key # <<>> THEN padded(key) ELSE <<>>) \o message
      n == IF all = <<>> THEN 1 ELSE ((Len(all) - 1) \div BlockSize) + 1
      upto(k) == least(k * BlockSize, Len(all))
  IN iv([size |-> Size, key |-> Len(key)])
       \o [k \in 1..n |-> <<padded(SubSeq(all, (k - 1) * BlockSize + 1, upto(k))),
                            upto(k) % CounterRange, upto(k) \div CounterRange, k = n>>]

\* In whatever pieces Write took a message, across a saved state and across
\* the carry of its counter, Sum compresses the blocks of the whole message;
\* so does the one-shot checksum.
SumOfWhole ==
  b.step = "digest" =>
    /\ finalize(b.d) = Compressed(b.key, b.message)
    /\ b.key = <<>> => checkSum(Size, b.message) = Compressed(b.key, b.message)

\* What Read returns in pieces is the output of the declared length: the
\* nodes in order, and a short last node only at the end.
OutputOfWhole ==
  b.step = "output" =>
    LET length == IF b.length = 0 THEN MaxOutput ELSE b.length
        root == Compressed(b.key, b.message)
        at(i) == LET k == (i - 1) \div Size
                 IN <<root, k, least(Size, length - k * Size), ((i - 1) % Size) + 1>>
    IN b.out = [i \in 1..Len(b.out) |-> at(i)] /\ Len(b.out) + b.x.remaining = length

\* The function G of the standard, and a round of it: the columns, then the
\* diagonals, with two words of the message each.
G(v, q, x, y) ==
  mixed(mixed(v, q, x, Rotations[1], Rotations[2]), q, y, Rotations[3], Rotations[4])

StandardRound(v, m, i) ==
  LET s == precomputed[(i % 10) + 1]
      g[k \in 0..8] ==
        IF k = 0 THEN v
        ELSE LET w == g[k - 1]
                 j == (k - 1) % 4
                 q == IF k <= 4 THEN <<1 + j, 5 + j, 9 + j, 13 + j>>
                      ELSE <<1 + j, 5 + ((j + 1) % 4), 9 + ((j + 2) % 4), 13 + ((j + 3) % 4)>>
                 base == IF k <= 4 THEN 0 ELSE 8
             IN G(w, q, m[s[base + j + 1] + 1], m[s[base + j + 5] + 1])
  IN g[8]

\* One round of F, beside the same round of the standard.
Round ==
  /\ b.step = "F" /\ b.i < b.in.rounds
  /\ b' = [b EXCEPT !.v = round(@, b.in.m, b.i), !.standard = StandardRound(@, b.in.m, b.i), !.i = @ + 1]

Finish ==
  /\ b.step = "F" /\ b.i = b.in.rounds
  /\ b' = [step |-> "compressed", in |-> b.in, h |-> finished(b.in.h, b.v), standard |-> b.standard]

NextBlake == WriteDigest \/ SaveAndRestore \/ ResetDigest \/ WriteOutput \/ ReadOutput \/ Round \/ Finish


\* The unrolled rounds of fGeneric, which treat four columns or diagonals
\* side by side, leave the state that the function G of the standard leaves
\* when it is applied to them one after the other.
RoundsAreStandard ==
  /\ b.step = "F" => b.v = b.standard
  /\ b.step = "compressed" => b.h = finished(b.in.h, b.standard)
=============================================================================
