----------------------------- MODULE Conversion -----------------------------
(***************************************************************************)
(* The conversions of utils/common/uint256 between an Int and bytes, big   *)
(* integers, RLP and hexadecimal text, in their real sizes: a limb is the  *)
(* sequence of its 8 bytes, most significant first, and an Int the         *)
(* sequence of its 4 limbs from the least significant one.  A text is a    *)
(* sequence of digits 0..15, X for the prefix letter and Bad for any other *)
(* character.  t is one conversion: the bytes given, and what they became. *)
(***************************************************************************)
EXTENDS Integers, Sequences, FiniteSets

VARIABLE t

X == 16
Bad == 17
zeros(n) == [i \in 1..n |-> 0]
lastOf(s, n) == SubSeq(s, IF Len(s) > n THEN Len(s) - n + 1 ELSE 1, Len(s))
firstOf(s, n) == SubSeq(s, 1, IF Len(s) > n THEN n ELSE Len(s))
leading(s) == Cardinality({i \in 1..Len(s) : \A j \in 1..i : s[j] = 0})
stripped(s) == SubSeq(s, leading(s) + 1, Len(s))
padded(s, n) == zeros(n - Len(s)) \o s
Flat(z) == z[4] \o z[3] \o z[2] \o z[1]
digits(bytes) == [i \in 1 .. 2 * Len(bytes) |->
                     LET b == bytes[(i + 1) \div 2] IN IF i % 2 = 1 THEN b \div 16 ELSE b % 16]

-----------------------------------------------------------------------------
\* A limb of one to four bytes: uint64(in[0]), Uint16, Uint16 | in[0]<<16, Uint32.
shortLimb(b) == padded(b, 8)
\* A limb of five to seven bytes: bigEndianUint40, 48 and 56.
bigEndianUint(b) == padded(b, 8)
Uint64(b) == b
limbOf(b) == CASE Len(b) = 8 -> Uint64(b) [] Len(b) \in 5..7 -> bigEndianUint(b) [] OTHER -> shortLimb(b)

\* SetBytes1 to SetBytes32: eight bytes a limb from the end, the rest in the limb above.
SetBytesN(in) ==
    LET cut(i) == lastOf(firstOf(in, IF Len(in) > 8 * i - 8 THEN Len(in) - (8 * i - 8) ELSE 0), 8)
    IN  <<limbOf(cut(1)), limbOf(cut(2)), limbOf(cut(3)), limbOf(cut(4))>>
SetBytes(buf) == SetBytesN(lastOf(buf, 32))

Bytes32(z) == Flat(z)
Bytes20(z) == lastOf(z[3], 4) \o z[2] \o z[1]
BitLen(z) ==
    LET s == stripped(Flat(z))
    IN  IF s = <<>> THEN 0
        ELSE 8 * Len(s) - 8 + Cardinality({k \in 0..7 : s[1] >= 2 ^ k})
ByteLen(z) == (BitLen(z) + 7) \div 8
Bytes(z) == LET b == Bytes32(z) IN SubSeq(b, 33 - ByteLen(z), 32)

\* Byte i from the right: z[i/8] >> 8*(i%8).
byteOf(z, i) == z[i \div 8 + 1][8 - (i % 8)]
WriteToSlice(z, dest) ==
    LET end == IF Len(dest) > 32 THEN 32 ELSE Len(dest)
    IN  [k \in 1..Len(dest) |-> IF k <= end THEN byteOf(z, end - k) ELSE dest[k]]
PaddedBytes(z, n) == [k \in 1..n |-> IF n - k < 32 THEN byteOf(z, n - k) ELSE 0]

-----------------------------------------------------------------------------
\* big.Int: a sign and the words of the absolute value, none of them a leading zero.
ToBig(z) ==
    LET top == {i \in 1..4 : z[i] # zeros(8)}
        n == IF top = {} THEN 0 ELSE CHOOSE i \in top : \A j \in top : j <= i
    IN  [neg |-> FALSE, words |-> SubSeq(z, 1, n)]

\* Neg: the two's complement of the 32 bytes.
Neg(z) ==
    LET b == Flat(z)
        low == {i \in 1..32 : b[i] # 0 /\ \A j \in i+1..32 : b[j] = 0}
    IN  SetBytes([i \in 1..32 |-> IF \E l \in low : i < l THEN 255 - b[i]
                                  ELSE IF i \in low THEN 256 - b[i] ELSE 0])
SetFromBig(b) ==
    LET word(i) == IF i <= Len(b.words) THEN b.words[i] ELSE zeros(8)
        z == <<word(1), word(2), word(3), word(4)>>
    IN  [z |-> IF b.neg THEN Neg(z) ELSE z, overflow |-> Len(b.words) > 4]

EncodeRLP(z) ==
    CASE BitLen(z) = 0 -> <<128>>
      [] BitLen(z) \in 1..7 -> <<z[1][8]>>
      [] OTHER -> <<128 + ByteLen(z)>> \o lastOf(Flat(z), ByteLen(z))

-----------------------------------------------------------------------------
\* The digits of the limbs up to the top one, cut to the significant ones.
Hex(z) ==
    LET nibbles == IF BitLen(z) = 0 THEN 1 ELSE (BitLen(z) + 3) \div 4
    IN  <<0, X>> \o lastOf(digits(Flat(z)), nibbles)

checkNumberS(s) ==
    CASE Len(s) = 0 -> "empty string"
      [] Len(s) = 1 -> "missing prefix"
      [] Len(s) > 1 /\ (s[1] # 0 \/ s[2] # X) -> "missing prefix"
      [] Len(s) = 2 /\ s[1] = 0 /\ s[2] = X -> "empty number"
      [] Len(s) > 3 /\ s[1] = 0 /\ s[2] = X /\ s[3] = 0 -> "leading zero"
      [] OTHER -> ""

\* The digits of limb i: sixteen from the end, and not beyond the prefix.
limbDigits(s, i) ==
    LET end == Len(s) - 16 * (i - 1)
    IN  SubSeq(s, IF end - 16 < 2 THEN 3 ELSE end - 15, end)

\* Every digit shifts the limb of z it belongs to, whatever z held before.
fromHex(z, s) ==
    LET limb(i) == LET d == lastOf(digits(z[i]) \o limbDigits(s, i), 16)
                   IN  [k \in 1..8 |-> 16 * d[2 * k - 1] + d[2 * k]]
        err == IF checkNumberS(s) # "" THEN checkNumberS(s)
               ELSE IF Len(s) > 66 THEN "range"
               ELSE IF \E k \in 3..Len(s) : s[k] >= X THEN "syntax" ELSE ""
    IN  [err |-> err, z |-> IF err = "" THEN <<limb(1), limb(2), limb(3), limb(4)>> ELSE z]
FromHex(s) == fromHex(<<zeros(8), zeros(8), zeros(8), zeros(8)>>, s)
MarshalText(z) == Hex(z)
UnmarshalText(z, s) == fromHex(z, s)

-----------------------------------------------------------------------------
\* One way in and every way out.
Given(bytes, text) == t = [in |-> bytes, text |-> text, done |-> FALSE]
Convert ==
    LET z == SetBytes(t.in)
    IN  /\ ~t.done
        /\ t' = [in |-> t.in, text |-> t.text, done |-> TRUE, z |-> z, parsed |-> FromHex(t.text),
                 bytes |-> Bytes(z), b20 |-> Bytes20(z), hex |-> Hex(z), rlp |-> EncodeRLP(z), big |-> ToBig(z)]

\* What the 32 bytes of a number must be: the last 32 given, with zeros in front.
number == padded(lastOf(t.in, 32), 32)

\* No byte moves: whatever the length given, and whatever limb it ends in, the bytes, the
\* slices of every length, the 20 bytes of an address and the big integer that come out of
\* an Int are those of the number that went in.
BytesKept ==
    t.done =>
        /\ Bytes32(t.z) = number
        /\ t.bytes = stripped(number)
        /\ t.b20 = lastOf(number, 20)
        /\ \A n \in {0, 1, 7, 20, 32, 33, 40} :
               /\ WriteToSlice(t.z, [k \in 1..n |-> 9]) = firstOf(lastOf(number, n) \o [k \in 1..n |-> 9], n)
               /\ PaddedBytes(t.z, n) = padded(lastOf(number, n), n)
        /\ SetFromBig(t.big) = [z |-> t.z, overflow |-> FALSE]
        /\ SetFromBig([t.big EXCEPT !.neg = TRUE]).z = Neg(t.z)
        /\ Neg(Neg(t.z)) = t.z

\* The RLP string item of a number is the shortest: nothing but a byte below 128 goes
\* without a header, and the header counts the bytes that follow.
RlpCanonical ==
    t.done => LET s == stripped(number)
              IN  t.rlp = IF Len(s) = 1 /\ s[1] < 128 THEN s ELSE <<128 + Len(s)>> \o s

\* Hex writes what FromHex reads, and FromHex reads nothing else: a text is accepted
\* exactly when it is a prefix and the digits of a 256-bit number without a leading zero,
\* and then it is the text of the number it was read into.  UnmarshalText shifts the
\* digits into the number it is called on: into zero it reads what MarshalText wrote,
\* into any other number only a text of all 64 digits.
HexRoundTrips ==
    t.done =>
        /\ FromHex(t.hex) = [err |-> "", z |-> t.z]
        /\ UnmarshalText(SetBytes(<<>>), MarshalText(t.z)).z = t.z
        /\ (UnmarshalText(SetBytes([i \in 1..32 |-> 255]), MarshalText(t.z)).z = t.z)
              <=> (Len(MarshalText(t.z)) = 66)
        /\ t.parsed.err = "" => Hex(t.parsed.z) = t.text
        /\ (t.parsed.err = "") <=>
               /\ Len(t.text) \in 3..66 /\ t.text[1] = 0 /\ t.text[2] = X
               /\ \A k \in 3..Len(t.text) : t.text[k] < X
               /\ t.text[3] = 0 => Len(t.text) = 3
=============================================================================
