------------------------------ MODULE Uint256 ------------------------------
(***************************************************************************)
(* utils/common/uint256: four-limb integers.  A limb has LimbBits bits     *)
(* (64 in the code), and an Int is the sequence of its limbs from the      *)
(* least significant one: z[i] here is z[i-1] in the code.  Every method   *)
(* is the limb algorithm of the code; Words says what it must compute.  u  *)
(* is one call: its operands, and its result once it has been made.        *)
(***************************************************************************)
EXTENDS Words, Sequences

CONSTANTS LimbBits, ByteBits

VARIABLE u

B == 2 ^ LimbBits
Limb == 1..4
val(z) == z[1] + B * (z[2] + B * (z[3] + B * z[4]))
int(limb(_)) == <<limb(1), limb(2), limb(3), limb(4)>>
limbs(v) == int(LAMBDA i : (v \div B ^ (i - 1)) % B)
left(x, n)  == IF n >= LimbBits THEN 0 ELSE (x * 2 ^ n) % B
right(x, n) == IF n >= LimbBits THEN 0 ELSE x \div 2 ^ n

-----------------------------------------------------------------------------
SetUint64(x) == <<x, 0, 0, 0>>
Clear     == SetUint64(0)
SetOne    == SetUint64(1)
SetAllOne == <<B - 1, B - 1, B - 1, B - 1>>
IsUint64(z) == \A i \in 2..4 : z[i] = 0
IsZero(z) == z[1] = 0 /\ IsUint64(z)
LtUint64(z, n) == z[1] < n /\ IsUint64(z)
GtUint64(z, n) == z[1] > n \/ ~IsUint64(z)

\* bits.Add64 and bits.Sub64 along the limbs of y: the result and the last carry.
addTo(x, y) ==
    LET f[i \in 0..Len(y)] ==
            IF i = 0 THEN [z |-> <<>>, carry |-> 0]
            ELSE LET p == f[i - 1]
                     s == x[i] + y[i] + p.carry
                 IN  [z |-> Append(p.z, s % B), carry |-> s \div B]
    IN  f[Len(y)]
subTo(x, y) ==
    LET f[i \in 0..Len(y)] ==
            IF i = 0 THEN [z |-> <<>>, carry |-> 0]
            ELSE LET p == f[i - 1]
                     s == x[i] - y[i] - p.carry
                 IN  [z |-> Append(p.z, s % B), carry |-> bool(s < 0)]
    IN  f[Len(y)]

AddOverflow(x, y) == addTo(x, y)
Add(x, y) == AddOverflow(x, y).z
SubOverflow(x, y) == subTo(x, y)
Sub(x, y) == SubOverflow(x, y).z
Lt(z, x) == SubOverflow(z, x).carry = 1
Gt(z, x) == Lt(x, z)
Cmp(z, x) == IF Gt(z, x) THEN 1 ELSE IF Lt(z, x) THEN -1 ELSE 0
Neg(x) == Sub(Clear, x)
Abs(x) == IF x[4] < B \div 2 THEN x ELSE Sub(Clear, x)
Sign(z) == IF IsZero(z) THEN 0 ELSE IF z[4] < B \div 2 THEN 1 ELSE -1

\* Signs first; the unsigned order decides between words of one sign.
Slt(z, x) ==
    CASE Sign(z) >= 0 /\ Sign(x) < 0 -> FALSE
      [] Sign(z) < 0 /\ Sign(x) >= 0 -> TRUE
      [] OTHER -> Lt(z, x)
Sgt(z, x) ==
    CASE Sign(z) >= 0 /\ Sign(x) < 0 -> TRUE
      [] Sign(z) < 0 /\ Sign(x) >= 0 -> FALSE
      [] OTHER -> Gt(z, x)

\* x - y into z: the method returns at the first limb that does not borrow, and counts
\* down z's own top limb.
SubUint64(z, x, y) ==
    LET borrow == [i \in Limb |-> x[1] < y /\ \A j \in 2 .. i - 1 : x[j] = 0]
    IN  <<(x[1] - y) % B,
          IF borrow[2] THEN (x[2] - 1) % B ELSE z[2],
          IF borrow[3] THEN (x[3] - 1) % B ELSE z[3],
          IF borrow[4] THEN (z[4] - 1) % B ELSE z[4]>>

-----------------------------------------------------------------------------
\* Multiplication: hi * B + lo of z + x * y + carry.
umulStep(z, x, y, carry) ==
    LET p == z + x * y + carry IN [hi |-> (p \div B) % B, lo |-> p % B]
umulHop(z, x, y) == umulStep(z, x, y, 0)

\* One row x * y[j] after the other, on top of the row before; its last carry is a new limb.
umul(x, y) ==
    LET f[k \in 0..16] ==
            IF k = 0 THEN [res |-> <<0, 0, 0, 0, 0, 0, 0, 0>>, carry |-> 0]
            ELSE LET i == (k - 1) % 4
                     j == (k - 1) \div 4
                     p == f[k - 1]
                     s == umulStep(p.res[i + j + 1], x[i + 1], y[j + 1], p.carry)
                 IN  IF i = 3
                     THEN [res |-> [p.res EXCEPT ![i + j + 1] = s.lo, ![i + j + 2] = s.hi], carry |-> 0]
                     ELSE [res |-> [p.res EXCEPT ![i + j + 1] = s.lo], carry |-> s.hi]
    IN  f[16].res

\* The low half only: the products that end in the top limb are cut to a limb.
Mul(x, y) ==
    LET a1 == umulHop(0, x[1], y[1])
        a2 == umulHop(a1.hi, x[2], y[1])
        a3 == umulHop(a2.hi, x[3], y[1])
        b2 == umulHop(a2.lo, x[1], y[2])
        b3 == umulStep(a3.lo, x[2], y[2], b2.hi)
        c3 == umulHop(b3.lo, x[1], y[3])
        top == x[4] * y[1] + a3.hi + x[3] * y[2] + b3.hi + x[2] * y[3] + c3.hi + x[1] * y[4]
    IN  <<a1.lo, b2.lo, c3.lo, top % B>>

MulOverflow(x, y) ==
    LET p == umul(x, y)
    IN  [z |-> SubSeq(p, 1, 4), carry |-> bool(\E i \in 5..8 : p[i] # 0)]

squared(z) ==
    LET a1 == umulHop(0, z[1], z[1])
        a2 == umulHop(a1.hi, z[1], z[2])
        a3 == umulHop(a2.hi, z[1], z[3])
        b2 == umulHop(a2.lo, z[1], z[2])
        b3 == umulStep(a3.lo, z[2], z[2], b2.hi)
        c3 == umulHop(b3.lo, z[1], z[3])
        top == 2 * (z[1] * z[4] + z[2] * z[3]) + a3.hi + b3.hi + c3.hi
    IN  <<a1.lo, b2.lo, c3.lo, top % B>>

-----------------------------------------------------------------------------
\* x - y * multiplier along the limbs of y, and what is borrowed beyond them.
subMulTo(x, y, multiplier) ==
    LET f[i \in 0..Len(y)] ==
            IF i = 0 THEN [z |-> <<>>, borrow |-> 0]
            ELSE LET p == f[i - 1]
                     s == x[i] - p.borrow
                     m == y[i] * multiplier
                 IN  [z |-> Append(p.z, (s - m) % B),
                      borrow |-> ((m \div B) + bool(s < 0) + bool((s % B) < (m % B))) % B]
    IN  f[Len(y)]

reciprocal2by1(d) == ((B - 1 - d) * B + B - 1) \div d

\* The quotient found may be one too large, and then one too small.
lowered(qh, r, low, d) ==
    IF r > low THEN [quot |-> (qh - 1) % B, rem |-> (r + d) % B] ELSE [quot |-> qh, rem |-> r]
raised(g, d) == IF g.rem >= d THEN [quot |-> (g.quot + 1) % B, rem |-> g.rem - d] ELSE g

udivrem2by1(uh, ul, d, reciprocal) ==
    LET p  == reciprocal * uh + ul      \* its low limb carries into p \div B
        qh == ((p \div B) + uh + 1) % B
    IN  raised(lowered(qh, (ul - qh * d) % B, p % B, d), d)

udivremBy1(w, d) ==
    LET f[k \in 1..Len(w)] ==           \* after the k top limbs
            IF k = 1 THEN [quot |-> <<>>, rem |-> w[Len(w)]]
            ELSE LET p == f[k - 1]
                     s == udivrem2by1(p.rem, w[Len(w) + 1 - k], d, reciprocal2by1(d))
                 IN  [quot |-> <<s.quot>> \o p.quot, rem |-> s.rem]
    IN  f[Len(w)]

\* A guess from the two top limbs of w, the limbs at hand, corrected by the third.
corrected(g, p, third) ==
    g.quot - bool((p \div B) > g.rem \/ ((p \div B) = g.rem /\ (p % B) > third))
guess(w, d) ==
    LET n == Len(d)
        g == udivrem2by1(w[n + 1], w[n], d[n], reciprocal2by1(d[n]))
    IN  IF w[n + 1] >= d[n] THEN B - 1 ELSE corrected(g, g.quot * d[n - 1], w[n - 1])

\* One digit of the quotient; the guess may be one too large, then d is added back.
addedBack(top, s, a, qhat) == [w |-> Append(a.z, (top - s.borrow + a.carry) % B), q |-> qhat - 1]
subtracted(top, d, s, qhat) ==
    IF top < s.borrow THEN addedBack(top, s, addTo(s.z, d), qhat)
    ELSE [w |-> Append(s.z, top - s.borrow), q |-> qhat]
digitOf(w, d, qhat) == subtracted(w[Len(d) + 1], d, subMulTo(w, d, qhat), qhat)
knuthDigit(w, d) == digitOf(w, d, guess(w, d))

\* w is left with the remainder.
udivremKnuth(w, d) ==
    LET n == Len(d)
        f[k \in 0 .. Len(w) - n] ==
            IF k = 0 THEN [quot |-> <<>>, w |-> w]
            ELSE LET p == f[k - 1]
                     j == Len(w) - n - k
                     s == knuthDigit(SubSeq(p.w, j + 1, j + n + 1), d)
                 IN  [quot |-> <<s.q>> \o p.quot,
                      w |-> SubSeq(p.w, 1, j) \o s.w \o SubSeq(p.w, j + n + 2, Len(w))]
    IN  f[Len(w) - n]

significant(x) == CHOOSE n \in 1..Len(x) : x[n] # 0 /\ \A i \in n+1..Len(x) : x[i] = 0

\* The limbs of x shifted up by less than a limb, and a limb for what leaves the top.
shifted(x, shift) ==
    LET f[i \in 0..Len(x)+1] ==
            IF i = 0 THEN <<>>
            ELSE Append(f[i - 1], (IF i > Len(x) THEN 0 ELSE left(x[i], shift))
                                  + (IF i = 1 THEN 0 ELSE right(x[i - 1], LimbBits - shift)))
    IN  f[Len(x) + 1]

\* Both numbers are shifted until the divisor's top bit is set, divided, and the
\* remainder is shifted back.
shiftedBack(w, dLen, shift) ==
    int(LAMBDA i : CASE i < dLen -> right(w[i], shift) + left(w[i + 1], LimbBits - shift)
                     [] i = dLen -> right(w[i], shift)
                     [] OTHER -> 0)
oneLimb(o, shift) == [quot |-> o.quot, rem |-> SetUint64(right(o.rem, shift))]
manyLimbs(o, dLen, shift) == [quot |-> o.quot, rem |-> shiftedBack(o.w, dLen, shift)]
divided(un, dn, shift) ==
    IF Len(dn) = 1 THEN oneLimb(udivremBy1(un, dn[1]), shift)
    ELSE manyLimbs(udivremKnuth(un, dn), Len(dn), shift)
normalised(x, d, shift) ==
    divided(shifted(x, shift), SubSeq(shifted(d, shift), 1, Len(d)), shift)
cut(x) == SubSeq(x, 1, significant(x))
udivrem(x, d) == normalised(cut(x), cut(d), LimbBits - bitLen(d[significant(d)]))

Div(x, y) ==
    IF IsZero(y) \/ Gt(y, x) THEN Clear
    ELSE IF x = y THEN SetOne
    ELSE IF IsUint64(x) THEN SetUint64(x[1] \div y[1])
    ELSE LET q == udivrem(x, y).quot IN int(LAMBDA i : IF i > Len(q) THEN 0 ELSE q[i])

Mod(x, y) ==
    IF IsZero(x) \/ IsZero(y) \/ Cmp(x, y) = 0 THEN Clear
    ELSE IF Cmp(x, y) = -1 THEN x
    ELSE IF IsUint64(x) THEN SetUint64(x[1] % y[1])
    ELSE udivrem(x, y).rem

\* mutant: m is not cloned.
modulus_Shared(m, z, alias) == IF alias THEN z ELSE m
\* The modulus AddMod divides by once it has written the sum z; when the result is also
\* m (alias), m was cloned before.
modulus(m, z, alias) == m

AddMod(x, y, m, alias) ==
    LET s == AddOverflow(x, y)
        d == modulus(m, s.z, alias)
    IN  IF IsZero(m) THEN Clear
        ELSE IF s.carry = 1 THEN udivrem(Append(s.z, 1), d).rem
        ELSE Mod(s.z, d)

MulMod(x, y, m) ==
    LET p == umul(x, y)
    IN  IF IsZero(x) \/ IsZero(y) \/ IsZero(m) THEN Clear
        ELSE IF \A i \in 5..8 : p[i] = 0 THEN Mod(SubSeq(p, 1, 4), m)
        ELSE udivrem(p, m).rem

SMod(x, y) ==
    LET z == Mod(IF Sign(x) = -1 THEN Neg(x) ELSE x, IF Sign(y) = -1 THEN Neg(y) ELSE y)
    IN  IF Sign(x) = -1 THEN Neg(z) ELSE z

SDiv(n, d) ==
    CASE Sign(n) > 0 /\ Sign(d) > 0 -> Div(n, d)
      [] Sign(n) > 0 /\ Sign(d) <= 0 -> Neg(Div(n, Neg(d)))
      [] Sign(n) <= 0 /\ Sign(d) < 0 -> Div(Neg(n), Neg(d))
      [] OTHER -> Neg(Div(Neg(n), d))

-----------------------------------------------------------------------------
isBitSet(z, n) == (z[n \div LimbBits + 1] \div 2 ^ (n % LimbBits)) % 2 = 1
BitLen(z) ==
    IF IsZero(z) THEN 0 ELSE (significant(z) - 1) * LimbBits + bitLen(z[significant(z)])

\* lsh64, lsh128, lsh192 and their right-hand counterparts: k whole limbs.
lsh(x, k) == int(LAMBDA i : IF i > k THEN x[i - k] ELSE 0)
rsh(x, k, fill) == int(LAMBDA i : IF i + k <= 4 THEN x[i + k] ELSE fill)

\* Whole limbs first, then the rest of n across neighbouring limbs.
Lsh(x, n) ==
    LET k == n \div LimbBits
        r == n % LimbBits
        z == lsh(x, k)
    IN  IF k > 3 THEN Clear
        ELSE IF r = 0 THEN z
        ELSE int(LAMBDA i : left(z[i], r) + (IF i = 1 THEN 0 ELSE right(z[i - 1], LimbBits - r)))

shiftRight(x, n, fill) ==
    LET k == n \div LimbBits
        r == n % LimbBits
        z == rsh(x, k, fill)
    IN  IF k > 3 THEN int(LAMBDA i : fill)
        ELSE IF r = 0 THEN z
        ELSE int(LAMBDA i : right(z[i], r) + left(IF i = 4 THEN fill ELSE z[i + 1], LimbBits - r))
Rsh(x, n) == shiftRight(x, n, 0)
SRsh(x, n) == IF isBitSet(x, 4 * LimbBits - 1) THEN shiftRight(x, n, B - 1) ELSE Rsh(x, n)

not(x) == int(LAMBDA i : B - 1 - x[i])
or(x, y)  == int(LAMBDA i : x[i] | y[i])
and(x, y) == int(LAMBDA i : x[i] & y[i])
xor(x, y) == int(LAMBDA i : x[i] ^^ y[i])

\* Byte n of z from the left, a byte being ByteBits of a limb.
Byte(z, n) ==
    LET perLimb == LimbBits \div ByteBits
        offset == (n[1] % perLimb) * ByteBits
    IN  IF ~IsUint64(n) \/ n[1] >= 4 * perLimb THEN Clear
        ELSE SetUint64((z[4 - n[1] \div perLimb] \div 2 ^ (LimbBits - ByteBits - offset)) % 2 ^ ByteBits)

\* Square and multiply over the exponent's bits, limb by limb.
Exp(base, e) ==
    LET f[k \in 0..BitLen(e)] ==
            IF k = 0 THEN [res |-> SetOne, mul |-> base]
            ELSE LET p == f[k - 1]
                 IN  [res |-> IF isBitSet(e, k - 1) THEN Mul(p.res, p.mul) ELSE p.res, mul |-> squared(p.mul)]
    IN  f[BitLen(e)].res

ExtendSign(x, byteNum) ==
    LET bit  == byteNum[1] * ByteBits + ByteBits - 1
        one  == Lsh(SetOne, bit)
        mask == SubUint64(one, one, 1)
    IN  IF GtUint64(byteNum, (4 * LimbBits) \div ByteBits - 1) THEN x
        ELSE IF isBitSet(x, bit) THEN or(x, not(mask)) ELSE and(x, mask)

-----------------------------------------------------------------------------
flag(p) == IF p THEN SetOne ELSE Clear
\* One method call on the operands: its result, as limbs.
call(op, x, y, m) ==
    CASE op = "Add" -> Add(x, y)
      [] op = "AddOverflow" -> SetUint64(AddOverflow(x, y).carry)
      [] op = "Sub" -> Sub(x, y)
      [] op = "SubUint64" -> SubUint64(x, x, y[1])
      [] op = "SubUint64 into m" -> SubUint64(m, x, y[1])
      [] op = "Mul" -> Mul(x, y)
      [] op = "MulOverflow" -> SetUint64(MulOverflow(x, y).carry)
      [] op = "MulOverflow low" -> MulOverflow(x, y).z
      [] op = "Div" -> Div(x, y)
      [] op = "Mod" -> Mod(x, y)
      [] op = "SDiv" -> SDiv(x, y)
      [] op = "SMod" -> SMod(x, y)
      [] op = "AddMod" -> AddMod(x, y, m, FALSE)
      [] op = "AddMod into m" -> AddMod(x, y, m, TRUE)
      [] op = "MulMod" -> MulMod(x, y, m)
      [] op = "Exp" -> Exp(x, y)
      [] op = "Lt" -> flag(Lt(x, y))
      [] op = "LtUint64" -> flag(LtUint64(x, y[1]))
      [] op = "Slt" -> flag(Slt(x, y))
      [] op = "Sgt" -> flag(Sgt(x, y))
      [] op = "Abs" -> Abs(x)
      [] op = "BitLen" -> SetUint64(BitLen(x) % B)
      [] op = "Lsh" -> Lsh(x, y[1] + B * y[2])
      [] op = "Rsh" -> Rsh(x, y[1] + B * y[2])
      [] op = "SRsh" -> SRsh(x, y[1] + B * y[2])
      [] op = "Xor" -> xor(x, y)
      [] op = "Byte" -> Byte(x, y)
      [] op = "ExtendSign" -> ExtendSign(x, y)

\* x * y mod m, one bit of y at a time.
mulMod(x, y, m) ==
    LET f[k \in 0..WordBits] ==
            IF k = 0 THEN 0
            ELSE (2 * f[k - 1] + x * ((y \div 2 ^ (WordBits - k)) % 2)) % m
    IN  IF m = 0 THEN 0 ELSE f[WordBits]

\* a - b into a number that held c: as many limbs as the borrow reaches, and one more,
\* are those of the difference; the others stay c's, and a borrow that reaches the top
\* limb is taken from c's.
subInto(a, b, c) ==
    LET k == CHOOSE k \in 1..4 : /\ k = 4 \/ a % B ^ k >= b
                                 /\ \A j \in 1..(k - 1) : a % B ^ j < b
    IN  IF k < 4 THEN (c - (c % B ^ k)) + ((a - b) % B ^ k)
        ELSE (((c - (c % B ^ 3)) - B ^ 3) % W) + ((a - b) % B ^ 3)

\* What the method promises, of the numbers.
meaning(op, a, b, c) ==
    CASE op = "Add" -> (a + b) % W
      [] op = "AddOverflow" -> bool(a + b >= W)
      [] op = "Sub" -> (a - b) % W
      [] op = "SubUint64" -> (a - (b % B)) % W
      [] op = "SubUint64 into m" -> subInto(a, b % B, c)
      [] op \in {"Mul", "MulOverflow low"} -> times(a, b)
      [] op = "MulOverflow" -> bool(b # 0 /\ a > (W - 1) \div b)
      [] op = "Div" -> div(a, b)
      [] op = "Mod" -> mod(a, b)
      [] op = "SDiv" -> sdiv(a, b)
      [] op = "SMod" -> smod(a, b)
      [] op \in {"AddMod", "AddMod into m"} -> mod(a + b, c)
      [] op = "MulMod" -> mulMod(a, b, c)
      [] op = "Exp" -> power(a, b)
      [] op = "Lt" -> bool(a < b)
      [] op = "LtUint64" -> bool(a < b % B)
      [] op = "Slt" -> bool(signed(a) < signed(b))
      [] op = "Sgt" -> bool(signed(a) > signed(b))
      [] op = "Abs" -> abs(signed(a))
      [] op = "BitLen" -> bitLen(a) % B
      [] op = "Lsh" -> shl(b % B ^ 2, a)
      [] op = "Rsh" -> shr(b % B ^ 2, a)
      [] op = "SRsh" -> sar(b % B ^ 2, a)
      [] op = "Xor" -> a ^^ b
      [] op = "Byte" -> byteAt(b, a, ByteBits)
      [] op = "ExtendSign" -> signextend(b, a, ByteBits)

Binary == {"Add", "AddOverflow", "Sub", "SubUint64", "Mul", "MulOverflow", "MulOverflow low", "Div", "Mod",
           "SDiv", "SMod", "Exp", "Lt", "LtUint64", "Slt", "Sgt", "Abs", "BitLen", "Xor"}
Ternary == {"AddMod", "AddMod into m", "MulMod"}
Into == {"SubUint64 into m"}
Shift == {"Lsh", "Rsh", "SRsh", "Byte", "ExtendSign"}

Operands(x, y, m, ops) == u = [x |-> x, y |-> y, m |-> m, ops |-> ops, op |-> "", r |-> Clear]
Call == \E op \in u.ops :
           /\ u.op = ""
           /\ u' = [u EXCEPT !.op = op, !.r = call(op, u.x, u.y, u.m)]

\* Every method returns the number its name promises, for words whose limbs carry,
\* borrow, need the quotient digit corrected or added back: the limb algorithms of
\* uint256.go and div.go lose nothing between limbs.  The result may be an operand of
\* SubUint64 (z = x) and of AddMod (z = m).  SubUint64 into a third number is the
\* exception: it leaves that number's limbs above the last borrow in place.
ResultsExact == u.op # "" => val(u.r) = meaning(u.op, val(u.x), val(u.y), val(u.m))
=============================================================================
