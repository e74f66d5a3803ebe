------------------------------ MODULE BlsCurve ------------------------------
(***************************************************************************)
(* The groups of crypto/bls12381: g1.go and g2.go hold the same code, over *)
(* fp and over fp2.  A point is <<x, y, z>> in Jacobian coordinates; the   *)
(* elements of the field are reduced.  Every operation may have its result *)
(* among its operands, which is why Double keeps the new y aside until z   *)
(* has been computed.                                                      *)
(***************************************************************************)
EXTENDS Integers, Sequences

CONSTANTS
    add(_, _), sub(_, _), mul(_, _), inverse(_),   \* the field
    zero, one,
    valid(_),                                      \* isValid: the coordinates are below the modulus
    b,                                             \* of y^2 = x^3 + b
    q                                              \* the order of the subgroup

square(x) == mul(x, x)
double(x) == add(x, x)

Zero == <<zero, one, zero>>
IsZero(p) == p[3] = zero

IsOnCurve(p) ==
    \/ IsZero(p)
    \/ LET z2 == square(p[3])
       IN  square(p[2]) = add(mul(square(p[1]), p[1]), mul(b, mul(z2, square(z2))))

Equal(p1, p2) ==
    IF IsZero(p1) \/ IsZero(p2) THEN IsZero(p1) /\ IsZero(p2)
    ELSE LET t0 == square(p1[3])
             t1 == square(p2[3])
         IN  /\ mul(mul(t0, p1[3]), p2[2]) = mul(mul(t1, p2[3]), p1[2])
             /\ mul(t0, p2[1]) = mul(t1, p1[1])

Affine(p) ==
    IF IsZero(p) \/ p[3] = one THEN p
    ELSE LET t0 == inverse(p[3])
             t1 == square(t0)
         IN  <<mul(p[1], t1), mul(p[2], mul(t0, t1)), one>>

Double(p) ==
    IF IsZero(p) THEN p
    ELSE LET A  == square(p[1])
             B  == square(p[2])
             C  == square(B)
             D  == double(sub(sub(square(add(p[1], B)), A), C))
             E  == add(double(A), A)
             r0 == sub(square(E), double(D))
         IN  <<r0, sub(mul(E, sub(D, r0)), double(double(double(C)))), double(mul(p[2], p[3]))>>

Add(p1, p2) ==
    IF IsZero(p1) THEN p2
    ELSE IF IsZero(p2) THEN p1
    ELSE LET zz1 == square(p1[3])
             zz2 == square(p2[3])
             u1  == mul(p1[1], zz2)
             u2  == mul(p2[1], zz1)
             s1  == mul(p1[2], mul(p2[3], zz2))
             s2  == mul(p2[2], mul(p1[3], zz1))
             h   == sub(u2, u1)
             i   == square(double(h))
             j   == mul(h, i)
             r   == double(sub(s2, s1))
             v   == mul(u1, i)
             x   == sub(sub(square(r), j), double(v))
         IN  IF u1 = u2 THEN IF s1 = s2 THEN Double(p1) ELSE Zero
             ELSE <<x,
                    sub(mul(r, sub(v, x)), double(mul(s1, j))),
                    mul(sub(sub(square(add(p1[3], p2[3])), zz1), zz2), h)>>

Neg(p) == <<p[1], sub(zero, p[2]), p[3]>>
Sub(a, c) == Add(a, Neg(c))

BitLen(e) == CHOOSE l \in 0..16 : 2^l > e /\ (l = 0 \/ 2^(l - 1) <= e)

\* From the lowest bit: <<the sum so far, the point doubled>>.
MulScalar(p, e) ==
    LET f[i \in Nat] ==
          IF i = 0 THEN <<<<zero, zero, zero>>, p>>
          ELSE LET prev == f[i - 1]
                   bit  == (e \div 2^(i - 1)) % 2
               IN  <<IF bit = 1 THEN Add(prev[1], prev[2]) ELSE prev[1], Double(prev[2])>>
    IN  f[BitLen(e)][1]

InCorrectSubgroup(p) == IsZero(MulScalar(p, q))

\* The window of c bits of every power that starts at bit c * w, by buckets.
window(points, powers, c, w) ==
    LET digit(i)   == (powers[i] \div 2^(c * w)) % 2^c
        bucket(d)  == LET s[i \in Nat] ==
                            IF i = 0 THEN Zero
                            ELSE LET prev == s[i - 1]
                                 IN  IF digit(i) = d THEN Add(prev, points[i]) ELSE prev
                      IN  s[Len(points)]
        \* <<sum, acc>> once the buckets from the last down to d are added
        down[d \in Nat] ==
            IF d = 2^c THEN <<Zero, Zero>>
            ELSE LET prev == down[d + 1]
                     sum  == Add(prev[1], bucket(d))
                 IN  <<sum, Add(prev[2], sum)>>
    IN  down[1][2]

\* mutant: one window too few.
lastWindow_Short(c) == (BitLen(q) - 1) \div c

\* The loop runs while cur <= numBits, in steps of c.
lastWindow(c) == BitLen(q) \div c

\* For as many powers as points: the error otherwise is left out, and so is the caller's
\* slice of powers, which the code leaves shifted down to zero.
MultiExp(points, powers, c) ==
    LET acc[w \in Nat] ==
            IF w = lastWindow(c) + 1 THEN Zero
            ELSE LET prev == acc[w + 1]
                     d[k \in Nat] == IF k = 0 THEN prev ELSE LET r == d[k - 1] IN Double(r)
                 IN  Add(d[c], window(points, powers, c, w))
    IN  acc[0]

\* FromBytes of the two coordinates; <<>> is an error.
FromBytes(x, y) ==
    IF ~valid(x) \/ ~valid(y) THEN <<>>
    ELSE IF x = zero /\ y = zero THEN Zero
    ELSE IF IsOnCurve(<<x, y, one>>) THEN <<x, y, one>>
    ELSE <<>>

\* ToBytes: the two coordinates.
ToBytes(p) ==
    IF IsZero(p) THEN <<zero, zero>>
    ELSE LET a == Affine(p) IN <<a[1], a[2]>>
=============================================================================
