------------------------------ MODULE BnCurve ------------------------------
(***************************************************************************)
(* The groups of crypto/bn256/google: curve.go and twist.go hold the same  *)
(* code, over the integers modulo P and over gfP2.  A point is <<x, y, z>> *)
(* in Jacobian coordinates.  Products are reduced, sums and differences    *)
(* are not, yet every test for zero is made without reducing first.  The x *)
(* and y of a point at infinity are whatever the pool's integers held.     *)
(***************************************************************************)
EXTENDS Integers, Sequences

CONSTANTS
    Add_(_, _), Sub_(_, _), Mul_(_, _), Invert_(_),   \* of the field
    zero, one,
    isOne(_)                                          \* the test of MakeAffine

Double_(x) == Add_(x, x)
Square_(x) == Mul_(x, x)

IsInfinity(p) == p[3] = zero

Double(a) ==
    LET A == Square_(a[1])
        B == Square_(a[2])
        C == Square_(B)
        d == Double_(Sub_(Sub_(Square_(Add_(a[1], B)), A), C))
        e == Add_(Double_(A), A)
        x == Sub_(Square_(e), Double_(d))
    IN  <<x,
          Sub_(Mul_(e, Sub_(d, x)), Double_(Double_(Double_(C)))),
          Double_(Mul_(a[2], a[3]))>>

Add(a, b) ==
    IF IsInfinity(a) THEN b
    ELSE IF IsInfinity(b) THEN a
    ELSE LET z1z1 == Square_(a[3])
             z2z2 == Square_(b[3])
             u1   == Mul_(a[1], z2z2)
             u2   == Mul_(b[1], z1z1)
             s1   == Mul_(a[2], Mul_(b[3], z2z2))
             s2   == Mul_(b[2], Mul_(a[3], z1z1))
             h    == Sub_(u2, u1)
             t    == Sub_(s2, s1)
             i    == Square_(Double_(h))
             j    == Mul_(h, i)
             r    == Double_(t)
             v    == Mul_(u1, i)
             x    == Sub_(Sub_(Square_(r), j), Double_(v))
         IN  IF h = zero /\ t = zero THEN Double(a)
             ELSE <<x,
                    Sub_(Mul_(r, Sub_(v, x)), Double_(Mul_(s1, j))),
                    Mul_(Sub_(Sub_(Square_(Add_(a[3], b[3])), z1z1), z2z2), h)>>

BitLen(e) == CHOOSE l \in 0..16 : 2^l > e /\ (l = 0 \/ 2^(l - 1) <= e)

\* From the bit above the highest down; junk is what the pool left in sum.x and sum.y.
Mul(a, scalar, junk) ==
    LET sum[i \in Nat] ==
          IF i > BitLen(scalar) THEN <<junk, junk, zero>>
          ELSE LET t == sum[i + 1]
                   d == Double(t)
               IN  IF (scalar \div 2^i) % 2 = 1 THEN Add(d, a) ELSE d
    IN  sum[0]

MakeAffine(p) ==
    IF isOne(p[3]) THEN p
    ELSE IF IsInfinity(p) THEN <<zero, one, zero>>
    ELSE LET zInv  == Invert_(p[3])
             zInv2 == Square_(zInv)
         IN  <<Mul_(p[1], zInv2), Mul_(Mul_(p[2], zInv), zInv2), one>>

Negative(a) == <<a[1], Sub_(zero, a[2]), a[3]>>
=============================================================================
