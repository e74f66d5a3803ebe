------------------------------ MODULE BlsField ------------------------------
(***************************************************************************)
(* The extension fields of crypto/bls12381 (fp2.go, fp6.go, fp12.go):      *)
(* fp2 adds i with i^2 = -1, fp6 adds v with v^3 = 1 + i, fp12 adds w with *)
(* w^2 = v.  An element is the tuple of its coefficients, lowest first.    *)
(* The products are written with fewer multiplications than the definition *)
(* has; they are checked against it for a small prime.                     *)
(*                                                                         *)
(* Montgomery arithmetic in fp is taken as arithmetic modulo P.            *)
(***************************************************************************)
EXTENDS Integers, Sequences

CONSTANTS
    P,       \* the prime; P % 12 = 7, as for the curve's, and 1 + i no square and no cube
    Coeff    \* the coefficients in fp2 of the operands

VARIABLE calc   \* an operation, its operands and, once it has run, its result: [op, a, b, r]

\* fp
add(x, y) == (x + y) % P
sub(x, y) == (x - y) % P
mul(x, y) == (x * y) % P
inverse(x) == IF x = 0 THEN 0 ELSE CHOOSE y \in 1..P - 1 : mul(x, y) = 1

-----------------------------------------------------------------------------
\* fp2
Zero2 == <<0, 0>>
One2 == <<1, 0>>
Add2(a, b) == <<add(a[1], b[1]), add(a[2], b[2])>>
Sub2(a, b) == <<sub(a[1], b[1]), sub(a[2], b[2])>>
Double2(a) == Add2(a, a)
Neg2(a) == <<sub(0, a[1]), sub(0, a[2])>>

Mul2(a, b) ==
    LET t1 == mul(a[1], b[1])
        t2 == mul(a[2], b[2])
    IN  <<sub(t1, t2), sub(mul(add(a[1], a[2]), add(b[1], b[2])), add(t1, t2))>>

Square2(a) ==
    <<mul(a[1] + a[2], sub(a[1], a[2])), mul(2 * a[1], a[2])>>

mulByNonResidue2(a) == <<sub(a[1], a[2]), add(a[1], a[2])>>

Inverse2(a) ==
    LET t == inverse(add(mul(a[1], a[1]), mul(a[2], a[2])))
    IN  <<mul(a[1], t), sub(0, mul(t, a[2]))>>

frobeniusMap2(a, power) == IF power % 2 = 1 THEN <<a[1], sub(0, a[2])>> ELSE a

-----------------------------------------------------------------------------
\* fp6
Zero6 == <<Zero2, Zero2, Zero2>>
One6 == <<One2, Zero2, Zero2>>
Add6(a, b) == <<Add2(a[1], b[1]), Add2(a[2], b[2]), Add2(a[3], b[3])>>
Sub6(a, b) == <<Sub2(a[1], b[1]), Sub2(a[2], b[2]), Sub2(a[3], b[3])>>
Double6(a) == Add6(a, a)
Neg6(a) == <<Neg2(a[1]), Neg2(a[2]), Neg2(a[3])>>

\* (a_i + a_j)(b_i + b_j) less the two products v, w that are known
cross(ai, aj, bi, bj, v, w) == Sub2(Mul2(Add2(ai, aj), Add2(bi, bj)), Add2(v, w))

Mul6(a, b) ==
    LET t0 == Mul2(a[1], b[1])
        t1 == Mul2(a[2], b[2])
        t2 == Mul2(a[3], b[3])
    IN  <<Add2(t0, mulByNonResidue2(cross(a[2], a[3], b[2], b[3], t1, t2))),
          Add2(cross(a[1], a[2], b[1], b[2], t0, t1), mulByNonResidue2(t2)),
          Add2(t1, cross(a[1], a[3], b[1], b[3], t0, t2))>>

Square6(a) ==
    LET t0 == Square2(a[1])
        t1 == Double2(Mul2(a[1], a[2]))
        t2 == Square2(Add2(Sub2(a[1], a[2]), a[3]))
        t3 == Double2(Mul2(a[2], a[3]))
        t4 == Square2(a[3])
    IN  <<Add2(t0, mulByNonResidue2(t3)),
          Add2(t1, mulByNonResidue2(t4)),
          Sub2(Add2(Add2(t1, t2), t3), Add2(t0, t4))>>

\* by b0 + b1 v
mulBy01(a, b0, b1) ==
    LET t0 == Mul2(a[1], b0)
        t1 == Mul2(a[2], b1)
        t2 == Sub2(Mul2(Add2(a[2], a[3]), b1), t1)
        t3 == Sub2(Mul2(Add2(a[1], a[3]), b0), t0)
        t4 == Mul2(Add2(b0, b1), Add2(a[1], a[2]))
    IN  <<Add2(mulByNonResidue2(t2), t0), Sub2(Sub2(t4, t0), t1), Add2(t3, t1)>>

mulBy1(a, b1) ==
    <<mulByNonResidue2(Mul2(a[3], b1)), Mul2(a[1], b1), Mul2(a[2], b1)>>

mulByNonResidue6(a) == <<mulByNonResidue2(a[3]), a[1], a[2]>>
mulByBaseField(a, b) == <<Mul2(a[1], b), Mul2(a[2], b), Mul2(a[3], b)>>

Inverse6(a) ==
    LET t0 == Sub2(Square2(a[1]), mulByNonResidue2(Mul2(a[2], a[3])))
        t1 == Sub2(Square2(a[2]), Mul2(a[1], a[3]))
        t2 == Sub2(mulByNonResidue2(Square2(a[3])), Mul2(a[1], a[2]))
        t3 == Inverse2(Add2(mulByNonResidue2(Add2(Mul2(a[3], t2), Mul2(a[2], t1))),
                            Mul2(a[1], t0)))
    IN  <<Mul2(t0, t3), Mul2(t2, t3), Mul2(t1, t3)>>

-----------------------------------------------------------------------------
\* fp12
One12 == <<One6, Zero6>>

conjugate(a) == <<a[1], Neg6(a[2])>>

Square12(a) ==
    LET t2 == Mul6(a[1], a[2])
        t1 == Add6(mulByNonResidue6(a[2]), a[1])
    IN  <<Sub6(Sub6(Mul6(Add6(a[1], a[2]), t1), t2), mulByNonResidue6(t2)), Double6(t2)>>

Mul12(a, b) ==
    LET t1 == Mul6(a[1], b[1])
        t2 == Mul6(a[2], b[2])
    IN  <<Add6(t1, mulByNonResidue6(t2)),
          Sub6(Mul6(Add6(a[1], a[2]), Add6(b[1], b[2])), Add6(t1, t2))>>

Inverse12(a) ==
    LET by(t) == <<Mul6(a[1], t), Neg6(Mul6(t, a[2]))>>
    IN  by(Inverse6(Sub6(Square6(a[1]), mulByNonResidue6(Square6(a[2])))))

fp4Square(a0, a1) ==
    LET t0 == Square2(a0)
        t1 == Square2(a1)
    IN  <<Add2(mulByNonResidue2(t1), t0), Sub2(Sub2(Square2(Add2(a0, a1)), t0), t1)>>

\* 3t - 2x and 3t + 2x, as cyclotomicSquare computes them
lessTwice(t, x) == Add2(Double2(Sub2(t, x)), t)
plusTwice(t, x) == Add2(Double2(Add2(t, x)), t)

\* The square of an element whose conjugate is its inverse.
cyclotomicSquare(a) ==
    LET s0 == fp4Square(a[1][1], a[2][2])
        s1 == fp4Square(a[2][1], a[1][3])
        s2 == fp4Square(a[1][2], a[2][3])
    IN  <<<<lessTwice(s0[1], a[1][1]), lessTwice(s1[1], a[1][2]), lessTwice(s2[1], a[1][3])>>,
          <<plusTwice(mulByNonResidue2(s2[2]), a[2][1]),
            plusTwice(s0[2], a[2][2]), plusTwice(s1[2], a[2][3])>>>>

\* by c0 + c1 v + c4 v w, the value of a line of the Miller loop
mulBy014(a, c0, c1, c4) ==
    LET t0 == mulBy01(a[1], c0, c1)
        t1 == mulBy1(a[2], c4)
        t2 == mulBy01(Add6(a[2], a[1]), c0, Add2(c1, c4))
    IN  <<Add6(mulByNonResidue6(t1), t0), Sub6(Sub6(t2, t0), t1)>>

-----------------------------------------------------------------------------
\* Square and multiply over the bits of n, highest first.
exp2(a, n) ==
    LET z[m \in Nat] == IF m = 0 THEN One2
                        ELSE LET s == Square2(z[m \div 2])
                             IN  IF m % 2 = 1 THEN Mul2(s, a) ELSE s
    IN  z[n]

\* frobeniusCoeffs61[k], 62, 12: powers of the non-residue
residue == <<1, 1>>
coeff61(k) == exp2(residue, (P^k - 1) \div 3)
coeff62(k) == exp2(residue, (2 * (P^k - 1)) \div 3)
coeff12(k) == exp2(residue, (P^k - 1) \div 6)

\* frobeniusMapAssign; for the power 3 the coefficients are i and -1.
frobeniusMap6(a, power) ==
    LET f == <<frobeniusMap2(a[1], power), frobeniusMap2(a[2], power), frobeniusMap2(a[3], power)>>
    IN  CASE power % 6 = 0 -> f
          [] power % 6 = 3 -> <<f[1], <<sub(0, f[2][2]), f[2][1]>>, Neg2(f[3])>>
          [] OTHER -> <<f[1], Mul2(f[2], coeff61(power % 6)), Mul2(f[3], coeff62(power % 6))>>

frobeniusMap12(a, power) ==
    LET scaled(c1) == CASE power = 0 -> c1
                        [] power = 6 -> Neg6(c1)
                        [] OTHER -> mulByBaseField(c1, coeff12(power))
    IN  <<frobeniusMap6(a[1], power), scaled(frobeniusMap6(a[2], power))>>

\* The easy part of finalExp: an element whose conjugate is its inverse.
easyPart(f) ==
    LET after(t) == Mul12(frobeniusMap12(t, 2), t)
    IN  after(Mul12(frobeniusMap12(f, 6), Inverse12(f)))

-----------------------------------------------------------------------------
T == INSTANCE Tower

Elem2 == (0..P - 1) \X (0..P - 1)
Elem6 == Coeff \X Coeff \X Coeff
Elem12 == Elem6 \X Elem6
Line == {<<<<c0, c1, Zero2>>, <<Zero2, c4, Zero2>>>> : c0 \in Coeff, c1 \in Coeff, c4 \in Coeff}

Blank == <<>>

\* What an operation of the library returns.
Result(op, a, b) ==
    CASE op = "mul2"      -> Mul2(a, b)
      [] op = "square2"   -> Square2(a)
      [] op = "inverse2"  -> Mul2(a, Inverse2(a))
      [] op = "mul6"      -> Mul6(a, b)
      [] op = "square6"   -> Square6(a)
      [] op = "inverse6"  -> Mul6(a, Inverse6(a))
      [] op = "mul12"     -> Mul12(a, b)
      [] op = "square12"  -> Square12(a)
      [] op = "inverse12" -> Mul12(a, Inverse12(a))
      [] op = "mulBy014"  -> mulBy014(a, b[1][1], b[1][2], b[2][2])
      [] op = "easyPart"  -> easyPart(a)
      [] op = "cyclotomic" -> cyclotomicSquare(a)
      [] op = "frobenius" -> frobeniusMap12(a, b)

BlsInit ==
    \/ \E a \in Elem2, b \in Coeff, op \in {"mul2", "square2", "inverse2"} :
          calc = [op |-> op, a |-> a, b |-> b, r |-> Blank]
    \/ \E a \in Elem6, b \in Elem6 : calc = [op |-> "mul6", a |-> a, b |-> b, r |-> Blank]
    \/ \E a \in Elem6, op \in {"square6", "inverse6"} :
          calc = [op |-> op, a |-> a, b |-> a, r |-> Blank]
    \/ \E a \in Elem12, b \in Line, op \in {"mul12", "mulBy014"} :
          calc = [op |-> op, a |-> a, b |-> b, r |-> Blank]
    \/ \E a \in Elem12, op \in {"square12", "inverse12", "easyPart"} :
          calc = [op |-> op, a |-> a, b |-> a, r |-> Blank]
    \/ \E a \in Line : calc = [op |-> "power", a |-> a, b |-> 0, r |-> One12]
    \/ \E a \in Line, k \in {2, 3, 6} :
          calc = [op |-> "frobenius", a |-> a, b |-> k, r |-> Blank]

Apply ==
    /\ calc.r = Blank
    /\ calc' = [calc EXCEPT !.r = Result(calc.op, calc.a, calc.b)]

\* finalExp goes on with the square of what the easy part returns.
Continue ==
    /\ calc.op = "easyPart" /\ calc.r # Blank
    /\ calc' = [op |-> "cyclotomic", a |-> calc.r, b |-> calc.r, r |-> Blank]

\* The P-th power by its definition, a product at a time.
Raise ==
    /\ calc.op = "power" /\ calc.b < P
    /\ calc' = [calc EXCEPT !.b = @ + 1, !.r = T!ref12(@, calc.a)]

BlsNext == Apply \/ Continue \/ Raise

-----------------------------------------------------------------------------
\* One, or zero for the inverse of zero.
unit(a, zero, one) == IF a = zero THEN zero ELSE one

(* Every product, square, sparse product and inverse of the three extensions  *)
(* is the one of the polynomials that the tower is defined by.                *)
TowerExact ==
    calc.r # Blank =>
        CASE calc.op = "mul2"      -> calc.r = T!ref2(calc.a, calc.b)
          [] calc.op = "square2"   -> calc.r = T!ref2(calc.a, calc.a)
          [] calc.op = "inverse2"  -> calc.r = unit(calc.a, Zero2, One2)
          [] calc.op = "mul6"      -> calc.r = T!ref6(calc.a, calc.b)
          [] calc.op = "square6"   -> calc.r = T!ref6(calc.a, calc.a)
          [] calc.op = "inverse6"  -> calc.r = unit(calc.a, Zero6, One6)
          [] calc.op = "square12"  -> calc.r = T!ref12(calc.a, calc.a)
          [] calc.op = "inverse12" -> calc.r = unit(calc.a, <<Zero6, Zero6>>, One12)
          [] calc.op \in {"mul12", "mulBy014"} -> calc.r = T!ref12(calc.a, calc.b)
          [] OTHER -> TRUE

(* cyclotomicSquare, with less than half the work of square, squares the      *)
(* elements that finalExp's easy part leaves, and conjugate inverts them.     *)
CyclotomicExact ==
    calc.op = "cyclotomic" /\ calc.r # Blank =>
        /\ calc.r = T!ref12(calc.a, calc.a)
        /\ calc.a # <<Zero6, Zero6>> => T!ref12(calc.a, conjugate(calc.a)) = One12

(* frobeniusMap with power 1 raises to the P-th power, and with the other     *)
(* powers k that finalExp uses does so k times: the table of coefficients,    *)
(* the special case of k = 3 and the sign for k = 6 agree with the tower.     *)
FrobeniusExact ==
    /\ calc.op = "power" /\ calc.b = P => frobeniusMap12(calc.a, 1) = calc.r
    /\ calc.op = "frobenius" /\ calc.r # Blank =>
         IF calc.b = 6 THEN calc.r = frobeniusMap12(frobeniusMap12(calc.a, 3), 3)
         ELSE calc.r = frobeniusMap12(frobeniusMap12(calc.a, calc.b - 1), 1)
=============================================================================
