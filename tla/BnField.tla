------------------------------ MODULE BnField ------------------------------
(***************************************************************************)
(* The extension fields of crypto/bn256/google (gfp2.go, gfp6.go,          *)
(* gfp12.go): the same tower with residue i + 9.  An element is the tuple  *)
(* of its fields x, y(, z), highest coefficient first.  Sums, differences  *)
(* and doubles are not reduced: a coefficient is any integer until the     *)
(* next product or until Minimal.                                          *)
(***************************************************************************)
EXTENDS Integers, Sequences

CONSTANTS
    P,       \* the prime
    Coeff    \* the coefficients in gfP2 of the operands

VARIABLE calc   \* an operation, its operands and, once it has run, its result: [op, a, b, r]

residue == <<9 % P, 1>>

\* ModInverse
inverse(x) == CHOOSE y \in 1..P - 1 : (x * y) % P = 1

-----------------------------------------------------------------------------
\* gfP2
Minimal2(a) == <<a[1] % P, a[2] % P>>
Add2(a, b) == <<a[1] + b[1], a[2] + b[2]>>
Sub2(a, b) == <<a[1] - b[1], a[2] - b[2]>>
Double2(a) == <<2 * a[1], 2 * a[2]>>
Negative2(a) == <<-a[1], -a[2]>>
Conjugate2(a) == <<-a[1], a[2]>>
Mul2(a, b) == <<(a[1] * b[2] + b[1] * a[2]) % P, (a[2] * b[2] - a[1] * b[1]) % P>>
MulScalar2(a, x) == <<a[1] * x, a[2] * x>>
MulXi(a) == <<8 * a[1] + a[1] + a[2], 8 * a[2] + a[2] - a[1]>>
Square2(a) == <<(2 * (a[1] * a[2])) % P, ((a[2] - a[1]) * (a[1] + a[2])) % P>>

Invert2(a) ==
    LET inv == inverse(a[2] * a[2] + a[1] * a[1])
    IN  <<(-a[1] * inv) % P, (a[2] * inv) % P>>

-----------------------------------------------------------------------------
\* gfP6
Add6(a, b) == <<Add2(a[1], b[1]), Add2(a[2], b[2]), Add2(a[3], b[3])>>
Sub6(a, b) == <<Sub2(a[1], b[1]), Sub2(a[2], b[2]), Sub2(a[3], b[3])>>
Double6(a) == <<Double2(a[1]), Double2(a[2]), Double2(a[3])>>
Negative6(a) == <<Negative2(a[1]), Negative2(a[2]), Negative2(a[3])>>

Mul6(a, b) ==
    LET v0 == Mul2(a[3], b[3])
        v1 == Mul2(a[2], b[2])
        v2 == Mul2(a[1], b[1])
        cross(j, k) == Mul2(Add2(a[j], a[k]), Add2(b[j], b[k]))
    IN  <<Sub2(Add2(Sub2(cross(1, 3), v0), v1), v2),
          Add2(Sub2(Sub2(cross(2, 3), v0), v1), MulXi(v2)),
          Add2(MulXi(Sub2(Sub2(cross(1, 2), v1), v2)), v0)>>

MulScalar6(a, b) == <<Mul2(a[1], b), Mul2(a[2], b), Mul2(a[3], b)>>
MulGFP(a, x) == <<MulScalar2(a[1], x), MulScalar2(a[2], x), MulScalar2(a[3], x)>>
MulTau(a) == <<a[2], a[3], MulXi(a[1])>>

Square6(a) ==
    LET v0 == Square2(a[3])
        v1 == Square2(a[2])
        v2 == Square2(a[1])
        both(j, k) == Square2(Add2(a[j], a[k]))
    IN  <<Sub2(Add2(Sub2(both(1, 3), v0), v1), v2),
          Add2(Sub2(Sub2(both(2, 3), v0), v1), MulXi(v2)),
          Add2(MulXi(Sub2(Sub2(both(1, 2), v1), v2)), v0)>>

Invert6(a) ==
    LET A == Sub2(Square2(a[3]), MulXi(Mul2(a[1], a[2])))
        B == Sub2(MulXi(Square2(a[1])), Mul2(a[2], a[3]))
        C == Sub2(Square2(a[2]), Mul2(a[1], a[3]))
        F == Invert2(Add2(Add2(MulXi(Mul2(C, a[2])), Mul2(A, a[3])), MulXi(Mul2(B, a[1]))))
    IN  <<Mul2(C, F), Mul2(B, F), Mul2(A, F)>>

-----------------------------------------------------------------------------
\* gfP12
Mul12(a, b) ==
    <<Add6(Mul6(a[1], b[2]), Mul6(b[1], a[2])),
      Add6(Mul6(a[2], b[2]), MulTau(Mul6(a[1], b[1])))>>

Square12(a) ==
    LET v0 == Mul6(a[1], a[2])
        ty == Mul6(Add6(a[1], a[2]), Add6(a[2], MulTau(a[1])))
    IN  <<Double6(v0), Sub6(Sub6(ty, v0), MulTau(v0))>>

\* MulScalar multiplies the receiver, which Invert has set to the conjugate.
Invert12(a) ==
    LET t == Invert6(Sub6(Square6(a[2]), MulTau(Square6(a[1]))))
    IN  <<Mul6(Negative6(a[1]), t), Mul6(a[2], t)>>

\* The constants xiToPMinus1Over6, ... of constants.go are powers of the residue.
xiTo(n) ==
    LET z[m \in Nat] == IF m = 0 THEN <<0, 1>>
                        ELSE LET s == Square2(z[m \div 2])
                             IN  IF m % 2 = 1 THEN Mul2(s, <<1, 9>>) ELSE s
    IN  z[n]

Frobenius6(a) ==
    <<Mul2(Conjugate2(a[1]), xiTo((2 * P - 2) \div 3)),
      Mul2(Conjugate2(a[2]), xiTo((P - 1) \div 3)),
      Conjugate2(a[3])>>

\* The powers for P^2 lie in the base field.
FrobeniusP2_6(a) ==
    <<MulScalar2(a[1], xiTo((2 * P * P - 2) \div 3)[2]),
      MulScalar2(a[2], xiTo((P * P - 1) \div 3)[2]),
      a[3]>>

Frobenius12(a) ==
    <<MulScalar6(Frobenius6(a[1]), xiTo((P - 1) \div 6)), Frobenius6(a[2])>>

FrobeniusP2_12(a) ==
    <<MulGFP(FrobeniusP2_6(a[1]), xiTo((P * P - 1) \div 6)[2]), FrobeniusP2_6(a[2])>>

-----------------------------------------------------------------------------
T == INSTANCE Tower

\* The element in the order of Tower.
low2(a) == <<a[2] % P, a[1] % P>>
low6(a) == <<low2(a[3]), low2(a[2]), low2(a[1])>>
low12(a) == <<low6(a[2]), low6(a[1])>>

Elem6 == Coeff \X Coeff \X Coeff
Elem12 == Elem6 \X Elem6
Sparse == {<<<<<<0, 0>>, x, y>>, <<<<0, 0>>, <<0, 0>>, z>>>> : x \in Coeff, y \in Coeff, z \in Coeff}
Zero6 == <<<<0, 0>>, <<0, 0>>, <<0, 0>>>>
Zero12 == <<Zero6, Zero6>>
One12 == <<<<<<1, 0>>, <<0, 0>>, <<0, 0>>>>, Zero6>>
Blank == <<>>

Result(op, a, b) ==
    CASE op = "mul6"     -> Mul6(a, b)
      [] op = "square6"  -> Square6(a)
      [] op = "mul12"    -> Mul12(a, b)
      [] op = "square12" -> Square12(a)
      [] op = "invert12" -> IF a = Zero12 THEN Blank ELSE Invert12(a)
      [] op = "frobenius2" -> FrobeniusP2_12(a)

BnInit ==
    \/ \E a \in Elem6, b \in Elem6 : calc = [op |-> "mul6", a |-> a, b |-> b, r |-> Blank]
    \/ \E a \in Elem6 : calc = [op |-> "square6", a |-> a, b |-> a, r |-> Blank]
    \/ \E a \in Elem12, b \in Sparse : calc = [op |-> "mul12", a |-> a, b |-> b, r |-> Blank]
    \/ \E a \in Elem12, op \in {"square12", "invert12", "frobenius2"} :
          calc = [op |-> op, a |-> a, b |-> a, r |-> Blank]
    \/ \E a \in Elem12 : calc = [op |-> "power", a |-> a, b |-> 0, r |-> One12]

Apply ==
    /\ calc.r = Blank
    /\ calc' = [calc EXCEPT !.r = Result(calc.op, calc.a, calc.b)]

\* The P-th power by its definition, a product at a time.
Raise ==
    /\ calc.op = "power" /\ calc.b < P
    /\ calc' = [calc EXCEPT !.b = @ + 1, !.r = T!ref12(@, low12(calc.a))]

BnNext == Apply \/ Raise

-----------------------------------------------------------------------------
(* Every product, square and inverse of the tower is the one that defines it, *)
(* also for operands whose coefficients are not reduced.                      *)
BnTowerExact ==
    calc.r # Blank =>
        CASE calc.op = "mul6"     -> low6(calc.r) = T!ref6(low6(calc.a), low6(calc.b))
          [] calc.op = "square6"  -> low6(calc.r) = T!ref6(low6(calc.a), low6(calc.a))
          [] calc.op = "mul12"    -> low12(calc.r) = T!ref12(low12(calc.a), low12(calc.b))
          [] calc.op = "square12" -> low12(calc.r) = T!ref12(low12(calc.a), low12(calc.a))
          [] calc.op = "invert12" -> T!ref12(low12(calc.a), low12(calc.r)) = One12
          [] OTHER -> TRUE

(* Frobenius raises to the P-th power and FrobeniusP2 does so twice, with     *)
(* the constants of constants.go.                                             *)
BnFrobeniusExact ==
    /\ calc.op = "power" /\ calc.b = P => low12(Frobenius12(calc.a)) = calc.r
    /\ calc.op = "frobenius2" /\ calc.r # Blank =>
         low12(calc.r) = low12(Frobenius12(Frobenius12(calc.a)))
=============================================================================
