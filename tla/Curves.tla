------------------------------- MODULE Curves -------------------------------
(***************************************************************************)
(* The four groups behind the precompiled contracts: G1 and G2 of          *)
(* crypto/bls12381, and the curve and the twist of crypto/bn256/google,    *)
(* with small primes in the place of theirs.  An operation is applied to   *)
(* operands in any of the forms that earlier operations leave them in.     *)
(***************************************************************************)
EXTENDS Integers, Sequences

CONSTANTS
    P1,        \* the prime of G1
    P2,        \* the prime of G2, of the curve and of the twist
    Q,         \* the order of the subgroups of G1 and G2
    Order,     \* the order of the subgroup of the curve and the twist
    Cap1,      \* what the low 48 bytes of an encoded coordinate of G1 can hold, plus one
    Cap2,      \* the same for G2, and 2^256 for the curve and the twist
    Scalar,    \* the scalars
    Windows    \* the window widths that MultiExp uses

VARIABLE calc  \* an operation and, once it has run, its result: [group, op, a, b, done, r]

\* The fields.
add1(x, y) == (x + y) % P1
sub1(x, y) == (x - y) % P1
mul1(x, y) == (x * y) % P1
inverse1(x) == CHOOSE y \in 1..P1 - 1 : (x * y) % P1 = 1
below1(x) == x < P1

F2 == INSTANCE BlsField WITH P <- P2, Coeff <- {}
below2(x) == x[1] < P2 /\ x[2] < P2

plus(x, y) == x + y
minus(x, y) == x - y
mulP(x, y) == (x * y) % P2
inverseP(x) == CHOOSE y \in 1..P2 - 1 : (x * y) % P2 = 1
isOneP(z) == z \in {1, -1}

N2 == INSTANCE BnField WITH P <- P2, Coeff <- {}
isOne2(z) == z[1] = 0 /\ z[2] \in {1, -1}
twistB == N2!Mul2(<<0, 3>>, N2!Invert2(<<1, 9>>))

-----------------------------------------------------------------------------
G1 == INSTANCE BlsCurve WITH add <- add1, sub <- sub1, mul <- mul1, inverse <- inverse1,
                             zero <- 0, one <- 1, valid <- below1, b <- 4, q <- Q

G2 == INSTANCE BlsCurve WITH add <- F2!Add2, sub <- F2!Sub2, mul <- F2!Mul2, inverse <- F2!Inverse2,
                             zero <- <<0, 0>>, one <- <<1, 0>>, valid <- below2,
                             b <- <<4 % P2, 4 % P2>>, q <- Q

Curve == INSTANCE BnCurve WITH Add_ <- plus, Sub_ <- minus, Mul_ <- mulP, Invert_ <- inverseP,
                               zero <- 0, one <- 1, isOne <- isOneP

Twist == INSTANCE BnCurve WITH Add_ <- N2!Add2, Sub_ <- N2!Sub2, Mul_ <- N2!Mul2, Invert_ <- N2!Invert2,
                               zero <- <<0, 0>>, one <- <<0, 1>>, isOne <- isOne2

\* g2.go
g2Add(p, q) == G2!Add(p, q)
g2Sub(p, q) == G2!Sub(p, q)
g2Equal(p, q) == G2!Equal(p, q)
g2MulScalar(p, e) == G2!MulScalar(p, e)
g2InCorrectSubgroup(p) == G2!InCorrectSubgroup(p)
g2MultiExp(points, powers, c) == G2!MultiExp(points, powers, c)
g2FromBytes(x, y) == G2!FromBytes(x, y)
g2ToBytes(p) == G2!ToBytes(p)

\* twist.go
twistAdd(a, b) == Twist!Add(a, b)
twistMul(a, k, junk) == Twist!Mul(a, k, junk)
twistMakeAffine(p) == Twist!MakeAffine(p)
twistNegative(a) == Twist!Negative(a)

-----------------------------------------------------------------------------
\* Encoded points.  A coordinate whose upper bytes are not zero is at least Cap1 or Cap2.
g1DecodePoint(in) ==
    IF in[1] >= Cap1 \/ in[2] >= Cap1 THEN <<>> ELSE G1!FromBytes(in[1], in[2])

g1EncodePoint(p) == G1!ToBytes(p)

\* fp2: the bytes of c1 come before those of c0.
fp2FromBytes(c1, c0) == <<c0, c1>>
fp2ToBytes(a) == <<a[2], a[1]>>

g2DecodePoint(in) ==
    IF \E i \in 1..4 : in[i] >= Cap2 THEN <<>>
    ELSE g2FromBytes(fp2FromBytes(in[2], in[1]), fp2FromBytes(in[4], in[3]))

g2EncodePoint(p) ==
    LET raw == g2ToBytes(p)
        x   == fp2ToBytes(raw[1])
        y   == fp2ToBytes(raw[2])
    IN  <<x[2], x[1], y[2], y[1]>>

curveIsOnCurve(x, y) == (y * y - x * x * x - 3) % P2 = 0

curveUnmarshal(m) ==
    IF m[1] >= P2 \/ m[2] >= P2 THEN <<>>
    ELSE IF m[1] = 0 /\ m[2] = 0 THEN <<0, 1, 0>>
    ELSE IF curveIsOnCurve(m[1], m[2]) THEN <<m[1], m[2], 1>>
    ELSE <<>>

curveMarshal(p) ==
    IF Curve!IsInfinity(p) THEN <<0, 0>>
    ELSE LET a == Curve!MakeAffine(p) IN <<a[1] % P2, a[2] % P2>>

twistIsOnCurve(x, y) ==
    LET yy == N2!Sub2(N2!Sub2(N2!Square2(y), N2!Mul2(N2!Square2(x), x)), twistB)
    IN  /\ N2!Minimal2(yy) = <<0, 0>>
        /\ Twist!IsInfinity(twistMul(<<x, y, <<0, 1>>>>, Order, <<0, 0>>))

twistUnmarshal(m) ==
    LET x == <<m[1], m[2]>>
        y == <<m[3], m[4]>>
    IN  IF \E i \in 1..4 : m[i] >= P2 THEN <<>>
        ELSE IF m = <<0, 0, 0, 0>> THEN <<<<0, 0>>, <<0, 1>>, <<0, 0>>>>
        ELSE IF twistIsOnCurve(x, y) THEN <<x, y, <<0, 1>>>>
        ELSE <<>>

twistMarshal(p) ==
    IF Twist!IsInfinity(p) THEN <<0, 0, 0, 0>>
    ELSE LET a == twistMakeAffine(p) IN N2!Minimal2(a[1]) \o N2!Minimal2(a[2])

-----------------------------------------------------------------------------
\* The group each one stands for.
R2 == INSTANCE Tower WITH P <- P2, residue <- <<1, 1>>
plusP(x, y) == (x + y) % P2
minusP(x, y) == (x - y) % P2
plus2(x, y) == <<(x[1] + y[1]) % P2, (x[2] + y[2]) % P2>>
minus2(x, y) == <<(x[1] - y[1]) % P2, (x[2] - y[2]) % P2>>
Elem2 == (0..P2 - 1) \X (0..P2 - 1)
reciprocal2(x) == CHOOSE y \in Elem2 : R2!ref2(x, y) = <<1, 0>>

L1 == INSTANCE GroupLaw WITH plus <- add1, minus <- sub1, times <- mul1, inverse <- inverse1, nil <- 0
LP == INSTANCE GroupLaw WITH plus <- plusP, minus <- minusP, times <- mulP, inverse <- inverseP, nil <- 0
L2 == INSTANCE GroupLaw WITH plus <- plus2, minus <- minus2, times <- R2!ref2, inverse <- reciprocal2,
                             nil <- <<0, 0>>

low2(a) == <<a[2] % P2, a[1] % P2>>

point(group, p) ==
    CASE group = "g1"    -> L1!affine(p)
      [] group = "g2"    -> L2!affine(p)
      [] group = "curve" -> LP!affine(<<p[1] % P2, p[2] % P2, p[3] % P2>>)
      [] group = "twist" -> L2!affine(<<low2(p[1]), low2(p[2]), low2(p[3])>>)

sum(group, p, q) ==
    CASE group = "g1" -> L1!sum(p, q) [] group = "curve" -> LP!sum(p, q) [] OTHER -> L2!sum(p, q)

multiple(group, n, p) ==
    CASE group = "g1" -> L1!multiple(n, p) [] group = "curve" -> LP!multiple(n, p)
      [] OTHER -> L2!multiple(n, p)

Points1 == {p \in (0..P1 - 1) \X (0..P1 - 1) : mul1(p[2], p[2]) = add1(mul1(p[1], mul1(p[1], p[1])), 4)}
PointsP == {p \in (0..P2 - 1) \X (0..P2 - 1) : curveIsOnCurve(p[1], p[2])}

\* The points over fp2 of y^2 = x^3 + c.
Points2(c) ==
    LET root(v) == {y \in Elem2 : R2!ref2(y, y) = v}
    IN  UNION {{<<x, y>> : y \in root(plus2(R2!ref2(x, R2!ref2(x, x)), c))} : x \in Elem2}

PointsG2 == Points2(<<4 % P2, 4 % P2>>)
PointsTwist == Points2(low2(twistB))

\* The forms a point takes: other coordinates for the same point, and for bn256
\* coordinates that are not reduced.
forms1(p) == {<<p[1], p[2], 1>>, <<mul1(p[1], 4), mul1(p[2], 8), 2>>}
formsP(p) == {<<p[1], p[2], 1>>, <<mulP(p[1], 2) - P2, mulP(p[2], 6) - 2 * P2, 3 + P2>>}
forms2(p) ==
    LET z == <<2, 1>>
        zz == R2!ref2(z, z)
    IN  {<<p[1], p[2], <<1, 0>>>>, <<R2!ref2(p[1], zz), R2!ref2(p[2], R2!ref2(z, zz)), z>>}
high2(a, k) == <<a[2] - k * P2, a[1] + k * P2>>
formsT(p) == {<<high2(f[1], 1), high2(f[2], 2), high2(f[3], 0)>> : f \in forms2(p)}

Some2(S) == {p \in S : p[1][1] \in {0, 3}}
InG1 == UNION {forms1(p) : p \in Points1} \cup {<<0, 1, 0>>, <<0, 0, 0>>}
InG2 == UNION {forms2(p) : p \in PointsG2} \cup {<<<<0, 0>>, <<1, 0>>, <<0, 0>>>>}
InCurve == UNION {formsP(p) : p \in PointsP} \cup {<<0, 1, 0>>, <<5, -9, 0>>}
InTwist == UNION {formsT(p) : p \in PointsTwist} \cup {<<<<3, 8>>, <<-2, 1>>, <<0, 0>>>>}

\* A point with itself and with another between: buckets that meet, and meet infinity.
triple(p, r) == <<p, r, p>>

Encoded2 == {x \o y : x \in Elem2, y \in Elem2}
TooLarge2(S) == {[(p[1] \o p[2]) EXCEPT ![i] = @ + P2] : p \in S, i \in 1..4}

asked(group, op, a, b) ==
    calc = [group |-> group, op |-> op, a |-> a, b |-> b, done |-> FALSE, r |-> <<>>]

requestOn(group, Points, Few, Encoded) ==
    \/ \E op \in {"add", "sub"}, a \in Points, b \in Few : asked(group, op, a, b)
    \/ \E a \in Few, e \in Scalar : asked(group, "mul", a, e)
    \/ \E a \in Points : asked(group, "encode", a, 0)
    \/ \E in \in Encoded : asked(group, "decode", in, 0)

CurvesInit ==
    \/ requestOn("g1", InG1, InG1, (0..Cap1 + 1) \X (0..Cap1 + 1))
    \/ requestOn("g2", InG2, Some2(InG2), Encoded2 \cup TooLarge2(PointsG2))
    \/ requestOn("curve", InCurve, InCurve, (0..Cap2 + 1) \X (0..Cap2 + 1))
    \/ requestOn("twist", InTwist, Some2(InTwist), Encoded2 \cup TooLarge2(PointsTwist))
    \/ \E p \in InG1, d \in Scalar, e \in Scalar, c \in Windows :
          asked("g1", "multi", triple(p, <<0, 16, 2>>), [c |-> c, powers |-> <<d, e, 5>>])
    \/ \E p \in Some2(InG2), d \in Scalar, c \in Windows :
          asked("g2", "multi", triple(p, G2!Neg(p)), [c |-> c, powers |-> <<d, 6, 11>>])

Result(group, op, a, b) ==
    CASE group = "g1" ->
          (CASE op = "add"    -> G1!Add(a, b)
             [] op = "sub"    -> G1!Sub(a, b)
             [] op = "mul"    -> G1!MulScalar(a, b)
             [] op = "encode" -> g1EncodePoint(a)
             [] op = "decode" -> g1DecodePoint(a)
             [] op = "multi"  -> G1!MultiExp(a, b.powers, b.c))
      [] group = "g2" ->
          (CASE op = "add"    -> g2Add(a, b)
             [] op = "sub"    -> g2Sub(a, b)
             [] op = "mul"    -> g2MulScalar(a, b)
             [] op = "encode" -> g2EncodePoint(a)
             [] op = "decode" -> g2DecodePoint(a)
             [] op = "multi"  -> g2MultiExp(a, b.powers, b.c))
      [] group = "curve" ->
          (CASE op = "add"    -> Curve!Add(a, b)
             [] op = "sub"    -> Curve!Add(a, Curve!Negative(b))
             [] op = "mul"    -> Curve!Mul(a, b, 5)
             [] op = "encode" -> curveMarshal(a)
             [] op = "decode" -> curveUnmarshal(a))
      [] group = "twist" ->
          (CASE op = "add"    -> twistAdd(a, b)
             [] op = "sub"    -> twistAdd(a, twistNegative(b))
             [] op = "mul"    -> twistMul(a, b, <<5, -1>>)
             [] op = "encode" -> twistMarshal(a)
             [] op = "decode" -> twistUnmarshal(a))

Apply ==
    /\ ~calc.done
    /\ calc' = [calc EXCEPT !.done = TRUE, !.r = Result(calc.group, calc.op, calc.a, calc.b)]

CurvesNext == Apply

-----------------------------------------------------------------------------
IsInfinity(group, p) ==
    CASE group = "g1" -> G1!IsZero(p) [] group = "g2" -> G2!IsZero(p)
      [] group = "curve" -> Curve!IsInfinity(p) [] group = "twist" -> Twist!IsInfinity(p)

answered(op) == calc.done /\ calc.op = op

opposite(group, p) == 
    IF p = <<>> THEN p
    ELSE CASE group = "g1" -> <<p[1], sub1(0, p[2])>>
           [] group = "curve" -> <<p[1], minusP(0, p[2])>>
           [] OTHER -> <<p[1], minus2(<<0, 0>>, p[2])>>

(* Add, and Add with Neg, give the sum of the points that the operands stand  *)
(* for, whatever their coordinates: the same point in two forms, opposite     *)
(* points, infinity with any x and y, coordinates that are not reduced.  The  *)
(* test for infinity of the result is exact although it reduces nothing.      *)
SumsExact ==
    answered("add") \/ answered("sub") =>
        LET g == calc.group
            p == point(g, calc.a)
            q == point(g, calc.b)
        IN  /\ point(g, calc.r) = sum(g, p, IF calc.op = "add" THEN q ELSE opposite(g, q))
            /\ IsInfinity(g, calc.r) <=> point(g, calc.r) = <<>>
            /\ g = "g1" => (G1!Equal(calc.a, calc.b) <=> p = q) /\ G1!IsOnCurve(calc.r)
            /\ g = "g2" => (g2Equal(calc.a, calc.b) <=> p = q) /\ G2!IsOnCurve(calc.r)

(* MulScalar, Mul and MultiExp give the multiples and the sum of multiples by *)
(* repeated addition, for every window width and for scalars one bit longer   *)
(* than the order; InCorrectSubgroup holds of exactly the points of order Q.  *)
MultiplesExact ==
    /\ answered("mul") =>
         LET g == calc.group
             p == point(g, calc.a)
         IN  /\ point(g, calc.r) = multiple(g, calc.b, p)
             /\ g = "g1" => (G1!InCorrectSubgroup(calc.a) <=> multiple(g, Q, p) = <<>>)
             /\ g = "g2" => (g2InCorrectSubgroup(calc.a) <=> multiple(g, Q, p) = <<>>)
    /\ answered("multi") =>
         LET g == calc.group
             part(i) == multiple(g, calc.b.powers[i], point(g, calc.a[i]))
         IN  point(g, calc.r) = sum(g, sum(g, part(1), part(2)), part(3))

encode(group, p) ==
    CASE group = "g1" -> g1EncodePoint(p) [] group = "g2" -> g2EncodePoint(p)
      [] group = "curve" -> curveMarshal(p) [] group = "twist" -> twistMarshal(p)

decode(group, in) ==
    CASE group = "g1" -> g1DecodePoint(in) [] group = "g2" -> g2DecodePoint(in)
      [] group = "curve" -> curveUnmarshal(in) [] group = "twist" -> twistUnmarshal(in)

\* The points an encoding may give: all of them, but of the twist those of order Order.
Accepted(group) ==
    {<<>>} \cup
    CASE group = "g1" -> Points1 [] group = "g2" -> PointsG2 [] group = "curve" -> PointsP
      [] group = "twist" -> {p \in PointsTwist : L2!multiple(Order, p) = <<>>}

(* Decoding accepts exactly the encodings that encoding makes, of the points  *)
(* of the group, and an encoded point decodes to the same point: two forms of *)
(* a point encode alike, and no coordinate above the modulus passes.          *)
PointsRoundTrip ==
    /\ answered("decode") /\ calc.r # <<>> =>
         /\ point(calc.group, calc.r) \in Accepted(calc.group)
         /\ encode(calc.group, calc.r) = calc.a
    /\ answered("encode") =>
         LET p == point(calc.group, calc.a)
             d == decode(calc.group, calc.r)
         IN  IF p \in Accepted(calc.group) THEN d # <<>> /\ point(calc.group, d) = p ELSE d = <<>>
=============================================================================
