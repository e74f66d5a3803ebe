------------------------------- MODULE Tower -------------------------------
(***************************************************************************)
(* The tower of extensions fp2 = fp[i], fp6 = fp2[v], fp12 = fp6[w] with   *)
(* i^2 = -1, v^3 = residue and w^2 = v, by the products of polynomials     *)
(* that define it.  Coefficients are modulo P, lowest first.               *)
(***************************************************************************)
EXTENDS Integers, Sequences

CONSTANTS P, residue

zero == <<0, 0>>

ref2(a, b) == <<(a[1] * b[1] - a[2] * b[2]) % P, (a[1] * b[2] + a[2] * b[1]) % P>>

sum3(x, y, z) == <<(x[1] + y[1] + z[1]) % P, (x[2] + y[2] + z[2]) % P>>

ref6(a, b) ==
    LET m(i, j) == ref2(a[i], b[j])
        x(i, j) == ref2(residue, m(i, j))
    IN  <<sum3(m(1, 1), x(2, 3), x(3, 2)),
          sum3(m(1, 2), m(2, 1), x(3, 3)),
          sum3(m(1, 3), m(2, 2), m(3, 1))>>

plus6(a, b) == <<sum3(a[1], b[1], zero), sum3(a[2], b[2], zero), sum3(a[3], b[3], zero)>>

ref12(a, b) ==
    <<plus6(ref6(a[1], b[1]), ref6(<<zero, <<1, 0>>, zero>>, ref6(a[2], b[2]))),
      plus6(ref6(a[1], b[2]), ref6(a[2], b[1]))>>
=============================================================================
