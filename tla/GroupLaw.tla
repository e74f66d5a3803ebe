------------------------------ MODULE GroupLaw ------------------------------
(***************************************************************************)
(* The group of a curve y^2 = x^3 + B by chords and tangents, over any     *)
(* field.  A point is <<x, y>>, the point at infinity <<>>.                *)
(***************************************************************************)
EXTENDS Integers, Sequences

CONSTANTS
    plus(_, _), minus(_, _), times(_, _), inverse(_),   \* the field
    nil                                                 \* its zero

\* The point that Jacobian coordinates <<x, y, z>> stand for.
affine(p) ==
    IF p[3] = nil THEN <<>>
    ELSE LET w  == inverse(p[3])
             ww == times(w, w)
         IN  <<times(p[1], ww), times(p[2], times(w, ww))>>

\* The third point of the line of slope m through p and q, reflected.
third(m, p, q) ==
    LET x == minus(minus(times(m, m), p[1]), q[1])
    IN  <<x, minus(times(m, minus(p[1], x)), p[2])>>

tangent(p) ==
    LET xx == times(p[1], p[1])
    IN  times(plus(xx, plus(xx, xx)), inverse(plus(p[2], p[2])))

chord(p, q) == times(minus(q[2], p[2]), inverse(minus(q[1], p[1])))

opposite(p, q) == p[1] = q[1] /\ plus(p[2], q[2]) = nil

sum(p, q) ==
    CASE p = <<>> -> q
      [] q = <<>> -> p
      [] p # <<>> /\ q # <<>> ->
            IF opposite(p, q) THEN <<>>
            ELSE IF p = q THEN third(tangent(p), p, q)
            ELSE third(chord(p, q), p, q)

\* n times p
multiple(n, p) ==
    LET m[k \in Nat] == IF k = 0 THEN <<>> ELSE LET r == m[k - 1] IN sum(r, p)
    IN  m[n]
=============================================================================
