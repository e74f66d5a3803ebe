------------------------------- MODULE Words -------------------------------
(***************************************************************************)
(* What the arithmetic instructions mean: the integers modulo 2^WordBits,  *)
(* read as unsigned or as two's complement.  Machine computes with it, and *)
(* Uint256 checks the limb algorithms of utils/common/uint256 against it.  *)
(***************************************************************************)
EXTENDS Integers, Bitwise

CONSTANT WordBits

W == 2 ^ WordBits
half == 2 ^ (WordBits \div 2)
signed(x) == IF x >= W \div 2 THEN x - W ELSE x
abs(i) == IF i < 0 THEN -i ELSE i
sign(i) == IF i < 0 THEN -1 ELSE 1
bool(p) == IF p THEN 1 ELSE 0

\* x * y modulo W, by halves, so that no intermediate result exceeds W * half.
times(x, y) == (((((x \div half) * y) % half) * half) + ((x % half) * y)) % W

\* By squaring: p[k] is x to the first k binary digits of n.
power(x, n) ==
    LET p[k \in 0..WordBits] ==
            IF k = 0 THEN 1 % W
            ELSE LET q == p[k - 1]
                     r == times(q, q)
                 IN  IF (n \div 2 ^ (WordBits - k)) % 2 = 1 THEN times(x, r) ELSE r
    IN  p[WordBits]

div(x, y)  == IF y = 0 THEN 0 ELSE x \div y
mod(x, y)  == IF y = 0 THEN 0 ELSE x % y
sdiv(x, y) == IF y = 0 THEN 0
              ELSE (sign(signed(x)) * sign(signed(y)) * (abs(signed(x)) \div abs(signed(y)))) % W
smod(x, y) == IF y = 0 THEN 0
              ELSE (sign(signed(x)) * (abs(signed(x)) % abs(signed(y)))) % W

\* y with the sign bit of its byte number x (from the right) spread to the left.
signextend(x, y, byteBits) ==
    IF x >= WordBits \div byteBits THEN y
    ELSE LET m == 2 ^ (byteBits * (x + 1))
             low == y % m
         IN  IF low >= m \div 2 THEN (low - m) % W ELSE low

\* Byte number x of y, from the left.
byteAt(x, y, byteBits) ==
    IF x >= WordBits \div byteBits THEN 0
    ELSE (y \div 2 ^ (WordBits - byteBits * (x + 1))) % 2 ^ byteBits

shl(n, y) == IF n >= WordBits THEN 0 ELSE (y % 2 ^ (WordBits - n)) * 2 ^ n
shr(n, y) == IF n >= WordBits THEN 0 ELSE y \div 2 ^ n
sar(n, y) == (IF n >= WordBits THEN IF signed(y) < 0 THEN -1 ELSE 0
              ELSE signed(y) \div 2 ^ n) % W

RECURSIVE bitLen(_)
bitLen(x) == IF x = 0 THEN 0 ELSE 1 + bitLen(x \div 2)
=============================================================================
