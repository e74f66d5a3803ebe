---------------------------- MODULE Precompiles ----------------------------
(***************************************************************************)
(* evm/contracts.go: the native contracts, their tables per fork, what     *)
(* they charge and which parts of their input they read; curve arithmetic  *)
(* and hashes are left out.  Modular exponentiation is computed, with U64  *)
(* values of a uint64, bytes of ByteRadix values, and a head of HeadLen    *)
(* bytes of the exponent.                                                  *)
(***************************************************************************)
EXTENDS Integers, Sequences, FiniteSets

CONSTANTS U64, ByteRadix, HeadLen

VARIABLE n      \* one call of a native contract

words(len) == (len + 31) \div 32

-----------------------------------------------------------------------------
\* The contracts of a fork, by address.
Homestead == <<"ecrecover", "sha256hash", "ripemd160hash", "dataCopy">>
Byzantium == Homestead \o <<"bigModExp", "bn256AddByzantium", "bn256ScalarMulByzantium", "bn256PairingByzantium">>
Istanbul  == Homestead \o <<"bigModExp", "bn256AddIstanbul", "bn256ScalarMulIstanbul", "bn256PairingIstanbul", "blake2F">>
YoloV2    == Istanbul \o <<"bls12381G1Add", "bls12381G1Mul", "bls12381G1MultiExp", "bls12381G2Add", "bls12381G2Mul",
                           "bls12381G2MultiExp", "bls12381Pairing", "bls12381MapG1", "bls12381MapG2">>
Contracts(fork) ==
    CASE fork = "yoloV2" -> YoloV2 [] fork = "istanbul" -> Istanbul [] fork = "byzantium" -> Byzantium
      [] OTHER -> Homestead

\* The lists init() makes of the tables' addresses, in the order of a map: any of them,
\* as sets.  The loop over Byzantium's table leaves Byzantium's list empty and the last
\* address it comes to as Homestead's only one.
PrecompiledAddresses ==
    [YoloV2 |-> {DOMAIN YoloV2}, Istanbul |-> {DOMAIN Istanbul}, Byzantium |-> {{}},
     Homestead |-> {{k} : k \in DOMAIN Byzantium}]
ActivePrecompiles(fork) ==
    CASE fork = "yoloV2" -> PrecompiledAddresses.YoloV2
      [] fork = "istanbul" -> PrecompiledAddresses.Istanbul
      [] fork = "byzantium" -> PrecompiledAddresses.Byzantium
      [] OTHER -> PrecompiledAddresses.Homestead

Discount == <<1200, 888, 764, 641, 594, 547, 500, 453, 438, 423, 408, 394, 379, 364, 349, 334, 330, 326, 322, 318,
    314, 310, 306, 302, 298, 294, 289, 285, 281, 277, 273, 269, 268, 266, 265, 263, 262, 260, 259, 257, 256, 254, 253,
    251, 250, 248, 247, 245, 244, 242, 241, 239, 238, 236, 235, 233, 232, 231, 229, 228, 226, 225, 223, 222, 221, 220,
    219, 219, 218, 217, 216, 216, 215, 214, 213, 213, 212, 211, 211, 210, 209, 208, 208, 207, 206, 205, 205, 204, 203,
    202, 202, 201, 200, 199, 199, 198, 197, 196, 196, 195, 194, 193, 193, 192, 191, 191, 190, 189, 188, 188, 187, 186,
    185, 185, 184, 183, 182, 182, 181, 180, 179, 179, 178, 177, 176, 176, 175, 174>>

discount(k) == IF k < Len(Discount) THEN Discount[k] ELSE Discount[Len(Discount)]
multiExpGas(k, mul) == IF k = 0 THEN 0 ELSE ((mul \div 1000) * k) * discount(k)

\* RequiredGas of all but bigModExp; rounds is what blake2F reads from its first bytes.
RequiredGas(c, len, rounds) ==
    CASE c = "ecrecover" -> 3000
      [] c = "sha256hash" -> words(len) * 12 + 60
      [] c = "ripemd160hash" -> words(len) * 120 + 600
      [] c = "dataCopy" -> words(len) * 3 + 15
      [] c = "bn256AddByzantium" -> 500
      [] c = "bn256AddIstanbul" -> 150
      [] c = "bn256ScalarMulByzantium" -> 40000
      [] c = "bn256ScalarMulIstanbul" -> 6000
      [] c = "bn256PairingByzantium" -> 100000 + (len \div 192) * 80000
      [] c = "bn256PairingIstanbul" -> 45000 + (len \div 192) * 34000
      [] c = "blake2F" -> IF len = 213 THEN rounds ELSE 0
      [] c = "bls12381G1Add" -> 600
      [] c = "bls12381G1Mul" -> 12000
      [] c = "bls12381G1MultiExp" -> multiExpGas(len \div 160, 12000)
      [] c = "bls12381G2Add" -> 4500
      [] c = "bls12381G2Mul" -> 55000
      [] c = "bls12381G2MultiExp" -> multiExpGas(len \div 288, 55000)
      [] c = "bls12381Pairing" -> 115000 + (len \div 384) * 23000
      [] c = "bls12381MapG1" -> 5500
      [] c = "bls12381MapG2" -> 110000
      [] OTHER -> 0

-----------------------------------------------------------------------------
\* The slices a contract reads, [from, to), in the order it reads them.
part(from, to) == [from |-> from, to |-> to]
\* k groups of parts, one after the other.
repeat(k, size, parts) ==
    [i \in 1 .. k * Len(parts) |->
        LET g == (i - 1) \div Len(parts)
            p == parts[((i - 1) % Len(parts)) + 1]
        IN  part(g * size + p.from, g * size + p.to)]

\* (hash, zeros, v, r, s) of the input padded to 128 bytes.
ecrecover == <<part(0, 32), part(32, 63), part(63, 64), part(64, 96), part(96, 128)>>
runBn256Add == <<part(0, 64), part(64, 128)>>
runBn256ScalarMul == <<part(0, 64), part(64, 96)>>
runBn256Pairing(len) == repeat(len \div 192, 192, <<part(0, 64), part(64, 192)>>)
\* rounds, the final flag, eight words of h, sixteen of m, two of t.
blake2F == <<part(0, 4), part(212, 213)>> \o [i \in 1..8 |-> part(4 + (i - 1) * 8, 12 + (i - 1) * 8)]
           \o [i \in 1..16 |-> part(68 + (i - 1) * 8, 76 + (i - 1) * 8)] \o <<part(196, 204), part(204, 212)>>

bls12381G1Add == <<part(0, 128), part(128, 256)>>
bls12381G1Mul == <<part(0, 128), part(128, 160)>>
bls12381G1MultiExp(len) == repeat(len \div 160, 160, bls12381G1Mul)
bls12381G2Add == <<part(0, 256), part(256, 512)>>
bls12381G2Mul == <<part(0, 256), part(256, 288)>>
bls12381G2MultiExp(len) == repeat(len \div 288, 288, bls12381G2Mul)
bls12381Pairing(len) == repeat(len \div 384, 384, <<part(0, 128), part(128, 384)>>)
\* The 16 bytes on top of a field element, and the element.
decodeBLS12381FieldElement == <<part(0, 16), part(16, 64)>>
bls12381MapG1 == decodeBLS12381FieldElement
bls12381MapG2 == repeat(2, 64, decodeBLS12381FieldElement)

Reads(c, len) ==
    CASE c = "ecrecover" -> ecrecover
      [] c \in {"bn256AddByzantium", "bn256AddIstanbul"} -> runBn256Add
      [] c \in {"bn256ScalarMulByzantium", "bn256ScalarMulIstanbul"} -> runBn256ScalarMul
      [] c \in {"bn256PairingByzantium", "bn256PairingIstanbul"} -> runBn256Pairing(len)
      [] c = "blake2F" -> blake2F
      [] c = "bls12381G1Add" -> bls12381G1Add
      [] c = "bls12381G1Mul" -> bls12381G1Mul
      [] c = "bls12381G1MultiExp" -> bls12381G1MultiExp(len)
      [] c = "bls12381G2Add" -> bls12381G2Add
      [] c = "bls12381G2Mul" -> bls12381G2Mul
      [] c = "bls12381G2MultiExp" -> bls12381G2MultiExp(len)
      [] c = "bls12381Pairing" -> bls12381Pairing(len)
      [] c = "bls12381MapG1" -> bls12381MapG1
      [] c = "bls12381MapG2" -> bls12381MapG2
      [] OTHER -> <<part(0, len)>>

\* The lengths a contract refuses, before it reads.
badLength(c, len) ==
    CASE c = "blake2F" -> len # 213
      [] c \in {"bn256PairingByzantium", "bn256PairingIstanbul"} -> len % 192 # 0
      [] c = "bls12381G1Add" -> len # 256
      [] c = "bls12381G1Mul" -> len # 160
      [] c = "bls12381G1MultiExp" -> len = 0 \/ len % 160 # 0
      [] c = "bls12381G2Add" -> len # 512
      [] c = "bls12381G2Mul" -> len # 288
      [] c = "bls12381G2MultiExp" -> len = 0 \/ len % 288 # 0
      [] c = "bls12381Pairing" -> len = 0 \/ len % 384 # 0
      [] c = "bls12381MapG1" -> len # 64
      [] c = "bls12381MapG2" -> len # 128
      [] OTHER -> FALSE

-----------------------------------------------------------------------------
\* bigModExp.  An input is the three lengths of its header, which are big integers, and
\* the bytes after it.
number(bytes) == LET v[i \in 0..Len(bytes)] == IF i = 0 THEN 0 ELSE v[i - 1] * ByteRadix + bytes[i]
                 IN  v[Len(bytes)]
bitLen(bytes) ==
    LET nonzero == {i \in 1..Len(bytes) : bytes[i] # 0}
        f == CHOOSE i \in nonzero : \A j \in nonzero : i <= j
    IN  IF nonzero = {} THEN 0
        ELSE (Len(bytes) - f) * Cardinality({k \in 1..8 : 2 ^ k <= ByteRadix})
             + Cardinality({k \in 0..8 : 2 ^ k <= bytes[f]})

\* common.go: data[start:start+size] in uint64 arithmetic, padded with zeros to int(size),
\* which is negative from 2^63 on.  A sum that wraps around is a slice out of order.
sliced(data, start, size) ==
    LET from == IF start > Len(data) THEN Len(data) ELSE start
        end  == (from + size) % U64
    IN  [from |-> from, to |-> IF end > Len(data) THEN Len(data) ELSE end]
getPanics(data, start, size) == LET s == sliced(data, start, size) IN s.from > s.to
getData(data, start, size) ==
    LET s == sliced(data, start, size)
        slice == SubSeq(data, s.from + 1, s.to)
        int   == IF size < U64 \div 2 THEN size ELSE size - U64
    IN  IF int <= Len(slice) THEN slice
        ELSE [i \in 1..int |-> IF i <= Len(slice) THEN slice[i] ELSE 0]

modexpMultComplexity(x) ==
    CASE x <= 64 -> x * x
      [] x \in 65..1024 -> (x * x) \div 4 + 96 * x - 3072
      [] OTHER -> (x * x) \div 16 + 480 * x - 199680

larger(x, y) == IF x > y THEN x ELSE y
\* math.MaxUint64 when the price is not a uint64; eip2565 is never set.
modExpGas(in) ==
    LET head == IF Len(in.data) <= in.baseLen THEN <<>>
                ELSE getData(in.data, in.baseLen, IF in.expLen > HeadLen THEN HeadLen ELSE in.expLen)
        msb  == IF bitLen(head) > 0 THEN bitLen(head) - 1 ELSE 0
        adjExpLen == (IF in.expLen > HeadLen THEN 8 * (in.expLen - HeadLen) ELSE 0) + msb
        gas  == (modexpMultComplexity(larger(in.modLen, in.baseLen)) * larger(adjExpLen, 1)) \div 20
    IN  IF gas >= U64 THEN U64 - 1 ELSE gas

\* b to the number the bytes e stand for, modulo m.
powMod(b, e, m) ==
    LET raise(x, k) == LET r[j \in 0..k] == IF j = 0 THEN 1 % m ELSE (r[j - 1] * x) % m IN r[k]
        f[i \in 0..Len(e)] == IF i = 0 THEN 1 % m ELSE (raise(f[i - 1], ByteRadix) * raise(b % m, e[i])) % m
    IN  f[Len(e)]

panicked == [len |-> -2]
\* The value and the length of the answer, with the lengths cut to a uint64.
\* mutant: the modulus is read behind the base only.
modAt_Base(baseLen, expLen) == baseLen
modAt(baseLen, expLen) == (baseLen + expLen) % U64
modExp(in) ==
    LET baseLen == in.baseLen % U64
        expLen  == in.expLen % U64
        modLen  == in.modLen % U64
        mod == number(getData(in.data, modAt(baseLen, expLen), modLen))
    IN  IF baseLen = 0 /\ modLen = 0 THEN [len |-> 0, value |-> 0]
        ELSE IF getPanics(in.data, baseLen, expLen) \/ getPanics(in.data, modAt(baseLen, expLen), modLen)
             THEN panicked
        ELSE IF mod = 0 THEN [len |-> modLen, value |-> 0]
        ELSE [len |-> modLen,
              value |-> powMod(number(getData(in.data, 0, baseLen)), getData(in.data, baseLen, expLen), mod)]

-----------------------------------------------------------------------------
\* A call with enough or too little gas: RunPrecompiledContract.
Called(c, len, in, gas) == n = [c |-> c, len |-> len, in |-> in, gas |-> gas, err |-> "", out |-> [len |-> -1]]
RunPrecompiledContract ==
    LET cost == IF n.c = "bigModExp" THEN modExpGas(n.in) ELSE RequiredGas(n.c, n.len, 0)
    IN  /\ n.err = "" /\ n.out.len = -1
        /\ n' = IF n.gas < cost THEN [n EXCEPT !.err = "gas", !.gas = 0]
                ELSE IF n.c = "bigModExp" THEN [n EXCEPT !.gas = @ - cost, !.out = modExp(n.in)]
                ELSE IF badLength(n.c, n.len) THEN [n EXCEPT !.gas = @ - cost, !.err = "length"]
                ELSE [n EXCEPT !.gas = @ - cost, !.out = [len |-> n.len]]

\* The bytes the contract is about: what it was given, or its own length where it pads.
format(c, len) ==
    CASE c \in {"ecrecover", "bn256AddByzantium", "bn256AddIstanbul"} -> 128
      [] c \in {"bn256ScalarMulByzantium", "bn256ScalarMulIstanbul"} -> 96
      [] OTHER -> len

\* A contract that accepts a length reads every byte of it, and none twice: no point of a
\* long input is skipped or read at another's place, the last one included.
TilesInput ==
    n.out.len # -1 /\ n.c # "bigModExp" =>
        LET reads == Reads(n.c, n.len)
            size  == format(n.c, n.len)
        IN  /\ \A i \in DOMAIN reads : 0 <= reads[i].from /\ reads[i].to <= size
            /\ \A i, j \in DOMAIN reads : i # j => reads[i].to <= reads[j].from \/ reads[j].to <= reads[i].from
            /\ LET total[i \in 0..Len(reads)] == IF i = 0 THEN 0 ELSE total[i - 1] + reads[i].to - reads[i].from
               IN  total[Len(reads)] = size

\* A longer list of points never costs less than a shorter one, through every row of the
\* discount table and beyond its end, and an accepted list of points is never free.
PointsCostMore ==
    n.c \in {"bls12381G1MultiExp", "bls12381G2MultiExp", "bls12381Pairing", "bn256PairingIstanbul"} =>
        LET size == CASE n.c = "bls12381G1MultiExp" -> 160 [] n.c = "bls12381G2MultiExp" -> 288
                      [] n.c = "bls12381Pairing" -> 384 [] OTHER -> 192
        IN  /\ RequiredGas(n.c, n.len, 0) <= RequiredGas(n.c, n.len + size, 0)
            /\ n.out.len # -1 => RequiredGas(n.c, n.len, 0) > 0

\* Whoever pays for a modular exponentiation, with less gas than the price that stands
\* for every larger one, gets that of the numbers at the header's exact lengths, in an
\* input that goes on with zeros for ever.  The price keeps lengths that are no int from
\* the reads of base and modulus, and from that of the exponent too once one of the
\* others is three bytes: only behind shorter ones is an exponent length of 2^63 and
\* more payable, and then cut, unpadded, or a slice out of order.
ModExpExact ==
    n.out.len # -1 /\ n.c = "bigModExp" =>
        LET at(from, len) == [i \in 1..len |-> IF from + i <= Len(n.in.data) THEN n.in.data[from + i] ELSE 0]
            mod == number(at(n.in.baseLen + n.in.expLen, n.in.modLen))
        IN  \/ n.out = [len |-> n.in.modLen,
                        value |-> IF mod = 0 THEN 0
                                  ELSE powMod(number(at(0, n.in.baseLen)), at(n.in.baseLen, n.in.expLen), mod)]
            \/ n.in.expLen >= U64 \div 2 /\ larger(n.in.baseLen, n.in.modLen) <= 2

\* From Istanbul on the list of active contracts has the address of each of them; the
\* lists of the forks before are not those of their tables.
ActiveFromIstanbul ==
    \A fork \in {"yoloV2", "istanbul", "byzantium", "homestead"} :
        (ActivePrecompiles(fork) = {DOMAIN Contracts(fork)}) <=> (fork \in {"yoloV2", "istanbul"})
=============================================================================
