--------------------------- MODULE LibraryInputs ---------------------------
(* The inputs on which MCLibrary runs the units whose operands are not       *)
(* enumerated by the unit's own module.                                      *)
EXTENDS Integers, Sequences

-----------------------------------------------------------------------------
(* ABI: bytes of three bits, words of four bytes.                            *)
-----------------------------------------------------------------------------
Ty == INSTANCE AbiType WITH ByteBits <- 3

lowerOf(s) == CASE s = "B" -> "b" [] OTHER -> s
trimmed(s) == CASE s = "_c" -> "c" [] OTHER -> s

argument(name, type, sizes, indexed) ==
    [Name |-> name, Type |-> type, Sizes |-> sizes, Indexed |-> indexed,
     InternalType |-> "", Components |-> <<>>]
struct(name, internal, sizes, components) ==
    [Name |-> name, Type |-> Ty!Identifier("tuple"), Sizes |-> sizes, Indexed |-> FALSE,
     InternalType |-> internal, Components |-> components]

Simple == {Ty!Sized("uint", 3), Ty!Sized("int", 6), Ty!Sized("uint", 9), Ty!Sized("int", 12), Ty!Sized("bytes", 2)}
          \cup {Ty!Identifier(s) : s \in {"bool", "address", "function", "string", "bytes"}}
Few == {Ty!Sized("int", 6), Ty!Identifier("string"), Ty!Identifier("address")}
boolean == Ty!Identifier("bool")

\* Simple types, arrays of arrays, structs with named, capitalised and unnamed
\* fields, indexed or not, and a struct inside a struct.
AbiArguments ==
    {argument("x", t, s, FALSE) : t \in Simple, s \in {<<>>, <<0>>, <<2>>}}
    \cup {argument("x", t, s, FALSE) : t \in Few, s \in {<<2, 0>>, <<0, 2>>, <<2, 1>>, <<0, 0>>}}
    \cup {struct("x", i, s, <<argument("a", t, <<>>, ix), argument(n, u, us, FALSE)>>) :
            i \in {"", "S"}, s \in {<<>>, <<0>>, <<2>>}, t \in Few, n \in {"", "B", "_c"},
            u \in Few, us \in {<<>>, <<0>>, <<2>>}, ix \in BOOLEAN}
    \cup {struct("x", "", <<>>,
                 <<argument("a", Ty!Identifier("string"), <<>>, FALSE),
                   struct("t", "T", s, <<argument("", t, us, FALSE), argument("", boolean, <<>>, FALSE)>>),
                   argument("", boolean, <<>>, ix), argument("_c", Ty!Sized("uint", 9), <<>>, iy)>>) :
            t \in Few, s \in {<<>>, <<1>>, <<0>>}, us \in {<<>>, <<2>>}, ix \in BOOLEAN, iy \in BOOLEAN}

value(kind, v) == [go |-> kind, v |-> v]
integer(size, v) == value(IF size \in {3, 6} THEN "num" ELSE "big", v)
pickOf(s, k) == s[((k - 1) % Len(s)) + 1]

\* Values of a type: the ends of an integer's range, empty and padded byte
\* strings, empty and longer slices.
RECURSIVE valuesOf(_)
valuesOf(t) ==
    LET elem == valuesOf(t.elem)
        field == [i \in DOMAIN t.tuple |-> valuesOf(t.tuple[i].Elem)]
    IN  CASE t.kind = "bool" -> <<value("bool", TRUE), value("bool", FALSE)>>
          [] t.kind = "uint" -> <<integer(t.size, 2 ^ t.size - 1), integer(t.size, 1), integer(t.size, 0)>>
          [] t.kind = "int" -> <<integer(t.size, -1), integer(t.size, 2 ^ (t.size - 1) - 1),
                                 integer(t.size, 0 - 2 ^ (t.size - 1))>>
          [] t.kind = "address" -> <<value("byteArray", <<7, 1>>), value("byteArray", <<0, 3>>)>>
          [] t.kind = "fixedBytes" -> <<value("byteArray", [i \in 1..t.size |-> i])>>
          [] t.kind = "function" -> <<value("byteArray", <<1, 0, 5>>)>>
          [] t.kind \in {"string", "bytes"} ->
               <<value(t.kind, <<1, 2, 3, 4, 5>>), value(t.kind, <<>>), value(t.kind, <<6, 0, 0, 7>>)>>
          [] t.kind = "slice" -> <<value("slice", <<pickOf(elem, 1), pickOf(elem, 2)>>),
                                   value("slice", <<>>), value("slice", <<pickOf(elem, 3)>>)>>
          [] t.kind = "array" -> <<value("array", [i \in 1..t.size |-> pickOf(elem, i)]),
                                   value("array", [i \in 1..t.size |-> pickOf(elem, 4 - i)])>>
          [] t.kind = "tuple" ->
               [k \in 1..3 |-> value("slice", [i \in DOMAIN t.tuple |-> pickOf(field[i], k + i)])]
AbiSamples(t) == LET l == valuesOf(t) IN {l[i] : i \in DOMAIN l}

field1 == argument("a", Ty!Sized("int", 6), <<>>, FALSE)
field2 == argument("b", Ty!Identifier("string"), <<>>, FALSE)
AbiContracts ==
    {<<s, u>> : s \in {<<field1>>, <<field2>>},
                u \in {<<>>, <<field1, field2>>, <<field2>>, <<struct("s", "S", <<>>, <<field1, field2>>)>>}}

-----------------------------------------------------------------------------
(* Codec: bytes of three bits.                                               *)
-----------------------------------------------------------------------------
item(op, v, n) == [op |-> op, val |-> v, n |-> n]
CodecItems ==
    {item("uint", 3, 1), item("uint", 62, 2), item("uint", 16777215, 8), item("int", -1, 4),
     item("int", 31, 2), item("bool", TRUE, 1), item("fixed", <<7, 1, 2>>, 3),
     item("varUint", 4, 0), item("varUint", 5, 0), item("varUint", 64, 0), item("varUint", 4096, 0),
     item("varBytes", <<>>, 0), item("varBytes", <<6, 7, 5, 1, 0>>, 0)}
CodecStreams ==
    UNION {[1..n -> {0, 1, 4, 5, 6, 7}] : n \in 0..5} \cup {<<7>> \o s : s \in [1..9 -> {0, 7}]}

-----------------------------------------------------------------------------
(* BLAKE2b: blocks of four bytes, words of eight bits.                       *)
-----------------------------------------------------------------------------
BlakePieces == {<<1>>, <<1, 2, 3>>, <<1, 2, 3, 4>>, <<5, 6, 7, 8, 9>>, <<1, 2, 3, 4, 5, 6, 7, 8>>}
filled(n, k) == [i \in 1..n |-> (i * 37 + k * 11) % 256]
BlakeVectors ==
    {[h |-> filled(8, k), m |-> filled(16, k + 1), iv |-> filled(8, k + 5), c |-> <<k, 3>>,
      final |-> f, rounds |-> r] : k \in 1..5, f \in BOOLEAN, r \in {0, 1, 2, 12}}

-----------------------------------------------------------------------------
(* Preflight check.                                                          *)
-----------------------------------------------------------------------------
PreflightChains ==
    {[genesis |-> "a", id |-> 1], [genesis |-> "a", id |-> 2], [genesis |-> "b", id |-> 1]}
=============================================================================
