-------------------------------- MODULE Abi --------------------------------
(***************************************************************************)
(* The ABI codec: abi/encode.go, abi/decode.go, abi/topics.go and the      *)
(* method and event tables of abi/abi.go.                                  *)
(*                                                                         *)
(* A Go value is a record of its reflect.Kind and its content: "num" (an   *)
(* integer of a fixed width), "big" (a pointer to a big.Int), "bool", "string", "bytes"  *)
(* (a byte slice), "byteArray", "slice", "array", "map" and "struct".      *)
(* Words have WordLen bytes instead of 32; a byte has ByteBits bits.       *)
(***************************************************************************)
EXTENDS AbiType

CONSTANTS
  WordLen,          \* bytes of an ABI word, 32 in the code
  AddressLen,       \* bytes of an address, 20
  FunctionLen,      \* bytes of a function value, 24
  NativeSizes,      \* the widths in bits that have a Go integer type: 8, 16, 32, 64
  MaxInt,           \* the first integer an int does not hold, 2^63
  Lower(_),         \* strings.ToLower on the names in use
  Trim(_)           \* strings.Trim(name, "_")

Radix == 2 ^ ByteBits
WordRange == Radix ^ WordLen

\* bytes of x, most significant first.
bytes(x, n) == [i \in 1..n |-> (x \div Radix ^ (n - i)) % Radix]
number(b) ==
  LET f[i \in 0..Len(b)] == IF i = 0 THEN 0 ELSE f[i - 1] * Radix + b[i] IN f[Len(b)]
zeroes(n) == [i \in 1..n |-> 0]
from(s, i) == SubSeq(s, i + 1, Len(s))
part(s, i, j) == SubSeq(s, i + 1, j)

isVariableInput(t) == t.kind \in {"slice", "bytes", "string"}

RECURSIVE isDynamicType(_)
isDynamicType(t) ==
  \/ isVariableInput(t)
  \/ t.kind = "array" /\ isDynamicType(t.elem)
  \/ t.kind = "tuple" /\ \E i \in DOMAIN t.tuple : isDynamicType(t.tuple[i].Elem)

total(sizes) ==
  LET f[i \in 0..Len(sizes)] == IF i = 0 THEN 0 ELSE f[i - 1] + sizes[i] IN f[Len(sizes)]

\* getTypeSize: the room of a value in its head.
nested(t) == t.kind \in {"array", "tuple"}

RECURSIVE getTypeSize(_)
getTypeSize(t) ==
  CASE t.kind = "array" /\ ~isDynamicType(t.elem) ->
         t.size * (IF nested(t.elem) THEN getTypeSize(t.elem) ELSE WordLen)
    [] t.kind = "tuple" /\ ~isDynamicType(t) ->
         total([i \in DOMAIN t.tuple |-> getTypeSize(t.tuple[i].Elem)])
    [] OTHER -> WordLen

-----------------------------------------------------------------------------
(* Encoding.                                                                *)
-----------------------------------------------------------------------------
encoded(b) == [ok |-> TRUE, data |-> b]
encodeErr == [ok |-> FALSE]

padBytes(b, size, left) ==
  CASE Len(b) >= size -> from(b, Len(b) - size)
    [] Len(b) < size /\ left -> zeroes(size - Len(b)) \o b
    [] OTHER -> b \o zeroes(size - Len(b))

leftPad(b, size) == padBytes(b, size, TRUE)
rightPad(b, size) == padBytes(b, size, FALSE)

\* toU256 truncates to a word, negative numbers in two's complement.
toU256(n) == bytes(n % WordRange, WordLen)
packNum(n) == toU256(n)

encodeNum(v) == IF v.go \in {"num", "big"} THEN encoded(toU256(v.v)) ELSE encodeErr

encodeBool(v) == IF v.go = "bool" THEN encoded(toU256(IF v.v THEN 1 ELSE 0)) ELSE encodeErr

packBytesSlice(b) ==
  encoded(packNum(Len(b)) \o rightPad(b, ((Len(b) + WordLen - 1) \div WordLen) * WordLen))

encodeString(v) == IF v.go = "string" THEN packBytesSlice(v.v) ELSE encodeErr

\* The head and the tail of a list of encoded elements: a dynamic element
\* leaves its offset in the head.
offsets(start, sizes) ==
  LET f[i \in 1..Len(sizes)] == IF i = 1 THEN start ELSE f[i - 1] + sizes[i - 1]
  IN f

headAndTail(datas, dynamic, start) ==
  LET inTail == [i \in DOMAIN datas |-> IF dynamic[i] THEN Len(datas[i]) ELSE 0]
      offset == offsets(start, inTail)
      head == [i \in DOMAIN datas |-> IF dynamic[i] THEN packNum(offset[i]) ELSE datas[i]]
      tail == [i \in DOMAIN datas |-> IF dynamic[i] THEN datas[i] ELSE <<>>]
  IN Join(head, <<>>) \o Join(tail, <<>>)

NameToLowerKey(name, i) == IF name = "" THEN ToString(i - 1) ELSE Lower(name)
NameToKey(name, i) == IF name = "" THEN ToString(i - 1) ELSE name
ToName(name, i) == IF name = "" THEN "arg" \o ToString(i - 1) ELSE Trim(name)

\* mapFromStruct: the exported fields under their tag or their name in lower
\* case, the first of those with one key.
mapFromStruct(fields) ==
  LET key(i) == NameToLowerKey(IF fields[i].tag # "" THEN fields[i].tag ELSE fields[i].Name, i)
      kept == {i \in DOMAIN fields : fields[i].exported /\ fields[i].tag # "-"}
      keys == {key(i) : i \in kept}
  IN [k \in keys |-> fields[smallest({i \in kept : key(i) = k})].value]

RECURSIVE encode(_, _), encodeSliceAndArray(_, _), encodeTuple(_, _)
encodeSliceAndArray(v, t) ==
  LET vals == [i \in DOMAIN v.v |-> encode(v.v[i], t.elem)]
      dynamic == isDynamicType(t.elem)
      start == IF dynamic THEN getTypeSize(t.elem) * Len(v.v) ELSE 0
      count == IF isVariableInput(t) THEN packNum(Len(v.v)) ELSE <<>>
  IN IF \/ v.go # t.kind
        \/ t.kind = "array" /\ t.size # Len(v.v)
        \/ \E i \in DOMAIN v.v : ~vals[i].ok
     THEN encodeErr
     ELSE encoded(count \o headAndTail([i \in DOMAIN v.v |-> vals[i].data],
                                       [i \in DOMAIN v.v |-> dynamic], start))

encodeTuple(v, t) ==
  LET isList == v.go \in {"slice", "array"}
      content == IF v.go = "struct" THEN mapFromStruct(v.v) ELSE v.v
      key(i) == IF isList THEN i ELSE NameToLowerKey(t.tuple[i].Name, i)
      vals == [i \in DOMAIN t.tuple |-> encode(content[key(i)], t.tuple[i].Elem)]
      start == total([i \in DOMAIN t.tuple |-> getTypeSize(t.tuple[i].Elem)])
  IN IF \/ v.go \notin {"slice", "array", "map", "struct"}
        \/ Cardinality(DOMAIN content) < Len(t.tuple)
        \/ \E i \in DOMAIN t.tuple : key(i) \notin DOMAIN content
        \/ \E i \in DOMAIN t.tuple : ~vals[i].ok
     THEN encodeErr
     ELSE encoded(headAndTail([i \in DOMAIN t.tuple |-> vals[i].data],
                              [i \in DOMAIN t.tuple |-> isDynamicType(t.tuple[i].Elem)], start))

encode(v, t) ==
  CASE t.kind \in {"slice", "array"} -> encodeSliceAndArray(v, t)
    [] t.kind = "tuple" -> encodeTuple(v, t)
    [] t.kind = "string" -> encodeString(v)
    [] t.kind = "bool" -> encodeBool(v)
    [] t.kind = "address" -> encoded(leftPad(v.v, WordLen))
    [] t.kind \in {"int", "uint"} -> encodeNum(v)
    [] t.kind = "bytes" -> packBytesSlice(v.v)
    [] t.kind \in {"fixedBytes", "function"} -> encoded(rightPad(v.v, WordLen))
-----------------------------------------------------------------------------
(* Decoding.                                                                *)
-----------------------------------------------------------------------------
decoded(v, rest) == [err |-> "none", val |-> v, rest |-> rest]
refused == [err |-> "error"]

\* A slice expression past the capacity of the input.
panicked == [err |-> "panic"]

\* hex.DecodeString decodes in place: behind the n bytes of an answer its buffer goes on
\* with n characters of the answer's text.
DecodeString(b) == [bytes |-> b, behind |-> [i \in 1..Len(b) |-> Radix - 1]]

go(kind, v) == [go |-> kind, v |-> v]

\* readLength and readOffset.
readLength(data) ==
  LET n == number(part(data, 0, WordLen))
  IN IF n >= MaxInt \/ n > Len(data) THEN {} ELSE {n}

readOffset(data, len) ==
  LET n == number(part(data, 0, WordLen))
  IN IF n >= MaxInt \/ n > len THEN {} ELSE {n}

only(S) == CHOOSE x \in S : TRUE

\* readInteger: the low bytes of the word as a Go integer of the type's
\* width, or the whole word as a big.Int.
signed(n, range) == IF n >= range \div 2 THEN n - range ELSE n

readInteger(t, b) ==
  LET native == t.size \in NativeSizes
      range == IF native THEN 2 ^ t.size ELSE WordRange
      n == number(b) % range
      v == IF t.kind = "int" THEN signed(n, range) ELSE n
  IN go(IF native THEN "num" ELSE "big", v)

readAddr(b) == go("byteArray", from(b, WordLen - AddressLen))

readFixedBytes(t, b) == go("byteArray", part(b, 0, t.size))

readFunctionType(b, rest) ==
  IF \E i \in FunctionLen + 1..WordLen : b[i] # 0 THEN refused
  ELSE decoded(go("byteArray", part(b, 0, FunctionLen)), rest)

decodeBool(b, rest) ==
  IF b[WordLen] \in {0, 1} THEN decoded(go("bool", b[WordLen] = 1), rest) ELSE refused

\* mutant: a length beyond the data takes what there is.
decodeBytes_Available(kind, input, behind, length) ==
  decoded(go(kind, part(input, WordLen, IF WordLen + length > Len(input) THEN Len(input)
                                        ELSE WordLen + length)), from(input, WordLen))

\* input[32:32+length]: a slice expression may reach past the slice into its capacity.
decodeBytes(kind, input, behind, length) ==
  IF WordLen + length > Len(input) + Len(behind) THEN panicked
  ELSE decoded(go(kind, part(input \o behind, WordLen, WordLen + length)), from(input, WordLen))

\* The loop of decodeTuple and of decodeArraySlice: element k of the types,
\* read at the head or, when it is dynamic, at its offset in orig.
RECURSIVE decode(_, _, _), decodeEach(_, _, _, _, _, _)
decodeEach(types, keys, orig, behind, data, vals) ==
  LET k == Len(vals) + 1
      entry(dynamic, offset) == IF dynamic THEN from(orig, only(offset)) ELSE data
      more(dynamic, e) ==
        CASE e.err # "none" -> e
          [] e.err = "none" /\ dynamic /\ Len(data) < WordLen -> panicked
          [] e.err = "none" /\ (\E j \in 1..k - 1 : keys[j] = keys[k]) -> refused
          [] OTHER -> decodeEach(types, keys, orig, behind,
                                 IF dynamic THEN from(data, WordLen) ELSE e.rest, Append(vals, e.val))
      read(dynamic, offset) ==
        IF dynamic /\ offset = {} THEN refused
        ELSE more(dynamic, decode(types[k], entry(dynamic, offset), behind))
  IN CASE k > Len(types) -> decoded(vals, data)
       [] k <= Len(types) /\ isDynamicType(types[k]) /\ Len(data) + Len(behind) < WordLen -> panicked
       [] OTHER -> read(isDynamicType(types[k]), readOffset(data \o behind, Len(orig)))

decodeTuple(t, input, behind) ==
  LET keys == [i \in DOMAIN t.tuple |-> NameToKey(t.tuple[i].Name, i)]
      named(vals) == [k \in {keys[i] : i \in DOMAIN keys} |-> vals[only({i \in DOMAIN keys : keys[i] = k})]]
      map(d) == IF d.err # "none" THEN d ELSE decoded(go("map", named(d.val)), d.rest)
  IN map(decodeEach([i \in DOMAIN t.tuple |-> t.tuple[i].Elem], keys, input, behind, input, <<>>))

decodeArraySlice(t, data, behind, size) ==
  LET list(d) == IF d.err # "none" THEN d ELSE decoded(go(t.kind, d.val), d.rest)
  IN IF WordLen * size > Len(data) THEN refused
     ELSE list(decodeEach([i \in 1..size |-> t.elem], [i \in 1..size |-> i], data, behind, data, <<>>))

decode(t, input, behind) ==
  LET length == readLength(input)
      word == part(input, 0, WordLen)
      rest == from(input, WordLen)
  IN IF Len(input) < WordLen \/ (isVariableInput(t) /\ length = {}) THEN refused
     ELSE CASE t.kind = "tuple" -> decodeTuple(t, input, behind)
            [] t.kind = "slice" -> decodeArraySlice(t, rest, behind, only(length))
            [] t.kind = "array" -> decodeArraySlice(t, input, behind, t.size)
            [] t.kind = "bool" -> decodeBool(word, rest)
            [] t.kind \in {"int", "uint"} -> decoded(readInteger(t, word), rest)
            [] t.kind \in {"string", "bytes"} -> decodeBytes(t.kind, input, behind, only(length))
            [] t.kind = "address" -> decoded(readAddr(word), rest)
            [] t.kind = "fixedBytes" -> decoded(readFixedBytes(t, word), rest)
            [] t.kind = "function" -> readFunctionType(word, rest)

Decode(t, input, behind) == IF input = <<>> THEN refused ELSE decode(t, input, behind)

-----------------------------------------------------------------------------
(* Topics and logs.                                                         *)
-----------------------------------------------------------------------------
\* EncodeTopic, for the types that have one.
EncodeTopic(t, v) ==
  CASE t.kind = "bool" -> encodeBool(v)
    [] t.kind \in {"int", "uint"} -> encodeNum(v)
    [] t.kind = "address" -> encoded(leftPad(v.v, WordLen))
    [] OTHER -> encodeErr

ParseTopic(t, topic) ==
  CASE t.kind = "bool" ->
         IF topic \in {toU256(0), toU256(1)} THEN decoded(go("bool", topic = toU256(1)), <<>>)
         ELSE refused
    [] t.kind \in {"int", "uint"} -> decoded(readInteger(t, topic), <<>>)
    [] t.kind = "address" -> decoded(readAddr(topic), <<>>)
    [] OTHER -> refused

Indexed(t) == SelectSeq(t.tuple, LAMBDA e : e.Indexed)
NonIndexed(t) == SelectSeq(t.tuple, LAMBDA e : ~e.Indexed)

\* ParseTopics.
ParseTopics(elems, topics) ==
  LET parse(i) == ParseTopic(elems[i].Elem, topics[i])
  IN IF Len(elems) # Len(topics) \/ \E i \in DOMAIN elems : parse(i).err # "none" THEN refused
     ELSE decoded([i \in DOMAIN elems |-> parse(i).val], <<>>)

\* ParseLog: an unnamed field that is not indexed is found under its place
\* among those fields, and returned under its place among all of them.
place(t, i) == Cardinality({j \in 1..i : t.tuple[j].Indexed = t.tuple[i].Indexed})

ParseLog(t, topics, data) ==
  LET name(i) == ToName(t.tuple[i].Name, i)
      key(i) == NameToKey(t.tuple[i].Name, place(t, i))
      value(i, indexed, rest) ==
        CASE t.tuple[i].Indexed -> indexed.val[place(t, i)]
          [] ~t.tuple[i].Indexed /\ key(i) \in DOMAIN rest.val.v -> rest.val.v[key(i)]
          [] OTHER -> go("nil", {})
      fields(indexed, rest) ==
        CASE indexed.err # "none" -> indexed
          [] indexed.err = "none" /\ NonIndexed(t) # <<>> /\ rest.err # "none" -> rest
          [] OTHER -> decoded([k \in {name(i) : i \in DOMAIN t.tuple} |->
                                 value(largest({i \in DOMAIN t.tuple : name(i) = k}), indexed, rest)], <<>>)
  IN fields(ParseTopics(Indexed(t), Tail(topics)), Decode(Tuple("", NonIndexed(t)), data, <<>>))
-----------------------------------------------------------------------------
(* The tables of an ABI.  The hash of a signature stands for itself.        *)
-----------------------------------------------------------------------------
NoABI == [Methods |-> <<>>, MethodsBySig |-> <<>>]

put(table, k, v) == [x \in DOMAIN table \cup {k} |-> IF x = k THEN v ELSE table[x]]

\* addMethod: overloads share their entry under the name.
addMethod(abi, m) ==
  [Methods |-> put(abi.Methods, m.Name, m),
   MethodsBySig |-> put(abi.MethodsBySig, Sig(m.Name, m.Inputs), m)]

\* EncodeIDAndInput and DecodeTxInput.  input[:4] of a shorter input is a slice out of
\* range, or leaves input[4:] to be one.
Short == <<>>
EncodeIDAndInput(m, args) ==
  LET e == encode(args, m.Inputs)
  IN IF e.ok THEN [ok |-> TRUE, id |-> Sig(m.Name, m.Inputs), data |-> e.data] ELSE encodeErr

DecodeTxInput(abi, tx) ==
  LET found == {s \in DOMAIN abi.MethodsBySig :
                  Sig(abi.MethodsBySig[s].Name, abi.MethodsBySig[s].Inputs) = tx.id}
      result(m, d) == IF d.err # "none" THEN d ELSE [err |-> "none", method |-> m, params |-> d.val]
      called(m) == result(m, Decode(m.Inputs, tx.data, <<>>))
  IN IF tx.id = Short /\ DOMAIN abi.MethodsBySig # {} THEN panicked
     ELSE IF found = {} THEN refused ELSE called(abi.MethodsBySig[only(found)])

-----------------------------------------------------------------------------
(* What a caller does with a type: it parses it, encodes a value, and the   *)
(* other side decodes what arrives, which a broken connection may cut off.  *)
-----------------------------------------------------------------------------
CONSTANTS
  Arguments,        \* the arguments tried, in the form of the JSON ABI
  Samples(_),       \* the values tried of a type, tuples as lists
  Forms,            \* the Go kinds in which a tuple may be given
  Contracts         \* the lists of argument lists of overloads of one name

VARIABLE a

\* A tuple's list of values in the form of a map or a struct.
RECURSIVE Form(_, _, _)
Form(v, t, how) ==
  LET elem(i) == Form(v.v[i], t.tuple[i].Elem, how)
      key(i) == NameToLowerKey(t.tuple[i].Name, i)
      I == DOMAIN t.tuple
  IN CASE t.kind \in {"slice", "array"} ->
            go(v.go, [i \in DOMAIN v.v |-> Form(v.v[i], t.elem, how)])
       [] t.kind = "tuple" /\ how = "slice" -> go("slice", [i \in I |-> elem(i)])
       [] t.kind = "tuple" /\ how = "map" ->
            go("map", [k \in {key(i) : i \in I} |-> elem(only({i \in I : key(i) = k}))])
       [] t.kind = "tuple" /\ how = "struct" ->
            go("struct", <<[Name |-> "Private", tag |-> "", exported |-> FALSE, value |-> go("num", 0)]>>
                           \o [i \in I |-> [Name |-> t.tuple[i].Name, tag |-> key(i),
                                            exported |-> TRUE, value |-> elem(i)]])
       [] OTHER -> v

\* What decoding gives back: tuples as maps from the names of their fields.
RECURSIVE Normal(_, _)
Normal(v, t) ==
  LET elem(i) == Normal(v.v[i], t.tuple[i].Elem)
      key(i) == NameToKey(t.tuple[i].Name, i)
      I == DOMAIN t.tuple
  IN CASE t.kind \in {"slice", "array"} ->
            go(v.go, [i \in DOMAIN v.v |-> Normal(v.v[i], t.elem)])
       [] t.kind = "tuple" ->
            go("map", [k \in {key(i) : i \in I} |-> elem(only({i \in I : key(i) = k}))])
       [] OTHER -> v

\* The type an argument describes.
RECURSIVE Described(_)
Described(arg) ==
  LET base == IF arg.Type.literal # "tuple" THEN only(decodeSimpleType(arg.Type))
              ELSE Tuple(arg.InternalType,
                         [i \in DOMAIN arg.Components |->
                            [Name |-> arg.Components[i].Name, Elem |-> Described(arg.Components[i]),
                             Indexed |-> arg.Components[i].Indexed]])
      wrapped[i \in 0..Len(arg.Sizes)] ==
        IF i = 0 THEN base
        ELSE IF arg.Sizes[i] = 0 THEN Slice(wrapped[i - 1]) ELSE Array(wrapped[i - 1], arg.Sizes[i])
  IN wrapped[Len(arg.Sizes)]

InitAbi ==
  \/ \E arg \in Arguments : a = [stage |-> "argument", arg |-> arg]
  \/ \E c \in Contracts : a = [stage |-> "adding", left |-> c, methods |-> {}, abi |-> NoABI]

Parse ==
  /\ a.stage = "argument"
  /\ a' = [stage |-> "type", arg |-> a.arg, parsed |-> NewTypeFromArgument(a.arg)]

EncodeValue ==
  /\ a.stage = "type"
  /\ \E v \in Samples(a.parsed.type), how \in Forms :
       a' = [stage |-> "data", type |-> a.parsed.type, val |-> v,
             sent |-> encode(Form(v, a.parsed.type, how), a.parsed.type), cut |-> 0]

\* The connection loses the last bytes of an answer.
CutShort ==
  /\ a.stage = "data" /\ a.cut = 0
  /\ \E n \in 1..Len(a.sent.data) : a' = [a EXCEPT !.cut = n]

\* As it came from the node, or in a buffer of its own.
DecodeData ==
  /\ a.stage = "data"
  /\ \E raw \in {DecodeString(part(a.sent.data, 0, Len(a.sent.data) - a.cut))} :
       \E behind \in {<<>>, raw.behind} :
         a' = [stage |-> "decoded", type |-> a.type, val |-> a.val, sent |-> a.sent, cut |-> a.cut,
               behind |-> behind, got |-> Decode(a.type, raw.bytes, behind)]

EncodeAgain ==
  /\ a.stage = "decoded" /\ a.cut = 0 /\ a.got.err = "none"
  /\ a' = [stage |-> "again", type |-> a.type, sent |-> a.sent,
           again |-> encode(a.got.val, a.type)]

\* A node emits a log of the event whose fields are those of the tuple.
Emit ==
  /\ a.stage = "type" /\ a.parsed.type.kind = "tuple"
  /\ \E v \in Samples(a.parsed.type) :
       LET t == a.parsed.type
           pick(want) == SelectSeq([i \in DOMAIN t.tuple |-> i], LAMBDA i : t.tuple[i].Indexed = want)
           topics == [k \in DOMAIN pick(TRUE) |->
                        EncodeTopic(t.tuple[pick(TRUE)[k]].Elem, v.v[pick(TRUE)[k]])]
           rest == encode(go("slice", [k \in DOMAIN pick(FALSE) |-> v.v[pick(FALSE)[k]]]),
                          Tuple("", NonIndexed(t)))
       IN /\ \A k \in DOMAIN topics : topics[k].ok
          /\ a' = [stage |-> "log", type |-> t, val |-> v, data |-> rest.data,
                   topics |-> <<toU256(7)>> \o [k \in DOMAIN topics |-> topics[k].data]]

ReadLog ==
  /\ a.stage = "log"
  /\ a' = [stage |-> "parsed", type |-> a.type, val |-> a.val,
           got |-> ParseLog(a.type, a.topics, a.data)]

AddMethod ==
  /\ a.stage = "adding" /\ a.left # <<>>
  /\ \E m \in {[Name |-> <<"f">>, Inputs |-> arguments(Head(a.left))]} :
       a' = [a EXCEPT !.left = Tail(@), !.methods = @ \cup {m}, !.abi = addMethod(@, m)]

CallMethod ==
  /\ a.stage = "adding" /\ a.left = <<>>
  /\ \E m \in a.methods : \E v \in Samples(m.Inputs) :
       \E tx \in {EncodeIDAndInput(m, v), [id |-> Short, data |-> <<>>]} :
         a' = [stage |-> "called", method |-> m, val |-> v, tx |-> tx, got |-> DecodeTxInput(a.abi, tx)]

NextAbi ==
  \/ Parse \/ EncodeValue \/ CutShort \/ DecodeData \/ EncodeAgain
  \/ Emit \/ ReadLog \/ AddMethod \/ CallMethod

-----------------------------------------------------------------------------
\* Every argument of a JSON ABI, turned into text by parseType and parsed
\* again by readType, gives the type it describes: nested tuples, the order
\* of the brackets, the names and the indexed flags of the fields.  So does
\* the signature of an event with this argument, and that of a method if it
\* has no tuple (funcRegexp takes the last parenthesis for the first).
ParsedAsDeclared ==
  a.stage = "type" =>
    LET list == <<Token("(")>> \o parseType(a.arg) \o <<Token(")")>>
        name == <<Identifier("f")>>
        declares(t) == t.ok /\ t.type.tuple[1].Elem = Described(a.arg)
        event(sig) == sig.name = name /\ declares(sig.inputs)
        method(sig) == sig.name = name /\ declares(sig.inputs) /\ declares(sig.outputs)
    IN /\ a.parsed.ok /\ a.parsed.type = Described(a.arg)
       /\ event(parseEventSignature(name \o list))
       /\ a.parsed.type.kind # "tuple" /\ a.arg.Components = <<>> =>
            method(parseMethodSignature(name \o list \o <<Token("returns")>> \o list))

\* A value that encode accepts, whatever Go kind its tuples had, is given
\* back by Decode: the offsets that the encoder computes with getTypeSize
\* before the tails exist are where decodeTuple and decodeArraySlice look.
DecodeInvertsEncode ==
  a.stage = "decoded" /\ a.cut = 0 =>
    a.got.err = "none" /\ a.got.val = Normal(a.val, a.type)

\* A value without the bytes of its strings.
RECURSIVE Outline(_)
Outline(v) ==
  CASE v.go \in {"string", "bytes"} -> go(v.go, Len(v.v))
    [] v.go \in {"slice", "array", "map"} -> go(v.go, [k \in DOMAIN v.v |-> Outline(v.v[k])])
    [] OTHER -> v

\* An answer that lost its end is refused, or panics, or still gives the value that was
\* sent.  Only in a buffer that goes on behind the answer is there another outcome: less
\* than two words are lost, and the lost bytes of a string or of bytes are read from
\* behind.  Lengths, offsets and all other values never are.
CutNeverMisread ==
  a.stage = "decoded" /\ a.cut > 0 /\ a.got.err = "none" =>
    LET kept == part(a.sent.data, 0, Len(a.sent.data) - a.cut)
        lost == [i \in 1..a.cut |-> IF i <= Len(a.behind) THEN a.behind[i] ELSE 0]
    IN  \/ a.got.val = Normal(a.val, a.type)
        \/ /\ a.behind # <<>> /\ a.cut < 2 * WordLen
           /\ Outline(a.got.val) = Outline(Normal(a.val, a.type))
           /\ a.got.val = Decode(a.type, kept \o lost, <<>>).val

\* The map that Decode returns encodes to the same bytes, unless a field's
\* name has capitals: encodeTuple looks it up in lower case.
RECURSIVE LowerNames(_)
LowerNames(t) ==
  CASE t.kind \in {"slice", "array"} -> LowerNames(t.elem)
    [] t.kind = "tuple" -> \A i \in DOMAIN t.tuple :
         Lower(t.tuple[i].Name) = t.tuple[i].Name /\ LowerNames(t.tuple[i].Elem)
    [] OTHER -> TRUE
EncodesAgain ==
  a.stage = "again" /\ LowerNames(a.type) => a.again = a.sent

\* ParseLog gives every field of an event its own value under its own name,
\* however indexed and other fields, named and unnamed, alternate.
LogFieldsByName ==
  a.stage = "parsed" =>
    /\ a.got.err = "none"
    /\ \A i \in DOMAIN a.type.tuple :
         LET found == a.got.val[ToName(a.type.tuple[i].Name, i)]
             sent == Normal(a.val.v[i], a.type.tuple[i].Elem)
         IN  found.go = sent.go /\ found = sent

\* The input of a call to any of several overloads is decoded by that one, unless it
\* takes no argument: DecodeTxInput then refuses the input behind the id as empty.  No
\* method is found in an input without an id.
OverloadsKept ==
  a.stage = "called" =>
    IF a.tx.id = Short \/ a.method.Inputs.tuple = <<>> THEN a.got.err # "none"
    ELSE /\ a.got.err = "none"
         /\ a.got.method = a.method
         /\ a.got.params = Normal(a.val, a.method.Inputs)
=============================================================================
