------------------------------ MODULE AbiType ------------------------------
(***************************************************************************)
(* The ABI types of abi/type.go and abi/abi.go: the JSON argument turned   *)
(* into the type's text, the text parsed by recursive descent, and the     *)
(* human-readable signatures of functions and events.                      *)
(*                                                                         *)
(* The text of a type is its sequence of tokens.  An identifier such as    *)
(* "uint24" is one token with its letters and its number apart, which is   *)
(* what typeRegexp splits it into.                                         *)
(***************************************************************************)
EXTENDS Integers, Sequences, FiniteSets, TLC

CONSTANT ByteBits     \* the number of bits of a byte, 8 in the code

None == -1

\* lexer.nextToken: the kinds of token, and the text each stands for.
Token(typ) == [typ |-> typ, literal |-> "", number |-> None]
Identifier(s) == [typ |-> "str", literal |-> s, number |-> None]
Sized(s, n) == [typ |-> "str", literal |-> s, number |-> n]
Digits(n) == [typ |-> "number", literal |-> "", number |-> n]

peek(l) == IF l = <<>> THEN Token("eof") ELSE Head(l)
after(l) == IF l = <<>> THEN l ELSE Tail(l)

\* What a parsing function returns: the type, the tokens left, and the last
\* token read, lexer.current.
parsed(t, l) == [ok |-> TRUE, type |-> t, rest |-> l, current |-> "none"]
expectedToken(l, read) == [ok |-> FALSE, rest |-> l, current |-> read]

Simple(kind, size, raw) == [kind |-> kind, size |-> size, raw |-> raw]

\* decodeSimpleType.  A type whose number of bits is no multiple of a byte
\* panics; like the other refusals, no type comes out of it.
decodeSimpleType(tok) ==
  LET bits == tok.number
      raw == <<tok.literal, ToString(bits)>>
  IN CASE tok.literal \in {"uint", "int"} /\ bits # None /\ bits % ByteBits = 0 ->
            {Simple(tok.literal, bits, raw)}
       [] tok.literal = "bytes" /\ bits \in {None, 0} -> {Simple("bytes", 0, <<"bytes">>)}
       [] tok.literal = "bytes" /\ bits > 0 -> {Simple("fixedBytes", bits, raw)}
       [] tok.literal = "byte" /\ bits = None -> {Simple("fixedBytes", 1, <<"bytes", "1">>)}
       [] tok.literal \in {"string", "bool", "address", "function"} /\ bits = None ->
            {Simple(tok.literal, 0, <<tok.literal>>)}
       [] OTHER -> {}

\* strings.Join(parts, ","), for texts that are sequences.
RECURSIVE Join(_, _)
Join(parts, separator) ==
  CASE parts = <<>> -> <<>>
    [] Len(parts) = 1 -> parts[1]
    [] OTHER -> parts[1] \o separator \o Join(Tail(parts), separator)

Tuple(name, elems) ==
  [kind |-> "tuple", tupleName |-> name, tuple |-> elems,
   raw |-> <<"(">> \o Join([i \in DOMAIN elems |-> elems[i].Elem.raw], <<",">>) \o <<")">>]

Slice(t) == [kind |-> "slice", elem |-> t, raw |-> t.raw \o <<"[", "]">>]
Array(t, n) ==
  [kind |-> "array", elem |-> t, size |-> n, raw |-> t.raw \o <<"[", ToString(n), "]">>]


\* readType's loop over the brackets that follow a type: the first bracket
\* is the innermost.
RECURSIVE readArrays(_, _)
readArrays(t, l) ==
  LET size == peek(after(l))
      close == after(after(l))
  IN CASE peek(l).typ # "[" -> parsed(t, l)
       [] peek(l).typ = "[" /\ size.typ = "]" -> readArrays(Slice(t), close)
       [] peek(l).typ = "[" /\ size.typ = "number" /\ peek(close).typ = "]" ->
            readArrays(Array(t, size.number), after(close))
       [] OTHER -> expectedToken(close, size.typ)

\* The name a tuple has between "tuple" and "(", and brackets that follow it.
tupleHead(l) ==
  LET named == peek(l).typ = "str"
      bracket == named /\ peek(after(l)).typ = "["
      size == peek(after(after(l))).typ
  IN [name |-> IF named THEN peek(l).literal ELSE "",
      ok |-> bracket /\ size = "number" => peek(after(after(after(l)))).typ = "]",
      rest |-> CASE bracket /\ size = "number" -> after(after(after(after(l))))
                 [] bracket /\ size # "number" -> after(after(after(l)))
                 [] named /\ ~bracket -> after(l)
                 [] OTHER -> l]

\* What may follow the type of a field: "indexed", a name, or both.
field(l) ==
  LET indexed == peek(l).typ = "indexed"
      next == IF indexed THEN after(l) ELSE l
      named == peek(next).typ = "str"
  IN [Name |-> IF named THEN peek(next).literal ELSE "", Indexed |-> indexed,
      rest |-> IF named THEN after(next) ELSE next]

\* readType.  An element that cannot be read ends an empty tuple when the
\* last token read was a closing parenthesis.
RECURSIVE readType(_), readElems(_, _), readMore(_, _, _)
readElems(l, elems) ==
  LET more(e) ==
        CASE ~e.ok /\ e.current = ")" /\ elems = <<>> -> parsed(elems, e.rest)
          [] ~e.ok /\ ~(e.current = ")" /\ elems = <<>>) -> e
          [] OTHER -> readMore(e.type, field(e.rest), elems)
  IN more(readType(l))

readMore(t, f, elems) ==
  LET read == Append(elems, [Name |-> f.Name, Elem |-> t, Indexed |-> f.Indexed])
      next == peek(f.rest).typ
  IN CASE next = "," -> readElems(after(f.rest), read)
       [] next = ")" -> parsed(read, after(f.rest))
       [] OTHER -> expectedToken(after(f.rest), next)

readType(l) ==
  LET arrays(name, e) == IF e.ok THEN readArrays(Tuple(name, e.type), e.rest) ELSE e
      tuple(head) ==
        IF head.ok /\ peek(head.rest).typ = "("
        THEN arrays(head.name, readElems(after(head.rest), <<>>))
        ELSE expectedToken(after(head.rest), peek(head.rest).typ)
      simple == decodeSimpleType(peek(l))
  IN CASE peek(l).typ = "tuple" -> tuple(tupleHead(after(l)))
       [] peek(l).typ = "str" /\ simple # {} ->
            readArrays(CHOOSE t \in simple : TRUE, after(l))
       [] OTHER -> expectedToken(after(l), peek(l).typ)

\* NewType parses a text; what follows the type in it is not looked at.
NewType(text) == readType(text)

-----------------------------------------------------------------------------
(* A JSON argument: its type's name without brackets, the brackets (0 for   *)
(* "[]"), the last component of its internal type, and its components.      *)
-----------------------------------------------------------------------------
brackets(sizes) ==
  Join([i \in DOMAIN sizes |->
          IF sizes[i] = 0 THEN <<Token("["), Token("]")>>
          ELSE <<Token("["), Digits(sizes[i]), Token("]")>>], <<>>)

\* internalTypeToArg: the internal type's last component, without brackets.
internalTypeToArg(name) == IF name = "" THEN <<>> ELSE <<Identifier(name)>>

\* parseType.
RECURSIVE parseType(_)
parseType(arg) ==
  LET named(c) == parseType(c) \o (IF c.Indexed THEN <<Token("indexed")>> ELSE <<>>)
                    \o (IF c.Name = "" THEN <<>> ELSE <<Identifier(c.Name)>>)
  IN CASE arg.Type.literal # "tuple" -> <<arg.Type>> \o brackets(arg.Sizes)
       [] arg.Type.literal = "tuple" /\ arg.Components = <<>> ->
            <<Token("tuple"), Token("("), Token(")")>>
       [] OTHER ->
            <<Token("tuple")>> \o internalTypeToArg(arg.InternalType) \o <<Token("(")>>
              \o Join([i \in DOMAIN arg.Components |-> named(arg.Components[i])], <<Token(",")>>)
              \o <<Token(")")>> \o brackets(arg.Sizes)

NewTypeFromArgument(arg) == NewType(parseType(arg))

\* argument.UnmarshalJSON and arguments.Type: the arguments of a function or
\* an event as one tuple.
arguments(args) ==
  LET elems == [i \in DOMAIN args |->
                  [Name |-> args[i].Name, Indexed |-> args[i].Indexed,
                   Elem |-> NewTypeFromArgument(args[i]).type]]
  IN [Tuple("", elems) EXCEPT !.raw = <<"tuple">>]

-----------------------------------------------------------------------------
(* Human-readable signatures.                                               *)
-----------------------------------------------------------------------------
positions(text, typ) == {i \in DOMAIN text : text[i].typ = typ}
largest(S) == CHOOSE x \in S : \A y \in S : y <= x
smallest(S) == CHOOSE x \in S : \A y \in S : x <= y

\* parseMethodSignature.  The groups of funcRegexp are greedy: the name runs
\* to the last opening parenthesis before "returns".
parseMethodSignature(text) ==
  LET returns == largest(positions(text, "returns"))
      open == largest({i \in positions(text, "(") : i < returns})
      close == largest({i \in positions(text, ")") : i < returns})
      tuple(l) == NewType(<<Token("tuple"), Token("(")>> \o l \o <<Token(")")>>)
  IN [name |-> SubSeq(text, 1, open - 1),
      inputs |-> tuple(SubSeq(text, open + 1, close - 1)),
      outputs |-> tuple(SubSeq(text, returns + 2, Len(text) - 1))]

\* parseEventSignature: the name runs to the first opening parenthesis.
parseEventSignature(text) ==
  LET open == smallest(positions(text, "("))
  IN [name |-> SubSeq(text, 1, open - 1),
      inputs |-> NewType(<<Token("tuple")>> \o SubSeq(text, open, Len(text)))]

\* buildSignature.
Sig(name, type) ==
  name \o <<"(">> \o Join([i \in DOMAIN type.tuple |-> type.tuple[i].Elem.raw], <<",">>) \o <<")">>
=============================================================================
