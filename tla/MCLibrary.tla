----------------------------- MODULE MCLibrary -----------------------------
(***************************************************************************)
(* An instance for TLC of the units of the library that work on their own: *)
(* `unit` is the one under check.  The units that this module extends have *)
(* variables of their own, those that it instantiates share s1 to s4.      *)
(* Units that are not under check stay idle.                               *)
(***************************************************************************)
EXTENDS MCMachine, Curves, Storage, Preflight, FilterWait, Stores, LibraryInputs

CONSTANT contract

VARIABLES unit, s1, s2, s3, s4

shared == <<s1, s2, s3, s4>>
vars == <<unit, m, calc, storageVars, preflightVars, filterVars, storesVars, shared>>

-----------------------------------------------------------------------------
(* The units and their bounds.                                              *)
\* The store below the state database: an account and a slot of it.
Persistent ==
    [key \in {<<contract>>, <<contract, 1>>} |->
        IF Len(key) = 2 THEN 1 ELSE [nonce |-> 0, balance |-> 0, code |-> FALSE, hashed |-> TRUE]]

L == INSTANCE MemDB WITH
        MaxKey <- 4, MaxHeight <- 2, RangeStart <- 2, RangeLimit <- 4, MaxPuts <- 3,
        mem <- s1, back <- s2, kv <- s3, puts <- s4

log1 == [block |-> 1, index |-> 0, data |-> NilSlice, topics |-> <<1>>]
log2 == [block |-> 2, index |-> 1, data |-> <<>>, topics |-> NilSlice]
log3 == [block |-> 2, index |-> 2, data |-> <<7>>, topics |-> <<>>]
Slices == {NilSlice, <<>>, <<1>>, <<7>>}
StoreBatches == {<<log1>>, <<log2, log3>>, <<log3, log1, log2>>, <<>>}

U == INSTANCE Uint256 WITH LimbBits <- 4, ByteBits <- 2, WordBits <- 16, u <- s1

V == INSTANCE Conversion WITH t <- s1

N == INSTANCE Precompiles WITH U64 <- 64, ByteRadix <- 4, HeadLen <- 2, n <- s1

A == INSTANCE Abi WITH
        ByteBits <- 3, WordLen <- 4, AddressLen <- 2, FunctionLen <- 3, NativeSizes <- {3, 6},
        MaxInt <- 2048, Lower <- lowerOf, Trim <- trimmed, Arguments <- AbiArguments,
        Samples <- AbiSamples, Forms <- {"slice", "map", "struct"}, Contracts <- AbiContracts, a <- s1

C == INSTANCE ChainConfig WITH g <- s1

Z == INSTANCE Codec WITH
        Radix <- 8, Items <- CodecItems, MaxItems <- 2, Streams <- CodecStreams, z <- s1

B == INSTANCE Blake2b WITH
        BlockSize <- 4, Size <- 3, CounterRange <- 8, MaxOutput <- 10, WordBits <- 8,
        Rotations <- <<4, 3, 2, 7>>, Keys <- {<<>>, <<9>>}, Pieces <- BlakePieces, MaxMessage <- 13,
        Outputs <- {0, 3, 4, 6, 8}, Reads <- {0, 1, 3, 4, 5, 9}, Vectors <- BlakeVectors, b <- s1

X == INSTANCE BlsField WITH P <- 19, Coeff <- {<<0, 0>>, <<1, 3>>, <<7, 18>>}, calc <- s1

Y == INSTANCE BnField WITH P <- 7, Coeff <- {<<0, 0>>, <<1, -3>>, <<9, 5>>}, calc <- s1

-----------------------------------------------------------------------------
(* Operands of the units without a choice of their own.                     *)
limbs4(D) == D \X D \X D \X D
UintInit ==
    \/ \E x \in limbs4({0, 1, 15}), y \in limbs4({0, 8, 15}) : U!Operands(x, y, U!Clear, U!Binary)
    \/ \E x \in limbs4({0, 9, 15}), y \in {U!Clear, U!SetOne, U!SetAllOne, <<15, 0, 9, 8>>},
          w \in limbs4({0, 8, 15}) : U!Operands(x, y, w, U!Ternary)
    \/ \E x \in limbs4({0, 1, 8, 15}), k \in 0..20 :
          U!Operands(x, U!limbs(k), U!Clear, U!Shift)
    \/ \E x \in limbs4({0, 1, 15}) : U!Operands(x, U!SetAllOne, U!Clear, U!Shift)
    \/ \E x \in limbs4({0, 9}), k \in {0, 1, 15}, w \in {U!Clear, U!SetOne, <<1, 2, 0, 0>>, U!SetAllOne} :
          U!Operands(x, U!limbs(k), w, U!Into)

ConversionInit ==
    \/ \E k \in 0..36, zeroes \in {0, 1, 8, 25}, v \in {1, 15, 16, 127, 128, 255} :
          V!Given([i \in 1..k |-> IF i <= zeroes THEN 0 ELSE IF i = zeroes + 1 THEN v ELSE i], <<>>)
    \/ \E k \in 0..5 : \E text \in [1..k -> {0, 1, 10, V!X, V!Bad}] : V!Given(<<>>, text)
    \/ \E k \in 14..67, d \in {0, 1, 15, V!Bad}, pos \in {3, 4, 19, 50} :
          V!Given(<<>>, [i \in 1..k |-> IF i = 1 THEN 0 ELSE IF i = 2 THEN V!X
                                        ELSE IF i = pos THEN d ELSE (i % 15) + 1])

Native == UNION {{N!Contracts(fork)[i] : i \in DOMAIN N!Contracts(fork)} : fork \in {"yoloV2", "byzantium"}}
InputLengths ==
    0..3 \cup {31, 32, 33, 63, 64, 96, 127, 128, 160, 192, 213, 214, 256, 288, 384, 512, 576, 768, 864}
none == [baseLen |-> 0, expLen |-> 0, modLen |-> 0, data |-> <<>>]
PrecompilesInit ==
    \/ \E c \in Native, gas \in {0, 9999999}, len \in InputLengths : N!Called(c, len, none, gas)
    \/ \E k \in 0..140 : \/ N!Called("bls12381G1MultiExp", 160 * k, none, 0)
                         \/ N!Called("bls12381G2MultiExp", 288 * k, none, 0)
    \/ \E bs, ms \in {0, 1, 2, 3, 6, 40, 64, 65}, es \in {0, 1, 2, 3, 30, 32, 63, 64, 65, 128},
          k \in 0..4, gas \in {0, 20, 62} : \E d \in [1..k -> {0, 3}] :
          N!Called("bigModExp", 0, [baseLen |-> bs, expLen |-> es, modLen |-> ms, data |-> d], gas)

\* Forks up to i - 1 at genesis, up to j - 1 at block 2, the others not scheduled.
Schedule(i, j) ==
    [f \in C!Names |-> LET k == CHOOSE k \in DOMAIN C!Forks : C!Forks[k] = f
                       IN  IF k >= j THEN Nil ELSE IF k >= i THEN 2 ELSE 0]
Schedules ==
    {Schedule(i, j) : i \in 1..12, j \in 7..12}
    \cup {[o EXCEPT ![f] = h] : o \in {Schedule(7, 12), Schedule(3, 9)},
                                f \in {"dao", "petersburg", "muirGlacier", "eip155"}, h \in {0, 2, 3, Nil}}
    \cup {[Schedule(7, 12) EXCEPT !["homestead"] = h, !["dao"] = Nil] : h \in {0, 3}}
ChainConfigs ==
    {C!config(o, 1, TRUE) : o \in Schedules}
    \cup {C!config(Schedule(2, 12), id, support) : id \in {1, Nil}, support \in BOOLEAN}
    \cup {C!GetChainConfig(1)}

-----------------------------------------------------------------------------
Idle == "idle"
IdleMachine == m = [frame(<<>>, 0, "istanbul", FALSE) EXCEPT !.err = "stop"]
IdleCurves == calc = [group |-> "none", op |-> "none", done |-> FALSE]
IdlePreflight == PreflightInit /\ ran = 1 /\ provider = CHOOSE chain \in Chain : TRUE
IdleFilter == FilterInit /\ ~async
IdleStores == StoresInit /\ kind = "inmem"
IdleFrom2 == s2 = Idle /\ s3 = Idle /\ s4 = Idle
IdleShared == s1 = Idle /\ IdleFrom2

SharedInit ==
    \/ unit = "memdb" /\ L!MemInit
    \/ unit = "uint256" /\ UintInit /\ IdleFrom2
    \/ unit = "conversion" /\ ConversionInit /\ IdleFrom2
    \/ unit = "precompiles" /\ PrecompilesInit /\ IdleFrom2
    \/ unit = "abi" /\ A!InitAbi /\ IdleFrom2
    \/ unit = "config" /\ C!InitConfig(ChainConfigs, 0..3) /\ IdleFrom2
    \/ unit = "codec" /\ Z!InitCodec /\ IdleFrom2
    \/ unit = "blake2b" /\ B!InitBlake /\ IdleFrom2
    \/ unit = "bls" /\ X!BlsInit /\ IdleFrom2
    \/ unit = "bn" /\ Y!BnInit /\ IdleFrom2

Own == {"machine", "curves", "storage", "preflight", "filter", "stores"}

Init ==
    /\ (unit \in Own /\ IdleShared) \/ SharedInit
    /\ IF unit = "machine" THEN MCInit ELSE IdleMachine
    /\ IF unit = "curves" THEN CurvesInit ELSE IdleCurves
    /\ StorageInit
    /\ IF unit = "preflight" THEN PreflightInit ELSE IdlePreflight
    /\ IF unit = "filter" THEN FilterInit ELSE IdleFilter
    /\ IF unit = "stores" THEN StoresInit ELSE IdleStores

from2 == <<s2, s3, s4>>

SharedNext ==
    \/ unit = "memdb" /\ L!MemNext
    \/ unit = "uint256" /\ U!Call /\ UNCHANGED from2
    \/ unit = "conversion" /\ V!Convert /\ UNCHANGED from2
    \/ unit = "precompiles" /\ N!RunPrecompiledContract /\ UNCHANGED from2
    \/ unit = "abi" /\ A!NextAbi /\ UNCHANGED from2
    \/ unit = "config" /\ C!NextConfig /\ UNCHANGED from2
    \/ unit = "codec" /\ Z!NextCodec /\ UNCHANGED from2
    \/ unit = "blake2b" /\ B!NextBlake /\ UNCHANGED from2
    \/ unit = "bls" /\ X!BlsNext /\ UNCHANGED from2
    \/ unit = "bn" /\ Y!BnNext /\ UNCHANGED from2

Next ==
    /\ UNCHANGED unit
    /\ \/ /\ unit = "machine" /\ MachineNext
          /\ UNCHANGED <<calc, storageVars, preflightVars, filterVars, storesVars, shared>>
       \/ /\ unit = "curves" /\ CurvesNext
          /\ UNCHANGED <<m, storageVars, preflightVars, filterVars, storesVars, shared>>
       \/ /\ unit = "storage" /\ StorageNext
          /\ UNCHANGED <<m, calc, preflightVars, filterVars, storesVars, shared>>
       \/ /\ unit = "preflight" /\ PreflightNext
          /\ UNCHANGED <<m, calc, storageVars, filterVars, storesVars, shared>>
       \/ /\ unit = "filter" /\ FilterNext
          /\ UNCHANGED <<m, calc, storageVars, preflightVars, storesVars, shared>>
       \/ /\ unit = "stores" /\ StoresNext
          /\ UNCHANGED <<m, calc, storageVars, preflightVars, filterVars, shared>>
       \/ /\ SharedNext
          /\ UNCHANGED <<m, calc, storageVars, preflightVars, filterVars, storesVars>>

Spec == Init /\ [][Next]_vars

(* The properties of the units; those of the units that this module extends  *)
(* come with them.  The conjuncts are described where they are defined.      *)

\* The write set of a layer is a map whatever the order of its Puts and the heights
\* drawn; iterators move in its range and join two layers in order, and cleaning a
\* contract's storage leaves none of its keys (memdb.go, iterator.go, cachedb.go).
WriteSetIsMap ==
    unit = "memdb" => L!SkipListIsMap /\ L!IterMoves /\ L!JoinIsMerge /\ L!CleanErases

\* The methods of a 256-bit integer compute the number their name promises, into a
\* fresh number and where the code uses them so into an operand; its bytes, RLP and
\* hex are those of the number.  Two methods depend on what the number they are called
\* on held: SubUint64 is exact in place and otherwise keeps that number's upper limbs,
\* and UnmarshalText is exact into zero and otherwise keeps digits (uint256.go, div.go,
\* mod.go, conversion.go).
IntegersExact ==
    /\ unit = "uint256" => U!ResultsExact
    /\ unit = "conversion" => V!BytesKept /\ V!RlpCanonical /\ V!HexRoundTrips

\* A native contract reads every byte of an input it accepts once, charges no less
\* for a longer list of points, and computes the modular exponentiation that was
\* paid for from the header's exact lengths, unless the exponent's is no int and the
\* others are below three; the lists of active contracts are whole from Istanbul on
\* (contracts.go, evm.go).
NativeContractsExact ==
    unit = "precompiles" => N!TilesInput /\ N!PointsCostMore /\ N!ModExpExact /\ N!ActiveFromIstanbul

\* A type parses to what was declared, Decode gives back what Encode accepts and
\* encodes again to the same bytes, an answer cut short is misread at most in the last
\* bytes of a string, from the buffer behind it, and logs and calls find their fields
\* and, if it takes arguments, the overload (abi/).
AbiFaithful ==
    unit = "abi" => /\ A!ParsedAsDeclared /\ A!DecodeInvertsEncode /\ A!EncodesAgain
                    /\ A!CutNeverMisread /\ A!LogFieldsByName /\ A!OverloadsKept

\* Rewinding to the block that CheckCompatible names suffices, a chain accepted under
\* a new schedule keeps the rules of its past, and rules accumulate (config.go).
SchedulesSound ==
    unit = "config" => C!RewindSuffices /\ C!PastRulesKept /\ C!RulesCumulative

\* A source reads back what a sink wrote, notices exactly what was lost, and accepts
\* only what a sink writes (zero_copy_sink.go, zero_copy_source.go).
CodecFaithful ==
    unit = "codec" => Z!ReadsBack /\ Z!EndIsNoticed /\ Z!OnlyCanonical

\* Hashes depend on the message alone, field towers and curves compute what the
\* polynomials and the group law define, and points decode to what was encoded
\* (crypto/).
CryptoExact ==
    /\ unit = "blake2b" => B!SumOfWhole /\ B!OutputOfWhole /\ B!RoundsAreStandard
    /\ unit = "bls" => X!TowerExact /\ X!CyclotomicExact /\ X!FrobeniusExact
    /\ unit = "bn" => Y!BnTowerExact /\ Y!BnFrobeniusExact
    /\ unit = "curves" => SumsExact /\ MultiplesExact /\ PointsRoundTrip
=============================================================================
