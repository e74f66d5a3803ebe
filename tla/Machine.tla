------------------------------ MODULE Machine ------------------------------
(***************************************************************************)
(* One frame of the interpreter: the loop of EVMInterpreter.Run            *)
(* (evm/interpreter.go) with the instructions of instructions.go, the      *)
(* operand stack, the memory with its size and gas functions, and the      *)
(* jump destination analysis, over the tables of JumpTable.                *)
(*                                                                         *)
(* Sizes are scaled: a word has WordLen bytes, a uint64 is below U64, and  *)
(* MemLimit is the largest memory size whose cost cannot overflow (the     *)
(* 0x1FFFFFFFE0 of memoryGasCost).  What the state, the block or a callee  *)
(* answers is a member of Outside.                                         *)
(***************************************************************************)
EXTENDS JumpTable, Words

CONSTANTS
    WordLen,    \* bytes of a word (32)
    U64,        \* 2^64
    MemLimit,   \* 0x1FFFFFFFE0
    RetLimit,   \* 1023, the depth of the return stack
    Outside     \* answers: [word, cost, data, ok, left, copies]

VARIABLE m      \* the frame; m.err is "" while it runs

Back(n) == m.stack[Len(m.stack) - n]
Over == -1      \* an overflow of uint64

-----------------------------------------------------------------------------
\* utils/common/math and the helpers of common.go.
SafeAdd(x, y) == IF x = Over \/ y = Over \/ x + y >= U64 THEN Over ELSE x + y
SafeMul(x, y) == IF x * y >= U64 THEN Over ELSE x * y

toWordSize(size) ==
    IF size > U64 - WordLen THEN (U64 - 1) \div WordLen + 1
    ELSE (size + WordLen - 1) \div WordLen

calcMemSize64WithUint(off, length) ==
    CASE length = 0 -> 0
      [] length # 0 /\ off >= U64 -> Over
      [] OTHER -> IF (off + length) % U64 < off THEN Over ELSE (off + length) % U64
calcMemSize64(off, length) == IF length >= U64 THEN Over ELSE calcMemSize64WithUint(off, length)

\* data[start:end], padded with zeros to size; the slice panics when end is below start.
getData(data, start, size) ==
    LET from == IF start > Len(data) THEN Len(data) ELSE start
        end  == (from + size) % U64
        to   == IF end > Len(data) THEN Len(data) ELSE end
    IN  [bytes |-> [i \in 1..size |-> IF i <= to - from THEN data[from + i] ELSE 0],
         fault |-> to < from]

\* uint256.SetBytes: the last WordLen bytes, big-endian.
toWord(bytes) ==
    LET w[i \in 0..Len(bytes)] == IF i = 0 THEN 0 ELSE (w[i - 1] * 256 + bytes[i]) % W
    IN  w[Len(bytes)]

-----------------------------------------------------------------------------
\* memory_table.go: the memory an operation asks for, from its operands.
larger(x, y) == IF x = Over \/ y = Over THEN Over ELSE IF x > y THEN x ELSE y

\* mutant: the output area of a call is not counted.
memoryCall_InputOnly(in, out) == calcMemSize64(Back(in), Back(in + 1))

memoryCall(in, out) == larger(calcMemSize64(Back(out), Back(out + 1)),
                              calcMemSize64(Back(in), Back(in + 1)))

memorySize(f) ==
    CASE f = "memorySha3" -> calcMemSize64(Back(0), Back(1))
      [] f = "memorySpan" -> calcMemSize64(Back(0), Back(1))
      [] f = "memoryCopy" -> calcMemSize64(Back(0), Back(2))
      [] f = "memoryExtCodeCopy" -> calcMemSize64(Back(1), Back(3))
      [] f = "memoryWord" -> calcMemSize64WithUint(Back(0), WordLen)
      [] f = "memoryByte" -> calcMemSize64WithUint(Back(0), 1)
      [] f = "memoryCreate" -> calcMemSize64(Back(1), Back(2))
      [] f = "memoryCall" -> memoryCall(3, 5)
      [] f = "memoryDelegateCall" -> memoryCall(2, 4)
      [] OTHER -> 0

\* gas_table.go.  The fee of all memory up to a size, and of growing to it.
memoryFee(words) == words * 3 + ((words * words) % U64) \div 512

memoryGasCost(size) ==
    IF size > MemLimit THEN Over
    ELSE IF toWordSize(size) * WordLen > Len(m.mem)
         THEN memoryFee(toWordSize(size)) - m.lastGasCost ELSE 0

perWord(n, price) == IF Back(n) >= U64 THEN Over ELSE SafeMul(toWordSize(Back(n)), price)
expGas(price) == SafeAdd(((bitLen(Back(1)) + 7) \div 8) * price, 10)

dynamicGas(f, b, size, o) ==
    CASE f = "memory" -> memoryGasCost(size)
      [] f = "copier2" -> SafeAdd(memoryGasCost(size), perWord(2, 3))
      [] f = "copier3" -> SafeAdd(memoryGasCost(size), perWord(3, 3))
      [] f = "gasSha3" -> SafeAdd(memoryGasCost(size), perWord(1, 6))
      [] f = "gasCreate2" -> SafeAdd(memoryGasCost(size), perWord(2, 6))
      [] f = "makeGasLog" ->
            IF Back(1) >= U64 THEN Over
            ELSE SafeAdd(SafeAdd(SafeAdd(memoryGasCost(size), 375), (b - LOG0) * 375),
                         SafeMul(Back(1), 8))
      [] f = "gasExpFrontier" -> expGas(10)
      [] f = "gasExpEIP158" -> expGas(50)
      [] f = "state" -> o.cost
      [] f = "call" -> SafeAdd(memoryGasCost(size), o.cost)
      [] OTHER -> 0

-----------------------------------------------------------------------------
\* analysis.go: a bitvec is a sequence of bytes, each the set of its bits that are
\* set, 0 the leftmost.  A write past the end panics: here it makes the vector longer.
orInto(bits, i, b) == IF i \in DOMAIN bits THEN [bits EXCEPT ![i] = @ \cup b] ELSE Append(bits, b)
set(bits, pos) == orInto(bits, pos \div 8 + 1, {pos % 8})
set8(bits, pos) ==
    orInto(orInto(bits, pos \div 8 + 1, pos % 8 .. 7), pos \div 8 + 2, 0 .. (pos % 8) - 1)

RECURSIVE markData(_, _, _)
markData(bits, pos, numbits) ==
    CASE numbits = 0 -> bits
      [] numbits >= 8 -> markData(set8(bits, pos), pos + 8, numbits - 8)
      [] OTHER -> markData(set(bits, pos), pos + 1, numbits - 1)

RECURSIVE analyse(_, _, _)
analyse(code, pc, bits) ==
    IF pc >= Len(code) THEN bits
    ELSE LET b == code[pc + 1]
             numbits == IF IsPush(b) THEN b - PUSH1 + 1 ELSE 0
         IN  analyse(code, pc + 1 + numbits, markData(bits, pc + 1, numbits))

bitmapLen(code) == Len(code) \div 8 + 5
codeBitmap(code) == analyse(code, 0, [i \in 1 .. bitmapLen(code) |-> {}])
codeSegment(bits, pos) == pos % 8 \notin bits[pos \div 8 + 1]

\* contract.go.  isCode caches the analysis of a code by its hash: the same bitmap.
isCode(code, udest) == codeSegment(codeBitmap(code), udest)
GetOp(code, n) == IF n < Len(code) THEN code[n + 1] ELSE 0

validDest(code, dest, name) ==
    /\ dest < U64 /\ dest < Len(code)
    /\ code[dest + 1] = OpCode[name]
    /\ isCode(code, dest)
validJumpdest(code, dest) == validDest(code, dest, "JUMPDEST")
validJumpSubdest(code, dest) == validDest(code, dest, "BEGINSUB")

-----------------------------------------------------------------------------
\* instructions.go.  An instruction works on the frame f after its gas is paid and
\* its memory grown.  f.fault notes what Go would panic on: a pop of an empty stack,
\* a memory access past the end, a slice with its bounds the wrong way round.
top(f, n) == IF n < Len(f.stack) THEN f.stack[Len(f.stack) - n] ELSE 0
replace(f, n, words) ==
    [f EXCEPT !.stack = SubSeq(@, 1, Len(@) - n) \o words, !.fault = @ \/ Len(f.stack) < n]
failed(f, err) == [f EXCEPT !.err = err]

\* memory.go: Set, GetPtr and GetCopy.
covered(f, off, size) == size = 0 \/ off + size <= Len(f.mem)
GetPtr(f, off, size) == IF covered(f, off, size) THEN SubSeq(f.mem, off + 1, off + size) ELSE <<>>
Set(f, off, size, value) ==
    IF ~covered(f, off, size) THEN [f EXCEPT !.fault = TRUE]
    ELSE [f EXCEPT !.mem = [i \in DOMAIN @ |->
             IF size > 0 /\ i > off /\ i <= off + size /\ i - off <= Len(value)
             THEN value[i - off] ELSE @[i]]]
reading(f, off, size) == [f EXCEPT !.fault = @ \/ ~covered(f, off, size)]
wordBytes(x) == [i \in 1..WordLen |-> byteAt(i - 1, x, 8)]

binary == {"ADD", "SUB", "MUL", "DIV", "SDIV", "MOD", "SMOD", "EXP", "SIGNEXTEND", "LT",
               "GT", "SLT", "SGT", "EQ", "AND", "OR", "XOR", "BYTE", "SHL", "SHR", "SAR"}

alu(name, x, y) ==
        CASE name = "ADD" -> (x + y) % W
          [] name = "SUB" -> (x - y) % W
          [] name = "MUL" -> times(x, y)
          [] name = "DIV" -> div(x, y)
          [] name = "SDIV" -> sdiv(x, y)
          [] name = "MOD" -> mod(x, y)
          [] name = "SMOD" -> smod(x, y)
          [] name = "EXP" -> power(x, y)
          [] name = "SIGNEXTEND" -> signextend(x, y, 8)
          [] name = "LT" -> bool(x < y)
          [] name = "GT" -> bool(x > y)
          [] name = "SLT" -> bool(signed(x) < signed(y))
          [] name = "SGT" -> bool(signed(x) > signed(y))
          [] name = "EQ" -> bool(x = y)
          [] name = "AND" -> x & y
          [] name = "OR" -> x | y
          [] name = "XOR" -> x ^^ y
          [] name = "BYTE" -> byteAt(x, y, 8)
          [] name = "SHL" -> shl(x, y)
          [] name = "SHR" -> shr(x, y)
          [] name = "SAR" -> sar(x, y)

\* Instructions that push a word of the context, and those that replace the top by
\* what the state says of it.
context == {"ADDRESS", "ORIGIN", "CALLER", "CALLVALUE", "GASPRICE", "COINBASE", "TIMESTAMP",
                "NUMBER", "DIFFICULTY", "GASLIMIT", "CHAINID", "SELFBALANCE"}
lookups == {"BALANCE", "EXTCODESIZE", "EXTCODEHASH", "SLOAD"}

stackOps(f, b, name, o) ==
    LET x == top(f, 0)
        push(v) == replace(f, 0, <<v>>)
    IN  CASE name \in binary -> replace(f, 2, <<alu(name, x, top(f, 1))>>)
          [] name = "ISZERO" -> replace(f, 1, <<bool(x = 0)>>)
          [] name = "NOT" -> replace(f, 1, <<W - 1 - x>>)
          [] name = "ADDMOD" -> replace(f, 3, <<mod(x + top(f, 1), top(f, 2))>>)
          [] name = "MULMOD" -> replace(f, 3, <<mod(x * top(f, 1), top(f, 2))>>)
          [] name \in context -> push(o.word)
          [] name \in lookups -> replace(f, 1, <<o.word>>)
          [] name = "BLOCKHASH" ->
                LET lower == IF o.number < 257 THEN 0 ELSE o.number - 256
                IN  replace(f, 1, <<IF x < U64 /\ x >= lower /\ x < o.number THEN o.word ELSE 0>>)
          [] name = "CALLDATALOAD" ->
                replace(f, 1, <<IF x >= U64 THEN 0 ELSE toWord(getData(f.input, x, WordLen).bytes)>>)
          [] name = "CALLDATASIZE" -> push(Len(f.input))
          [] name = "CODESIZE" -> push(Len(f.code))
          [] name = "RETURNDATASIZE" -> push(Len(f.returnData))
          [] name = "POP" -> replace(f, 1, <<>>)
          [] name = "SSTORE" -> replace(f, 2, <<>>)
          [] name = "PC" -> push(f.pc)
          [] name = "MSIZE" -> push(Len(f.mem))
          [] name = "GAS" -> push(f.gas)
          [] name = "DUP" -> LET n == b - DUP1 + 1
                         IN  [push(top(f, n - 1)) EXCEPT !.fault = @ \/ Len(f.stack) < n]
          [] name = "SWAP" ->
                LET n == b - SWAP1 + 2
                    h == Len(f.stack)
                IN  IF h < n THEN [f EXCEPT !.fault = TRUE]
                    ELSE [f EXCEPT !.stack[h] = f.stack[h - n + 1], !.stack[h - n + 1] = x]

\* Copies of the input, of code or of the last return data into memory.
saturated(x) == IF x >= U64 THEN U64 - 1 ELSE x
copyInto(f, data, n) ==
    LET c == getData(data, saturated(top(f, n + 1)), top(f, n + 2))
        g == Set(f, top(f, n), top(f, n + 2), c.bytes)
    IN  [replace(g, n + 3, <<>>) EXCEPT !.fault = @ \/ c.fault]

opReturnDataCopy(f) ==
    LET off == top(f, 1)
        end == (off + top(f, 2)) % W
    IN  IF off >= U64 \/ end >= U64 \/ Len(f.returnData) < end
        THEN failed(f, "ErrReturnDataOutOfBounds")
        ELSE LET g == Set(f, top(f, 0), top(f, 2), SubSeq(f.returnData, off + 1, end))
             IN  [replace(g, 3, <<>>) EXCEPT !.fault = @ \/ end < off]

memoryOps(f, b, name, o) ==
    LET x == top(f, 0)
    IN  CASE name = "SHA3" -> replace(reading(f, x, top(f, 1)), 2, <<o.word>>)
          [] name = "CALLDATACOPY" -> copyInto(f, f.input, 0)
          [] name = "CODECOPY" -> copyInto(f, f.code, 0)
          [] name = "EXTCODECOPY" -> copyInto(f, o.data, 1)
          [] name = "RETURNDATACOPY" -> opReturnDataCopy(f)
          [] name = "MLOAD" -> replace(reading(f, x, WordLen), 1, <<toWord(GetPtr(f, x, WordLen))>>)
          [] name = "MSTORE" -> replace(Set(f, x, WordLen, wordBytes(top(f, 1))), 2, <<>>)
          [] name = "MSTORE8" -> replace(Set(f, x, 1, <<top(f, 1) % 256>>), 2, <<>>)
          [] name = "LOG" -> replace(reading(f, x, top(f, 1)), b - LOG0 + 2, <<>>)

\* Calls run elsewhere; o says how they ended and what they returned.  The identity
\* precompile (dataCopy) returns the slice of its input, which is this memory.
mayCall(f, in, out, o) ==
    LET args == GetPtr(f, top(f, in), top(f, in + 1))
        ret  == IF o.ok = "err" THEN <<>> ELSE IF o.copies THEN args ELSE o.data
        g    == IF o.ok = "err" THEN f ELSE Set(f, top(f, out), top(f, out + 1), ret)
        res  == IF o.copies /\ o.ok # "err" THEN GetPtr(g, top(f, in), top(f, in + 1)) ELSE ret
        h    == reading(replace(g, out + 2, <<bool(o.ok = "ok")>>), top(f, in), top(f, in + 1))
    IN  [h EXCEPT !.gas = @ + o.left, !.res = res]

\* opCreate and opCreate2: all but a 64th of the gas goes along, o.left comes back.
mayCreate(f, n, forwarded, o) ==
    LET h == reading(replace(f, n, <<IF o.ok = "ok" THEN o.word ELSE 0>>), top(f, 1), top(f, 2))
        ret == IF o.ok = "revert" THEN o.data ELSE <<>>
    IN  [h EXCEPT !.gas = @ - forwarded + (IF o.left < forwarded THEN o.left ELSE forwarded),
                  !.res = ret]

byzantium == {"byzantium", "constantinople", "istanbul", "yoloV2"}
eip150 == {"tangerineWhistle", "spuriousDragon"} \cup byzantium

closures(f, name, o) ==
    LET x == top(f, 0)
    IN  CASE name = "CREATE" -> mayCreate(f, 3, IF f.fork \in eip150 THEN f.gas - f.gas \div 64 ELSE f.gas, o)
          [] name = "CREATE2" -> mayCreate(f, 4, f.gas - f.gas \div 64, o)
          [] name \in {"CALL", "CALLCODE"} -> mayCall(f, 3, 5, o)
          [] name \in {"DELEGATECALL", "STATICCALL"} -> mayCall(f, 2, 4, o)
          [] name \in {"RETURN", "REVERT"} ->
                [replace(reading(f, x, top(f, 1)), 2, <<>>) EXCEPT
                    !.res = GetPtr(f, x, top(f, 1))]
          [] name = "SELFDESTRUCT" -> replace(f, 1, <<>>)
          [] name = "STOP" -> f

jumpTo(f, pos) ==
    IF validJumpdest(f.code, pos) THEN [f EXCEPT !.pc = pos] ELSE failed(f, "ErrInvalidJump")

\* opPush1 and makePush: bytes past the end of the code are zeros.
pushed(f, size) ==
    [replace(f, 0, <<toWord([i \in 1..size |-> GetOp(f.code, f.pc + i)])>>) EXCEPT !.pc = @ + size]

flow(f, b, name) ==
    LET pos == top(f, 0)
        g == replace(f, 1, <<>>)
    IN  CASE name = "JUMP" -> jumpTo(g, pos)
          [] name = "JUMPI" ->
                LET h == replace(f, 2, <<>>)
                IN  IF top(f, 1) # 0 THEN jumpTo(h, pos) ELSE [h EXCEPT !.pc = @ + 1]
          [] name = "JUMPDEST" -> f
          [] name = "BEGINSUB" -> failed(f, "ErrInvalidSubroutineEntry")
          [] name = "JUMPSUB" ->
                IF Len(f.rstack) >= RetLimit THEN failed(f, "ErrReturnStackExceeded")
                ELSE IF ~validJumpSubdest(f.code, pos) THEN failed(g, "ErrInvalidJump")
                ELSE [g EXCEPT !.rstack = Append(@, f.pc), !.pc = pos + 1]
          [] name = "RETURNSUB" ->
                IF f.rstack = <<>> THEN failed(f, "ErrInvalidRetsub")
                ELSE [f EXCEPT !.pc = f.rstack[Len(f.rstack)] + 1,
                               !.rstack = SubSeq(@, 1, Len(@) - 1)]
          [] name = "PUSH" -> pushed(f, b - PUSH1 + 1)

inClosures == {"CREATE", "CREATE2", "CALL", "CALLCODE", "DELEGATECALL", "STATICCALL",
                   "RETURN", "REVERT", "SELFDESTRUCT", "STOP"}
inMemoryOps == {"SHA3", "CALLDATACOPY", "CODECOPY", "EXTCODECOPY", "RETURNDATACOPY",
                    "MLOAD", "MSTORE", "MSTORE8", "LOG"}
inFlow == {"JUMP", "JUMPI", "JUMPDEST", "BEGINSUB", "JUMPSUB", "RETURNSUB", "PUSH"}

execute(f, b, name, o) ==
    IF name \in inClosures THEN closures(f, name, o)
    ELSE IF name \in inMemoryOps THEN memoryOps(f, b, name, o)
    ELSE IF name \in inFlow THEN flow(f, b, name)
    ELSE stackOps(f, b, name, o)

-----------------------------------------------------------------------------
\* One turn of the loop in Run: r is the row of the operation, size the memory it
\* asks for, fee its dynamic cost and o what the world outside the frame answers.
op == GetOp(m.code, m.pc)
table == InstructionSet[m.fork]
wholeWords(size) == IF size = Over THEN Over ELSE SafeMul(toWordSize(size), WordLen)
newSize(r) == IF r.memorySize = "none" THEN 0 ELSE wholeWords(memorySize(r.memorySize))

\* The first check that fails, in the order of the code.
refused(r, size, fee) ==
    IF Len(m.stack) < r.minStack THEN "ErrStackUnderflow"
    ELSE IF Len(m.stack) > r.maxStack THEN "ErrStackOverflow"
    ELSE IF /\ m.readOnly /\ m.fork \in byzantium
            /\ "writes" \in r.flags \/ (Name[op] = "CALL" /\ Back(2) # 0)
         THEN "ErrWriteProtection"
    ELSE IF m.gas < r.constantGas THEN "ErrOutOfGas"
    ELSE IF size = Over THEN "ErrGasUintOverflow"
    ELSE IF fee = Over \/ m.gas - r.constantGas < fee THEN "ErrOutOfGas"
    ELSE ""

\* Gas is used and memory grows by whole words; lastGasCost follows it in the rows whose
\* dynamicGas calls memoryGasCost.
callsMemoryGas(f) == f \notin {"none", "state", "gasExpFrontier", "gasExpEIP158"}
charged(r, size, fee) ==
    LET grows == size > Len(m.mem)
        paid  == grows /\ callsMemoryGas(r.dynamicGas)
    IN  [m EXCEPT !.gas = @ - r.constantGas - fee,
                  !.mem = IF grows THEN @ \o [i \in 1 .. size - Len(@) |-> 0] ELSE @,
                  !.lastGasCost = IF paid THEN memoryFee(size \div WordLen) ELSE @,
                  !.memPaid = IF paid THEN @ + memoryGasCost(size) ELSE @]

returning(r, f) == IF "returns" \in r.flags THEN [f EXCEPT !.returnData = f.res] ELSE f
ended(r, f) ==
    CASE f.err # "" -> f
      [] f.err = "" /\ "reverts" \in r.flags -> failed(f, "ErrExecutionReverted")
      [] f.err = "" /\ "halts" \in r.flags -> failed(f, "halted")
      [] OTHER -> IF "jumps" \in r.flags THEN f ELSE [f EXCEPT !.pc = @ + 1]
finished(r, f) == ended(r, returning(r, f))

Frame(p) ==
    [code |-> p.code, input |-> p.input, gas |-> p.gas, fork |-> p.fork, readOnly |-> p.readOnly,
     pc |-> 0, stack |-> <<>>, rstack |-> <<>>, mem |-> <<>>, lastGasCost |-> 0, returnData |-> <<>>,
     res |-> <<>>, err |-> "", fault |-> FALSE, memPaid |-> 0]

asksOutside ==
    Name[op] \in context \cup lookups \cup inClosures \cup {"SHA3", "BLOCKHASH", "EXTCODECOPY", "SSTORE"}

Refuse(r, size, fee) ==
    /\ refused(r, size, fee) # ""
    /\ m' = failed(m, refused(r, size, fee))
Execute(r, size, fee, o) ==
    /\ refused(r, size, fee) = ""
    /\ m' = finished(r, execute(charged(r, size, fee), op, Name[op], o))
Turn(r, size, fee, o) == Refuse(r, size, fee) \/ Execute(r, size, fee, o)
Priced(r, size, o) == Turn(r, size, dynamicGas(r.dynamicGas, op, size, o), o)

Invalid(t) ==
    /\ op \notin DOMAIN t
    /\ m' = failed(m, "ErrInvalidOpCode")
Step(t) ==
    /\ op \in DOMAIN t
    /\ \E r \in {t[op]}, o \in IF asksOutside THEN Outside ELSE {CHOOSE x \in Outside : TRUE} :
          Priced(r, newSize(r), o)
MachineNext == m.err = "" /\ \E t \in {table} : Invalid(t) \/ Step(t)

-----------------------------------------------------------------------------
\* The positions where instructions start, read from the left.
RECURSIVE boundaries(_, _)
boundaries(code, pc) ==
    IF pc >= Len(code) THEN {}
    ELSE {pc} \cup boundaries(code, pc + 1 + (IF IsPush(code[pc + 1]) THEN code[pc + 1] - 95 ELSE 0))

running == m.err = ""

(* No instruction pops an empty stack, touches memory that was not paid for  *)
(* and grown, or slices out of bounds, whatever its operands: the checks that *)
(* Run makes from the jump table before execute are enough for what execute   *)
(* does after them.                                                           *)
NoFault == ~m.fault

(* The program counter only ever stands on an instruction, never inside the   *)
(* data of a PUSH, through jumps, subroutine calls and returns and pushes cut *)
(* off by the end of the code.                                                *)
PcOnInstruction == running => m.pc >= Len(m.code) \/ m.pc \in boundaries(m.code, 0)

(* codeBitmap marks exactly the bytes that are push data, whatever the        *)
(* alignment of the push in the bit vector, and never writes past the vector, *)
(* however far the push overhangs the end of the code.                        *)
DataBitmapExact ==
    m.pc = 0 => LET bits == codeBitmap(m.code)
                    first == boundaries(m.code, 0)
                IN  /\ Len(bits) = bitmapLen(m.code)
                    /\ \A pos \in 0 .. Len(m.code) - 1 : codeSegment(bits, pos) <=> pos \in first

(* Memory is whole words, and what a frame has paid for it is the price of    *)
(* its size, by whatever accesses it grew.                                    *)
MemoryPaid ==
    running => /\ Len(m.mem) % WordLen = 0
               /\ m.memPaid = memoryFee(Len(m.mem) \div WordLen)
               /\ m.lastGasCost = m.memPaid

(* A frame stays within its code, its stack and the memory it has paid for    *)
(* (Interpreter.Run, codeBitmap, memoryGasCost).                              *)
FrameInBounds == NoFault /\ PcOnInstruction /\ DataBitmapExact /\ MemoryPaid

(* An instruction that does not end the frame changes the height of the stack *)
(* by the pops and pushes its row of the jump table was built from, never     *)
(* past the limit, and costs gas, so that no program runs forever on what it  *)
(* was given.                                                                 *)
StepsFollowTable ==
    [][running /\ m'.err = "" =>
         /\ Len(m'.stack) = Len(m.stack) + StackLimit - table[op].maxStack
         /\ Len(m'.stack) <= StackLimit
         /\ m'.gas < m.gas]_m
=============================================================================
