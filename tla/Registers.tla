------------------------------ MODULE Registers ------------------------------
(***************************************************************************)
(* The interpreter's operations on its two registers: r0 has 64 bits and   *)
(* stands for the integer on top of the wasm stack, also for one of 32     *)
(* bits, whatever is above these; fp0 for a float.  Beside the registers   *)
(* and the memory run what WebAssembly says is on top of its stack, in its *)
(* memory, and whether it trapped (module WasmArithmetic).                 *)
(*                                                                         *)
(* Of an operation's forms (m3_exec.h) the first letter is where the top   *)
(* of the stack is, r for the register and s for a slot; a slot holds a    *)
(* number of the operation's own type.                                     *)
(***************************************************************************)
EXTENDS WasmArithmetic

CONSTANTS
  SlotValues,   \* bound: the patterns in slots, by type (i32, i64)
  FloatValues,  \* bound: the floats in slots and the numbers of JS
  Offsets,      \* bound: the offsets of loads and stores
  StartMemory,  \* the memory at first, from address 0 on
  MaxCode       \* bound: bytes of code read for one number

VARIABLES
  bytes,    \* the bytes of code read so far for the next constant
  r0, fp0,
  memory,
  top,      \* what is on top of the wasm stack
  wasmMemory,
  outcome   \* running, a trap, or stored; for the code and for WebAssembly

vars == <<bytes, r0, fp0, memory, top, wasmMemory, outcome>>

IntegerOf(type) == IF Width(type) = Width("i32") THEN "i32" ELSE "i64"

Integer(type, pattern) == [type |-> type, pattern |-> pattern, float |-> NaN]
AFloat(f)              == [type |-> "float", pattern |-> 0, float |-> f]

NoFloat                == Float(FALSE, 0)

Going(code, wasm) == [code |-> code, wasm |-> wasm]
Running == outcome = Going("running", "running")
After(trap) == IF trap = "none" THEN "running" ELSE trap

\* A function has just been entered: bound, for what needs nothing on the stack.
Fresh == Running /\ r0 = 0 /\ top = Integer("i64", 0) /\ memory = StartMemory

\* The result of the code in r0, that of WebAssembly on top.  fp0 is dead then: no
\* operation reads it before it is set again, so what it keeps is not recorded.
Finish(type, code, wasm) ==
  /\ IF code.trap = "none" THEN r0' \in code.values ELSE r0' = r0
  /\ top' = IF wasm.trap = "none" THEN Integer(type, wasm.value) ELSE top
  /\ outcome' = Going(After(code.trap), After(wasm.trap))
  /\ bytes' = <<>> /\ fp0' = NoFloat
  /\ UNCHANGED <<memory, wasmMemory>>

-----------------------------------------------------------------------------
(* Arithmetic.                                                             *)

TopIs(type) == Running /\ bytes = <<>> /\ top.type = type

\* What an operand is for the code and for WebAssembly.
InRegister(type) == IF TopIs(type) THEN {<<r0, top.pattern>>} ELSE {}
InSlots(type)    == {<<x, x>> : x \in SlotValues[type]}

Operands(type) == InRegister(type) \cup (IF Fresh /\ bytes = <<>> THEN InSlots(type) ELSE {})

BinaryRS(op, type) ==
  /\ TopIs(IntegerOf(type))
  /\ \E x \in SlotValues[IntegerOf(type)] :
       Finish(ResultType(op, type), Binary(op, type, Cast(type, x), Cast(type, r0)),
              WasmBinary(op, type, x, top.pattern))

\* Mutant: the operands stay where they are.
OperandsSwapped(op, x, register) == <<x, register>>

\* There is one form for an operation that commutes.
OperandsSR(op, x, register) == IF op \in Commutative THEN <<x, register>> ELSE <<register, x>>

BinarySR(op, type) ==
  /\ TopIs(IntegerOf(type))
  /\ \E x \in SlotValues[IntegerOf(type)] :
       LET operands == OperandsSR(op, Cast(type, x), Cast(type, r0))
       IN Finish(ResultType(op, type), Binary(op, type, operands[1], operands[2]),
                 WasmBinary(op, type, top.pattern, x))

BinarySS(op, type) ==
  /\ Fresh /\ bytes = <<>>
  /\ \E x, y \in SlotValues[IntegerOf(type)] :
       Finish(ResultType(op, type), Binary(op, type, Cast(type, x), Cast(type, y)),
              WasmBinary(op, type, x, y))

UnaryOf(op, type, result) ==
  \E x \in Operands(IntegerOf(type)) :
    Finish(result, [trap |-> "none", values |-> Unary(op, type, Cast(type, x[1]))],
           Result(WasmUnary(op, type, x[2])))

-----------------------------------------------------------------------------
(* Constants, select, and numbers from JS.                                 *)

SetRegister(type) ==
  /\ Fresh /\ bytes = <<>>
  /\ \E x \in SlotValues[type] : Finish(type, Value(Cast(type, x)), Result(x))

SelectRSS(type) ==
  /\ TopIs("i32")
  /\ \E x, y \in SlotValues[type] :
       Finish(type, Value(Cast(type, IF Cast("i32", r0) # 0 THEN x ELSE y)),
              Result(IF top.pattern # 0 THEN x ELSE y))

\* One of the operands is in the register.
SelectSRS(type) ==
  /\ TopIs(type)
  /\ \E x \in SlotValues[type], c \in {0, 1} :
       Finish(type, Value(IF c # 0 THEN Cast(type, x) ELSE Cast(type, r0)),
              Result(IF c # 0 THEN x ELSE top.pattern))

SelectSSR(type) ==
  /\ TopIs(type)
  /\ \E x \in SlotValues[type], c \in {0, 1} :
       Finish(type, Value(IF c # 0 THEN Cast(type, r0) ELSE Cast(type, x)),
              Result(IF c # 0 THEN top.pattern ELSE x))

SelectSSS(type) ==
  /\ Fresh /\ bytes = <<>>
  /\ \E x, y \in SlotValues[type], c \in {0, 1} :
       Finish(type, Value(Cast(type, IF c # 0 THEN x ELSE y)), Result(IF c # 0 THEN x ELSE y))

ReadByte ==
  /\ Fresh /\ Len(bytes) < MaxCode
  /\ \E b \in 0 .. 2 ^ (GroupBits + 1) - 1 : bytes' = Append(bytes, b)
  /\ UNCHANGED <<r0, fp0, memory, top, wasmMemory, outcome>>

\* i32.const and i64.const.
Const(type) ==
  /\ Fresh /\ bytes # <<>>
  /\ LET wasm == LebSigned(N(type), bytes)
         code == ReadLEB_signed(type, bytes)
     IN /\ wasm.legal
        /\ Finish(type, IF code.result = "none" /\ code.read = Len(bytes) THEN Value(code.value)
                        ELSE Trap(code.result),
                  Result(Pattern(N(type), wasm.value)))

\* valueToSlot of an argument, then used in the register.
Argument(type) ==
  /\ Fresh /\ bytes = <<>>
  /\ \E d \in FloatValues :
       /\ d.nan \/ Halves(d) \div 2 \in Least("i64") .. Most("i64")
       /\ Finish(type, Value(ValueToSlot(type, d)), Result(JsToInteger(type, d)))

-----------------------------------------------------------------------------
(* Floats.                                                                 *)

\* Now r0 is dead.
FinishFloat(code, wasm) ==
  /\ fp0' = code
  /\ top' = AFloat(wasm)
  /\ r0' = 0
  /\ UNCHANGED <<bytes, memory, wasmMemory, outcome>>

SetRegisterFloat ==
  /\ Fresh /\ bytes = <<>>
  /\ \E f \in FloatValues : FinishFloat(f, f)

\* What fp0 is compared with: bound.
Few == {f \in FloatValues : f.nan \/ f.mag \in {0, 2, Infinite}}

MinMax ==
  /\ TopIs("float")
  /\ \E f \in Few :
       \/ FinishFloat(MinFloat(f, fp0), WasmMin(f, top.float))
       \/ FinishFloat(MaxFloat(f, fp0), WasmMax(f, top.float))

Comparisons == {"Equal", "NotEqual", "LessThan", "GreaterThan", "LessThanOrEqual", "GreaterThanOrEqual"}

CompareRS(op) ==
  /\ TopIs("float")
  /\ \E f \in Few : Finish("i32", Value(Truth(Compare(op, f, fp0))),
                           Result(Truth(WasmCompare(op, f, top.float))))

CompareSR(op) ==
  /\ TopIs("float") /\ op \notin Commutative
  /\ \E f \in Few : Finish("i32", Value(Truth(Compare(op, fp0, f))),
                           Result(Truth(WasmCompare(op, top.float, f))))

ConvertOf(type, float) ==
  \E x \in Operands(IntegerOf(type)) :
    FinishFloat(Convert(float, Cast(type, x[1])), WasmConvert(type, float, x[2]))

TruncR(type, float) ==
  /\ TopIs("float") /\ (fp0.nan \/ fp0.mag = Infinite \/ Represents(Mantissa(float), fp0.mag))
  /\ \/ Finish(IntegerOf(type), Trunc(type, float, fp0), WasmTrunc(type, top.float))
     \/ Finish(IntegerOf(type), TruncSat(type, float, fp0), Result(WasmTruncSat(type, top.float)))

-----------------------------------------------------------------------------
(* Memory.                                                                 *)

Length == Cardinality(DOMAIN StartMemory)

Loads ==
  {<<"i32", "i8">>, <<"i32", "u8">>, <<"i32", "i16">>, <<"i32", "u16">>, <<"i32", "i32">>,
   <<"i64", "i8">>, <<"i64", "u8">>, <<"i64", "i16">>, <<"i64", "u16">>, <<"i64", "i32">>,
   <<"i64", "u32">>, <<"i64", "i64">>}

Stores ==
  {<<"i32", "u8">>, <<"i32", "i16">>, <<"i32", "i32">>,
   <<"i64", "u8">>, <<"i64", "i16">>, <<"i64", "i32">>, <<"i64", "i64">>}

OutOfBounds == Trap("out of bounds")

\* Mutant: the sum of address and offset is kept in 32 bits.
EffectiveWrapped(address, offset) == Cast("u32", address + offset)

\* u64 operand = (u32) address; operand += offset.
Effective(address, offset) == Cast("u64", address + offset)

InMemory(operand, size) == operand + size <= Length

Load(dest, src) ==
  \E address \in Operands("i32"), offset \in Offsets :
    LET operand == Effective(Cast("u32", address[1]), offset)
        at      == address[2] + offset
        size    == Bytes(src)
        read    == ReadBytes(wasmMemory, at, size)
    IN Finish(dest,
         IF InMemory(operand, size)
         THEN Value(Cast(dest, Cast(src, ReadBytes(memory, operand, size)))) ELSE OutOfBounds,
         IF at + size > Length THEN Traps("out of bounds")
         ELSE Result(IF Signed(src) THEN ExtendFrom(N(src), N(dest), read) ELSE read))

\* What a store, a copy or a fill ends with: a trap, or the two memories.
Stored(fits, code, wasmFits, wasm) ==
  /\ outcome' = Going(IF fits THEN "stored" ELSE "out of bounds",
                      IF wasmFits THEN "stored" ELSE "out of bounds")
  /\ memory' = IF fits THEN code ELSE memory
  /\ wasmMemory' = IF wasmFits THEN wasm ELSE wasmMemory
  /\ UNCHANGED <<bytes, r0, fp0, top>>

\* A value and the address of a store: at most one of them is in the register.
StoreOperands(type) ==
  (InRegister(type) \X InSlots("i32")) \cup (InSlots(type) \X InRegister("i32")) \cup
  (IF Fresh /\ bytes = <<>> THEN InSlots(type) \X InSlots("i32") ELSE {})

Store(src, dest) ==
  \E operands \in StoreOperands(src), offset \in Offsets :
    LET x       == operands[1]
        address == operands[2]
        operand == Effective(Cast("u32", address[1]), offset)
        at      == address[2] + offset
        size    == Bytes(dest)
    IN Stored(InMemory(operand, size), WriteBytes(memory, operand, size, Cast(dest, Cast(src, x[1]))),
              at + size <= Length, WriteBytes(wasmMemory, at, size, x[2]))

\* memmove: by way of a copy, or towards the end that is not overwritten.
Moved(m, to, from, size) == [a \in DOMAIN m |-> IF a \in to .. to + size - 1 THEN m[from + a - to] ELSE m[a]]

\* Destination first, then source; the size is in the register.
MemCopy ==
  /\ TopIs("i32")
  /\ \E to, from \in SlotValues["i32"] :
       LET size == Cast("u32", r0)
       IN Stored(InMemory(to, size) /\ InMemory(from, size), Moved(memory, to, from, size),
                 to + top.pattern <= Length /\ from + top.pattern <= Length,
                 Moved(wasmMemory, to, from, top.pattern))

MemFill ==
  /\ TopIs("i32")
  /\ \E to \in SlotValues["i32"], byte \in SlotValues["i32"] :
       LET size == Cast("u32", r0)
           Filled(m, n) == [a \in DOMAIN m |-> IF a \in to .. to + n - 1 THEN byte % (2 ^ ByteBits) ELSE m[a]]
       IN Stored(InMemory(to, size), Filled(memory, size),
                 to + top.pattern <= Length, Filled(wasmMemory, top.pattern))

-----------------------------------------------------------------------------
\* m3_exec.h's d_m3ClearRegisters on the entry of a function.
Init ==
  /\ bytes = <<>>
  /\ r0 = 0 /\ top = Integer("i64", 0)
  /\ fp0 = NoFloat
  /\ memory = StartMemory /\ wasmMemory = StartMemory
  /\ outcome = Going("running", "running")

Next ==
  \/ \E b \in BinaryOps : BinaryRS(b[1], b[2]) \/ BinarySR(b[1], b[2]) \/ BinarySS(b[1], b[2])
  \/ \E u \in UnaryOps : UnaryOf(u[1], u[2], u[3])
  \/ \E type \in {"i32", "i64"} :
       \/ SetRegister(type) \/ Const(type) \/ Argument(type)
       \/ SelectRSS(type) \/ SelectSRS(type) \/ SelectSSR(type) \/ SelectSSS(type)
  \/ ReadByte
  \/ SetRegisterFloat \/ MinMax
  \/ \E op \in Comparisons : CompareRS(op) \/ CompareSR(op)
  \/ \E type \in {"i32", "u32", "i64", "u64"}, float \in {"f32", "f64"} :
       ConvertOf(type, float) \/ TruncR(type, float)
  \/ \E l \in Loads : Load(l[1], l[2])
  \/ \E s \in Stores : Store(s[1], s[2])
  \/ MemCopy \/ MemFill

Spec == Init /\ [][Next]_vars

-----------------------------------------------------------------------------
(* Properties.                                                             *)

\* What the next reader of the register sees, and JS when it is the result.
StandsForTop ==
  IF top.type = "float" THEN fp0 = top.float
  ELSE /\ Pattern(N(top.type), r0) = top.pattern
       /\ SlotToValue(top.type, r0) = SignedValue(N(top.type), top.pattern)

\* After any sequence of operations, in any form, the code has trapped where
\* WebAssembly traps and for the same reason; the register, cut to the type, is the
\* top of the stack whatever was left above the 32 bits; memory is what it should
\* be (m3_math_utils.h:156, m3_exec.h:180, :1263; react-native-webassembly.cpp:121).
OperationsAsSpecified ==
  /\ outcome.code = outcome.wasm
  /\ memory = wasmMemory
  /\ Running => StandsForTop

\* Three readers walk the same module bytes: on any bytes, legal or not, they read
\* the same number from as many, or all refuse; a legal number they read as such
\* (m3_core.c:361, react-native-webassembly.cpp:592, core.ts:145).
ReadersAgree ==
  LET interpreter == ReadLEB_u32(bytes)
      binding     == readLebU32(bytes)
      polyfill    == leb(bytes)
      number      == LebUnsigned(N("u32"), bytes)
  IN /\ \A r \in {binding, polyfill} :
          IF interpreter.result = "none"
          THEN r.result = "none" /\ r.value = interpreter.value /\ r.read = interpreter.read
          ELSE r.result # "none"
     /\ number.legal => interpreter.result = "none" /\ interpreter.value = number.value
                        /\ interpreter.read = Len(bytes)
=============================================================================
