------------------------------ MODULE Numerics ------------------------------
(***************************************************************************)
(* What the interpreter computes with: C's integer types and conversions,  *)
(* the arithmetic of m3_math_utils.h and m3_exec.h, truncation of floats,  *)
(* the conversion of JS numbers, and the three readers of LEB128 numbers.  *)
(*                                                                         *)
(* Widths are scaled: a byte of memory has ByteBits bits, i32 four bytes,  *)
(* i64 eight; a byte of code has GroupBits bits of a number and one that   *)
(* says more follow.  A float is a number of halves with so many bits of   *)
(* mantissa, infinity a number beyond every other.                         *)
(***************************************************************************)
EXTENDS Integers, Sequences, FiniteSets
LOCAL INSTANCE Bitwise
LOCAL INSTANCE SequencesExt

CONSTANTS
  ByteBits,     \* 8
  GroupBits,    \* 7
  SingleBits,   \* 24, the mantissa of f32
  DoubleBits    \* 53, that of f64

Bytes(type) ==
  CASE type \in {"i8", "u8"}   -> 1
    [] type \in {"i16", "u16"} -> 2
    [] type \in {"i32", "u32"} -> 4
    [] OTHER                   -> 8

Width(type) == ByteBits * Bytes(type)
Signed(type) == type \in {"i8", "i16", "i32", "i64"}
Least(type) == IF Signed(type) THEN -(2 ^ (Width(type) - 1)) ELSE 0
Most(type)  == Least(type) + 2 ^ Width(type) - 1

\* A conversion to an integer type keeps the low bits.
Cast(type, n) ==
  LET low == n % (2 ^ Width(type)) IN IF low > Most(type) THEN low - 2 ^ Width(type) ELSE low

Size(n) == IF n < 0 THEN -n ELSE n

\* C's / and % round to zero.
Quotient(a, b) == (IF (a < 0) = (b < 0) THEN 1 ELSE -1) * (Size(a) \div Size(b))
Residue(a, b)  == a - b * Quotient(a, b)

Truth(p) == IF p THEN 1 ELSE 0

-----------------------------------------------------------------------------
(* Binary operations on values of a type.  The result is the set of what   *)
(* the 64 bits of the register may then be, or a trap.                     *)

Trap(why)   == [trap |-> why, values |-> {}]
Value(x)    == [trap |-> "none", values |-> {Cast("i64", x)}]

\* Signed overflow: the low bits of the sum, and above them its sign or its carry.
Overflows(type, x) == [trap |-> "none", values |-> {Cast("i64", x), Cast("i64", Cast(type, x))}]

Shift(type, n) == Cast(IF Width(type) = Width("i32") THEN "u32" ELSE "u64", n) % Width(type)

\* n << c | n >> (-c & mask), c masked first.
Rotl(type, n, c) ==
  LET mask == Width(type) - 1
      left == c % Width(type)
  IN Cast(type, n * 2 ^ left) | (n \div (2 ^ ((-left) % (mask + 1))))

Rotr(type, n, c) ==
  LET mask  == Width(type) - 1
      right == c % Width(type)
  IN (n \div (2 ^ right)) | Cast(type, n * 2 ^ ((-right) % (mask + 1)))

\* Mutant: only the division by zero is looked for.
DivideZero(type, a, b) ==
  IF b = 0 THEN Trap("division by zero") ELSE Value(Cast(type, Quotient(a, b)))

\* OP_DIV_U, OP_DIV_S.
Divide(type, a, b) ==
  IF b = 0 THEN Trap("division by zero")
  ELSE IF Signed(type) /\ b = -1 /\ a = Least(type) THEN Trap("integer overflow")
  ELSE Value(Quotient(a, b))

\* OP_REM_U, OP_REM_S.
Remainder(type, a, b) ==
  IF b = 0 THEN Trap("division by zero")
  ELSE IF Signed(type) /\ b = -1 /\ a = Least(type) THEN Value(0)
  ELSE Value(Residue(a, b))

SignedOps == {"Add", "Subtract", "Multiply", "Equal", "NotEqual"}
BothOps   == {"LessThan", "GreaterThan", "LessThanOrEqual", "GreaterThanOrEqual", "ShiftRight",
              "Divide", "Remainder"}
UnsignedOps == {"ShiftLeft", "And", "Or", "Xor", "Rotl", "Rotr"}

BinaryOps ==
  (SignedOps \cup BothOps) \X {"i32", "i64"} \cup (BothOps \cup UnsignedOps) \X {"u32", "u64"}

Binary(op, type, a, b) ==
  CASE op = "Add"                -> Overflows(type, a + b)
    [] op = "Subtract"           -> Overflows(type, a - b)
    [] op = "Multiply"           -> Overflows(type, a * b)
    [] op = "Equal"              -> Value(Truth(a = b))
    [] op = "NotEqual"           -> Value(Truth(a # b))
    [] op = "LessThan"           -> Value(Truth(a < b))
    [] op = "GreaterThan"        -> Value(Truth(a > b))
    [] op = "LessThanOrEqual"    -> Value(Truth(a <= b))
    [] op = "GreaterThanOrEqual" -> Value(Truth(a >= b))
    [] op = "ShiftLeft"          -> Value(Cast(type, a * 2 ^ Shift(type, b)))
    [] op = "ShiftRight"         -> Value(a \div (2 ^ Shift(type, b)))
    [] op = "And"                -> Value(a & b)
    [] op = "Or"                 -> Value(a | b)
    [] op = "Xor"                -> Value(a ^^ b)
    [] op = "Rotl"               -> Value(Rotl(type, a, b))
    [] op = "Rotr"               -> Value(Rotr(type, a, b))
    [] op = "Divide"             -> Divide(type, a, b)
    [] op = "Remainder"          -> Remainder(type, a, b)

Commutative == {"Add", "Multiply", "Equal", "NotEqual", "And", "Or", "Xor"}

-----------------------------------------------------------------------------
(* Unary operations.                                                       *)

\* __builtin_clz and __builtin_ctz of a number that is not 0.
BuiltinClz(type, x) == CHOOSE n \in 0 .. Width(type) - 1 : x \div (2 ^ (Width(type) - 1 - n)) = 1
BuiltinCtz(type, x) == CHOOSE n \in 0 .. Width(type) - 1 : (x \div (2 ^ n)) % 2 = 1 /\ x % (2 ^ n) = 0

\* Two ways, by the compiler's target.
Clz(type, x) == {IF x = 0 THEN Width(type) ELSE BuiltinClz(type, x)} \cup
                (IF type = "u64" THEN {BuiltinClz(type, x | 1) + Truth(x = 0)} ELSE {})
Ctz(type, x) == {IF x = 0 THEN Width(type) ELSE BuiltinCtz(type, x)} \cup
                (IF type = "u64" THEN {BuiltinCtz(type, x | 2 ^ (Width(type) - 1)) + Truth(x = 0)} ELSE {})

Popcnt(type, x) == Cardinality({n \in 0 .. Width(type) - 1 : (x \div (2 ^ n)) % 2 = 1})

\* An operation, the type it reads its operand as, and that of its result.
UnaryOps ==
  {<<"EqualToZero", "i32", "i32">>, <<"EqualToZero", "i64", "i32">>,
   <<"Clz", "u32", "i32">>, <<"Clz", "u64", "i64">>, <<"Ctz", "u32", "i32">>, <<"Ctz", "u64", "i64">>,
   <<"Popcnt", "u32", "i32">>, <<"Popcnt", "u64", "i64">>, <<"Wrap", "i64", "i32">>,
   <<"Extend8", "i32", "i32">>, <<"Extend16", "i32", "i32">>, <<"Extend8", "i64", "i64">>,
   <<"Extend16", "i64", "i64">>, <<"Extend32", "i64", "i64">>,
   <<"ExtendSigned", "i32", "i64">>, <<"ExtendUnsigned", "u32", "i64">>}

\* Wrap leaves the upper half 0.
Unary(op, type, x) ==
  CASE op = "EqualToZero" -> {Truth(x = 0)}
    [] op = "Clz"         -> Clz(type, x)
    [] op = "Ctz"         -> Ctz(type, x)
    [] op = "Popcnt"      -> {Popcnt(type, x)}
    [] op = "Wrap"        -> {x % (2 ^ Width("i32"))}
    [] op = "Extend8"     -> {Cast("i8", x)}
    [] op = "Extend16"    -> {Cast("i16", x)}
    [] op = "Extend32"    -> {Cast("i32", x)}
    [] OTHER              -> {x}

-----------------------------------------------------------------------------
(* Floats.                                                                 *)

Float(neg, mag) == [nan |-> FALSE, neg |-> neg, mag |-> mag]
NaN       == [nan |-> TRUE, neg |-> FALSE, mag |-> 0]
Infinite  == 2 ^ (2 * Width("i64"))
Halves(f) == IF f.neg THEN -f.mag ELSE f.mag

Mantissa(float) == IF float = "f32" THEN SingleBits ELSE DoubleBits

\* Whether n halves is a float with a mantissa of so many bits.
Represents(bits, n) == \E e \in 0 .. Width("i64") + 1 : n % (2 ^ e) = 0 /\ n \div (2 ^ e) < 2 ^ bits

\* The first float beyond -2^width that a type does not have, in halves.
Beyond(bits, n) == CHOOSE m \in n + 1 .. 2 * n : Represents(bits, m) /\ \A k \in n + 1 .. m - 1 : ~Represents(bits, k)

\* RMIN and RMAX of OP_TRUNC: -1 for an unsigned type; for a signed one the number
\* before the least if the float has it, else the float before.
Rmin(type, float) ==
  IF ~Signed(type) THEN -2
  ELSE IF Represents(Mantissa(float), 2 - 2 * Least(type)) THEN 2 * Least(type) - 2
  ELSE -Beyond(Mantissa(float), -2 * Least(type))

Rmax(type) == 2 * Most(type) + 2

\* OP_TRUNC.
Trunc(type, float, a) ==
  IF a.nan THEN Trap("integer conversion")
  ELSE IF Halves(a) <= Rmin(type, float) \/ Halves(a) >= Rmax(type) THEN Trap("integer overflow")
  ELSE Value(Quotient(Halves(a), 2))

\* OP_TRUNC_SAT.
TruncSat(type, float, a) ==
  IF a.nan THEN Value(0)
  ELSE IF Halves(a) <= Rmin(type, float) THEN Value(Least(type))
  ELSE IF Halves(a) >= Rmax(type) THEN Value(Most(type))
  ELSE Value(Quotient(Halves(a), 2))

\* min_f32, min_f64, max_f32, max_f64: signbit decides between two zeros.
MinFloat(a, b) ==
  IF a.nan \/ b.nan THEN NaN
  ELSE IF a.mag = 0 /\ b.mag = 0 THEN IF a.neg THEN a ELSE b
  ELSE IF Halves(a) > Halves(b) THEN b ELSE a

MaxFloat(a, b) ==
  IF a.nan \/ b.nan THEN NaN
  ELSE IF a.mag = 0 /\ b.mag = 0 THEN IF a.neg THEN b ELSE a
  ELSE IF Halves(a) > Halves(b) THEN a ELSE b

\* The C conversion of an integer, to the nearest float, or the even one of two.
Rounded(bits, n) ==
  LET e == CHOOSE e \in 0 .. Width("i64") + 1 :
             n \div (2 ^ e) < 2 ^ bits /\ (e = 0 \/ n \div (2 ^ (e - 1)) >= 2 ^ bits)
      q == n \div (2 ^ e)
      up == e # 0 /\ (2 * (n % (2 ^ e)) > 2 ^ e \/ (2 * (n % (2 ^ e)) = 2 ^ e /\ q % 2 = 1))
  IN IF up THEN (q + 1) * 2 ^ e ELSE q * 2 ^ e

Convert(float, x) == Float(x < 0, Rounded(Mantissa(float), 2 * Size(x)))

\* C's comparisons: with a NaN only != holds.
Compare(op, a, b) ==
  CASE op = "Equal"              -> ~a.nan /\ ~b.nan /\ Halves(a) = Halves(b)
    [] op = "NotEqual"           -> a.nan \/ b.nan \/ Halves(a) # Halves(b)
    [] op = "LessThan"           -> ~a.nan /\ ~b.nan /\ Halves(a) < Halves(b)
    [] op = "GreaterThan"        -> ~a.nan /\ ~b.nan /\ Halves(a) > Halves(b)
    [] op = "LessThanOrEqual"    -> ~a.nan /\ ~b.nan /\ Halves(a) <= Halves(b)
    [] op = "GreaterThanOrEqual" -> ~a.nan /\ ~b.nan /\ Halves(a) >= Halves(b)

\* doubleToInt64 of the binding, toInt64 of a JS number.
DoubleToInt64(d) ==
  IF d.nan THEN 0
  ELSE IF Halves(d) >= 2 * Most("i64") + 2 THEN Most("i64")
  ELSE IF Halves(d) <= 2 * Least("i64") THEN Least("i64")
  ELSE Quotient(Halves(d), 2)

\* valueToSlot for an integer type.
ValueToSlot(type, d) == Cast(type, DoubleToInt64(d))

\* slotToValue of 32 and 64 bits.
SlotToValue(type, cell) == Cast(IF Width(type) = Width("i32") THEN "i32" ELSE "i64", cell)

-----------------------------------------------------------------------------
(* LEB128.  A byte of code is a number below 2 ^ (GroupBits + 1).          *)

Payload(byte) == byte % (2 ^ GroupBits)
More(byte)    == byte >= 2 ^ GroupBits

NotRead == [value |-> 0, shift |-> 0, read |-> 0, result |-> "underrun"]

\* The loop of ReadLebUnsigned and ReadLebSigned.
ReadLeb(maxNumBits, bytes) ==
  LET Step(s, byte) ==
        IF s.result # "underrun" THEN s
        ELSE [value  |-> Cast("u64", s.value + Payload(byte) * 2 ^ s.shift),
              shift  |-> s.shift + GroupBits,
              read   |-> s.read + 1,
              result |-> IF ~More(byte) THEN "none"
                         ELSE IF s.shift + GroupBits >= maxNumBits THEN "overflow" ELSE "underrun"]
  IN FoldLeft(Step, NotRead, bytes)

ReadLEB_u32(bytes) ==
  LET s == ReadLeb(Width("u32"), bytes) IN [s EXCEPT !.value = Cast("u32", @)]

\* ReadLEB_i32, ReadLEB_i64: the sign of the last group fills the 64 bits.
ReadLEB_signed(type, bytes) ==
  LET s == ReadLeb(Width(type), bytes)
      negative == s.result = "none" /\ 2 * Payload(bytes[s.read]) >= 2 ^ GroupBits /\ s.shift < Width("i64")
  IN [s EXCEPT !.value = Cast(type, IF negative THEN @ - 2 ^ s.shift ELSE @)]

\* The groups of a u32 (35 bits of them for 32).
MaxShift == GroupBits * ((Width("u32") + GroupBits - 1) \div GroupBits)

\* Mutant: one group less is read.
readLebU32Short(bytes) ==
  LET Step(s, byte) ==
        IF s.result # "underrun" \/ s.shift + GroupBits >= MaxShift THEN s
        ELSE [value  |-> Cast("u32", s.value + Payload(byte) * 2 ^ s.shift),
              shift  |-> s.shift + GroupBits, read |-> s.read + 1,
              result |-> IF More(byte) THEN "underrun" ELSE "none"]
  IN FoldLeft(Step, NotRead, bytes)

\* The binding's: in 32 bits, while there are bytes and the shift is below 35.
readLebU32(bytes) ==
  LET Step(s, byte) ==
        IF s.result # "underrun" \/ s.shift >= MaxShift THEN s
        ELSE [value  |-> Cast("u32", s.value + Payload(byte) * 2 ^ s.shift),
              shift  |-> s.shift + GroupBits, read |-> s.read + 1,
              result |-> IF More(byte) THEN "underrun" ELSE "none"]
  IN FoldLeft(Step, NotRead, bytes)

\* The polyfill's: JS shifts of signed 32 bits, and >>> 0 at the end.
leb(bytes) ==
  LET Step(s, byte) ==
        IF s.result # "underrun" THEN s
        ELSE [value  |-> Cast("i32", s.value + Cast("i32", Payload(byte) * 2 ^ s.shift)),
              shift  |-> s.shift + GroupBits, read |-> s.read + 1,
              result |-> IF ~More(byte) THEN "none"
                         ELSE IF s.shift + GroupBits >= MaxShift THEN "malformed" ELSE "underrun"]
      s == FoldLeft(Step, NotRead, bytes)
  IN [s EXCEPT !.value = Cast("u32", @)]
=============================================================================
