--------------------------- MODULE WasmArithmetic ---------------------------
(***************************************************************************)
(* What WebAssembly and its JS interface say of the numbers that module    *)
(* Numerics computes: integers are patterns of N bits, numbers from 0 to   *)
(* 2^N - 1, read as signed or unsigned by the operation.                   *)
(***************************************************************************)
EXTENDS Numerics
LOCAL INSTANCE FiniteSetsExt

N(type) == Width(type)

Pattern(n, i) == i % (2 ^ n)
SignedValue(n, i) == IF i >= 2 ^ (n - 1) THEN i - 2 ^ n ELSE i

BitOf(i, k) == (i \div (2 ^ k)) % 2
FromBits(n, Holds(_)) == MapThenSumSet(LAMBDA k : IF Holds(k) THEN 2 ^ k ELSE 0, 0 .. n - 1)

\* The integer part: towards zero.
Truncated(p, q) ==
  LET m == Size(p) \div Size(q) IN IF p = 0 \/ (p > 0 <=> q > 0) THEN m ELSE -m

Result(i) == [trap |-> "none", value |-> i]
Traps(why) == [trap |-> why, value |-> 0]

\* i, j: patterns; the type says whether they are read as signed numbers.
WasmBinary(op, type, i, j) ==
  LET n == N(type)
      Read(x) == IF Signed(type) THEN SignedValue(n, x) ELSE x
      k == j % n
  IN CASE op = "Add"      -> Result(Pattern(n, i + j))
       [] op = "Subtract" -> Result(Pattern(n, i - j))
       [] op = "Multiply" -> Result(Pattern(n, i * j))
       [] op = "Equal"    -> Result(Truth(i = j))
       [] op = "NotEqual" -> Result(Truth(i # j))
       [] op = "LessThan" -> Result(Truth(Read(i) < Read(j)))
       [] op = "GreaterThan"        -> Result(Truth(Read(i) > Read(j)))
       [] op = "LessThanOrEqual"    -> Result(Truth(Read(i) <= Read(j)))
       [] op = "GreaterThanOrEqual" -> Result(Truth(Read(i) >= Read(j)))
       [] op = "ShiftLeft"  -> Result(FromBits(n, LAMBDA b : b >= k /\ BitOf(i, b - k) = 1))
       [] op = "ShiftRight" -> Result(FromBits(n, LAMBDA b :
            IF b + k < n THEN BitOf(i, b + k) = 1 ELSE Signed(type) /\ BitOf(i, n - 1) = 1))
       [] op = "And"  -> Result(FromBits(n, LAMBDA b : BitOf(i, b) = 1 /\ BitOf(j, b) = 1))
       [] op = "Or"   -> Result(FromBits(n, LAMBDA b : BitOf(i, b) = 1 \/ BitOf(j, b) = 1))
       [] op = "Xor"  -> Result(FromBits(n, LAMBDA b : BitOf(i, b) # BitOf(j, b)))
       [] op = "Rotl" -> Result(FromBits(n, LAMBDA b : BitOf(i, (b - k) % n) = 1))
       [] op = "Rotr" -> Result(FromBits(n, LAMBDA b : BitOf(i, (b + k) % n) = 1))
       [] op = "Divide" ->
            IF j = 0 THEN Traps("division by zero")
            ELSE IF Truncated(Read(i), Read(j)) > Most(type) THEN Traps("integer overflow")
            ELSE Result(Pattern(n, Truncated(Read(i), Read(j))))
       [] op = "Remainder" ->
            IF j = 0 THEN Traps("division by zero")
            ELSE Result(Pattern(n, Read(i) - Read(j) * Truncated(Read(i), Read(j))))

\* Comparisons give an i32.
ResultType(op, type) ==
  IF op \in {"Equal", "NotEqual", "LessThan", "GreaterThan", "LessThanOrEqual", "GreaterThanOrEqual"}
     \/ N(type) = N("i32")
  THEN "i32" ELSE "i64"

\* m bits of a pattern, read as signed.
ExtendFrom(m, n, i) == Pattern(n, SignedValue(m, Pattern(m, i)))

WasmUnary(op, type, i) ==
  LET n    == N(type)
      ones == {b \in 0 .. n - 1 : BitOf(i, b) = 1}
  IN CASE op = "EqualToZero" -> Truth(i = 0)
       [] op = "Clz"      -> IF ones = {} THEN n ELSE n - 1 - Max(ones)
       [] op = "Ctz"      -> IF ones = {} THEN n ELSE Min(ones)
       [] op = "Popcnt"   -> Cardinality(ones)
       [] op = "Wrap"     -> Pattern(N("i32"), i)
       [] op = "Extend8"  -> ExtendFrom(N("i8"), n, i)
       [] op = "Extend16" -> ExtendFrom(N("i16"), n, i)
       [] op = "Extend32" -> ExtendFrom(N("i32"), n, i)
       [] op = "ExtendSigned"   -> ExtendFrom(N("i32"), N("i64"), i)
       [] op = "ExtendUnsigned" -> i

\* trunc and trunc_sat: the integer part, if the type has it.
WasmTrunc(type, a) ==
  LET whole == Truncated(Halves(a), 2)
  IN IF a.nan THEN Traps("integer conversion")
     ELSE IF whole < Least(type) \/ whole > Most(type) THEN Traps("integer overflow")
     ELSE Result(Pattern(N(type), whole))

WasmTruncSat(type, a) ==
  LET whole == Truncated(Halves(a), 2)
  IN Pattern(N(type), IF a.nan THEN 0 ELSE IF whole < Least(type) THEN Least(type)
                      ELSE IF whole > Most(type) THEN Most(type) ELSE whole)

\* convert: the float nearest to the integer, of two the one with an even mantissa.
WasmConvert(type, float, i) ==
  LET value    == IF Signed(type) THEN SignedValue(N(type), i) ELSE i
      exact    == 2 * Size(value)
      near     == {m \in exact - 64 .. exact + 64 : m >= 0 /\ Represents(Mantissa(float), m)}
      nearest  == {m \in near : \A k \in near : Size(m - exact) <= Size(k - exact)}
      Zeros(m) == Cardinality({e \in 1 .. 16 : m % (2 ^ e) = 0})
  IN Float(value < 0, CHOOSE m \in nearest : \A k \in nearest : Zeros(k) <= Zeros(m))

\* A NaN is not equal to anything, and neither less nor greater.
WasmCompare(op, a, b) ==
  LET related == CASE op = "Equal"           -> {0}
                   [] op = "NotEqual"        -> {-1, 1}
                   [] op = "LessThan"        -> {-1}
                   [] op = "GreaterThan"     -> {1}
                   [] op = "LessThanOrEqual" -> {-1, 0}
                   [] OTHER                  -> {0, 1}
      sign == IF Halves(a) = Halves(b) THEN 0 ELSE IF Halves(a) < Halves(b) THEN -1 ELSE 1
  IN IF a.nan \/ b.nan THEN op = "NotEqual" ELSE sign \in related

\* The lesser and the greater, -0 being less than 0.
Before(a, b) == Halves(a) < Halves(b) \/ (Halves(a) = Halves(b) /\ a.neg)
WasmMin(a, b) == IF a.nan \/ b.nan THEN NaN ELSE IF Before(a, b) THEN a ELSE b
WasmMax(a, b) == IF a.nan \/ b.nan THEN NaN ELSE IF Before(a, b) THEN b ELSE a

\* ToInt32 of a JS number, and the BigInt of its integer part.
JsToInteger(type, d) ==
  IF d.nan \/ d.mag = Infinite THEN 0 ELSE Pattern(N(type), Truncated(Halves(d), 2))

\* Little endian memory: size bytes from an address on.
ReadBytes(memory, at, size) ==
  MapThenSumSet(LAMBDA k : memory[at + k] * 2 ^ (ByteBits * k), 0 .. size - 1)
WriteBytes(memory, at, size, i) ==
  [a \in DOMAIN memory |-> IF a \in at .. at + size - 1
                           THEN (i \div (2 ^ (ByteBits * (a - at)))) % (2 ^ ByteBits) ELSE memory[a]]

\* LEB128 as the binary format defines it: ceil(n / 7) bytes at most, and what
\* the last one has beyond n bits is 0, or the sign.
LebUnsigned(n, bytes) ==
  LET k     == Len(bytes)
      value == MapThenSumSet(LAMBDA b : Payload(bytes[b]) * 2 ^ (GroupBits * (b - 1)), 1 .. k)
  IN [legal |-> k # 0 /\ k <= (n + GroupBits - 1) \div GroupBits /\ value < 2 ^ n
                /\ \A b \in 1 .. k : More(bytes[b]) <=> b # k,
      value |-> value]

LebSigned(n, bytes) ==
  LET k       == Len(bytes)
      pattern == MapThenSumSet(LAMBDA b : Payload(bytes[b]) * 2 ^ (GroupBits * (b - 1)), 1 .. k)
      value   == SignedValue(GroupBits * k, pattern)
  IN [legal |-> k # 0 /\ k <= (n + GroupBits - 1) \div GroupBits
                /\ value \in -(2 ^ (n - 1)) .. 2 ^ (n - 1) - 1
                /\ \A b \in 1 .. k : More(bytes[b]) <=> b # k,
      value |-> value]
=============================================================================
