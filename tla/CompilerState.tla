---------------------------- MODULE CompilerState ----------------------------
(***************************************************************************)
(* What the compiler of m3_compile.c keeps while it translates a function, *)
(* and the steps its handlers are made of: slots and their usage counts,   *)
(* the two registers, the stack of locations, copies and block results.    *)
(*                                                                         *)
(* The code it emits is not stored, it is run: s = [o, x] pairs the        *)
(* M3Compilation o with x, the contents of slots and registers along one   *)
(* path of execution.  While that path is elsewhere (it has branched ahead *)
(* of the code being compiled) emitted code has no effect on x.            *)
(*                                                                         *)
(* A value is a number: positive for a computed one, -(w+1) for the        *)
(* constant w, 0 for none of those.  An entry of the stack carries,        *)
(* besides its location and type, the value WebAssembly says is there.     *)
(***************************************************************************)
EXTENDS Integers, SequencesExt

CONSTANTS
  MaxFunctionSlots,      \* d_m3MaxFunctionSlots
  MaxConstantTableSize   \* d_m3MaxConstantTableSize

ASSUME LimitAssumption ==
  /\ MaxFunctionSlots \in 1 .. 59999
  /\ MaxConstantTableSize \in Nat

Type == {"i32", "i64", "f32", "f64"}

IsFpType(t) == t \in {"f32", "f64"}
IsIntType(t) == t \in {"i32", "i64"}

GetTypeNumSlots(t) == IF t \in {"i64", "f64"} THEN 2 ELSE 1

AlignSlotToType(slot, t) == slot + (slot % GetTypeNumSlots(t))

IoSlotCount == 2                      \* c_ioSlotCount

Register(t)  == IF IsFpType(t) THEN 1 ELSE 0
Alias(r)     == 60000 + 2 * r         \* d_m3Reg0SlotAlias, d_m3Fp0SlotAlias
IsAlias(slot) == slot >= 60000
NoSlot       == -1

Entry(slot, t, v) == [slot |-> slot, type |-> t, val |-> v]

-----------------------------------------------------------------------------
(* The machine.  A slot holds one half of a value, a register all of it.   *)

Here == [k |-> "here", block |-> 0, vals |-> <<>>, frame |-> <<>>]

Live(s) == s.x.at.k = "here"

\* The value a reader of that type finds at a location, or 0.
ValueIn(x, slot, t) ==
  IF IsAlias(slot) THEN x.regs[slot]
  ELSE LET low(k)  == IF k \in DOMAIN x.mem THEN x.mem[k] ELSE <<0, 0>>
           v       == low(slot)[1]
           high    == {<<v, 1>>} \cup (IF v < 0 THEN {<<-1, 0>>} ELSE {})
       IN IF low(slot)[2] = 0 /\ (GetTypeNumSlots(t) = 2 => low(slot + 1) \in high)
          THEN v ELSE 0

Holds(x, e) == ValueIn(x, e.slot, e.type) = e.val

StoreSlot(s, slot, t, v) ==
  IF ~Live(s) \/ slot = NoSlot THEN s
  ELSE LET last == slot + GetTypeNumSlots(t) - 1
       IN [s EXCEPT !.x.mem  = [k \in slot .. last |-> <<v, k - slot>>] @@ @,
                    !.x.high = IF last >= @ THEN last + 1 ELSE @]

SetRegister(s, t, v) ==
  IF Live(s) THEN [s EXCEPT !.x.regs[Alias(Register(t))] = v] ELSE s

Top(s)        == Last(s.o.stack)
Height(o)     == Len(o.stack)
Block(s)      == Last(s.o.blocks)
Polymorphic(s) == Block(s).poly

ValueOf(s, i) == ValueIn(s.x, s.o.stack[i].slot, s.o.stack[i].type)

\* The operands are where the compiler says: an operation that reads others
\* computes nothing a later reader could recognise.
Result(s, n, v) ==
  IF Live(s) /\ \A i \in Height(s.o) - n + 1 .. Height(s.o) : Holds(s.x, s.o.stack[i])
  THEN v ELSE 0

\* Values not in use: those in use are numbered by their first place among
\* the stack and the values the path carries.
Fresh(s, j) == Height(s.o) + Len(s.x.at.vals) + j

Fail(s, error) == IF s.o.result = "none" THEN [s EXCEPT !.o.result = error] ELSE s

-----------------------------------------------------------------------------
(* Slots.                                                                  *)

\* Mutant: the last slot of the frame is not counted.
TouchSlotShort(s, slot) == [s EXCEPT !.o.max = IF slot >= @ THEN slot ELSE @]

TouchSlot(s, slot) == [s EXCEPT !.o.max = IF slot >= @ THEN slot + 1 ELSE @]

MarkSlots(s, slot, n) ==
  IF slot + n > MaxFunctionSlots THEN Fail(s, "stack overflow")
  ELSE LET last == slot + n - 1
       IN TouchSlot([s EXCEPT !.o.slots = [k \in slot .. last |-> 1] @@ @,
                              !.o.allocated = IF last >= @ THEN last + 1 ELSE @], last)

\* The first place for a value of the type, its last slot below end; NoSlot if none.
FindSlots(o, t, first, end) ==
  LET n     == GetTypeNumSlots(t)
      begin == AlignSlotToType(first, t)
      last(k) == k + n - 1
      free  == {k \in begin .. end - n :
                  /\ (k - begin) % n = 0 /\ last(k) < MaxFunctionSlots
                  /\ o.slots[k] = 0 /\ o.slots[last(k)] = 0}
  IN IF free = {} THEN NoSlot ELSE Min(free)

FreeSlot(o, t) == FindSlots(o, t, o.firstDynamic, MaxFunctionSlots)

Allocate(s, slot, t) ==
  IF slot = NoSlot THEN Fail(s, "stack overflow") ELSE MarkSlots(s, slot, GetTypeNumSlots(t))

DeallocateSlot(s, slot, t) ==
  [s EXCEPT !.o.slots = [k \in slot .. slot + GetTypeNumSlots(t) - 1 |-> (@[k] - 1) % 256] @@ @]

\* Mutant: further references are not counted.
IncrementSlotUsageCountNot(s, slot, n) == s

\* Another n references; only the first slot of the value is counted.
IncrementSlotUsageCount(s, slot, n) ==
  IF n = 0 THEN s
  ELSE IF s.o.slots[slot] + n > 255 THEN Fail(s, "slot usage count overflow")
  ELSE [s EXCEPT !.o.slots[slot] = @ + n]

GetMaxUsedSlotPlusOne(o) ==
  LET used == {k \in o.firstDynamic .. o.allocated - 1 : o.slots[k] # 0}
  IN IF used # {} THEN Max(used) + 1
     ELSE IF o.allocated > o.firstDynamic THEN o.firstDynamic ELSE o.allocated

-----------------------------------------------------------------------------
(* The stack.                                                              *)

IsStackIndexInRegister(s, i) == i \in 1 .. Height(s.o) /\ IsAlias(s.o.stack[i].slot)
IsStackTopInRegister(s) == IsStackIndexInRegister(s, Height(s.o))

Push(s, t, slot, v) ==
  LET p == [s EXCEPT !.o.stack = Append(@, Entry(slot, t, IF Live(s) THEN v ELSE 0))]
  IN IF IsAlias(slot) THEN [p EXCEPT !.o.reg[slot] = Height(p.o)] ELSE p

\* v is the value WebAssembly says the operation has, r what it really computes.
PushRegister(s, t, v, r) == SetRegister(Push(s, t, Alias(Register(t)), v), t, r)

PushAllocatedSlot(s, t, v, r) ==
  LET slot == FreeSlot(s.o, t)
  IN StoreSlot(Push(Allocate(s, slot, t), t, slot, v), slot, t, r)

\* Mutant: the register stays occupied.
PopOccupied(s) ==
  IF Height(s.o) > Block(s).base
  THEN LET e == Top(s)
           p == [s EXCEPT !.o.stack = Front(@)]
       IN IF IsAlias(e.slot) \/ e.slot < s.o.firstDynamic THEN p ELSE DeallocateSlot(p, e.slot, e.type)
  ELSE IF Polymorphic(s) THEN s ELSE Fail(s, "stack underrun")

Pop(s) ==
  IF Height(s.o) > Block(s).base
  THEN LET e == Top(s)
           p == [s EXCEPT !.o.stack = Front(@)]
       IN IF IsAlias(e.slot) THEN [p EXCEPT !.o.reg[e.slot] = 0]
          ELSE IF e.slot >= s.o.allocated THEN Fail(p, "stack underrun")
          ELSE IF e.slot >= s.o.firstDynamic THEN DeallocateSlot(p, e.slot, e.type)
          ELSE p
  ELSE IF Polymorphic(s) THEN s ELSE Fail(s, "stack underrun")

PopN(s, n) == FoldLeft(LAMBDA p, i : Pop(p), s, [i \in 1 .. n |-> i])

UnwindBlockStack(s) == PopN(s, Height(s.o) - Block(s).base)

SetStackPolymorphic(s) ==
  UnwindBlockStack([s EXCEPT !.o.blocks[Len(s.o.blocks)].poly = TRUE])

\* Mutant: the value moves, its entry does not.
PreserveUnrecorded(s, t) ==
  LET a == Alias(Register(t))
      e == s.o.stack[s.o.reg[a]]
      slot == FreeSlot(s.o, e.type)
  IN IF s.o.reg[a] = 0 THEN s
     ELSE StoreSlot(Allocate([s EXCEPT !.o.reg[a] = 0], slot, e.type),
                    slot, e.type, s.x.regs[a])

\* PreserveRegisterIfOccupied: the entry in the register moves to a slot.
Preserve(s, t) ==
  LET a == Alias(Register(t))
      e == s.o.stack[s.o.reg[a]]
      slot == FreeSlot(s.o, e.type)
  IN IF s.o.reg[a] = 0 THEN s
     ELSE StoreSlot(Allocate([s EXCEPT !.o.reg[a] = 0,
                                       !.o.stack[s.o.reg[a]].slot = slot], slot, e.type),
                    slot, e.type, s.x.regs[a])

PreserveRegisters(s) == Preserve(Preserve(s, "f64"), "i64")

PreserveNonTopRegisters(s) ==
  LET keep(p, t) == p.o.reg[Alias(Register(t))] = Height(p.o)
      ints == IF keep(s, "i64") THEN s ELSE Preserve(s, "i64")
  IN IF keep(ints, "f64") THEN ints ELSE Preserve(ints, "f64")

CopyStackIndexToSlot(s, dest, i) == StoreSlot(s, dest, s.o.stack[i].type, ValueOf(s, i))

CopyStackTopToSlot(s, dest) == CopyStackIndexToSlot(s, dest, Height(s.o))

CopyStackTopToRegister(s) ==
  IF IsStackTopInRegister(s) THEN s
  ELSE LET p == Preserve(s, Top(s).type)
       IN SetRegister(p, Top(s).type, ValueOf(p, Height(p.o)))

-----------------------------------------------------------------------------
(* References to locals.                                                   *)

\* The block whose entries a local.set may move: the innermost that is no
\* plain block, for the code of a loop or an if may run again or not at all.
ReferenceScope(s) ==
  Max({i \in DOMAIN s.o.blocks : i = 1 \/ s.o.blocks[i].opcode # "block"})

\* FindReferencedLocalWithinCurrentBlock: the entries that are the local move to
\* one slot, which is returned, or the local's own when there is none.
FindReferences(s, local) ==
  LET first == s.o.blocks[ReferenceScope(s)].base + 1
      refs  == {i \in first .. Height(s.o) : s.o.stack[i].slot = local}
      t     == s.o.stack[Min(refs)].type
      slot  == FreeSlot(s.o, t)
      moved == [s EXCEPT !.o.stack = FoldSet(LAMBDA i, st : [st EXCEPT ![i].slot = slot], @, refs)]
  IN IF refs = {} THEN [s |-> s, slot |-> local]
     ELSE [s    |-> IncrementSlotUsageCount(Allocate(moved, slot, t), slot, Cardinality(refs) - 1),
           slot |-> slot]

\* Mutant: blocks are entered with references to locals on the stack.
PreserveNoLocals(s) == s

PreserveArgsAndLocals(s) ==
  IF Height(s.o) <= s.o.firstDynamicIndex THEN s
  ELSE FoldLeft(LAMBDA p, i :
                  LET e == p.o.stack[i]
                      f == FindReferences(p, e.slot)
                  IN IF f.slot = e.slot THEN f.s
                     ELSE StoreSlot(f.s, f.slot, e.type, ValueIn(p.x, e.slot, e.type)),
                s, [i \in 1 .. s.o.firstDynamicIndex |-> i])

-----------------------------------------------------------------------------
(* Results of blocks and of the function.                                  *)

\* CopyStackSlotsR: n entries from index i on go to the slots of the records
\* from index target on.  A value in the way of a copy moves to a temporary slot
\* first, one value a copy.  The stack itself is left as it was.
CopyStackSlots(s, target, i, n, temp) ==
  LET end == i + n
      Overlap(p, dest, t, j) ==
        LET slot1 == p.o.stack[j].slot
            slot2 == slot1 + GetTypeNumSlots(p.o.stack[j].type) - 1
        IN dest \in {slot1, slot2} \/ dest + GetTypeNumSlots(t) - 1 = slot1
      Aside(p, tmp, j) ==
        IF tmp >= MaxFunctionSlots THEN Fail(p, "stack overflow")
        ELSE TouchSlot([CopyStackIndexToSlot(p, tmp, j) EXCEPT !.o.stack[j].slot = tmp], tmp + 1)
      Copy(acc, k) ==
        LET p    == acc.p
            e    == p.o.stack[i + k]
            dest == p.o.stack[target + k].slot
            hit  == {j \in i + k + 1 .. end - 1 : Overlap(p, dest, e.type, j)}
            q    == IF hit = {} THEN p ELSE Aside(p, acc.temp, Min(hit))
        IN IF dest = e.slot THEN acc
           ELSE [p    |-> [CopyStackIndexToSlot(q, dest, i + k) EXCEPT !.o.stack[i + k].slot = dest],
                 temp |-> IF hit = {} THEN acc.temp ELSE acc.temp + 2]
      done == FoldLeft(Copy, [p |-> s, temp |-> temp], [k \in 1 .. n |-> k - 1]).p
  IN [done EXCEPT !.o.stack = s.o.stack]

\* Mutant: a branch needs the results and nothing else on the stack.
ResolveBlockResultsExact(s, b, isBranch) ==
  IF Height(s.o) - Block(s).base # Len(b.type.out) THEN Fail(s, "incorrect value count")
  ELSE CopyStackSlots(s, b.exit + Len(b.type.in) + 1, Height(s.o) - Len(b.type.out) + 1,
                      Len(b.type.out), AlignSlotToType(s.o.max, "i64"))

ResolveBlockResults(s, b, isBranch) ==
  LET isLoop  == b.opcode = "loop" /\ isBranch
      params  == Len(b.type.in)
      n       == IF isLoop THEN params ELSE Len(b.type.out)
      records == b.exit + (IF isLoop THEN 0 ELSE params)
      height  == Height(s.o) - Block(s).base
      fp      == ~isLoop /\ IsFpType(Top(s).type)
      p       == IF fp THEN CopyStackTopToRegister(s) ELSE s
      end     == Height(s.o) - (IF fp THEN 1 ELSE 0)
  IN IF (IF isBranch THEN height < n ELSE height # n) THEN Fail(s, "incorrect value count")
     ELSE IF n = 0 THEN s
     ELSE CopyStackSlots(p, records + 1, end - n + 1, n, AlignSlotToType(p.o.max, "i64"))

ReturnSlot(n, j) == (n - j) * IoSlotCount           \* of the j-th result from the top

\* Mutant: a return in the middle leaves the results where they are.
ReturnValuesAtEnd(s, isBranch) ==
  LET n == Len(s.o.blocks[1].type.out)
  IN IF isBranch THEN s ELSE PopN(CopyStackIndexToSlot(s, 0, Height(s.o)), n)

ReturnValues(s, isBranch) ==
  LET types  == s.o.blocks[1].type.out
      n      == Len(types)
      height == Height(s.o) - Block(s).base
      copied == FoldLeft(LAMBDA p, j : CopyStackIndexToSlot(p, ReturnSlot(n, j), Height(p.o) - j + 1),
                         s, [j \in 1 .. n |-> j])
  IN IF ~Polymorphic(s) /\ (IF isBranch THEN height < n ELSE height # n)
     THEN Fail(s, "incorrect value count")
     ELSE LET p == IF Polymorphic(s) THEN s ELSE copied
          IN IF isBranch THEN p ELSE PopN(p, n)

\* vals: the values of the results; they are where a branch or the end left them.
PushBlockResults(s, types, vals) ==
  FoldLeft(LAMBDA p, j :
             LET t    == types[j]
                 slot == IF j = Len(types) /\ IsFpType(t) THEN Alias(1) ELSE FreeSlot(p.o, t)
                 q    == IF IsAlias(slot) THEN p ELSE Allocate(p, slot, t)
             IN IF p.o.result # "none" THEN p ELSE Push(q, t, slot, vals[j]),
           s, [j \in 1 .. Len(types) |-> j])
=============================================================================
