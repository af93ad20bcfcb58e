------------------------------ MODULE Compiler ------------------------------
(***************************************************************************)
(* CompileFunction: the handlers of m3_compile.c, one action each, over    *)
(* every well-typed program that can be written with the instructions of   *)
(* Code, and every path through it up to a return, a trap or the next      *)
(* iteration of a loop.  The program is written as it is compiled, and the *)
(* path is chosen as its branches are.                                     *)
(*                                                                         *)
(* An instruction is [op, in, out, arg]: the types it takes and leaves (a  *)
(* block's or a callee's), and its immediates.  An action compiles one.    *)
(***************************************************************************)
EXTENDS CompilerState

CONSTANTS
  Functions,    \* [in, out, locals, code]: the functions to compile
  Reserved,     \* numbers of constant slots ReserveConstants may find, even
  Code,         \* the instructions their bodies are made of, by f.code
  MaxHeight,    \* bound: values on the wasm stack, by f.code
  MaxDepth,     \* bound: nested blocks, by f.code
  MaxFrame      \* bound: slots of the frame

ASSUME CodeAssumption ==
  /\ Reserved \subseteq {n \in 0 .. MaxFunctionSlots : n % 2 = 0}
  /\ MaxFrame \in Nat
  /\ \A f \in Functions : /\ \A t \in Range(f.in \o f.out \o f.locals) : t \in Type
                          /\ MaxHeight[f.code] \in Nat /\ MaxDepth[f.code] \in Nat
                          /\ \A i \in Code[f.code] : \A t \in Range(i.in \o i.out) : t \in Type

VARIABLES
  o,   \* M3Compilation
  x    \* slots, registers and position of the path followed

vars == <<o, x>>

S == [o |-> o, x |-> x]

Of(ops) == {i \in Code[o.code] : i.op \in ops}

-----------------------------------------------------------------------------
(* Paths.                                                                  *)

At(k, block, vals, frame) == [k |-> k, block |-> block, vals |-> vals, frame |-> frame]

TopVals(s, n) == [j \in 1 .. n |-> s.o.stack[Height(s.o) - n + j].val]
NoVals(types) == [j \in DOMAIN types |-> 0]

Go(s, at) == IF Live(s) THEN [s EXCEPT !.x.at = at] ELSE s

\* The path goes to the end, or the else, of the block with that index.
Ahead(s, k, block, vals) == Go(s, At(k, block, vals, <<>>))

\* The path leaves the function.
Leave(s, vals) ==
  LET types == s.o.blocks[1].type.out
      n     == Len(types)
  IN Go(s, At("returned", 0, <<>>,
              [j \in 1 .. n |-> Entry(ReturnSlot(n, n + 1 - j), types[j], vals[j])]))

\* The path goes back to a loop, where values are to be as its code expects them.
Continue(s, b) ==
  LET n    == Len(b.type.in)
      vals == TopVals(s, n)
      value(j) == IF j <= b.exit THEN s.o.stack[j].val ELSE vals[j - b.exit]
      head == [j \in DOMAIN b.head |-> [b.head[j] EXCEPT !.val = value(j)]]
  IN Go(s, At("continued", 0, <<>>, SelectSeq(head, LAMBDA e : e.val # 0)))

\* A path that does not take the branch runs none of the code emitted for it.
NotTaken(before, after) == [after EXCEPT !.x = before.x]

-----------------------------------------------------------------------------
(* Steps.                                                                  *)

\* Values are renamed by their first place among those that can still be read,
\* and what no one can read any more is forgotten.
Settled(s) ==
  LET frame == s.x.at.frame
      live  == [j \in DOMAIN s.o.stack |-> s.o.stack[j].val] \o s.x.at.vals
                 \o [j \in DOMAIN frame |-> frame[j].val]
      Name(v)   == IF v <= 0 THEN v ELSE IF v \in Range(live) THEN SelectInSeq(live, LAMBDA w : w = v) ELSE 0
      Named(e)  == [e EXCEPT !.val = Name(@)]
      kept  == {k \in DOMAIN s.x.mem : k \in DOMAIN s.o.consts \/ s.x.mem[k][1] \in Range(live) \ {0}}
  IN [o |-> [s.o EXCEPT !.stack = [j \in DOMAIN @ |-> Named(@[j])]],
      x |-> [at   |-> [s.x.at EXCEPT !.vals  = [j \in DOMAIN @ |-> Name(@[j])],
                                     !.frame = [j \in DOMAIN @ |-> Named(@[j])]],
             mem  |-> [k \in kept |-> <<Name(s.x.mem[k][1]), s.x.mem[k][2]>>],
             regs |-> [r \in DOMAIN s.x.regs |->
                         IF s.x.regs[r] \in Range(live) THEN Name(s.x.regs[r]) ELSE 0],
             high |-> IF s.x.high > s.o.max THEN s.x.high ELSE 0]]

\* The entries that can be popped: those of open blocks, not the records below each.
Entries(c) ==
  {j \in DOMAIN c.stack :
     /\ j > c.firstDynamicIndex
     /\ \A b \in 2 .. Len(c.blocks) : j \notin c.blocks[b].exit + 1 .. c.blocks[b].base}

Commit(s) ==
  LET t == Settled(s)
  IN /\ Cardinality(Entries(s.o)) <= MaxHeight[s.o.code]
     /\ Len(s.o.blocks) <= MaxDepth[s.o.code] + 1
     /\ s.o.max <= MaxFrame
     /\ o' = t.o
     /\ x' = t.x

Compiling == o.result = "none" /\ o.blocks # <<>> /\ x.at.k \in {"here", "end", "else"}

\* The top of the wasm stack has these types.
Fits(types) ==
  /\ Compiling
  /\ Height(o) - Block(S).base >= Len(types)
  /\ \A j \in DOMAIN types : o.stack[Height(o) - Len(types) + j].type = types[j]

-----------------------------------------------------------------------------
(* The frame: return slots, arguments, locals, then the constants.         *)

Empty(f) ==
  [o |-> [stack |-> <<>>, slots |-> [k \in 0 .. MaxFunctionSlots - 1 |-> 0],
          reg |-> [a \in {Alias(0), Alias(1)} |-> 0], allocated |-> 0, max |-> 0,
          consts |-> <<>>, firstConst |-> 0, firstDynamic |-> IoSlotCount * Len(f.out),
          firstDynamicIndex |-> 0, result |-> "none", code |-> f.code,
          blocks |-> <<[opcode |-> "function", type |-> [in |-> f.in, out |-> f.out], exit |-> 0, base |-> 0,
                        poly |-> FALSE, head |-> <<>>]>>],
   x |-> [at |-> Here, mem |-> <<>>, regs |-> [a \in {Alias(0), Alias(1)} |-> 0], high |-> 0]]

Frame(f, reserved) ==
  LET returns == IF f.out = <<>> THEN Empty(f) ELSE MarkSlots(Empty(f), 0, IoSlotCount * Len(f.out))
      args    == FoldLeft(LAMBDA s, t : [PushAllocatedSlot(s, t, Fresh(s, 1), Fresh(s, 1))
                                           EXCEPT !.o.firstDynamic = @ + IoSlotCount], returns, f.in)
      locals  == FoldLeft(LAMBDA s, t : PushAllocatedSlot(s, t, Fresh(s, 1), Fresh(s, 1)),
                          [args EXCEPT !.o.allocated = args.o.firstDynamic], f.locals)
      const   == GetMaxUsedSlotPlusOne(locals.o)
      dynamic == const + reserved
  IN IF dynamic >= MaxFunctionSlots THEN Fail(locals, "stack overflow")
     ELSE [locals EXCEPT !.o.firstConst = const, !.o.firstDynamic = dynamic, !.o.max = dynamic,
                         !.o.allocated = dynamic, !.o.firstDynamicIndex = Height(locals.o),
                         !.o.blocks[1].base = Height(locals.o)]

Init == \E f \in Functions, reserved \in Reserved :
          LET s == Settled(Frame(f, reserved)) IN o = s.o /\ x = s.x

-----------------------------------------------------------------------------
(* Constants, locals, globals.                                             *)

\* A constant slot of the same bits is shared; without room, op_Const loads it.
PushConst(s, t, w) ==
  LET n     == GetTypeNumSlots(t)
      words == s.o.consts
      same  == {k \in DOMAIN words : /\ words[k] = w
                                     /\ n = 2 => k % 2 = 0 /\ k + 1 \in DOMAIN words /\ words[k + 1] = 0}
      slot  == FindSlots(s.o, t, s.o.firstConst,
                         Min({s.o.firstDynamic, s.o.firstConst + MaxConstantTableSize}))
      halves == [k \in slot .. slot + n - 1 |-> IF k = slot THEN w ELSE 0]
      value == -(w + 1)
  IN IF same # {} THEN Push(s, t, Min(same), value)
     ELSE IF slot = NoSlot THEN PushAllocatedSlot(s, t, value, value)
     ELSE LET p == Push(Allocate(s, slot, t), t, slot, value)
          IN [p EXCEPT !.o.consts = halves @@ @,
                       !.x.mem = [k \in DOMAIN halves |-> <<-(halves[k] + 1), 0>>] @@ @]

Const == \E i \in Of({"const"}) : Compiling /\ Commit(PushConst(S, i.out[1], i.arg[1]))

GetLocal ==
  \E i \in Of({"local.get"}) :
    LET e == o.stack[i.arg[1]]
    IN /\ Compiling
       /\ i.arg[1] <= o.firstDynamicIndex
       /\ Commit(Push(S, e.type, e.slot, e.val))

\* The value moves into the local; what the stack still calls the local is copied
\* out of its way by the same operation.
SetLocalOf(s, l, tee) ==
  LET slot == s.o.stack[l].slot
      t    == s.o.stack[l].type
      f    == FindReferences(s, slot)
      kept == IF f.slot = slot THEN f.s ELSE StoreSlot(f.s, f.slot, t, ValueIn(s.x, slot, t))
      set  == CopyStackTopToSlot(kept, slot)
      named == IF Live(s) THEN [set EXCEPT !.o.stack[l].val = Top(s).val] ELSE set
  IN IF tee THEN named ELSE Pop(named)

SetLocal ==
  \E i \in Of({"local.set", "local.tee"}) :
    /\ i.arg[1] <= o.firstDynamicIndex
    /\ Fits(<<o.stack[i.arg[1]].type>>)
    /\ Commit(SetLocalOf(S, i.arg[1], i.op = "local.tee"))

GetGlobal ==
  \E i \in Of({"global.get"}) :
    Compiling /\ Commit(PushAllocatedSlot(S, i.out[1], Fresh(S, 1), Fresh(S, 1)))

\* A global takes the value and nothing else of the frame changes; so does a drop.
SetGlobal == \E i \in Of({"global.set"}) : Fits(i.in) /\ Commit(Pop(S))

Drop == \E i \in Of({"drop"}) : Fits(i.in) /\ Commit(Pop(S))

-----------------------------------------------------------------------------
(* Operators.                                                              *)

OutType(i) == IF i.out = <<>> THEN "none" ELSE i.out[1]

\* Mutant: the result register is not vacated when no operand is in it.
OperatorUnpreserved(s, i) ==
  LET n == Len(i.in)
      v == Fresh(s, 1)
      r == Result(s, n, v)
      q == PopN(s, n)
  IN IF i.out = <<>> THEN q ELSE PushRegister(q, i.out[1], v, r)

Operator(s, i) ==
  LET n     == Len(i.in)
      out   == OutType(i)
      moved == IF IsFpType(Top(s).type) /\ IsIntType(out) THEN Preserve(s, out) ELSE s
      top   == IsStackTopInRegister(moved)
      below == n = 2 /\ IsStackIndexInRegister(moved, Height(moved.o) - 1)
      p     == IF top \/ below THEN moved ELSE Preserve(moved, out)
      v     == Fresh(s, 1)
      r     == Result(p, n, v)
      q     == PopN(p, n)
  IN IF top /\ below /\ ~(i.op = "store" /\ IsFpType(Top(s).type)) THEN Fail(s, "no operation")
     ELSE IF i.out = <<>> THEN q ELSE PushRegister(q, out, v, r)

LoadStore(s, i) == Operator(IF IsFpType(OutType(i)) THEN Preserve(s, "f64") ELSE s, i)

Convert(s, i) ==
  LET t    == i.out[1]
      v    == Fresh(s, 1)
      r    == Result(s, 1, v)
  IN IF s.o.reg[Alias(Register(t))] # 0 THEN PushAllocatedSlot(Pop(s), t, v, r)
     ELSE PushRegister(Pop(s), t, v, r)

Select(s, i) ==
  LET t == i.out[1]
      InRegister(k) == IsStackIndexInRegister(s, Height(s.o) - k)
      taken == InRegister(1) \/ InRegister(2) \/ (IsIntType(t) /\ InRegister(0))
      p == IF taken THEN s ELSE Preserve(s, t)
      v == Fresh(s, 1)
  IN PushRegister(PopN(p, 3), t, v, Result(p, 3, v))

Compute ==
  \E i \in Of({"operator", "load", "store", "convert", "select"}) :
    /\ Fits(i.in)
    /\ Commit(CASE i.op = "operator" -> Operator(S, i)
                [] i.op \in {"load", "store"} -> LoadStore(S, i)
                [] i.op = "convert" -> Convert(S, i)
                [] i.op = "select" -> Select(S, i))

MemorySize ==
  \E i \in Of({"memory.size"}) :
    Compiling /\ Commit(PushRegister(Preserve(S, "i32"), "i32", Fresh(S, 1), Fresh(S, 1)))

MemoryGrow ==
  \E i \in Of({"memory.grow"}) :
    LET p == CopyStackTopToRegister(S)
    IN Fits(i.in) /\ Commit(PushRegister(Pop(p), "i32", Fresh(S, 1), Result(p, 1, Fresh(S, 1))))

MemoryCopyFill ==
  \E i \in Of({"memory.copy"}) : Fits(i.in) /\ Commit(PopN(CopyStackTopToRegister(S), 3))

-----------------------------------------------------------------------------
(* Calls.  Results, then arguments, two slots each, above everything used. *)

CallTop(s) ==
  AlignSlotToType(Max({1, GetMaxUsedSlotPlusOne(s.o)}), "i64")

\* The callee owns every slot from top on; its results come first.
Called(s, i, top, found) ==
  LET results == Len(i.out)
      cleared == [s EXCEPT !.x.mem = [k \in {m \in DOMAIN @ : m < top} |-> @[k]]]
  IN FoldLeft(LAMBDA p, j :
                StoreSlot(MarkSlots(Push(p, i.out[j], top + IoSlotCount * (j - 1), Fresh(s, j)),
                                    top + IoSlotCount * (j - 1), GetTypeNumSlots(i.out[j])),
                          top + IoSlotCount * (j - 1), i.out[j], IF found THEN Fresh(s, j) ELSE 0),
              IF Live(s) THEN cleared ELSE s, [j \in 1 .. results |-> j])

CallArgsAndReturn(s, i, indirect) ==
  LET top    == CallTop(s)
      table  == Top(s)
      begun  == [s EXCEPT !.o.allocated = GetMaxUsedSlotPlusOne(s.o)]
      start  == IF indirect THEN Pop(begun) ELSE begun
      n      == Len(i.in)
      slot(j) == top + IoSlotCount * (Len(i.out) + j - 1)
      vals   == TopVals(start, n)
      passed == FoldLeft(LAMBDA p, k : Pop(CopyStackTopToSlot(p, slot(n + 1 - k))), start, [k \in 1 .. n |-> k])
      found  == /\ \A j \in 1 .. n : Holds(passed.x, Entry(slot(j), i.in[j], vals[j]))
                /\ indirect => Holds(passed.x, table)
  IN Called([passed EXCEPT !.x.high = s.x.high], i, top, found)

Call ==
  \E i \in Of({"call"}) : Fits(i.in) /\ Commit(CallArgsAndReturn(S, i, FALSE))

CallIndirect ==
  \E i \in Of({"call_indirect"}) :
    /\ Fits(Append(i.in, "i32"))
    /\ Commit(CallArgsAndReturn(IF IsStackTopInRegister(S) THEN Preserve(S, "i32") ELSE S, i, TRUE))

-----------------------------------------------------------------------------
(* Blocks.                                                                 *)

\* CompileBlock up to its statements.  The parameters are popped and the results'
\* slots found, but the entries stay below the block as records of their places.
OpenBlock(s, t, opcode) ==
  LET n      == Len(t.in)
      joins  == opcode = "else" /\ s.x.at.k = "else" /\ s.x.at.block = Len(s.o.blocks) + 1
      vals   == IF joins THEN s.x.at.vals ELSE IF Live(s) THEN TopVals(s, n) ELSE NoVals(t.in)
      popped == IF opcode # "else" THEN PopN(s, n)
                ELSE [s EXCEPT !.o.stack = SubSeq(@, 1,
                        IF Polymorphic(s) /\ Block(s).base + n > Height(s.o)
                        THEN Block(s).base ELSE Height(s.o) - n)]
      exit   == Height(popped.o)
      \* PushBlockResults' errors are ignored here
      placed == PushBlockResults([popped EXCEPT !.o.stack = s.o.stack], t.out, NoVals(t.out))
      freed  == PopN(placed, Len(t.out))
      record == FoldSet(LAMBDA j, st : [st EXCEPT ![j].val = 0], placed.o.stack,
                        exit + 1 .. Height(placed.o))
      scope  == [opcode |-> opcode, type |-> t, exit |-> exit, base |-> Len(record),
                 poly |-> Polymorphic(s), head |-> IF opcode = "loop" THEN SubSeq(record, 1, exit + n) ELSE <<>>]
      opened == [freed EXCEPT !.o.stack = record, !.o.blocks = Append(@, scope), !.o.result = popped.o.result,
                              !.x.at = IF joins THEN Here ELSE @,
                              !.x.regs = IF opcode = "loop" /\ Live(s) THEN [a \in DOMAIN @ |-> 0] ELSE @]
      Param(p, j) ==
        LET slot == record[exit + j].slot
            q    == Push(p, t.in[j], slot, vals[j])
        IN IF slot >= p.o.firstDynamic THEN MarkSlots(q, slot, GetTypeNumSlots(t.in[j])) ELSE q
  IN FoldLeft(Param, opened, [j \in 1 .. n |-> j])

\* CompileBlock from the end of its statements.  numResults has been counted down
\* past 0 by then, so it is not 0 and an if leaves the results to its else.
CloseBlock(s) ==
  LET b     == Block(s)
      i     == Len(s.o.blocks)
      n     == Len(b.type.out)
      joins == Live(s) \/ (s.x.at.k = "end" /\ s.x.at.block = i)
      vals  == IF Live(s) THEN TopVals(s, n) ELSE IF joins THEN s.x.at.vals ELSE NoVals(b.type.out)
      ended == UnwindBlockStack(IF Polymorphic(s) THEN s ELSE ResolveBlockResults(s, b, FALSE))
      outer == [ended EXCEPT !.o.blocks = Front(@), !.x.at = IF joins THEN Here ELSE @]
  IN IF b.opcode = "if" THEN Ahead(outer, "end", i, vals)
     ELSE PushBlockResults([outer EXCEPT !.o.stack = SubSeq(@, 1, b.exit)], b.type.out, vals)

\* CompileElseBlock: the stack is again what it was when the if was opened.
OpenElse(s) ==
  LET b == Block(s)
      c == CloseBlock(s)
  IN OpenBlock([c EXCEPT !.o.stack = SubSeq(@, 1, b.exit + Len(b.type.in))], b.type, "else")

\* Without an else, an if with results gets one that passes its parameters on.
CloseIf(s) ==
  LET b == Block(s)
      c == CloseBlock(s)
  IN IF b.type.out # <<>> THEN CloseBlock(OpenElse(s))
     ELSE [c EXCEPT !.x.at = IF @.k \in {"else", "end"} /\ @.block = Len(s.o.blocks) THEN Here ELSE @]

\* Parameters of a loop that are constants move to slots of their own.
InstantiateConstants(s, n) ==
  FoldLeft(LAMBDA p, i :
             LET e    == p.o.stack[i]
                 slot == FreeSlot(p.o, e.type)
             IN IF e.slot \in DOMAIN p.o.consts
                THEN [CopyStackIndexToSlot(Allocate(p, slot, e.type), slot, i) EXCEPT !.o.stack[i].slot = slot]
                ELSE p,
           s, [k \in 1 .. n |-> Height(s.o) - n + k])

LoopOrBlock ==
  \E i \in Of({"block", "loop"}) :
    LET kept == PreserveArgsAndLocals(PreserveRegisters(S))
    IN /\ Fits(i.in)
       /\ Commit(OpenBlock(IF i.op = "loop" THEN InstantiateConstants(kept, Len(i.in)) ELSE kept, i, i.op))

If ==
  \E i \in Of({"if"}) :
    LET p == Pop(PreserveArgsAndLocals(PreserveNonTopRegisters(S)))
    IN /\ Fits(Append(i.in, "i32"))
       /\ \/ Commit(OpenBlock(p, i, "if"))
          \/ /\ Live(S)
             /\ Commit(OpenBlock(Ahead(p, "else", Len(o.blocks) + 1, TopVals(p, Len(i.in))), i, "if"))

\* What is left on the stack is the results; code that is not reached may have fewer.
Complete(types) ==
  LET n == Height(o) - Block(S).base
  IN /\ Polymorphic(S) \/ n = Len(types)
     /\ n <= Len(types)
     /\ Fits(SubSeq(types, Len(types) - n + 1, Len(types)))

Else ==
  /\ Of({"else"}) # {}
  /\ Compiling /\ Block(S).opcode = "if"
  /\ Complete(Block(S).type.out)
  /\ Commit(OpenElse(S))

End ==
  /\ Compiling
  /\ Complete(Block(S).type.out)
  /\ Block(S).opcode = "if" => Block(S).type.in = Block(S).type.out
  /\ CASE Block(S).opcode = "function" ->
            Commit([Leave(ReturnValues(S, FALSE), TopVals(S, Len(Block(S).type.out)))
                      EXCEPT !.o.blocks = <<>>])
       [] Block(S).opcode = "if" -> Commit(CloseIf(S))
       [] OTHER -> Commit(CloseBlock(S))

-----------------------------------------------------------------------------
(* Branches.                                                               *)

TargetIndex(s, depth) == Len(s.o.blocks) - depth

\* A branch to the block with that index, from where its values are on the stack.
BranchTo(s, index) ==
  LET b == s.o.blocks[index]
  IN IF b.opcode = "loop" THEN Continue(ResolveBlockResults(s, b, TRUE), b)
     ELSE IF Polymorphic(s) THEN s
     ELSE IF index = 1 THEN Leave(ReturnValues(s, TRUE), TopVals(s, Len(b.type.out)))
     ELSE Ahead(ResolveBlockResults(s, b, TRUE), "end", index, TopVals(s, Len(b.type.out)))

TypesFor(b) == IF b.opcode = "loop" THEN b.type.in ELSE b.type.out

Branch ==
  \E i \in Of({"br"}) :
    LET index == TargetIndex(S, i.arg[1])
        b     == o.blocks[index]
    IN /\ Compiling
       /\ index >= 1
       /\ Fits(TypesFor(b))
       /\ Commit(IF b.opcode = "loop"
                 THEN Continue([S EXCEPT !.o.blocks[Len(o.blocks)].poly = TRUE], b)
                 ELSE SetStackPolymorphic(BranchTo(S, index)))

BranchIf ==
  \E i \in Of({"br_if"}) :
    LET index == TargetIndex(S, i.arg[1])
        b     == o.blocks[index]
        plain == IF b.opcode = "loop" THEN b.type.in = <<>> ELSE b.type.out = <<>> /\ index # 1
        begun == Pop(IF b.opcode = "loop" /\ plain THEN CopyStackTopToRegister(S) ELSE S)
        taken == IF ~plain THEN BranchTo(begun, index)
                 ELSE IF b.opcode = "loop" THEN Continue(begun, b)
                 ELSE Ahead(begun, "end", index, <<>>)
    IN /\ Compiling
       /\ index >= 1
       /\ Fits(Append(TypesFor(b), "i32"))
       /\ Commit(NotTaken(begun, taken)) \/ (Live(S) /\ Commit(taken))

\* The landing code of each target is compiled from where the one before left the
\* compiler; the path runs one of them.
BranchTable ==
  \E i \in Of({"br_table"}) :
    LET index(k) == TargetIndex(S, i.arg[k])
        begun == Pop(Preserve(S, "i64"))
        after[k \in 0 .. Len(i.arg)] ==
          IF k = 0 THEN begun ELSE BranchTo(NotTaken(begun, after[k - 1]), index(k))
    IN /\ Compiling
       /\ \A k \in DOMAIN i.arg : index(k) >= 1 /\ Fits(Append(TypesFor(o.blocks[index(k)]), "i32"))
       /\ \E k \in DOMAIN i.arg :
            Commit(SetStackPolymorphic([after[Len(i.arg)] EXCEPT !.x = after[k].x]))

Return ==
  /\ Of({"return"}) # {}
  /\ Fits(o.blocks[1].type.out)
  /\ Commit(IF Polymorphic(S) THEN S ELSE SetStackPolymorphic(Leave(ReturnValues(S, TRUE), TopVals(S, Len(o.blocks[1].type.out)))))

Unreachable ==
  /\ Of({"unreachable"}) # {}
  /\ Compiling
  /\ Commit(SetStackPolymorphic(Go(S, At("trapped", 0, <<>>, <<>>))))

Next ==
  \/ Const \/ GetLocal \/ SetLocal \/ GetGlobal \/ SetGlobal \/ Drop
  \/ Compute \/ MemorySize \/ MemoryGrow \/ MemoryCopyFill
  \/ Call \/ CallIndirect
  \/ LoopOrBlock \/ If \/ Else \/ End
  \/ Branch \/ BranchIf \/ BranchTable \/ Return \/ Unreachable

Spec == Init /\ [][Next]_vars

-----------------------------------------------------------------------------
(* Properties.                                                             *)

\* Everything has its type: an entry's location is a slot or a register.
TypeOK ==
  /\ \A j \in DOMAIN o.stack : /\ o.stack[j].type \in Type
                               /\ o.stack[j].slot \in 0 .. MaxFunctionSlots - 1 \cup DOMAIN o.reg
  /\ \A k \in DOMAIN o.slots : o.slots[k] \in 0 .. 255
  /\ \A a \in DOMAIN o.reg : o.reg[a] \in 0 .. Height(o)
  /\ o.max <= MaxFrame

\* wasmStack holds slot locations (m3_compile.h): wherever the path is when it reaches
\* the code being compiled, each local and each value of the wasm stack is in the
\* slot or register the compiler has for it.
ValuesInPlace ==
  x.at.k = "here" => \A j \in DOMAIN o.stack : o.stack[j].val # 0 => Holds(x, o.stack[j])

\* A path that reaches a loop again finds locals, parameters and the values below
\* the loop where the code of the loop was compiled to read them.
LoopsReenter == x.at.k = "continued" => \A j \in DOMAIN x.at.frame : Holds(x, x.at.frame[j])

\* A function returns with its results, one or several, in the return slots its
\* caller reads.
ResultsReturned == x.at.k = "returned" => \A j \in DOMAIN x.at.frame : Holds(x, x.at.frame[j])

\* m3Slots contains allocation usage counts (m3_compile.h): a slot above the constants
\* counts the entries of the stack that are in it, so it is free when none is.
SlotsCounted ==
  o.result = "none" =>
    \A k \in o.firstDynamic .. MaxFunctionSlots - 1 :
      o.slots[k] = Cardinality({j \in Entries(o) : k \in o.stack[j].slot ..
                                   o.stack[j].slot + GetTypeNumSlots(o.stack[j].type) - 1})

\* At most one entry is in a register, and it is the one the compiler would move out.
RegistersAgree ==
  o.result = "none" =>
    \A a \in DOMAIN o.reg :
      {j \in Entries(o) : o.stack[j].slot = a} = (IF o.reg[a] = 0 THEN {} ELSE {o.reg[a]})

\* No well-typed program is refused but for its size, those with several results
\* among them (README.md of the repository says that they are).
AcceptsPrograms == o.result \in {"none", "stack overflow", "slot usage count overflow"}

\* op_Entry's check covers what the function's own code writes: no write lies
\* beyond maxStackSlots, call arguments aside.
WritesInFrame == x.high <= o.max
=============================================================================
