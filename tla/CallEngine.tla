----------------------------- MODULE CallEngine -----------------------------
(***************************************************************************)
(* Calls between JS and one instance: an export call (makeExportFunction,  *)
(* m3_Call, m3_GetResults), the interpreter's frames (op_Call,             *)
(* op_CallIndirect, op_Entry, op_Loop, op_MemGrow), an import call         *)
(* (op_CallRawFunction, CallImportedFunction), which may call exports      *)
(* again, and the unwinding of traps and JS exceptions.                    *)
(*                                                                         *)
(* Every native activation is a frame.  Only the innermost one runs; JS    *)
(* runs when that is an import or when there is none.  All wasm functions  *)
(* are alike: MaxSlots stack slots, of which LiveSlots are below the frame *)
(* of a callee.  A stack slot holds the identity of the activation that    *)
(* wrote it.                                                               *)
(***************************************************************************)
EXTENDS Integers, Sequences, FiniteSets

CONSTANTS
  Addr,          \* addresses of the linear memory block
  Null,          \* no address
  None,          \* no exception, no function, nothing received
  Trapped,       \* the RuntimeError that reports a trap
  Missing,       \* the error of calling an import that was not provided
  StackSlots,    \* runtime->numStackSlots
  Slack,         \* slots m3_NewRuntime allocates beyond them (4)
  MaxSlots,      \* function->maxStackSlots
  LiveSlots,     \* the stack offset of a call: slots of the caller in use
  ArgSlots,      \* result and argument slots of a call
  MaxCallDepth,  \* d_m3MaxCallDepth (1000)
  MaxCalls       \* bound: activations of a behaviour

ASSUME SlotAssumption ==
  /\ {StackSlots, Slack, MaxSlots, LiveSlots, ArgSlots, MaxCallDepth, MaxCalls} \subseteq Nat
  /\ 0 < LiveSlots /\ LiveSlots <= MaxSlots
  /\ 0 < ArgSlots /\ ArgSlots <= MaxSlots
  /\ 0 < MaxCalls

ASSUME ValueAssumption == None \notin 1 .. MaxCalls \cup {Trapped, Missing}

VARIABLES
  phase,       \* instantiate runs the start function, or the exports exist
  frames,      \* the native activations, innermost last
  slots,       \* the operand stack allocation
  stackBase,   \* runtime->stack
  maxStack,    \* memory.mallocated->maxStack
  mallocated,  \* memory.mallocated
  callDepth,   \* runtime->callDepth
  trap,        \* what the innermost frame is being left with
  pending,     \* state->pendingException
  lastCalled,  \* runtime->lastCalled
  received,    \* what the innermost JS frame last got back from an export
  calls,       \* activations so far
  overrun      \* a slot beyond the allocation was written

machine == <<slots, stackBase, maxStack, mallocated, callDepth>>
outcome == <<trap, pending, lastCalled, received>>
vars    == <<phase, frames, machine, outcome, calls, overrun>>

Activation == 1 .. MaxCalls
Allocation == StackSlots + Slack

Value(v)     == <<"value", v>>
Exception(x) == <<"exception", x>>

Top   == frames[Len(frames)]
Below == SubSeq(frames, 1, Len(frames) - 1)

Runner   == IF frames = <<>> THEN "import" ELSE Top.kind
\* A write beyond the allocation is undefined; nothing runs after one.
WasmRuns == ~overrun /\ trap = "none" /\ Runner = "wasm"
JsRuns   == ~overrun /\ trap = "none" /\ Runner = "import"

-----------------------------------------------------------------------------
(* Stack slots.                                                            *)

\* op_Entry's test of the operand stack limit.
FitsStack(base) == base + MaxSlots < maxStack

Write(base, n, id) ==
  /\ slots' = [s \in DOMAIN slots |-> IF s \in base .. base + n - 1 THEN id ELSE slots[s]]
  /\ overrun' = (overrun \/ base + n > Allocation)

Frame(kind, via, base, mem, saved) ==
  [id |-> calls + 1, kind |-> kind, via |-> via, base |-> base,
   mem |-> mem, loop |-> Null, saved |-> saved]

\* Mutant: the caller goes on with the memory pointer it had before the call.
ResumeCallerStale == Below

\* op_Call, op_CallIndirect: the caller continues with the memory as it is now.
ResumeCaller == [Below EXCEPT ![Len(frames) - 1].mem = mallocated]

\* Mutant: exported functions find their stack where the allocation begins.
ImportStackFixed(sp) == stackBase

\* op_CallRawFunction: exports called while the import runs use the stack from
\* the import's own frame on.
ImportStack(sp) == sp

-----------------------------------------------------------------------------
Init ==
  /\ mallocated \in Addr
  /\ \/ phase = "live" /\ frames = <<>> /\ calls = 0
     \/ /\ phase = "starting" /\ calls = 1
        /\ frames = <<[id |-> 1, kind |-> "wasm", via |-> "start", base |-> 0,
                       mem |-> mallocated, loop |-> Null, saved |-> 0]>>
  /\ slots = [s \in 0 .. Allocation - 1 |-> IF s < MaxSlots /\ frames # <<>> THEN 1 ELSE 0]
  /\ stackBase = 0
  /\ maxStack = StackSlots
  /\ callDepth = 0
  /\ trap = "none" /\ pending = None /\ lastCalled = None /\ received = None
  /\ overrun = FALSE

-----------------------------------------------------------------------------
(* Calls from JS: makeExportFunction and m3_Call.                          *)

\* The arguments are stored at runtime->stack before anything is checked.
CallExport ==
  /\ phase = "live" /\ JsRuns /\ calls < MaxCalls
  /\ calls' = calls + 1
  /\ pending' = None
  /\ \/ /\ FitsStack(stackBase)
        /\ Write(stackBase, MaxSlots, calls + 1)
        /\ frames' = Append(frames, Frame("wasm", "entry", stackBase, mallocated, 0))
        /\ received' = None
        /\ UNCHANGED lastCalled
     \/ /\ ~FitsStack(stackBase)
        /\ Write(stackBase, ArgSlots, calls + 1)
        /\ lastCalled' = None
        /\ received' = Exception(Trapped)
        /\ UNCHANGED frames
  /\ UNCHANGED <<phase, stackBase, maxStack, mallocated, callDepth, trap>>

\* The export is an import of the module: m3_Call runs op_CallRawFunction.
CallReexport ==
  /\ phase = "live" /\ JsRuns /\ calls < MaxCalls
  /\ calls' = calls + 1
  /\ pending' = None
  /\ Write(stackBase, ArgSlots, calls + 1)
  /\ \/ /\ frames' = Append(frames, Frame("import", "entry", stackBase, mallocated, stackBase))
        /\ received' = None
        /\ UNCHANGED lastCalled
     \/ /\ lastCalled' = None
        /\ received' = Exception(Missing)
        /\ UNCHANGED frames
  /\ UNCHANGED <<phase, stackBase, maxStack, mallocated, callDepth, trap>>

\* WasmMemory's grow(): ResizeMemory may move the block, and recomputes the
\* stack limit from runtime->stack.
JsGrow ==
  /\ phase = "live" /\ JsRuns
  /\ mallocated' \in Addr
  /\ maxStack' = stackBase + StackSlots
  /\ UNCHANGED <<phase, frames, slots, stackBase, callDepth, outcome, calls, overrun>>

-----------------------------------------------------------------------------
(* Calls from wasm.  The arguments are stored before the call operation.   *)

CalleeBase == Top.base + LiveSlots

\* op_Call or op_CallIndirect of a wasm function, and its op_Entry.
CallFunction ==
  /\ WasmRuns /\ calls < MaxCalls
  /\ calls' = calls + 1
  /\ \/ /\ callDepth < MaxCallDepth /\ FitsStack(CalleeBase)
        /\ Write(CalleeBase, MaxSlots, calls + 1)
        /\ frames' = Append(frames, Frame("wasm", "call", CalleeBase, Top.mem, 0))
        /\ callDepth' = callDepth + 1
        /\ received' = None
        /\ UNCHANGED trap
     \/ /\ callDepth >= MaxCallDepth \/ ~FitsStack(CalleeBase)
        /\ Write(CalleeBase, ArgSlots, calls + 1)
        /\ trap' = "wasm"
        /\ UNCHANGED <<frames, callDepth, received>>
  /\ UNCHANGED <<phase, stackBase, maxStack, mallocated, pending, lastCalled>>

\* op_Call of an import: op_CallRawFunction and CallImportedFunction.
CallImport ==
  /\ WasmRuns /\ calls < MaxCalls
  /\ calls' = calls + 1
  /\ Write(CalleeBase, ArgSlots, calls + 1)
  /\ \/ /\ callDepth < MaxCallDepth
        /\ frames' = Append(frames, Frame("import", "call", CalleeBase, Top.mem, stackBase))
        /\ stackBase' = ImportStack(CalleeBase)
        /\ callDepth' = callDepth + 1
        /\ received' = None
        /\ UNCHANGED <<trap, pending>>
     \/ /\ callDepth < MaxCallDepth
        /\ trap' = "js" /\ pending' = Missing
        /\ UNCHANGED <<frames, stackBase, callDepth, received>>
     \/ /\ callDepth >= MaxCallDepth
        /\ trap' = "wasm"
        /\ UNCHANGED <<frames, stackBase, callDepth, pending, received>>
  /\ UNCHANGED <<phase, maxStack, mallocated, lastCalled>>

-----------------------------------------------------------------------------
(* Steps inside a wasm frame.                                              *)

UpdateTop(mem, loop) ==
  frames' = [frames EXCEPT ![Len(frames)].mem = mem, ![Len(frames)].loop = loop]

\* op_MemGrow; a failed one changes nothing here.
MemGrow ==
  /\ WasmRuns
  /\ mallocated' \in Addr
  /\ maxStack' = stackBase + StackSlots
  /\ UpdateTop(mallocated', Top.loop)
  /\ UNCHANGED <<phase, slots, stackBase, callDepth, outcome, calls, overrun>>

\* op_Loop holds the memory pointer it was entered with while its body runs.
EnterLoop ==
  /\ WasmRuns /\ Top.loop = Null
  /\ UpdateTop(Top.mem, Top.mem)
  /\ UNCHANGED <<phase, machine, outcome, calls, overrun>>

\* The body branched back to op_Loop, which takes the pointer afresh.
IterateLoop ==
  /\ WasmRuns /\ Top.loop # Null
  /\ UpdateTop(mallocated, mallocated)
  /\ UNCHANGED <<phase, machine, outcome, calls, overrun>>

LeaveLoop ==
  /\ WasmRuns /\ Top.loop # Null
  /\ UpdateTop(Top.mem, Null)
  /\ UNCHANGED <<phase, machine, outcome, calls, overrun>>

\* An instruction traps.
Trap ==
  /\ WasmRuns
  /\ trap' = "wasm"
  /\ UNCHANGED <<phase, frames, machine, pending, lastCalled, received, calls, overrun>>

-----------------------------------------------------------------------------
(* Returning.                                                              *)

\* Mutant: the result of an export is read at the start of the allocation.
ResultSlotFixed(base) == 0

\* m3_GetResults reads at runtime->stack.
ResultSlot(base) == base

\* RunCode returned to m3_Call without a trap; m3_GetResults follows at once.
Answer(id, base) ==
  /\ lastCalled' = id
  /\ received' = IF lastCalled' = id THEN Value(slots'[ResultSlot(base)])
                                     ELSE Exception(Trapped)

\* A wasm function returns; its result goes into the first slot of its frame.
Return ==
  /\ WasmRuns
  /\ Write(Top.base, 1, Top.id)
  /\ \/ /\ Top.via = "call"
        /\ frames' = ResumeCaller
        /\ callDepth' = callDepth - 1
        /\ UNCHANGED <<phase, lastCalled, received>>
     \/ /\ Top.via = "entry"
        /\ frames' = Below
        /\ Answer(Top.id, stackBase)
        /\ UNCHANGED <<phase, callDepth>>
     \/ /\ Top.via = "start"      \* instantiate goes on to build the exports
        /\ frames' = Below
        /\ phase' = "live"
        /\ received' = Value(Top.id)
        /\ UNCHANGED <<callDepth, lastCalled>>
  /\ UNCHANGED <<stackBase, maxStack, mallocated, trap, pending, calls>>

\* The JS function of an import returns.
ImportReturns ==
  /\ JsRuns /\ frames # <<>>
  /\ Write(Top.base, 1, Top.id)
  /\ stackBase' = Top.saved
  /\ \/ /\ Top.via = "call"
        /\ frames' = ResumeCaller
        /\ callDepth' = callDepth - 1
        /\ UNCHANGED <<lastCalled, received>>
     \/ /\ Top.via = "entry"
        /\ frames' = Below
        /\ Answer(Top.id, stackBase')
        /\ UNCHANGED callDepth
  /\ UNCHANGED <<phase, maxStack, mallocated, trap, pending, calls>>

-----------------------------------------------------------------------------
(* Failing: throwWasmError, and the way of a trap there.                   *)

\* Mutant: the exception is rethrown and kept.
DeliverKept(t, p) ==
  /\ lastCalled' = None
  /\ trap' = "none"
  /\ received' = Exception(IF t = "js" THEN p ELSE Trapped)
  /\ pending' = p

\* The pending exception is rethrown and forgotten; any other result becomes
\* an Error of its own.
Deliver(t, p) ==
  /\ lastCalled' = None
  /\ trap' = "none"
  /\ \/ /\ t = "js" /\ p # None
        /\ received' = Exception(p)
        /\ pending' = None
     \/ /\ ~(t = "js" /\ p # None)
        /\ received' = Exception(Trapped)
        /\ pending' = p

\* The exceptions the running import can end with: one of its own, or the one
\* it received from an export and throws on.
Throwable == {Top.id} \cup (IF received # None /\ received[1] = "exception"
                              THEN {received[2]} ELSE {})

\* Mutant: the exceptional way out of an import leaves runtime->stack moved.
ImportThrowsUnrestored(x) ==
  /\ JsRuns /\ frames # <<>> /\ x \in Throwable
  /\ frames' = Below
  /\ \/ /\ Top.via = "call"
        /\ trap' = "js" /\ pending' = x
        /\ callDepth' = callDepth - 1
        /\ UNCHANGED <<lastCalled, received>>
     \/ /\ Top.via = "entry"
        /\ Deliver("js", x)
        /\ UNCHANGED callDepth
  /\ UNCHANGED <<phase, slots, stackBase, maxStack, mallocated, calls, overrun>>

\* The JS function throws: CallImportedFunction stores the exception, the
\* trap leaves op_CallRawFunction.
ImportThrows(x) ==
  /\ JsRuns /\ frames # <<>> /\ x \in Throwable
  /\ stackBase' = Top.saved
  /\ frames' = Below
  /\ \/ /\ Top.via = "call"
        /\ trap' = "js" /\ pending' = x
        /\ callDepth' = callDepth - 1
        /\ UNCHANGED <<lastCalled, received>>
     \/ /\ Top.via = "entry"
        /\ Deliver("js", x)
        /\ UNCHANGED callDepth
  /\ UNCHANGED <<phase, slots, maxStack, mallocated, calls, overrun>>

\* Mutant: a call that traps does not count down.
UnwindCounted ==
  /\ trap # "none" /\ ~overrun
  /\ frames' = Below
  /\ \/ /\ Top.via = "call"
        /\ UNCHANGED <<phase, outcome>>
     \/ /\ Top.via = "entry"
        /\ Deliver(trap, pending)
        /\ UNCHANGED phase
  /\ UNCHANGED <<machine, calls, overrun>>

\* Mutant: every frame that traps counts down, also those m3_Call started.
UnwindOvercounted ==
  /\ trap # "none" /\ ~overrun
  /\ frames' = Below
  /\ callDepth' = callDepth - 1
  /\ \/ /\ Top.via = "call"
        /\ UNCHANGED <<phase, outcome>>
     \/ /\ Top.via = "entry"
        /\ Deliver(trap, pending)
        /\ UNCHANGED phase
  /\ UNCHANGED <<slots, stackBase, maxStack, mallocated, calls, overrun>>

\* A trapping frame returns the trap to its caller: another wasm frame, or
\* m3_Call or m3_RunStart and so throwWasmError.
Unwind ==
  /\ trap # "none" /\ ~overrun
  /\ frames' = Below
  /\ \/ /\ Top.via = "call"
        /\ callDepth' = callDepth - 1
        /\ UNCHANGED <<phase, outcome>>
     \/ /\ Top.via = "entry"
        /\ Deliver(trap, pending)
        /\ UNCHANGED <<phase, callDepth>>
     \/ /\ Top.via = "start"
        /\ Deliver(trap, pending)
        /\ phase' = "failed"
        /\ UNCHANGED callDepth
  /\ UNCHANGED <<slots, stackBase, maxStack, mallocated, calls, overrun>>

-----------------------------------------------------------------------------
Next ==
  \/ CallExport \/ CallReexport \/ JsGrow
  \/ CallFunction \/ CallImport
  \/ MemGrow \/ EnterLoop \/ IterateLoop \/ LeaveLoop \/ Trap
  \/ Return \/ ImportReturns
  \/ \E x \in Activation \cup {Trapped, Missing} : ImportThrows(x)
  \/ Unwind

Spec == Init /\ [][Next]_vars

-----------------------------------------------------------------------------
(* Correctness.                                                            *)

FrameType ==
  [id : Activation, kind : {"wasm", "import"}, via : {"start", "entry", "call"},
   base : Nat, mem : Addr, loop : Addr \cup {Null}, saved : Nat]

TypeOK ==
  /\ phase \in {"starting", "live", "failed"}
  /\ frames \in Seq(FrameType)
  /\ slots \in [0 .. Allocation - 1 -> 0 .. MaxCalls]
  /\ stackBase \in Nat
  /\ maxStack \in Nat
  /\ mallocated \in Addr
  /\ callDepth \in Nat
  /\ trap \in {"none", "wasm", "js"}
  /\ pending \in Activation \cup {None, Trapped, Missing}
  /\ lastCalled \in Activation \cup {None}
  /\ received = None \/ received[1] \in {"value", "exception"}
  /\ calls \in 0 .. MaxCalls
  /\ overrun \in BOOLEAN

\* A running wasm frame addresses the memory where it is, whatever callee,
\* import, nested export or loop body moved it before (PATCHES.md,
\* "op_CallRawFunction memory refresh").
MemoryPointerFresh ==
  WasmRuns => Top.mem = mallocated

\* The recursion guard counts exactly the calls that are active, also after
\* traps and exceptions, and never admits more than its limit.
CallDepthExact ==
  /\ callDepth = Cardinality({i \in DOMAIN frames : frames[i].via = "call"})
  /\ callDepth <= MaxCallDepth

\* runtime->stack points at the frame of the innermost running import, and at
\* the start of the allocation when none runs.
StackBaseRestored ==
  /\ (\A i \in DOMAIN frames : frames[i].kind = "wasm") => stackBase = 0
  /\ \A i \in DOMAIN frames :
       frames[i].kind = "import" /\ (\A j \in i + 1 .. Len(frames) : frames[j].kind = "wasm")
         => stackBase = frames[i].base

\* No call, nested or not, overwrites the slots a suspended frame will use
\* when it continues.
FramesIntact ==
  \A i \in DOMAIN frames : frames[i].kind = "wasm" =>
    \A s \in frames[i].base .. frames[i].base + LiveSlots - 1 :
      s \in DOMAIN slots => slots[s] = frames[i].id

\* An exception is pending only while it unwinds: code never runs with one left
\* over, and a trap that carries one never loses it.
ExceptionPendingOnlyInFlight ==
  pending # None <=> trap = "js"

Calls == INSTANCE JsCalls WITH
  stack <- [i \in DOMAIN frames |-> [id   |-> frames[i].id,
                                     js   |-> frames[i].kind = "import",
                                     byJs |-> frames[i].via # "call"]],
  failing <- IF trap = "none" THEN None ELSE IF trap = "js" THEN pending ELSE Trapped

\* Each JS caller gets the result, or the failure, of the activation it
\* started, at any depth of re-entrance.
ImplementsJsCalls == Calls!Spec

\* m3_config.h: d_m3SkipStackCheck is 0, stack overruns are checked for: the
\* operand stack is never written beyond its allocation.
StackChecked == ~overrun

=============================================================================
