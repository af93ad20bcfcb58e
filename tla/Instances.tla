------------------------------ MODULE Instances ------------------------------
(***************************************************************************)
(* Instances from the JS call that asks for one to the collection of its   *)
(* exports: the binding's instantiate with all its failures, over the      *)
(* parser and the loader, and the JS that runs in the middle of it: the    *)
(* getters of the import object while imports are linked, and the imports  *)
(* the start function calls.  That JS may do everything JS may do, start   *)
(* another instance included.                                              *)
(*                                                                         *)
(* The stack holds the native activations and the JS functions they called *)
(* into, innermost last; JS runs when a JS function is innermost or the    *)
(* stack is empty.  What the JS side adds (WebAssembly.Module, promises,   *)
(* error classes, installation) is module Polyfill's.                      *)
(***************************************************************************)
EXTENDS ModuleLoader

CONSTANTS
  Binary,      \* what the names of binaries stand for
  Rewrites,    \* what JS may write into it later
  Functions,   \* JS functions an import object may provide
  Missing,     \* the import object does not provide a function
  MaxInstances,
  MaxCalls     \* bound: calls of exports

VARIABLES
  content,  \* the bytes in the caller's ArrayBuffer
  inst,     \* the instances
  stack,    \* the activations
  calls     \* calls of exports so far

instanceVars == <<content, inst, stack, calls>>

Id == 1 .. MaxInstances

NoImage == <<"no image", 0>>
NoError == [class |-> "none", tag |-> "none", origin |-> "none"]

\* No InstanceState.
NoNative == [NewEnvironment EXCEPT !.heap = {}, !.funcTypes = <<>>]

\* An InstanceState, whether a promise waits for it and, to compare them, the
\* bytes its parts came from.
Unborn ==
  [status |-> "free", bytes |-> NoImage, native |-> NoNative, entries |-> <<>>,
   exports |-> << >>, promise |-> "none", error |-> NoError, failed |-> "none",
   parsed |-> NoImage, compiled |-> NoImage, scanned |-> NoImage, validated |-> NoImage]

\* kind: instantiate (at: the next stage, next: the next import), run (code: what
\* is left to do), getter and import (caught: the last error the JS code caught).
Activation(kind, i, at, code) ==
  [kind |-> kind, id |-> i, at |-> at, next |-> 1, code |-> code, caught |-> NoError]

Top   == stack[Len(stack)]
Below == SubSeq(stack, 1, Len(stack) - 1)

JsKinds  == {"getter", "import"}
JsRuns   == stack # <<>> => Top.kind \in JsKinds
At(stage) == stack # <<>> /\ Top.kind = "instantiate" /\ Top.at = stage

Goto(stage) == stack' = [stack EXCEPT ![Len(stack)].at = stage]
I           == inst[Top.id]
Native      == I.native

-----------------------------------------------------------------------------
(* Errors.                                                                 *)

\* An Error whose message starts with a tag, or has none.
Thrown(tag)   == [class |-> "Error", tag |-> tag, origin |-> tag]
Plain(origin) == [class |-> origin, tag |-> "none", origin |-> origin]

\* Mutant: an error without a tag is wrapped as well.
ClassifiedAlways(e) ==
  [e EXCEPT !.class = IF e.tag = "none" THEN "RuntimeError" ELSE e.tag, !.tag = "none"]

\* rethrowClassified: an error with a tag becomes one of the tag's class.
Classified(e) == IF e.tag = "none" THEN e ELSE [e EXCEPT !.class = e.tag, !.tag = "none"]

\* The JS code that called catches e, if there is any in the stack.
Caught(s, e) == IF s = <<>> THEN s ELSE [s EXCEPT ![Len(s)].caught = e]

-----------------------------------------------------------------------------
(* The start and the end of instantiate.                                   *)

\* Once its arguments are checked instantiate copies the bytes.
Begin(i, image, promise, validated) ==
  /\ inst' = [inst EXCEPT ![i] = [Unborn EXCEPT !.status = "building", !.bytes = image,
                !.promise = promise, !.validated = validated]]
  /\ stack' = Append(stack, Activation("instantiate", i, "create", <<>>))

\* The vector of module bytes the parser, the compiler and the scans read.
Bytes(i) == inst[i].bytes

\* What is left of a record when its state is destroyed.
Remains(r, native) ==
  [r EXCEPT !.native = [NoNative EXCEPT !.heap = DestroyState(native).heap,
                                        !.twice = DestroyState(native).twice],
            !.entries = <<>>, !.exports = << >>]

\* Mutant: the promise is not told.
FailedUnsettled(r, native, stage, e) ==
  [Remains(r, native) EXCEPT !.status = "failed", !.error = Classified(e), !.failed = stage]

\* An exception leaves instantiate, which destroys the state.
Failed(r, native, stage, e) ==
  [Remains(r, native) EXCEPT !.status = "failed", !.error = Classified(e), !.failed = stage, !.promise = "none"]

Fails(native, stage, e) ==
  /\ inst' = [inst EXCEPT ![Top.id] = Failed(I, native, stage, e)]
  /\ stack' = Caught(Below, Classified(e))

\* m3_NewEnvironment and m3_NewRuntime, either of which may find no memory.
Create ==
  /\ At("create")
  /\ \/ /\ inst' = [inst EXCEPT ![Top.id].native = NewRuntime(NewEnvironment)]
        /\ Goto("parse")
     \/ Fails(NewEnvironment, "create", Plain("Error"))
  /\ UNCHANGED <<content, calls>>

\* What the parser makes of each binary in a new environment and runtime.
Parsed == [n \in DOMAIN Binary |-> ParseModule(NewRuntime(NewEnvironment), Binary[n])]

Parse ==
  /\ At("parse")
  /\ LET parsed == Parsed[Bytes(Top.id)]
     IN IF Ok(parsed)
        THEN /\ inst' = [inst EXCEPT ![Top.id].native = parsed, ![Top.id].parsed = Bytes(Top.id)]
             /\ Goto("load")
        ELSE Fails(parsed, "parse", Thrown("CompileError"))
  /\ UNCHANGED <<content, calls>>

\* Until it is loaded the module belongs to instantiate.
LoadFailure(p) == FreeModule(p)

Load ==
  /\ At("load")
  /\ LET loaded == LoadModule(Native)
     IN IF Ok(loaded)
        THEN inst' = [inst EXCEPT ![Top.id].native = loaded] /\ Goto("link")
        ELSE Fails(LoadFailure(loaded), "load", Thrown("CompileError"))
  /\ UNCHANGED <<content, calls>>

-----------------------------------------------------------------------------
(* Linking the imports, one function after the other.                      *)

Importing == Native.m.functions[Top.next]
Imports   == Top.next <= Native.m.imports

\* The entry lives in the instance when it was linked, and only then.
Link(i, fn, s) ==
  LET f      == inst[i].native.m.functions[s[Len(s)].next]
      entry  == Len(inst[i].entries) + 1
      linked == LinkFunction(inst[i].native, f.import.module, f.import.field,
                             BuildSignature(TypeOf(inst[i].native, f)), entry)
  IN IF Ok(linked)
     THEN /\ inst' = [inst EXCEPT ![i].native = linked, ![i].entries = Append(@,
               [module |-> f.import.module, field |-> f.import.field, fn |-> fn])]
          /\ stack' = [s EXCEPT ![Len(s)].next = @ + 1]
     ELSE /\ inst' = [inst EXCEPT ![i] = Failed(@, linked, "link", Thrown("LinkError"))]
          /\ stack' = Caught(SubSeq(s, 1, Len(s) - 1), Classified(Thrown("LinkError")))

\* resolveImport of plain properties.
ResolveImport(fn) ==
  /\ At("link") /\ Imports /\ Signable(Native, Importing)
  /\ Link(Top.id, fn, stack)
  /\ UNCHANGED <<content, calls>>

\* resolveImport of a property with a getter, which is JS.
CallGetter ==
  /\ At("link") /\ Imports /\ Signable(Native, Importing)
  /\ stack' = Append(stack, Activation("getter", Top.id, "js", <<>>))
  /\ UNCHANGED <<content, inst, calls>>

RefuseSignature ==
  /\ At("link") /\ Imports /\ ~Signable(Native, Importing)
  /\ Fails(Native, "link", Thrown("LinkError"))
  /\ UNCHANGED <<content, calls>>

Linked ==
  /\ At("link") /\ ~Imports
  /\ Goto("compile")
  /\ UNCHANGED <<content, inst, calls>>

-----------------------------------------------------------------------------
(* Compilation, the start function, the exports.                           *)

Compile ==
  /\ At("compile")
  /\ LET compiled == CompileModule(Native, Binary[Bytes(Top.id)])
     IN IF Ok(compiled)
        THEN /\ inst' = [inst EXCEPT ![Top.id].native = compiled,
                                     ![Top.id].compiled = Bytes(Top.id)]
             /\ Goto("start")
        ELSE Fails(compiled, "compile", Thrown("CompileError"))
  /\ UNCHANGED <<content, calls>>

\* What running a function does: its code, or the call of an import.  Where the
\* bytes had no body m3_Call answers that code is missing, which JS gets as a trap.
CodeOf(native, f) ==
  LET function == native.m.functions[f]
  IN IF function.stub # Unset THEN <<f - 1>>
     ELSE IF function.compiled = NoBody THEN <<Unset>> ELSE function.compiled.does

\* m3_RunStart, or nothing to run.
Start ==
  /\ At("start")
  /\ LET start == Native.m.start
     IN IF start = Unset THEN Goto("publish") /\ UNCHANGED inst
        ELSE IF StartFails(Native) THEN Fails(Native, "start", Thrown("RuntimeError"))
        ELSE
             /\ stack' = Append([stack EXCEPT ![Len(stack)].at = "publish"],
                                Activation("run", Top.id, "start", CodeOf(Native, start + 1)))
             /\ inst' = [inst EXCEPT ![Top.id].native.m.start = Unset]
  /\ UNCHANGED <<content, calls>>

\* The exports object reaches JS.
Publish ==
  /\ At("publish")
  /\ inst' = [inst EXCEPT ![Top.id] = [I EXCEPT !.status = "live", !.scanned = Bytes(Top.id),
        !.exports = ExportsObject(Native, Binary[Bytes(Top.id)]), !.promise = "none"]]
  /\ stack' = Below
  /\ UNCHANGED <<content, calls>>

-----------------------------------------------------------------------------
(* Running wasm.  The pending exception and the interpreter's frames are   *)
(* module CallEngine's; here an error leaves the whole run.                *)

Runs == stack # <<>> /\ Top.kind = "run"

\* Mutant: the error leaves only the run, and instantiate goes on.
RaiseInRun(e) ==
  /\ stack' = Caught(Below, e)
  /\ inst' = IF Top.at = "start" THEN [inst EXCEPT ![Top.id] = Failed(@, @.native, "start", e)] ELSE inst

\* An error leaves the start function and with it instantiate, or an export
\* and then reaches the JS that called it, tag and all.
Raise(e) ==
  IF Top.at = "start"
  THEN LET stage == IF e.origin = "RuntimeError" THEN "start" ELSE "js"
       IN /\ inst' = [inst EXCEPT ![Top.id] = Failed(@, @.native, stage, e)]
          /\ stack' = Caught(SubSeq(Below, 1, Len(Below) - 1), Classified(e))
  ELSE stack' = Caught(Below, e) /\ UNCHANGED inst

RunTraps ==
  /\ Runs /\ Top.code # <<>> /\ Head(Top.code) = Unset
  /\ Raise(Thrown("RuntimeError"))
  /\ UNCHANGED <<content, calls>>

\* CallImportedFunction through the entry the stub names.
Entry(i, f) == inst[i].entries[inst[i].native.m.functions[f + 1].stub]

CallImport ==
  /\ Runs /\ Top.code # <<>> /\ Head(Top.code) # Unset
  /\ IF Entry(Top.id, Head(Top.code)).fn = Missing THEN Raise(Plain("Error"))
     ELSE
          /\ stack' = Append([stack EXCEPT ![Len(stack)].code = Tail(@)],
                             Activation("import", Top.id, "js", <<>>))
          /\ UNCHANGED inst
  /\ UNCHANGED <<content, calls>>

RunReturns ==
  /\ Runs /\ Top.code = <<>>
  /\ stack' = Below
  /\ UNCHANGED <<content, inst, calls>>

-----------------------------------------------------------------------------
(* JS.                                                                     *)

\* A getter returns what it likes, an import goes back into the run.
JsReturns ==
  /\ stack # <<>>
  /\ \/ /\ Top.kind = "getter"
        /\ \E fn \in Functions \cup {Missing} : Link(Top.id, fn, Below)
     \/ /\ Top.kind = "import"
        /\ stack' = Below
        /\ UNCHANGED inst
  /\ UNCHANGED <<content, calls>>

\* An error of its own, or the one it caught: past the getter it leaves
\* instantiate, past the import the run.
JsThrows ==
  /\ stack # <<>> /\ Top.kind \in JsKinds
  /\ LET owner == Below[Len(Below)]
         fails == owner.kind = "instantiate" \/ owner.at = "start"
         left  == IF Top.kind = "import" /\ owner.at = "start" THEN 2 ELSE 1
     IN \E e \in {Plain("Js"), Top.caught} \ {NoError} :
          /\ inst' = IF fails THEN [inst EXCEPT ![owner.id] = Failed(@, @.native, "js", e)] ELSE inst
          /\ stack' = Caught(SubSeq(Below, 1, Len(Below) - left), IF fails THEN Classified(e) ELSE e)
  /\ UNCHANGED <<content, calls>>

\* JS writes to the buffer it gave, or will give, to WebAssembly.
WriteBuffer ==
  /\ JsRuns
  /\ content' \in Rewrites
  /\ UNCHANGED <<inst, stack, calls>>

\* WasmTable: get of an index, beyond the element segments null.
TableLength(i) ==
  LET declared == ScanDeclaredTableSize(Binary[Bytes(i)])
      placed   == Len(inst[i].native.m.table0)
  IN IF declared > placed THEN declared ELSE placed

TableGet(i, k) ==
  IF k >= TableLength(i) THEN "RangeError"
  ELSE IF k >= Len(inst[i].native.m.table0) \/ inst[i].native.m.table0[k + 1] = Unset THEN "null"
  ELSE "function"

\* The functions JS can get hold of.
Exported(i, kind) == {n \in DOMAIN inst[i].exports : inst[i].exports[n].kind = kind}

Callable(i) ==
  {inst[i].exports[n].index + 1 : n \in Exported(i, "function")} \cup
  {inst[i].native.m.table0[k + 1] + 1 :
     k \in {t \in 0 .. TableLength(i) - 1 : Exported(i, "table") # {} /\ TableGet(i, t) = "function"}}

\* makeExportFunction and m3_Call.
CallExport(i) ==
  /\ JsRuns /\ calls < MaxCalls /\ inst[i].status = "live"
  /\ \E f \in Callable(i) :
       stack' = Append(stack, Activation("run", i, "call", CodeOf(inst[i].native, f)))
  /\ calls' = calls + 1
  /\ UNCHANGED <<content, inst>>

\* JS has dropped the exports, and with them the InstanceState; a running
\* function keeps its own.
Collect(i) ==
  /\ inst[i].status = "live"
  /\ \A k \in 1 .. Len(stack) : stack[k].id # i
  /\ inst' = [inst EXCEPT ![i] = [Remains(@, @.native) EXCEPT !.status = "gone"]]
  /\ UNCHANGED <<content, stack, calls>>

-----------------------------------------------------------------------------
NativeStep ==
  \/ Create \/ Parse \/ Load
  \/ \E fn \in Functions \cup {Missing} : ResolveImport(fn)
  \/ CallGetter \/ RefuseSignature \/ Linked \/ Compile \/ Start \/ Publish
  \/ RunTraps \/ CallImport \/ RunReturns

JsLeaves == JsReturns \/ JsThrows

JsActs ==
  \/ WriteBuffer
  \/ \E i \in Id : CallExport(i) \/ Collect(i)
=============================================================================
