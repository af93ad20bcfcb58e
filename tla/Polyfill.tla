------------------------------ MODULE Polyfill ------------------------------
(***************************************************************************)
(* The JS side over module Instances: WebAssembly.Module and its bytes,    *)
(* new Instance and the promise of WebAssembly.instantiate, the errors the *)
(* caller sees, and the installation of the binding when the package is    *)
(* imported, in this JS runtime and in the one a reload puts in its place. *)
(***************************************************************************)
EXTENDS Instances

CONSTANTS
  Starts,      \* platforms (android, ios) and the binaries the caller's buffer holds
  MaxReloads   \* bound: reloads

ASSUME BoundAssumption == MaxInstances \in Nat /\ MaxCalls \in Nat /\ MaxReloads \in Nat

\* An image has lists of sections, items and, in element segments, functions;
\* the indices of exports and of function names are unsigned.
IsList(x) == Len(x) \in Nat /\ DOMAIN x = 1 .. Len(x)

IsSegments(items) == IsList(items) /\ \A k \in 1 .. Len(items) : Len(items[k].functions) \in Nat

IsImage(image) ==
  /\ IsList(image.sections)
  /\ \A s \in 1 .. Len(image.sections) :
       /\ IsList(image.sections[s].items)
       /\ image.sections[s].id = 7 =>
            \A k \in 1 .. Len(image.sections[s].items) : image.sections[s].items[k].index \in Nat
       /\ image.sections[s].id = 0 /\ image.sections[s].name = "name" =>
            \A k \in 1 .. Len(image.sections[s].items) : image.sections[s].items[k] \in Nat
       /\ image.sections[s].id = 9 => IsSegments(image.sections[s].items)

ASSUME ImageAssumption ==
  /\ \A n \in DOMAIN Binary : IsImage(Binary[n])
  /\ Rewrites \subseteq DOMAIN Binary
  /\ \A start \in Starts : start.content \in DOMAIN Binary

VARIABLES
  jsModule,  \* a WebAssembly.Module JS holds
  lost,      \* what validating bytes has allocated and not freed
  host       \* the JS runtime and the TurboModule in it

vars == <<instanceVars, jsModule, lost, host>>

NoModule == [from |-> "none", image |-> NoImage]

-----------------------------------------------------------------------------
(* Installation.                                                           *)

\* Mutant: the flag outlives the module instance, as a static one would.
NewTurboModuleStatic(old) == [created |-> FALSE, installed |-> old.installed]

\* A module instance starts without bindings installed.
NewTurboModule(old) == [created |-> FALSE, installed |-> FALSE]

NewRuntimeOf(platform, old, reloads) ==
  [platform |-> platform, bound |-> FALSE, imported |-> FALSE, turbo |-> NewTurboModule(old),
   reloads |-> reloads]

\* Android's install(): the context holder may have no runtime yet.
Install(h, holder) ==
  IF h.turbo.installed THEN [ok |-> TRUE, host |-> h]
  ELSE IF ~holder THEN [ok |-> FALSE, host |-> h]
  ELSE [ok |-> TRUE, host |-> [h EXCEPT !.bound = TRUE, !.turbo.installed = TRUE]]

\* Importing the package: the TurboModule is created, which on iOS installs
\* the bindings; where they are not there, install() has to say they are.
ImportPackage ==
  /\ stack = <<>> /\ ~host.imported
  /\ LET created == [host EXCEPT !.turbo.created = TRUE,
                       !.bound = @ \/ host.platform = "ios"]
     IN IF created.bound THEN host' = [created EXCEPT !.imported = TRUE]
        ELSE \E holder \in BOOLEAN :
               LET installed == Install(created, holder)
               IN host' = [installed.host EXCEPT !.imported = installed.ok]
  /\ UNCHANGED <<instanceVars, jsModule, lost>>

\* The runtime goes, with all the handles JS had; a new one is created.
Reload ==
  /\ stack = <<>> /\ host.reloads < MaxReloads
  /\ host' = NewRuntimeOf(host.platform, host.turbo, host.reloads + 1)
  /\ inst' = [i \in Id |->
       IF inst[i].status = "live" THEN [Remains(inst[i], inst[i].native) EXCEPT !.status = "gone"]
       ELSE inst[i]]
  /\ jsModule' = NoModule
  /\ UNCHANGED <<content, stack, calls, lost>>

-----------------------------------------------------------------------------
(* Modules.                                                                *)

Uses == JsRuns /\ host.imported

\* RNWebassembly_validate: parsed in an environment of its own, and freed.
Validated == [n \in DOMAIN Binary |-> ParseModule(NewEnvironment, Binary[n])]

Discarded(parsed) ==
  FreeEnvironment(IF Ok(parsed) THEN FreeModule(parsed) ELSE parsed).heap

Rejects(e) == stack' = Caught(stack, e)

\* new Module, compile: an ArrayBuffer is kept as it is, a view is copied.
NewModule ==
  /\ Uses
  /\ LET parsed == Validated[content]
     IN /\ lost' = lost \cup Discarded(parsed)
        /\ IF Ok(parsed)
           THEN /\ jsModule' \in {[from |-> "buffer", image |-> NoImage], [from |-> "view", image |-> content]}
                /\ UNCHANGED stack
           ELSE Rejects(Plain("CompileError")) /\ UNCHANGED jsModule
  /\ UNCHANGED <<content, inst, calls, host>>

\* Mutant: the bytes of the buffer, whatever the module was made from.
ModuleBytesShared == content

\* The bytes of a Module: what its buffer holds now, or its own.
ModuleBytes == IF jsModule.from = "buffer" THEN content ELSE jsModule.image

-----------------------------------------------------------------------------
(* Instances.                                                              *)

Unused(i) == inst[i].status = "free" /\ \A j \in Id : j < i => inst[j].status # "free"

\* new Instance(module), and instantiate(module), which promises it.
NewInstance(i) ==
  /\ Uses /\ jsModule # NoModule /\ Unused(i)
  /\ \E promise \in {"none", "pending"} :
       Begin(i, ModuleBytes, promise, IF jsModule.from = "view" THEN jsModule.image ELSE ModuleBytes)
  /\ UNCHANGED <<content, calls, jsModule, lost, host>>

\* instantiate(bytes): a Module first, whose rejection is the promise's.  A getter
\* of the import object may run between the Module and its instance; that is
\* NewModule, WriteBuffer and NewInstance.
Instantiate(i) ==
  /\ Uses /\ Unused(i)
  /\ LET parsed == Validated[content]
     IN /\ lost' = lost \cup Discarded(parsed)
        /\ IF Ok(parsed) THEN Begin(i, content, "pending", content)
           ELSE /\ inst' = [inst EXCEPT ![i] = [Unborn EXCEPT !.status = "failed",
                     !.error = Plain("CompileError"), !.failed = "parse"]]
                /\ UNCHANGED stack
  /\ UNCHANGED <<content, calls, jsModule, host>>

-----------------------------------------------------------------------------
Init ==
  /\ inst = [i \in Id |-> Unborn]
  /\ stack = <<>> /\ calls = 0
  /\ jsModule = NoModule /\ lost = {}
  /\ \E start \in Starts :
       /\ content = start.content
       /\ host = NewRuntimeOf(start.platform, [installed |-> FALSE], 0)

OfInstances(A) == A /\ UNCHANGED <<jsModule, lost, host>>

NativeRuns == stack # <<>> /\ Top.kind \notin JsKinds
JsCalled   == stack # <<>> /\ Top.kind \in JsKinds
NativeActs == OfInstances(NativeStep)
JsFinishes == OfInstances(JsLeaves)

Next ==
  \/ ImportPackage \/ Reload
  \/ NewModule
  \/ \E i \in Id : NewInstance(i) \/ Instantiate(i)
  \/ NativeActs \/ JsFinishes \/ OfInstances(JsActs)

\* Weak fairness of the thread, which goes on with the native code it has begun,
\* and of the JS functions that were called, which return or throw.  Stated with
\* the state predicates that say when these actions are enabled.
Fairness ==
  /\ []<>(~NativeRuns) \/ []<><<NativeActs>>_vars
  /\ []<>(~JsCalled) \/ []<><<JsFinishes>>_vars

Spec == Init /\ [][Next]_vars /\ Fairness

-----------------------------------------------------------------------------
(* Properties.                                                             *)

\* Everything is a value of its kind, and a stack of activations ends in JS or
\* the native code that JS called.
TypeOK ==
  /\ \A i \in Id :
       /\ inst[i].status \in {"free", "building", "live", "failed", "gone"}
       /\ inst[i].promise \in {"none", "pending"}
       /\ inst[i].status = "building" <=>
            \E k \in 1 .. Len(stack) : stack[k].kind = "instantiate" /\ stack[k].id = i
       /\ inst[i].promise = "pending" => inst[i].status = "building"
  /\ \A k \in 1 .. Len(stack) : stack[k].kind \in JsKinds <=> stack[k].at = "js"
  /\ calls \in 0 .. MaxCalls

\* What a failed name section leaves behind, and nothing else is ever left.
Leaked == {<<"custom", 0>>}

\* Environment, runtime, module, every string and array of it: freed once, when
\* the instance fails at whatever step, is collected or goes with its runtime
\* (react-native-webassembly.cpp:64, :822-832; m3_module.c:22; m3_function.c:84).
FreedOnce ==
  /\ lost \subseteq Leaked
  /\ \A i \in Id :
       /\ ~inst[i].native.twice
       /\ inst[i].status \in {"failed", "gone"} => inst[i].native.heap \subseteq Leaked

\* An instance is parsed, compiled and exported from the same bytes, whatever JS
\* does to its buffer between, and they are the bytes its Module was validated
\* with when that was made from a view (react-native-webassembly.cpp:803).
OneImage ==
  \A i \in Id : inst[i].status = "live" =>
    /\ inst[i].parsed = inst[i].validated
    /\ inst[i].compiled = inst[i].parsed /\ inst[i].scanned = inst[i].parsed

\* While wasm may run, every import calls an entry that is alive and was made for
\* its own module and field, or for an import of this field from a module named *,
\* which wasm3 takes for any (m3_bind.c:133-150, react-native-webassembly.cpp:852).
ImportsLinked ==
  \A i \in Id : inst[i].compiled # NoImage /\ inst[i].status \in {"building", "live"} =>
    \A f \in 1 .. inst[i].native.m.imports :
      LET g == inst[i].native.m.functions[f]
      IN /\ g.stub \in 1 .. Len(inst[i].entries)
         /\ inst[i].entries[g.stub].module \in {"*", g.import.module}
         /\ inst[i].entries[g.stub].field = g.import.field

Items(s) == {s[k] : k \in 1 .. Len(s)}

\* What Module.exports lists and the instance r has something for.
Listed(r) ==
  {e \in Items(ItemsOf(Binary[r.bytes], 7)) :
     /\ e.kind # "other"
     /\ e.kind = "memory" => HasMemory(r.native)
     /\ e.kind = "table" => e.index = 0}

\* The exports object has what Module.exports lists, under all its names, but
\* for a memory of no pages and a table that is not the first, and nothing else
\* but a memory that is not exported (react-native-webassembly.cpp:609, :944).
ExportsListed ==
  \A i \in Id : inst[i].status = "live" =>
    /\ \A e \in Listed(inst[i]) : e.name \in DOMAIN inst[i].exports
    /\ \A n \in DOMAIN inst[i].exports :
         \/ \E e \in Listed(inst[i]) : /\ e.name = n /\ e.kind = inst[i].exports[n].kind
                                      /\ e.index = inst[i].exports[n].index
         \/ n = "memory" /\ \A e \in Listed(inst[i]) : e.kind # "memory"

Expected(stage, e) ==
  CASE stage \in {"parse", "load", "compile"} -> e.class = "CompileError"
    [] stage = "link"   -> e.class = "LinkError"
    [] stage = "start"  -> e.class = "RuntimeError"
    [] stage = "create" -> e.class = "Error"
    [] OTHER            -> TRUE

\* A failed instantiation is reported with the class of what failed, and an error
\* that comes up through other instantiations keeps the class it had, with no
\* tag left on it (core.ts:55, react-native-webassembly.cpp:181).
ErrorsKeepClass ==
  \A i \in Id : inst[i].status = "failed" =>
    /\ inst[i].error.class = inst[i].error.origin /\ inst[i].error.tag = "none"
    /\ Expected(inst[i].failed, inst[i].error)

\* Where the package was imported without an error the binding is there, after a
\* reload too (WebassemblyModule.java:11-14, index.tsx:21).
InstalledWhereImported == host.imported => host.bound

\* Every promise of an instance is settled, whatever JS runs inside of instantiate
\* and however deep instances are nested (core.ts:499).
PromisesSettle ==
  \A i \in Id : inst[i].promise = "pending" ~> inst[i].promise # "pending"
=============================================================================
