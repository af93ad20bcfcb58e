---------------------------- MODULE ModuleLoader ----------------------------
(***************************************************************************)
(* What happens to a parsed module on its way to an instance, as functions *)
(* on the parser's record: m3_LoadModule with its four initialisers,       *)
(* FindAndLinkFunction, m3_CompileModule, the scans of the bytes the       *)
(* binding makes for exports and the table, and the release of a runtime   *)
(* and its environment.  Each of these can fail half way.                  *)
(***************************************************************************)
EXTENDS ModuleParser, TLC

CONSTANTS
  MaxPages,   \* the pages a memory may have (d_m3MaxLinearMemoryPages)
  PageSize    \* bytes of a page (d_m3MemPageSize)

\* The items of the first section of a kind.
ItemsOf(image, id) ==
  LET at == {s \in 1 .. Len(image.sections) : image.sections[s].id = id}
  IN IF at = {} THEN <<>> ELSE image.sections[CHOOSE s \in at : \A t \in at : s <= t].items

-----------------------------------------------------------------------------
(* m3_LoadModule.                                                          *)

\* InitMemory and ResizeMemory: a module without a memory gets one of 0 pages.
InitMemory(p) ==
  LET limits == p.m.memory
      max    == IF limits.max = 0 THEN MaxPages ELSE limits.max
  IN IF p.m.memoryImported THEN p
     ELSE IF limits.min > max \/ limits.min > MaxPages THEN Fail(p, "memory overflow")
     ELSE [Alloc(p, {<<"memory", 0>>}) EXCEPT !.pages = limits.min]

\* EvaluateExpression compiles and runs one expression in a runtime of its own.
Evaluates(p, expression) ==
  \/ expression.op = "const"
  \/ expression.op = "global" /\ expression.value < Len(p.m.globals)

Evaluate(p, expression) ==
  IF expression.op = "const" THEN expression.value
  ELSE p.m.globals[expression.value + 1].value

\* An imported global keeps the 0 it was allocated with.
InitGlobals(p) ==
  LET Init(q, g) ==
        LET init == q.m.globals[g].init
        IN IF ~Ok(q) \/ init.op = "none" THEN q
           ELSE IF Evaluates(q, init) THEN [q EXCEPT !.m.globals[g].value = Evaluate(q, init)]
           ELSE Fail(q, "expression")
  IN FoldLeft(Init, p, [g \in 1 .. Len(p.m.globals) |-> g])

\* The memory has to be allocated, also when there is no segment.
InitDataSegments(p) ==
  LET Load(q, segment) ==
        LET offset == Evaluate(q, segment.offset)
        IN IF ~Ok(q) THEN q
           ELSE IF ~Evaluates(q, segment.offset) THEN Fail(q, "expression")
           ELSE IF offset < 0 \/ offset + segment.size > q.pages * PageSize THEN Fail(q, "data bounds")
           ELSE q
  IN IF <<"memory", 0>> \notin p.heap THEN Fail(p, "unallocated memory")
     ELSE FoldLeft(Load, p, p.m.data)

\* The table grows to hold the segment; what is beyond stays null (Unset).
PlaceElements(p, segment) ==
  LET offset == Evaluate(p, segment.offset)
      end    == offset + Len(segment.functions)
      sized  == IF end > Len(p.m.table0)
                THEN [Alloc(p, {<<"table0", 0>>}) EXCEPT !.m.table0 =
                        @ \o [n \in 1 .. end - Len(@) |-> Unset]]
                ELSE p
      Put(q, e) ==
        IF ~Ok(q) THEN q
        ELSE IF segment.functions[e] >= Len(q.m.functions) THEN Fail(q, "function index")
        ELSE [q EXCEPT !.m.table0[offset + e] = segment.functions[e]]
  IN IF segment.table # 0 THEN Fail(p, "table index")
     ELSE IF ~Evaluates(p, segment.offset) THEN Fail(p, "expression")
     ELSE IF offset < 0 THEN Fail(p, "table underflow")
     ELSE IF end > MaxTableSize THEN Fail(p, "table overflow")
     ELSE IF Len(sized.m.table0) = 0 THEN Fail(sized, "table")
     ELSE FoldLeft(Put, sized, [e \in 1 .. Len(segment.functions) |-> e])

InitElements(p) ==
  LET placed == FoldLeft(LAMBDA q, segment : IF Ok(q) THEN PlaceElements(q, segment) ELSE q,
                         p, p.m.elements.items)
  IN IF Ok(placed) /\ p.m.elements.cut THEN Fail(placed, "underrun") ELSE placed

\* The runtime has the module in its list only when everything went well.
LoadModule(p) ==
  LET Then(q, Initialise(_)) == IF Ok(q) THEN Initialise(q) ELSE q
      loaded == Then(Then(Then(Then(p, InitMemory), InitGlobals), InitDataSegments), InitElements)
  IN IF Ok(loaded) THEN [loaded EXCEPT !.m.linked = TRUE] ELSE loaded

-----------------------------------------------------------------------------
(* Linking.                                                                *)

\* Mutant: only the field's name is compared.
SameImportField(f, moduleName, fieldName) == f.import # NoImport /\ f.import.field = fieldName

SameImport(f, moduleName, fieldName) ==
  /\ f.import # NoImport
  /\ f.import.field = fieldName
  /\ moduleName \in {"*", f.import.module}

TypeOf(p, f) == p.m.types[f.type + 1]

\* A function type is linked by its signature, a string such as i(if); the
\* binding writes it only for at most one result.
Letters == [i32 |-> "i", i64 |-> "I", f32 |-> "f", f64 |-> "F"]
Spelled(types) == [k \in 1 .. Len(types) |-> Letters[types[k]]]

Signable(p, f) == Len(TypeOf(p, f).rets) <= 1

BuildSignature(type) ==
  (IF type.rets = <<>> THEN <<"v">> ELSE Spelled(type.rets)) \o <<"(">> \o Spelled(type.args) \o <<")">>

\* What is in front of the bracket are results, and v is nothing.
SignatureToFuncType(letters) ==
  LET bracket == SelectInSeq(letters, LAMBDA c : c = "(")
      Read(s) == LET known == SelectSeq(s, LAMBDA c : c \in Range(Letters))
                 IN [k \in 1 .. Len(known) |-> CHOOSE t \in NumericTypes : Letters[t] = known[k]]
  IN Signature(Read(SubSeq(letters, 1, bracket - 1)), Read(SubSeq(letters, bracket, Len(letters))))

\* The room is computed from the letters: as many as two brackets and one result
\* leave must not be more than a type may have.
ValidateSignature(p, f, letters) ==
  IF Len(letters) - 2 > MaxTypes THEN Fail(p, "too many arguments or results")
  ELSE IF SignatureToFuncType(letters) # TypeOf(p, f) THEN Fail(p, "signature mismatch")
  ELSE p

\* FindAndLinkFunction links every function of the name, and stops at the
\* first whose type is not the given one; CompileRawFunction emits the stub.
LinkFunction(p, moduleName, fieldName, letters, entry) ==
  LET Link(q, k) ==
        LET valid == ValidateSignature(q, q.m.functions[k], letters)
        IN IF ~Ok(q) \/ ~SameImport(q.m.functions[k], moduleName, fieldName) THEN q
           ELSE IF Ok(valid) THEN [q EXCEPT !.m.functions[k].stub = entry] ELSE valid
  IN FoldLeft(Link, p, [k \in 1 .. Len(p.m.functions) |-> k])

-----------------------------------------------------------------------------
(* Compilation.                                                            *)

\* CompileFunction reads the body from the bytes again.
CompileBody(p, f, image) ==
  LET body == ItemsOf(image, 10)[p.m.functions[f].body]
  IN IF ~body.compiles THEN Fail(p, "compile")
     ELSE [Take(p, {"constants"}) EXCEPT
             !.m.functions[f].compiled = body, !.m.functions[f].constants = <<"constants", p.serial>>]

\* m3_CompileModule: all functions with a body and no code yet, until one fails.
CompileModule(p, image) ==
  LET Compile(q, f) ==
        IF Ok(q) /\ q.m.functions[f].body # Unset /\ q.m.functions[f].compiled = NoBody
        THEN CompileBody(q, f, image) ELSE q
  IN FoldLeft(Compile, p, [f \in 1 .. Len(p.m.functions) |-> f])

\* m3_RunStart's checks before it runs the function.
StartFails(p) ==
  LET f == p.m.functions[p.m.start + 1]
  IN (f.compiled = NoBody /\ f.stub = Unset) \/ TypeOf(p, f) # Signature(<<>>, <<>>)

-----------------------------------------------------------------------------
(* The binding's own scans of the bytes.                                   *)

\* Mutant: what wasm3 keeps, MaxNames names for a function, is exported.
ScanExportsKept(image) ==
  LET all     == ItemsOf(image, 7)
      Earlier(k) == {j \in 1 .. k - 1 : all[j].kind = all[k].kind /\ all[j].index = all[k].index}
      kept    == {k \in 1 .. Len(all) : Cardinality(Earlier(k)) < MaxNames}
  IN [k \in 1 .. Cardinality(kept) |-> all[SetToSortSeq(kept, <)[k]]]

\* scanExportSection: every name, kind and index.
ScanExports(image) == ItemsOf(image, 7)

\* scanDeclaredTableSize: the minimum of the first table.
ScanDeclaredTableSize(image) ==
  LET tables == ItemsOf(image, 4) IN IF tables = <<>> THEN 0 ELSE tables[1]

\* m3_GetMemory gives nothing for a memory of no bytes.
HasMemory(p) == p.pages > 0

\* Whether instantiate finds what an export names.
Reachable(p, e) ==
  CASE e.kind = "function" -> e.index < Len(p.m.functions)
    [] e.kind = "memory"   -> HasMemory(p)
    [] e.kind = "global"   -> e.index < Len(p.m.globals)
    [] e.kind = "table"    -> e.index = 0
    [] OTHER               -> FALSE

\* setProperty, of something that is there.
SetProperty(p, o, e) ==
  IF Reachable(p, e)
  THEN [n \in DOMAIN o \cup {e.name} |-> IF n = e.name THEN [kind |-> e.kind, index |-> e.index] ELSE o[n]]
  ELSE o

\* The exports object as a function from names; the last of equal names wins.
\* A memory that is not exported is still reachable as `memory`.
ExportsObject(p, image) ==
  LET scanned  == ScanExports(image)
      named    == FoldLeft(LAMBDA o, e : SetProperty(p, o, e), << >>, scanned)
      exported == \E k \in 1 .. Len(scanned) : scanned[k].kind = "memory"
  IN IF HasMemory(p) /\ ~exported /\ "memory" \notin DOMAIN named
     THEN SetProperty(p, named, [name |-> "memory", kind |-> "memory", index |-> 0]) ELSE named

-----------------------------------------------------------------------------
(* The end of an instance.                                                 *)

\* m3_NewRuntime.
NewRuntime(p) == Alloc(p, {<<"runtime", 0>>, <<"stack", 0>>})

\* m3_FreeRuntime frees the modules of its list, its stack and its memory.
FreeRuntime(p) ==
  LET modules == IF p.m.linked THEN FreeModule(p) ELSE p
  IN Free(FreeArrays(modules, {"memory"}), {<<"stack", 0>>, <<"runtime", 0>>})

\* m3_FreeEnvironment frees the function types, also those of a failed section.
FreeEnvironment(p) ==
  [Free(p, {p.funcTypes[t].at : t \in 1 .. Len(p.funcTypes)} \cup {<<"environment", 0>>}) EXCEPT
     !.funcTypes = <<>>]

\* ~InstanceState.
DestroyState(p) ==
  FreeEnvironment(IF <<"runtime", 0>> \in p.heap THEN FreeRuntime(p) ELSE p)
=============================================================================
