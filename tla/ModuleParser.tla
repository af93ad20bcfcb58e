---------------------------- MODULE ModuleParser ----------------------------
(***************************************************************************)
(* m3_ParseModule and m3_FreeModule as functions on an image of a wasm     *)
(* binary.  An image says whether magic and version are right and lists    *)
(* the sections; a section has the items that can be read and says whether *)
(* its length stays within the bytes (fits) and whether the bytes end in   *)
(* the item after those (cut: the first string of that item is still       *)
(* there).  How numbers are spelled is module Numerics'.                   *)
(*                                                                         *)
(* What is computed is, beside the module, the heap: every allocation that *)
(* is not yet freed, and whether one was freed twice.  A block that there  *)
(* can be several of has a number of its own (serial).  Calls to malloc    *)
(* succeed here.  Function and type indices count from 0, as in the code.  *)
(***************************************************************************)
EXTENDS Integers, SequencesExt

CONSTANTS
  MaxNames,      \* d_m3MaxDuplicateFunctionImpl
  MaxTypes,      \* d_m3MaxSaneFunctionArgRetCount
  MaxTableSize   \* d_m3MaxSaneTableSize

Unset    == -1
NoImport == [module |-> "", field |-> "", at |-> Unset]
NoString == <<"null", 0>>

\* A function body: whether it has bytes, whether it compiles, what it does.
NoBody == [present |-> FALSE, compiles |-> FALSE, does |-> <<>>]

\* M3Function: `body` is the place of its code in the section (wasm), `stub` the
\* import entry linked to it, `compiled` the code it was compiled from.
EmptyFunction ==
  [type |-> Unset, import |-> NoImport, names |-> <<>>, body |-> Unset,
   stub |-> Unset, compiled |-> NoBody, constants |-> NoString]

EmptyModule ==
  [types |-> <<>>, functions |-> <<>>, imports |-> 0, globals |-> <<>>,
   memory |-> [min |-> 0, max |-> 0], memoryImported |-> FALSE, start |-> Unset,
   elements |-> [items |-> <<>>, cut |-> FALSE], data |-> <<>>, table0 |-> <<>>, linked |-> FALSE]

NumericTypes == {"i32", "i64", "f32", "f64"}
Signature(rets, args) == [rets |-> rets, args |-> args]

-----------------------------------------------------------------------------
(* A parser: the module, the environment's function types, the heap.       *)

Ok(p)      == p.error = "none"
Fail(p, e) == [p EXCEPT !.error = e]

Alloc(p, xs) == [p EXCEPT !.heap = @ \cup xs]

\* New blocks, all with the next number, p.serial.
Take(p, tags) == [p EXCEPT !.heap = @ \cup {<<t, p.serial>> : t \in tags}, !.serial = @ + 1]

\* m3_Free of pointers that may be null.
Free(p, xs) ==
  LET pointers == xs \ {NoString}
  IN [p EXCEPT !.heap = @ \ pointers, !.twice = @ \/ ~(pointers \subseteq p.heap)]

\* A string that is read, and freed when it has been looked at.
ReadString(p, tag) == Free(Take(p, {tag}), {<<tag, p.serial>>})

\* m3_Free of the arrays of a module, null where none was allocated.
FreeArrays(p, names) == [p EXCEPT !.heap = @ \ {<<n, 0>> : n \in names}]

ImportStrings(at) == IF at = Unset THEN {} ELSE {<<"module", at>>, <<"field", at>>}

\* What the section's count says.
Count(section) == Len(section.items) + (IF section.cut THEN 1 ELSE 0)

\* Reads items one by one until one fails, and then the cut one.
ReadItems(Item(_, _, _), Cut(_), p, section) ==
  LET Step(q, k) == IF Ok(q) THEN Item(q, k, section.items[k]) ELSE q
      read       == FoldLeft(Step, p, [k \in 1 .. Len(section.items) |-> k])
  IN IF section.cut /\ Ok(read) THEN Fail(Cut(read), "underrun") ELSE read

-----------------------------------------------------------------------------
(* The environment's function types.                                       *)

\* m3_NewEnvironment: one type for every simple block result.
RetTypes == <<Signature(<<>>, <<>>)>> \o
            [t \in 1 .. 4 |-> Signature(<<(<<"i32", "i64", "f32", "f64">>)[t]>>, <<>>)]

NewEnvironment ==
  [m |-> EmptyModule, error |-> "none", twice |-> FALSE, expected |-> 1, pages |-> 0, serial |-> 1,
   funcTypes |-> [t \in 1 .. 5 |-> [type |-> RetTypes[t], at |-> <<"rettype", t>>]],
   heap |-> {<<"environment", 0>>} \cup {<<"rettype", t>> : t \in 1 .. 5}]

\* Environment_AddFuncType: an equal type is used and the new one freed.
AddFuncType(p, type, at) ==
  IF \E t \in 1 .. Len(p.funcTypes) : p.funcTypes[t].type = type
  THEN Free(p, {at})
  ELSE [p EXCEPT !.funcTypes = <<[type |-> type, at |-> at]>> \o @]

ParseType(p, item) ==
  LET at        == <<"type", p.serial>>
      allocated == Take(p, {"type"})
  IN IF \E a \in 1 .. Len(item.args) : item.args[a] \notin NumericTypes
     THEN Fail(p, "type")
     ELSE IF Len(item.args) + Len(item.rets) > MaxTypes
     THEN Fail(p, "too many arguments or results")
     ELSE IF \E r \in 1 .. Len(item.rets) : item.rets[r] \notin NumericTypes
     THEN Fail(Free(allocated, {at}), "type")
     ELSE [AddFuncType(allocated, item, at) EXCEPT !.m.types = Append(@, item)]

ParseSection_Type(p, section) ==
  LET read == ReadItems(LAMBDA q, k, item : ParseType(q, item), LAMBDA q : q, Alloc(p, {<<"funcTypes", 0>>}), section)
  IN IF Ok(read) THEN read ELSE [FreeArrays(read, {"funcTypes"}) EXCEPT !.m.types = <<>>]

-----------------------------------------------------------------------------
(* Functions and imports.                                                  *)

\* Module_AddFunction: the function is counted before its type is checked.
AddFunction(p, type, import) ==
  LET counted == [Alloc(p, {<<"functions", 0>>}) EXCEPT !.m.functions = Append(@, EmptyFunction)]
      added   == [EmptyFunction EXCEPT !.type = type, !.import = import,
                    !.names = IF import = NoImport THEN <<>> ELSE <<(<<"field", import.at>>)>>]
  IN IF type >= Len(p.m.types) THEN Fail(counted, "type index")
     ELSE [counted EXCEPT !.m.functions = Append(p.m.functions, added)]

ParseSection_Function(p, section) ==
  ReadItems(LAMBDA q, k, item : AddFunction(q, item, NoImport), LAMBDA q : q, p, section)

\* Module_AddGlobal.
AddGlobal(p, import, mutable, init) ==
  [Alloc(p, {<<"globals", 0>>}) EXCEPT !.m.globals =
     Append(@, [import |-> import, name |-> NoString, mutable |-> mutable, init |-> init, value |-> 0])]

NoExpression == [op |-> "none", value |-> 0]

\* One import: its two strings go to the function or global, or are freed.
\* The description of a table is not read, so the next import is misread.
ParseImport(p, item, last) ==
  LET strings == ImportStrings(p.serial)
      held    == Take(p, {"module", "field"})
      import  == [module |-> item.module, field |-> item.field, at |-> p.serial]
      added   == AddFunction(held, item.type, import)
  IN CASE item.kind = "function" ->
            IF Ok(added) THEN [added EXCEPT !.m.imports = @ + 1] ELSE Free(added, strings)
       [] item.kind = "global" -> AddGlobal(held, import, FALSE, NoExpression)
       [] item.kind = "memory" -> [Free(held, strings) EXCEPT
            !.m.memory = [min |-> item.type, max |-> 0], !.m.memoryImported = TRUE]
       [] item.kind = "table" -> IF last THEN Free(held, strings)
                                 ELSE Fail(Free(held, strings), "underrun")
       [] OTHER -> Fail(Free(held, strings), "malformed")

ParseSection_Import(p, section) ==
  ReadItems(LAMBDA q, k, item : ParseImport(q, item, k = Len(section.items) /\ ~section.cut),
            LAMBDA q : ReadString(q, "module"), p, section)

-----------------------------------------------------------------------------
(* Exports and the start function.                                         *)

ExportFunction(p, f, name) ==
  IF Len(p.m.functions[f].names) < MaxNames
  THEN [p EXCEPT !.m.functions[f].names = Append(@, name)]
  ELSE Free(p, {name})

\* A global keeps the last of its names.
ExportGlobal(p, g, name) ==
  [Free(p, {p.m.globals[g].name}) EXCEPT !.m.globals[g].name = name]

ParseExport(p, item) ==
  LET name == <<"export", p.serial>>
      held == Take(p, {"export"})
  IN CASE item.kind = "function" /\ item.index < Len(p.m.functions) ->
            ExportFunction(held, item.index + 1, name)
       [] item.kind = "global" /\ item.index < Len(p.m.globals) ->
            ExportGlobal(held, item.index + 1, name)
       [] item.kind \in {"table", "memory", "other"} -> Free(held, {name})
       [] OTHER -> Fail(Free(held, {name}), "export index")

ParseSection_Export(p, section) ==
  ReadItems(LAMBDA q, k, item : ParseExport(q, item), LAMBDA q : ReadString(q, "export"), p, section)

ParseSection_Start(p, section) ==
  ReadItems(LAMBDA q, k, item : IF item < Len(q.m.functions) THEN [q EXCEPT !.m.start = item]
                                ELSE Fail(q, "start index"),
            LAMBDA q : q, p, section)

-----------------------------------------------------------------------------
(* Memory, globals, elements, code and data.                               *)

\* One memory; an error while its limits are read is not looked at.
ParseSection_Memory(p, section) ==
  IF Count(section) # 1 THEN Fail(p, "memories")
  ELSE IF section.cut THEN p ELSE [p EXCEPT !.m.memory = section.items[1]]

\* Parse_InitExpr finds the end of an expression by compiling it for no runtime; a
\* global has to be declared, the one that is being read among them.
EndsExpression(m, init) ==
  init.op # "none" /\ (init.op = "global" => init.value < Len(m.globals))

ParseSection_Global(p, section) ==
  ReadItems(LAMBDA q, k, item : LET added == AddGlobal(q, NoImport, item.mutable, item.init)
                                IN IF EndsExpression(added.m, item.init) THEN added ELSE Fail(added, "init"),
            LAMBDA q : AddGlobal(q, NoImport, FALSE, NoExpression), p, section)

\* Only counted; InitElements reads the segments.
ParseSection_Element(p, section) ==
  [p EXCEPT !.m.elements = [items |-> section.items, cut |-> section.cut]]

\* Bodies are given to the functions that are not imports.
ParseSection_Code(p, section) ==
  LET m == p.m
      Body(f) == IF f <= m.imports \/ ~section.items[f - m.imports].present THEN Unset
                 ELSE f - m.imports
  IN IF Count(section) # Len(m.functions) - m.imports THEN Fail(p, "function count")
     ELSE IF section.cut THEN Fail(p, "overrun")
     ELSE [p EXCEPT !.m.functions =
             [f \in 1 .. Len(m.functions) |-> [m.functions[f] EXCEPT !.body = Body(f)]]]

ParseSection_Data(p, section) ==
  ReadItems(LAMBDA q, k, item : IF EndsExpression(q.m, item.offset)
                                THEN [q EXCEPT !.m.data = Append(@, item)]
                                ELSE Fail(q, "init"),
            LAMBDA q : q, Alloc(p, {<<"dataSegments", 0>>}), section)

-----------------------------------------------------------------------------
(* Custom sections.                                                        *)

\* A function without a name takes the one of the name section.
ParseName(p, index) ==
  IF index < Len(p.m.functions) /\ p.m.functions[index + 1].names = <<>>
  THEN [Take(p, {"name"}) EXCEPT !.m.functions[index + 1].names = <<(<<"name", p.serial>>)>>]
  ELSE ReadString(p, "name")

\* The section's own name is freed, unless the function names cannot be read.
ParseSection_Custom(p, section) ==
  LET held  == Alloc(p, {<<"custom", 0>>})
      named == ReadItems(LAMBDA q, k, index : ParseName(q, index), LAMBDA q : q, held, section)
  IN IF section.name # "name" THEN Free(held, {<<"custom", 0>>})
     ELSE IF Ok(named) THEN Free(named, {<<"custom", 0>>}) ELSE named

-----------------------------------------------------------------------------
(* m3_FreeModule.                                                          *)

\* Mutant: the name an import lends to its function is freed as a name too.
ReleaseFunctionAlias(p, f) ==
  Free(Free(p, {f.constants} \cup {f.names[n] : n \in 1 .. Len(f.names)}),
       ImportStrings(f.import.at))

\* Function_Release: a name may be the import's field.
ReleaseFunction(p, f) ==
  LET names == {f.names[n] : n \in 1 .. Len(f.names)}
  IN Free(Free(p, {f.constants} \cup (names \ {<<"field", f.import.at>>})),
          ImportStrings(f.import.at))

FreeModule(p) ==
  LET functions == FoldLeft(ReleaseFunction, p, p.m.functions)
      arrays    == FreeArrays(functions, {"functions", "funcTypes", "dataSegments", "table0"})
      globals   == FoldLeft(LAMBDA q, g : Free(q, {g.name} \cup ImportStrings(g.import.at)),
                            arrays, p.m.globals)
  IN [Free(FreeArrays(globals, {"globals"}), {<<"M3Module", 0>>}) EXCEPT !.m = EmptyModule]

-----------------------------------------------------------------------------
(* m3_ParseModule.                                                         *)

SectionsOrder == <<1, 2, 3, 4, 5, 6, 7, 8, 9, 12, 10, 11>>

ParseModuleSection(p, section) ==
  CASE section.id = 0  -> ParseSection_Custom(p, section)
    [] section.id = 1  -> ParseSection_Type(p, section)
    [] section.id = 2  -> ParseSection_Import(p, section)
    [] section.id = 3  -> ParseSection_Function(p, section)
    [] section.id = 5  -> ParseSection_Memory(p, section)
    [] section.id = 6  -> ParseSection_Global(p, section)
    [] section.id = 7  -> ParseSection_Export(p, section)
    [] section.id = 8  -> ParseSection_Start(p, section)
    [] section.id = 9  -> ParseSection_Element(p, section)
    [] section.id = 10 -> ParseSection_Code(p, section)
    [] section.id = 11 -> ParseSection_Data(p, section)
    [] OTHER           -> p

\* Sections appear once and in order; `expected` is where the search goes on.
Place(expected, id) == {s \in expected .. Len(SectionsOrder) : SectionsOrder[s] = id}

ParseNext(p, section) ==
  LET place == Place(p.expected, section.id)
      moved == IF section.id = 0 THEN p
               ELSE [p EXCEPT !.expected = (CHOOSE s \in place : TRUE) + 1]
  IN IF ~Ok(p) THEN p
     ELSE IF section.id # 0 /\ place = {} THEN Fail(p, "misordered")
     ELSE IF ~section.fits THEN Fail(moved, "malformed")
     ELSE ParseModuleSection(moved, section)

\* Everything is freed when a section fails.
ParseModule(p, image) ==
  LET begun == Alloc(p, {<<"M3Module", 0>>})
      read  == IF ~image.header THEN Fail(begun, "malformed")
               ELSE FoldLeft(ParseNext, begun, image.sections)
  IN IF Ok(read) THEN read ELSE FreeModule(read)
=============================================================================
