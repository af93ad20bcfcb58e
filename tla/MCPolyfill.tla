----------------------------- MODULE MCPolyfill -----------------------------
(* Binaries and instances of Polyfill for TLC.                             *)
EXTENDS Polyfill

CONSTANTS log, nothing

MCFunctions == {log}

\* A section that can be read, and the ways to spoil it.
Section(id, items) == [id |-> id, items |-> items, fits |-> TRUE, cut |-> FALSE]
Custom(name, items) == [name |-> name] @@ Section(0, items)
Cut(section)   == [section EXCEPT !.cut = TRUE]
Unfit(section) == [section EXCEPT !.fits = FALSE]

Import(kind, module, field, type) == [kind |-> kind, module |-> module, field |-> field, type |-> type]
Export(kind, index, name) == [kind |-> kind, index |-> index, name |-> name]
Const(n)     == [op |-> "const", value |-> n]
GlobalGet(g) == [op |-> "global", value |-> g]
Bad          == [op |-> "bad", value |-> 0]
Global(mutable, init) == [mutable |-> mutable, init |-> init]
Body(does)   == [present |-> TRUE, compiles |-> TRUE, does |-> does]
Broken       == [Body(<<>>) EXCEPT !.compiles = FALSE]
Empty        == [Body(<<>>) EXCEPT !.present = FALSE]
Element(offset, functions) == [table |-> 0, offset |-> offset, functions |-> functions]
Data(offset, size)         == [offset |-> offset, size |-> size]

\* Type 0 is that of a start function, type 2 has two results.
Types == Section(1, <<Signature(<<>>, <<>>), Signature(<<"i32">>, <<"i32">>),
                      Signature(<<"i32", "i64">>, <<>>), Signature(<<>>, <<>>),
                      Signature(<<>>, [a \in 1 .. MaxTypes |-> "f64"])>>)

ImportAF == Import("function", "a", "f", 0)
ImportBF == Import("function", "b", "f", 0)

\* Something of everything: functions 0 and 1 are imports, 2 is the start function.
Full == <<
  Types,
  Section(2, <<ImportAF, ImportBF>>),
  Section(3, <<0, 1, 1>>),
  Section(4, <<3>>),
  Section(5, <<[min |-> 1, max |-> 2]>>),
  Section(6, <<Global(TRUE, Const(1)), Global(FALSE, GlobalGet(0))>>),
  Section(7, <<Export("function", 3, "run"), Export("memory", 0, "mem"), Export("table", 0, "tab"),
               Export("global", 0, "g"), Export("global", 0, "h"), Export("function", 0, "imported")>>),
  Section(8, <<2>>),
  Section(9, <<Element(Const(1), <<4>>)>>),
  Section(12, <<>>),
  Section(10, <<Body(<<0>>), Body(<<1, -1>>), Body(<<>>)>>),
  Section(11, <<Data(Const(0), 2), Data(Const(1), 3)>>),
  Custom("name", <<0, 2, 9>>)>>

\* One function, which traps, under every name there is, and no memory.
Named == <<
  Types, Section(3, <<0>>),
  Section(7, [k \in 1 .. MaxNames + 1 |-> Export("function", 0, (<<"p", "q", "r", "s">>)[k])]),
  Section(10, <<Body(<<-1>>)>>)>>

\* Named with imports, or with a section more at its end.
NamedImporting(import) == <<Types, Section(2, <<import>>)>> \o Tail(Named)
NamedAnd(section)  == Append(Named, section)

Replaced(sections, section) ==
  [k \in 1 .. Len(sections) |-> IF sections[k].id = section.id THEN section ELSE sections[k]]

\* Full with other imports.
FullImporting(imports) == Replaced(Full, Section(2, imports))

\* Full with one import and a function of its own as function 1.
Single == Replaced(Replaced(FullImporting(<<ImportAF>>), Section(3, <<0, 0, 1, 1>>)),
                   Section(10, <<Body(<<>>), Body(<<0>>), Body(<<0, -1>>), Body(<<>>)>>))

\* Single with a section in place of its own, or without it.
With(section) == Replaced(Single, section)
Without(id)   == SelectSeq(Single, LAMBDA section : section.id # id)

Variants == <<
  FullImporting(<<ImportAF, ImportAF>>),
  FullImporting(<<ImportAF, Import("function", "a", "f", 1)>>),
  FullImporting(<<ImportAF, Import("function", "b", "f", 2)>>),
  FullImporting(<<ImportAF, Import("function", "b", "f", 4)>>),
  FullImporting(<<ImportAF, Import("function", "b", "f", 9)>>),
  FullImporting(<<ImportAF, Import("function", "*", "f", 0)>>),
  FullImporting(<<Import("memory", "a", "m", 1), ImportAF, ImportBF>>),
  FullImporting(<<Import("table", "a", "t", 0), ImportAF, ImportBF>>),
  FullImporting(<<ImportAF, ImportBF, Import("other", "a", "x", 0)>>),
  With(Section(1, <<Signature(<<>>, <<>>), Signature(<<"v128">>, <<>>)>>)),
  With(Section(1, <<Signature(<<>>, <<>>), Signature(<<>>, <<"v128">>)>>)),
  With(Section(1, <<Signature(<<"i64">>, [a \in 1 .. MaxTypes |-> "f64"])>>)),
  With(Section(3, <<0, 0, 1, 9>>)),
  With(Section(5, <<>>)),
  With(Cut(Section(5, <<>>))),
  With(Section(5, <<[min |-> 3, max |-> 2]>>)),
  With(Section(6, <<Global(TRUE, Bad)>>)),
  With(Section(6, <<Global(TRUE, [op |-> "none", value |-> 0])>>)),
  With(Section(7, <<Export("function", 9, "run")>>)),
  With(Section(7, <<Export("global", 9, "g")>>)),
  With(Section(8, <<9>>)),
  With(Section(8, <<3>>)),
  With(Section(9, <<Element(Const(MaxTableSize), <<2>>)>>)),
  With(Section(9, <<Element(Const(0), <<>>)>>)),
  With(Section(9, <<Element(Const(-1), <<2>>)>>)),
  With(Section(9, <<Element(Const(0), <<2, 9>>)>>)),
  With(Section(9, <<Element(GlobalGet(7), <<2>>)>>)),
  With(Section(9, <<[Element(Const(0), <<2>>) EXCEPT !.table = 1]>>)),
  With(Section(10, <<Body(<<>>), Body(<<0>>), Broken, Body(<<>>)>>)),
  With(Section(10, <<Body(<<>>), Body(<<-1>>), Body(<<>>), Body(<<>>)>>)),
  With(Section(10, <<Body(<<>>), Empty, Body(<<>>), Body(<<>>)>>)),
  With(Section(10, <<Body(<<>>)>>)),
  With(Cut(Section(10, <<Body(<<>>), Body(<<>>), Body(<<>>)>>))),
  With(Section(11, <<Data(Const(MaxPages * PageSize), 1)>>)),
  With(Section(11, <<Data(Bad, 1)>>)),
  With(Section(11, <<Data([op |-> "none", value |-> 0], 1)>>)),
  NamedImporting(Import("function", "b", "f", 1)),
  NamedImporting(Import("global", "a", "g", 0)),
  NamedImporting(Import("table", "a", "t", 0)),
  NamedAnd(Custom("producers", <<>>)), NamedAnd(Section(12, <<>>)),
  <<Types, Section(3, <<0>>), Cut(Section(4, <<3>>)), Named[4]>>,
  <<Types, Section(3, <<0, 0>>),
    Section(7, <<Export("function", 0, "run"), Export("function", 1, "run"), Export("other", 0, "x"),
                 Export("table", 1, "t")>>),
    Section(10, <<Body(<<>>), Body(<<-1>>)>>)>>,
  <<Types, Section(2, <<ImportAF>>), Section(7, <<Export("function", 0, "run")>>), Section(8, <<0>>)>>,
  Without(5),
  <<Full[2], Full[1]>>, <<Full[1], Full[1]>>, <<>>>>

Image(sections) == [header |-> TRUE, sections |-> sections]

\* What is cut in a section wasm3 skips makes no difference.
Well       == {<<"full", 0>>, <<"named", 0>>}
Varied     == {<<"variant", k>> : k \in 1 .. Len(Variants)}
CutShort   == {<<"cut", k>> : k \in {s \in 1 .. Len(Full) : Full[s].id \notin {4, 12}}}
TooLong    == {<<"unfit", k>> : k \in 1 .. Len(Full)}
NotWasm    == {<<"text", 0>>}
Names      == Well \cup Varied \cup CutShort \cup TooLong \cup NotWasm
MCRewrites == {<<"named", 0>>}

\* iOS differs in the installation only.
MCStarts ==
  [content : Names, platform : {"android"}] \cup [content : {<<"named", 0>>}, platform : {"ios"}]

MCBinary ==
  [n \in Names |->
     CASE n[1] = "full"    -> Image(Full)
       [] n[1] = "named"   -> Image(Named)
       [] n[1] = "variant" -> Image(Variants[n[2]])
       [] n[1] = "cut"     -> Image(Replaced(Full, Cut(Full[n[2]])))
       [] n[1] = "unfit"   -> Image(Replaced(Full, Unfit(Full[n[2]])))
       [] OTHER            -> [Image(<<>>) EXCEPT !.header = FALSE]]
=============================================================================
