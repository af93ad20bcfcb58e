----------------------------- MODULE MCCompiler -----------------------------
(* Instances of Compiler for TLC.                                          *)
EXTENDS Compiler

Ins(op, in, out, arg) == [op |-> op, in |-> in, out |-> out, arg |-> arg]
Fn(in, out, locals, code) == [in |-> in, out |-> out, locals |-> locals, code |-> code]

i32 == "i32"
i64 == "i64"
f32 == "f32"

\* Control: blocks, loops and ifs of 32-bit integers, and all the ways out of them.
MCReserved == {2}

ControlCode ==
  {Ins("local.get", <<>>, <<>>, <<1>>), Ins("local.set", <<>>, <<>>, <<1>>),
   Ins("operator", <<i32, i32>>, <<i32>>, <<>>), Ins("drop", <<i32>>, <<>>, <<>>),
   Ins("block", <<>>, <<i32>>, <<>>), Ins("loop", <<>>, <<>>, <<>>),
   Ins("if", <<>>, <<i32>>, <<>>), Ins("if", <<>>, <<>>, <<>>), Ins("else", <<>>, <<>>, <<>>),
   Ins("br", <<>>, <<>>, <<0>>), Ins("br_if", <<>>, <<>>, <<0>>), Ins("br_if", <<>>, <<>>, <<1>>),
   Ins("br_table", <<>>, <<>>, <<0, 1>>), Ins("return", <<>>, <<>>, <<>>),
   Ins("unreachable", <<>>, <<>>, <<>>)}

\* Data: both registers, calls, and every instruction that moves values between
\* registers and slots.
DataCode ==
  {Ins("const", <<>>, <<f32>>, <<1>>), Ins("local.get", <<>>, <<>>, <<1>>),
   Ins("global.get", <<>>, <<i32>>, <<>>), Ins("global.set", <<f32>>, <<>>, <<>>),
   Ins("operator", <<i32, i32>>, <<i32>>, <<>>), Ins("operator", <<i32>>, <<i32>>, <<>>),
   Ins("operator", <<f32, f32>>, <<f32>>, <<>>), Ins("operator", <<f32, f32>>, <<i32>>, <<>>),
   Ins("load", <<i32>>, <<f32>>, <<>>), Ins("store", <<i32, f32>>, <<>>, <<>>),
   Ins("convert", <<f32>>, <<i32>>, <<>>), Ins("convert", <<i32>>, <<f32>>, <<>>),
   Ins("select", <<i32, i32, i32>>, <<i32>>, <<>>), Ins("select", <<f32, f32, i32>>, <<f32>>, <<>>),
   Ins("memory.size", <<>>, <<i32>>, <<>>), Ins("memory.grow", <<i32>>, <<i32>>, <<>>),
   Ins("memory.copy", <<i32, i32, i32>>, <<>>, <<>>),
   Ins("call", <<i32, f32>>, <<f32>>, <<>>), Ins("call_indirect", <<f32>>, <<i32>>, <<>>)}

\* Locals: values that are in several places, and locals set while referenced.
LocalsCode ==
  {Ins("const", <<>>, <<f32>>, <<1>>), Ins("global.get", <<>>, <<f32>>, <<>>),
   Ins("local.get", <<>>, <<>>, <<1>>), Ins("local.get", <<>>, <<>>, <<2>>),
   Ins("local.set", <<>>, <<>>, <<1>>), Ins("local.tee", <<>>, <<>>, <<2>>),
   Ins("operator", <<f32, f32>>, <<f32>>, <<>>), Ins("drop", <<f32>>, <<>>, <<>>),
   Ins("call", <<f32>>, <<f32>>, <<>>)}

\* Results: two of a block and of the function, which move to their places together.
ResultsCode ==
  {Ins("local.get", <<>>, <<>>, <<1>>), Ins("local.set", <<>>, <<>>, <<1>>),
   Ins("global.get", <<>>, <<i32>>, <<>>), Ins("operator", <<i32, i32>>, <<i32>>, <<>>),
   Ins("drop", <<i32>>, <<>>, <<>>), Ins("block", <<>>, <<i32, i32>>, <<>>),
   Ins("br", <<>>, <<>>, <<0>>), Ins("br_if", <<>>, <<>>, <<0>>)}

\* References to a 64-bit local.
WideCode ==
  {Ins("const", <<>>, <<i64>>, <<1>>), Ins("global.get", <<>>, <<i32>>, <<>>),
   Ins("local.get", <<>>, <<>>, <<1>>), Ins("local.set", <<>>, <<>>, <<1>>),
   Ins("drop", <<i64>>, <<>>, <<>>)}

\* Branches out of blocks with a floating-point result.
FloatCode ==
  {Ins("local.get", <<>>, <<>>, <<1>>), Ins("global.get", <<>>, <<i32>>, <<>>),
   Ins("operator", <<f32>>, <<f32>>, <<>>), Ins("drop", <<f32>>, <<>>, <<>>),
   Ins("block", <<>>, <<f32>>, <<>>), Ins("br_if", <<>>, <<>>, <<0>>)}
MCFunctions    == {Fn(<<i32>>, <<i32>>, <<>>, "control"),
                   Fn(<<>>, <<i32>>, <<f32>>, "data"),
                   Fn(<<f32>>, <<f32>>, <<f32>>, "locals"),
                   Fn(<<i32>>, <<i32, i32>>, <<>>, "results")}
WideFunctions  == {Fn(<<i64>>, <<>>, <<>>, "wide")}
FloatFunctions == {Fn(<<f32>>, <<f32>>, <<>>, "float")}

MCCode == [control |-> ControlCode, data |-> DataCode, locals |-> LocalsCode,
           results |-> ResultsCode, wide |-> WideCode, float |-> FloatCode]
MCHeight == [control |-> 2, data |-> 3, locals |-> 2, results |-> 3, wide |-> 3, float |-> 4]
MCDepth  == [control |-> 2, data |-> 0, locals |-> 0, results |-> 1, wide |-> 0, float |-> 1]
=============================================================================
