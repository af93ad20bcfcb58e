------------------------------ MODULE CodePages ------------------------------
(***************************************************************************)
(* The pages the compiler writes M3 code on: how they are acquired,        *)
(* bridged and released (m3_env.c, m3_code.c), by compiled functions,      *)
(* init expressions and import stubs (m3_compile.c), from m3_LoadModule to *)
(* the end of the instance and its environment.                            *)
(*                                                                         *)
(* A fragment is a run of code with an entry of its own: a function, an    *)
(* expression, an import stub, an else block, the landing code of a        *)
(* br_table target.  A line of a page remembers whose code it is, and      *)
(* where a jump goes.                                                      *)
(***************************************************************************)
EXTENDS Integers, SequencesExt

CONSTANTS
  Nowhere,        \* no jump
  Threshold,      \* d_m3CodePageFreeLinesThreshold (4+2)
  MaxImmediates,  \* most lines an operation has besides its own (4)
  SelectSlots,    \* most slots Compile_Select writes behind its operation (3)
  U32,            \* the values of a u32 (2^32)
  PageLines,      \* lines of the smallest page (d_m3CodePageAlignSize, less a header)
  AlignLines,     \* lines d_m3CodePageAlignSize bytes hold
  MaxTargets,     \* largest br_table
  MaxPages,       \* bound: pages allocated, then malloc fails
  MaxFragments,   \* bound: fragments of a behaviour
  MaxNesting      \* bound: fragments open at once

ASSUME LineAssumption ==
  /\ {Threshold, MaxImmediates, SelectSlots, U32, PageLines, AlignLines, MaxTargets,
      MaxPages, MaxFragments, MaxNesting} \subseteq Nat
  /\ 2 <= MaxImmediates /\ MaxImmediates + 2 <= Threshold   \* br_table has 2
  /\ SelectSlots <= MaxImmediates
  /\ 0 < AlignLines

VARIABLES
  phase,      \* how far instantiate got
  pool,       \* the pages and their lists
  contexts,   \* the fragments being compiled, innermost last
  start,      \* where each fragment begins
  fragments   \* fragments so far

vars == <<phase, pool, contexts, start, fragments>>

Page     == 1 .. MaxPages
NoPage   == 0                     \* NULL
Fragment == 1 .. MaxFragments
Runtime  == {"main", "temp"}      \* "temp": EvaluateExpression's, on the C stack

NewPool == [open   |-> [rt \in Runtime |-> <<>>], full  |-> [rt \in Runtime |-> <<>>],
            active |-> [rt \in Runtime |-> 0],    total |-> [rt \in Runtime |-> 0],
            allocated |-> {}, released |-> <<>>,
            lines |-> [p \in Page |-> 0], code |-> [p \in Page |-> <<>>],
            torn |-> FALSE]       \* an operation is missing in front of its slots

-----------------------------------------------------------------------------
(* Lines.                                                                  *)

Operation(f)     == [of |-> f, to |-> Nowhere, ends |-> FALSE]
Pointer(f, l)    == [of |-> f, to |-> l, ends |-> FALSE]
Final(line)       == [line EXCEPT !.ends = TRUE]    \* control never passes it
Location(s, p, f) == [page |-> p, line |-> Len(s.code[p]), of |-> f]

Immediates(f, n) == [i \in 1 .. n |-> Operation(f)]

\* NumFreeLines, a u32.
FreeLines(s, p) ==
  IF Len(s.code[p]) <= s.lines[p] THEN s.lines[p] - Len(s.code[p])
                                  ELSE U32 - (Len(s.code[p]) - s.lines[p])

Emit(s, p, lines) == [s EXCEPT !.code[p] = @ \o lines]

-----------------------------------------------------------------------------
(* Acquiring and releasing.  s is the pool; lists are linked, front first. *)

NewPageLines(n) ==
  PageLines + AlignLines * (((IF n > PageLines THEN n - PageLines ELSE 0) + AlignLines - 1)
                              \div AlignLines)

\* The first page of a list with that many free lines; 0 for none.
FirstFit(s, list, n) == SelectInSeq(list, LAMBDA p : FreeLines(s, p) >= n)

\* Mutant: a page taken from the middle or front of its list stays linked.
UnlinkKept(list, i) == list

Unlink(list, i) == RemoveAt(list, i)

\* Mutant: pages that come from the environment are not counted.
AcquireUncounted(s, rt, n) ==
  LET inOpen     == FirstFit(s, s.open[rt], n)
      inReleased == FirstFit(s, s.released, n)
      fresh      == Cardinality(s.allocated) + 1
  IN  IF inOpen # 0
        THEN {[page |-> s.open[rt][inOpen],
               pool |-> [s EXCEPT !.open[rt] = Unlink(@, inOpen), !.active[rt] = @ + 1]]}
      ELSE IF inReleased # 0
        THEN {[page |-> s.released[inReleased],
               pool |-> [s EXCEPT !.released = Unlink(@, inReleased), !.active[rt] = @ + 1]]}
      ELSE {[page |-> NoPage, pool |-> s]} \cup
           {[page |-> p,
             pool |-> [s EXCEPT !.allocated = @ \cup {p}, !.lines[p] = NewPageLines(n),
                                !.total[rt] = @ + 1, !.active[rt] = @ + 1]] : p \in Page \cap {fresh}}

\* AcquireCodePageWithCapacity: an open page of the runtime, one the
\* environment got back, or a new one, if malloc has it.
Acquire(s, rt, n) ==
  LET inOpen     == FirstFit(s, s.open[rt], n)
      inReleased == FirstFit(s, s.released, n)
      fresh      == Cardinality(s.allocated) + 1
      added      == [s EXCEPT !.total[rt] = @ + 1, !.active[rt] = @ + 1]
  IN  IF inOpen # 0
        THEN {[page |-> s.open[rt][inOpen],
               pool |-> [s EXCEPT !.open[rt] = Unlink(@, inOpen), !.active[rt] = @ + 1]]}
      ELSE IF inReleased # 0
        THEN {[page |-> s.released[inReleased],
               pool |-> [added EXCEPT !.released = Unlink(@, inReleased)]]}
      ELSE {[page |-> NoPage, pool |-> s]} \cup
           {[page |-> p,
             pool |-> [added EXCEPT !.allocated = @ \cup {p}, !.lines[p] = NewPageLines(n)]]
              : p \in Page \cap {fresh}}

\* Mutant: the count goes down twice for a full page.
ReleasePageTwice(s, rt, p) ==
  IF FreeLines(s, p) < Threshold
    THEN [s EXCEPT !.full[rt] = <<p>> \o @, !.active[rt] = @ - 2]
    ELSE [s EXCEPT !.open[rt] = <<p>> \o @, !.active[rt] = @ - 1]

\* ReleaseCodePage.
ReleasePage(s, rt, p) ==
  IF FreeLines(s, p) < Threshold
    THEN [s EXCEPT !.full[rt] = <<p>> \o @, !.active[rt] = @ - 1]
    ELSE [s EXCEPT !.open[rt] = <<p>> \o @, !.active[rt] = @ - 1]

\* Runtime_Release: both lists go to the environment, their pages reset.
ReleaseRuntime(s, rt) ==
  LET back == ToSet(s.open[rt] \o s.full[rt])
  IN  [s EXCEPT !.released = s.full[rt] \o s.open[rt] \o @,
                !.code = [p \in Page |-> IF p \in back THEN <<>> ELSE s.code[p]],
                !.open[rt] = <<>>, !.full[rt] = <<>>]

\* The temporary runtime is gone with EvaluateExpression's stack frame.
DiscardTemp(s) ==
  [ReleaseRuntime(s, "temp") EXCEPT !.active["temp"] = 0, !.total["temp"] = 0]

-----------------------------------------------------------------------------
(* Emitting, on the page the compilation is on.  ok is whether it succeeds: *)
(* it fails where no page can be had.                                      *)

Emitted(s, p) == [ok |-> TRUE, page |-> p, pool |-> s]
NotEmitted(s, p) == [ok |-> FALSE, page |-> p, pool |-> s]

\* Mutant: the old page gets no branch to the new one.
EnsureLinesUnbridged(s, rt, p, f, n) ==
  IF FreeLines(s, p) >= n + 2
    THEN {Emitted(s, p)}
    ELSE {IF a.page = NoPage THEN NotEmitted(s, p)
          ELSE Emitted(ReleasePage(a.pool, rt, p), a.page) : a \in Acquire(s, rt, n + 2)}

\* EnsureCodePageNumLines: two lines of every page stay free for a bridge.
EnsureLines(s, rt, p, f, n) ==
  IF FreeLines(s, p) >= n + 2
    THEN {Emitted(s, p)}
    ELSE {IF a.page = NoPage THEN NotEmitted(s, p)
          ELSE LET bridge == <<Operation(f), Final(Pointer(f, Location(a.pool, a.page, f)))>>
               IN  Emitted(ReleasePage(Emit(a.pool, p, bridge), rt, p), a.page)
            : a \in Acquire(s, rt, n + 2)}

\* EmitOp, and the immediates that follow it.
EmitOp(s, rt, p, f, lines) ==
  {IF e.ok THEN Emitted(Emit(e.pool, e.page, lines), e.page) ELSE e
     : e \in EnsureLines(s, rt, p, f, Threshold)}

\* Mutant: the default target has no line of its own.
TableLinesShort(targets) == targets + 1

\* Operation, slot, count, and one pointer per target and for the default.
TableLines(targets) == targets + 4

EmitTable(s, rt, p, f, targets) ==
  UNION {IF e.ok THEN EmitOp(e.pool, rt, e.page, f, Immediates(f, 3)) ELSE {e}
           : e \in EnsureLines(s, rt, p, f, TableLines(targets))}

-----------------------------------------------------------------------------
(* The compilation.                                                        *)

Idle == contexts = <<>>
Top  == contexts[Len(contexts)]
Rt   == IF contexts[1].kind = "expression" THEN "temp" ELSE "main"

\* Nothing but the landing code of targets comes between the lines of a table.
Busy == contexts # <<>> /\ Top.table = 0

Parent      == contexts[Len(contexts) - 1]
PopContext  == SubSeq(contexts, 1, Len(contexts) - 1)
Context(kind, p) == [frag |-> fragments + 1, kind |-> kind, page |-> p, table |-> 0]

Begin(kind, a) ==
  /\ fragments' = fragments + 1
  /\ start' = [start EXCEPT ![fragments + 1] = Location(a.pool, a.page, fragments + 1)]
  /\ contexts' = Append(contexts, Context(kind, a.page))
  /\ pool' = a.pool
  /\ UNCHANGED phase

SetPage(p) == [contexts EXCEPT ![Len(contexts)].page = p]

\* The functions that are open release the page each is on, innermost first.
ReleaseAll(s, rt, open) ==
  FoldLeft(LAMBDA t, c : ReleasePage(t, rt, c.page), s, Reverse(open))

\* A throw: every enclosing function releases the page it is on, but
\* Compile_BranchTable does not restore the page it saved, which is lost.
Throw(e) ==
  LET open  == SetPage(e.page)
      kept  == IF Top.kind = "target" THEN RemoveAt(open, Len(open) - 1) ELSE open
      after == ReleaseAll(e.pool, Rt, kept)
  IN  /\ pool' = IF Rt = "temp" THEN DiscardTemp(after) ELSE after
      /\ contexts' = <<>>
      /\ phase' = "failed"
      /\ UNCHANGED <<start, fragments>>

Init ==
  /\ phase = "loading"
  /\ pool = NewPool
  /\ contexts = <<>>
  /\ start = [f \in Fragment |-> Nowhere]
  /\ fragments = 0

\* EvaluateExpression, for a global, a data segment or an element segment.
BeginExpression ==
  /\ phase = "loading" /\ Idle /\ fragments < MaxFragments
  /\ \E a \in Acquire(pool, "temp", Threshold) :
       \/ a.page # NoPage /\ Begin("expression", a)
       \/ /\ a.page = NoPage
          /\ phase' = "failed"
          /\ UNCHANGED <<pool, contexts, start, fragments>>

\* The code ran and its page goes back to the environment.
EndExpression ==
  /\ Busy /\ Top.kind = "expression"
  /\ \E e \in EmitOp(pool, "temp", Top.page, Top.frag, <<Final(Operation(Top.frag))>>) :
       \/ ~e.ok /\ Throw(e)
       \/ /\ e.ok
          /\ pool' = DiscardTemp(ReleasePage(e.pool, "temp", e.page))
          /\ start' = [start EXCEPT ![Top.frag] = Nowhere]
          /\ contexts' = <<>>
          /\ UNCHANGED <<phase, fragments>>

\* CompileRawFunction: four lines, on a page with room for them.
LinkImport ==
  /\ phase = "linking" /\ Idle /\ fragments < MaxFragments
  /\ \E a \in Acquire(pool, "main", 4) :
       \/ /\ a.page # NoPage
          /\ LET f == fragments + 1
                 s == Emit(a.pool, a.page, Append(Immediates(f, 3), Final(Operation(f))))
             IN  pool' = ReleasePage(s, "main", a.page)
          /\ start' = [start EXCEPT ![fragments + 1] = Location(a.pool, a.page, fragments + 1)]
          /\ fragments' = fragments + 1
          /\ UNCHANGED <<phase, contexts>>
       \/ /\ a.page = NoPage
          /\ phase' = "failed"
          /\ UNCHANGED <<pool, contexts, start, fragments>>

\* CompileFunction, for each function of m3_CompileModule.
BeginFunction ==
  /\ phase = "compiling" /\ Idle /\ fragments < MaxFragments
  /\ \E a \in Acquire(pool, "main", Threshold) :
       \/ a.page # NoPage /\ Begin("function", a)
       \/ /\ a.page = NoPage
          /\ phase' = "failed"
          /\ UNCHANGED <<pool, contexts, start, fragments>>

EndFunction ==
  /\ Busy /\ Top.kind = "function"
  /\ \E e \in EmitOp(pool, "main", Top.page, Top.frag, <<Final(Operation(Top.frag))>>) :
       \/ ~e.ok /\ Throw(e)
       \/ /\ e.ok
          /\ pool' = ReleasePage(e.pool, "main", e.page)
          /\ contexts' = <<>>
          /\ UNCHANGED <<phase, start, fragments>>

\* An operation with n immediates; Next takes the extremes.
EmitOperation(n) ==
  /\ Busy
  /\ \E e \in EmitOp(pool, Rt, Top.page, Top.frag, Immediates(Top.frag, n + 1)) :
       \/ ~e.ok /\ Throw(e)
       \/ /\ e.ok
          /\ pool' = e.pool
          /\ contexts' = SetPage(e.page)
          /\ UNCHANGED <<phase, start, fragments>>

\* Compile_Select and PreserveArgsAndLocals do not look at what EmitOp returns:
\* where it fails they write the slots without the operation, and go on.
EmitUnchecked(slots) ==
  /\ Busy /\ Top.kind # "target"
  /\ \E e \in EmitOp(pool, Rt, Top.page, Top.frag, Immediates(Top.frag, slots + 1)) :
       /\ pool' = IF e.ok THEN e.pool
                  ELSE [Emit(e.pool, e.page, Immediates(Top.frag, slots)) EXCEPT !.torn = TRUE]
       /\ contexts' = SetPage(e.page)
       /\ UNCHANGED <<phase, start, fragments>>

\* The compiler rejects the function.
CompileError == contexts # <<>> /\ Throw(NotEmitted(pool, Top.page))

-----------------------------------------------------------------------------
(* If and else.                                                            *)

\* CompileElseBlock: the else code starts on a page of its own.
BeginElse ==
  /\ Busy /\ Top.kind \in {"function", "else"}
  /\ fragments < MaxFragments /\ Len(contexts) < MaxNesting
  /\ \E a \in Acquire(pool, "main", Threshold) :
       \/ a.page # NoPage /\ Begin("else", a)
       \/ a.page = NoPage /\ Throw(NotEmitted(pool, Top.page))

\* Mutant: the branch at the end of the else block returns to its own page.
EndElseOwnPage ==
  /\ Busy /\ Top.kind = "else"
  /\ \E e \in EmitOp(pool, "main", Top.page, Top.frag, <<Operation(Top.frag)>>) :
       \/ ~e.ok /\ Throw(e)
       \/ /\ e.ok
          /\ LET back == Location(e.pool, e.page, Parent.frag)
             IN  pool' = ReleasePage(Emit(e.pool, e.page, <<Final(Pointer(Top.frag, back))>>),
                                     "main", e.page)
          /\ contexts' = PopContext
          /\ UNCHANGED <<phase, start, fragments>>

\* Mutant: the page of the else block is not given back.
EndElseUnreleased ==
  /\ Busy /\ Top.kind = "else"
  /\ \E e \in EmitOp(pool, "main", Top.page, Top.frag, <<Operation(Top.frag)>>) :
       \/ ~e.ok /\ Throw(e)
       \/ /\ e.ok
          /\ LET back == Location(e.pool, Parent.page, Parent.frag)
             IN  pool' = Emit(e.pool, e.page, <<Final(Pointer(Top.frag, back))>>)
          /\ contexts' = PopContext
          /\ UNCHANGED <<phase, start, fragments>>

\* It ends with a branch to where the saved page goes on.
EndElse ==
  /\ Busy /\ Top.kind = "else"
  /\ \E e \in EmitOp(pool, "main", Top.page, Top.frag, <<Operation(Top.frag)>>) :
       \/ ~e.ok /\ Throw(e)
       \/ /\ e.ok
          /\ LET back == Location(e.pool, Parent.page, Parent.frag)
             IN  pool' = ReleasePage(Emit(e.pool, e.page, <<Final(Pointer(Top.frag, back))>>),
                                     "main", e.page)
          /\ contexts' = PopContext
          /\ UNCHANGED <<phase, start, fragments>>

-----------------------------------------------------------------------------
(* br_table.                                                               *)

\* Compile_BranchTable up to its loop over the targets and the default.
BranchTable(targets) ==
  /\ Busy /\ Top.kind \in {"function", "else"}
  /\ \E e \in EmitTable(pool, "main", Top.page, Top.frag, targets) :
       \/ ~e.ok /\ Throw(e)
       \/ /\ e.ok
          /\ pool' = e.pool
          /\ contexts' = [SetPage(e.page) EXCEPT ![Len(contexts)].table = targets + 1]
          /\ UNCHANGED <<phase, start, fragments>>

BeginTarget ==
  /\ contexts # <<>> /\ Top.table > 0
  /\ fragments < MaxFragments /\ Len(contexts) < MaxNesting
  /\ \E a \in Acquire(pool, "main", Threshold) :
       \/ a.page # NoPage /\ Begin("target", a)
       \/ a.page = NoPage /\ Throw(NotEmitted(pool, Top.page))

\* The table gets its pointer, on the page that was saved.
EndTable(e, location) ==
  LET line == Pointer(Parent.frag, location)
  IN  /\ pool' = Emit(ReleasePage(e.pool, "main", e.page), Parent.page,
                      <<IF Parent.table = 1 THEN Final(line) ELSE line>>)
      /\ contexts' = [PopContext EXCEPT ![Len(contexts) - 1].table = @ - 1]

\* The landing code ends with a branch, a loop or a return; in unreachable
\* code there is none, and the pointer is never followed.
EndTarget ==
  /\ Busy /\ Top.kind = "target"
  /\ \/ \E e \in EmitOp(pool, "main", Top.page, Top.frag, <<Final(Operation(Top.frag))>>) :
          \/ ~e.ok /\ Throw(e)
          \/ /\ e.ok
             /\ EndTable(e, start[Top.frag])
             /\ UNCHANGED <<phase, start, fragments>>
     \/ /\ start[Top.frag] = Location(pool, Top.page, Top.frag)
        /\ EndTable(Emitted(pool, Top.page), Nowhere)
        /\ start' = [start EXCEPT ![Top.frag] = Nowhere]
        /\ UNCHANGED <<phase, fragments>>

-----------------------------------------------------------------------------
(* The life of the instance.                                               *)

\* m3_LoadModule, the link loop and m3_CompileModule follow one another.
Proceed ==
  /\ Idle
  /\ \/ phase = "loading"   /\ phase' = "linking"
     \/ phase = "linking"   /\ phase' = "compiling"
     \/ phase = "compiling" /\ phase' = "live"
  /\ UNCHANGED <<pool, contexts, start, fragments>>

\* ~InstanceState: m3_FreeRuntime, then m3_FreeEnvironment.
Release ==
  /\ phase \in {"live", "failed"} /\ Idle
  /\ LET s == ReleaseRuntime(pool, "main")
     IN  pool' = [s EXCEPT !.allocated = @ \ ToSet(s.released), !.released = <<>>]
  /\ phase' = "released"
  /\ UNCHANGED <<contexts, start, fragments>>

\* A line is past the end of its page: the heap is overwritten.
Overrun == \E p \in pool.allocated : Len(pool.code[p]) > pool.lines[p]

Step ==
  \/ BeginExpression \/ EndExpression
  \/ LinkImport
  \/ BeginFunction \/ EndFunction
  \/ \E n \in {0, MaxImmediates} : EmitOperation(n)
  \/ \E slots \in {0, SelectSlots} : EmitUnchecked(slots)
  \/ CompileError
  \/ BeginElse \/ EndElse
  \/ \E targets \in {0, MaxTargets} : BranchTable(targets)
  \/ BeginTarget \/ EndTarget
  \/ Proceed
  \/ Release

\* What a program does that has written past a block is undefined: nothing is said of it.
Next == ~Overrun /\ Step

Spec == Init /\ [][Next]_vars

-----------------------------------------------------------------------------
(* Correctness.                                                            *)

Place       == [page : Page, line : Nat, of : Fragment]
Destination == Place \cup {Nowhere}
Line        == [of : Fragment, to : Destination, ends : BOOLEAN]

ASSUME NowhereAssumption == Nowhere \notin Place

TypeOK ==
  /\ phase \in {"loading", "linking", "compiling", "live", "failed", "released"}
  /\ pool.allocated \subseteq Page
  /\ pool.lines \in [Page -> Nat]
  /\ pool.code \in [Page -> Seq(Line)]
  /\ pool.open \in [Runtime -> Seq(Page)] /\ pool.full \in [Runtime -> Seq(Page)]
  /\ pool.active \in [Runtime -> Nat] /\ pool.total \in [Runtime -> Nat]
  /\ pool.released \in Seq(Page) /\ pool.torn \in BOOLEAN
  /\ contexts \in Seq([frag : Fragment, kind : {"function", "expression", "else", "target"},
                       page : Page, table : 0 .. MaxTargets + 1])
  /\ start \in [Fragment -> Destination]
  /\ fragments \in 0 .. MaxFragments

\* m3_env.c, assertion in ReleaseCodePage: the pages a runtime counts are on
\* its two lists or active.
PagesAccounted ==
  \A rt \in Runtime :
    phase # "released" =>
      Len(pool.open[rt]) + Len(pool.full[rt]) + pool.active[rt] = pool.total[rt]

\* Nobody else can get hold of a page that is being written, or that waits
\* while an else block or a target is compiled; no page is on two lists.
OnePlace ==
  IsInjective(pool.open["main"] \o pool.full["main"] \o pool.open["temp"] \o pool.full["temp"]
                \o pool.released \o [i \in DOMAIN contexts |-> contexts[i].page])

\* m3_code.c, assertion in EmitWord: no line is written past the end of a page.
WithinPage == ~Overrun

\* As long as every operation could be written, no line is past the end of a page,
\* and every page that is being written keeps room for the rest of its table and for a
\* bridge: a page that cannot be had is not yet the end of the one there is.
RoomKept ==
  ~pool.torn =>
    /\ WithinPage
    /\ \A i \in DOMAIN contexts : FreeLines(pool, contexts[i].page) >= 2 + contexts[i].table

\* Code continues at a location: it is there, or the next line written there
\* will be its.
Continues(location) ==
  LET code == pool.code[location.page]
  IN  IF location.line < Len(code)
        THEN code[location.line + 1].of = location.of
        ELSE \E i \in DOMAIN contexts : /\ contexts[i].frag = location.of
                                        /\ contexts[i].page = location.page
                                        /\ location.line = Len(code)

\* Every entry, bridge, table pointer and branch back out of an else block leads
\* to the code it was made for, whatever was written on the pages in between.
JumpsLand ==
  phase \notin {"failed", "released"} /\ ~Overrun =>
    /\ \A f \in Fragment : start[f] # Nowhere => Continues(start[f])
    /\ \A p \in pool.allocated : \A i \in DOMAIN pool.code[p] :
         pool.code[p][i].to # Nowhere => Continues(pool.code[p][i].to)

\* Control never runs from the code of one fragment into that of another, if every
\* operation is where its slots are.
FallsThrough ==
  phase \notin {"failed", "released"} /\ ~pool.torn =>
    \A p \in pool.allocated : \A i \in DOMAIN pool.code[p] :
      ~pool.code[p][i].ends =>
        Continues([page |-> p, line |-> i, of |-> pool.code[p][i].of])

\* A successful compilation gives back every page; one that fails keeps at most
\* the one that Compile_BranchTable had saved.
CompilationReturnsPages ==
  Idle => pool.active["main"] <= (IF phase \in {"failed", "released"} THEN 1 ELSE 0)

\* m3_env.c, assertion in Runtime_Release: numActiveCodePages is 0; with it,
\* freeing the runtime and the environment frees every page.
NoActivePages ==
  phase = "released" => pool.active["main"] = 0

=============================================================================
