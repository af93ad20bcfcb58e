--------------------------- MODULE ModuleProofs ---------------------------
(***************************************************************************)
(* What the parser, the loader and the linker compute, for every image.    *)
(* Each of their loops is an INSTANCE of Folding: one lemma says what one  *)
(* item keeps, and Folding's FoldKeeps that the loop keeps it.             *)
(***************************************************************************)
EXTENDS PolyfillProofs, WellFoundedInduction

-----------------------------------------------------------------------------
(* Induction over the numbers, which Folding asks for.                     *)

LEMMA CountUp ==
  ASSUME NEW T \in SUBSET Nat, 0 \in T, \A n \in T : n + 1 \in T
  PROVE  T = Nat
<1> DEFINE Bad == Nat \ T
<1>1. SUFFICES ASSUME Bad # {} PROVE FALSE
  OBVIOUS
<1>2. PICK n \in Bad : \A m \in Bad : <<m, n>> \notin OpToRel(<, Nat)
  BY <1>1, WFMin, NatLessThanWellFounded, Zenon
<1>3. n \in Nat /\ n # 0 /\ n \notin T
  OBVIOUS
<1>4. n - 1 \in Nat /\ n - 1 < n
  BY <1>3
<1>5. <<n - 1, n>> \in OpToRel(<, Nat)
  BY <1>3, <1>4 DEF OpToRel
<1>6. n - 1 \in T
  BY <1>2, <1>4, <1>5
<1> QED
  BY <1>3, <1>4, <1>6

LEMMA LeastNumber ==
  ASSUME NEW S \in SUBSET Nat, S # {}
  PROVE  \E n \in S : \A m \in S : n <= m
<1>1. PICK n \in S : \A m \in S : <<m, n>> \notin OpToRel(<, Nat)
  BY WFMin, NatLessThanWellFounded, Zenon
<1>2. ASSUME NEW m \in S, ~(n <= m)
      PROVE  FALSE
  <2>1. m \in Nat /\ n \in Nat /\ m < n
    BY <1>2
  <2>2. <<m, n>> \in OpToRel(<, Nat)
    BY <2>1 DEF OpToRel
  <2> QED
    BY <1>1, <2>2, Zenon
<1> QED
  BY <1>2

-----------------------------------------------------------------------------
(* Who owns a block.                                                       *)

OwnTags   == {"module", "field", "export", "name", "constants"}
ArrayTags == {"functions", "funcTypes", "globals", "dataSegments", "table0", "custom", "memory"}
Arrays    == {<<t, 0>> : t \in ArrayTags}
Bases     == {<<t, 0>> : t \in {"environment", "M3Module", "runtime", "stack"}}

NamesOf(f) == {f.names[n] : n \in 1 .. Len(f.names)}

\* What Function_Release and the release of a global free.
FunctionBlocks(f) == ({f.constants} \cup NamesOf(f) \cup ImportStrings(f.import.at)) \ {NoString}
GlobalBlocks(g)   == ({g.name} \cup ImportStrings(g.import.at)) \ {NoString}

FunctionOwners(m) == {<<"function", f>> : f \in 1 .. Len(m.functions)}
GlobalOwners(m)   == {<<"global", g>> : g \in 1 .. Len(m.globals)}

Blocks(m) ==
  [o \in FunctionOwners(m) \cup GlobalOwners(m) |->
     IF o[1] = "function" THEN FunctionBlocks(m.functions[o[2]]) ELSE GlobalBlocks(m.globals[o[2]])]

\* A function has constants only when it is compiled; its names are exports, one of the
\* name section or its import's field.
OwnedFunction(f) ==
  /\ IsSeq(f.names)
  /\ \A n \in 1 .. Len(f.names) :
       \/ f.names[n][1] \in {"export", "name"}
       \/ f.names[n] = <<"field", f.import.at>> /\ f.import.at # Unset
  /\ f.constants = NoString \/ f.constants[1] = "constants"
  /\ f.compiled = NoBody => f.constants = NoString

GlobalFields   == {"import", "name", "mutable", "init", "value"}
OwnedGlobal(g) == g = [x \in GlobalFields |-> g[x]] /\ (g.name = NoString \/ g.name[1] = "export")

Shaped(m) ==
  /\ \A f \in 1 .. Len(m.functions) : OwnedFunction(m.functions[f])
  /\ \A g \in 1 .. Len(m.globals) : OwnedGlobal(m.globals[g])

\* Every string and every list of constants has one owner.
Ledger(B, h) ==
  /\ \A o \in DOMAIN B : B[o] \subseteq h
  /\ \A o \in DOMAIN B : \A x \in DOMAIN B : o # x => B[o] \cap B[x] = {}
  /\ \A b \in h : b[1] \in OwnTags => \E o \in DOMAIN B : b \in B[o]

TypeBlocks(p) == {p.funcTypes[t].at : t \in 1 .. Len(p.funcTypes)}
HasRuntime(p) == <<"runtime", 0>> \in p.heap

\* Numbers that are not given away yet are in no block.
Numbered(p) ==
  /\ p.serial \in Nat
  /\ \A b \in p.heap : b[1] \in OwnTags \cup {"type"} => b[2] \in Nat /\ b[2] < p.serial

\* The other blocks.
Accounted(p) ==
  /\ IsSeq(p.funcTypes) /\ TypeBlocks(p) \subseteq p.heap
  /\ \A b \in TypeBlocks(p) : b[1] \in {"type", "rettype"}
  /\ <<"environment", 0>> \in p.heap /\ <<"M3Module", 0>> \in p.heap
  /\ HasRuntime(p) <=> <<"stack", 0>> \in p.heap
  /\ <<"memory", 0>> \in p.heap => HasRuntime(p)
  /\ \A b \in p.heap : b[1] \in OwnTags \/ b \in Arrays \cup Bases \cup TypeBlocks(p)

\* Nothing was freed twice, and everything there is will be freed.
Owns(p) ==
  /\ p.twice = FALSE
  /\ Shaped(p.m) /\ Ledger(Blocks(p.m), p.heap) /\ Numbered(p) /\ Accounted(p)

LEMMA Kinds ==
  /\ \A b \in Arrays : b[1] \notin OwnTags /\ b[1] # "type" /\ b \notin Bases
  /\ \A b \in Bases : b[1] \notin OwnTags /\ b[1] # "type"
  /\ <<"memory", 0>> \in Arrays
  /\ <<"environment", 0>> \in Bases /\ <<"M3Module", 0>> \in Bases
  /\ <<"runtime", 0>> \in Bases /\ <<"stack", 0>> \in Bases
  BY DEF Arrays, ArrayTags, Bases, OwnTags

LEMMA StringKinds ==
  ASSUME NEW at
  PROVE  \A b \in ImportStrings(at) : b[1] \in OwnTags /\ b # NoString
  BY DEF ImportStrings, OwnTags, NoString

LEMMA FunctionKinds ==
  ASSUME NEW f, OwnedFunction(f)
  PROVE  \A b \in FunctionBlocks(f) : b[1] \in OwnTags
<1>1. \A b \in NamesOf(f) : b[1] \in OwnTags
  BY DEF NamesOf, OwnedFunction, OwnTags
<1>2. f.constants = NoString \/ f.constants[1] \in OwnTags
  BY DEF OwnedFunction, OwnTags
<1> QED
  BY <1>1, <1>2, StringKinds DEF FunctionBlocks

LEMMA GlobalKinds ==
  ASSUME NEW g, OwnedGlobal(g)
  PROVE  \A b \in GlobalBlocks(g) : b[1] \in OwnTags
<1>1. g.name = NoString \/ g.name[1] \in OwnTags
  BY DEF OwnedGlobal, OwnTags
<1> QED
  BY <1>1, StringKinds DEF GlobalBlocks

LEMMA OwnersParts ==
  ASSUME NEW m
  PROVE  /\ DOMAIN Blocks(m) = FunctionOwners(m) \cup GlobalOwners(m)
         /\ \A f \in 1 .. Len(m.functions) : /\ <<"function", f>> \in FunctionOwners(m)
                                             /\ Blocks(m)[<<"function", f>>] = FunctionBlocks(m.functions[f])
         /\ \A g \in 1 .. Len(m.globals) : /\ <<"global", g>> \in GlobalOwners(m)
                                           /\ Blocks(m)[<<"global", g>>] = GlobalBlocks(m.globals[g])
         /\ \A o \in FunctionOwners(m) : \E f \in 1 .. Len(m.functions) : o = <<"function", f>>
         /\ \A o \in GlobalOwners(m) : \E g \in 1 .. Len(m.globals) : o = <<"global", g>>
  BY DEF Blocks, FunctionOwners, GlobalOwners

LEMMA BlockKinds ==
  ASSUME NEW m, Shaped(m), NEW o \in DOMAIN Blocks(m)
  PROVE  \A b \in Blocks(m)[o] : b[1] \in OwnTags
<1>1. CASE o \in FunctionOwners(m)
  <2>1. PICK f \in 1 .. Len(m.functions) : o = <<"function", f>>
    BY <1>1, OwnersParts
  <2>2. Blocks(m)[o] = FunctionBlocks(m.functions[f]) /\ OwnedFunction(m.functions[f])
    BY <2>1, OwnersParts DEF Shaped
  <2> QED
    BY <2>2, FunctionKinds
<1>2. CASE o \in GlobalOwners(m)
  <2>1. PICK g \in 1 .. Len(m.globals) : o = <<"global", g>>
    BY <1>2, OwnersParts
  <2>2. Blocks(m)[o] = GlobalBlocks(m.globals[g]) /\ OwnedGlobal(m.globals[g])
    BY <2>1, OwnersParts DEF Shaped
  <2> QED
    BY <2>2, GlobalKinds
<1> QED
  BY <1>1, <1>2, OwnersParts

\* No block of an owner comes or goes.
Unmoved(p, q) ==
  /\ q.twice = p.twice /\ q.funcTypes = p.funcTypes /\ q.serial \in Nat /\ p.serial <= q.serial
  /\ q.heap \ Arrays = p.heap \ Arrays /\ (<<"memory", 0>> \in q.heap => HasRuntime(p) \/ <<"memory", 0>> \in p.heap)
  /\ Shaped(q.m) /\ Blocks(q.m) = Blocks(p.m)

Owning(p, q) == Owns(p) => Owns(q) /\ (HasRuntime(p) <=> HasRuntime(q))

LEMMA HeapBut ==
  ASSUME NEW h, NEW k, k \ Arrays = h \ Arrays
  PROVE  /\ \A b : b[1] \in OwnTags \cup {"type", "rettype"} => (b \in k <=> b \in h)
         /\ \A b \in Bases : b \in k <=> b \in h
         /\ \A b \in k : b \in Arrays \/ b \in h
<1>1. \A b : b[1] \in OwnTags \cup {"type", "rettype"} => b \notin Arrays
  BY DEF Arrays, ArrayTags, OwnTags
<1>2. \A b \in Bases : b \notin Arrays
  BY Kinds
<1>3. \A b : b \notin Arrays => (b \in k <=> b \in h)
  BY Zenon
<1> QED
  BY <1>1, <1>2, <1>3

LEMMA OwnsUnmoved ==
  ASSUME NEW p, NEW q, Owns(p) => Unmoved(p, q)
  PROVE  Owning(p, q)
<1> SUFFICES ASSUME Owns(p), Unmoved(p, q)
             PROVE  Owns(q) /\ (HasRuntime(p) <=> HasRuntime(q))
  BY DEF Owning
<1>1. /\ \A b : b[1] \in OwnTags \cup {"type", "rettype"} => (b \in q.heap <=> b \in p.heap)
      /\ \A b \in Bases : b \in q.heap <=> b \in p.heap
      /\ \A b \in q.heap : b \in Arrays \/ b \in p.heap
  BY HeapBut DEF Unmoved
<1>2. q.twice = FALSE /\ Shaped(q.m) /\ q.funcTypes = p.funcTypes /\ Blocks(q.m) = Blocks(p.m)
  BY DEF Unmoved, Owns
<1>3. \A o \in DOMAIN Blocks(q.m) : \A b \in Blocks(q.m)[o] : b[1] \in OwnTags
  BY <1>2, BlockKinds
<1>4. Ledger(Blocks(q.m), q.heap)
  <2>1. Ledger(Blocks(p.m), p.heap)
    BY DEF Owns
  <2>2. \A o \in DOMAIN Blocks(q.m) : Blocks(q.m)[o] \subseteq q.heap
    BY <1>1, <1>2, <1>3, <2>1 DEF Ledger
  <2> QED
    BY <1>1, <1>2, <2>1, <2>2 DEF Ledger
<1>5. Numbered(q)
  BY <1>1 DEF Owns, Numbered, Unmoved
<1>6. HasRuntime(q) <=> HasRuntime(p)
  BY <1>1, Kinds DEF HasRuntime
<1>7. Accounted(q)
  <2>1. TypeBlocks(q) = TypeBlocks(p)
    BY <1>2 DEF TypeBlocks
  <2>2. TypeBlocks(q) \subseteq q.heap
    BY <1>1, <2>1 DEF Owns, Accounted
  <2>3. <<"memory", 0>> \in q.heap => HasRuntime(q)
    BY <1>6 DEF Owns, Accounted, Unmoved
  <2> QED
    BY <1>1, <1>2, <1>6, <2>1, <2>2, <2>3, Kinds DEF Owns, Accounted
<1> QED
  BY <1>2, <1>4, <1>5, <1>6, <1>7 DEF Owns

\* One owner gives blocks away and gets new ones, or there is one owner more.
BlocksAt(B, o) == IF o \in DOMAIN B THEN B[o] ELSE {}

Reassigned(B, C, o, gone, new) ==
  /\ DOMAIN C = DOMAIN B \cup {o} /\ \A x \in DOMAIN B : x # o => C[x] = B[x]
  /\ gone \subseteq BlocksAt(B, o) /\ C[o] = (BlocksAt(B, o) \ gone) \cup new

AllOwned(B) == \A o \in DOMAIN B : \A b \in B[o] : b[1] \in OwnTags

LEMMA LedgerMoves ==
  ASSUME NEW B, NEW h, Ledger(B, h), NEW C, NEW o, NEW gone, NEW new, Reassigned(B, C, o, gone, new),
         AllOwned(C), AllOwned(B), \A b \in new : b \notin h,
         NEW k, \A b : b[1] \in OwnTags => (b \in k <=> (b \in h /\ b \notin gone) \/ b \in new)
  PROVE  Ledger(C, k)
<1>1. /\ DOMAIN C = DOMAIN B \cup {o} /\ \A x \in DOMAIN B : x # o => C[x] = B[x]
      /\ gone \subseteq BlocksAt(B, o) /\ C[o] = (BlocksAt(B, o) \ gone) \cup new
  BY DEF Reassigned
<1>2. /\ \A x \in DOMAIN B : \A b \in B[x] : b \in h
      /\ \A x, y \in DOMAIN B : x # y => \A b \in B[x] : b \notin B[y]
      /\ \A b \in h : b[1] \in OwnTags => \E x \in DOMAIN B : b \in B[x]
  BY DEF Ledger
<1>3. \A b \in gone : o \in DOMAIN B /\ b \in B[o]
  BY <1>1 DEF BlocksAt
<1>4. \A b \in C[o] : b \in new \/ (o \in DOMAIN B /\ b \in B[o] /\ b \notin gone)
  BY <1>1 DEF BlocksAt
<1>5. \A x \in DOMAIN C : x # o => x \in DOMAIN B /\ C[x] = B[x]
  BY <1>1
<1>6. ASSUME NEW x \in DOMAIN C, NEW b \in C[x]
      PROVE  b \in k
  <2>1. b[1] \in OwnTags
    BY <1>6 DEF AllOwned
  <2>2. b \in new \/ (b \in h /\ b \notin gone)
    BY <1>2, <1>3, <1>4, <1>5, <1>6
  <2> QED
    BY <2>1, <2>2
<1>7. ASSUME NEW x \in DOMAIN C, NEW y \in DOMAIN C, x # y, NEW b \in C[x], b \in C[y]
      PROVE  FALSE
  <2>1. CASE x # o /\ y # o
    BY <1>2, <1>5, <1>7, <2>1
  <2>2. CASE x = o \/ y = o
    <3>1. PICK z \in DOMAIN C : z # o /\ b \in C[z] /\ b \in C[o]
      BY <1>7, <2>2
    <3>2. z \in DOMAIN B /\ b \in B[z] /\ b \in h /\ b \notin new
      BY <1>2, <1>5, <3>1
    <3>3. o \in DOMAIN B /\ b \in B[o]
      BY <1>4, <3>1, <3>2
    <3> QED
      BY <1>2, <3>1, <3>2, <3>3
  <2> QED
    BY <2>1, <2>2
<1>8. ASSUME NEW b \in k, b[1] \in OwnTags
      PROVE  \E x \in DOMAIN C : b \in C[x]
  <2>1. CASE b \in new
    BY <1>1, <2>1
  <2>2. CASE b \in h /\ b \notin gone
    <3>1. PICK x \in DOMAIN B : b \in B[x]
      BY <1>2, <1>8, <2>2
    <3>2. CASE x = o
      BY <1>1, <2>2, <3>1, <3>2 DEF BlocksAt
    <3>3. CASE x # o
      BY <1>1, <3>1, <3>3
    <3> QED
      BY <3>2, <3>3
  <2> QED
    BY <1>8, <2>1, <2>2
<1> QED
  BY <1>6, <1>7, <1>8 DEF Ledger

\* Blocks are freed, and others allocated that have the next number.
Exchanged(p, q, gone, new) ==
  /\ q.twice = p.twice /\ q.funcTypes = p.funcTypes /\ q.serial \in Nat /\ p.serial <= q.serial
  /\ (new # {} => p.serial < q.serial) /\ \A b \in new : b[1] \in OwnTags /\ b[2] = p.serial
  /\ q.heap \ Arrays = ((p.heap \ gone) \cup new) \ Arrays
  /\ <<"memory", 0>> \in q.heap => <<"memory", 0>> \in p.heap

Moved(p, q, o, gone, new) ==
  Exchanged(p, q, gone, new) /\ Shaped(q.m) /\ Reassigned(Blocks(p.m), Blocks(q.m), o, gone, new)

LEMMA OwnsMoved ==
  ASSUME NEW p, NEW q, NEW o, NEW gone, NEW new, Owns(p) => Moved(p, q, o, gone, new)
  PROVE  Owning(p, q)
<1> SUFFICES ASSUME Owns(p), Moved(p, q, o, gone, new)
             PROVE  Owns(q) /\ (HasRuntime(p) <=> HasRuntime(q))
  BY DEF Owning
<1>1. PICK h : h = (p.heap \ gone) \cup new
  OBVIOUS
<1>2. /\ \A b : b[1] \in OwnTags \cup {"type", "rettype"} => (b \in q.heap <=> b \in h)
      /\ \A b \in Bases : b \in q.heap <=> b \in h
      /\ \A b \in q.heap : b \in Arrays \/ b \in h
  <2>1. q.heap \ Arrays = h \ Arrays
    BY <1>1 DEF Moved, Exchanged
  <2> QED
    BY ONLY <2>1, HeapBut
<1>3. AllOwned(Blocks(p.m)) /\ AllOwned(Blocks(q.m))
  BY BlockKinds DEF AllOwned, Owns, Moved, Exchanged
<1>4. \A b \in new : b[1] \in OwnTags /\ b[2] = p.serial /\ p.serial < q.serial
  BY DEF Moved, Exchanged
<1>5. \A b \in new : b \notin p.heap
  <2>1. p.serial \in Nat /\ \A b \in p.heap : b[1] \in OwnTags => b[2] \in Nat /\ b[2] < p.serial
    BY DEF Owns, Numbered
  <2> QED
    BY <1>4, <2>1
<1>6. \A b \in gone : b[1] \in OwnTags
  BY <1>3 DEF Moved, Exchanged, Reassigned, BlocksAt, AllOwned
<1>7. Ledger(Blocks(q.m), q.heap)
  <2>1. Ledger(Blocks(p.m), p.heap) /\ Reassigned(Blocks(p.m), Blocks(q.m), o, gone, new)
    BY DEF Owns, Moved, Exchanged
  <2>2. \A b : b[1] \in OwnTags => (b \in q.heap <=> (b \in p.heap /\ b \notin gone) \/ b \in new)
    BY <1>1, <1>2
  <2> QED
    BY ONLY <1>3, <1>5, <2>1, <2>2, LedgerMoves
<1>8. \A b : b[1] \notin OwnTags => (b \in h <=> b \in p.heap)
  BY <1>1, <1>4, <1>6
<1>9. Numbered(q)
  <2>1. p.serial \in Nat /\ q.serial \in Nat /\ p.serial <= q.serial
        /\ \A b \in p.heap : b[1] \in OwnTags \cup {"type"} => b[2] \in Nat /\ b[2] < p.serial
    BY DEF Owns, Numbered, Moved, Exchanged
  <2>2. \A b \in h : b[1] \in OwnTags \cup {"type"} => b[2] \in Nat /\ b[2] < q.serial
    BY <1>1, <1>4, <2>1
  <2> QED
    BY <1>2, <2>1, <2>2 DEF Numbered
<1>10. \A b \in Bases : b \in q.heap <=> b \in p.heap
  BY <1>2, <1>8, Kinds
<1>11. HasRuntime(q) <=> HasRuntime(p)
  BY <1>10, Kinds DEF HasRuntime
<1>12. Accounted(q)
  <2>1. TypeBlocks(q) = TypeBlocks(p) /\ q.funcTypes = p.funcTypes
    BY DEF TypeBlocks, Moved, Exchanged
  <2>2. \A b \in TypeBlocks(q) : b \in q.heap
    <3>1. \A b \in TypeBlocks(p) : b \in p.heap /\ b[1] \in {"type", "rettype"} /\ b[1] \notin OwnTags
      BY DEF Owns, Accounted, OwnTags
    <3> QED
      BY <1>2, <1>8, <2>1, <3>1
  <2>3. \A b \in q.heap : b[1] \in OwnTags \/ b \in Arrays \cup Bases \cup TypeBlocks(q)
    <3>1. \A b \in p.heap : b[1] \in OwnTags \/ b \in Arrays \cup Bases \cup TypeBlocks(p)
      BY DEF Owns, Accounted
    <3> QED
      BY <1>2, <1>8, <2>1, <3>1
  <2>4. <<"memory", 0>> \in q.heap => HasRuntime(q)
    BY <1>11 DEF Owns, Accounted, Moved, Exchanged
  <2>5. IsSeq(q.funcTypes) /\ \A b \in TypeBlocks(q) : b[1] \in {"type", "rettype"}
    BY <2>1 DEF Owns, Accounted
  <2>6. /\ <<"environment", 0>> \in q.heap /\ <<"M3Module", 0>> \in q.heap
        /\ HasRuntime(q) <=> <<"stack", 0>> \in q.heap
    BY <1>10, <1>11, Kinds DEF Owns, Accounted
  <2> QED
    BY ONLY <2>2, <2>3, <2>4, <2>5, <2>6 DEF Accounted
<1> QED
  BY <1>7, <1>9, <1>11, <1>12 DEF Owns, Moved, Exchanged

\* A function is added or is another one now.
LEMMA FunctionReassigned ==
  ASSUME NEW m, NEW r, r.globals = m.globals, NEW f, 1 .. Len(r.functions) = (1 .. Len(m.functions)) \cup {f},
         \A g \in 1 .. Len(m.functions) : g # f => r.functions[g] = m.functions[g],
         NEW old, old = IF f \in 1 .. Len(m.functions) THEN FunctionBlocks(m.functions[f]) ELSE {},
         NEW gone, NEW new, gone \subseteq old, FunctionBlocks(r.functions[f]) = (old \ gone) \cup new
  PROVE  Reassigned(Blocks(m), Blocks(r), <<"function", f>>, gone, new)
<1>1. PICK o : o = <<"function", f>>
  OBVIOUS
<1>2. FunctionOwners(r) = FunctionOwners(m) \cup {o}
  BY <1>1 DEF FunctionOwners
<1>3. GlobalOwners(r) = GlobalOwners(m)
  BY DEF GlobalOwners
<1>0. /\ DOMAIN Blocks(m) = FunctionOwners(m) \cup GlobalOwners(m)
      /\ DOMAIN Blocks(r) = FunctionOwners(r) \cup GlobalOwners(r)
  BY OwnersParts
<1>4. DOMAIN Blocks(r) = DOMAIN Blocks(m) \cup {o}
  BY ONLY <1>0, <1>2, <1>3
<1>5. \A g : <<"function", g>> \in DOMAIN Blocks(m) => g \in 1 .. Len(m.functions)
  BY ONLY <1>0 DEF FunctionOwners, GlobalOwners
<1>6. BlocksAt(Blocks(m), o) = old
  <2>1. CASE f \in 1 .. Len(m.functions)
    BY <1>1, <2>1, OwnersParts DEF BlocksAt
  <2>2. CASE f \notin 1 .. Len(m.functions)
    BY <1>1, <1>5, <2>2 DEF BlocksAt
  <2> QED
    BY <2>1, <2>2
<1>7. Blocks(r)[o] = FunctionBlocks(r.functions[f])
  BY <1>1, OwnersParts
<1>8. ASSUME NEW x \in DOMAIN Blocks(m), x # o
      PROVE  Blocks(r)[x] = Blocks(m)[x]
  <2>1. CASE x \in FunctionOwners(m)
    <3>1. PICK g \in 1 .. Len(m.functions) : x = <<"function", g>>
      BY <2>1, OwnersParts
    <3>2. g # f /\ g \in 1 .. Len(r.functions) /\ r.functions[g] = m.functions[g]
      BY <1>1, <1>8, <3>1
    <3>3. Blocks(r)[x] = FunctionBlocks(r.functions[g]) /\ Blocks(m)[x] = FunctionBlocks(m.functions[g])
      BY ONLY <3>1, <3>2, OwnersParts
    <3> QED
      BY ONLY <3>2, <3>3
  <2>2. CASE x \in GlobalOwners(m)
    <3>1. PICK g \in 1 .. Len(m.globals) : x = <<"global", g>>
      BY <2>2, OwnersParts
    <3>2. r.globals = m.globals
      OBVIOUS
    <3>3. Blocks(r)[x] = GlobalBlocks(r.globals[g]) /\ Blocks(m)[x] = GlobalBlocks(m.globals[g])
      BY ONLY <3>1, <3>2, OwnersParts
    <3> QED
      BY ONLY <3>2, <3>3
  <2> QED
    BY <1>0, <1>8, <2>1, <2>2
<1> QED
  BY <1>1, <1>4, <1>6, <1>7, <1>8 DEF Reassigned

LEMMA GlobalReassigned ==
  ASSUME NEW m, NEW r, r.functions = m.functions, NEW f, 1 .. Len(r.globals) = (1 .. Len(m.globals)) \cup {f},
         \A g \in 1 .. Len(m.globals) : g # f => r.globals[g] = m.globals[g],
         NEW old, old = IF f \in 1 .. Len(m.globals) THEN GlobalBlocks(m.globals[f]) ELSE {},
         NEW gone, NEW new, gone \subseteq old, GlobalBlocks(r.globals[f]) = (old \ gone) \cup new
  PROVE  Reassigned(Blocks(m), Blocks(r), <<"global", f>>, gone, new)
<1>1. PICK o : o = <<"global", f>>
  OBVIOUS
<1>2. GlobalOwners(r) = GlobalOwners(m) \cup {o}
  BY <1>1 DEF GlobalOwners
<1>3. FunctionOwners(r) = FunctionOwners(m)
  BY DEF FunctionOwners
<1>0. /\ DOMAIN Blocks(m) = FunctionOwners(m) \cup GlobalOwners(m)
      /\ DOMAIN Blocks(r) = FunctionOwners(r) \cup GlobalOwners(r)
  BY OwnersParts
<1>4. DOMAIN Blocks(r) = DOMAIN Blocks(m) \cup {o}
  BY ONLY <1>0, <1>2, <1>3
<1>5. \A g : <<"global", g>> \in DOMAIN Blocks(m) => g \in 1 .. Len(m.globals)
  BY ONLY <1>0 DEF FunctionOwners, GlobalOwners
<1>6. BlocksAt(Blocks(m), o) = old
  <2>1. CASE f \in 1 .. Len(m.globals)
    BY <1>1, <2>1, OwnersParts DEF BlocksAt
  <2>2. CASE f \notin 1 .. Len(m.globals)
    BY <1>1, <1>5, <2>2 DEF BlocksAt
  <2> QED
    BY <2>1, <2>2
<1>7. Blocks(r)[o] = GlobalBlocks(r.globals[f])
  BY <1>1, OwnersParts
<1>8. ASSUME NEW x \in DOMAIN Blocks(m), x # o
      PROVE  Blocks(r)[x] = Blocks(m)[x]
  <2>1. CASE x \in GlobalOwners(m)
    <3>1. PICK g \in 1 .. Len(m.globals) : x = <<"global", g>>
      BY <2>1, OwnersParts
    <3>2. g # f /\ g \in 1 .. Len(r.globals) /\ r.globals[g] = m.globals[g]
      BY <1>1, <1>8, <3>1
    <3>3. Blocks(r)[x] = GlobalBlocks(r.globals[g]) /\ Blocks(m)[x] = GlobalBlocks(m.globals[g])
      BY ONLY <3>1, <3>2, OwnersParts
    <3> QED
      BY ONLY <3>2, <3>3
  <2>2. CASE x \in FunctionOwners(m)
    <3>1. PICK g \in 1 .. Len(m.functions) : x = <<"function", g>>
      BY <2>2, OwnersParts
    <3>2. r.functions = m.functions
      OBVIOUS
    <3>3. Blocks(r)[x] = FunctionBlocks(r.functions[g]) /\ Blocks(m)[x] = FunctionBlocks(m.functions[g])
      BY ONLY <3>1, <3>2, OwnersParts
    <3> QED
      BY ONLY <3>2, <3>3
  <2> QED
    BY <1>0, <1>8, <2>1, <2>2
<1> QED
  BY <1>1, <1>4, <1>6, <1>7, <1>8 DEF Reassigned

-----------------------------------------------------------------------------
(* A parser's record, and what most of the parser and the loader leaves of *)
(* it as it was.                                                           *)

ParserFields   == {"m", "error", "twice", "expected", "pages", "serial", "funcTypes", "heap"}
ModuleFields   == {"types", "functions", "imports", "globals", "memory", "memoryImported", "start",
                   "elements", "data", "table0", "linked"}
FunctionFields == {"type", "import", "names", "body", "stub", "compiled", "constants"}

IsParser(p)   == p = [x \in ParserFields |-> p[x]]
IsModule(m)   == m = [x \in ModuleFields |-> m[x]]
IsFunction(f) == f = [x \in FunctionFields |-> f[x]]

AreFunctions(s) == IsSeq(s) /\ \A f \in 1 .. Len(s) : IsFunction(s[f])

HasLists(m) == IsSeq(m.globals) /\ IsSeq(m.data) /\ IsSegments(m.elements.items)

WellFormed(p) ==
  IsParser(p) /\ p.serial \in Nat /\ IsModule(p.m) /\ AreFunctions(p.m.functions) /\ HasLists(p.m)

\* The same functions, imported and linked in the same way, and globals that may be more.
SameLinks(s, t) ==
  /\ Len(t) = Len(s)
  /\ \A f \in 1 .. Len(s) : t[f].import = s[f].import /\ t[f].stub = s[f].stub

Follows(p, q) ==
  /\ WellFormed(q)
  /\ q.m.imports = p.m.imports /\ SameLinks(p.m.functions, q.m.functions)
  /\ DOMAIN p.m.globals \subseteq DOMAIN q.m.globals
  /\ q.expected = p.expected /\ (~Ok(p) => ~Ok(q))
  /\ p.m.linked => q.m.linked

\* And what was going to be freed once still is.
Kept(p, q) == Follows(p, q) /\ Owning(p, q)

\* The heap and what says of whom it is outside of the module.
SameHeap(p, q) ==
  q.heap = p.heap /\ q.twice = p.twice /\ q.serial = p.serial /\ q.funcTypes = p.funcTypes

LEMMA FollowsSame ==
  ASSUME NEW p, WellFormed(p)
  PROVE  Follows(p, p)
  BY DEF Follows, SameLinks

LEMMA FollowsTwice ==
  ASSUME NEW p, NEW q, NEW r, Follows(p, q), Follows(q, r)
  PROVE  Follows(p, r)
  BY DEF Follows, SameLinks

\* Where the module is the same.
LEMMA FollowsWell ==
  ASSUME NEW p, NEW q, Follows(p, q)
  PROVE  WellFormed(q)
  BY DEF Follows

LEMMA KeptSame ==
  ASSUME NEW p, WellFormed(p)
  PROVE  Kept(p, p)
  BY FollowsSame DEF Kept, Owning

LEMMA KeptTwice ==
  ASSUME NEW p, NEW q, NEW r, Kept(p, q), Kept(q, r)
  PROVE  Kept(p, r)
  BY FollowsTwice DEF Kept, Owning

LEMMA KeptWell ==
  ASSUME NEW p, NEW q, Kept(p, q)
  PROVE  WellFormed(q) /\ Follows(p, q)
  BY FollowsWell DEF Kept

LEMMA FollowsModule ==
  ASSUME NEW p, WellFormed(p), NEW q, IsParser(q), q.serial \in Nat, q.m = p.m,
         q.expected = p.expected, Ok(p) \/ ~Ok(q)
  PROVE  Follows(p, q)
  BY DEF Follows, SameLinks, WellFormed

LEMMA FollowsFail ==
  ASSUME NEW p, WellFormed(p), NEW e, e # "none"
  PROVE  Follows(p, Fail(p, e)) /\ ~Ok(Fail(p, e))
<1>1. IsParser(Fail(p, e)) /\ Fail(p, e).m = p.m /\ Fail(p, e).expected = p.expected /\ ~Ok(Fail(p, e))
      /\ Fail(p, e).serial \in Nat
  BY DEF WellFormed, IsParser, ParserFields, Fail, Ok
<1> QED
  BY <1>1, FollowsModule

LEMMA FollowsHeap ==
  ASSUME NEW p, WellFormed(p), NEW x
  PROVE  Follows(p, Alloc(p, x)) /\ Follows(p, Free(p, x)) /\ Follows(p, FreeArrays(p, x))
         /\ Follows(p, Take(p, x)) /\ Follows(p, ReadString(p, x))
<1>1. ASSUME NEW r, WellFormed(r), NEW y, NEW z
      PROVE  /\ Follows(r, [r EXCEPT !.heap = y, !.twice = z]) /\ Follows(r, [r EXCEPT !.heap = y])
             /\ Follows(r, [r EXCEPT !.heap = y, !.serial = @ + 1])
  <2>1. IsParser(r) /\ r.serial \in Nat /\ r.serial + 1 \in Nat
    BY <1>1 DEF WellFormed
  <2>2. ASSUME NEW q, IsParser(q), q.serial \in Nat, q.m = r.m, q.expected = r.expected, q.error = r.error
        PROVE  Follows(r, q)
    BY <1>1, <2>2, FollowsModule DEF Ok
  <2>3. PICK a : a = [r EXCEPT !.heap = y, !.twice = z]
    OBVIOUS
  <2>4. IsParser(a) /\ a.serial = r.serial /\ a.m = r.m /\ a.expected = r.expected /\ a.error = r.error
    BY <2>1, <2>3 DEF IsParser, ParserFields
  <2>5. PICK b : b = [r EXCEPT !.heap = y]
    OBVIOUS
  <2>6. IsParser(b) /\ b.serial = r.serial /\ b.m = r.m /\ b.expected = r.expected /\ b.error = r.error
    BY <2>1, <2>5 DEF IsParser, ParserFields
  <2>7. PICK c : c = [r EXCEPT !.heap = y, !.serial = @ + 1]
    OBVIOUS
  <2>8. IsParser(c) /\ c.serial = r.serial + 1 /\ c.m = r.m /\ c.expected = r.expected /\ c.error = r.error
    BY <2>1, <2>7 DEF IsParser, ParserFields
  <2>9. Follows(r, a) /\ Follows(r, b) /\ Follows(r, c)
    BY <2>1, <2>2, <2>4, <2>6, <2>8
  <2> QED
    BY ONLY <2>3, <2>5, <2>7, <2>9
<1>2. Follows(p, Alloc(p, x)) /\ Follows(p, Free(p, x)) /\ Follows(p, FreeArrays(p, x)) /\ Follows(p, Take(p, x))
  BY <1>1 DEF Alloc, Free, FreeArrays, Take
<1>3. PICK a : a = Take(p, {x})
  OBVIOUS
<1>4. Follows(p, a) /\ WellFormed(a)
  <2>1. Follows(p, a)
    BY <1>1, <1>3 DEF Take
  <2> QED
    BY <2>1, FollowsWell
<1>5. Follows(a, Free(a, {<<x, p.serial>>}))
  BY <1>1, <1>4 DEF Free
<1>6. Follows(p, Free(a, {<<x, p.serial>>}))
  BY <1>4, <1>5, FollowsTwice
<1>7. ReadString(p, x) = Free(a, {<<x, p.serial>>})
  BY <1>3, Zenon DEF ReadString
<1> QED
  BY <1>2, <1>6, <1>7

\* Where the functions are the same.
LEMMA FollowsFunctions ==
  ASSUME NEW p, WellFormed(p), NEW m, IsModule(m), m.functions = p.m.functions,
         m.imports = p.m.imports, DOMAIN p.m.globals \subseteq DOMAIN m.globals,
         HasLists(m), p.m.linked => m.linked, NEW q, q = [p EXCEPT !.m = m]
  PROVE  Follows(p, q)
<1>1. IsParser(q) /\ q.serial = p.serial /\ q.m = m /\ q.expected = p.expected /\ q.error = p.error
  BY DEF WellFormed, IsParser, ParserFields
<1> QED
  BY <1>1 DEF Follows, SameLinks, WellFormed, Ok

LEMMA FollowsFields ==
  ASSUME NEW p, WellFormed(p), NEW x
  PROVE  /\ Follows(p, [p EXCEPT !.m.types = x]) /\ Follows(p, [p EXCEPT !.m.memory = x])
         /\ Follows(p, [p EXCEPT !.m.memoryImported = x]) /\ Follows(p, [p EXCEPT !.m.start = x])
         /\ Follows(p, [p EXCEPT !.m.table0 = x]) /\ Follows(p, [p EXCEPT !.m.linked = TRUE])
         /\ IsSeq(x) => Follows(p, [p EXCEPT !.m.data = x])
         /\ IsSeq(x) /\ DOMAIN p.m.globals \subseteq DOMAIN x => Follows(p, [p EXCEPT !.m.globals = x])
         /\ IsSegments(x.items) => Follows(p, [p EXCEPT !.m.elements = x])
<1>1. IsModule(p.m) /\ HasLists(p.m)
  BY DEF WellFormed
<1>2. ASSUME NEW m, m \in {[p.m EXCEPT !.types = x], [p.m EXCEPT !.memory = x],
         [p.m EXCEPT !.memoryImported = x], [p.m EXCEPT !.start = x], [p.m EXCEPT !.table0 = x],
         [p.m EXCEPT !.linked = TRUE]}
      PROVE  Follows(p, [p EXCEPT !.m = m])
  <2>1. /\ IsModule(m) /\ m.functions = p.m.functions /\ m.imports = p.m.imports /\ HasLists(m)
        /\ m.globals = p.m.globals /\ (p.m.linked => m.linked)
    BY <1>1, <1>2 DEF IsModule, ModuleFields, HasLists
  <2> QED
    BY <2>1, FollowsFunctions
<1>3. ASSUME NEW m, \/ IsSeq(x) /\ DOMAIN p.m.globals \subseteq DOMAIN x /\ m = [p.m EXCEPT !.globals = x]
                    \/ IsSeq(x) /\ m = [p.m EXCEPT !.data = x]
                    \/ IsSegments(x.items) /\ m = [p.m EXCEPT !.elements = x]
      PROVE  Follows(p, [p EXCEPT !.m = m])
  <2>1. /\ IsModule(m) /\ m.functions = p.m.functions /\ m.imports = p.m.imports /\ HasLists(m)
        /\ DOMAIN p.m.globals \subseteq DOMAIN m.globals /\ (p.m.linked => m.linked)
    BY <1>1, <1>3 DEF IsModule, ModuleFields, HasLists
  <2> QED
    BY <2>1, FollowsFunctions
<1> QED
  BY <1>2, <1>3

LEMMA FollowsRecord ==
  ASSUME NEW p, WellFormed(p), NEW x
  PROVE  Follows(p, [p EXCEPT !.pages = x]) /\ Follows(p, [p EXCEPT !.funcTypes = x])
<1>1. ASSUME NEW q, q \in {[p EXCEPT !.pages = x], [p EXCEPT !.funcTypes = x]}
      PROVE  Follows(p, q)
  <2>1. IsParser(q) /\ q.serial = p.serial /\ q.m = p.m /\ q.expected = p.expected /\ q.error = p.error
    BY <1>1 DEF WellFormed, IsParser, ParserFields
  <2> QED
    BY <2>1, FollowsModule DEF Ok, WellFormed
<1> QED
  BY <1>1

\* Where functions and globals are the same, and the heap but for the arrays.
LEMMA OwnsArrays ==
  ASSUME NEW p, NEW q, q.m.functions = p.m.functions, q.m.globals = p.m.globals,
         q.twice = p.twice, q.serial = p.serial, q.funcTypes = p.funcTypes,
         q.heap \ Arrays = p.heap \ Arrays,
         <<"memory", 0>> \in q.heap => HasRuntime(p) \/ <<"memory", 0>> \in p.heap
  PROVE  Owning(p, q)
<1>1. Blocks(q.m) = Blocks(p.m)
  BY Zenon DEF Blocks, FunctionOwners, GlobalOwners
<1>2. Shaped(p.m) => Shaped(q.m)
  BY DEF Shaped
<1>3. Owns(p) => Unmoved(p, q)
  BY <1>1, <1>2 DEF Owns, Numbered, Unmoved
<1> QED
  BY <1>3, OwnsUnmoved

LEMMA OwnsSameHeap ==
  ASSUME NEW p, NEW q, q.m.functions = p.m.functions, q.m.globals = p.m.globals, SameHeap(p, q)
  PROVE  Owning(p, q)
  BY OwnsArrays DEF SameHeap

LEMMA KeptFail ==
  ASSUME NEW p, WellFormed(p), NEW e, e # "none"
  PROVE  Kept(p, Fail(p, e)) /\ ~Ok(Fail(p, e))
<1>1. PICK q : q = Fail(p, e)
  OBVIOUS
<1>2. q.m = p.m /\ SameHeap(p, q)
  BY <1>1 DEF WellFormed, IsParser, ParserFields, Fail, SameHeap
<1> QED
  BY <1>1, <1>2, FollowsFail, OwnsSameHeap DEF Kept

LEMMA KeptArrays ==
  ASSUME NEW p, WellFormed(p), NEW tag \in ArrayTags, NEW tags, tags \subseteq ArrayTags
  PROVE  /\ tag # "memory" \/ HasRuntime(p) => Kept(p, Alloc(p, {<<tag, 0>>}))
         /\ Kept(p, FreeArrays(p, tags))
<1>1. PICK a, b : a = Alloc(p, {<<tag, 0>>}) /\ b = FreeArrays(p, tags)
  OBVIOUS
<1>2. Follows(p, a) /\ Follows(p, b)
  BY <1>1, FollowsHeap
<1>3. /\ a.m = p.m /\ a.twice = p.twice /\ a.serial = p.serial /\ a.funcTypes = p.funcTypes
      /\ a.heap = p.heap \cup {<<tag, 0>>}
  BY <1>1 DEF WellFormed, IsParser, ParserFields, Alloc
<1>4. /\ b.m = p.m /\ b.twice = p.twice /\ b.serial = p.serial /\ b.funcTypes = p.funcTypes
      /\ b.heap = p.heap \ {<<n, 0>> : n \in tags}
  BY <1>1 DEF WellFormed, IsParser, ParserFields, FreeArrays
<1>5. <<tag, 0>> \in Arrays /\ {<<n, 0>> : n \in tags} \subseteq Arrays
  BY DEF Arrays
<1>6. a.heap \ Arrays = p.heap \ Arrays /\ b.heap \ Arrays = p.heap \ Arrays
  BY ONLY <1>3, <1>4, <1>5
<1>7. Owning(p, b)
  BY <1>4, <1>6, OwnsArrays
<1>8. tag # "memory" \/ HasRuntime(p) => Owning(p, a)
  BY <1>3, <1>6, OwnsArrays
<1> QED
  BY <1>1, <1>2, <1>7, <1>8 DEF Kept

\* A string that is read and freed.
LEMMA KeptString ==
  ASSUME NEW p, WellFormed(p), NEW tag \in OwnTags
  PROVE  Kept(p, ReadString(p, tag))
<1>1. PICK b : b = <<tag, p.serial>>
  OBVIOUS
<1>2. PICK a : a = Take(p, {tag})
  OBVIOUS
<1>3. PICK q : q = Free(a, {b})
  OBVIOUS
<1>4. Follows(p, a) /\ WellFormed(a)
  BY <1>2, FollowsHeap, FollowsWell
<1>5. /\ a.m = p.m /\ a.twice = p.twice /\ a.serial = p.serial + 1 /\ a.funcTypes = p.funcTypes
      /\ a.heap = p.heap \cup {b}
  BY <1>1, <1>2 DEF WellFormed, IsParser, ParserFields, Take
<1>6. b # NoString
  BY <1>1 DEF OwnTags, NoString
<1>7. /\ q.m = a.m /\ q.serial = a.serial /\ q.funcTypes = a.funcTypes
      /\ q.heap = a.heap \ {b} /\ q.twice = (a.twice \/ ~({b} \subseteq a.heap))
  BY <1>3, <1>4, <1>6 DEF WellFormed, IsParser, ParserFields, Free
<1>8. ASSUME Owns(p)
      PROVE  Unmoved(p, q)
  <2>1. b \notin p.heap /\ p.serial \in Nat
    BY <1>1, <1>8 DEF Owns, Numbered
  <2>2. q.heap = p.heap /\ q.twice = p.twice
    BY <1>5, <1>7, <1>8, <2>1 DEF Owns
  <2> QED
    BY <1>5, <1>7, <1>8, <2>1, <2>2 DEF Owns, Unmoved
<1>9. Owning(p, q)
  BY <1>8, OwnsUnmoved
<1>10. q = ReadString(p, tag)
  BY <1>1, <1>2, <1>3 DEF ReadString
<1> QED
  BY <1>9, <1>10, FollowsHeap DEF Kept

LEMMA KeptFields ==
  ASSUME NEW p, WellFormed(p), NEW x
  PROVE  /\ Kept(p, [p EXCEPT !.m.types = x]) /\ Kept(p, [p EXCEPT !.m.memory = x])
         /\ Kept(p, [p EXCEPT !.m.memoryImported = x]) /\ Kept(p, [p EXCEPT !.m.start = x])
         /\ Kept(p, [p EXCEPT !.m.table0 = x]) /\ Kept(p, [p EXCEPT !.m.linked = TRUE])
         /\ Kept(p, [p EXCEPT !.pages = x])
         /\ IsSeq(x) => Kept(p, [p EXCEPT !.m.data = x])
         /\ IsSegments(x.items) => Kept(p, [p EXCEPT !.m.elements = x])
<1>1. ASSUME NEW m, m \in {[p.m EXCEPT !.types = x], [p.m EXCEPT !.memory = x],
         [p.m EXCEPT !.memoryImported = x], [p.m EXCEPT !.start = x], [p.m EXCEPT !.table0 = x],
         [p.m EXCEPT !.linked = TRUE], [p.m EXCEPT !.data = x], [p.m EXCEPT !.elements = x]}
      PROVE  Owning(p, [p EXCEPT !.m = m])
  <2>1. m.functions = p.m.functions /\ m.globals = p.m.globals
    BY <1>1 DEF WellFormed, IsModule, ModuleFields
  <2>2. PICK q : q = [p EXCEPT !.m = m]
    OBVIOUS
  <2>3. q.m = m /\ SameHeap(p, q)
    BY <2>2 DEF WellFormed, IsParser, ParserFields, SameHeap
  <2> QED
    BY <2>1, <2>2, <2>3, OwnsSameHeap
<1>2. Owning(p, [p EXCEPT !.pages = x])
  <2>1. PICK q : q = [p EXCEPT !.pages = x]
    OBVIOUS
  <2>2. q.m = p.m /\ SameHeap(p, q)
    BY <2>1 DEF WellFormed, IsParser, ParserFields, SameHeap
  <2> QED
    BY <2>1, <2>2, OwnsSameHeap
<1> QED
  BY <1>1, <1>2, FollowsFields, FollowsRecord DEF Kept

\* One function is another one now, in an equal place.
LEMMA FunctionsPut ==
  ASSUME NEW s, AreFunctions(s), NEW f \in 1 .. Len(s), NEW x, IsFunction(x),
         NEW t, t = [s EXCEPT ![f] = x]
  PROVE  /\ AreFunctions(t) /\ Len(t) = Len(s) /\ t[f] = x
         /\ \A g \in 1 .. Len(s) : g # f => t[g] = s[g]
<1>1. PICK S : s \in Seq(S)
  BY DEF AreFunctions, IsSeq
<1>2. s \in Seq(S \cup {x})
  BY <1>1, MoreMembers
<1>3. t \in Seq(S \cup {x}) /\ Len(t) = Len(s) /\ \A g \in 1 .. Len(s) : t[g] = IF g = f THEN x ELSE s[g]
  BY <1>2, ExceptSeq
<1> QED
  BY <1>3 DEF AreFunctions, IsSeq

\* A module with other functions, or another function.
SetFunctions(p, t)   == [p EXCEPT !.m.functions = t]
SetFunction(p, f, g) == SetFunctions(p, [p.m.functions EXCEPT ![f] = g])

LEMMA WithFunctions ==
  ASSUME NEW p, WellFormed(p), NEW t, AreFunctions(t), NEW q, q = SetFunctions(p, t)
  PROVE  /\ WellFormed(q) /\ q.m.functions = t /\ q.m.imports = p.m.imports
         /\ q.m.globals = p.m.globals /\ q.expected = p.expected /\ q.error = p.error
         /\ q.m.linked = p.m.linked /\ SameHeap(p, q)
<1>1. PICK m : m = [p.m EXCEPT !.functions = t]
  OBVIOUS
<1>2. /\ IsModule(m) /\ HasLists(m) /\ m.functions = t /\ m.imports = p.m.imports
      /\ m.globals = p.m.globals /\ m.linked = p.m.linked
  BY <1>1 DEF WellFormed, IsModule, ModuleFields, HasLists
<1>3. q = [p EXCEPT !.m = m]
  BY <1>1 DEF SetFunctions
<1>4. IsParser(q) /\ SameHeap(p, q) /\ q.m = m /\ q.expected = p.expected /\ q.error = p.error
  BY <1>3 DEF WellFormed, IsParser, ParserFields, SameHeap
<1> QED
  BY <1>2, <1>4 DEF WellFormed, SameHeap

LEMMA FollowsLinks ==
  ASSUME NEW p, WellFormed(p), NEW t, AreFunctions(t), SameLinks(p.m.functions, t),
         NEW q, q = SetFunctions(p, t)
  PROVE  Follows(p, q) /\ q.m.functions = t
<1>1. /\ WellFormed(q) /\ q.m.functions = t /\ q.m.imports = p.m.imports
      /\ q.m.globals = p.m.globals /\ q.expected = p.expected /\ q.error = p.error
      /\ q.m.linked = p.m.linked
  BY WithFunctions
<1> QED
  BY ONLY <1>1, SameLinks(p.m.functions, t) DEF Follows, Ok

LEMMA FollowsPut ==
  ASSUME NEW p, WellFormed(p), NEW f \in 1 .. Len(p.m.functions), NEW g, IsFunction(g),
         g.import = p.m.functions[f].import, g.stub = p.m.functions[f].stub,
         NEW q, q = SetFunction(p, f, g)
  PROVE  Follows(p, q) /\ q.m.functions[f] = g /\ f \in 1 .. Len(q.m.functions)
<1>1. PICK s, t : s = p.m.functions /\ t = [s EXCEPT ![f] = g]
  OBVIOUS
<1>2. AreFunctions(s)
  BY <1>1 DEF WellFormed
<1>3. AreFunctions(t) /\ Len(t) = Len(s) /\ t[f] = g /\ \A h \in 1 .. Len(s) : h # f => t[h] = s[h]
  BY <1>1, <1>2, FunctionsPut
<1>4. SameLinks(s, t)
  BY <1>1, <1>3 DEF SameLinks
<1>5. q = SetFunctions(p, t)
  BY <1>1 DEF SetFunction
<1>6. Follows(p, q) /\ q.m.functions = t
  BY <1>1, <1>3, <1>4, <1>5, FollowsLinks
<1> QED
  BY <1>1, <1>3, <1>6

SetNames(f, x)        == [f EXCEPT !.names = x]
SetBody(f, x)         == [f EXCEPT !.body = x]
SetStub(f, x)         == [f EXCEPT !.stub = x]
SetCompiled(f, x)     == [f EXCEPT !.compiled = x]
SetConstants(f, x)    == [f EXCEPT !.constants = x]
SameImported(f, g)    == IsFunction(g) /\ g.import = f.import

LEMMA FunctionChanges ==
  ASSUME NEW f, IsFunction(f), NEW x
  PROVE  /\ SameImported(f, SetNames(f, x)) /\ SetNames(f, x).stub = f.stub
         /\ SameImported(f, SetBody(f, x)) /\ SetBody(f, x).stub = f.stub
         /\ SameImported(f, SetCompiled(f, x)) /\ SetCompiled(f, x).stub = f.stub
         /\ SameImported(f, SetConstants(f, x)) /\ SetConstants(f, x).stub = f.stub
         /\ SameImported(f, SetStub(f, x)) /\ SetStub(f, x).stub = x
  BY DEF IsFunction, FunctionFields, SameImported, SetNames, SetBody, SetCompiled, SetConstants, SetStub

LEMMA FollowsNames ==
  ASSUME NEW p, WellFormed(p), NEW f \in 1 .. Len(p.m.functions), NEW x
  PROVE  Follows(p, [p EXCEPT !.m.functions[f].names = x])
<1>1. PICK g, q : g = SetNames(p.m.functions[f], x) /\ q = SetFunction(p, f, g)
  OBVIOUS
<1>2. IsFunction(p.m.functions[f])
  BY DEF WellFormed, AreFunctions
<1>3. IsFunction(g) /\ g.import = p.m.functions[f].import /\ g.stub = p.m.functions[f].stub
  BY <1>1, <1>2, FunctionChanges DEF SameImported
<1>4. q = [p EXCEPT !.m.functions[f].names = x]
  BY ONLY <1>1 DEF SetNames, SetFunction, SetFunctions
<1>5. Follows(p, q)
  BY <1>1, <1>3, FollowsPut
<1> QED
  BY <1>4, <1>5

LEMMA FollowsCompiled ==
  ASSUME NEW p, WellFormed(p), NEW f \in 1 .. Len(p.m.functions), NEW x, NEW y
  PROVE  Follows(p, [p EXCEPT !.m.functions[f].compiled = x, !.m.functions[f].constants = y])
<1>1. PICK g, h : g = SetCompiled(p.m.functions[f], x) /\ h = SetConstants(g, y)
  OBVIOUS
<1>2. IsFunction(p.m.functions[f])
  BY DEF WellFormed, AreFunctions
<1>3. IsFunction(g) /\ g.import = p.m.functions[f].import /\ g.stub = p.m.functions[f].stub
  BY <1>1, <1>2, FunctionChanges DEF SameImported
<1>4. IsFunction(h) /\ h.import = g.import /\ h.stub = g.stub
  BY <1>1, <1>3, FunctionChanges DEF SameImported
<1>5. PICK q : q = SetFunction(p, f, g)
  OBVIOUS
<1>6. Follows(p, q) /\ q.m.functions[f] = g /\ f \in 1 .. Len(q.m.functions)
  BY <1>3, <1>5, FollowsPut
<1>7. PICK r : r = SetFunction(q, f, h)
  OBVIOUS
<1>8. Follows(q, r)
  BY <1>4, <1>6, <1>7, FollowsPut DEF Follows
<1>9. r = [q EXCEPT !.m.functions[f].constants = y]
  BY ONLY <1>1, <1>6, <1>7 DEF SetConstants, SetFunction, SetFunctions
<1>10. q = [p EXCEPT !.m.functions[f].compiled = x]
  BY ONLY <1>1, <1>5 DEF SetCompiled, SetFunction, SetFunctions
<1>11. r = [p EXCEPT !.m.functions[f].compiled = x, !.m.functions[f].constants = y]
  BY ONLY <1>9, <1>10
<1> QED
  BY <1>6, <1>8, <1>11, FollowsTwice

-----------------------------------------------------------------------------
(* Reading a section item by item.  A loop's context is the section and    *)
(* the parser's record before it.                                          *)

Places(section)  == [k \in 1 .. Len(section.items) |-> k]
KeptItem(c, k, x) == Kept(c.base, x)

\* What an export names is there, where the parser took it.
Exportable(p, e) ==
  /\ e.kind \in {"function", "global", "table", "memory", "other"}
  /\ e.kind = "function" => e.index < Len(p.m.functions)
  /\ e.kind = "global"   => e.index + 1 \in DOMAIN p.m.globals

CanExport(p, items) == \A k \in 1 .. Len(items) : Exportable(p, items[k])
Indexed(items)      == \A k \in 1 .. Len(items) : items[k].index \in Nat
AreNumbers(items)   == \A k \in 1 .. Len(items) : items[k] \in Nat

LEMMA ExportKept ==
  ASSUME NEW p, NEW q, Follows(p, q)
  PROVE  /\ \A e : Exportable(p, e) => Exportable(q, e)
         /\ \A items : CanExport(p, items) => CanExport(q, items)
<1>1. \A e : Exportable(p, e) => Exportable(q, e)
  BY DEF Follows, SameLinks, Exportable
<1> QED
  BY <1>1 DEF CanExport

TypeStep(c, q, k) == IF Ok(q) THEN ParseType(q, c.section.items[k]) ELSE q
Types == INSTANCE Folding WITH Op <- TypeStep, Inv <- KeptItem

LEMMA TypesRead ==
  ASSUME NEW c, NEW p
  PROVE  ReadItems(LAMBDA q, k, item : ParseType(q, item), LAMBDA q : q, p, c.section) =
           LET read == Types!Fold(c, p, Places(c.section))
           IN IF c.section.cut /\ Ok(read) THEN Fail(read, "underrun") ELSE read
  BY Zenon DEF ReadItems, Places, TypeStep, FoldLeft, MapThenFoldSet, Max, Types!Fold,
          Types!MapThenFoldSet, Types!Largest

LEMMA FollowsAddFuncType ==
  ASSUME NEW p, WellFormed(p), NEW x, NEW y
  PROVE  Follows(p, AddFuncType(p, x, y))
<1>1. PICK z : z = <<[type |-> x, at |-> y]>> \o p.funcTypes
  OBVIOUS
<1>2. Follows(p, [p EXCEPT !.funcTypes = z]) /\ Follows(p, Free(p, {y}))
  BY FollowsRecord, FollowsHeap
<1> QED
  BY <1>1, <1>2, Zenon DEF AddFuncType

LEMMA FollowsType ==
  ASSUME NEW p, WellFormed(p), NEW item
  PROVE  Follows(p, ParseType(p, item))
<1>0. PICK at : at = <<"type", p.serial>>
  OBVIOUS
<1>1. PICK a : a = Take(p, {"type"})
  OBVIOUS
<1>2. Follows(p, a) /\ WellFormed(a)
  BY <1>1, FollowsHeap, FollowsWell, Zenon
<1>3. PICK q : q = Free(a, {at})
  OBVIOUS
<1>4. PICK r : r = AddFuncType(a, item, at)
  OBVIOUS
<1>5. Follows(p, q) /\ WellFormed(q)
  BY <1>2, <1>3, FollowsHeap, FollowsWell, FollowsTwice, Zenon
<1>6. Follows(p, r) /\ WellFormed(r)
  BY <1>2, <1>4, FollowsAddFuncType, FollowsWell, FollowsTwice, Zenon
<1>7. Follows(p, Fail(p, "type")) /\ Follows(p, Fail(p, "too many arguments or results")) /\ Follows(p, Fail(q, "type"))
  BY <1>5, FollowsFail, FollowsTwice
<1>8. PICK x : x = Append(r.m.types, item)
  OBVIOUS
<1>9. Follows(p, [r EXCEPT !.m.types = x])
  BY <1>6, FollowsFields, FollowsTwice
<1> QED
  BY <1>0, <1>1, <1>3, <1>4, <1>7, <1>8, <1>9, Zenon DEF ParseType

InFront(x, s) == <<x>> \o s

LEMMA PutInFront ==
  ASSUME NEW s, IsSeq(s), NEW x, NEW t, t = InFront(x, s)
  PROVE  /\ IsSeq(t) /\ Len(s) \in Nat /\ Len(t) = Len(s) + 1
         /\ t[1] = x /\ \A k \in 1 .. Len(s) : t[k + 1] = s[k]
<1>0. t = <<x>> \o s
  BY DEF InFront
<1>1. PICK S : s \in Seq(S)
  BY DEF IsSeq
<1>2. PICK X : X = S \cup {x}
  OBVIOUS
<1>3. s \in Seq(X)
  BY <1>1, <1>2, MoreMembers
<1>4. <<x>> \in Seq(X)
  BY <1>2
<1>5. t \in Seq(X) /\ Len(s) \in Nat /\ Len(t) = 1 + Len(s)
  BY <1>0, <1>3, <1>4
<1>6. t[1] = x /\ \A k \in 1 .. Len(s) : t[k + 1] = s[k]
  BY <1>0, <1>3, <1>4
<1> QED
  BY <1>5, <1>6 DEF IsSeq

\* A type is freed at once, or is the environment's.
LEMMA OwnsType ==
  ASSUME NEW p, WellFormed(p), NEW a, a = Take(p, {"type"}), NEW at, at = <<"type", p.serial>>, NEW x
  PROVE  Owning(p, Free(a, {at})) /\ Owning(p, AddFuncType(a, x, at))
<1>1. /\ a.m = p.m /\ a.twice = p.twice /\ a.serial = p.serial + 1 /\ a.funcTypes = p.funcTypes
      /\ a.heap = p.heap \cup {at} /\ IsParser(a)
  BY DEF WellFormed, IsParser, ParserFields, Take
<1>2. PICK q : q = Free(a, {at})
  OBVIOUS
<1>3. at # NoString
  BY DEF NoString
<1>4. /\ q.m = a.m /\ q.serial = a.serial /\ q.funcTypes = a.funcTypes
      /\ q.heap = a.heap \ {at} /\ q.twice = (a.twice \/ ~({at} \subseteq a.heap))
  BY <1>1, <1>2, <1>3 DEF IsParser, ParserFields, Free
<1>5. Owns(p) => at \notin p.heap /\ p.serial \in Nat /\ p.twice = FALSE
  BY DEF Owns, Numbered
<1>6. ASSUME Owns(p)
      PROVE  Unmoved(p, q)
  <2>1. q.heap = p.heap /\ q.twice = p.twice
    BY <1>1, <1>4, <1>5, <1>6
  <2> QED
    BY <1>1, <1>4, <1>5, <1>6, <2>1 DEF Owns, Unmoved
<1>7. Owning(p, q)
  BY <1>6, OwnsUnmoved
<1>8. PICK z : z = [type |-> x, at |-> at]
  OBVIOUS
<1>9. PICK r : r = [a EXCEPT !.funcTypes = <<z>> \o @]
  OBVIOUS
<1>10. /\ r.m = p.m /\ r.twice = p.twice /\ r.serial = p.serial + 1 /\ r.funcTypes = <<z>> \o p.funcTypes
       /\ r.heap = p.heap \cup {at}
  BY <1>1, <1>9 DEF IsParser, ParserFields
<1>11. ASSUME Owns(p)
       PROVE  Owns(r) /\ (HasRuntime(p) <=> HasRuntime(r))
  <2>1. IsSeq(p.funcTypes)
    BY <1>11 DEF Owns, Accounted
  <2>2. PICK s : s = r.funcTypes
    OBVIOUS
  <2>3. /\ IsSeq(s) /\ Len(p.funcTypes) \in Nat /\ Len(s) = Len(p.funcTypes) + 1
        /\ s[1] = z /\ \A k \in 1 .. Len(p.funcTypes) : s[k + 1] = p.funcTypes[k]
    <3>1. PICK u : u = p.funcTypes
      OBVIOUS
    <3>2. IsSeq(u) /\ s = InFront(z, u)
      BY ONLY <1>10, <2>1, <2>2, <3>1 DEF InFront
    <3>3. IsSeq(s) /\ Len(u) \in Nat /\ Len(s) = Len(u) + 1 /\ s[1] = z /\ \A k \in 1 .. Len(u) : s[k + 1] = u[k]
      BY ONLY <3>2, PutInFront
    <3> QED
      BY ONLY <3>1, <3>3
  <2>4. TypeBlocks(r) = TypeBlocks(p) \cup {at}
    <3>1. \A b \in TypeBlocks(r) : b \in TypeBlocks(p) \/ b = at
      <4>1. TAKE b \in TypeBlocks(r)
      <4>2. PICK k \in 1 .. Len(s) : b = s[k].at
        BY <2>2 DEF TypeBlocks
      <4>3. CASE k = 1
        BY <1>8, <2>3, <4>2, <4>3
      <4>4. CASE k # 1
        <5>1. k - 1 \in 1 .. Len(p.funcTypes) /\ s[(k - 1) + 1] = p.funcTypes[k - 1] /\ (k - 1) + 1 = k
          BY <2>3, <4>4
        <5> QED
          BY <4>2, <5>1 DEF TypeBlocks
      <4> QED
        BY <4>3, <4>4
    <3>2. \A b \in TypeBlocks(p) : b \in TypeBlocks(r)
      <4>1. TAKE b \in TypeBlocks(p)
      <4>2. PICK k \in 1 .. Len(p.funcTypes) : b = p.funcTypes[k].at
        BY DEF TypeBlocks
      <4>3. k + 1 \in 1 .. Len(s) /\ s[k + 1].at = b
        BY <2>3, <4>2
      <4> QED
        BY <2>2, <4>3 DEF TypeBlocks
    <3>3. at \in TypeBlocks(r)
      <4>1. 1 \in 1 .. Len(s) /\ s[1].at = at
        BY <1>8, <2>3
      <4> QED
        BY <2>2, <4>1 DEF TypeBlocks
    <3> QED
      BY <3>1, <3>2, <3>3
  <2>5. at[1] = "type" /\ at[2] = p.serial /\ at[1] \notin OwnTags /\ at \notin Arrays /\ at \notin Bases
    BY DEF OwnTags, Arrays, ArrayTags, Bases
  <2>6. Ledger(Blocks(r.m), r.heap)
    <3>1. Ledger(Blocks(p.m), p.heap)
      BY <1>11 DEF Owns
    <3>2. r.m = p.m /\ r.heap = p.heap \cup {at} /\ at[1] \notin OwnTags
      BY <1>10, <2>5
    <3> QED
      BY ONLY <3>1, <3>2 DEF Ledger
  <2>7. Numbered(r)
    BY <1>10, <1>11, <2>5 DEF Owns, Numbered
  <2>8. Accounted(r)
    <3>1. Accounted(p)
      BY <1>11 DEF Owns
    <3>2. \A b : b # at => (b \in r.heap <=> b \in p.heap)
      BY <1>10
    <3>3. at # <<"runtime", 0>> /\ at # <<"stack", 0>> /\ at # <<"memory", 0>> /\ at \in r.heap
      BY <1>10
    <3>4. HasRuntime(r) <=> HasRuntime(p)
      BY <3>2, <3>3 DEF HasRuntime
    <3>5. \A b \in TypeBlocks(r) : b \in r.heap /\ b[1] \in {"type", "rettype"}
      BY <1>10, <2>4, <2>5, <3>1 DEF Accounted
    <3>6. IsSeq(r.funcTypes)
      BY <2>2, <2>3
    <3>7. <<"environment", 0>> \in r.heap /\ <<"M3Module", 0>> \in r.heap
      BY <1>10, <3>1 DEF Accounted
    <3>8. (HasRuntime(r) <=> <<"stack", 0>> \in r.heap) /\ (<<"memory", 0>> \in r.heap => HasRuntime(r))
      BY <3>1, <3>2, <3>3, <3>4 DEF Accounted
    <3>9. \A b \in r.heap : b[1] \in OwnTags \/ b \in Arrays \cup Bases \cup TypeBlocks(r)
      BY <1>10, <2>4, <3>1 DEF Accounted
    <3> QED
      BY ONLY <3>5, <3>6, <3>7, <3>8, <3>9 DEF Accounted
  <2>9. HasRuntime(p) <=> HasRuntime(r)
    BY <1>10 DEF HasRuntime
  <2> QED
    BY <1>10, <1>11, <2>6, <2>7, <2>8, <2>9 DEF Owns
<1>12. AddFuncType(a, x, at) \in {q, r}
  BY <1>2, <1>8, <1>9 DEF AddFuncType
<1> QED
  BY <1>2, <1>7, <1>11, <1>12 DEF Owning

LEMMA OwningTwice ==
  ASSUME NEW p, NEW q, NEW r, Owning(p, q), Owning(q, r)
  PROVE  Owning(p, r)
  BY DEF Owning

LEMMA KeptType ==
  ASSUME NEW p, WellFormed(p), NEW item
  PROVE  Kept(p, ParseType(p, item))
<1>1. PICK at : at = <<"type", p.serial>>
  OBVIOUS
<1>2. PICK a : a = Take(p, {"type"})
  OBVIOUS
<1>3. PICK q, r : q = Free(a, {at}) /\ r = AddFuncType(a, item, at)
  OBVIOUS
<1>4. WellFormed(a) /\ WellFormed(q) /\ WellFormed(r)
  <2>1. WellFormed(a)
    BY <1>2, FollowsHeap, FollowsWell
  <2> QED
    BY <1>3, <2>1, FollowsHeap, FollowsAddFuncType, FollowsWell
<1>5. Owning(p, q) /\ Owning(p, r)
  BY <1>1, <1>2, <1>3, OwnsType
<1>6. PICK x : x = Append(r.m.types, item)
  OBVIOUS
<1>7. Owning(p, [r EXCEPT !.m.types = x])
  <2>1. Kept(r, [r EXCEPT !.m.types = x])
    BY <1>4, KeptFields
  <2> QED
    BY <1>5, <2>1, OwningTwice DEF Kept
<1>8. Owning(p, Fail(q, "type"))
  <2>1. Kept(q, Fail(q, "type"))
    BY <1>4, KeptFail
  <2> QED
    BY <1>5, <2>1, OwningTwice DEF Kept
<1>9. Owning(p, Fail(p, "type")) /\ Owning(p, Fail(p, "too many arguments or results"))
  <2>1. Kept(p, Fail(p, "type")) /\ Kept(p, Fail(p, "too many arguments or results"))
    BY KeptFail
  <2> QED
    BY <2>1 DEF Kept
<1>10. Owning(p, ParseType(p, item))
  BY <1>1, <1>2, <1>3, <1>6, <1>7, <1>8, <1>9, Zenon DEF ParseType
<1> QED
  BY <1>10, FollowsType DEF Kept

LEMMA ListPlaces ==
  ASSUME NEW section, IsList(section.items), NEW n, n = Len(section.items)
  PROVE  n \in Nat /\ DOMAIN Places(section) = 1 .. n /\ \A k \in 1 .. n : Places(section)[k] = k
  BY DEF IsList, Places


\* A sequence with one element more, or another one somewhere.
LEMMA SeqChanges ==
  ASSUME NEW s, IsSeq(s), NEW x, NEW i
  PROVE  /\ IsSeq(Append(s, x)) /\ IsSeq([s EXCEPT ![i] = x])
         /\ DOMAIN s \subseteq DOMAIN Append(s, x) /\ DOMAIN s \subseteq DOMAIN [s EXCEPT ![i] = x]
<1>1. PICK S : s \in Seq(S)
  BY DEF IsSeq
<1>2. s \in Seq(S \cup {x})
  BY <1>1, MoreMembers
<1>3. Append(s, x) \in Seq(S \cup {x})
  BY <1>2
<1>4. [s EXCEPT ![i] = x] \in Seq(S \cup {x})
  <2>1. CASE i \in 1 .. Len(s)
    BY <1>2, <2>1, ExceptSeq
  <2>2. CASE i \notin 1 .. Len(s)
    <3>1. s = [k \in 1 .. Len(s) |-> s[k]]
      BY <1>2
    <3>2. [s EXCEPT ![i] = x] = s
      BY <2>2, <3>1
    <3> QED
      BY <1>2, <3>2
  <2> QED
    BY <2>1, <2>2
<1>5. DOMAIN s \subseteq DOMAIN Append(s, x) /\ DOMAIN [s EXCEPT ![i] = x] = DOMAIN s
  BY <1>1
<1> QED
  BY <1>3, <1>4, <1>5 DEF IsSeq

\* Also where there is no such function.
LEMMA FollowsNamesAnywhere ==
  ASSUME NEW p, WellFormed(p), NEW f, NEW x
  PROVE  Follows(p, [p EXCEPT !.m.functions[f].names = x])
<1>1. CASE f \in 1 .. Len(p.m.functions)
  BY <1>1, FollowsNames
<1>2. CASE f \notin 1 .. Len(p.m.functions)
  <2>1. PICK s : s = p.m.functions
    OBVIOUS
  <2>2. AreFunctions(s) /\ f \notin DOMAIN s
    BY <1>2, <2>1, SeqParts DEF WellFormed, AreFunctions
  <2>3. PICK S : s \in Seq(S)
    BY <2>2 DEF AreFunctions, IsSeq
  <2>4. s = [k \in 1 .. Len(s) |-> s[k]]
    BY <2>3
  <2>5. PICK q : q = SetFunctions(p, s)
    OBVIOUS
  <2>6. Follows(p, q)
    BY <2>1, <2>2, <2>5, FollowsLinks DEF SameLinks
  <2>7. PICK t : t = [s EXCEPT ![f].names = x]
    OBVIOUS
  <2>8. t = s
    BY <1>2, <2>1, <2>4, <2>7
  <2>9. q = [p EXCEPT !.m.functions[f].names = x]
    BY ONLY <2>1, <2>5, <2>7, <2>8 DEF SetFunctions
  <2> QED
    BY <2>6, <2>9
<1> QED
  BY <1>1, <1>2

LEMMA FollowsGlobals ==
  ASSUME NEW p, WellFormed(p), NEW x, NEW g
  PROVE  /\ Follows(p, [p EXCEPT !.m.globals = Append(@, x)])
         /\ Follows(p, [p EXCEPT !.m.globals[g].name = x])
         /\ Follows(p, [p EXCEPT !.m.globals[g].value = x])
<1>1. PICK y, z : y = [p.m.globals[g] EXCEPT !.name = x] /\ z = [p.m.globals[g] EXCEPT !.value = x]
  OBVIOUS
<1>2. PICK a, b, c : /\ a = Append(p.m.globals, x) /\ b = [p.m.globals EXCEPT ![g] = y]
                     /\ c = [p.m.globals EXCEPT ![g] = z]
  OBVIOUS
<1>3. /\ IsSeq(a) /\ IsSeq(b) /\ IsSeq(c)
      /\ DOMAIN p.m.globals \subseteq DOMAIN a /\ DOMAIN p.m.globals \subseteq DOMAIN b
      /\ DOMAIN p.m.globals \subseteq DOMAIN c
  BY <1>2, SeqChanges DEF WellFormed, HasLists
<1>4. Follows(p, [p EXCEPT !.m.globals = a]) /\ Follows(p, [p EXCEPT !.m.globals = b]) /\ Follows(p, [p EXCEPT !.m.globals = c])
  BY <1>3, FollowsFields
<1> QED
  BY <1>1, <1>2, <1>4

LEMMA KeptData ==
  ASSUME NEW p, WellFormed(p), NEW x
  PROVE  Kept(p, [p EXCEPT !.m.data = Append(@, x)])
<1>1. PICK a : a = Append(p.m.data, x)
  OBVIOUS
<1>2. IsSeq(a)
  BY <1>1, SeqChanges DEF WellFormed, HasLists
<1>3. Kept(p, [p EXCEPT !.m.data = a])
  BY <1>2, KeptFields
<1> QED
  BY <1>1, <1>3

LEMMA FollowsAddGlobal ==
  ASSUME NEW p, WellFormed(p), NEW import, NEW mutable, NEW init
  PROVE  Follows(p, AddGlobal(p, import, mutable, init))
<1>1. PICK a : a = Alloc(p, {<<"globals", 0>>})
  OBVIOUS
<1>2. Follows(p, a) /\ WellFormed(a)
  BY <1>1, FollowsHeap, FollowsWell, Zenon
<1>3. PICK x : x = [import |-> import, name |-> NoString, mutable |-> mutable, init |-> init, value |-> 0]
  OBVIOUS
<1>4. Follows(p, [a EXCEPT !.m.globals = Append(@, x)])
  BY <1>2, FollowsGlobals, FollowsTwice
<1> QED
  BY <1>1, <1>3, <1>4, Zenon DEF AddGlobal

LEMMA FollowsExport ==
  ASSUME NEW p, WellFormed(p), NEW item
  PROVE  Follows(p, ParseExport(p, item))
<1>1. PICK name : name = <<"export", p.serial>>
  OBVIOUS
<1>2. PICK a : a = Take(p, {"export"})
  OBVIOUS
<1>3. PICK b : b = Free(a, {name})
  OBVIOUS
<1>4. PICK i : i = item.index + 1
  OBVIOUS
<1>5. PICK c : c = Free(a, {a.m.globals[i].name})
  OBVIOUS
<1>6. Follows(p, a) /\ WellFormed(a)
  BY <1>2, FollowsHeap, FollowsWell, Zenon
<1>7. Follows(p, b) /\ WellFormed(b)
  BY <1>3, <1>6, FollowsHeap, FollowsWell, FollowsTwice, Zenon
<1>8. Follows(p, c) /\ WellFormed(c)
  BY <1>5, <1>6, FollowsHeap, FollowsWell, FollowsTwice, Zenon
<1>9. Follows(p, ExportFunction(a, i, name))
  <2>1. PICK x : x = Append(a.m.functions[i].names, name)
    OBVIOUS
  <2>2. Follows(p, [a EXCEPT !.m.functions[i].names = x])
    BY <1>6, FollowsNamesAnywhere, FollowsTwice
  <2> QED
    BY <1>3, <1>7, <2>1, <2>2, Zenon DEF ExportFunction
<1>10. Follows(p, ExportGlobal(a, i, name))
  <2>1. Follows(p, [c EXCEPT !.m.globals[i].name = name])
    BY <1>8, FollowsGlobals, FollowsTwice
  <2> QED
    BY <1>5, <2>1, Zenon DEF ExportGlobal
<1>11. Follows(p, Fail(b, "export index"))
  BY <1>7, FollowsFail, FollowsTwice
<1>12. PICK r : r = ParseExport(p, item)
  OBVIOUS
<1>13. r \in {ExportFunction(a, i, name), ExportGlobal(a, i, name), b, Fail(b, "export index")}
  BY <1>1, <1>2, <1>3, <1>4, <1>12 DEF ParseExport
<1> QED
  BY <1>7, <1>9, <1>10, <1>11, <1>12, <1>13

LEMMA ExportParsed ==
  ASSUME NEW p, WellFormed(p), NEW item, item.index \in Nat, NEW q, q = ParseExport(p, item), Ok(q)
  PROVE  Exportable(q, item)
<1>1. Follows(p, q)
  BY FollowsExport
<1>2. PICK b : b = Free(Take(p, {"export"}), {<<"export", p.serial>>})
  OBVIOUS
<1>3. \/ item.kind = "function" /\ item.index < Len(p.m.functions)
      \/ item.kind = "global" /\ item.index < Len(p.m.globals)
      \/ item.kind \in {"table", "memory", "other"}
      \/ q = Fail(b, "export index")
  BY ONLY q = ParseExport(p, item), <1>2 DEF ParseExport
<1>4. q # Fail(b, "export index")
  <2>1. WellFormed(b)
    <3>1. WellFormed(ReadString(p, "export"))
      BY FollowsHeap, FollowsWell
    <3> QED
      BY <1>2, <3>1, Zenon DEF ReadString
  <2> QED
    BY <2>1, FollowsFail
<1>5. IsSeq(p.m.globals) /\ Len(p.m.globals) \in Nat /\ DOMAIN p.m.globals = 1 .. Len(p.m.globals)
  BY SeqParts DEF WellFormed, HasLists
<1>6. item.index < Len(p.m.globals) => item.index + 1 \in DOMAIN p.m.globals
  BY ONLY <1>5, item.index \in Nat
<1>7. Exportable(p, item)
  BY ONLY <1>3, <1>4, <1>6 DEF Exportable
<1> QED
  BY <1>1, <1>7, ExportKept

LEMMA FollowsName ==
  ASSUME NEW p, WellFormed(p), NEW index
  PROVE  Follows(p, ParseName(p, index))
<1>1. PICK a : a = Take(p, {"name"})
  OBVIOUS
<1>2. Follows(p, a) /\ WellFormed(a)
  BY <1>1, FollowsHeap, FollowsWell, Zenon
<1>3. /\ Follows(p, ReadString(p, "name"))
      /\ Follows(p, [a EXCEPT !.m.functions[index + 1].names = <<(<<"name", p.serial>>)>>])
  BY <1>2, FollowsHeap, FollowsNamesAnywhere, FollowsTwice
<1> QED
  BY <1>1, <1>3, Zenon DEF ParseName

ExportStep(c, q, k) == IF Ok(q) THEN ParseExport(q, c.section.items[k]) ELSE q
ExportedUpTo(c, k, x) ==
  Kept(c.base, x) /\ (Ok(x) => \A j \in 1 .. k : Exportable(x, c.section.items[j]))
Exports == INSTANCE Folding WITH Op <- ExportStep, Inv <- ExportedUpTo

LEMMA ExportsRead ==
  ASSUME NEW c, NEW p
  PROVE  ParseSection_Export(p, c.section) =
           LET read == Exports!Fold(c, p, Places(c.section))
           IN IF c.section.cut /\ Ok(read)
              THEN Fail(ReadString(read, "export"), "underrun") ELSE read
  BY Zenon DEF ParseSection_Export, ReadItems, Places, ExportStep, FoldLeft, MapThenFoldSet, Max,
          Exports!Fold,
          Exports!MapThenFoldSet, Exports!Largest

StartStep(c, q, k) ==
  IF Ok(q) THEN (IF c.section.items[k] < Len(q.m.functions) THEN [q EXCEPT !.m.start = c.section.items[k]]
                 ELSE Fail(q, "start index"))
  ELSE q
StartItems == INSTANCE Folding WITH Op <- StartStep, Inv <- KeptItem

LEMMA StartRead ==
  ASSUME NEW c, NEW p
  PROVE  ParseSection_Start(p, c.section) =
           LET read == StartItems!Fold(c, p, Places(c.section))
           IN IF c.section.cut /\ Ok(read) THEN Fail(read, "underrun") ELSE read
  BY Zenon DEF ParseSection_Start, ReadItems, Places, StartStep, FoldLeft, MapThenFoldSet, Max,
          StartItems!Fold,
          StartItems!MapThenFoldSet, StartItems!Largest

GlobalItem(q, item) ==
  LET added == AddGlobal(q, NoImport, item.mutable, item.init)
  IN IF EndsExpression(added.m, item.init) THEN added ELSE Fail(added, "init")
GlobalStep(c, q, k) == IF Ok(q) THEN GlobalItem(q, c.section.items[k]) ELSE q
Globals == INSTANCE Folding WITH Op <- GlobalStep, Inv <- KeptItem

LEMMA GlobalsRead ==
  ASSUME NEW c, NEW p
  PROVE  ParseSection_Global(p, c.section) =
           LET read == Globals!Fold(c, p, Places(c.section))
           IN IF c.section.cut /\ Ok(read)
              THEN Fail(AddGlobal(read, NoImport, FALSE, NoExpression), "underrun") ELSE read
  BY Zenon DEF ParseSection_Global, ReadItems, Places, GlobalStep, GlobalItem, FoldLeft, MapThenFoldSet, Max,
          Globals!Fold,
          Globals!MapThenFoldSet, Globals!Largest

DataItem(q, item) == IF EndsExpression(q.m, item.offset) THEN [q EXCEPT !.m.data = Append(@, item)]
                     ELSE Fail(q, "init")
DataStep(c, q, k) == IF Ok(q) THEN DataItem(q, c.section.items[k]) ELSE q
DataItems == INSTANCE Folding WITH Op <- DataStep, Inv <- KeptItem

LEMMA DataRead ==
  ASSUME NEW c, NEW p
  PROVE  ParseSection_Data(p, c.section) =
           LET read == DataItems!Fold(c, Alloc(p, {<<"dataSegments", 0>>}), Places(c.section))
           IN IF c.section.cut /\ Ok(read) THEN Fail(read, "underrun") ELSE read
  BY Zenon DEF ParseSection_Data, ReadItems, Places, DataStep, DataItem, FoldLeft, MapThenFoldSet, Max,
          DataItems!Fold,
          DataItems!MapThenFoldSet, DataItems!Largest

NameStep(c, q, k) == IF Ok(q) THEN ParseName(q, c.section.items[k]) ELSE q
\* While names are read the section's own name is there.
NamedItem(c, k, x) == Kept(c.base, x) /\ <<"custom", 0>> \in x.heap
NameItems == INSTANCE Folding WITH Op <- NameStep, Inv <- NamedItem

LEMMA NamesRead ==
  ASSUME NEW c, NEW p
  PROVE  ReadItems(LAMBDA q, k, index : ParseName(q, index), LAMBDA q : q, p, c.section) =
           LET read == NameItems!Fold(c, p, Places(c.section))
           IN IF c.section.cut /\ Ok(read) THEN Fail(read, "underrun") ELSE read
  BY Zenon DEF ReadItems, Places, NameStep, FoldLeft, MapThenFoldSet, Max,
          NameItems!Fold,
          NameItems!MapThenFoldSet, NameItems!Largest

\* The function i is another one now or comes after the others, and has new blocks.
FunctionGets(p, q, i, old, new) ==
  /\ q.m.globals = p.m.globals /\ 1 .. Len(q.m.functions) = (1 .. Len(p.m.functions)) \cup {i}
  /\ \A f \in 1 .. Len(p.m.functions) : f # i => q.m.functions[f] = p.m.functions[f]
  /\ old = IF i \in 1 .. Len(p.m.functions) THEN FunctionBlocks(p.m.functions[i]) ELSE {}
  /\ Owns(p) => /\ Exchanged(p, q, {}, new) /\ OwnedFunction(q.m.functions[i])
                /\ FunctionBlocks(q.m.functions[i]) = old \cup new

LEMMA OwnsFunction ==
  ASSUME NEW p, NEW q, NEW i, NEW old, NEW new, FunctionGets(p, q, i, old, new)
  PROVE  Owning(p, q)
<1>0. /\ q.m.globals = p.m.globals /\ 1 .. Len(q.m.functions) = (1 .. Len(p.m.functions)) \cup {i}
      /\ \A f \in 1 .. Len(p.m.functions) : f # i => q.m.functions[f] = p.m.functions[f]
      /\ old = IF i \in 1 .. Len(p.m.functions) THEN FunctionBlocks(p.m.functions[i]) ELSE {}
      /\ Owns(p) => /\ Exchanged(p, q, {}, new) /\ OwnedFunction(q.m.functions[i])
                    /\ FunctionBlocks(q.m.functions[i]) = old \cup new
  BY DEF FunctionGets
<1>1. ASSUME Owns(p)
      PROVE  Moved(p, q, <<"function", i>>, {}, new)
  <2>1. Shaped(p.m)
    BY <1>1 DEF Owns
  <2>2. ASSUME NEW f \in 1 .. Len(q.m.functions)
        PROVE  OwnedFunction(q.m.functions[f])
    <3>1. CASE f = i
      BY <1>0, <1>1, <3>1
    <3>2. CASE f # i
      <4>1. f \in 1 .. Len(p.m.functions) /\ q.m.functions[f] = p.m.functions[f]
        BY <1>0, <2>2, <3>2
      <4> QED
        BY <2>1, <4>1 DEF Shaped
    <3> QED
      BY <3>1, <3>2
  <2>3. Shaped(q.m)
    BY <1>0, <2>1, <2>2 DEF Shaped
  <2>4. PICK m, r, gone : m = p.m /\ r = q.m /\ gone = {}
    OBVIOUS
  <2>5. FunctionBlocks(r.functions[i]) = (old \ gone) \cup new /\ gone \subseteq old
    BY <1>0, <1>1, <2>4
  <2>6. Reassigned(Blocks(m), Blocks(r), <<"function", i>>, gone, new)
    BY <1>0, <2>4, <2>5, FunctionReassigned
  <2> QED
    BY <1>0, <1>1, <2>3, <2>4, <2>6 DEF Moved
<1> QED
  BY <1>1, OwnsMoved

GlobalGets(p, q, i, old, gone, new) ==
  /\ q.m.functions = p.m.functions /\ 1 .. Len(q.m.globals) = (1 .. Len(p.m.globals)) \cup {i}
  /\ \A g \in 1 .. Len(p.m.globals) : g # i => q.m.globals[g] = p.m.globals[g]
  /\ old = IF i \in 1 .. Len(p.m.globals) THEN GlobalBlocks(p.m.globals[i]) ELSE {}
  /\ Owns(p) => /\ Exchanged(p, q, gone, new) /\ OwnedGlobal(q.m.globals[i]) /\ gone \subseteq old
                /\ GlobalBlocks(q.m.globals[i]) = (old \ gone) \cup new

LEMMA OwnsGlobal ==
  ASSUME NEW p, NEW q, NEW i, NEW old, NEW gone, NEW new, GlobalGets(p, q, i, old, gone, new)
  PROVE  Owning(p, q)
<1>0. /\ q.m.functions = p.m.functions /\ 1 .. Len(q.m.globals) = (1 .. Len(p.m.globals)) \cup {i}
      /\ \A g \in 1 .. Len(p.m.globals) : g # i => q.m.globals[g] = p.m.globals[g]
      /\ old = IF i \in 1 .. Len(p.m.globals) THEN GlobalBlocks(p.m.globals[i]) ELSE {}
      /\ Owns(p) => /\ Exchanged(p, q, gone, new) /\ OwnedGlobal(q.m.globals[i]) /\ gone \subseteq old
                    /\ GlobalBlocks(q.m.globals[i]) = (old \ gone) \cup new
  BY DEF GlobalGets
<1>1. ASSUME Owns(p)
      PROVE  Moved(p, q, <<"global", i>>, gone, new)
  <2>1. Shaped(p.m)
    BY <1>1 DEF Owns
  <2>2. ASSUME NEW g \in 1 .. Len(q.m.globals)
        PROVE  OwnedGlobal(q.m.globals[g])
    <3>1. CASE g = i
      BY <1>0, <1>1, <3>1
    <3>2. CASE g # i
      <4>1. g \in 1 .. Len(p.m.globals) /\ q.m.globals[g] = p.m.globals[g]
        BY <1>0, <2>2, <3>2
      <4> QED
        BY <2>1, <4>1 DEF Shaped
    <3> QED
      BY <3>1, <3>2
  <2>3. Shaped(q.m)
    BY <1>0, <2>1, <2>2 DEF Shaped
  <2>4. PICK m, r : m = p.m /\ r = q.m
    OBVIOUS
  <2>5. GlobalBlocks(r.globals[i]) = (old \ gone) \cup new /\ gone \subseteq old
    BY <1>0, <1>1, <2>4
  <2>6. Reassigned(Blocks(m), Blocks(r), <<"global", i>>, gone, new)
    BY <1>0, <2>4, <2>5, GlobalReassigned
  <2> QED
    BY <1>0, <1>1, <2>3, <2>4, <2>6 DEF Moved
<1> QED
  BY <1>1, OwnsMoved

\* Where every function and every global has the blocks it had.
LEMMA OwnsAsBefore ==
  ASSUME NEW p, NEW q, SameHeap(p, q),
         Len(q.m.functions) = Len(p.m.functions), Len(q.m.globals) = Len(p.m.globals),
         \A f \in 1 .. Len(p.m.functions) :
           /\ FunctionBlocks(q.m.functions[f]) = FunctionBlocks(p.m.functions[f])
           /\ OwnedFunction(p.m.functions[f]) => OwnedFunction(q.m.functions[f]),
         \A g \in 1 .. Len(p.m.globals) :
           OwnedGlobal(p.m.globals[g]) => /\ GlobalBlocks(q.m.globals[g]) = GlobalBlocks(p.m.globals[g])
                                          /\ OwnedGlobal(q.m.globals[g])
  PROVE  Owning(p, q)
<1>1. ASSUME Owns(p)
      PROVE  Unmoved(p, q)
  <2>1. Shaped(p.m)
    BY <1>1 DEF Owns
  <2>2. Shaped(q.m)
    BY <2>1 DEF Shaped
  <2>3. PICK B, C : B = Blocks(p.m) /\ C = Blocks(q.m)
    OBVIOUS
  <2>4. DOMAIN C = DOMAIN B
    BY <2>3 DEF Blocks, FunctionOwners, GlobalOwners
  <2>5. ASSUME NEW o \in DOMAIN B
        PROVE  C[o] = B[o]
    <3>1. CASE o \in FunctionOwners(p.m)
      <4>1. PICK f \in 1 .. Len(p.m.functions) : o = <<"function", f>>
        BY <3>1, OwnersParts
      <4>2. B[o] = FunctionBlocks(p.m.functions[f]) /\ C[o] = FunctionBlocks(q.m.functions[f])
        BY <2>3, <4>1, OwnersParts
      <4> QED
        BY <4>2
    <3>2. CASE o \in GlobalOwners(p.m)
      <4>1. PICK g \in 1 .. Len(p.m.globals) : o = <<"global", g>>
        BY <3>2, OwnersParts
      <4>2. B[o] = GlobalBlocks(p.m.globals[g]) /\ C[o] = GlobalBlocks(q.m.globals[g])
        BY <2>3, <4>1, OwnersParts
      <4> QED
        BY <2>1, <4>2 DEF Shaped
    <3> QED
      BY <2>3, <3>1, <3>2, OwnersParts
  <2>6. C = B
    BY <2>3, <2>4, <2>5 DEF Blocks
  <2>7. q.heap \ Arrays = p.heap \ Arrays
    BY DEF SameHeap
  <2> QED
    BY <1>1, <2>2, <2>3, <2>6, <2>7 DEF SameHeap, Unmoved, Owns, Numbered
<1> QED
  BY <1>1, OwnsUnmoved

LEMMA TakeParts ==
  ASSUME NEW p, WellFormed(p), NEW tags, NEW a, a = Take(p, tags)
  PROVE  /\ a.m = p.m /\ a.twice = p.twice /\ a.funcTypes = p.funcTypes /\ a.serial = p.serial + 1
         /\ a.heap = p.heap \cup {<<t, p.serial>> : t \in tags} /\ WellFormed(a)
<1>1. Follows(p, a)
  BY FollowsHeap
<1> QED
  BY <1>1, FollowsWell DEF WellFormed, IsParser, ParserFields, Take

LEMMA FreeParts ==
  ASSUME NEW p, WellFormed(p), NEW xs, NEW q, q = Free(p, xs)
  PROVE  /\ q.m = p.m /\ q.funcTypes = p.funcTypes /\ q.serial = p.serial
         /\ q.heap = p.heap \ (xs \ {NoString}) /\ q.twice = (p.twice \/ ~(xs \ {NoString} \subseteq p.heap))
         /\ WellFormed(q)
<1>1. Follows(p, q)
  BY FollowsHeap
<1>2. PICK y : y = xs \ {NoString}
  OBVIOUS
<1>3. q = [p EXCEPT !.heap = @ \ y, !.twice = @ \/ ~(y \subseteq p.heap)]
  BY <1>2 DEF Free
<1>4. /\ q.m = p.m /\ q.funcTypes = p.funcTypes /\ q.serial = p.serial
      /\ q.heap = p.heap \ y /\ q.twice = (p.twice \/ ~(y \subseteq p.heap))
  BY <1>3 DEF WellFormed, IsParser, ParserFields
<1> QED
  BY <1>1, <1>2, <1>4, FollowsWell

\* New blocks that are taken, and those that are taken and freed.
LEMMA OwnsTaken ==
  ASSUME NEW p, WellFormed(p), NEW tags, tags \subseteq OwnTags, NEW new, new = {<<t, p.serial>> : t \in tags},
         NEW a, a = Take(p, tags)
  PROVE  /\ NoString \notin new /\ \A b \in new : b[1] \in OwnTags /\ b[2] = p.serial
         /\ Owns(p) => \A b \in new : b \notin p.heap
         /\ Owns(p) => Exchanged(p, a, {}, new)
         /\ Kept(p, Free(a, new))
<1>1. \A b \in new : b[1] \in OwnTags /\ b[2] = p.serial
  OBVIOUS
<1>2. NoString \notin new
  BY <1>1 DEF NoString, OwnTags
<1>3. Owns(p) => \A b \in new : b \notin p.heap
  BY <1>1 DEF Owns, Numbered
<1>4. /\ a.m = p.m /\ a.twice = p.twice /\ a.funcTypes = p.funcTypes /\ a.serial = p.serial + 1
      /\ a.heap = p.heap \cup new /\ WellFormed(a) /\ p.serial \in Nat
  BY TakeParts DEF WellFormed
<1>5. <<"memory", 0>> \notin new
  BY <1>1 DEF OwnTags
<1>6. Exchanged(p, a, {}, new)
  BY <1>1, <1>4, <1>5 DEF Exchanged
<1>7. PICK q : q = Free(a, new)
  OBVIOUS
<1>8. /\ q.m = a.m /\ q.funcTypes = a.funcTypes /\ q.serial = a.serial
      /\ q.heap = a.heap \ new /\ q.twice = (a.twice \/ ~(new \subseteq a.heap)) /\ WellFormed(q)
  BY <1>2, <1>4, <1>7, FreeParts
<1>9. ASSUME Owns(p)
      PROVE  Unmoved(p, q)
  <2>1. q.heap = p.heap /\ q.twice = p.twice
    BY <1>3, <1>4, <1>8, <1>9 DEF Owns
  <2> QED
    BY <1>4, <1>8, <1>9, <2>1 DEF Owns, Unmoved
<1>10. Follows(p, q)
  <2>1. Follows(p, a) /\ Follows(a, q)
    BY <1>4, <1>7, FollowsHeap
  <2> QED
    BY <2>1, FollowsTwice
<1> QED
  BY <1>1, <1>2, <1>3, <1>6, <1>7, <1>9, <1>10, OwnsUnmoved DEF Kept

LEMMA FunctionsLength ==
  ASSUME NEW p, WellFormed(p)
  PROVE  IsSeq(p.m.functions) /\ Len(p.m.functions) \in Nat
  BY SeqParts DEF WellFormed, AreFunctions

\* A function of a sequence is replaced in place.
LEMMA OtherFunction ==
  ASSUME NEW p, WellFormed(p), NEW i \in 1 .. Len(p.m.functions), NEW x, IsFunction(x),
         NEW q, q = SetFunction(p, i, x)
  PROVE  /\ WellFormed(q) /\ SameHeap(p, q) /\ q.m.globals = p.m.globals
         /\ Len(q.m.functions) = Len(p.m.functions) /\ q.m.functions[i] = x
         /\ 1 .. Len(q.m.functions) = (1 .. Len(p.m.functions)) \cup {i}
         /\ \A f \in 1 .. Len(p.m.functions) : f # i => q.m.functions[f] = p.m.functions[f]
<1>1. PICK s, t : s = p.m.functions /\ t = [s EXCEPT ![i] = x]
  OBVIOUS
<1>2. AreFunctions(s) /\ i \in 1 .. Len(s)
  BY <1>1 DEF WellFormed
<1>3. AreFunctions(t) /\ Len(t) = Len(s) /\ t[i] = x /\ \A f \in 1 .. Len(s) : f # i => t[f] = s[f]
  BY ONLY <1>1, <1>2, IsFunction(x), FunctionsPut
<1>4. q = SetFunctions(p, t)
  BY <1>1 DEF SetFunction
<1>5. WellFormed(q) /\ SameHeap(p, q) /\ q.m.globals = p.m.globals /\ q.m.functions = t
  BY <1>3, <1>4, WithFunctions
<1> QED
  BY ONLY <1>1, <1>2, <1>3, <1>5

\* A name more.
LEMMA MoreNames ==
  ASSUME NEW f, IsFunction(f), OwnedFunction(f), NEW name, name[1] \in {"export", "name"},
         NEW g, g = SetNames(f, Append(f.names, name))
  PROVE  OwnedFunction(g) /\ FunctionBlocks(g) = FunctionBlocks(f) \cup {name}
<1>1. PICK s, t : s = f.names /\ t = Append(s, name)
  OBVIOUS
<1>2. /\ g.names = t /\ g.import = f.import /\ g.constants = f.constants /\ g.compiled = f.compiled
  BY <1>1 DEF SetNames, IsFunction, FunctionFields
<1>3. IsSeq(s) /\ IsSeq(t)
  BY <1>1, SeqChanges DEF OwnedFunction
<1>4. /\ Len(s) \in Nat /\ Len(t) = Len(s) + 1 /\ t[Len(s) + 1] = name
      /\ \A k \in 1 .. Len(s) : t[k] = s[k]
  <2>1. PICK S : s \in Seq(S)
    BY <1>3 DEF IsSeq
  <2>2. s \in Seq(S \cup {name})
    BY <2>1, MoreMembers
  <2> QED
    BY <1>1, <2>2
<1>5. \A k \in 1 .. Len(t) : k \in 1 .. Len(s) \/ k = Len(s) + 1
  BY <1>4
<1>6. NamesOf(g) = NamesOf(f) \cup {name}
  <2>1. \A b \in NamesOf(g) : b \in NamesOf(f) \cup {name}
    BY <1>1, <1>2, <1>4, <1>5 DEF NamesOf
  <2>2. \A b \in NamesOf(f) : b \in NamesOf(g)
    BY <1>1, <1>2, <1>4 DEF NamesOf
  <2>3. name \in NamesOf(g)
    BY <1>2, <1>4 DEF NamesOf
  <2> QED
    BY <2>1, <2>2, <2>3
<1>7. name # NoString
  BY DEF NoString
<1>8. FunctionBlocks(g) = FunctionBlocks(f) \cup {name}
  BY <1>2, <1>6, <1>7 DEF FunctionBlocks
<1>9. \A k \in 1 .. Len(t) : \/ t[k][1] \in {"export", "name"}
                             \/ t[k] = <<"field", f.import.at>> /\ f.import.at # Unset
  BY <1>1, <1>4, <1>5 DEF OwnedFunction
<1> QED
  BY <1>2, <1>3, <1>8, <1>9 DEF OwnedFunction

\* A function is given a name that was read.
LEMMA OwnsName ==
  ASSUME NEW p, WellFormed(p), NEW tag \in {"export", "name"}, NEW a, a = Take(p, {tag}),
         NEW i \in 1 .. Len(p.m.functions),
         NEW x, x = Append(p.m.functions[i].names, <<tag, p.serial>>),
         NEW q, q = [a EXCEPT !.m.functions[i].names = x]
  PROVE  Owning(p, q)
<1>1. PICK name, new : name = <<tag, p.serial>> /\ new = {name}
  OBVIOUS
<1>2. new = {<<t, p.serial>> : t \in {tag}} /\ {tag} \subseteq OwnTags /\ name[1] \in {"export", "name"}
  BY <1>1 DEF OwnTags
<1>3. a.m = p.m /\ WellFormed(a) /\ (Owns(p) => Exchanged(p, a, {}, new))
  <2>1. a.m = p.m /\ WellFormed(a)
    BY ONLY WellFormed(p), a = Take(p, {tag}), TakeParts
  <2>2. Owns(p) => Exchanged(p, a, {}, new)
    BY <1>2, OwnsTaken
  <2> QED
    BY ONLY <2>1, <2>2
<1>4. PICK f, g : f = p.m.functions[i] /\ g = SetNames(f, x)
  OBVIOUS
<1>5. IsFunction(f) /\ IsFunction(g)
  BY <1>4, FunctionChanges DEF WellFormed, AreFunctions, SameImported
<1>6. q = SetFunction(a, i, g)
  BY ONLY <1>3, <1>4, q = [a EXCEPT !.m.functions[i].names = x] DEF SetNames, SetFunction, SetFunctions
<1>7. /\ SameHeap(a, q) /\ q.m.globals = p.m.globals
      /\ Len(q.m.functions) = Len(p.m.functions) /\ q.m.functions[i] = g
      /\ 1 .. Len(q.m.functions) = (1 .. Len(p.m.functions)) \cup {i}
      /\ \A h \in 1 .. Len(p.m.functions) : h # i => q.m.functions[h] = p.m.functions[h]
  <2>1. i \in 1 .. Len(a.m.functions) /\ WellFormed(a)
    BY <1>3
  <2>2. /\ SameHeap(a, q) /\ q.m.globals = a.m.globals
        /\ Len(q.m.functions) = Len(a.m.functions) /\ q.m.functions[i] = g
        /\ 1 .. Len(q.m.functions) = (1 .. Len(a.m.functions)) \cup {i}
        /\ \A h \in 1 .. Len(a.m.functions) : h # i => q.m.functions[h] = a.m.functions[h]
    BY ONLY <1>5, <1>6, <2>1, OtherFunction
  <2>3. a.m = p.m
    BY <1>3
  <2> QED
    BY ONLY <2>2, <2>3
<1>8. Owns(p) => Exchanged(p, q, {}, new)
  BY ONLY <1>3, <1>7 DEF SameHeap, Exchanged
<1>9. PICK old : old = FunctionBlocks(p.m.functions[i])
  OBVIOUS
<1>10. Owns(p) => OwnedFunction(q.m.functions[i]) /\ FunctionBlocks(q.m.functions[i]) = old \cup new
  <2>1. Owns(p) => OwnedFunction(f)
    BY <1>4 DEF Owns, Shaped
  <2>2. g = SetNames(f, Append(f.names, name))
    BY <1>1, <1>4
  <2>3. OwnedFunction(f) => OwnedFunction(g) /\ FunctionBlocks(g) = FunctionBlocks(f) \cup {name}
    BY ONLY <1>2, <1>5, <2>2, MoreNames
  <2> QED
    BY ONLY <1>1, <1>4, <1>7, <1>9, <2>1, <2>3
<1>11. old = IF i \in 1 .. Len(p.m.functions) THEN FunctionBlocks(p.m.functions[i]) ELSE {}
  BY <1>9
<1>12. FunctionGets(p, q, i, old, new)
  BY ONLY <1>7, <1>8, <1>10, <1>11 DEF FunctionGets
<1> QED
  BY ONLY <1>12, OwnsFunction

LEMMA KeptName ==
  ASSUME NEW p, WellFormed(p), NEW index \in Nat
  PROVE  Kept(p, ParseName(p, index))
<1>1. PICK a : a = Take(p, {"name"})
  OBVIOUS
<1>2. PICK i, x : i = index + 1 /\ x = <<(<<"name", p.serial>>)>>
  OBVIOUS
<1>3. PICK q : q = [a EXCEPT !.m.functions[i].names = x]
  OBVIOUS
<1>4. ASSUME index < Len(p.m.functions), p.m.functions[i].names = <<>>
      PROVE  Owning(p, q)
  <2>1. i \in 1 .. Len(p.m.functions)
    BY <1>2, <1>4, FunctionsLength
  <2>2. x = Append(p.m.functions[i].names, <<"name", p.serial>>)
    BY <1>2, <1>4
  <2> QED
    BY <1>1, <1>3, <2>1, <2>2, OwnsName
<1>5. Kept(p, ReadString(p, "name"))
  BY KeptString DEF OwnTags
<1>6. ParseName(p, index) = IF index < Len(p.m.functions) /\ p.m.functions[i].names = <<>>
                            THEN q ELSE ReadString(p, "name")
  BY <1>1, <1>2, <1>3, Zenon DEF ParseName
<1> QED
  BY <1>4, <1>5, <1>6, FollowsName DEF Kept

\* Where there are globals the same, one is another one now.
SetGlobal(p, i, x) == [p EXCEPT !.m.globals[i] = x]

LEMMA OtherGlobal ==
  ASSUME NEW p, WellFormed(p), NEW i \in 1 .. Len(p.m.globals), NEW x,
         NEW q, q = SetGlobal(p, i, x)
  PROVE  /\ SameHeap(p, q) /\ q.m.functions = p.m.functions
         /\ Len(q.m.globals) = Len(p.m.globals) /\ q.m.globals[i] = x
         /\ 1 .. Len(q.m.globals) = (1 .. Len(p.m.globals)) \cup {i}
         /\ \A g \in 1 .. Len(p.m.globals) : g # i => q.m.globals[g] = p.m.globals[g]
<1>1. PICK s, t : s = p.m.globals /\ t = [s EXCEPT ![i] = x]
  OBVIOUS
<1>2. PICK S : s \in Seq(S)
  BY <1>1 DEF WellFormed, HasLists, IsSeq
<1>3. s \in Seq(S \cup {x}) /\ i \in 1 .. Len(s)
  BY <1>1, <1>2, MoreMembers
<1>4. Len(t) = Len(s) /\ \A k \in 1 .. Len(s) : t[k] = IF k = i THEN x ELSE s[k]
  BY <1>1, <1>3, ExceptSeq
<1>5. PICK m : m = [p.m EXCEPT !.globals = t]
  OBVIOUS
<1>6. m.globals = t /\ m.functions = p.m.functions
  BY <1>5 DEF WellFormed, IsModule, ModuleFields
<1>7. q = [p EXCEPT !.m = m]
  BY <1>1, <1>5 DEF SetGlobal
<1>8. SameHeap(p, q) /\ q.m = m
  BY <1>7 DEF WellFormed, IsParser, ParserFields, SameHeap
<1> QED
  BY ONLY <1>1, <1>3, <1>4, <1>6, <1>8

LEMMA KeptGlobals ==
  ASSUME NEW p, WellFormed(p), NEW i, NEW x
  PROVE  Kept(p, [p EXCEPT !.m.globals[i].value = x])
<1>1. PICK q : q = [p EXCEPT !.m.globals[i].value = x]
  OBVIOUS
<1>2. CASE i \in 1 .. Len(p.m.globals)
  <2>1. PICK old, g : old = p.m.globals[i] /\ g = [old EXCEPT !.value = x]
    OBVIOUS
  <2>2. q = SetGlobal(p, i, g)
    BY <1>1, <2>1 DEF SetGlobal
  <2>3. /\ SameHeap(p, q) /\ q.m.functions = p.m.functions
        /\ Len(q.m.globals) = Len(p.m.globals) /\ q.m.globals[i] = g
        /\ \A h \in 1 .. Len(p.m.globals) : h # i => q.m.globals[h] = p.m.globals[h]
    BY ONLY <1>2, <2>2, WellFormed(p), OtherGlobal
  <2>4. OwnedGlobal(old) => OwnedGlobal(g) /\ GlobalBlocks(g) = GlobalBlocks(old)
    BY <2>1 DEF OwnedGlobal, GlobalBlocks, GlobalFields
  <2>5. \A h \in 1 .. Len(p.m.globals) :
          OwnedGlobal(p.m.globals[h]) => /\ GlobalBlocks(q.m.globals[h]) = GlobalBlocks(p.m.globals[h])
                                         /\ OwnedGlobal(q.m.globals[h])
    BY <2>1, <2>3, <2>4
  <2>6. Owning(p, q)
    BY <2>3, <2>5, OwnsAsBefore
  <2> QED
    BY <1>1, <2>6, FollowsGlobals DEF Kept
<1>3. CASE i \notin 1 .. Len(p.m.globals)
  <2>1. PICK s, t : s = p.m.globals /\ t = [s EXCEPT ![i].value = x]
    OBVIOUS
  <2>2. PICK S : s \in Seq(S)
    BY <2>1 DEF WellFormed, HasLists, IsSeq
  <2>3. s = [k \in 1 .. Len(s) |-> s[k]]
    BY <2>2
  <2>4. t = s
    BY <1>3, <2>1, <2>3
  <2>5. q = [p EXCEPT !.m.globals = t]
    BY <1>1, <2>1
  <2>6. PICK m : m = [p.m EXCEPT !.globals = t]
    OBVIOUS
  <2>7. m.functions = p.m.functions /\ m.globals = p.m.globals
    BY <2>1, <2>4, <2>6 DEF WellFormed, IsModule, ModuleFields
  <2>8. q = [p EXCEPT !.m = m]
    BY <2>5, <2>6
  <2>9. SameHeap(p, q) /\ q.m = m
    BY <2>8 DEF WellFormed, IsParser, ParserFields, SameHeap
  <2>10. Owning(p, q)
    BY <2>7, <2>9, OwnsSameHeap
  <2> QED
    BY <1>1, <2>10, FollowsGlobals DEF Kept
<1> QED
  BY <1>2, <1>3

\* A global more.  Its import's strings, if it has one, are new.
OwnsAdding(p, a, new) ==
  WellFormed(p) /\ WellFormed(a) /\ a.m = p.m /\ (Owns(p) => Exchanged(p, a, {}, new)) /\ NoString \notin new

LEMMA OwnsAddGlobal ==
  ASSUME NEW p, NEW a, NEW new, OwnsAdding(p, a, new), NEW import, ImportStrings(import.at) = new,
         NEW mutable, NEW init, NEW q, q = AddGlobal(a, import, mutable, init)
  PROVE  Owning(p, q)
<1>1. PICK x : x = [import |-> import, name |-> NoString, mutable |-> mutable, init |-> init, value |-> 0]
  OBVIOUS
<1>2. OwnedGlobal(x) /\ GlobalBlocks(x) = new
  BY <1>1 DEF OwnedGlobal, GlobalFields, GlobalBlocks, OwnsAdding
<1>3. PICK h : h = Alloc(a, {<<"globals", 0>>})
  OBVIOUS
<1>4. /\ h.m = p.m /\ h.twice = a.twice /\ h.funcTypes = a.funcTypes /\ h.serial = a.serial
      /\ h.heap = a.heap \cup {<<"globals", 0>>} /\ IsParser(h)
  BY <1>3 DEF OwnsAdding, WellFormed, IsParser, ParserFields, Alloc
<1>5. PICK s, t : s = p.m.globals /\ t = Append(s, x)
  OBVIOUS
<1>6. PICK m : m = [p.m EXCEPT !.globals = t]
  OBVIOUS
<1>7. m.functions = p.m.functions /\ m.globals = t
  BY <1>6 DEF OwnsAdding, WellFormed, IsModule, ModuleFields
<1>8. q = [h EXCEPT !.m = m]
  BY <1>1, <1>3, <1>4, <1>5, <1>6 DEF AddGlobal
<1>9. q.m = m /\ SameHeap(h, q)
  BY <1>4, <1>8 DEF IsParser, ParserFields, SameHeap
<1>10. /\ Len(s) \in Nat /\ Len(t) = Len(s) + 1 /\ t[Len(s) + 1] = x
       /\ \A k \in 1 .. Len(s) : t[k] = s[k]
  <2>1. PICK S : s \in Seq(S)
    BY <1>5 DEF OwnsAdding, WellFormed, HasLists, IsSeq
  <2>2. s \in Seq(S \cup {x})
    BY <2>1, MoreMembers
  <2> QED
    BY <1>5, <2>2
<1>11. PICK i : i = Len(s) + 1
  OBVIOUS
<1>12. /\ i \notin 1 .. Len(p.m.globals) /\ 1 .. Len(q.m.globals) = (1 .. Len(p.m.globals)) \cup {i}
       /\ \A g \in 1 .. Len(p.m.globals) : g # i => q.m.globals[g] = p.m.globals[g]
       /\ q.m.globals[i] = x /\ q.m.functions = p.m.functions
  <2>1. q.m.globals = t /\ p.m.globals = s /\ q.m.functions = p.m.functions
    BY ONLY <1>5, <1>7, <1>9
  <2>2. PICK n : n = Len(s)
    OBVIOUS
  <2>3. i \notin 1 .. n /\ 1 .. n + 1 = (1 .. n) \cup {i}
    BY ONLY <1>10, <1>11, <2>2
  <2> QED
    BY ONLY <1>10, <1>11, <2>1, <2>2, <2>3
<1>13. <<"globals", 0>> \in Arrays /\ <<"globals", 0>> # <<"memory", 0>>
  BY DEF Arrays, ArrayTags
<1>14. Owns(p) => Exchanged(p, q, {}, new)
  BY <1>4, <1>9, <1>13 DEF OwnsAdding, SameHeap, Exchanged
<1>15. PICK old, gone : old = {} /\ gone = {}
  OBVIOUS
<1>16. /\ old = IF i \in 1 .. Len(p.m.globals) THEN GlobalBlocks(p.m.globals[i]) ELSE {}
       /\ gone \subseteq old /\ GlobalBlocks(q.m.globals[i]) = (old \ gone) \cup new
       /\ OwnedGlobal(q.m.globals[i])
  BY <1>2, <1>12, <1>15
<1>17. Owns(p) => Exchanged(p, q, gone, new)
  BY <1>14, <1>15
<1> QED
  <2>1. GlobalGets(p, q, i, old, gone, new)
    BY ONLY <1>12, <1>16, <1>17 DEF GlobalGets
  <2> QED
    BY <2>1, OwnsGlobal

LEMMA KeptAddGlobal ==
  ASSUME NEW p, WellFormed(p), NEW mutable, NEW init
  PROVE  Kept(p, AddGlobal(p, NoImport, mutable, init))
<1>1. Owns(p) => Exchanged(p, p, {}, {})
  BY DEF Owns, Numbered, Exchanged
<1>2. ImportStrings(NoImport.at) = {}
  BY DEF ImportStrings, NoImport
<1>3. OwnsAdding(p, p, {})
  BY <1>1 DEF OwnsAdding
<1> QED
  BY <1>2, <1>3, OwnsAddGlobal, FollowsAddGlobal DEF Kept

\* What an export names gets the name, or it is freed.
LEMMA OwnsExportGlobal ==
  ASSUME NEW p, WellFormed(p), NEW a, a = Take(p, {"export"}), NEW i \in 1 .. Len(p.m.globals),
         NEW name, name = <<"export", p.serial>>
  PROVE  Owning(p, ExportGlobal(a, i, name))
<1>1. PICK new : new = {name}
  OBVIOUS
<1>2. new = {<<t, p.serial>> : t \in {"export"}} /\ {"export"} \subseteq OwnTags
  BY <1>1 DEF OwnTags
<1>3. /\ a.m = p.m /\ WellFormed(a) /\ (Owns(p) => Exchanged(p, a, {}, new)) /\ NoString \notin new
      /\ a.heap = p.heap \cup new /\ a.serial = p.serial + 1 /\ p.serial \in Nat
      /\ a.twice = p.twice /\ a.funcTypes = p.funcTypes
      /\ Owns(p) => \A b \in new : b \notin p.heap
  <2>1. /\ (Owns(p) => Exchanged(p, a, {}, new)) /\ NoString \notin new
        /\ Owns(p) => \A b \in new : b \notin p.heap
    BY <1>2, OwnsTaken
  <2>2. /\ a.m = p.m /\ WellFormed(a) /\ a.serial = p.serial + 1 /\ a.twice = p.twice
        /\ a.funcTypes = p.funcTypes /\ a.heap = p.heap \cup {<<t, p.serial>> : t \in {"export"}}
    BY TakeParts
  <2> QED
    BY <1>2, <2>1, <2>2 DEF WellFormed
<1>4. PICK old, x : old = p.m.globals[i] /\ x = [old EXCEPT !.name = name]
  OBVIOUS
<1>5. PICK gone : gone = {old.name} \ {NoString}
  OBVIOUS
<1>6. PICK c : c = Free(a, {old.name})
  OBVIOUS
<1>7. /\ c.m = p.m /\ c.funcTypes = p.funcTypes /\ c.serial = a.serial
      /\ c.heap = a.heap \ gone /\ c.twice = (p.twice \/ ~(gone \subseteq a.heap)) /\ WellFormed(c)
  BY <1>3, <1>5, <1>6, FreeParts
<1>8. PICK q : q = SetGlobal(c, i, x)
  OBVIOUS
<1>9. q = ExportGlobal(a, i, name)
  BY <1>3, <1>4, <1>6, <1>7, <1>8 DEF ExportGlobal, SetGlobal
<1>10. /\ SameHeap(c, q) /\ q.m.functions = p.m.functions
       /\ Len(q.m.globals) = Len(p.m.globals) /\ q.m.globals[i] = x
       /\ 1 .. Len(q.m.globals) = (1 .. Len(p.m.globals)) \cup {i}
       /\ \A g \in 1 .. Len(p.m.globals) : g # i => q.m.globals[g] = p.m.globals[g]
  <2>1. i \in 1 .. Len(c.m.globals)
    BY <1>7
  <2> QED
    BY ONLY <1>7, <1>8, <2>1, OtherGlobal
<1>11. PICK blocks : blocks = GlobalBlocks(p.m.globals[i])
  OBVIOUS
<1>12. ASSUME Owns(p)
       PROVE  /\ gone \subseteq blocks /\ gone \subseteq p.heap /\ name \notin gone
              /\ OwnedGlobal(x) /\ GlobalBlocks(x) = (blocks \ gone) \cup new
  <2>1. OwnedGlobal(old)
    BY <1>4, <1>12 DEF Owns, Shaped
  <2>2. gone \subseteq blocks
    BY <1>4, <1>5, <1>11 DEF GlobalBlocks
  <2>3. blocks \subseteq p.heap
    <3>1. PICK B, o : B = Blocks(p.m) /\ o = <<"global", i>>
      OBVIOUS
    <3>2. o \in DOMAIN B /\ B[o] = blocks
      BY <1>11, <3>1, OwnersParts
    <3>3. Ledger(B, p.heap)
      BY <1>12, <3>1 DEF Owns
    <3> QED
      BY <3>2, <3>3 DEF Ledger
  <2>4. name \notin p.heap
    BY <1>1, <1>3, <1>12
  <2>5. OwnedGlobal(x) /\ x.import = old.import /\ x.name = name
    BY <1>4, <2>1 DEF OwnedGlobal, GlobalFields
  <2>6. ImportStrings(old.import.at) \cap {old.name, name} = {}
    <3>1. \A b \in ImportStrings(old.import.at) : b[1] \in {"module", "field"}
      BY DEF ImportStrings
    <3>2. old.name[1] \in {"null", "export"} /\ name[1] = "export"
      <4>1. NoString[1] = "null"
        BY DEF NoString
      <4> QED
        BY <2>1, <4>1 DEF OwnedGlobal
    <3> QED
      BY <3>1, <3>2
  <2>7. NoString \notin ImportStrings(old.import.at) /\ name # NoString
    BY StringKinds DEF NoString
  <2>8. GlobalBlocks(x) = (blocks \ gone) \cup new
    BY <1>1, <1>4, <1>5, <1>11, <2>5, <2>6, <2>7 DEF GlobalBlocks
  <2> QED
    BY <2>2, <2>3, <2>4, <2>5, <2>8
<1>13. Owns(p) => Exchanged(p, q, gone, new)
  <2>1. ASSUME Owns(p)
        PROVE  q.heap = (p.heap \ gone) \cup new /\ q.twice = p.twice
    BY <1>1, <1>3, <1>7, <1>10, <1>12, <2>1 DEF SameHeap, Owns
  <2>2. <<"memory", 0>> \notin new
    BY <1>1
  <2> QED
    BY <1>3, <1>7, <1>10, <2>1, <2>2 DEF SameHeap, Exchanged
<1>14. blocks = IF i \in 1 .. Len(p.m.globals) THEN GlobalBlocks(p.m.globals[i]) ELSE {}
  BY <1>11
<1>15. Owns(p) => /\ OwnedGlobal(q.m.globals[i]) /\ gone \subseteq blocks
                  /\ GlobalBlocks(q.m.globals[i]) = (blocks \ gone) \cup new
  BY <1>10, <1>12
<1>16. Owning(p, q)
  <2>1. GlobalGets(p, q, i, blocks, gone, new)
    BY ONLY <1>10, <1>13, <1>14, <1>15 DEF GlobalGets
  <2> QED
    BY <2>1, OwnsGlobal
<1> QED
  BY <1>9, <1>16

LEMMA KeptExport ==
  ASSUME NEW p, WellFormed(p), NEW item, item.index \in Nat
  PROVE  Kept(p, ParseExport(p, item))
<1>1. PICK name, a, i : name = <<"export", p.serial>> /\ a = Take(p, {"export"}) /\ i = item.index + 1
  OBVIOUS
<1>2. PICK b : b = Free(a, {name})
  OBVIOUS
<1>3. a.m = p.m /\ WellFormed(a)
  BY <1>1, TakeParts
<1>4. Kept(p, b) /\ WellFormed(b)
  <2>1. {name} = {<<t, p.serial>> : t \in {"export"}} /\ {"export"} \subseteq OwnTags
    BY <1>1 DEF OwnTags
  <2> QED
    BY <1>1, <1>2, <2>1, OwnsTaken, KeptWell
<1>5. Kept(p, Fail(b, "export index"))
  BY <1>4, KeptFail, KeptTwice
<1>6. ASSUME item.index < Len(p.m.functions)
      PROVE  Owning(p, ExportFunction(a, i, name))
  <2>1. i \in 1 .. Len(p.m.functions)
    BY <1>1, <1>6, FunctionsLength
  <2>2. PICK x : x = Append(p.m.functions[i].names, name)
    OBVIOUS
  <2>3. Owning(p, [a EXCEPT !.m.functions[i].names = x])
    BY <1>1, <2>1, <2>2, OwnsName
  <2>4. ExportFunction(a, i, name) \in {[a EXCEPT !.m.functions[i].names = x], b}
    BY <1>2, <1>3, <2>2 DEF ExportFunction
  <2> QED
    BY <1>4, <2>3, <2>4 DEF Kept
<1>7. ASSUME item.index < Len(p.m.globals)
      PROVE  Owning(p, ExportGlobal(a, i, name))
  <2>1. i \in 1 .. Len(p.m.globals)
    BY <1>1, <1>7, SeqParts DEF WellFormed, HasLists
  <2> QED
    BY <1>1, <2>1, OwnsExportGlobal
<1>8. PICK r : r = ParseExport(p, item)
  OBVIOUS
<1>9. \/ item.index < Len(p.m.functions) /\ r = ExportFunction(a, i, name)
      \/ item.index < Len(p.m.globals) /\ r = ExportGlobal(a, i, name)
      \/ r \in {b, Fail(b, "export index")}
  BY <1>1, <1>2, <1>3, <1>8 DEF ParseExport
<1>10. Owning(p, r)
  BY <1>4, <1>5, <1>6, <1>7, <1>9 DEF Kept
<1> QED
  BY <1>8, <1>10, FollowsExport DEF Kept

LEMMA KeptGlobalItem ==
  ASSUME NEW p, WellFormed(p), NEW item
  PROVE  Kept(p, GlobalItem(p, item))
<1>1. PICK a : a = AddGlobal(p, NoImport, item.mutable, item.init)
  OBVIOUS
<1>2. Kept(p, a) /\ Kept(p, Fail(a, "init"))
  BY <1>1, KeptAddGlobal, KeptFail, KeptWell, KeptTwice
<1> QED
  BY <1>1, <1>2, Zenon DEF GlobalItem

LEMMA KeptDataItem ==
  ASSUME NEW p, WellFormed(p), NEW item
  PROVE  Kept(p, DataItem(p, item))
  BY KeptData, KeptFail DEF DataItem

LEMMA TypesKeep ==
  ASSUME NEW p, WellFormed(p), NEW c, c.base = p, IsList(c.section.items)
  PROVE  Kept(p, Types!Fold(c, p, Places(c.section)))
<1>1. PICK n : n = Len(c.section.items)
  OBVIOUS
<1>2. n \in Nat /\ DOMAIN Places(c.section) = 1 .. n /\ \A k \in 1 .. n : Places(c.section)[k] = k
  BY <1>1, ListPlaces
<1>3. ASSUME NEW k \in 1 .. n, NEW x, Kept(p, x)
      PROVE  Kept(p, TypeStep(c, x, k))
  BY <1>3, KeptWell, KeptTwice, KeptType DEF TypeStep
<1> QED
  BY <1>2, <1>3, KeptSame, CountUp, Types!FoldKeeps DEF Types!Induction, KeptItem

LEMMA ExportsKeep ==
  ASSUME NEW p, WellFormed(p), NEW c, c.base = p, IsList(c.section.items), Indexed(c.section.items)
  PROVE  ExportedUpTo(c, Len(c.section.items), Exports!Fold(c, p, Places(c.section)))
<1>1. PICK n : n = Len(c.section.items)
  OBVIOUS
<1>2. n \in Nat /\ DOMAIN Places(c.section) = 1 .. n /\ \A k \in 1 .. n : Places(c.section)[k] = k
  BY <1>1, ListPlaces
<1>3. ASSUME NEW k \in 1 .. n, NEW x, ExportedUpTo(c, k - 1, x)
      PROVE  ExportedUpTo(c, k, ExportStep(c, x, k))
  <2>1. Kept(p, x) /\ WellFormed(x)
    BY <1>3, KeptWell DEF ExportedUpTo
  <2>2. CASE ~Ok(x)
    BY <2>1, <2>2 DEF ExportStep, ExportedUpTo
  <2>3. CASE Ok(x)
    <3>1. PICK y : y = ParseExport(x, c.section.items[k])
      OBVIOUS
    <3>2. ExportStep(c, x, k) = y
      BY <2>3, <3>1, Zenon DEF ExportStep
    <3>3. Kept(x, y) /\ Follows(x, y)
      <4>1. c.section.items[k].index \in Nat
        BY <1>1 DEF Indexed
      <4> QED
        BY <2>1, <3>1, <4>1, KeptExport, KeptWell
    <3>4. ASSUME Ok(y), NEW j \in 1 .. k
          PROVE  Exportable(y, c.section.items[j])
      <4>1. CASE j = k
        BY <1>1, <2>1, <3>1, <3>4, <4>1, ExportParsed DEF Indexed
      <4>2. CASE j # k
        <5>1. j \in 1 .. k - 1
          BY <4>2
        <5>2. Exportable(x, c.section.items[j])
          BY <1>3, <2>3, <3>4, <5>1 DEF ExportedUpTo
        <5> QED
          BY <3>3, <5>2, ExportKept
      <4> QED
        BY <4>1, <4>2
    <3> QED
      BY <2>1, <3>2, <3>3, <3>4, KeptTwice DEF ExportedUpTo
  <2> QED
    BY <2>2, <2>3
<1>4. ExportedUpTo(c, 0, p)
  BY KeptSame DEF ExportedUpTo
<1> QED
  BY <1>1, <1>2, <1>3, <1>4, CountUp, Exports!FoldKeeps DEF Exports!Induction

LEMMA StartItemsKeep ==
  ASSUME NEW p, WellFormed(p), NEW c, c.base = p, IsList(c.section.items)
  PROVE  Kept(p, StartItems!Fold(c, p, Places(c.section)))
<1>1. PICK n : n = Len(c.section.items)
  OBVIOUS
<1>2. n \in Nat /\ DOMAIN Places(c.section) = 1 .. n /\ \A k \in 1 .. n : Places(c.section)[k] = k
  BY <1>1, ListPlaces
<1>3. ASSUME NEW k \in 1 .. n, NEW x, Kept(p, x)
      PROVE  Kept(p, StartStep(c, x, k))
  BY <1>3, KeptWell, KeptTwice, KeptFields, KeptFail DEF StartStep
<1> QED
  BY <1>2, <1>3, KeptSame, CountUp, StartItems!FoldKeeps DEF StartItems!Induction, KeptItem

LEMMA GlobalsKeep ==
  ASSUME NEW p, WellFormed(p), NEW c, c.base = p, IsList(c.section.items)
  PROVE  Kept(p, Globals!Fold(c, p, Places(c.section)))
<1>1. PICK n : n = Len(c.section.items)
  OBVIOUS
<1>2. n \in Nat /\ DOMAIN Places(c.section) = 1 .. n /\ \A k \in 1 .. n : Places(c.section)[k] = k
  BY <1>1, ListPlaces
<1>3. ASSUME NEW k \in 1 .. n, NEW x, Kept(p, x)
      PROVE  Kept(p, GlobalStep(c, x, k))
  BY <1>3, KeptWell, KeptTwice, KeptGlobalItem DEF GlobalStep
<1> QED
  BY <1>2, <1>3, KeptSame, CountUp, Globals!FoldKeeps DEF Globals!Induction, KeptItem

LEMMA DataItemsKeep ==
  ASSUME NEW p, WellFormed(p), NEW c, c.base = p, IsList(c.section.items)
  PROVE  Kept(p, DataItems!Fold(c, p, Places(c.section)))
<1>1. PICK n : n = Len(c.section.items)
  OBVIOUS
<1>2. n \in Nat /\ DOMAIN Places(c.section) = 1 .. n /\ \A k \in 1 .. n : Places(c.section)[k] = k
  BY <1>1, ListPlaces
<1>3. ASSUME NEW k \in 1 .. n, NEW x, Kept(p, x)
      PROVE  Kept(p, DataStep(c, x, k))
  BY <1>3, KeptWell, KeptTwice, KeptDataItem DEF DataStep
<1> QED
  BY <1>2, <1>3, KeptSame, CountUp, DataItems!FoldKeeps DEF DataItems!Induction, KeptItem

\* Blocks that are arrays are not touched by a name.
LEMMA NameKeepsCustom ==
  ASSUME NEW p, WellFormed(p), NEW index, <<"custom", 0>> \in p.heap
  PROVE  <<"custom", 0>> \in ParseName(p, index).heap
<1>1. PICK a : a = Take(p, {"name"})
  OBVIOUS
<1>2. PICK b : b = <<"name", p.serial>>
  OBVIOUS
<1>3. <<"custom", 0>> \in a.heap /\ WellFormed(a)
  BY <1>1, TakeParts
<1>4. <<"custom", 0>> \in ReadString(p, "name").heap
  <2>1. PICK q : q = Free(a, {b})
    OBVIOUS
  <2>2. q.heap = a.heap \ ({b} \ {NoString})
    BY <1>3, <2>1, FreeParts
  <2>3. q = ReadString(p, "name")
    BY <1>1, <1>2, <2>1 DEF ReadString
  <2>4. b # <<"custom", 0>>
    BY <1>2
  <2> QED
    BY <1>3, <2>2, <2>3, <2>4
<1>5. PICK m : m = [a.m EXCEPT !.functions[index + 1].names = <<b>>]
  OBVIOUS
<1>6. PICK r : r = [a EXCEPT !.m = m]
  OBVIOUS
<1>7. r.heap = a.heap
  BY <1>3, <1>6 DEF WellFormed, IsParser, ParserFields
<1>8. r = [a EXCEPT !.m.functions[index + 1].names = <<b>>]
  BY <1>5, <1>6
<1> QED
  BY <1>1, <1>2, <1>3, <1>4, <1>7, <1>8, Zenon DEF ParseName

LEMMA NamesKeep ==
  ASSUME NEW p, WellFormed(p), NEW c, c.base = p, IsList(c.section.items), AreNumbers(c.section.items),
         <<"custom", 0>> \in p.heap
  PROVE  LET read == NameItems!Fold(c, p, Places(c.section))
         IN Kept(p, read) /\ <<"custom", 0>> \in read.heap
<1>1. PICK n : n = Len(c.section.items)
  OBVIOUS
<1>2. n \in Nat /\ DOMAIN Places(c.section) = 1 .. n /\ \A k \in 1 .. n : Places(c.section)[k] = k
  BY <1>1, ListPlaces
<1>3. ASSUME NEW k \in 1 .. n, NEW x, Kept(p, x), <<"custom", 0>> \in x.heap
      PROVE  Kept(p, NameStep(c, x, k)) /\ <<"custom", 0>> \in NameStep(c, x, k).heap
  <2>1. c.section.items[k] \in Nat
    BY <1>1 DEF AreNumbers
  <2>2. WellFormed(x)
    BY <1>3, KeptWell
  <2>3. PICK y : y = ParseName(x, c.section.items[k])
    OBVIOUS
  <2>4. Kept(p, y) /\ <<"custom", 0>> \in y.heap
    BY <1>3, <2>1, <2>2, <2>3, KeptName, KeptTwice, NameKeepsCustom
  <2> QED
    BY <1>3, <2>3, <2>4, Zenon DEF NameStep
<1>4. PICK read : read = NameItems!Fold(c, p, Places(c.section))
  OBVIOUS
<1>5. NamedItem(c, n, read)
  <2>1. NamedItem(c, 0, p)
    BY KeptSame DEF NamedItem
  <2>2. ASSUME NEW k \in 1 .. n, NEW x, NamedItem(c, k - 1, x)
        PROVE  NamedItem(c, k, NameStep(c, x, k))
    BY <1>3, <2>2 DEF NamedItem
  <2> QED
    BY <1>2, <1>4, <2>1, <2>2, CountUp, NameItems!FoldKeeps DEF NameItems!Induction
<1> QED
  BY <1>4, <1>5 DEF NamedItem

LEMMA Contexts ==
  ASSUME NEW section, NEW base
  PROVE  \E c : c.section = section /\ c.base = base
<1>1. PICK c : c = [section |-> section, base |-> base]
  OBVIOUS
<1> QED
  BY <1>1

\* The end of a list: the cut item, if there is one, fails.
LEMMA KeptEnd ==
  ASSUME NEW p, NEW read, Kept(p, read), NEW last, Kept(read, last), NEW cut
  PROVE  Kept(p, IF cut /\ Ok(read) THEN Fail(last, "underrun") ELSE read)
  BY KeptTwice, KeptWell, KeptFail

LEMMA KeptSection_Type ==
  ASSUME NEW p, WellFormed(p), NEW section, IsList(section.items)
  PROVE  Kept(p, ParseSection_Type(p, section))
<1>1. PICK a : a = Alloc(p, {<<"funcTypes", 0>>})
  OBVIOUS
<1>2. Kept(p, a) /\ WellFormed(a)
  <2>1. "funcTypes" \in ArrayTags /\ "funcTypes" # "memory"
    BY DEF ArrayTags
  <2> QED
    BY <1>1, <2>1, KeptArrays, KeptWell
<1>3. PICK c : c.section = section /\ c.base = a
  BY Contexts
<1>4. PICK read : read = ReadItems(LAMBDA q, k, item : ParseType(q, item), LAMBDA q : q, a, c.section)
  OBVIOUS
<1>5. Kept(a, read)
  <2>1. PICK r : r = Types!Fold(c, a, Places(c.section))
    OBVIOUS
  <2>2. Kept(a, r) /\ Kept(r, r)
    BY <1>2, <1>3, <2>1, TypesKeep, KeptWell, KeptSame
  <2>3. Kept(a, IF c.section.cut /\ Ok(r) THEN Fail(r, "underrun") ELSE r)
    BY <2>2, KeptEnd
  <2> QED
    BY <1>4, <2>1, <2>3, TypesRead, Zenon
<1>6. PICK b : b = FreeArrays(read, {"funcTypes"})
  OBVIOUS
<1>7. Kept(p, b) /\ Kept(p, read)
  <2>1. {"funcTypes"} \subseteq ArrayTags
    BY DEF ArrayTags
  <2>2. Kept(p, read) /\ WellFormed(read)
    BY <1>2, <1>5, KeptTwice, KeptWell
  <2>3. Kept(read, b)
    BY <1>6, <2>1, <2>2, KeptArrays DEF ArrayTags
  <2> QED
    BY <2>2, <2>3, KeptTwice
<1>8. Kept(p, [b EXCEPT !.m.types = <<>>])
  BY <1>7, KeptFields, KeptTwice, KeptWell
<1> QED
  BY <1>1, <1>3, <1>4, <1>6, <1>7, <1>8, Zenon DEF ParseSection_Type

\* What is exported is there.
LEMMA KeptSection_Export ==
  ASSUME NEW p, WellFormed(p), NEW section, IsList(section.items), Indexed(section.items),
         NEW q, q = ParseSection_Export(p, section)
  PROVE  Kept(p, q) /\ (Ok(q) => CanExport(q, section.items))
<1>1. PICK c : c.section = section /\ c.base = p
  BY Contexts
<1>2. PICK read : read = Exports!Fold(c, p, Places(c.section))
  OBVIOUS
<1>3. ExportedUpTo(c, Len(section.items), read) /\ Kept(p, read) /\ WellFormed(read)
  BY <1>1, <1>2, ExportsKeep, KeptWell DEF ExportedUpTo
<1>5. PICK last : last = ReadString(read, "export")
  OBVIOUS
<1>6. Kept(read, last)
  BY <1>3, <1>5, KeptString DEF OwnTags
<1>7. Kept(p, IF c.section.cut /\ Ok(read) THEN Fail(last, "underrun") ELSE read)
  BY <1>3, <1>6, KeptEnd
<1>8. q = IF c.section.cut /\ Ok(read) THEN Fail(last, "underrun") ELSE read
  BY <1>1, <1>2, <1>5, ExportsRead, Zenon
<1>9. ~Ok(Fail(last, "underrun"))
  BY <1>6, KeptWell, KeptFail
<1>10. Ok(read) => CanExport(read, section.items)
  BY <1>1, <1>3 DEF ExportedUpTo, CanExport
<1> QED
  BY <1>7, <1>8, <1>9, <1>10

LEMMA KeptSection_Start ==
  ASSUME NEW p, WellFormed(p), NEW section, IsList(section.items)
  PROVE  Kept(p, ParseSection_Start(p, section))
<1>1. PICK c : c.section = section /\ c.base = p
  BY Contexts
<1>2. PICK read : read = StartItems!Fold(c, p, Places(c.section))
  OBVIOUS
<1>3. Kept(p, read) /\ Kept(read, read)
  BY <1>1, <1>2, StartItemsKeep, KeptWell, KeptSame
<1>4. Kept(p, IF c.section.cut /\ Ok(read) THEN Fail(read, "underrun") ELSE read)
  BY <1>3, KeptEnd
<1> QED
  BY <1>1, <1>2, <1>4, StartRead, Zenon

LEMMA KeptSection_Global ==
  ASSUME NEW p, WellFormed(p), NEW section, IsList(section.items)
  PROVE  Kept(p, ParseSection_Global(p, section))
<1>1. PICK c : c.section = section /\ c.base = p
  BY Contexts
<1>2. PICK read : read = Globals!Fold(c, p, Places(c.section))
  OBVIOUS
<1>3. Kept(p, read) /\ Kept(read, AddGlobal(read, NoImport, FALSE, NoExpression))
  BY <1>1, <1>2, GlobalsKeep, KeptWell, KeptAddGlobal
<1>4. Kept(p, IF c.section.cut /\ Ok(read) THEN Fail(AddGlobal(read, NoImport, FALSE, NoExpression), "underrun") ELSE read)
  BY <1>3, KeptEnd
<1> QED
  BY <1>1, <1>2, <1>4, GlobalsRead, Zenon

LEMMA KeptSection_Data ==
  ASSUME NEW p, WellFormed(p), NEW section, IsList(section.items)
  PROVE  Kept(p, ParseSection_Data(p, section))
<1>1. PICK a : a = Alloc(p, {<<"dataSegments", 0>>})
  OBVIOUS
<1>2. Kept(p, a) /\ WellFormed(a)
  <2>1. "dataSegments" \in ArrayTags /\ "dataSegments" # "memory"
    BY DEF ArrayTags
  <2> QED
    BY <1>1, <2>1, KeptArrays, KeptWell
<1>3. PICK c : c.section = section /\ c.base = a
  BY Contexts
<1>4. PICK read : read = DataItems!Fold(c, a, Places(c.section))
  OBVIOUS
<1>5. Kept(a, read) /\ Kept(read, read)
  BY <1>2, <1>3, <1>4, DataItemsKeep, KeptWell, KeptSame
<1>6. Kept(a, IF c.section.cut /\ Ok(read) THEN Fail(read, "underrun") ELSE read)
  BY <1>5, KeptEnd
<1>7. ParseSection_Data(p, section) = IF c.section.cut /\ Ok(read) THEN Fail(read, "underrun") ELSE read
  BY <1>1, <1>3, <1>4, DataRead, Zenon
<1> QED
  BY <1>2, <1>6, <1>7, KeptTwice

\* The section's name is freed.
LEMMA CustomFreed ==
  ASSUME NEW p, WellFormed(p), <<"custom", 0>> \in p.heap
  PROVE  Kept(p, Free(p, {<<"custom", 0>>}))
<1>1. PICK b, q : b = <<"custom", 0>> /\ q = Free(p, {b})
  OBVIOUS
<1>2. {b} \ {NoString} = {b} /\ b \in Arrays /\ b # <<"memory", 0>>
  BY <1>1 DEF NoString, Arrays, ArrayTags
<1>3. /\ q.m = p.m /\ q.funcTypes = p.funcTypes /\ q.serial = p.serial
      /\ q.heap = p.heap \ {b} /\ q.twice = (p.twice \/ ~({b} \subseteq p.heap))
  BY <1>1, <1>2, FreeParts
<1>4. ASSUME Owns(p)
      PROVE  Unmoved(p, q)
  <2>1. q.twice = p.twice /\ q.heap \ Arrays = p.heap \ Arrays
    BY <1>1, <1>2, <1>3, <1>4 DEF Owns
  <2> QED
    BY <1>3, <1>4, <2>1 DEF Owns, Numbered, Unmoved
<1> QED
  BY <1>1, <1>4, OwnsUnmoved, FollowsHeap DEF Kept

LEMMA KeptSection_Custom ==
  ASSUME NEW p, WellFormed(p), NEW section, IsList(section.items),
         section.name = "name" => AreNumbers(section.items)
  PROVE  Kept(p, ParseSection_Custom(p, section))
<1>1. PICK a : a = Alloc(p, {<<"custom", 0>>})
  OBVIOUS
<1>2. Kept(p, a) /\ WellFormed(a) /\ <<"custom", 0>> \in a.heap
  <2>1. "custom" \in ArrayTags /\ "custom" # "memory"
    BY DEF ArrayTags
  <2>2. <<"custom", 0>> \in a.heap
    BY <1>1 DEF Alloc, WellFormed, IsParser, ParserFields
  <2> QED
    BY <1>1, <2>1, <2>2, KeptArrays, KeptWell
<1>3. PICK c : c.section = section /\ c.base = a
  BY Contexts
<1>4. PICK named : named = ReadItems(LAMBDA q, k, index : ParseName(q, index), LAMBDA q : q, a, c.section)
  OBVIOUS
<1>5. ASSUME section.name = "name"
      PROVE  Kept(a, named) /\ (Ok(named) => <<"custom", 0>> \in named.heap)
  <2>1. PICK r : r = NameItems!Fold(c, a, Places(c.section))
    OBVIOUS
  <2>2. Kept(a, r) /\ Kept(r, r) /\ <<"custom", 0>> \in r.heap /\ WellFormed(r)
    BY <1>2, <1>3, <1>5, <2>1, NamesKeep, KeptWell, KeptSame
  <2>3. Kept(a, IF c.section.cut /\ Ok(r) THEN Fail(r, "underrun") ELSE r)
    BY <2>2, KeptEnd
  <2>4. named = IF c.section.cut /\ Ok(r) THEN Fail(r, "underrun") ELSE r
    BY <1>4, <2>1, NamesRead, Zenon
  <2>5. ~Ok(Fail(r, "underrun"))
    BY <2>2, KeptFail
  <2> QED
    BY <2>2, <2>3, <2>4, <2>5
<1>6. Kept(p, Free(a, {<<"custom", 0>>}))
  BY <1>2, CustomFreed, KeptTwice
<1>7. section.name = "name" => Kept(p, named) /\ (Ok(named) => Kept(p, Free(named, {<<"custom", 0>>})))
  BY <1>2, <1>5, CustomFreed, KeptWell, KeptTwice
<1> QED
  BY <1>1, <1>3, <1>4, <1>6, <1>7, Zenon DEF ParseSection_Custom

LEMMA KeptSection_Others ==
  ASSUME NEW p, WellFormed(p), NEW section
  PROVE  /\ Kept(p, ParseSection_Memory(p, section))
         /\ IsSegments(section.items) => Kept(p, ParseSection_Element(p, section))
<1>1. Kept(p, p) /\ Kept(p, Fail(p, "memories")) /\ Kept(p, [p EXCEPT !.m.memory = section.items[1]])
  BY KeptSame, KeptFail, KeptFields
<1>2. PICK x : x = [items |-> section.items, cut |-> section.cut]
  OBVIOUS
<1>3. IsSegments(section.items) => Kept(p, [p EXCEPT !.m.elements = x])
  BY <1>2, KeptFields
<1> QED
  BY <1>1, <1>2, <1>3 DEF ParseSection_Memory, ParseSection_Element

LEMMA KeptSection_Code ==
  ASSUME NEW p, WellFormed(p), NEW section
  PROVE  Kept(p, ParseSection_Code(p, section))
<1>1. Kept(p, Fail(p, "function count")) /\ Kept(p, Fail(p, "overrun"))
  BY KeptFail
<1>2. PICK m : m = p.m
  OBVIOUS
<1> DEFINE Body(f) == IF f <= m.imports \/ ~section.items[f - m.imports].present THEN Unset
                      ELSE f - m.imports
<1>3. PICK s : s = m.functions
  OBVIOUS
<1>4. PICK t : t = [f \in 1 .. Len(s) |-> SetBody(s[f], Body(f))]
  OBVIOUS
<1>5. AreFunctions(s) /\ Len(s) \in Nat
  BY <1>2, <1>3, SeqParts DEF WellFormed, AreFunctions
<1> HIDE DEF Body
<1>6. \A f \in 1 .. Len(s) : IsFunction(t[f]) /\ t[f].import = s[f].import /\ t[f].stub = s[f].stub
  BY <1>4, <1>5, FunctionChanges DEF AreFunctions, SameImported
<1>7. Len(t) = Len(s) /\ IsSeq(t)
  <2>1. t \in Seq({t[f] : f \in 1 .. Len(s)})
    BY <1>4, <1>5
  <2>2. Len(t) = Len(s)
    BY <1>4, <1>5
  <2> QED
    BY <2>1, <2>2 DEF IsSeq
<1>8. PICK q : q = SetFunctions(p, t)
  OBVIOUS
<1>9. Kept(p, q)
  <2>1. AreFunctions(t) /\ SameLinks(p.m.functions, t)
    BY <1>2, <1>3, <1>6, <1>7 DEF AreFunctions, SameLinks
  <2>2. Follows(p, q)
    BY <1>8, <2>1, FollowsLinks
  <2>3. q.m.functions = t /\ q.m.globals = p.m.globals /\ SameHeap(p, q)
    BY <1>8, <2>1, WithFunctions
  <2>4. \A f \in 1 .. Len(s) : /\ FunctionBlocks(t[f]) = FunctionBlocks(s[f])
                               /\ OwnedFunction(s[f]) => OwnedFunction(t[f])
    <3>1. TAKE f \in 1 .. Len(s)
    <3>2. IsFunction(s[f])
      BY <1>5 DEF AreFunctions
    <3>3. t[f] = SetBody(s[f], Body(f))
      BY <1>4
    <3>4. /\ t[f].names = s[f].names /\ t[f].import = s[f].import
          /\ t[f].constants = s[f].constants /\ t[f].compiled = s[f].compiled
      BY <3>2, <3>3 DEF SetBody, IsFunction, FunctionFields
    <3> QED
      BY <3>4 DEF FunctionBlocks, NamesOf, OwnedFunction
  <2>5. Owning(p, q)
    BY <1>2, <1>3, <1>7, <2>3, <2>4, OwnsAsBefore
  <2> QED
    BY <2>2, <2>5 DEF Kept
<1>10. ParseSection_Code(p, section) \in {Fail(p, "function count"), Fail(p, "overrun"), q}
  BY ONLY <1>2, <1>3, <1>4, <1>8 DEF ParseSection_Code, Body, SetBody, SetFunctions
<1> QED
  BY <1>1, <1>9, <1>10

-----------------------------------------------------------------------------
(* Functions, imported ones first.                                         *)

\* What has been parsed: imports are among the functions, none is linked.
Unlinked(p) ==
  /\ p.m.imports \in Nat /\ p.m.imports <= Len(p.m.functions)
  /\ \A f \in 1 .. p.m.imports : p.m.functions[f].import # NoImport
  /\ \A f \in 1 .. Len(p.m.functions) : p.m.functions[f].stub = Unset

OnlyImports(p) == Len(p.m.functions) = p.m.imports

\* Before the function section all functions are imports.
Parsing(p) ==
  /\ WellFormed(p) /\ p.expected \in Nat \ {0}
  /\ Ok(p) => Unlinked(p) /\ (p.expected <= 3 => OnlyImports(p))

LEMMA UnlinkedKept ==
  ASSUME NEW p, NEW q, WellFormed(p), Unlinked(p), Follows(p, q)
  PROVE  Unlinked(q) /\ (OnlyImports(p) => OnlyImports(q)) /\ (Ok(q) => Ok(p))
<1>1. Len(p.m.functions) \in Nat
  BY FunctionsLength
<1>2. \A f \in 1 .. p.m.imports : f \in 1 .. Len(p.m.functions)
  BY <1>1 DEF Unlinked
<1>3. /\ q.m.imports = p.m.imports /\ Len(q.m.functions) = Len(p.m.functions)
      /\ \A f \in 1 .. Len(p.m.functions) : /\ q.m.functions[f].import = p.m.functions[f].import
                                            /\ q.m.functions[f].stub = p.m.functions[f].stub
      /\ Ok(q) => Ok(p)
  BY DEF Follows, SameLinks
<1> QED
  BY <1>2, <1>3 DEF Unlinked, OnlyImports

\* Both at once for a record that may have failed.
LEMMA ParsingKept ==
  ASSUME NEW p, NEW q, Parsing(p), Follows(p, q)
  PROVE  Parsing(q)
<1>1. WellFormed(q) /\ q.expected = p.expected /\ (Ok(q) => Ok(p))
  BY DEF Follows
<1> QED
  BY <1>1, UnlinkedKept DEF Parsing

LEMMA WithImports ==
  ASSUME NEW p, WellFormed(p), NEW x, NEW q, q = [p EXCEPT !.m.imports = x]
  PROVE  /\ WellFormed(q) /\ q.m.functions = p.m.functions /\ q.m.imports = x
         /\ q.expected = p.expected /\ q.error = p.error
<1>1. PICK m : m = [p.m EXCEPT !.imports = x]
  OBVIOUS
<1>2. IsModule(m) /\ HasLists(m) /\ m.functions = p.m.functions /\ m.imports = x
  BY <1>1 DEF WellFormed, IsModule, ModuleFields, HasLists
<1>3. q = [p EXCEPT !.m = m]
  BY <1>1
<1>4. IsParser(q) /\ q.serial = p.serial /\ q.m = m /\ q.expected = p.expected /\ q.error = p.error
  BY <1>3 DEF WellFormed, IsParser, ParserFields
<1> QED
  BY <1>2, <1>4 DEF WellFormed

LEMMA AppendFunction ==
  ASSUME NEW s, AreFunctions(s), NEW x, IsFunction(x), NEW t, t = Append(s, x)
  PROVE  /\ AreFunctions(t) /\ Len(s) \in Nat /\ Len(t) = Len(s) + 1 /\ t[Len(t)] = x
         /\ \A f \in 1 .. Len(s) : t[f] = s[f]
<1>1. IsSeq(s) /\ Len(s) \in Nat
  BY SeqParts DEF AreFunctions
<1>2. IsPushed(s, t, x)
  BY <1>1, PushParts
<1>3. \A f \in 1 .. Len(t) : f \in 1 .. Len(s) \/ f = Len(t)
  BY <1>1, <1>2 DEF IsPushed
<1> QED
  BY <1>1, <1>2, <1>3 DEF IsPushed, AreFunctions

\* A function more, or an error.
NewFunction(type, import) ==
  [EmptyFunction EXCEPT !.type = type, !.import = import,
     !.names = IF import = NoImport THEN <<>> ELSE <<(<<"field", import.at>>)>>]

\* The heap but for the array of the functions, and globals.
AddsNoMore(p, q) ==
  /\ q.m.globals = p.m.globals /\ q.m.linked = p.m.linked
  /\ q.twice = p.twice /\ q.serial = p.serial /\ q.funcTypes = p.funcTypes
  /\ q.heap = p.heap \cup {<<"functions", 0>>}

LEMMA Added ==
  ASSUME NEW p, WellFormed(p), NEW type, NEW import, NEW q, q = AddFunction(p, type, import)
  PROVE  /\ WellFormed(q) /\ q.m.imports = p.m.imports /\ q.expected = p.expected /\ (Ok(q) => Ok(p))
         /\ AddsNoMore(p, q)
         /\ Len(q.m.functions) = Len(p.m.functions) + 1
         /\ \A f \in 1 .. Len(p.m.functions) : q.m.functions[f] = p.m.functions[f]
         /\ Ok(p) => q.m.functions[Len(p.m.functions) + 1] = IF Ok(q) THEN NewFunction(type, import) ELSE EmptyFunction
<1>1. PICK names : names = IF import = NoImport THEN <<>> ELSE <<(<<"field", import.at>>)>>
  OBVIOUS
<1>2. PICK added : added = [EmptyFunction EXCEPT !.type = type, !.import = import, !.names = names]
  OBVIOUS
<1>3. /\ IsFunction(added) /\ added.import = import /\ added.stub = Unset
      /\ IsFunction(EmptyFunction)
  BY <1>2 DEF IsFunction, FunctionFields, EmptyFunction
<1>4. PICK a : a = Alloc(p, {<<"functions", 0>>})
  OBVIOUS
<1>5. /\ Follows(p, a) /\ WellFormed(a) /\ a.m = p.m /\ a.twice = p.twice /\ a.serial = p.serial
      /\ a.funcTypes = p.funcTypes /\ a.heap = p.heap \cup {<<"functions", 0>>} /\ a.error = p.error
  <2>1. Follows(p, a)
    BY <1>4, FollowsHeap
  <2>2. /\ a.m = p.m /\ a.twice = p.twice /\ a.serial = p.serial
        /\ a.funcTypes = p.funcTypes /\ a.heap = p.heap \cup {<<"functions", 0>>} /\ a.error = p.error
    BY <1>4 DEF Alloc, WellFormed, IsParser, ParserFields
  <2> QED
    BY <2>1, <2>2, FollowsWell
<1>6. PICK s : s = p.m.functions
  OBVIOUS
<1>7. AreFunctions(s)
  BY <1>6 DEF WellFormed
<1>8. PICK t : t = Append(s, EmptyFunction)
  OBVIOUS
<1>9. /\ AreFunctions(t) /\ Len(t) = Len(s) + 1 /\ t[Len(t)] = EmptyFunction
      /\ \A f \in 1 .. Len(s) : t[f] = s[f]
  <2>1. IsFunction(EmptyFunction)
    BY <1>3
  <2>2. AreFunctions(t)
    BY ONLY <1>7, <1>8, <2>1, AppendFunction
  <2>3. Len(t) = Len(s) + 1
    BY ONLY <1>7, <1>8, <2>1, AppendFunction
  <2>4. t[Len(t)] = EmptyFunction
    BY ONLY <1>7, <1>8, <2>1, AppendFunction
  <2>5. \A f \in 1 .. Len(s) : t[f] = s[f]
    BY ONLY <1>7, <1>8, <2>1, AppendFunction
  <2> QED
    BY ONLY <2>2, <2>3, <2>4, <2>5
<1>10. PICK u : u = Append(s, added)
  OBVIOUS
<1>11. /\ AreFunctions(u) /\ Len(s) \in Nat /\ Len(u) = Len(s) + 1 /\ u[Len(u)] = added
       /\ \A f \in 1 .. Len(s) : u[f] = s[f]
  <2>1. IsFunction(added)
    BY <1>3
  <2>2. AreFunctions(u)
    BY ONLY <1>7, <1>10, <2>1, AppendFunction
  <2>3. Len(s) \in Nat
    BY ONLY <1>7, <1>10, <2>1, AppendFunction
  <2>4. Len(u) = Len(s) + 1
    BY ONLY <1>7, <1>10, <2>1, AppendFunction
  <2>5. u[Len(u)] = added
    BY ONLY <1>7, <1>10, <2>1, AppendFunction
  <2>6. \A f \in 1 .. Len(s) : u[f] = s[f]
    BY ONLY <1>7, <1>10, <2>1, AppendFunction
  <2> QED
    BY ONLY <2>2, <2>3, <2>4, <2>5, <2>6
<1>12. PICK b : b = SetFunctions(a, t)
  OBVIOUS
<1>13. /\ WellFormed(b) /\ b.m.functions = t /\ b.m.imports = p.m.imports /\ b.expected = p.expected
       /\ b.error = p.error /\ AddsNoMore(p, b)
  <2>1. /\ WellFormed(b) /\ b.m.functions = t /\ b.m.imports = a.m.imports
        /\ b.m.globals = a.m.globals /\ b.expected = a.expected /\ b.error = a.error
        /\ b.m.linked = a.m.linked /\ SameHeap(a, b)
    BY <1>5, <1>9, <1>12, WithFunctions
  <2> QED
    BY <1>5, <2>1 DEF Follows, AddsNoMore, SameHeap
<1>14. PICK d : d = SetFunctions(b, u)
  OBVIOUS
<1>15. /\ WellFormed(d) /\ d.m.functions = u /\ d.m.imports = p.m.imports /\ d.expected = p.expected
       /\ d.error = p.error /\ AddsNoMore(p, d)
  <2>1. /\ WellFormed(d) /\ d.m.functions = u /\ d.m.imports = b.m.imports
        /\ d.m.globals = b.m.globals /\ d.expected = b.expected /\ d.error = b.error
        /\ d.m.linked = b.m.linked /\ SameHeap(b, d)
    BY <1>11, <1>13, <1>14, WithFunctions
  <2> QED
    BY <1>13, <2>1 DEF AddsNoMore, SameHeap
<1>16. PICK e : e = Fail(b, "type index")
  OBVIOUS
<1>17. /\ WellFormed(e) /\ e.m.imports = p.m.imports /\ e.expected = p.expected /\ ~Ok(e)
       /\ e.m.functions = t /\ AddsNoMore(p, e)
  <2>1. Follows(b, e) /\ ~Ok(e) /\ WellFormed(e)
    BY <1>13, <1>16, FollowsFail, FollowsWell
  <2>2. e.m = b.m /\ SameHeap(b, e)
    BY <1>13, <1>16 DEF Fail, WellFormed, IsParser, ParserFields, SameHeap
  <2> QED
    BY <1>13, <2>1, <2>2 DEF Follows, AddsNoMore, SameHeap
<1>18. b = [a EXCEPT !.m.functions = Append(@, EmptyFunction)]
  BY ONLY <1>5, <1>6, <1>8, <1>12 DEF SetFunctions
<1>19. d = [b EXCEPT !.m.functions = Append(p.m.functions, added)]
  BY ONLY <1>6, <1>10, <1>14 DEF SetFunctions
<1>20. q = IF type >= Len(p.m.types) THEN e ELSE d
  BY ONLY q = AddFunction(p, type, import), <1>1, <1>2, <1>4, <1>16, <1>18, <1>19, Zenon DEF AddFunction
<1>21. CASE q = e
  BY ONLY <1>6, <1>9, <1>17, <1>21
<1>22. CASE q = d
  <2>1. added = NewFunction(type, import)
    BY <1>1, <1>2 DEF NewFunction
  <2>2. Ok(q) <=> Ok(p)
    BY <1>15, <1>22 DEF Ok
  <2>3. q.m.functions[Len(p.m.functions) + 1] = added
    BY ONLY <1>6, <1>11, <1>15, <1>22
  <2>4. /\ WellFormed(q) /\ q.m.imports = p.m.imports /\ q.expected = p.expected /\ (Ok(q) => Ok(p))
        /\ AddsNoMore(p, q)
        /\ Len(q.m.functions) = Len(p.m.functions) + 1
        /\ \A f \in 1 .. Len(p.m.functions) : q.m.functions[f] = p.m.functions[f]
    BY ONLY <1>6, <1>11, <1>15, <1>22, <2>2
  <2> QED
    BY ONLY <2>1, <2>2, <2>3, <2>4 DEF Ok
<1> QED
  BY ONLY <1>20, <1>21, <1>22

\* Adding one after those there are.
LEMMA UnlinkedAdded ==
  ASSUME NEW p, WellFormed(p), Unlinked(p), NEW type, NEW import, NEW q, q = AddFunction(p, type, import),
         Ok(q)
  PROVE  /\ Unlinked(q) /\ q.m.imports = p.m.imports /\ Len(q.m.functions) = Len(p.m.functions) + 1
         /\ q.m.functions[Len(q.m.functions)].import = import
         /\ q.m.functions[Len(q.m.functions)].stub = Unset
         /\ \A f \in 1 .. Len(p.m.functions) : q.m.functions[f] = p.m.functions[f]
<1>1. /\ q.m.imports = p.m.imports /\ Len(q.m.functions) = Len(p.m.functions) + 1
      /\ \A f \in 1 .. Len(p.m.functions) : q.m.functions[f] = p.m.functions[f]
      /\ q.m.functions[Len(q.m.functions)].import = import
      /\ q.m.functions[Len(q.m.functions)].stub = Unset
  <2>1. NewFunction(type, import).import = import /\ NewFunction(type, import).stub = Unset
    BY DEF NewFunction, EmptyFunction
  <2>2. /\ q.m.imports = p.m.imports /\ Len(q.m.functions) = Len(p.m.functions) + 1
        /\ \A f \in 1 .. Len(p.m.functions) : q.m.functions[f] = p.m.functions[f]
        /\ q.m.functions[Len(p.m.functions) + 1] = NewFunction(type, import)
    BY Added
  <2> QED
    BY ONLY <2>1, <2>2
<1>2. PICK n : n = Len(p.m.functions)
  OBVIOUS
<1>3. n \in Nat /\ Len(q.m.functions) = n + 1
  BY <1>1, <1>2, FunctionsLength
<1>4. \A f \in 1 .. n + 1 : f \in 1 .. n \/ f = n + 1
  BY <1>3
<1>5. \A f \in 1 .. Len(q.m.functions) : q.m.functions[f].stub = Unset
  BY <1>1, <1>2, <1>3, <1>4 DEF Unlinked
<1>6. \A f \in 1 .. p.m.imports : f \in 1 .. n /\ q.m.functions[f].import # NoImport
  BY <1>1, <1>2, <1>3 DEF Unlinked
<1>7. p.m.imports \in Nat /\ p.m.imports <= n + 1
  BY <1>2, <1>3 DEF Unlinked
<1> QED
  BY <1>1, <1>3, <1>5, <1>6, <1>7 DEF Unlinked


\* What is added owns what is new for it.
LEMMA OwnsAddFunction ==
  ASSUME NEW p, NEW a, NEW new, OwnsAdding(p, a, new), Ok(a), NEW type, NEW import, ImportStrings(import.at) = new,
         import = NoImport \/ import.at # Unset, NEW q, q = AddFunction(a, type, import)
  PROVE  /\ Ok(q) => Owning(p, q)
         /\ \A r : r.m = q.m /\ ~Ok(q) /\ (Owns(p) => Exchanged(p, r, {}, {})) => Owning(p, r)
<1>1. PICK n, i : n = Len(p.m.functions) /\ i = n + 1
  OBVIOUS
<1>2. /\ AddsNoMore(a, q) /\ Len(q.m.functions) = n + 1
      /\ \A f \in 1 .. n : q.m.functions[f] = p.m.functions[f]
      /\ q.m.functions[i] = IF Ok(q) THEN NewFunction(type, import) ELSE EmptyFunction
  <2>1. WellFormed(a) /\ a.m = p.m
    BY DEF OwnsAdding
  <2>2. AddsNoMore(a, q) /\ Len(q.m.functions) = Len(a.m.functions) + 1
    BY <2>1, Added
  <2>3. \A f \in 1 .. Len(a.m.functions) : q.m.functions[f] = a.m.functions[f]
    BY <2>1, Added
  <2>4. PICK j : j = Len(a.m.functions) + 1
    OBVIOUS
  <2>5. q.m.functions[j] = IF Ok(q) THEN NewFunction(type, import) ELSE EmptyFunction
    BY <2>1, <2>4, Added DEF Ok
  <2> QED
    BY ONLY <1>1, <2>1, <2>2, <2>3, <2>4, <2>5
<1>3. n \in Nat
  BY <1>1, FunctionsLength DEF OwnsAdding
<1>4. PICK old : old = IF i \in 1 .. Len(p.m.functions) THEN FunctionBlocks(p.m.functions[i]) ELSE {}
  OBVIOUS
<1>5. /\ old = {} /\ 1 .. Len(q.m.functions) = (1 .. Len(p.m.functions)) \cup {i}
      /\ \A f \in 1 .. Len(p.m.functions) : f # i => q.m.functions[f] = p.m.functions[f]
      /\ q.m.globals = p.m.globals
  BY <1>1, <1>2, <1>3, <1>4 DEF AddsNoMore, OwnsAdding
<1>6. ASSUME Ok(q)
      PROVE  Owning(p, q)
  <2>1. PICK f : f = NewFunction(type, import)
    OBVIOUS
  <2>2. /\ f.import = import /\ f.constants = NoString /\ f.compiled = NoBody
        /\ f.names = IF import = NoImport THEN <<>> ELSE <<(<<"field", import.at>>)>>
    BY <2>1 DEF NewFunction, EmptyFunction
  <2>3. OwnedFunction(f) /\ FunctionBlocks(f) = new
    <3>1. CASE import = NoImport
      <4>1. f.names = <<>> /\ IsSeq(f.names) /\ Len(f.names) = 0
        <5>1. <<>> \in Seq({})
          OBVIOUS
        <5> QED
          BY <2>2, <3>1, <5>1 DEF IsSeq
      <4>2. NamesOf(f) = {}
        BY <4>1 DEF NamesOf
      <4> QED
        BY <2>2, <4>1, <4>2 DEF OwnedFunction, FunctionBlocks, OwnsAdding
    <3>2. CASE import # NoImport
      <4>1. PICK name : name = <<"field", import.at>>
        OBVIOUS
      <4>2. f.names = <<name>> /\ IsSeq(f.names) /\ Len(f.names) = 1 /\ f.names[1] = name
        <5>1. PICK s : s = <<name>>
          OBVIOUS
        <5>2. f.names = s
          BY <2>2, <3>2, <4>1, <5>1
        <5>3. s \in Seq({name}) /\ Len(s) = 1 /\ s[1] = name
          BY <5>1
        <5> QED
          BY ONLY <5>1, <5>2, <5>3 DEF IsSeq
      <4>3. NamesOf(f) = {name}
        BY <4>2 DEF NamesOf
      <4>4. name \in new
        BY <3>2, <4>1 DEF ImportStrings
      <4>5. FunctionBlocks(f) = new
        BY <2>2, <4>3, <4>4 DEF FunctionBlocks, OwnsAdding
      <4>6. import.at # Unset
        BY <3>2
      <4> QED
        BY <2>2, <4>1, <4>2, <4>5, <4>6 DEF OwnedFunction
    <3> QED
      BY <3>1, <3>2
  <2>4. Owns(p) => OwnedFunction(q.m.functions[i]) /\ FunctionBlocks(q.m.functions[i]) = old \cup new
    BY <1>2, <1>5, <1>6, <2>1, <2>3
  <2>5. Owns(p) => Exchanged(p, q, {}, new)
    <3>1. <<"functions", 0>> \in Arrays /\ <<"functions", 0>> # <<"memory", 0>>
      BY DEF Arrays, ArrayTags
    <3> QED
      BY <1>2, <3>1 DEF AddsNoMore, OwnsAdding, Exchanged
  <2>6. FunctionGets(p, q, i, old, new)
    BY ONLY <1>4, <1>5, <2>4, <2>5 DEF FunctionGets
  <2> QED
    BY ONLY <2>6, OwnsFunction
<1>7. ASSUME NEW r, r.m = q.m, ~Ok(q), Owns(p) => Exchanged(p, r, {}, {})
      PROVE  Owning(p, r)
  <2>1. OwnedFunction(EmptyFunction) /\ FunctionBlocks(EmptyFunction) = {}
    <3>1. <<>> \in Seq({})
      OBVIOUS
    <3>2. PICK f : f = EmptyFunction
      OBVIOUS
    <3>3. f.names = <<>> /\ f.constants = NoString /\ f.import.at = Unset /\ f.compiled = NoBody
      BY <3>2 DEF EmptyFunction, NoImport
    <3>4. IsSeq(f.names) /\ Len(f.names) = 0 /\ NamesOf(f) = {}
      BY <3>1, <3>3 DEF IsSeq, NamesOf
    <3>5. ImportStrings(f.import.at) = {}
      BY <3>3 DEF ImportStrings
    <3> QED
      BY <3>2, <3>3, <3>4, <3>5 DEF OwnedFunction, FunctionBlocks
  <2>2. PICK none : none = {}
    OBVIOUS
  <2>3. Owns(p) => OwnedFunction(r.m.functions[i]) /\ FunctionBlocks(r.m.functions[i]) = old \cup none
    BY <1>2, <1>5, <1>7, <2>1, <2>2
  <2>4. /\ r.m.globals = p.m.globals /\ 1 .. Len(r.m.functions) = (1 .. Len(p.m.functions)) \cup {i}
        /\ \A f \in 1 .. Len(p.m.functions) : f # i => r.m.functions[f] = p.m.functions[f]
    BY <1>5, <1>7
  <2>5. Owns(p) => Exchanged(p, r, {}, none)
    BY <1>7, <2>2
  <2>6. FunctionGets(p, r, i, old, none)
    BY ONLY <1>4, <2>3, <2>4, <2>5 DEF FunctionGets
  <2> QED
    BY ONLY <2>6, OwnsFunction
<1> QED
  BY <1>6, <1>7

FunctionItem(q, item) == AddFunction(q, item, NoImport)
FunctionStep(c, q, k) == IF Ok(q) THEN FunctionItem(q, c.section.items[k]) ELSE q
FunctionRead(c, k, x) ==
  WellFormed(x) /\ x.expected = c.base.expected /\ Owning(c.base, x) /\ (Ok(x) => Unlinked(x))
FunctionItems == INSTANCE Folding WITH Op <- FunctionStep, Inv <- FunctionRead

LEMMA FunctionsRead ==
  ASSUME NEW c, NEW p
  PROVE  ParseSection_Function(p, c.section) =
           LET read == FunctionItems!Fold(c, p, Places(c.section))
           IN IF c.section.cut /\ Ok(read) THEN Fail(read, "underrun") ELSE read
  BY Zenon DEF ParseSection_Function, ReadItems, Places, FunctionStep, FunctionItem, FoldLeft, MapThenFoldSet,
          Max, FunctionItems!Fold,
          FunctionItems!MapThenFoldSet, FunctionItems!Largest

LEMMA OwnsAddPlain ==
  ASSUME NEW p, WellFormed(p), Ok(p), NEW type, NEW q, q = AddFunction(p, type, NoImport)
  PROVE  Owning(p, q)
<1>1. PICK new : new = {}
  OBVIOUS
<1>2. Owns(p) => Exchanged(p, p, {}, new)
  BY <1>1 DEF Owns, Numbered, Exchanged
<1>3. ImportStrings(NoImport.at) = new
  BY <1>1 DEF ImportStrings, NoImport
<1>4. OwnsAdding(p, p, new)
  BY <1>1, <1>2 DEF OwnsAdding
<1>5. AddsNoMore(p, q)
  BY Added
<1>6. Owns(p) => Exchanged(p, q, {}, {})
  <2>1. <<"functions", 0>> \in Arrays /\ <<"functions", 0>> # <<"memory", 0>>
    BY DEF Arrays, ArrayTags
  <2> QED
    BY <1>5, <2>1 DEF AddsNoMore, Owns, Numbered, Exchanged
<1>7. (Ok(q) => Owning(p, q)) /\ (q.m = q.m /\ ~Ok(q) /\ (Owns(p) => Exchanged(p, q, {}, {})) => Owning(p, q))
  BY <1>3, <1>4, OwnsAddFunction
<1> QED
  BY <1>6, <1>7

LEMMA ParsedFunctions ==
  ASSUME NEW p, WellFormed(p), Ok(p) => Unlinked(p), NEW section, IsList(section.items),
         NEW q, q = ParseSection_Function(p, section)
  PROVE  WellFormed(q) /\ q.expected = p.expected /\ Owning(p, q) /\ (Ok(q) => Unlinked(q))
<1>1. PICK c : c.section = section /\ c.base = p
  BY Contexts
<1>2. PICK n : n = Len(c.section.items)
  OBVIOUS
<1>3. n \in Nat /\ DOMAIN Places(c.section) = 1 .. n /\ \A k \in 1 .. n : Places(c.section)[k] = k
  BY <1>1, <1>2, ListPlaces
<1>4. ASSUME NEW k \in 1 .. n, NEW x, FunctionRead(c, k - 1, x)
      PROVE  FunctionRead(c, k, FunctionStep(c, x, k))
  <2>1. WellFormed(x) /\ x.expected = c.base.expected /\ Owning(c.base, x) /\ (Ok(x) => Unlinked(x))
    BY <1>4 DEF FunctionRead
  <2>2. CASE ~Ok(x)
    BY <2>1, <2>2 DEF FunctionStep, FunctionRead
  <2>3. CASE Ok(x)
    <3>1. PICK y : y = AddFunction(x, c.section.items[k], NoImport)
      OBVIOUS
    <3>2. WellFormed(y) /\ y.expected = x.expected
      BY <2>1, <3>1, Added
    <3>3. Ok(y) => Unlinked(y)
      BY <2>1, <2>3, <3>1, UnlinkedAdded
    <3>4. Owning(c.base, y)
      BY <2>1, <2>3, <3>1, OwnsAddPlain, OwningTwice
    <3> QED
      BY <2>1, <2>3, <3>1, <3>2, <3>3, <3>4 DEF FunctionStep, FunctionItem, FunctionRead
  <2> QED
    BY <2>2, <2>3
<1>5. PICK read : read = FunctionItems!Fold(c, p, Places(c.section))
  OBVIOUS
<1>6. FunctionRead(c, 0, p)
  BY <1>1 DEF FunctionRead, Owning
<1>7. FunctionRead(c, n, read)
  BY <1>3, <1>4, <1>5, <1>6, CountUp, FunctionItems!FoldKeeps DEF FunctionItems!Induction
<1>8. q = IF c.section.cut /\ Ok(read) THEN Fail(read, "underrun") ELSE read
  BY <1>1, <1>5, FunctionsRead, Zenon
<1>9. Kept(read, Fail(read, "underrun")) /\ ~Ok(Fail(read, "underrun"))
  BY <1>7, KeptFail DEF FunctionRead
<1>10. WellFormed(Fail(read, "underrun")) /\ Fail(read, "underrun").expected = read.expected
  BY <1>9 DEF Kept, Follows
<1>11. Owning(p, read) /\ Owning(p, Fail(read, "underrun"))
  BY <1>1, <1>7, <1>9, OwningTwice DEF FunctionRead, Kept
<1> QED
  BY <1>1, <1>7, <1>8, <1>9, <1>10, <1>11 DEF FunctionRead

ImportStep(c, q, k) ==
  IF Ok(q) THEN ParseImport(q, c.section.items[k], k = Len(c.section.items) /\ ~c.section.cut) ELSE q
ImportRead(c, k, x) ==
  /\ WellFormed(x) /\ x.expected = c.base.expected /\ Owning(c.base, x)
  /\ Ok(x) => Unlinked(x) /\ OnlyImports(x)
ImportItems == INSTANCE Folding WITH Op <- ImportStep, Inv <- ImportRead

LEMMA ImportsRead ==
  ASSUME NEW c, NEW p
  PROVE  ParseSection_Import(p, c.section) =
           LET read == ImportItems!Fold(c, p, Places(c.section))
           IN IF c.section.cut /\ Ok(read)
              THEN Fail(ReadString(read, "module"), "underrun") ELSE read
  BY Zenon DEF ParseSection_Import, ReadItems, Places, ImportStep, FoldLeft, MapThenFoldSet,
          Max, ImportItems!Fold,
          ImportItems!MapThenFoldSet, ImportItems!Largest

\* One import, after functions that are all imports.
LEMMA ParsedImport ==
  ASSUME NEW p, WellFormed(p), Ok(p), Unlinked(p), OnlyImports(p), NEW item,
         NEW last, NEW q, q = ParseImport(p, item, last)
  PROVE  WellFormed(q) /\ q.expected = p.expected /\ Owning(p, q) /\ (Ok(q) => Unlinked(q) /\ OnlyImports(q))
<1>1. PICK strings : strings = ImportStrings(p.serial)
  OBVIOUS
<1>2. PICK held : held = Take(p, {"module", "field"})
  OBVIOUS
<1>3. PICK import : import = [module |-> item.module, field |-> item.field, at |-> p.serial]
  OBVIOUS
<1>4. PICK added : added = AddFunction(held, item.type, import)
  OBVIOUS
<1>5. Follows(p, held) /\ WellFormed(held)
  BY <1>2, FollowsHeap, FollowsWell, Zenon
<1>6. PICK free : free = Free(held, strings)
  OBVIOUS
<1>0. /\ OwnsAdding(p, held, strings) /\ NoString \notin strings /\ Ok(held)
      /\ held.heap = p.heap \cup strings /\ held.twice = p.twice /\ held.funcTypes = p.funcTypes
      /\ held.serial = p.serial + 1 /\ (Owns(p) => \A b \in strings : b \notin p.heap)
      /\ Kept(p, free) /\ ImportStrings(import.at) = strings /\ import.at # Unset
      /\ \A b \in strings : b[1] \in OwnTags
  <2>1. strings = {<<t, p.serial>> : t \in {"module", "field"}} /\ import.at = p.serial /\ p.serial # Unset
    BY <1>1, <1>3 DEF ImportStrings, WellFormed, Unset
  <2>2. {"module", "field"} \subseteq OwnTags
    BY DEF OwnTags
  <2>3. /\ NoString \notin strings /\ (Owns(p) => Exchanged(p, held, {}, strings))
        /\ (Owns(p) => \A b \in strings : b \notin p.heap) /\ Kept(p, free)
        /\ \A b \in strings : b[1] \in OwnTags
    BY <1>2, <1>6, <2>1, <2>2, OwnsTaken
  <2>4. /\ held.m = p.m /\ held.twice = p.twice /\ held.funcTypes = p.funcTypes /\ WellFormed(held)
        /\ held.serial = p.serial + 1 /\ held.heap = p.heap \cup {<<t, p.serial>> : t \in {"module", "field"}}
    BY <1>2, TakeParts
  <2>5. Ok(held)
    BY <1>2 DEF Ok, Take, WellFormed, IsParser, ParserFields
  <2> QED
    BY <1>1, <2>1, <2>3, <2>4, <2>5 DEF OwnsAdding
<1>7. Kept(p, free) /\ WellFormed(free)
  BY <1>0, KeptWell
<1>8. PICK imported : imported = [added EXCEPT !.m.imports = @ + 1]
  OBVIOUS
<1>9. PICK dropped : dropped = Free(added, strings)
  OBVIOUS
<1>10. PICK global : global = AddGlobal(held, import, FALSE, NoExpression)
  OBVIOUS
<1>11. PICK mem : mem = [free EXCEPT !.m.memory = [min |-> item.type, max |-> 0]]
  OBVIOUS
<1>12. PICK memory : memory = [mem EXCEPT !.m.memoryImported = TRUE]
  OBVIOUS
<1>13. PICK under : under = Fail(free, "underrun")
  OBVIOUS
<1>14. PICK bad : bad = Fail(free, "malformed")
  OBVIOUS
<1>15. Kept(p, global)
  <2>1. Follows(p, global)
    BY <1>5, <1>10, FollowsAddGlobal, FollowsTwice
  <2>2. Owning(p, global)
    BY <1>0, <1>10, OwnsAddGlobal
  <2> QED
    BY <2>1, <2>2 DEF Kept
<1>16. Kept(p, memory)
  <2>1. Kept(p, mem) /\ WellFormed(mem)
    BY <1>7, <1>11, KeptFields, KeptTwice, KeptWell
  <2> QED
    BY <1>12, <2>1, KeptFields, KeptTwice
<1>17. Kept(p, under) /\ Kept(p, bad)
  BY <1>7, <1>13, <1>14, KeptFail, KeptTwice
<1>18. /\ ~Ok(added) => q \in {dropped, global, memory, free, under, bad}
       /\ Ok(added) => q \in {imported, global, memory, free, under, bad}
  <2>1. memory = [free EXCEPT !.m.memory = [min |-> item.type, max |-> 0], !.m.memoryImported = TRUE]
    BY ONLY <1>11, <1>12
  <2> QED
    BY ONLY q = ParseImport(p, item, last), <1>1, <1>2, <1>3, <1>4, <1>6, <1>8, <1>9, <1>10, <1>13, <1>14,
       <2>1 DEF ParseImport
<1>19. CASE q \in {global, memory, free, under, bad}
  <2>1. Kept(p, q)
    BY <1>7, <1>15, <1>16, <1>17, <1>19
  <2> QED
    BY <2>1, UnlinkedKept DEF Kept, Follows
<1>20. /\ WellFormed(added) /\ added.expected = p.expected
  BY <1>4, <1>5, Added DEF Follows
<1>21. CASE ~Ok(added) /\ q = dropped
  <2>1. Follows(added, dropped)
    BY <1>9, <1>20, FollowsHeap
  <2>2. AddsNoMore(held, added)
    BY <1>4, <1>5, Added
  <2>3. /\ dropped.m = added.m /\ dropped.funcTypes = added.funcTypes /\ dropped.serial = added.serial
        /\ dropped.heap = added.heap \ (strings \ {NoString})
        /\ dropped.twice = (added.twice \/ ~(strings \ {NoString} \subseteq added.heap))
    BY <1>9, <1>20, FreeParts
  <2>4. Owns(p) => Exchanged(p, dropped, {}, {})
    <3>1. /\ <<"functions", 0>> \in Arrays /\ <<"functions", 0>> # <<"memory", 0>>
          /\ <<"functions", 0>> \notin strings /\ <<"memory", 0>> \notin strings
      BY <1>0 DEF Arrays, ArrayTags, OwnTags
    <3>2. ASSUME Owns(p)
          PROVE  dropped.heap = p.heap \cup {<<"functions", 0>>} /\ dropped.twice = p.twice
      <4>1. /\ added.heap = held.heap \cup {<<"functions", 0>>} /\ added.twice = held.twice
            /\ held.heap = p.heap \cup strings /\ held.twice = p.twice /\ NoString \notin strings
            /\ \A b \in strings : b \notin p.heap
        BY <1>0, <2>2, <3>2 DEF AddsNoMore
      <4>2. p.twice = FALSE
        BY <3>2 DEF Owns
      <4>3. strings \ {NoString} = strings
        BY ONLY <4>1
      <4>4. strings \subseteq added.heap /\ added.heap \ strings = p.heap \cup {<<"functions", 0>>}
        BY ONLY <3>1, <4>1
      <4> QED
        BY ONLY <2>3, <4>1, <4>2, <4>3, <4>4
    <3>3. /\ dropped.funcTypes = p.funcTypes /\ dropped.serial = p.serial + 1 /\ p.serial \in Nat
      BY <1>0, <2>2, <2>3 DEF AddsNoMore, WellFormed
    <3> QED
      BY <3>1, <3>2, <3>3 DEF Exchanged
  <2>5. Owning(p, dropped)
    BY <1>0, <1>4, <1>21, <2>3, <2>4, OwnsAddFunction
  <2> QED
    BY <1>20, <1>21, <2>1, <2>5 DEF Follows
<1>22. CASE Ok(added) /\ q = imported
  <2>0. Owning(p, imported)
    <3>1. Owning(p, added)
      BY <1>0, <1>4, <1>22, OwnsAddFunction
    <3>2. PICK m : m = [added.m EXCEPT !.imports = @ + 1]
      OBVIOUS
    <3>3. m.functions = added.m.functions /\ m.globals = added.m.globals
      BY <1>20, <3>2 DEF WellFormed, IsModule, ModuleFields
    <3>4. imported = [added EXCEPT !.m = m]
      BY <1>8, <3>2
    <3>5. imported.m = m /\ SameHeap(added, imported)
      BY <1>20, <3>4 DEF WellFormed, IsParser, ParserFields, SameHeap
    <3> QED
      BY <3>1, <3>3, <3>5, OwnsSameHeap, OwningTwice
  <2>1. Unlinked(held) /\ OnlyImports(held)
    BY <1>5, UnlinkedKept
  <2>2. /\ Unlinked(added) /\ added.m.imports = held.m.imports
        /\ Len(added.m.functions) = Len(held.m.functions) + 1
        /\ added.m.functions[Len(added.m.functions)].import = import
    BY <1>4, <1>5, <1>22, <2>1, UnlinkedAdded
  <2>3. import # NoImport
    <3>1. import.at = p.serial /\ NoImport.at = Unset /\ p.serial # Unset
      BY <1>3 DEF NoImport, Unset, WellFormed
    <3> QED
      BY <3>1
  <2>4. /\ WellFormed(imported) /\ imported.m.functions = added.m.functions
        /\ imported.m.imports = added.m.imports + 1 /\ imported.expected = added.expected
    <3>1. PICK x : x = added.m.imports + 1
      OBVIOUS
    <3>2. imported = [added EXCEPT !.m.imports = x]
      BY <1>8, <3>1
    <3>3. WellFormed(added)
      BY <1>20
    <3> QED
      BY ONLY <3>1, <3>2, <3>3, WithImports
  <2>5. PICK n : n = held.m.imports
    OBVIOUS
  <2>6. n \in Nat /\ Len(added.m.functions) = n + 1 /\ imported.m.imports = n + 1
    BY <2>1, <2>2, <2>4, <2>5 DEF Unlinked, OnlyImports
  <2>7. \A f \in 1 .. n + 1 : f \in 1 .. n \/ f = n + 1
    BY <2>6
  <2>8. \A f \in 1 .. imported.m.imports : imported.m.functions[f].import # NoImport
    BY <2>2, <2>3, <2>4, <2>5, <2>6, <2>7 DEF Unlinked
  <2>9. \A f \in 1 .. Len(imported.m.functions) : imported.m.functions[f].stub = Unset
    BY ONLY <2>2, <2>4 DEF Unlinked
  <2>10. imported.m.imports = Len(imported.m.functions) /\ imported.m.imports \in Nat
    BY ONLY <2>4, <2>6
  <2>11. Unlinked(imported) /\ OnlyImports(imported)
    BY ONLY <2>8, <2>9, <2>10 DEF Unlinked, OnlyImports
  <2> QED
    BY ONLY <1>20, <1>22, <2>0, <2>4, <2>11
<1> QED
  BY <1>18, <1>19, <1>21, <1>22

LEMMA ParsedImports ==
  ASSUME NEW p, WellFormed(p), Ok(p), Unlinked(p), OnlyImports(p), NEW section, IsList(section.items),
         NEW q, q = ParseSection_Import(p, section)
  PROVE  WellFormed(q) /\ q.expected = p.expected /\ Owning(p, q) /\ (Ok(q) => Unlinked(q) /\ OnlyImports(q))
<1>1. PICK c : c.section = section /\ c.base = p
  BY Contexts
<1>2. PICK n : n = Len(c.section.items)
  OBVIOUS
<1>3. n \in Nat /\ DOMAIN Places(c.section) = 1 .. n /\ \A k \in 1 .. n : Places(c.section)[k] = k
  BY <1>1, <1>2, ListPlaces
<1>4. ASSUME NEW k \in 1 .. n, NEW x, ImportRead(c, k - 1, x)
      PROVE  ImportRead(c, k, ImportStep(c, x, k))
  <2>1. /\ WellFormed(x) /\ x.expected = c.base.expected /\ Owning(c.base, x)
        /\ Ok(x) => Unlinked(x) /\ OnlyImports(x)
    BY <1>4 DEF ImportRead
  <2>2. CASE ~Ok(x)
    BY <2>1, <2>2 DEF ImportStep, ImportRead
  <2>3. CASE Ok(x)
    <3>1. PICK last : last = (k = Len(c.section.items) /\ ~c.section.cut)
      OBVIOUS
    <3>2. PICK y : y = ParseImport(x, c.section.items[k], last)
      OBVIOUS
    <3>4. /\ WellFormed(y) /\ y.expected = x.expected /\ Owning(c.base, y)
          /\ Ok(y) => Unlinked(y) /\ OnlyImports(y)
      <4>1. WellFormed(y) /\ y.expected = x.expected /\ Owning(x, y) /\ (Ok(y) => Unlinked(y) /\ OnlyImports(y))
        BY <2>1, <2>3, <3>2, ParsedImport
      <4> QED
        BY <2>1, <4>1, OwningTwice
    <3>5. ImportStep(c, x, k) = y
      BY <2>3, <3>1, <3>2, Zenon DEF ImportStep
    <3> QED
      BY <2>1, <3>4, <3>5 DEF ImportRead
  <2> QED
    BY <2>2, <2>3
<1>5. PICK read : read = ImportItems!Fold(c, p, Places(c.section))
  OBVIOUS
<1>6. ImportRead(c, 0, p)
  BY <1>1 DEF ImportRead, Owning
<1>7. ImportRead(c, n, read)
  BY <1>3, <1>4, <1>5, <1>6, CountUp, ImportItems!FoldKeeps DEF ImportItems!Induction
<1>8. PICK a : a = ReadString(read, "module")
  OBVIOUS
<1>9. q = IF c.section.cut /\ Ok(read) THEN Fail(a, "underrun") ELSE read
  BY <1>1, <1>5, <1>8, ImportsRead, Zenon
<1>10. Kept(read, a) /\ WellFormed(a)
  BY <1>7, <1>8, KeptString, KeptWell DEF ImportRead, OwnTags
<1>11. Kept(read, Fail(a, "underrun")) /\ ~Ok(Fail(a, "underrun"))
  BY <1>10, KeptFail, KeptTwice
<1>12. WellFormed(Fail(a, "underrun")) /\ Fail(a, "underrun").expected = read.expected
  BY <1>11 DEF Kept, Follows
<1>13. Owning(p, read) /\ Owning(p, Fail(a, "underrun"))
  BY <1>1, <1>7, <1>11, OwningTwice DEF ImportRead, Kept
<1> QED
  BY <1>1, <1>7, <1>9, <1>11, <1>12, <1>13 DEF ImportRead

-----------------------------------------------------------------------------
(* The sections of a module, and its release.                              *)

LEMMA WithExpected ==
  ASSUME NEW p, WellFormed(p), NEW x, NEW q, q = [p EXCEPT !.expected = x]
  PROVE  WellFormed(q) /\ q.m = p.m /\ q.expected = x /\ q.error = p.error /\ Owning(p, q)
<1>1. IsParser(q) /\ q.m = p.m /\ q.expected = x /\ q.error = p.error /\ SameHeap(p, q)
  BY DEF WellFormed, IsParser, ParserFields, SameHeap
<1>2. WellFormed(q)
  BY <1>1 DEF WellFormed, SameHeap
<1> QED
  BY <1>1, <1>2, OwnsSameHeap

\* Where a section may stand, and what is expected after it.
LEMMA PlaceParts ==
  ASSUME NEW expected \in Nat \ {0}, NEW id, Place(expected, id) # {},
         NEW next, next = (CHOOSE s \in Place(expected, id) : TRUE) + 1
  PROVE  /\ next \in Nat \ {0} /\ next > expected
         /\ (id = 2 => expected <= 3) /\ (id = 3 => next = 4) /\ (id = 7 => next = 8)
<1>1. PICK s : s = CHOOSE place \in Place(expected, id) : TRUE
  OBVIOUS
<1>2. s \in Place(expected, id)
  BY <1>1
<1>3. s \in 1 .. 12 /\ expected <= s /\ SectionsOrder[s] = id
  <2>1. s \in expected .. Len(SectionsOrder) /\ SectionsOrder[s] = id
    BY <1>2 DEF Place
  <2>2. Len(SectionsOrder) = 12
    BY DEF SectionsOrder
  <2> QED
    BY <2>1, <2>2
<1>4. /\ id = 2 => s = 2
      /\ id = 3 => s = 3
      /\ id = 7 => s = 7
  BY <1>3 DEF SectionsOrder
<1>5. next = s + 1 /\ expected \in Int
  BY <1>1
<1> QED
  BY ONLY <1>3, <1>4, <1>5

\* What an image says of one of its sections.
IsSection(section) ==
  /\ IsList(section.items)
  /\ section.id = 7 => Indexed(section.items)
  /\ section.id = 0 /\ section.name = "name" => AreNumbers(section.items)
  /\ section.id = 9 => IsSegments(section.items)

\* A section that only adds to the module.
LEMMA KeptSections ==
  ASSUME NEW p, WellFormed(p), NEW section, IsSection(section), section.id \notin {2, 3}
  PROVE  Kept(p, ParseModuleSection(p, section))
<1>1. PICK a, b, c : a = ParseSection_Custom(p, section) /\ b = ParseSection_Type(p, section)
                     /\ c = ParseSection_Memory(p, section)
  OBVIOUS
<1>2. PICK d, e, f : d = ParseSection_Global(p, section) /\ e = ParseSection_Export(p, section)
                     /\ f = ParseSection_Start(p, section)
  OBVIOUS
<1>3. PICK g, h, i : g = ParseSection_Element(p, section) /\ h = ParseSection_Code(p, section)
                     /\ i = ParseSection_Data(p, section)
  OBVIOUS
<1>0. /\ IsList(section.items) /\ (section.id = 7 => Indexed(section.items))
      /\ section.id = 9 => IsSegments(section.items)
      /\ section.id = 0 => (section.name = "name" => AreNumbers(section.items))
  BY DEF IsSection
<1>4. (section.id = 0 => Kept(p, a)) /\ Kept(p, b) /\ Kept(p, c)
  BY <1>0, <1>1, KeptSection_Custom, KeptSection_Type, KeptSection_Others, Zenon
<1>5. Kept(p, d) /\ (section.id = 7 => Kept(p, e)) /\ Kept(p, f)
  BY <1>0, <1>2, KeptSection_Global, KeptSection_Export, KeptSection_Start, Zenon
<1>6. (section.id = 9 => Kept(p, g)) /\ Kept(p, h) /\ Kept(p, i) /\ Kept(p, p)
  BY <1>0, <1>3, KeptSection_Others, KeptSection_Code, KeptSection_Data, KeptSame, Zenon
<1>7. PICK r : r = ParseModuleSection(p, section)
  OBVIOUS
<1>8. \/ r \in {b, c, d, f, h, i, p}
      \/ (section.id = 9 /\ r = g) \/ (section.id = 0 /\ r = a) \/ (section.id = 7 /\ r = e)
  BY ONLY section.id \notin {2, 3}, <1>1, <1>2, <1>3, <1>7 DEF ParseModuleSection
<1> QED
  BY ONLY <1>4, <1>5, <1>6, <1>7, <1>8

\* Once the exports are read, functions and imports are complete.
Exporting(p) == p.expected > 7

LEMMA ParsedSection ==
  ASSUME NEW p, Parsing(p), NEW section, IsSection(section), NEW q, q = ParseNext(p, section)
  PROVE  /\ Parsing(q) /\ Owning(p, q) /\ (Ok(q) => Ok(p))
         /\ Ok(q) /\ section.id = 7 => Exporting(q) /\ CanExport(q, section.items)
         /\ Ok(q) /\ Exporting(p) => Exporting(q) /\ \A items : CanExport(p, items) => CanExport(q, items)
<1>1. CASE ~Ok(p)
  <2>1. q = p
    BY <1>1 DEF ParseNext
  <2> QED
    BY <1>1, <2>1 DEF Owning
<1>2. CASE Ok(p) /\ section.id # 0 /\ Place(p.expected, section.id) = {}
  <2>1. q = Fail(p, "misordered")
    BY <1>2 DEF ParseNext
  <2>2. Kept(p, q) /\ ~Ok(q)
    BY <2>1, KeptFail DEF Parsing
  <2> QED
    BY <2>2, ParsingKept DEF Kept
<1>3. CASE Ok(p) /\ (section.id = 0 \/ Place(p.expected, section.id) # {})
  <2>1. PICK next : next = (CHOOSE s \in Place(p.expected, section.id) : TRUE) + 1
    OBVIOUS
  <2>2. PICK moved : moved = IF section.id = 0 THEN p ELSE [p EXCEPT !.expected = next]
    OBVIOUS
  <2>3. q = IF ~section.fits THEN Fail(moved, "malformed") ELSE ParseModuleSection(moved, section)
    BY <1>3, <2>1, <2>2 DEF ParseNext
  <2>4. /\ WellFormed(moved) /\ moved.m = p.m /\ Ok(moved) /\ moved.expected \in Nat \ {0}
        /\ moved.expected <= 3 => p.expected <= 3
        /\ section.id = 2 => p.expected <= 3
        /\ section.id = 3 => moved.expected = 4 /\ p.expected < 4
        /\ section.id = 7 => Exporting(moved)
        /\ Exporting(p) => Exporting(moved)
        /\ p.expected \in Nat /\ Owning(p, moved)
    <3>1. CASE section.id = 0
      BY <1>3, <2>2, <3>1 DEF Parsing, Owning
    <3>2. CASE section.id # 0
      <4>1. /\ next \in Nat \ {0} /\ next > p.expected /\ (section.id = 2 => p.expected <= 3)
            /\ (section.id = 3 => next = 4) /\ (section.id = 7 => next = 8) /\ p.expected \in Nat
        BY <1>3, <2>1, <3>2, PlaceParts DEF Parsing
      <4>2. /\ WellFormed(moved) /\ moved.m = p.m /\ moved.expected = next /\ moved.error = p.error
            /\ Owning(p, moved)
        BY <2>2, <3>2, WithExpected DEF Parsing
      <4> QED
        BY <1>3, <4>1, <4>2 DEF Ok, Exporting
    <3> QED
      BY <3>1, <3>2
  <2>5. Unlinked(moved) /\ Parsing(moved) /\ (section.id = 2 => OnlyImports(moved))
    BY <1>3, <2>4 DEF Parsing, Unlinked, OnlyImports
  <2>6. CASE ~section.fits
    <3>1. Kept(moved, q) /\ ~Ok(q)
      BY <2>3, <2>4, <2>6, KeptFail
    <3> QED
      BY <2>4, <2>5, <3>1, ParsingKept, OwningTwice DEF Kept
  <2>7. CASE section.fits /\ section.id \notin {2, 3}
    <3>1. q = ParseModuleSection(moved, section)
      BY <2>3, <2>7
    <3>2. Kept(moved, q) /\ Follows(moved, q)
      BY <2>4, <2>7, <3>1, KeptSections, KeptWell
    <3>3. Parsing(q) /\ Ok(p) /\ Owning(p, q)
      BY <1>3, <2>4, <2>5, <3>2, ParsingKept, OwningTwice DEF Kept
    <3>4. q.expected = moved.expected
      BY <3>2 DEF Kept, Follows
    <3>5. \A items : CanExport(p, items) => CanExport(q, items)
      <4>1. \A items : CanExport(p, items) => CanExport(moved, items)
        BY <2>4 DEF CanExport, Exportable
      <4> QED
        BY <3>2, <4>1, ExportKept
    <3>6. section.id = 7 /\ Ok(q) => CanExport(q, section.items)
      <4>1. section.id = 7 => q = ParseSection_Export(moved, section)
        BY <3>1 DEF ParseModuleSection
      <4>2. IsList(section.items) /\ (section.id = 7 => Indexed(section.items))
        BY DEF IsSection
      <4> QED
        BY <2>4, <4>1, <4>2, KeptSection_Export
    <3> QED
      BY <2>4, <3>3, <3>4, <3>5, <3>6 DEF Exporting
  <2>8. CASE section.fits /\ section.id = 2
    <3>1. q = ParseSection_Import(moved, section)
      BY <2>3, <2>8 DEF ParseModuleSection
    <3>0. IsList(section.items)
      BY DEF IsSection
    <3>2. /\ WellFormed(q) /\ q.expected = moved.expected /\ (Ok(q) => Unlinked(q) /\ OnlyImports(q))
          /\ Owning(p, q)
      BY <2>4, <2>5, <2>8, <3>0, <3>1, ParsedImports, OwningTwice
    <3>3. ~Exporting(p)
      BY <2>4, <2>8 DEF Exporting
    <3> QED
      BY <1>3, <2>4, <2>8, <3>2, <3>3 DEF Parsing
  <2>9. CASE section.fits /\ section.id = 3
    <3>1. q = ParseSection_Function(moved, section)
      BY <2>3, <2>9 DEF ParseModuleSection
    <3>0. IsList(section.items)
      BY DEF IsSection
    <3>2. WellFormed(q) /\ q.expected = moved.expected /\ (Ok(q) => Unlinked(q)) /\ Owning(p, q)
      BY <2>4, <2>5, <2>9, <3>0, <3>1, ParsedFunctions, OwningTwice
    <3>3. ~Exporting(p)
      BY <2>4, <2>9 DEF Exporting
    <3> QED
      BY <1>3, <2>4, <2>9, <3>2, <3>3 DEF Parsing
  <2> QED
    BY <2>6, <2>7, <2>8, <2>9
<1> QED
  BY <1>1, <1>2, <1>3

\* Everything there is: the environment with its types and, where there is one, the
\* runtime, with no module in its list.
Bare(p) ==
  /\ IsParser(p) /\ p.twice = FALSE /\ p.m = EmptyModule
  /\ IsSeq(p.funcTypes) /\ TypeBlocks(p) \subseteq p.heap /\ <<"environment", 0>> \in p.heap
  /\ \A b \in TypeBlocks(p) : b[1] \in {"type", "rettype"}
  /\ HasRuntime(p) <=> <<"stack", 0>> \in p.heap
  /\ <<"memory", 0>> \in p.heap => HasRuntime(p)
  /\ \A b \in p.heap : \/ b \in TypeBlocks(p)
                       \/ b \in {<<t, 0>> : t \in {"environment", "runtime", "stack", "memory", "custom"}}

\* What is left when the blocks of the first k functions or globals are freed.
Freed(c, k, x) ==
  /\ Follows(c.base, x)
  /\ Owns(c.owner) =>
       /\ x.m = c.base.m /\ x.funcTypes = c.base.funcTypes /\ x.serial = c.base.serial
       /\ x.twice = FALSE
       /\ x.heap = c.base.heap \ UNION {c.blocks[j] : j \in 1 .. k}

\* Blocks that are there and are different.
Apart(B, h) ==
  /\ \A k \in DOMAIN B : B[k] \subseteq h
  /\ \A j \in DOMAIN B : \A k \in DOMAIN B : j # k => B[j] \cap B[k] = {}

LEMMA FreedNext ==
  ASSUME NEW c, NEW n \in Nat, DOMAIN c.blocks = 1 .. n, Owns(c.owner) => Apart(c.blocks, c.base.heap),
         NEW k \in 1 .. n, NEW x, Freed(c, k - 1, x), NEW y, Follows(x, y),
         Owns(c.owner) => /\ y.m = x.m /\ y.funcTypes = x.funcTypes /\ y.serial = x.serial
                          /\ y.heap = x.heap \ c.blocks[k]
                          /\ y.twice = (x.twice \/ ~(c.blocks[k] \subseteq x.heap))
  PROVE  Freed(c, k, y)
<1>1. Follows(c.base, y)
  BY FollowsTwice DEF Freed
<1>2. ASSUME Owns(c.owner)
      PROVE  /\ y.m = c.base.m /\ y.funcTypes = c.base.funcTypes /\ y.serial = c.base.serial
             /\ y.twice = FALSE
             /\ y.heap = c.base.heap \ UNION {c.blocks[j] : j \in 1 .. k}
  <2>1. PICK u, v : u = UNION {c.blocks[j] : j \in 1 .. k - 1} /\ v = UNION {c.blocks[j] : j \in 1 .. k}
    OBVIOUS
  <2>2. 1 .. k = (1 .. k - 1) \cup {k} /\ k \notin 1 .. k - 1 /\ 1 .. k - 1 \subseteq 1 .. n
    OBVIOUS
  <2>3. v = u \cup c.blocks[k]
    BY ONLY <2>1, <2>2
  <2>4. /\ c.blocks[k] \subseteq c.base.heap
        /\ \A j \in 1 .. k - 1 : c.blocks[j] \cap c.blocks[k] = {}
    BY <1>2, <2>2 DEF Apart
  <2>5. u \cap c.blocks[k] = {}
    BY ONLY <2>1, <2>4
  <2>6. /\ x.m = c.base.m /\ x.funcTypes = c.base.funcTypes /\ x.serial = c.base.serial
        /\ x.twice = FALSE /\ x.heap = c.base.heap \ u
    BY <1>2, <2>1 DEF Freed
  <2>7. c.blocks[k] \subseteq x.heap
    BY ONLY <2>4, <2>5, <2>6
  <2>8. y.twice = FALSE /\ y.heap = c.base.heap \ v
    <3>1. y.heap = x.heap \ c.blocks[k] /\ y.twice = (x.twice \/ ~(c.blocks[k] \subseteq x.heap))
      BY <1>2
    <3>2. y.heap = c.base.heap \ v
      BY ONLY <2>3, <2>6, <3>1
    <3> QED
      BY <2>6, <2>7, <3>1, <3>2
  <2> QED
    BY <1>2, <2>1, <2>6, <2>8
<1> QED
  BY <1>1, <1>2 DEF Freed

ReleaseStep(c, q, f) == ReleaseFunction(q, f)
Releases == INSTANCE Folding WITH Op <- ReleaseStep, Inv <- Freed

GlobalFreed(c, q, g) == Free(q, {g.name} \cup ImportStrings(g.import.at))
GlobalsFreed == INSTANCE Folding WITH Op <- GlobalFreed, Inv <- Freed

LEMMA FunctionsReleased ==
  ASSUME NEW c, NEW p, NEW s
  PROVE  FoldLeft(ReleaseFunction, p, s) = Releases!Fold(c, p, s)
  BY Zenon DEF ReleaseStep, FoldLeft, MapThenFoldSet, Max, Releases!Fold,
          Releases!MapThenFoldSet, Releases!Largest

LEMMA GlobalsReleased ==
  ASSUME NEW c, NEW p, NEW s
  PROVE  FoldLeft(LAMBDA q, g : Free(q, {g.name} \cup ImportStrings(g.import.at)), p, s)
           = GlobalsFreed!Fold(c, p, s)
  BY Zenon DEF GlobalFreed, FoldLeft, MapThenFoldSet, Max, GlobalsFreed!Fold,
          GlobalsFreed!MapThenFoldSet, GlobalsFreed!Largest

LEMMA ArraysParts ==
  ASSUME NEW p, WellFormed(p), NEW tags, NEW q, q = FreeArrays(p, tags)
  PROVE  /\ q.m = p.m /\ q.funcTypes = p.funcTypes /\ q.serial = p.serial /\ q.twice = p.twice
         /\ q.heap = p.heap \ {<<n, 0>> : n \in tags}
  BY DEF WellFormed, IsParser, ParserFields, FreeArrays

\* Function_Release frees what the function owns.
LEMMA FunctionFreed ==
  ASSUME NEW x, WellFormed(x), NEW f, NEW y, y = ReleaseFunction(x, f)
  PROVE  /\ Follows(x, y)
         /\ OwnedFunction(f) => /\ y.m = x.m /\ y.funcTypes = x.funcTypes /\ y.serial = x.serial
                                /\ y.heap = x.heap \ FunctionBlocks(f)
                                /\ y.twice = (x.twice \/ ~(FunctionBlocks(f) \subseteq x.heap))
<1>1. PICK a : a = {f.names[j] : j \in 1 .. Len(f.names)}
  OBVIOUS
<1>2. PICK b : b = {f.constants} \cup (a \ {<<"field", f.import.at>>})
  OBVIOUS
<1>3. PICK s : s = ImportStrings(f.import.at)
  OBVIOUS
<1>4. PICK z : z = Free(x, b)
  OBVIOUS
<1>5. y = Free(z, s)
  BY <1>1, <1>2, <1>3, <1>4, Zenon DEF ReleaseFunction
<1>6. /\ z.m = x.m /\ z.funcTypes = x.funcTypes /\ z.serial = x.serial
      /\ z.heap = x.heap \ (b \ {NoString}) /\ z.twice = (x.twice \/ ~(b \ {NoString} \subseteq x.heap))
      /\ WellFormed(z)
  BY <1>4, FreeParts
<1>7. /\ y.m = z.m /\ y.funcTypes = z.funcTypes /\ y.serial = z.serial
      /\ y.heap = z.heap \ (s \ {NoString}) /\ y.twice = (z.twice \/ ~(s \ {NoString} \subseteq z.heap))
  BY <1>5, <1>6, FreeParts
<1>8. Follows(x, y)
  <2>1. Follows(x, z) /\ Follows(z, y)
    BY <1>4, <1>5, <1>6, FollowsHeap
  <2> QED
    BY <2>1, FollowsTwice
<1>9. ASSUME OwnedFunction(f)
      PROVE  /\ y.heap = x.heap \ FunctionBlocks(f)
             /\ y.twice = (x.twice \/ ~(FunctionBlocks(f) \subseteq x.heap))
  <2>1. \A e \in s : e # NoString /\ e[1] \in {"module", "field"}
    BY <1>3 DEF ImportStrings, NoString
  <2>2. \A e \in a : e[1] \in {"export", "name"} \/ (e = <<"field", f.import.at>> /\ f.import.at # Unset)
    BY <1>1, <1>9 DEF OwnedFunction
  <2>3. f.import.at # Unset => <<"field", f.import.at>> \in s
    BY <1>3 DEF ImportStrings
  <2>4. \A e \in b : e # NoString => e \notin s
    <3>1. f.constants = NoString \/ f.constants[1] = "constants"
      BY <1>9 DEF OwnedFunction
    <3> QED
      BY <1>2, <2>1, <2>2, <3>1
  <2>5. PICK all : all = FunctionBlocks(f)
    OBVIOUS
  <2>6. PICK d : d = b \ {NoString}
    OBVIOUS
  <2>7. all = d \cup s /\ d \cap s = {} /\ s \ {NoString} = s
    <3>1. all = ({f.constants} \cup a \cup s) \ {NoString}
      BY <1>1, <1>3, <2>5 DEF FunctionBlocks, NamesOf
    <3>2. \A e \in a : e \notin b => e \in s
      BY <1>2, <2>2, <2>3
    <3>3. \A e \in b : e = f.constants \/ e \in a
      BY <1>2
    <3>4. f.constants \in b
      BY <1>2
    <3> QED
      BY ONLY <2>1, <2>4, <2>6, <3>1, <3>2, <3>3, <3>4
  <2>8. y.heap = x.heap \ all
    BY ONLY <1>6, <1>7, <2>6, <2>7
  <2>9. (all \subseteq x.heap) <=> (d \subseteq x.heap /\ s \subseteq z.heap)
    BY ONLY <1>6, <2>6, <2>7
  <2>10. y.twice = (z.twice \/ ~(s \subseteq z.heap)) /\ z.twice = (x.twice \/ ~(d \subseteq x.heap))
    BY ONLY <1>6, <1>7, <2>6, <2>7
  <2> QED
    BY <2>5, <2>8, <2>9, <2>10
<1> QED
  BY <1>6, <1>7, <1>8, <1>9

\* Strings and constants, told by functions and globals.
Divided(s, t, h) ==
  /\ \A k \in 1 .. Len(s) : OwnedFunction(s[k]) /\ FunctionBlocks(s[k]) \subseteq h
  /\ \A k \in 1 .. Len(t) : OwnedGlobal(t[k]) /\ GlobalBlocks(t[k]) \subseteq h
  /\ \A j, k \in 1 .. Len(s) : j # k => FunctionBlocks(s[j]) \cap FunctionBlocks(s[k]) = {}
  /\ \A j, k \in 1 .. Len(t) : j # k => GlobalBlocks(t[j]) \cap GlobalBlocks(t[k]) = {}
  /\ \A j \in 1 .. Len(s) : \A k \in 1 .. Len(t) : FunctionBlocks(s[j]) \cap GlobalBlocks(t[k]) = {}
  /\ \A b \in h : b[1] \in OwnTags => \/ \E k \in 1 .. Len(s) : b \in FunctionBlocks(s[k])
                                      \/ \E k \in 1 .. Len(t) : b \in GlobalBlocks(t[k])

LEMMA OwnsApart ==
  ASSUME NEW p, Owns(p), NEW s, s = p.m.functions, NEW t, t = p.m.globals
  PROVE  Divided(s, t, p.heap)
<1>1. PICK B : B = Blocks(p.m)
  OBVIOUS
<1>2. /\ \A o \in DOMAIN B : B[o] \subseteq p.heap
      /\ \A o \in DOMAIN B : \A x \in DOMAIN B : o # x => B[o] \cap B[x] = {}
      /\ \A b \in p.heap : b[1] \in OwnTags => \E o \in DOMAIN B : b \in B[o]
  BY <1>1 DEF Owns, Ledger
<1>3. /\ DOMAIN B = FunctionOwners(p.m) \cup GlobalOwners(p.m)
      /\ \A f \in 1 .. Len(s) : <<"function", f>> \in DOMAIN B /\ B[<<"function", f>>] = FunctionBlocks(s[f])
      /\ \A g \in 1 .. Len(t) : <<"global", g>> \in DOMAIN B /\ B[<<"global", g>>] = GlobalBlocks(t[g])
      /\ \A o \in FunctionOwners(p.m) : \E f \in 1 .. Len(s) : o = <<"function", f>>
      /\ \A o \in GlobalOwners(p.m) : \E g \in 1 .. Len(t) : o = <<"global", g>>
  BY <1>1, OwnersParts
<1>4. /\ \A k \in 1 .. Len(s) : OwnedFunction(s[k])
      /\ \A k \in 1 .. Len(t) : OwnedGlobal(t[k])
  BY DEF Owns, Shaped
<1>5. /\ \A k \in 1 .. Len(s) : FunctionBlocks(s[k]) \subseteq p.heap
      /\ \A k \in 1 .. Len(t) : GlobalBlocks(t[k]) \subseteq p.heap
  <2>1. ASSUME NEW k \in 1 .. Len(s)
        PROVE  FunctionBlocks(s[k]) \subseteq p.heap
    <3>1. PICK o : o = <<"function", k>>
      OBVIOUS
    <3>2. o \in DOMAIN B /\ B[o] = FunctionBlocks(s[k])
      BY <1>3, <3>1
    <3> QED
      BY <1>2, <3>2
  <2>2. ASSUME NEW k \in 1 .. Len(t)
        PROVE  GlobalBlocks(t[k]) \subseteq p.heap
    <3>1. PICK o : o = <<"global", k>>
      OBVIOUS
    <3>2. o \in DOMAIN B /\ B[o] = GlobalBlocks(t[k])
      BY <1>3, <3>1
    <3> QED
      BY <1>2, <3>2
  <2> QED
    BY <2>1, <2>2
<1>6. ASSUME NEW j \in 1 .. Len(s), NEW k \in 1 .. Len(s), j # k
      PROVE  FunctionBlocks(s[j]) \cap FunctionBlocks(s[k]) = {}
  <2>1. PICK o, x : o = <<"function", j>> /\ x = <<"function", k>>
    OBVIOUS
  <2>2. o \in DOMAIN B /\ B[o] = FunctionBlocks(s[j]) /\ x \in DOMAIN B /\ B[x] = FunctionBlocks(s[k])
    BY <1>3, <2>1
  <2>3. o # x
    BY <1>6, <2>1
  <2> QED
    BY <1>2, <2>2, <2>3
<1>7. ASSUME NEW j \in 1 .. Len(t), NEW k \in 1 .. Len(t), j # k
      PROVE  GlobalBlocks(t[j]) \cap GlobalBlocks(t[k]) = {}
  <2>1. PICK o, x : o = <<"global", j>> /\ x = <<"global", k>>
    OBVIOUS
  <2>2. o \in DOMAIN B /\ B[o] = GlobalBlocks(t[j]) /\ x \in DOMAIN B /\ B[x] = GlobalBlocks(t[k])
    BY <1>3, <2>1
  <2>3. o # x
    BY <1>7, <2>1
  <2> QED
    BY <1>2, <2>2, <2>3
<1>8. ASSUME NEW j \in 1 .. Len(s), NEW k \in 1 .. Len(t)
      PROVE  FunctionBlocks(s[j]) \cap GlobalBlocks(t[k]) = {}
  <2>1. PICK o, x : o = <<"function", j>> /\ x = <<"global", k>>
    OBVIOUS
  <2>2. o \in DOMAIN B /\ B[o] = FunctionBlocks(s[j]) /\ x \in DOMAIN B /\ B[x] = GlobalBlocks(t[k])
    BY <1>3, <2>1
  <2>3. o # x
    BY <2>1
  <2> QED
    BY <1>2, <2>2, <2>3
<1>9. ASSUME NEW b \in p.heap, b[1] \in OwnTags
      PROVE  \/ \E k \in 1 .. Len(s) : b \in FunctionBlocks(s[k])
             \/ \E k \in 1 .. Len(t) : b \in GlobalBlocks(t[k])
  <2>1. PICK o \in DOMAIN B : b \in B[o]
    BY <1>2, <1>9
  <2> QED
    BY ONLY <1>3, <2>1
<1>10. /\ \A k \in 1 .. Len(s) : OwnedFunction(s[k]) /\ FunctionBlocks(s[k]) \subseteq p.heap
       /\ \A k \in 1 .. Len(t) : OwnedGlobal(t[k]) /\ GlobalBlocks(t[k]) \subseteq p.heap
  BY ONLY <1>4, <1>5
<1>11. \A j, k \in 1 .. Len(s) : j # k => FunctionBlocks(s[j]) \cap FunctionBlocks(s[k]) = {}
  BY ONLY <1>6
<1>12. \A j, k \in 1 .. Len(t) : j # k => GlobalBlocks(t[j]) \cap GlobalBlocks(t[k]) = {}
  BY ONLY <1>7
<1>13. \A b \in p.heap : b[1] \in OwnTags => \/ \E k \in 1 .. Len(s) : b \in FunctionBlocks(s[k])
                                             \/ \E k \in 1 .. Len(t) : b \in GlobalBlocks(t[k])
  BY ONLY <1>9
<1> QED
  BY <1>8, <1>10, <1>11, <1>12, <1>13, Zenon DEF Divided

\* Freeing a module frees what it owns, all of it once, and nothing else; a parser
\* that failed has failed then too.
LEMMA ModuleFreed ==
  ASSUME NEW p, WellFormed(p), NEW q, q = FreeModule(p)
  PROVE  /\ ~Ok(p) => ~Ok(q)
         /\ Owns(p) => Bare(q) /\ (HasRuntime(p) <=> HasRuntime(q))
<1>0. PICK s : s = p.m.functions
  OBVIOUS
<1>1. PICK t : t = p.m.globals
  OBVIOUS
<1>2. PICK n, l : n = Len(s) /\ l = Len(t)
  OBVIOUS
<1>3. n \in Nat /\ DOMAIN s = 1 .. n /\ l \in Nat /\ DOMAIN t = 1 .. l
  BY <1>0, <1>1, <1>2, FunctionsLength, SeqParts DEF WellFormed, HasLists
<1>4. PICK F, G : F = [k \in 1 .. n |-> FunctionBlocks(s[k])] /\ G = [k \in 1 .. l |-> GlobalBlocks(t[k])]
  OBVIOUS
<1>5. ASSUME Owns(p)
      PROVE  /\ p.twice = FALSE /\ Apart(F, p.heap) /\ Apart(G, p.heap)
             /\ \A k \in 1 .. n : OwnedFunction(s[k])
             /\ \A j \in 1 .. n : \A k \in 1 .. l : F[j] \cap G[k] = {}
             /\ \A j \in 1 .. n : \A b \in F[j] : b[1] \in OwnTags
             /\ \A k \in 1 .. l : \A b \in G[k] : b[1] \in OwnTags
             /\ \A b \in p.heap : b[1] \in OwnTags => \/ \E k \in 1 .. n : b \in F[k]
                                                      \/ \E k \in 1 .. l : b \in G[k]
  <2>1. /\ \A k \in 1 .. n : OwnedFunction(s[k]) /\ FunctionBlocks(s[k]) \subseteq p.heap
        /\ \A k \in 1 .. l : OwnedGlobal(t[k]) /\ GlobalBlocks(t[k]) \subseteq p.heap
        /\ \A j, k \in 1 .. n : j # k => FunctionBlocks(s[j]) \cap FunctionBlocks(s[k]) = {}
        /\ \A j, k \in 1 .. l : j # k => GlobalBlocks(t[j]) \cap GlobalBlocks(t[k]) = {}
        /\ \A j \in 1 .. n : \A k \in 1 .. l : FunctionBlocks(s[j]) \cap GlobalBlocks(t[k]) = {}
        /\ \A b \in p.heap : b[1] \in OwnTags => \/ \E k \in 1 .. n : b \in FunctionBlocks(s[k])
                                                 \/ \E k \in 1 .. l : b \in GlobalBlocks(t[k])
    <3>1. Divided(s, t, p.heap)
      BY <1>0, <1>1, <1>5, OwnsApart
    <3> QED
      BY ONLY <1>2, <3>1 DEF Divided
  <2>2. Apart(F, p.heap) /\ Apart(G, p.heap)
    BY ONLY <1>4, <2>1 DEF Apart
  <2>3. /\ \A j \in 1 .. n : \A b \in FunctionBlocks(s[j]) : b[1] \in OwnTags
        /\ \A k \in 1 .. l : \A b \in GlobalBlocks(t[k]) : b[1] \in OwnTags
    BY <2>1, FunctionKinds, GlobalKinds
  <2>4. p.twice = FALSE
    BY <1>5 DEF Owns
  <2> QED
    BY ONLY <1>4, <2>1, <2>2, <2>3, <2>4
<1>6. PICK c : c = [base |-> p, owner |-> p, blocks |-> F]
  OBVIOUS
<1>7. c.base = p /\ c.owner = p /\ c.blocks = F /\ DOMAIN F = 1 .. n /\ DOMAIN G = 1 .. l
  BY <1>4, <1>6
<1>8. ASSUME NEW k \in 1 .. n, NEW x, Freed(c, k - 1, x)
      PROVE  Freed(c, k, ReleaseStep(c, x, s[k]))
  <2>1. WellFormed(x)
    BY <1>8, FollowsWell DEF Freed
  <2>2. PICK y : y = ReleaseFunction(x, s[k])
    OBVIOUS
  <2>3. /\ Follows(x, y)
        /\ OwnedFunction(s[k]) => /\ y.m = x.m /\ y.funcTypes = x.funcTypes /\ y.serial = x.serial
                                  /\ y.heap = x.heap \ FunctionBlocks(s[k])
                                  /\ y.twice = (x.twice \/ ~(FunctionBlocks(s[k]) \subseteq x.heap))
    BY <2>1, <2>2, FunctionFreed
  <2>4. F[k] = FunctionBlocks(s[k])
    BY <1>4
  <2>5. Owns(c.owner) => Apart(c.blocks, c.base.heap) /\ OwnedFunction(s[k])
    BY <1>5, <1>7
  <2>6. Freed(c, k, y)
    BY <1>3, <1>7, <1>8, <2>3, <2>4, <2>5, FreedNext
  <2> QED
    BY <2>2, <2>6 DEF ReleaseStep
<1>9. PICK functions : functions = Releases!Fold(c, p, s)
  OBVIOUS
<1>10. Freed(c, n, functions)
  <2>1. Freed(c, 0, p)
    <3>1. UNION {c.blocks[j] : j \in 1 .. 0} = {}
      OBVIOUS
    <3>2. p.heap \ UNION {c.blocks[j] : j \in 1 .. 0} = p.heap
      BY ONLY <3>1
    <3> QED
      BY <1>5, <1>7, <3>2, FollowsSame DEF Freed
  <2> QED
    BY <1>3, <1>8, <1>9, <2>1, CountUp, Releases!FoldKeeps DEF Releases!Induction
<1>11. Follows(p, functions) /\ WellFormed(functions)
  BY <1>7, <1>10, FollowsWell DEF Freed
<1>12. PICK arrays : arrays = FreeArrays(functions, {"functions", "funcTypes", "dataSegments", "table0"})
  OBVIOUS
<1>13. Follows(p, arrays) /\ WellFormed(arrays)
  BY <1>11, <1>12, FollowsHeap, FollowsTwice, FollowsWell, Zenon
<1>14. PICK X : X = {<<a, 0>> : a \in {"functions", "funcTypes", "dataSegments", "table0"}}
  OBVIOUS
<1>15. PICK U, V : U = UNION {F[j] : j \in 1 .. n} /\ V = UNION {G[j] : j \in 1 .. l}
  OBVIOUS
<1>16. Owns(p) => /\ arrays.m = p.m /\ arrays.funcTypes = p.funcTypes /\ arrays.serial = p.serial
                  /\ arrays.twice = FALSE /\ arrays.heap = (p.heap \ U) \ X
  <2>1. /\ arrays.m = functions.m /\ arrays.funcTypes = functions.funcTypes
        /\ arrays.serial = functions.serial /\ arrays.twice = functions.twice
        /\ arrays.heap = functions.heap \ X
    BY <1>11, <1>12, <1>14, ArraysParts
  <2> QED
    BY <1>7, <1>10, <1>15, <2>1 DEF Freed
<1>17. PICK d : d = [base |-> arrays, owner |-> p, blocks |-> G]
  OBVIOUS
<1>18. d.base = arrays /\ d.owner = p /\ d.blocks = G
  BY <1>17
<1>19. Owns(p) => Apart(G, arrays.heap)
  <2>1. ASSUME Owns(p), NEW k \in 1 .. l
        PROVE  G[k] \subseteq arrays.heap
    <3>1. \A b \in G[k] : b \in p.heap /\ b[1] \in OwnTags
      BY <1>5, <1>7, <2>1 DEF Apart
    <3>2. \A b \in G[k] : b \notin U
      BY <1>5, <1>15, <2>1
    <3>3. \A b \in X : b[1] \notin OwnTags
      BY <1>14 DEF OwnTags
    <3> QED
      BY <1>16, <2>1, <3>1, <3>2, <3>3
  <2> QED
    BY <1>5, <1>7, <2>1 DEF Apart
<1>20. ASSUME NEW k \in 1 .. l, NEW x, Freed(d, k - 1, x)
       PROVE  Freed(d, k, GlobalFreed(d, x, t[k]))
  <2>1. WellFormed(x)
    BY <1>20, FollowsWell DEF Freed
  <2>2. PICK g : g = {t[k].name} \cup ImportStrings(t[k].import.at)
    OBVIOUS
  <2>3. PICK y : y = Free(x, g)
    OBVIOUS
  <2>4. /\ y.m = x.m /\ y.funcTypes = x.funcTypes /\ y.serial = x.serial
        /\ y.heap = x.heap \ (g \ {NoString}) /\ y.twice = (x.twice \/ ~(g \ {NoString} \subseteq x.heap))
        /\ Follows(x, y)
    BY <2>1, <2>3, FreeParts, FollowsHeap
  <2>5. G[k] = g \ {NoString}
    BY <1>4, <2>2 DEF GlobalBlocks
  <2>6. Freed(d, k, y)
    BY <1>3, <1>7, <1>18, <1>19, <1>20, <2>4, <2>5, FreedNext
  <2> QED
    BY <2>2, <2>3, <2>6 DEF GlobalFreed
<1>21. PICK globals : globals = GlobalsFreed!Fold(d, arrays, t)
  OBVIOUS
<1>22. Freed(d, l, globals)
  <2>1. Freed(d, 0, arrays)
    <3>1. UNION {d.blocks[j] : j \in 1 .. 0} = {}
      OBVIOUS
    <3>2. arrays.heap \ UNION {d.blocks[j] : j \in 1 .. 0} = arrays.heap
      BY ONLY <3>1
    <3> QED
      BY <1>13, <1>16, <1>18, <3>2, FollowsSame DEF Freed
  <2> QED
    BY <1>3, <1>20, <1>21, <2>1, CountUp, GlobalsFreed!FoldKeeps DEF GlobalsFreed!Induction
<1>23. Follows(p, globals) /\ WellFormed(globals)
  BY <1>13, <1>18, <1>22, FollowsTwice, FollowsWell DEF Freed
<1>24. PICK u, v : u = FreeArrays(globals, {"globals"}) /\ v = Free(u, {<<"M3Module", 0>>})
  OBVIOUS
<1>25. Follows(p, u) /\ WellFormed(u)
  BY <1>23, <1>24, FollowsHeap, FollowsTwice, FollowsWell, Zenon
<1>26. Follows(p, v) /\ WellFormed(v)
  BY <1>24, <1>25, FollowsHeap, FollowsTwice, FollowsWell, Zenon
<1>27. q = [v EXCEPT !.m = EmptyModule]
  <2>1. functions = FoldLeft(ReleaseFunction, p, s)
    BY <1>9, FunctionsReleased
  <2> QED
    BY <1>0, <1>1, <1>12, <1>21, <1>24, <2>1, GlobalsReleased, Zenon DEF FreeModule
<1>28. /\ IsParser(q) /\ q.m = EmptyModule /\ q.error = v.error /\ q.funcTypes = v.funcTypes
       /\ q.heap = v.heap /\ q.twice = v.twice
  BY <1>26, <1>27 DEF WellFormed, IsParser, ParserFields
<1>29. ~Ok(p) => ~Ok(q)
  BY <1>26, <1>28 DEF Ok, Follows
<1>30. ASSUME Owns(p)
       PROVE  Bare(q) /\ (HasRuntime(p) <=> HasRuntime(q))
  <2>1. PICK Y : Y = {<<"functions", 0>>, <<"funcTypes", 0>>, <<"dataSegments", 0>>, <<"table0", 0>>, <<"globals", 0>>}
    OBVIOUS
  <2>2. /\ globals.funcTypes = p.funcTypes /\ globals.twice = FALSE /\ globals.heap = ((p.heap \ U) \ X) \ V
    BY <1>15, <1>16, <1>18, <1>22, <1>30 DEF Freed
  <2>3. u.funcTypes = globals.funcTypes /\ u.twice = globals.twice /\ u.heap = globals.heap \ {<<"globals", 0>>}
    <3>1. {<<a, 0>> : a \in {"globals"}} = {<<"globals", 0>>}
      OBVIOUS
    <3> QED
      BY <1>23, <1>24, <3>1, ArraysParts
  <2>4. u.heap = ((p.heap \ U) \ V) \ Y
    BY ONLY <1>14, <2>1, <2>2, <2>3
  <2>5. \A b : b \in U \/ b \in V => b[1] \in OwnTags
    BY <1>5, <1>15, <1>30
  <2>6. PICK M : M = <<"M3Module", 0>>
    OBVIOUS
  <2>7. M \in p.heap /\ M[1] \notin OwnTags /\ M \notin Y /\ M # NoString
    BY <1>30, <2>1, <2>6 DEF Owns, Accounted, OwnTags, NoString
  <2>8. v.funcTypes = u.funcTypes /\ v.heap = u.heap \ {M} /\ v.twice = (u.twice \/ ~({M} \subseteq u.heap))
    <3>1. {M} \ {NoString} = {M}
      BY <2>7
    <3> QED
      BY <1>24, <1>25, <2>6, <3>1, FreeParts
  <2>9. {M} \subseteq u.heap
    BY <2>4, <2>5, <2>7
  <2>10. q.twice = FALSE /\ q.funcTypes = p.funcTypes /\ TypeBlocks(q) = TypeBlocks(p)
    <3>1. q.twice = FALSE
      BY ONLY <1>28, <2>2, <2>3, <2>8, <2>9
    <3>2. q.funcTypes = p.funcTypes
      BY ONLY <1>28, <2>2, <2>3, <2>8
    <3> QED
      BY <3>1, <3>2 DEF TypeBlocks
  <2>11. \A b : b \in q.heap <=> b \in p.heap /\ b \notin U /\ b \notin V /\ b \notin Y /\ b # M
    BY ONLY <1>28, <2>4, <2>8
  <2>12. \A b \in q.heap : b[1] \notin OwnTags
    BY <1>5, <1>15, <1>30, <2>11
  <2>13. \A b : b[1] \notin OwnTags /\ b \notin Y /\ b # M => (b \in q.heap <=> b \in p.heap)
    BY ONLY <2>5, <2>11
  <2>14. \A b \in TypeBlocks(q) : b \in p.heap /\ b[1] \in {"type", "rettype"} /\ b[1] \notin OwnTags /\ b \notin Y /\ b # M
    BY <1>30, <2>1, <2>6, <2>10 DEF Owns, Accounted, OwnTags
  <2>15. \A a \in {"environment", "runtime", "stack", "memory"} : <<a, 0>> \in q.heap <=> <<a, 0>> \in p.heap
    <3>1. \A a \in {"environment", "runtime", "stack", "memory"} :
            <<a, 0>>[1] \notin OwnTags /\ <<a, 0>> \notin Y /\ <<a, 0>> # M
      BY <2>1, <2>6 DEF OwnTags
    <3> QED
      BY <2>13, <3>1
  <2>16. \A b \in q.heap : \/ b \in TypeBlocks(q)
                           \/ b \in {<<a, 0>> : a \in {"environment", "runtime", "stack", "memory", "custom"}}
    <3>1. \A b \in p.heap : b[1] \in OwnTags \/ b \in Arrays \cup Bases \cup TypeBlocks(p)
      BY <1>30 DEF Owns, Accounted
    <3>2. \A b \in q.heap : b \in Arrays \cup Bases \cup TypeBlocks(q) /\ b \notin Y /\ b # M
      BY <2>10, <2>11, <2>12, <3>1
    <3> QED
      BY <2>1, <2>6, <3>2 DEF Arrays, ArrayTags, Bases
  <2>17. TypeBlocks(q) \subseteq q.heap
    BY <2>13, <2>14
  <2>18. HasRuntime(p) <=> HasRuntime(q)
    BY <2>15 DEF HasRuntime
  <2>19. /\ IsSeq(q.funcTypes) /\ <<"environment", 0>> \in q.heap
         /\ HasRuntime(q) <=> <<"stack", 0>> \in q.heap
         /\ <<"memory", 0>> \in q.heap => HasRuntime(q)
    BY <1>30, <2>10, <2>15, <2>18 DEF Owns, Accounted
  <2> QED
    BY ONLY <1>28, <2>10, <2>14, <2>16, <2>17, <2>18, <2>19 DEF Bare
<1> QED
  BY <1>29, <1>30

SectionStep(c, q, section) == ParseNext(q, section)
SectionsRead(c, k, x) ==
  /\ Parsing(x) /\ Owning(c.base, x)
  /\ Ok(x) => \A s \in 1 .. k : c.image.sections[s].id = 7 =>
                Exporting(x) /\ CanExport(x, c.image.sections[s].items)
Sections == INSTANCE Folding WITH Op <- SectionStep, Inv <- SectionsRead

LEMMA SectionsFolded ==
  ASSUME NEW c, NEW p
  PROVE  FoldLeft(ParseNext, p, c.image.sections) = Sections!Fold(c, p, c.image.sections)
  BY Zenon DEF SectionStep, FoldLeft, MapThenFoldSet, Max, Sections!Fold,
          Sections!MapThenFoldSet, Sections!Largest

LEMMA SectionRead ==
  ASSUME NEW c, NEW image, c.image = image, IsImage(image), NEW k \in 1 .. Len(image.sections),
         NEW x, SectionsRead(c, k - 1, x), NEW y, y = ParseNext(x, image.sections[k])
  PROVE  SectionsRead(c, k, y)
<1>1. PICK section : section = image.sections[k]
  OBVIOUS
<1>2. IsSection(section)
  BY <1>1 DEF IsImage, IsSection, Indexed, AreNumbers
<1>3. Parsing(x) /\ Owning(c.base, x)
  BY DEF SectionsRead
<1>4. /\ Parsing(y) /\ Owning(x, y) /\ (Ok(y) => Ok(x))
      /\ Ok(y) /\ section.id = 7 => Exporting(y) /\ CanExport(y, section.items)
      /\ Ok(y) /\ Exporting(x) => Exporting(y) /\ \A items : CanExport(x, items) => CanExport(y, items)
  BY <1>1, <1>2, <1>3, ParsedSection
<1>5. ASSUME Ok(y), NEW s \in 1 .. k, image.sections[s].id = 7
      PROVE  Exporting(y) /\ CanExport(y, image.sections[s].items)
  <2>1. CASE s = k
    BY <1>1, <1>4, <1>5, <2>1
  <2>2. CASE s # k
    <3>1. s \in 1 .. k - 1
      BY <2>2
    <3>2. Exporting(x) /\ CanExport(x, image.sections[s].items)
      BY <1>4, <1>5, <3>1 DEF SectionsRead
    <3> QED
      BY <1>4, <1>5, <3>2
  <2> QED
    BY <2>1, <2>2
<1>6. Owning(c.base, y)
  BY <1>3, <1>4, OwningTwice
<1> QED
  BY <1>4, <1>5, <1>6 DEF SectionsRead

\* The section the binding scans is one of the sections, if there is one.
LEMMA ItemsParts ==
  ASSUME NEW image, IsImage(image), NEW id
  PROVE  \/ ItemsOf(image, id) = <<>>
         \/ \E s \in 1 .. Len(image.sections) :
              image.sections[s].id = id /\ ItemsOf(image, id) = image.sections[s].items
<1>1. PICK at : at = {s \in 1 .. Len(image.sections) : image.sections[s].id = id}
  OBVIOUS
<1>2. CASE at = {}
  BY <1>1, <1>2 DEF ItemsOf
<1>3. CASE at # {}
  <2>1. at \subseteq Nat
    BY <1>1
  <2>3. \E n \in at : \A t \in at : n <= t
    BY <1>3, <2>1, LeastNumber
  <2>4. PICK first : first = CHOOSE s \in at : \A t \in at : s <= t
    OBVIOUS
  <2>5. first \in at
    BY <2>3, <2>4
  <2>6. ItemsOf(image, id) = image.sections[first].items
    BY <1>1, <1>3, <2>4, Zenon DEF ItemsOf
  <2> QED
    BY <1>1, <2>5, <2>6
<1> QED
  BY <1>2, <1>3

\* A parser that has nothing but an environment and perhaps a runtime.
WithModule(p) == Alloc(p, {<<"M3Module", 0>>})
Fresh(p) == Parsing(p) /\ Owns(WithModule(p)) /\ (HasRuntime(p) <=> HasRuntime(WithModule(p)))

\* Whatever lists of sections and items an image has, in whatever order and however
\* often: a module that m3_ParseModule makes of it has its functions and imports in
\* order, every import has its function, none has a stub yet, and what the export
\* section names is there (m3_parse.c:591, :264).  Every block is owned by what will
\* free it, and where a section fails everything but the environment, the runtime
\* and the name of the section is freed, once (m3_parse.c:646-651).
THEOREM ModuleParsed ==
  ASSUME NEW p, Fresh(p), NEW image, IsImage(image), NEW q, q = ParseModule(p, image)
  PROVE  /\ HasRuntime(p) <=> HasRuntime(q)
         /\ Ok(q) => WellFormed(q) /\ Unlinked(q) /\ CanExport(q, ItemsOf(image, 7)) /\ Owns(q)
         /\ ~Ok(q) => Bare(q)
<1>1. PICK begun : begun = WithModule(p)
  OBVIOUS
<1>2. Parsing(begun) /\ Owns(begun) /\ (HasRuntime(p) <=> HasRuntime(begun))
  <2>1. Parsing(p) /\ WellFormed(p)
    BY DEF Fresh, Parsing
  <2>2. Follows(p, begun)
    BY <1>1, <2>1, FollowsHeap, Zenon DEF WithModule
  <2> QED
    BY <1>1, <2>1, <2>2, ParsingKept DEF Fresh
<1>3. PICK s : s = image.sections
  OBVIOUS
<1>4. Len(s) \in Nat /\ DOMAIN s = 1 .. Len(s)
  BY <1>3 DEF IsImage, IsList
<1>20. PICK c : c = [image |-> image, base |-> begun]
  OBVIOUS
<1>21. c.image = image /\ c.base = begun
  BY <1>20
<1>5. ASSUME NEW k \in 1 .. Len(s), NEW x, SectionsRead(c, k - 1, x)
      PROVE  SectionsRead(c, k, SectionStep(c, x, s[k]))
  BY <1>3, <1>5, <1>21, SectionRead DEF SectionStep
<1>6. PICK all : all = Sections!Fold(c, begun, s)
  OBVIOUS
<1>7. SectionsRead(c, Len(s), all)
  <2>1. SectionsRead(c, 0, begun)
    BY <1>2, <1>21 DEF SectionsRead, Owning
  <2> QED
    BY <1>4, <1>5, <1>6, <2>1, CountUp, Sections!FoldKeeps DEF Sections!Induction
<1>8. PICK bad : bad = Fail(begun, "malformed")
  OBVIOUS
<1>9. Parsing(bad) /\ ~Ok(bad) /\ Owning(begun, bad)
  <2>1. Kept(begun, bad) /\ ~Ok(bad)
    BY <1>2, <1>8, KeptFail DEF Parsing
  <2> QED
    BY <1>2, <2>1, ParsingKept DEF Kept
<1>10. PICK read : read = IF ~image.header THEN bad ELSE all
  OBVIOUS
<1>11. Parsing(read) /\ WellFormed(read) /\ Owns(read) /\ (HasRuntime(p) <=> HasRuntime(read))
  <2>1. Parsing(read) /\ Owning(begun, read)
    BY <1>7, <1>9, <1>10, <1>21 DEF SectionsRead
  <2> QED
    BY <1>2, <2>1 DEF Owning, Parsing
<1>12. q = IF Ok(read) THEN read ELSE FreeModule(read)
  BY <1>1, <1>3, <1>6, <1>8, <1>10, <1>21, SectionsFolded, Zenon DEF ParseModule, WithModule
<1>13. CASE ~Ok(read)
  <2>1. q = FreeModule(read)
    BY <1>12, <1>13
  <2>2. ~Ok(q) /\ Bare(q) /\ (HasRuntime(read) <=> HasRuntime(q))
    BY <1>11, <1>13, <2>1, ModuleFreed
  <2> QED
    BY <1>11, <2>2
<1>14. CASE Ok(read)
  <2>1. read = all /\ q = all
    BY <1>9, <1>10, <1>12, <1>14
  <2>2. CanExport(all, ItemsOf(image, 7))
    <3>1. CASE ItemsOf(image, 7) = <<>>
      <4>1. Len(ItemsOf(image, 7)) = 0
        BY <3>1
      <4> QED
        BY <4>1 DEF CanExport
    <3>2. CASE \E k \in 1 .. Len(s) : s[k].id = 7 /\ ItemsOf(image, 7) = s[k].items
      BY <1>3, <1>7, <1>14, <1>21, <2>1, <3>2 DEF SectionsRead
    <3> QED
      BY <1>3, <3>1, <3>2, ItemsParts
  <2> QED
    BY <1>11, <1>14, <2>1, <2>2 DEF Parsing
<1> QED
  BY <1>13, <1>14

\* A new environment and a new runtime.
LEMMA NewFresh ==
  /\ Fresh(NewEnvironment) /\ ~HasRuntime(NewEnvironment) /\ Bare(NewEnvironment)
  /\ Fresh(NewRuntime(NewEnvironment)) /\ HasRuntime(NewRuntime(NewEnvironment))
<1>1. PICK p : p = NewEnvironment
  OBVIOUS
<1>2. p.m = EmptyModule /\ p.expected = 1 /\ IsParser(p) /\ p.serial = 1 /\ p.twice = FALSE
  BY <1>1 DEF NewEnvironment, IsParser, ParserFields
<1>3. /\ IsModule(EmptyModule) /\ EmptyModule.functions = <<>> /\ EmptyModule.imports = 0
      /\ EmptyModule.globals = <<>> /\ EmptyModule.data = <<>> /\ EmptyModule.elements.items = <<>>
  BY DEF EmptyModule, IsModule, ModuleFields
<1>4. IsSeq(<<>>) /\ Len(<<>>) = 0
  <2>1. <<>> \in Seq({})
    OBVIOUS
  <2> QED
    BY <2>1 DEF IsSeq
<1>5. IsSegments(<<>>)
  BY SeqParts, <1>4 DEF IsSegments, IsList
<1>6. WellFormed(p)
  BY <1>2, <1>3, <1>4, <1>5 DEF WellFormed, AreFunctions, HasLists
<1>7. Parsing(p)
  BY <1>2, <1>3, <1>4, <1>6 DEF Parsing, Unlinked, OnlyImports
<1>8. PICK T : T = p.funcTypes
  OBVIOUS
<1>9. IsSeq(T) /\ Len(T) = 5 /\ \A t \in 1 .. 5 : T[t].at = <<"rettype", t>>
  <2>1. T = [t \in 1 .. 5 |-> [type |-> RetTypes[t], at |-> <<"rettype", t>>]]
    BY <1>1, <1>8 DEF NewEnvironment
  <2>2. T \in Seq({T[t] : t \in 1 .. 5}) /\ Len(T) = 5
    BY <2>1
  <2> QED
    BY <2>1, <2>2 DEF IsSeq
<1>10. TypeBlocks(p) = {<<"rettype", t>> : t \in 1 .. 5} /\ p.heap = {<<"environment", 0>>} \cup TypeBlocks(p)
  BY <1>1, <1>8, <1>9 DEF TypeBlocks, NewEnvironment
<1>11. ~HasRuntime(p) /\ <<"stack", 0>> \notin p.heap /\ <<"memory", 0>> \notin p.heap
  BY <1>10 DEF HasRuntime
<1>12. Bare(p)
  BY <1>2, <1>8, <1>9, <1>10, <1>11 DEF Bare
<1>13. PICK r : r = NewRuntime(p)
  OBVIOUS
<1>14. /\ Follows(p, r) /\ r.m = p.m /\ r.serial = p.serial /\ r.twice = p.twice /\ r.funcTypes = p.funcTypes
       /\ r.heap = p.heap \cup {<<"runtime", 0>>, <<"stack", 0>>}
  <2>1. Follows(p, r)
    BY <1>6, <1>13, FollowsHeap, Zenon DEF NewRuntime
  <2> QED
    BY <1>2, <1>13, <2>1 DEF IsParser, ParserFields, NewRuntime, Alloc
<1>15. Parsing(r) /\ IsParser(r)
  <2>1. Parsing(r)
    BY <1>7, <1>14, ParsingKept
  <2> QED
    BY <2>1 DEF Parsing, WellFormed
<1>16. ASSUME NEW x, x \in {p, r}
       PROVE  Fresh(x)
  <2>1. /\ Parsing(x) /\ IsParser(x) /\ x.m = EmptyModule /\ x.serial = 1 /\ x.twice = FALSE
        /\ x.funcTypes = T /\ TypeBlocks(x) = TypeBlocks(p)
    BY <1>2, <1>7, <1>8, <1>14, <1>15, <1>16 DEF TypeBlocks
  <2>2. PICK y : y = WithModule(x)
    OBVIOUS
  <2>3. /\ y.m = EmptyModule /\ y.serial = 1 /\ y.twice = FALSE /\ y.funcTypes = T
        /\ TypeBlocks(y) = TypeBlocks(p) /\ y.heap = x.heap \cup {<<"M3Module", 0>>}
    BY <2>1, <2>2 DEF WithModule, Alloc, IsParser, ParserFields, TypeBlocks
  <2>4. \A b \in y.heap : b \in Bases \/ b \in TypeBlocks(p)
    BY <1>10, <1>14, <1>16, <2>3 DEF Bases
  <2>5. \A b \in y.heap : b[1] \notin OwnTags \cup {"type"}
    BY <1>10, <2>4, Kinds DEF OwnTags
  <2>6. Shaped(y.m) /\ Ledger(Blocks(y.m), y.heap)
    <3>1. FunctionOwners(y.m) = {} /\ GlobalOwners(y.m) = {}
      BY <1>3, <1>4, <2>3 DEF FunctionOwners, GlobalOwners
    <3>2. DOMAIN Blocks(y.m) = {}
      BY <3>1, OwnersParts
    <3>3. Shaped(y.m)
      BY <1>3, <1>4, <2>3 DEF Shaped
    <3> QED
      BY <2>5, <3>2, <3>3 DEF Ledger
  <2>7. Numbered(y)
    BY <2>3, <2>5 DEF Numbered
  <2>8. /\ <<"environment", 0>> \in y.heap /\ <<"M3Module", 0>> \in y.heap
        /\ HasRuntime(y) <=> <<"stack", 0>> \in y.heap
        /\ <<"memory", 0>> \in y.heap => HasRuntime(y)
        /\ HasRuntime(x) <=> HasRuntime(y)
    BY <1>10, <1>11, <1>14, <1>16, <2>3 DEF HasRuntime
  <2>9. Accounted(y)
    <3>1. TypeBlocks(y) \subseteq y.heap
      BY <1>10, <1>14, <1>16, <2>3
    <3>2. \A b \in TypeBlocks(y) : b[1] \in {"type", "rettype"}
      BY <1>10, <2>3
    <3>3. IsSeq(y.funcTypes)
      BY <1>9, <2>3
    <3>4. \A b \in y.heap : b[1] \in OwnTags \/ b \in Arrays \cup Bases \cup TypeBlocks(y)
      BY <2>3, <2>4
    <3> QED
      BY <2>8, <3>1, <3>2, <3>3, <3>4 DEF Accounted
  <2> QED
    BY <2>1, <2>2, <2>3, <2>6, <2>7, <2>8, <2>9 DEF Fresh, Owns
<1> QED
  BY <1>1, <1>11, <1>12, <1>13, <1>14, <1>16 DEF HasRuntime

-----------------------------------------------------------------------------
(* Loading.                                                                *)

InitStep(c, q, g) ==
  LET init == q.m.globals[g].init
  IN IF ~Ok(q) \/ init.op = "none" THEN q
     ELSE IF Evaluates(q, init) THEN [q EXCEPT !.m.globals[g].value = Evaluate(q, init)]
     ELSE Fail(q, "expression")
Inits == INSTANCE Folding WITH Op <- InitStep, Inv <- KeptItem

LEMMA GlobalsInited ==
  ASSUME NEW c, NEW p
  PROVE  InitGlobals(p) = Inits!Fold(c, p, [g \in 1 .. Len(p.m.globals) |-> g])
  BY Zenon DEF InitGlobals, InitStep, FoldLeft, MapThenFoldSet, Max, Inits!Fold,
          Inits!MapThenFoldSet, Inits!Largest

LoadStep(c, q, segment) ==
  LET offset == Evaluate(q, segment.offset)
  IN IF ~Ok(q) THEN q
     ELSE IF ~Evaluates(q, segment.offset) THEN Fail(q, "expression")
     ELSE IF offset < 0 \/ offset + segment.size > q.pages * PageSize THEN Fail(q, "data bounds")
     ELSE q
Loads == INSTANCE Folding WITH Op <- LoadStep, Inv <- KeptItem

LEMMA DataLoaded ==
  ASSUME NEW c, NEW p
  PROVE  InitDataSegments(p) =
           IF <<"memory", 0>> \notin p.heap THEN Fail(p, "unallocated memory")
           ELSE Loads!Fold(c, p, p.m.data)
  BY Zenon DEF InitDataSegments, LoadStep, FoldLeft, MapThenFoldSet, Max, Loads!Fold,
          Loads!MapThenFoldSet, Loads!Largest

PutStep(c, q, e) ==
  IF ~Ok(q) THEN q
  ELSE IF c.segment.functions[e] >= Len(q.m.functions) THEN Fail(q, "function index")
  ELSE [q EXCEPT !.m.table0[Evaluate(c.from, c.segment.offset) + e] = c.segment.functions[e]]
Puts == INSTANCE Folding WITH Op <- PutStep, Inv <- KeptItem

\* The table, long enough for a segment.
Sized(p, end) ==
  IF end > Len(p.m.table0)
  THEN [Alloc(p, {<<"table0", 0>>}) EXCEPT !.m.table0 = @ \o [n \in 1 .. end - Len(@) |-> Unset]]
  ELSE p
End(p, segment) == Evaluate(p, segment.offset) + Len(segment.functions)

LEMMA ElementsPut ==
  ASSUME NEW c
  PROVE  PlaceElements(c.from, c.segment) =
           IF c.segment.table # 0 THEN Fail(c.from, "table index")
           ELSE IF ~Evaluates(c.from, c.segment.offset) THEN Fail(c.from, "expression")
           ELSE IF Evaluate(c.from, c.segment.offset) < 0 THEN Fail(c.from, "table underflow")
           ELSE IF End(c.from, c.segment) > MaxTableSize THEN Fail(c.from, "table overflow")
           ELSE IF Len(Sized(c.from, End(c.from, c.segment)).m.table0) = 0
                THEN Fail(Sized(c.from, End(c.from, c.segment)), "table")
           ELSE Puts!Fold(c, Sized(c.from, End(c.from, c.segment)), [e \in 1 .. Len(c.segment.functions) |-> e])
  BY Zenon DEF PlaceElements, PutStep, Sized, End, FoldLeft, MapThenFoldSet, Max, Puts!Fold,
          Puts!MapThenFoldSet, Puts!Largest

PlaceStep(c, q, segment) == IF Ok(q) THEN PlaceElements(q, segment) ELSE q
Placing == INSTANCE Folding WITH Op <- PlaceStep, Inv <- KeptItem

LEMMA ElementsPlaced ==
  ASSUME NEW c, NEW p
  PROVE  InitElements(p) =
           LET placed == Placing!Fold(c, p, p.m.elements.items)
           IN IF Ok(placed) /\ p.m.elements.cut THEN Fail(placed, "underrun") ELSE placed
  BY Zenon DEF InitElements, PlaceStep, FoldLeft, MapThenFoldSet, Max, Placing!Fold,
          Placing!MapThenFoldSet, Placing!Largest

LinkStep(c, q, k) ==
  LET valid == ValidateSignature(q, q.m.functions[k], c.letters)
  IN IF ~Ok(q) \/ ~SameImport(q.m.functions[k], c.module, c.field) THEN q
     ELSE IF Ok(valid) THEN [q EXCEPT !.m.functions[k].stub = c.entry] ELSE valid

CompileStep(c, q, f) ==
  IF Ok(q) /\ q.m.functions[f].body # Unset /\ q.m.functions[f].compiled = NoBody
  THEN CompileBody(q, f, c.image) ELSE q
Compiles == INSTANCE Folding WITH Op <- CompileStep, Inv <- KeptItem

LEMMA CompilesFolded ==
  ASSUME NEW c, NEW p
  PROVE  CompileModule(p, c.image) = Compiles!Fold(c, p, [f \in 1 .. Len(p.m.functions) |-> f])
  BY Zenon DEF CompileModule, CompileStep, FoldLeft, MapThenFoldSet, Max, Compiles!Fold,
          Compiles!MapThenFoldSet, Compiles!Largest

LEMMA KeptInitStep ==
  ASSUME NEW p, WellFormed(p), NEW c, NEW g
  PROVE  Kept(p, InitStep(c, p, g))
<1>1. PICK x : x = Evaluate(p, p.m.globals[g].init)
  OBVIOUS
<1>2. Kept(p, p) /\ Kept(p, [p EXCEPT !.m.globals[g].value = x]) /\ Kept(p, Fail(p, "expression"))
  BY KeptSame, KeptGlobals, KeptFail
<1> QED
  BY <1>1, <1>2, Zenon DEF InitStep

LEMMA KeptLoadStep ==
  ASSUME NEW p, WellFormed(p), NEW c, NEW segment
  PROVE  Kept(p, LoadStep(c, p, segment))
<1>1. Kept(p, p) /\ Kept(p, Fail(p, "expression")) /\ Kept(p, Fail(p, "data bounds"))
  BY KeptSame, KeptFail
<1> QED
  BY <1>1, Zenon DEF LoadStep

LEMMA KeptPutStep ==
  ASSUME NEW p, WellFormed(p), NEW c, NEW e
  PROVE  Kept(p, PutStep(c, p, e))
<1>1. PICK i, x : i = Evaluate(c.from, c.segment.offset) + e /\ x = [p.m.table0 EXCEPT ![i] = c.segment.functions[e]]
  OBVIOUS
<1>2. Kept(p, p) /\ Kept(p, [p EXCEPT !.m.table0 = x]) /\ Kept(p, Fail(p, "function index"))
  BY KeptSame, KeptFields, KeptFail
<1> QED
  BY <1>1, <1>2, Zenon DEF PutStep

\* A loop that keeps what is linked and visits every index or item in turn.
LEMMA KeptInitGlobals ==
  ASSUME NEW p, WellFormed(p)
  PROVE  Kept(p, InitGlobals(p))
<1>1. PICK c : c.base = p
  BY Contexts
<1>2. PICK s, n : n = Len(p.m.globals) /\ s = [g \in 1 .. n |-> g]
  OBVIOUS
<1>3. n \in Nat /\ DOMAIN s = 1 .. n
  BY <1>2, SeqParts DEF WellFormed, HasLists
<1>4. ASSUME NEW k \in 1 .. n, NEW x, Kept(p, x)
      PROVE  Kept(p, InitStep(c, x, s[k]))
  BY <1>4, KeptInitStep, KeptTwice, KeptWell
<1>5. Kept(p, Inits!Fold(c, p, s))
  BY <1>1, <1>3, <1>4, KeptSame, CountUp, Inits!FoldKeeps DEF Inits!Induction, KeptItem
<1> QED
  BY <1>2, <1>5, GlobalsInited, Zenon

LEMMA KeptInitData ==
  ASSUME NEW p, WellFormed(p)
  PROVE  Kept(p, InitDataSegments(p))
<1>1. PICK c : c.base = p
  BY Contexts
<1>2. PICK s, n : s = p.m.data /\ n = Len(s)
  OBVIOUS
<1>3. n \in Nat /\ DOMAIN s = 1 .. n
  BY <1>2, SeqParts DEF WellFormed, HasLists
<1>4. ASSUME NEW k \in 1 .. n, NEW x, Kept(p, x)
      PROVE  Kept(p, LoadStep(c, x, s[k]))
  BY <1>4, KeptLoadStep, KeptTwice, KeptWell
<1>5. Kept(p, Loads!Fold(c, p, s)) /\ Kept(p, Fail(p, "unallocated memory"))
  BY <1>1, <1>3, <1>4, KeptSame, KeptFail, CountUp, Loads!FoldKeeps DEF Loads!Induction, KeptItem
<1> QED
  BY <1>2, <1>5, DataLoaded, Zenon

LEMMA KeptPlaceElements ==
  ASSUME NEW p, WellFormed(p), NEW segment, Len(segment.functions) \in Nat
  PROVE  Kept(p, PlaceElements(p, segment))
<1>1. PICK end : end = End(p, segment)
  OBVIOUS
<1>2. PICK sized : sized = Sized(p, end)
  OBVIOUS
<1>3. Kept(p, sized)
  <2>1. PICK a : a = Alloc(p, {<<"table0", 0>>})
    OBVIOUS
  <2>2. Kept(p, a) /\ WellFormed(a)
    BY <2>1, KeptArrays, KeptWell DEF ArrayTags
  <2>3. PICK x : x = a.m.table0 \o [n \in 1 .. end - Len(a.m.table0) |-> Unset]
    OBVIOUS
  <2>4. Kept(p, [a EXCEPT !.m.table0 = x]) /\ Kept(p, p)
    BY <2>2, KeptFields, KeptTwice, KeptSame
  <2> QED
    BY <1>2, <2>1, <2>3, <2>4, Zenon DEF Sized
<1>4. PICK c : c = [from |-> p, segment |-> segment, base |-> sized]
  OBVIOUS
<1>5. c.from = p /\ c.segment = segment /\ c.base = sized
  BY <1>4
<1>6. PICK n : n = Len(segment.functions)
  OBVIOUS
<1>7. PICK s : s = [e \in 1 .. n |-> e]
  OBVIOUS
<1>8. n \in Nat /\ DOMAIN s = 1 .. n
  BY <1>6, <1>7
<1>9. ASSUME NEW k \in 1 .. n, NEW x, Kept(sized, x)
      PROVE  Kept(sized, PutStep(c, x, s[k]))
  BY <1>9, KeptPutStep, KeptTwice, KeptWell
<1>10. PICK put : put = Puts!Fold(c, sized, s)
  OBVIOUS
<1>11. Kept(sized, put)
  BY <1>3, <1>5, <1>8, <1>9, <1>10, KeptSame, KeptWell, CountUp, Puts!FoldKeeps DEF Puts!Induction, KeptItem
<1>12. Kept(p, put) /\ Kept(p, Fail(sized, "table"))
  BY <1>3, <1>11, KeptTwice, KeptFail, KeptWell
<1>13. /\ Kept(p, Fail(p, "table index")) /\ Kept(p, Fail(p, "expression"))
       /\ Kept(p, Fail(p, "table underflow")) /\ Kept(p, Fail(p, "table overflow"))
  BY KeptFail
<1>14. PlaceElements(p, segment) =
         IF segment.table # 0 THEN Fail(p, "table index")
         ELSE IF ~Evaluates(p, segment.offset) THEN Fail(p, "expression")
         ELSE IF Evaluate(p, segment.offset) < 0 THEN Fail(p, "table underflow")
         ELSE IF end > MaxTableSize THEN Fail(p, "table overflow")
         ELSE IF Len(sized.m.table0) = 0 THEN Fail(sized, "table") ELSE put
  BY <1>1, <1>2, <1>5, <1>6, <1>7, <1>10, ElementsPut, Zenon
<1> QED
  BY ONLY <1>12, <1>13, <1>14

LEMMA KeptInitElements ==
  ASSUME NEW p, WellFormed(p)
  PROVE  Kept(p, InitElements(p))
<1>1. PICK c : c.base = p
  BY Contexts
<1>2. PICK s, n : s = p.m.elements.items /\ n = Len(s)
  OBVIOUS
<1>3. n \in Nat /\ DOMAIN s = 1 .. n /\ \A k \in 1 .. n : Len(s[k].functions) \in Nat
  BY <1>2 DEF WellFormed, HasLists, IsSegments, IsList
<1>4. ASSUME NEW k \in 1 .. n, NEW x, Kept(p, x)
      PROVE  Kept(p, PlaceStep(c, x, s[k]))
  BY <1>3, <1>4, KeptPlaceElements, KeptTwice, KeptWell DEF PlaceStep
<1>5. PICK placed : placed = Placing!Fold(c, p, s)
  OBVIOUS
<1>6. Kept(p, placed)
  BY <1>1, <1>3, <1>4, <1>5, KeptSame, CountUp, Placing!FoldKeeps DEF Placing!Induction, KeptItem
<1>7. Kept(p, Fail(placed, "underrun"))
  BY <1>6, KeptFail, KeptWell, KeptTwice
<1> QED
  BY <1>2, <1>5, <1>6, <1>7, ElementsPlaced, Zenon

LEMMA KeptInitMemory ==
  ASSUME NEW p, WellFormed(p), HasRuntime(p)
  PROVE  Kept(p, InitMemory(p))
<1>1. PICK a : a = Alloc(p, {<<"memory", 0>>})
  OBVIOUS
<1>2. Kept(p, a) /\ WellFormed(a)
  BY <1>1, KeptArrays, KeptWell DEF ArrayTags
<1>3. Kept(p, [a EXCEPT !.pages = p.m.memory.min]) /\ Kept(p, p) /\ Kept(p, Fail(p, "memory overflow"))
  BY <1>2, KeptFields, KeptTwice, KeptSame, KeptFail
<1> QED
  BY <1>1, <1>3, Zenon DEF InitMemory

\* m3_LoadModule links nothing, and puts the module in the runtime's list when it succeeds.
LEMMA KeptLoadModule ==
  ASSUME NEW p, WellFormed(p), HasRuntime(p)
  PROVE  Kept(p, LoadModule(p)) /\ (Ok(LoadModule(p)) => LoadModule(p).m.linked = TRUE)
<1>1. PICK a : a = IF Ok(p) THEN InitMemory(p) ELSE p
  OBVIOUS
<1>2. Kept(p, a) /\ WellFormed(a)
  BY <1>1, KeptInitMemory, KeptSame, KeptWell
<1>3. PICK b : b = IF Ok(a) THEN InitGlobals(a) ELSE a
  OBVIOUS
<1>4. Kept(p, b) /\ WellFormed(b)
  BY <1>2, <1>3, KeptInitGlobals, KeptTwice, KeptWell
<1>5. PICK c : c = IF Ok(b) THEN InitDataSegments(b) ELSE b
  OBVIOUS
<1>6. Kept(p, c) /\ WellFormed(c)
  BY <1>4, <1>5, KeptInitData, KeptTwice, KeptWell
<1>7. PICK d : d = IF Ok(c) THEN InitElements(c) ELSE c
  OBVIOUS
<1>8. Kept(p, d) /\ WellFormed(d)
  BY <1>6, <1>7, KeptInitElements, KeptTwice, KeptWell
<1>9. PICK e : e = [d EXCEPT !.m.linked = TRUE]
  OBVIOUS
<1>10. Kept(p, e) /\ e.m.linked = TRUE
  <2>1. Kept(p, e)
    BY <1>8, <1>9, KeptFields, KeptTwice
  <2> QED
    BY <1>8, <1>9, <2>1 DEF WellFormed, IsParser, ParserFields, IsModule, ModuleFields
<1>11. LoadModule(p) = IF Ok(d) THEN e ELSE d
  BY <1>1, <1>3, <1>5, <1>7, <1>9, Zenon DEF LoadModule
<1> QED
  BY ONLY <1>8, <1>10, <1>11

-----------------------------------------------------------------------------
(* Compilation and linking.                                                *)

LEMMA FollowsCompileBody ==
  ASSUME NEW p, WellFormed(p), NEW f \in 1 .. Len(p.m.functions), NEW image
  PROVE  Follows(p, CompileBody(p, f, image))
<1>1. PICK body : body = ItemsOf(image, 10)[p.m.functions[f].body]
  OBVIOUS
<1>2. PICK a : a = Take(p, {"constants"})
  OBVIOUS
<1>3. Follows(p, a) /\ WellFormed(a) /\ f \in 1 .. Len(a.m.functions)
  <2>1. Follows(p, a)
    BY <1>2, FollowsHeap
  <2> QED
    BY <2>1 DEF Follows, SameLinks
<1>4. Follows(p, [a EXCEPT !.m.functions[f].compiled = body, !.m.functions[f].constants = <<"constants", p.serial>>])
  BY <1>3, FollowsCompiled, FollowsTwice
<1>5. Follows(p, Fail(p, "compile"))
  BY FollowsFail
<1> QED
  BY <1>1, <1>2, <1>4, <1>5, Zenon DEF CompileBody

\* A function that gets its constants, having had none.
LEMMA MoreConstants ==
  ASSUME NEW f, IsFunction(f), f.compiled = NoBody, NEW body, body # NoBody,
         NEW list, list[1] = "constants", NEW g, g = SetConstants(SetCompiled(f, body), list)
  PROVE  IsFunction(g) /\ (OwnedFunction(f) => /\ OwnedFunction(g)
                                               /\ FunctionBlocks(g) = FunctionBlocks(f) \cup {list})
<1>1. /\ IsFunction(g) /\ g.names = f.names /\ g.import = f.import /\ g.compiled = body /\ g.constants = list
  BY DEF IsFunction, FunctionFields, SetConstants, SetCompiled
<1>2. ASSUME OwnedFunction(f)
      PROVE  OwnedFunction(g) /\ FunctionBlocks(g) = FunctionBlocks(f) \cup {list}
  <2>1. f.constants = NoString
    BY <1>2 DEF OwnedFunction
  <2>2. list # NoString
    BY DEF NoString
  <2>3. NamesOf(g) = NamesOf(f)
    BY <1>1 DEF NamesOf
  <2>4. FunctionBlocks(g) = FunctionBlocks(f) \cup {list}
    BY <1>1, <2>1, <2>2, <2>3 DEF FunctionBlocks
  <2>5. OwnedFunction(g)
    BY <1>1, <1>2 DEF OwnedFunction
  <2> QED
    BY <2>4, <2>5
<1> QED
  BY <1>1, <1>2

LEMMA KeptCompileBody ==
  ASSUME NEW p, WellFormed(p), NEW i \in 1 .. Len(p.m.functions), p.m.functions[i].compiled = NoBody, NEW image
  PROVE  Kept(p, CompileBody(p, i, image))
<1>1. PICK body : body = ItemsOf(image, 10)[p.m.functions[i].body]
  OBVIOUS
<1>2. PICK q : q = CompileBody(p, i, image)
  OBVIOUS
<1>3. PICK a : a = Take(p, {"constants"})
  OBVIOUS
<1>4. PICK list : list = <<"constants", p.serial>>
  OBVIOUS
<1>5. q = IF ~body.compiles THEN Fail(p, "compile")
          ELSE [a EXCEPT !.m.functions[i].compiled = body, !.m.functions[i].constants = list]
  BY ONLY <1>1, <1>2, <1>3, <1>4 DEF CompileBody
<1>6. Follows(p, q)
  BY <1>2, FollowsCompileBody
<1>7. CASE ~body.compiles
  BY <1>2, <1>5, <1>7, KeptFail
<1>8. CASE body.compiles
  <2>0. PICK new : new = {list}
    OBVIOUS
  <2>1. new = {<<t, p.serial>> : t \in {"constants"}} /\ {"constants"} \subseteq OwnTags /\ list[1] = "constants"
    BY <1>4, <2>0 DEF OwnTags
  <2>2. a.m = p.m /\ WellFormed(a) /\ (Owns(p) => Exchanged(p, a, {}, new))
    BY <1>3, <2>1, TakeParts, OwnsTaken
  <2>3. PICK f, h, g : f = p.m.functions[i] /\ h = SetCompiled(f, body) /\ g = SetConstants(h, list)
    OBVIOUS
  <2>4. IsFunction(f) /\ f.compiled = NoBody /\ body # NoBody
    BY <1>8, <2>3 DEF WellFormed, AreFunctions, NoBody
  <2>5. IsFunction(g) /\ (OwnedFunction(f) => OwnedFunction(g) /\ FunctionBlocks(g) = FunctionBlocks(f) \cup {list})
    BY ONLY <2>1, <2>3, <2>4, MoreConstants
  <2>6. IsFunction(h)
    BY <2>3, <2>4, FunctionChanges DEF SameImported
  <2>7. /\ SameHeap(a, q) /\ q.m.globals = p.m.globals
        /\ Len(q.m.functions) = Len(p.m.functions) /\ q.m.functions[i] = g
        /\ 1 .. Len(q.m.functions) = (1 .. Len(p.m.functions)) \cup {i}
        /\ \A j \in 1 .. Len(p.m.functions) : j # i => q.m.functions[j] = p.m.functions[j]
    <3>0. i \in 1 .. Len(a.m.functions)
      BY <2>2
    <3>1. PICK x : x = SetFunction(a, i, h)
      OBVIOUS
    <3>2. /\ WellFormed(x) /\ SameHeap(a, x) /\ x.m.globals = a.m.globals
          /\ Len(x.m.functions) = Len(a.m.functions) /\ x.m.functions[i] = h
          /\ 1 .. Len(x.m.functions) = (1 .. Len(a.m.functions)) \cup {i}
          /\ \A j \in 1 .. Len(a.m.functions) : j # i => x.m.functions[j] = a.m.functions[j]
      BY ONLY <2>2, <2>6, <3>0, <3>1, OtherFunction
    <3>3. PICK y : y = SetFunction(x, i, g)
      OBVIOUS
    <3>4. i \in 1 .. Len(x.m.functions)
      BY <3>0, <3>2
    <3>5. /\ SameHeap(x, y) /\ y.m.globals = x.m.globals
          /\ Len(y.m.functions) = Len(x.m.functions) /\ y.m.functions[i] = g
          /\ \A j \in 1 .. Len(x.m.functions) : j # i => y.m.functions[j] = x.m.functions[j]
      BY ONLY <2>5, <3>2, <3>3, <3>4, OtherFunction
    <3>6. y = [x EXCEPT !.m.functions[i].constants = list]
      BY ONLY <2>3, <3>2, <3>3 DEF SetConstants, SetFunction, SetFunctions
    <3>7. x = [a EXCEPT !.m.functions[i].compiled = body]
      BY ONLY <2>2, <2>3, <3>1 DEF SetCompiled, SetFunction, SetFunctions
    <3>8. q = [a EXCEPT !.m.functions[i].compiled = body, !.m.functions[i].constants = list]
      BY <1>5, <1>8
    <3>9. q = y
      BY ONLY <3>6, <3>7, <3>8
    <3>10. SameHeap(a, q)
      BY ONLY <3>2, <3>5, <3>9 DEF SameHeap
    <3> QED
      BY ONLY <2>2, <3>2, <3>5, <3>9, <3>10
  <2>8. Owns(p) => Exchanged(p, q, {}, new)
    BY ONLY <2>2, <2>7 DEF SameHeap, Exchanged
  <2>9. PICK old : old = FunctionBlocks(p.m.functions[i])
    OBVIOUS
  <2>10. Owns(p) => OwnedFunction(q.m.functions[i]) /\ FunctionBlocks(q.m.functions[i]) = old \cup new
    <3>1. Owns(p) => OwnedFunction(f)
      BY <2>3 DEF Owns, Shaped
    <3> QED
      BY ONLY <2>0, <2>3, <2>5, <2>7, <2>9, <3>1
  <2>11. old = IF i \in 1 .. Len(p.m.functions) THEN FunctionBlocks(p.m.functions[i]) ELSE {}
    BY <2>9
  <2>12. FunctionGets(p, q, i, old, new)
    BY ONLY <2>7, <2>8, <2>10, <2>11 DEF FunctionGets
  <2>13. Owning(p, q)
    BY ONLY <2>12, OwnsFunction
  <2> QED
    BY <1>2, <1>6, <2>13 DEF Kept
<1> QED
  BY <1>7, <1>8

LEMMA KeptCompileModule ==
  ASSUME NEW p, WellFormed(p), NEW image
  PROVE  Kept(p, CompileModule(p, image))
<1>1. PICK c : c = [base |-> p, image |-> image]
  OBVIOUS
<1>2. c.base = p /\ c.image = image
  BY <1>1
<1>3. PICK s, n : n = Len(p.m.functions) /\ s = [f \in 1 .. n |-> f]
  OBVIOUS
<1>4. n \in Nat /\ DOMAIN s = 1 .. n /\ \A k \in 1 .. n : s[k] = k
  BY <1>3, FunctionsLength
<1>5. ASSUME NEW k \in 1 .. n, NEW x, Kept(p, x)
      PROVE  Kept(p, CompileStep(c, x, s[k]))
  <2>1. k \in 1 .. Len(x.m.functions) /\ s[k] = k
    BY <1>3, <1>4, <1>5 DEF Kept, Follows, SameLinks
  <2> QED
    BY <1>5, <2>1, KeptCompileBody, KeptTwice, KeptWell DEF CompileStep
<1>6. Kept(p, Compiles!Fold(c, p, s))
  BY <1>2, <1>4, <1>5, KeptSame, CountUp, Compiles!FoldKeeps DEF Compiles!Induction, KeptItem
<1> QED
  BY <1>2, <1>3, <1>6, CompilesFolded, Zenon

\* A function of the name is linked to the entry, the others stay as they are.
StubOf(c, f) == IF SameImport(f, c.module, c.field) THEN c.entry ELSE f.stub

LinkedUpTo(c, k, x) ==
  /\ Owning(c.base, x) /\ (c.base.m.linked => x.m.linked)
  /\ WellFormed(x) /\ x.m.imports = c.base.m.imports
  /\ Len(x.m.functions) = Len(c.base.m.functions) /\ DOMAIN c.base.m.globals \subseteq DOMAIN x.m.globals
  /\ \A f \in 1 .. Len(c.base.m.functions) : x.m.functions[f].import = c.base.m.functions[f].import
  /\ Ok(x) => \A f \in 1 .. Len(c.base.m.functions) :
                x.m.functions[f].stub = IF f <= k THEN StubOf(c, c.base.m.functions[f])
                                        ELSE c.base.m.functions[f].stub

LinkRound == INSTANCE Folding WITH Op <- LinkStep, Inv <- LinkedUpTo

LEMMA LinksFolded ==
  ASSUME NEW c, NEW p
  PROVE  LinkFunction(p, c.module, c.field, c.letters, c.entry) =
           LinkRound!Fold(c, p, [k \in 1 .. Len(p.m.functions) |-> k])
  BY Zenon DEF LinkFunction, LinkStep, FoldLeft, MapThenFoldSet, Max, LinkRound!Fold,
          LinkRound!MapThenFoldSet, LinkRound!Largest

\* One function's stub.
WithStub(p, k, x) == [p EXCEPT !.m.functions[k].stub = x]

LEMMA StubSet ==
  ASSUME NEW p, WellFormed(p), NEW k \in 1 .. Len(p.m.functions), NEW x, NEW q, q = WithStub(p, k, x)
  PROVE  /\ WellFormed(q) /\ q.m.imports = p.m.imports /\ q.error = p.error
         /\ Len(q.m.functions) = Len(p.m.functions) /\ q.m.globals = p.m.globals
         /\ Owning(p, q) /\ q.m.linked = p.m.linked
         /\ \A f \in 1 .. Len(p.m.functions) :
              /\ q.m.functions[f].import = p.m.functions[f].import
              /\ q.m.functions[f].stub = IF f = k THEN x ELSE p.m.functions[f].stub
<1>1. PICK g, s : s = p.m.functions /\ g = SetStub(s[k], x)
  OBVIOUS
<1>2. AreFunctions(s) /\ IsFunction(s[k])
  BY <1>1 DEF WellFormed, AreFunctions
<1>3. IsFunction(g) /\ g.import = s[k].import /\ g.stub = x
  BY <1>1, <1>2, FunctionChanges DEF SameImported
<1>4. PICK t : t = [s EXCEPT ![k] = g]
  OBVIOUS
<1>5. AreFunctions(t) /\ Len(t) = Len(s) /\ t[k] = g /\ \A f \in 1 .. Len(s) : f # k => t[f] = s[f]
  BY <1>1, <1>2, <1>3, <1>4, FunctionsPut
<1>6. q = SetFunctions(p, t)
  BY ONLY q = WithStub(p, k, x), <1>1, <1>4 DEF WithStub, SetStub, SetFunctions
<1>7. /\ WellFormed(q) /\ q.m.functions = t /\ q.m.imports = p.m.imports /\ q.error = p.error
      /\ q.m.globals = p.m.globals /\ q.m.linked = p.m.linked /\ SameHeap(p, q)
  <2>1. AreFunctions(t) /\ WellFormed(p)
    BY <1>5
  <2> QED
    BY ONLY <1>6, <2>1, WithFunctions
<1>8. /\ FunctionBlocks(g) = FunctionBlocks(s[k])
      /\ OwnedFunction(s[k]) => OwnedFunction(g)
  <2>1. /\ g.names = s[k].names /\ g.import = s[k].import /\ g.compiled = s[k].compiled
        /\ g.constants = s[k].constants
    BY <1>1, <1>2 DEF IsFunction, FunctionFields, SetStub
  <2>2. FunctionBlocks(g) = FunctionBlocks(s[k])
    BY ONLY <2>1 DEF FunctionBlocks, NamesOf
  <2>3. OwnedFunction(s[k]) => OwnedFunction(g)
    BY ONLY <2>1 DEF OwnedFunction
  <2> QED
    BY <2>2, <2>3
<1>9. Owning(p, q)
  <2>1. \A f \in 1 .. Len(p.m.functions) :
          /\ FunctionBlocks(q.m.functions[f]) = FunctionBlocks(p.m.functions[f])
          /\ OwnedFunction(p.m.functions[f]) => OwnedFunction(q.m.functions[f])
    BY <1>1, <1>5, <1>7, <1>8
  <2>2. Len(q.m.functions) = Len(p.m.functions) /\ q.m.globals = p.m.globals /\ SameHeap(p, q)
    BY <1>1, <1>5, <1>7
  <2> QED
    BY ONLY <2>1, <2>2, OwnsAsBefore
<1> QED
  BY ONLY <1>1, <1>3, <1>5, <1>7, <1>9

LEMMA SignatureChecked ==
  ASSUME NEW p, WellFormed(p), NEW f, NEW letters, NEW q, q = ValidateSignature(p, f, letters)
  PROVE  Kept(p, q)
<1>1. Kept(p, p) /\ Kept(p, Fail(p, "too many arguments or results")) /\ Kept(p, Fail(p, "signature mismatch"))
  BY KeptSame, KeptFail
<1> QED
  BY <1>1, Zenon DEF ValidateSignature

LEMMA OneLinked ==
  ASSUME NEW c, NEW k \in Nat \ {0}, k <= Len(c.base.m.functions), NEW x, LinkedUpTo(c, k - 1, x),
         NEW y, y = LinkStep(c, x, k)
  PROVE  LinkedUpTo(c, k, y)
<1>1. PICK b, n : b = c.base.m.functions /\ n = Len(b)
  OBVIOUS
<1>2. /\ Owning(c.base, x) /\ (c.base.m.linked => x.m.linked)
      /\ WellFormed(x) /\ x.m.imports = c.base.m.imports /\ Len(x.m.functions) = n
      /\ DOMAIN c.base.m.globals \subseteq DOMAIN x.m.globals
      /\ \A f \in 1 .. n : x.m.functions[f].import = b[f].import
      /\ Ok(x) => \A f \in 1 .. n : x.m.functions[f].stub = IF f <= k - 1 THEN StubOf(c, b[f]) ELSE b[f].stub
  BY <1>1 DEF LinkedUpTo
<1>3. n \in Nat /\ k \in 1 .. n /\ k \in 1 .. Len(x.m.functions)
  <2>1. n \in Nat
    BY <1>2, FunctionsLength
  <2> QED
    BY <1>1, <1>2, <2>1
<1>4. \A f \in 1 .. n : (f <= k <=> f <= k - 1 \/ f = k) /\ (f <= k - 1 => f # k)
  BY <1>3
<1>5. SameImport(x.m.functions[k], c.module, c.field) <=> SameImport(b[k], c.module, c.field)
  BY <1>2, <1>3 DEF SameImport
<1>6. PICK valid : valid = ValidateSignature(x, x.m.functions[k], c.letters)
  OBVIOUS
<1>7. Kept(x, valid)
  BY <1>2, <1>6, SignatureChecked
<1>8. PICK z : z = WithStub(x, k, c.entry)
  OBVIOUS
<1>9. y = IF ~Ok(x) \/ ~SameImport(x.m.functions[k], c.module, c.field) THEN x
          ELSE IF Ok(valid) THEN z ELSE valid
  BY <1>6, <1>8, Zenon DEF LinkStep, WithStub
<1>10. CASE ~Ok(x) /\ y = x
  BY <1>1, <1>2, <1>10 DEF LinkedUpTo
<1>11. CASE Ok(x) /\ ~SameImport(x.m.functions[k], c.module, c.field) /\ y = x
  <2>1. StubOf(c, b[k]) = b[k].stub
    BY <1>5, <1>11 DEF StubOf
  <2>2. \A f \in 1 .. n : x.m.functions[f].stub = IF f <= k THEN StubOf(c, b[f]) ELSE b[f].stub
    BY ONLY <1>2, <1>4, <1>11, <2>1
  <2> QED
    BY <1>1, <1>2, <1>11, <2>2 DEF LinkedUpTo
<1>12. CASE ~Ok(valid) /\ y = valid
  <2>1. /\ WellFormed(y) /\ y.m.imports = x.m.imports /\ Len(y.m.functions) = n
        /\ DOMAIN x.m.globals \subseteq DOMAIN y.m.globals
        /\ \A f \in 1 .. n : y.m.functions[f].import = x.m.functions[f].import
        /\ Owning(x, y) /\ (x.m.linked => y.m.linked)
    BY <1>2, <1>7, <1>12 DEF Kept, Follows, SameLinks
  <2>2. Owning(c.base, y)
    BY <1>2, <2>1, OwningTwice
  <2> QED
    BY ONLY <1>1, <1>2, <1>12, <2>1, <2>2 DEF LinkedUpTo
<1>13. CASE Ok(x) /\ SameImport(x.m.functions[k], c.module, c.field) /\ y = z
  <2>1. /\ WellFormed(z) /\ z.m.imports = x.m.imports /\ z.error = x.error
        /\ Len(z.m.functions) = n /\ z.m.globals = x.m.globals
        /\ Owning(x, z) /\ z.m.linked = x.m.linked
        /\ \A f \in 1 .. n : /\ z.m.functions[f].import = x.m.functions[f].import
                             /\ z.m.functions[f].stub = IF f = k THEN c.entry ELSE x.m.functions[f].stub
    <3>1. WellFormed(x) /\ k \in 1 .. Len(x.m.functions) /\ Len(x.m.functions) = n
      BY <1>2, <1>3
    <3>2. /\ WellFormed(z) /\ z.m.imports = x.m.imports /\ z.error = x.error
          /\ Len(z.m.functions) = Len(x.m.functions) /\ z.m.globals = x.m.globals
          /\ Owning(x, z) /\ z.m.linked = x.m.linked
      BY ONLY <1>8, <3>1, StubSet
    <3>3. \A f \in 1 .. Len(x.m.functions) :
            /\ z.m.functions[f].import = x.m.functions[f].import
            /\ z.m.functions[f].stub = IF f = k THEN c.entry ELSE x.m.functions[f].stub
      BY ONLY <1>8, <3>1, StubSet
    <3> QED
      BY ONLY <3>1, <3>2, <3>3
  <2>2. StubOf(c, b[k]) = c.entry
    BY <1>5, <1>13 DEF StubOf
  <2>3. \A f \in 1 .. n : z.m.functions[f].stub = IF f <= k THEN StubOf(c, b[f]) ELSE b[f].stub
    BY ONLY <1>2, <1>4, <1>13, <2>1, <2>2
  <2>4. Owning(c.base, z)
    BY <1>2, <2>1, OwningTwice
  <2> QED
    BY ONLY <1>1, <1>2, <1>13, <2>1, <2>3, <2>4 DEF LinkedUpTo
<1> QED
  BY ONLY <1>9, <1>10, <1>11, <1>12, <1>13

\* Where FindAndLinkFunction succeeds it gave the entry to every function that imports
\* this field of this module, or any of `*`, and to no other (m3_bind.c:122-150).
\* Whether it succeeds or not, every block stays owned and the module in its list.
THEOREM FunctionLinked ==
  ASSUME NEW p, WellFormed(p), Ok(p), NEW module, NEW field, NEW letters, NEW entry,
         NEW q, q = LinkFunction(p, module, field, letters, entry)
  PROVE  /\ WellFormed(q) /\ q.m.imports = p.m.imports
         /\ Len(q.m.functions) = Len(p.m.functions) /\ DOMAIN p.m.globals \subseteq DOMAIN q.m.globals
         /\ Owning(p, q) /\ (p.m.linked => q.m.linked)
         /\ \A f \in 1 .. Len(p.m.functions) : q.m.functions[f].import = p.m.functions[f].import
         /\ Ok(q) => \A f \in 1 .. Len(p.m.functions) :
              q.m.functions[f].stub = IF SameImport(p.m.functions[f], module, field) THEN entry
                                      ELSE p.m.functions[f].stub
<1>1. PICK c : c = [base |-> p, module |-> module, field |-> field, letters |-> letters, entry |-> entry]
  OBVIOUS
<1>2. c.base = p /\ c.module = module /\ c.field = field /\ c.letters = letters /\ c.entry = entry
  BY <1>1
<1>3. PICK s, n : n = Len(p.m.functions) /\ s = [k \in 1 .. n |-> k]
  OBVIOUS
<1>4. n \in Nat /\ DOMAIN s = 1 .. n /\ \A k \in 1 .. n : s[k] = k /\ k \in Nat \ {0} /\ k <= n
  BY <1>3, FunctionsLength
<1>5. ASSUME NEW k \in 1 .. n, NEW x, LinkedUpTo(c, k - 1, x)
      PROVE  LinkedUpTo(c, k, LinkStep(c, x, s[k]))
  BY <1>2, <1>3, <1>4, <1>5, OneLinked
<1>6. LinkedUpTo(c, 0, p)
  BY <1>2, <1>3, <1>4, KeptSame DEF LinkedUpTo, Kept
<1>7. q = LinkRound!Fold(c, p, s)
  BY <1>2, <1>3, LinksFolded, Zenon
<1>8. LinkedUpTo(c, n, q)
  BY <1>4, <1>5, <1>6, <1>7, CountUp, LinkRound!FoldKeeps DEF LinkRound!Induction
<1>9. /\ WellFormed(q) /\ q.m.imports = p.m.imports /\ Len(q.m.functions) = n
      /\ DOMAIN p.m.globals \subseteq DOMAIN q.m.globals
      /\ \A f \in 1 .. n : q.m.functions[f].import = p.m.functions[f].import
      /\ Owning(p, q) /\ (p.m.linked => q.m.linked)
      /\ Ok(q) => \A f \in 1 .. n : q.m.functions[f].stub = IF f <= n THEN StubOf(c, p.m.functions[f])
                                                            ELSE p.m.functions[f].stub
  BY <1>2, <1>3, <1>8 DEF LinkedUpTo
<1>10. \A f \in 1 .. n : f <= n
  BY <1>4
<1> QED
  BY ONLY <1>2, <1>3, <1>9, <1>10 DEF StubOf
-----------------------------------------------------------------------------
(* The end of an instance.                                                 *)

\* What the states of an instance leave behind.
Released(p) == p.heap \subseteq Leaked /\ p.twice = FALSE

LEMMA RuntimeEmptied ==
  ASSUME NEW p, Bare(p), HasRuntime(p),
         NEW q, q = Free(FreeArrays(p, {"memory"}), {<<"stack", 0>>, <<"runtime", 0>>})
  PROVE  Bare(q) /\ ~HasRuntime(q)
<1>1. PICK s, r, m : s = <<"stack", 0>> /\ r = <<"runtime", 0>> /\ m = <<"memory", 0>>
  OBVIOUS
<1>2. s # NoString /\ r # NoString /\ m # s /\ m # r
  BY <1>1 DEF NoString
<1>3. PICK v : v = FreeArrays(p, {"memory"})
  OBVIOUS
<1>4. /\ IsParser(v) /\ v.m = p.m /\ v.twice = FALSE /\ v.funcTypes = p.funcTypes
      /\ v.heap = p.heap \ {m}
  <2>1. {<<a, 0>> : a \in {"memory"}} = {m}
    BY <1>1
  <2> QED
    BY <1>3, <2>1 DEF FreeArrays, Bare, IsParser, ParserFields
<1>5. r \in p.heap /\ s \in p.heap
  BY <1>1 DEF Bare, HasRuntime
<1>6. {s, r} \ {NoString} = {s, r} /\ {s, r} \subseteq v.heap
  BY ONLY <1>2, <1>4, <1>5
<1>7. /\ IsParser(q) /\ q.m = p.m /\ q.twice = FALSE /\ q.funcTypes = p.funcTypes
      /\ q.heap = p.heap \ {m, s, r}
  <2>1. q = Free(v, {s, r})
    BY <1>1, <1>3
  <2>2. q = [v EXCEPT !.heap = @ \ {s, r}, !.twice = @ \/ ~({s, r} \subseteq v.heap)]
    BY ONLY <1>6, <2>1 DEF Free
  <2>3. /\ IsParser(q) /\ q.m = v.m /\ q.funcTypes = v.funcTypes /\ q.heap = v.heap \ {s, r}
        /\ q.twice = (v.twice \/ ~({s, r} \subseteq v.heap))
    BY ONLY <1>4, <2>2 DEF IsParser, ParserFields
  <2> QED
    BY ONLY <1>4, <1>6, <2>3
<1>8. TypeBlocks(q) = TypeBlocks(p)
  BY <1>7 DEF TypeBlocks
<1>9. \A b \in TypeBlocks(p) : b \notin {m, s, r} /\ b \in p.heap
  BY <1>1 DEF Bare
<1>10. <<"environment", 0>> \notin {m, s, r}
  BY <1>1
<1>11. \A b \in q.heap : \/ b \in TypeBlocks(q)
                         \/ b \in {<<t, 0>> : t \in {"environment", "runtime", "stack", "memory", "custom"}}
  BY <1>7, <1>8 DEF Bare
<1> QED
  BY <1>1, <1>7, <1>8, <1>9, <1>10, <1>11 DEF Bare, HasRuntime

\* An environment without a runtime.
LEMMA EnvironmentFreed ==
  ASSUME NEW p, Bare(p), ~HasRuntime(p), NEW q, q = FreeEnvironment(p)
  PROVE  Released(q)
<1>1. PICK X, e : e = <<"environment", 0>> /\ X = TypeBlocks(p) \cup {e}
  OBVIOUS
<1>2. X \ {NoString} = X /\ X \subseteq p.heap
  BY <1>1 DEF Bare, NoString
<1>3. q = [Free(p, X) EXCEPT !.funcTypes = <<>>]
  BY <1>1, Zenon DEF FreeEnvironment, TypeBlocks
<1>4. q.heap = p.heap \ X /\ q.twice = (p.twice \/ ~(X \subseteq p.heap))
  <2>1. PICK v : v = Free(p, X)
    OBVIOUS
  <2>2. v = [p EXCEPT !.heap = @ \ X, !.twice = @ \/ ~(X \subseteq p.heap)]
    BY ONLY <1>2, <2>1 DEF Free
  <2>3. IsParser(v) /\ v.heap = p.heap \ X /\ v.twice = (p.twice \/ ~(X \subseteq p.heap))
    BY ONLY Bare(p), <2>2 DEF Bare, IsParser, ParserFields
  <2>4. q = [v EXCEPT !.funcTypes = <<>>]
    BY <1>3, <2>1
  <2> QED
    BY ONLY <2>3, <2>4 DEF IsParser, ParserFields
<1>5. \A b \in p.heap : b \in X \/ b = <<"custom", 0>>
  BY <1>1 DEF Bare, HasRuntime
<1> QED
  BY <1>2, <1>4, <1>5 DEF Bare, Released, Leaked

\* What ~InstanceState finds: nothing but the environment and the runtime, or a module that
\* is in the runtime's list.
Loaded(p)     == WellFormed(p) /\ Owns(p) /\ HasRuntime(p) /\ p.m.linked
Releasable(p) == Bare(p) \/ Loaded(p)

\* ~InstanceState frees everything once (react-native-webassembly.cpp:64).
THEOREM StateReleased ==
  ASSUME NEW p, Releasable(p)
  PROVE  Released(DestroyState(p))
<1>1. PICK q, e : /\ q = IF <<"runtime", 0>> \in p.heap THEN FreeRuntime(p) ELSE p
                  /\ e = FreeEnvironment(q)
  OBVIOUS
<1>2. DestroyState(p) = e
  BY <1>1, Zenon DEF DestroyState
<1>3. Bare(q) /\ ~HasRuntime(q)
  <2>1. PICK v : v = IF p.m.linked THEN FreeModule(p) ELSE p
    OBVIOUS
  <2>2. FreeRuntime(p) = Free(FreeArrays(v, {"memory"}), {<<"stack", 0>>, <<"runtime", 0>>})
    BY <2>1, Zenon DEF FreeRuntime
  <2>3. Bare(v) /\ (HasRuntime(p) <=> HasRuntime(v))
    <3>1. CASE Bare(p)
      <4>1. p.m.linked = FALSE
        BY <3>1 DEF Bare, EmptyModule
      <4> QED
        BY <2>1, <3>1, <4>1
    <3>2. CASE Loaded(p)
      BY <2>1, <3>2, ModuleFreed DEF Loaded
    <3> QED
      BY <3>1, <3>2 DEF Releasable
  <2>4. CASE HasRuntime(p)
    <3>1. q = FreeRuntime(p)
      BY <1>1, <2>4 DEF HasRuntime
    <3> QED
      BY <2>2, <2>3, <2>4, <3>1, RuntimeEmptied
  <2>5. CASE ~HasRuntime(p)
    <3>1. q = p /\ Bare(p)
      BY <1>1, <2>5 DEF HasRuntime, Releasable, Loaded
    <3> QED
      BY <2>5, <3>1
  <2> QED
    BY <2>4, <2>5
<1> QED
  BY <1>1, <1>2, <1>3, EnvironmentFreed

\* RNWebassembly_validate frees what it parsed, whether it succeeded or not
\* (react-native-webassembly.cpp:982).
THEOREM ValidatedReleased ==
  ASSUME NEW image, IsImage(image)
  PROVE  Discarded(ParseModule(NewEnvironment, image)) \subseteq Leaked
<1>1. PICK p : p = ParseModule(NewEnvironment, image)
  OBVIOUS
<1>2. /\ ~HasRuntime(p)
      /\ Ok(p) => WellFormed(p) /\ Owns(p)
      /\ ~Ok(p) => Bare(p)
  BY <1>1, NewFresh, ModuleParsed
<1>3. PICK q : q = IF Ok(p) THEN FreeModule(p) ELSE p
  OBVIOUS
<1>4. Bare(q) /\ ~HasRuntime(q)
  BY <1>2, <1>3, ModuleFreed
<1>5. Released(FreeEnvironment(q))
  BY <1>4, EnvironmentFreed
<1> QED
  BY <1>1, <1>3, <1>5 DEF Discarded, Released

\* What keeps blocks and lists keeps a loaded module loaded, and so does linking.
LEMMA LoadedKept ==
  ASSUME NEW p, Loaded(p), NEW q, Kept(p, q)
  PROVE  Loaded(q)
  BY FollowsWell DEF Loaded, Kept, Follows, Owning

LEMMA LoadedLinked ==
  ASSUME NEW p, Loaded(p), Ok(p), NEW module, NEW field, NEW letters, NEW entry,
         NEW q, q = LinkFunction(p, module, field, letters, entry)
  PROVE  Loaded(q)
<1>1. WellFormed(q) /\ Owning(p, q) /\ (p.m.linked => q.m.linked)
  BY FunctionLinked DEF Loaded
<1> QED
  BY <1>1 DEF Loaded, Owning
=============================================================================
