--------------------------- MODULE LinkingProofs ---------------------------
(***************************************************************************)
(* ImportsLinked, ExportsListed and FreedOnce of Polyfill, for every set   *)
(* of binaries and every nesting of instantiations in each other's         *)
(* getters, imports and start functions.                                   *)
(***************************************************************************)
EXTENDS ModuleProofs

-----------------------------------------------------------------------------
(* Stacks, as far as the instantiations on them are concerned.             *)

NextAt(s, k) == s[k].next

SameSpot(s, t, k) ==
  /\ k \in 1 .. Len(s) /\ KindAt(s, k) = KindAt(t, k) /\ IdAt(s, k) = IdAt(t, k)
  /\ StageAt(s, k) = StageAt(t, k) /\ NextAt(s, k) = NextAt(t, k)

\* A getter is called by an instantiation that is linking.
Getters(s) ==
  \A k \in 1 .. Len(s) : KindAt(s, k) = "getter" => k > 1 /\ StageAt(s, k - 1) = "link"

\* An instantiation on which something runs is linking or has come to its start function.
Waits(s) ==
  \A k \in 1 .. Len(s) : KindAt(s, k) = "instantiate" /\ k # Len(s) => StageAt(s, k) \in {"link", "publish"}

\* But for the n-th frame t has no instantiation that s has not.
Calm(s, t, n) ==
  /\ \A k \in 1 .. Len(t) : KindAt(t, k) = "instantiate" => k = n \/ SameSpot(s, t, k)
  /\ Getters(s) => Getters(t)
  /\ Waits(s) => Waits(t)

\* Where a frame can be put on the stack.
Open(s) == Len(s) > 0 /\ s[Len(s)].kind = "instantiate" => s[Len(s)].at \in {"link", "publish"}

LEMMA SpotKept ==
  ASSUME NEW s, NEW t, NEW k \in 1 .. Len(s), t[k] = s[k]
  PROVE  SameSpot(s, t, k)
  BY DEF SameSpot, KindAt, IdAt, StageAt, NextAt

LEMMA PushCalm ==
  ASSUME NEW s, IsSeq(s), NEW f, NEW t, IsPushed(s, t, f), NEW n, f.kind # "instantiate" \/ n = Len(t),
         f.kind = "getter" => Len(s) > 0 /\ s[Len(s)].at = "link", Open(s)
  PROVE  Calm(s, t, n)
<1>1. PICK m : m = Len(s)
  OBVIOUS
<1>2. m \in Nat /\ Len(t) = m + 1 /\ t[m + 1] = f /\ \A k \in 1 .. m : t[k] = s[k]
  BY <1>1, SeqParts DEF IsPushed
<1>3. ASSUME NEW k \in 1 .. Len(t), KindAt(t, k) = "instantiate", k # n
      PROVE  SameSpot(s, t, k)
  <2>1. k # m + 1
    BY <1>2, <1>3 DEF KindAt
  <2>2. k \in 1 .. m
    BY <1>2, <2>1
  <2> QED
    BY <1>1, <1>2, <2>2, SpotKept
<1>4. ASSUME Getters(s), NEW k \in 1 .. Len(t), KindAt(t, k) = "getter"
      PROVE  k > 1 /\ StageAt(t, k - 1) = "link"
  <2>1. CASE k = m + 1
    <3>1. m > 0 /\ s[m].at = "link" /\ m \in 1 .. m /\ k - 1 = m
      BY <1>1, <1>2, <1>4, <2>1 DEF KindAt
    <3> QED
      BY <1>2, <3>1 DEF StageAt
  <2>2. CASE k # m + 1
    <3>1. k \in 1 .. m /\ KindAt(s, k) = "getter"
      BY <1>2, <1>4, <2>2 DEF KindAt
    <3>2. k > 1 /\ StageAt(s, k - 1) = "link" /\ k - 1 \in 1 .. m
      BY <1>1, <1>2, <1>4, <3>1 DEF Getters
    <3> QED
      BY <1>2, <3>2 DEF StageAt
  <2> QED
    BY <2>1, <2>2
<1>5. Getters(s) => Getters(t)
  BY <1>4 DEF Getters
<1>6. ASSUME Waits(s), NEW k \in 1 .. Len(t), KindAt(t, k) = "instantiate", k # Len(t)
      PROVE  StageAt(t, k) \in {"link", "publish"}
  <2>1. k \in 1 .. m /\ KindAt(s, k) = "instantiate" /\ StageAt(t, k) = StageAt(s, k)
    BY <1>2, <1>6 DEF KindAt, StageAt
  <2>2. CASE k = m
    BY <1>1, <1>2, <2>1, <2>2 DEF Open, KindAt, StageAt
  <2>3. CASE k # m
    BY <1>1, <1>6, <2>1, <2>3 DEF Waits
  <2> QED
    BY <2>2, <2>3
<1>7. Waits(s) => Waits(t)
  BY <1>6 DEF Waits
<1> QED
  BY <1>3, <1>5, <1>7 DEF Calm

LEMMA CutCalm ==
  ASSUME NEW s, IsSeq(s), NEW m \in 0 .. Len(s), NEW t, t = SubSeq(s, 1, m), NEW n
  PROVE  Calm(s, t, n)
<1>1. Len(t) = m /\ \A k \in 1 .. m : t[k] = s[k]
  BY CutParts DEF IsCut
<1>2. Len(s) \in Nat
  BY SeqParts
<1>3. \A k \in 1 .. m : k \in 1 .. Len(s)
  BY <1>2
<1>4. ASSUME Getters(s), NEW k \in 1 .. m, KindAt(t, k) = "getter"
      PROVE  k > 1 /\ StageAt(t, k - 1) = "link"
  <2>1. k > 1 /\ StageAt(s, k - 1) = "link"
    BY <1>1, <1>3, <1>4 DEF Getters, KindAt
  <2>2. k - 1 \in 1 .. m
    BY <1>2, <2>1
  <2> QED
    BY <1>1, <2>1, <2>2 DEF StageAt
<1>5. Getters(s) => Getters(t)
  BY <1>1, <1>4 DEF Getters
<1>6. \A k \in 1 .. Len(t) : SameSpot(s, t, k)
  BY <1>1, <1>3, SpotKept
<1>7. ASSUME Waits(s), NEW k \in 1 .. m, KindAt(t, k) = "instantiate", k # m
      PROVE  StageAt(t, k) \in {"link", "publish"}
  <2>1. k \in 1 .. Len(s) /\ k # Len(s) /\ t[k] = s[k]
    BY <1>1, <1>2, <1>7
  <2> QED
    BY <1>7, <2>1 DEF Waits, KindAt, StageAt
<1>8. Waits(s) => Waits(t)
  BY <1>1, <1>7 DEF Waits
<1> QED
  BY <1>5, <1>6, <1>8 DEF Calm

LEMMA ReplaceCalm ==
  ASSUME NEW s, IsSeq(s), Len(s) > 0, NEW f, NEW t, t = [s EXCEPT ![Len(s)] = f], NEW n,
         f.kind = s[Len(s)].kind,
         \/ n = Len(s)
         \/ f.kind # "instantiate"
         \/ f.id = s[Len(s)].id /\ f.at = s[Len(s)].at /\ f.next = s[Len(s)].next
  PROVE  Calm(s, t, n)
<1>1. PICK m : m = Len(s)
  OBVIOUS
<1>2. m \in Nat /\ m > 0 /\ Len(t) = m /\ t[m] = f /\ \A k \in 1 .. m - 1 : t[k] = s[k]
  BY <1>1, SeqParts, ReplaceParts DEF IsReplaced
<1>3. ASSUME NEW k \in 1 .. Len(t), KindAt(t, k) = "instantiate", k # n
      PROVE  SameSpot(s, t, k)
  <2>1. CASE k = m
    <3>1. f.kind = "instantiate" /\ n # Len(s)
      BY <1>1, <1>2, <1>3, <2>1 DEF KindAt
    <3>2. f.kind = s[m].kind /\ f.id = s[m].id /\ f.at = s[m].at /\ f.next = s[m].next
      BY <1>1, <3>1
    <3> QED
      BY <1>1, <1>2, <2>1, <3>2 DEF SameSpot, KindAt, IdAt, StageAt, NextAt
  <2>2. CASE k # m
    <3>1. k \in 1 .. m - 1 /\ k \in 1 .. m
      BY <1>2, <2>2
    <3> QED
      BY <1>1, <1>2, <3>1, SpotKept
  <2> QED
    BY <2>1, <2>2
<1>4. ASSUME Getters(s), NEW k \in 1 .. Len(t), KindAt(t, k) = "getter"
      PROVE  k > 1 /\ StageAt(t, k - 1) = "link"
  <2>1. k \in 1 .. m - 1 \/ k = m
    BY <1>2
  <2>2. k \in 1 .. m /\ KindAt(s, k) = "getter"
    BY <1>1, <1>2, <1>4, <2>1 DEF KindAt
  <2>3. k > 1 /\ StageAt(s, k - 1) = "link"
    BY <1>1, <1>4, <2>2 DEF Getters
  <2>4. k - 1 \in 1 .. m - 1
    BY <1>2, <2>2, <2>3
  <2> QED
    BY <1>2, <2>3, <2>4 DEF StageAt
<1>5. Getters(s) => Getters(t)
  BY <1>4 DEF Getters
<1>6. ASSUME Waits(s), NEW k \in 1 .. m, KindAt(t, k) = "instantiate", k # m
      PROVE  StageAt(t, k) \in {"link", "publish"}
  <2>1. k \in 1 .. m - 1
    BY <1>2, <1>6
  <2> QED
    BY <1>1, <1>2, <1>6, <2>1 DEF Waits, KindAt, StageAt
<1>7. Waits(s) => Waits(t)
  BY <1>2, <1>6 DEF Waits
<1> QED
  BY <1>3, <1>5, <1>7 DEF Calm

LEMMA CalmTwice ==
  ASSUME NEW s, NEW t, NEW u, NEW n, Calm(s, t, n), Calm(t, u, n)
  PROVE  Calm(s, u, n)
<1>1. ASSUME NEW k \in 1 .. Len(u), KindAt(u, k) = "instantiate", k # n
      PROVE  SameSpot(s, u, k)
  <2>1. SameSpot(t, u, k)
    BY <1>1 DEF Calm
  <2>2. SameSpot(s, t, k)
    BY <1>1, <2>1 DEF Calm, SameSpot
  <2> QED
    BY <2>1, <2>2 DEF SameSpot
<1>2. (Getters(s) => Getters(u)) /\ (Waits(s) => Waits(u))
  BY DEF Calm
<1> QED
  BY <1>1, <1>2 DEF Calm

LEMMA CalmSame ==
  ASSUME NEW s, NEW n
  PROVE  Calm(s, s, n)
  BY DEF Calm, SameSpot

\* What changes in a frame.
LEMMA NextChanges ==
  ASSUME NEW a, IsFrame(a), NEW x
  PROVE  /\ AtSet(a, x).next = a.next /\ CodeSet(a, x).next = a.next /\ CaughtSet(a, x).next = a.next
         /\ NextSet(a, x).next = x
  BY DEF IsFrame, AtSet, NextSet, CodeSet, CaughtSet

LEMMA CaughtCalm ==
  ASSUME NEW s, Shape(s), NEW e, NEW t, t = Caught(s, e), NEW n
  PROVE  Calm(s, t, n)
<1>1. CASE s = <<>>
  BY <1>1, CalmSame DEF Caught
<1>2. CASE s # <<>>
  <2>1. PICK m, f : m = Len(s) /\ f = CaughtSet(s[m], e)
    OBVIOUS
  <2>2. IsSeq(s) /\ m \in Nat /\ m > 0 /\ m \in 1 .. m
    BY <1>2, <2>1, SeqParts DEF Shape
  <2>3. t = [s EXCEPT ![m] = f]
    BY <1>2, <2>1, Zenon DEF Caught, CaughtSet
  <2>4. IsFrame(s[m])
    BY <2>1, <2>2 DEF Shape, Fits
  <2>5. f.kind = s[m].kind /\ f.id = s[m].id /\ f.at = s[m].at /\ f.next = s[m].next
    BY <2>1, <2>4, FrameChanges, NextChanges DEF SameFrame
  <2> QED
    BY <2>1, <2>2, <2>3, <2>5, ReplaceCalm
<1> QED
  BY <1>1, <1>2

LEMMA CutShape ==
  ASSUME NEW s, Shape(s), NEW m \in 0 .. Len(s), NEW t, t = SubSeq(s, 1, m)
  PROVE  Shape(t)
<1>6. IsSeq(s)
  BY DEF Shape
<1>1. IsSeq(t) /\ Len(t) = m /\ \A k \in 1 .. m : t[k] = s[k]
  BY <1>6, CutParts DEF IsCut
<1>2. Len(s) \in Nat /\ m \in Nat
  BY SeqParts DEF Shape
<1>3. \A k \in 1 .. m : /\ StageAt(t, k) = StageAt(s, k) /\ CaughtAt(t, k) = CaughtAt(s, k)
                        /\ KindAt(t, k) = KindAt(s, k) /\ IdAt(t, k) = IdAt(s, k) /\ k \in 1 .. Len(s)
  BY <1>1, <1>2 DEF StageAt, CaughtAt, KindAt, IdAt
<1>4. ASSUME NEW k \in 1 .. m
      PROVE  Fits(t, k)
  <2>1. Fits(s, k)
    BY <1>3 DEF Shape
  <2>2. k > 1 => k - 1 \in 1 .. m
    BY <1>2
  <2> QED
    BY <1>1, <1>3, <2>1, <2>2 DEF Fits
<1>5. Once(t)
  BY <1>1, <1>3 DEF Shape, Once, Builds
<1> QED
  BY <1>1, <1>4, <1>5 DEF Shape

LEMMA LeaveCalm ==
  ASSUME NEW s, Shape(s), NEW m \in 0 .. Len(s), NEW e, NEW t, t = Caught(SubSeq(s, 1, m), e), NEW n
  PROVE  Calm(s, t, n)
<1>1. PICK u : u = SubSeq(s, 1, m)
  OBVIOUS
<1>2. Calm(s, u, n)
  BY <1>1, CutCalm DEF Shape
<1>3. Shape(u)
  BY <1>1, CutShape
<1>4. Calm(u, t, n)
  BY <1>1, <1>3, CaughtCalm
<1> QED
  BY <1>2, <1>4, CalmTwice

-----------------------------------------------------------------------------
(* The exports object.                                                     *)

\* What instantiate finds under a name is an item that it can reach.
NamedBy(p, item, n, x) ==
  Reachable(p, item) /\ item.name = n /\ item.kind = x.kind /\ item.index = x.index

PropertyStep(c, o, e) == SetProperty(c.from, o, e)
PropertiesSet(c, k, o) ==
  /\ \A j \in 1 .. k : Reachable(c.from, c.items[j]) => c.items[j].name \in DOMAIN o
  /\ \A n \in DOMAIN o : \E j \in 1 .. k : NamedBy(c.from, c.items[j], n, o[n])
Properties == INSTANCE Folding WITH Op <- PropertyStep, Inv <- PropertiesSet

LEMMA PropertiesFolded ==
  ASSUME NEW c
  PROVE  FoldLeft(LAMBDA o, e : SetProperty(c.from, o, e), << >>, c.items) = Properties!Fold(c, << >>, c.items)
  BY Zenon DEF PropertyStep, FoldLeft, MapThenFoldSet, Max, Properties!Fold,
          Properties!MapThenFoldSet, Properties!Largest

LEMMA PropertyParts ==
  ASSUME NEW p, NEW o, NEW e, NEW q, q = SetProperty(p, o, e)
  PROVE  /\ DOMAIN o \subseteq DOMAIN q
         /\ Reachable(p, e) => e.name \in DOMAIN q
         /\ \A n \in DOMAIN q : NamedBy(p, e, n, q[n]) \/ (n \in DOMAIN o /\ q[n] = o[n])
<1>1. CASE ~Reachable(p, e)
  BY <1>1 DEF SetProperty
<1>2. CASE Reachable(p, e)
  <2>1. PICK x : x = [kind |-> e.kind, index |-> e.index]
    OBVIOUS
  <2>2. q = [n \in DOMAIN o \cup {e.name} |-> IF n = e.name THEN x ELSE o[n]]
    BY <1>2, <2>1 DEF SetProperty
  <2>3. x.kind = e.kind /\ x.index = e.index
    BY <2>1
  <2> QED
    BY <1>2, <2>2, <2>3 DEF NamedBy
<1> QED
  BY <1>1, <1>2

LEMMA AllPropertiesSet ==
  ASSUME NEW c, IsList(c.items), NEW o, o = Properties!Fold(c, << >>, c.items)
  PROVE  PropertiesSet(c, Len(c.items), o)
<1>1. PICK n : n = Len(c.items)
  OBVIOUS
<1>2. n \in Nat /\ DOMAIN c.items = 1 .. n
  BY <1>1 DEF IsList
<1>3. ASSUME NEW k \in 1 .. n, NEW x, PropertiesSet(c, k - 1, x)
      PROVE  PropertiesSet(c, k, PropertyStep(c, x, c.items[k]))
  <2>1. PICK y : y = SetProperty(c.from, x, c.items[k])
    OBVIOUS
  <2>2. /\ DOMAIN x \subseteq DOMAIN y
        /\ Reachable(c.from, c.items[k]) => c.items[k].name \in DOMAIN y
        /\ \A m \in DOMAIN y : NamedBy(c.from, c.items[k], m, y[m]) \/ (m \in DOMAIN x /\ y[m] = x[m])
    BY <2>1, PropertyParts
  <2>3. \A j \in 1 .. k : j = k \/ j \in 1 .. k - 1
    OBVIOUS
  <2>4. k \in 1 .. k /\ \A j \in 1 .. k - 1 : j \in 1 .. k
    OBVIOUS
  <2>5. \A j \in 1 .. k : Reachable(c.from, c.items[j]) => c.items[j].name \in DOMAIN y
    BY <1>3, <2>2, <2>3 DEF PropertiesSet
  <2>6. ASSUME NEW m \in DOMAIN y
        PROVE  \E j \in 1 .. k : NamedBy(c.from, c.items[j], m, y[m])
    <3>1. CASE NamedBy(c.from, c.items[k], m, y[m])
      BY <2>4, <3>1
    <3>2. CASE m \in DOMAIN x /\ y[m] = x[m]
      <4>1. PICK j \in 1 .. k - 1 : NamedBy(c.from, c.items[j], m, x[m])
        BY <1>3, <3>2 DEF PropertiesSet
      <4> QED
        BY <2>4, <3>2, <4>1
    <3> QED
      BY <2>2, <3>1, <3>2
  <2> QED
    BY <2>1, <2>5, <2>6 DEF PropertiesSet, PropertyStep
<1>4. PropertiesSet(c, 0, << >>)
  <2>1. DOMAIN << >> = {}
    OBVIOUS
  <2> QED
    BY <2>1 DEF PropertiesSet
<1> QED
  BY <1>1, <1>2, <1>3, <1>4, CountUp, Properties!FoldKeeps DEF Properties!Induction

\* Everything that can be reached has its names, and every name is of something that
\* can be, but for the memory's own.
LEMMA ExportsObjectIs ==
  ASSUME NEW c, NEW image, c.items = ItemsOf(image, 7), NEW named, named = Properties!Fold(c, << >>, c.items),
         NEW e, e = [name |-> "memory", kind |-> "memory", index |-> 0],
         NEW more, more = SetProperty(c.from, named, e)
  PROVE  \/ ExportsObject(c.from, image) = named
         \/ /\ ExportsObject(c.from, image) = more
            /\ \A j \in 1 .. Len(c.items) : c.items[j].kind # "memory"
<1>1. FoldLeft(LAMBDA o, item : SetProperty(c.from, o, item), << >>, c.items) = named
  BY PropertiesFolded, Zenon
<1>2. ExportsObject(c.from, image) =
        IF /\ HasMemory(c.from)
           /\ ~ \E k \in 1 .. Len(c.items) : c.items[k].kind = "memory"
           /\ "memory" \notin DOMAIN named
        THEN more ELSE named
  BY <1>1, Zenon DEF ExportsObject, ScanExports
<1> QED
  BY <1>2, Zenon

LEMMA ExportsObjectParts ==
  ASSUME NEW p, NEW image, NEW items, items = ItemsOf(image, 7), IsList(items),
         NEW x, x = ExportsObject(p, image)
  PROVE  /\ \A j \in 1 .. Len(items) : Reachable(p, items[j]) => items[j].name \in DOMAIN x
         /\ \A n \in DOMAIN x :
              \/ \E j \in 1 .. Len(items) : NamedBy(p, items[j], n, x[n])
              \/ n = "memory" /\ \A j \in 1 .. Len(items) : items[j].kind # "memory"
<1>1. PICK c : c = [from |-> p, items |-> items]
  OBVIOUS
<1>2. c.from = p /\ c.items = items
  BY <1>1
<1>3. PICK named : named = Properties!Fold(c, << >>, items)
  OBVIOUS
<1>4. /\ \A j \in 1 .. Len(items) : Reachable(p, items[j]) => items[j].name \in DOMAIN named
      /\ \A n \in DOMAIN named : \E j \in 1 .. Len(items) : NamedBy(p, items[j], n, named[n])
  BY <1>2, <1>3, AllPropertiesSet DEF PropertiesSet
<1>5. PICK e : e = [name |-> "memory", kind |-> "memory", index |-> 0]
  OBVIOUS
<1>6. PICK more : more = SetProperty(p, named, e)
  OBVIOUS
<1>7. \/ ExportsObject(c.from, image) = named
      \/ ExportsObject(c.from, image) = more /\ \A j \in 1 .. Len(c.items) : c.items[j].kind # "memory"
  <2>1. c.items = ItemsOf(image, 7) /\ named = Properties!Fold(c, << >>, c.items)
        /\ more = SetProperty(c.from, named, e)
    BY <1>2, <1>3, <1>6
  <2> QED
    BY <1>5, <2>1, ExportsObjectIs
<1>8. x = named \/ (x = more /\ \A j \in 1 .. Len(items) : items[j].kind # "memory")
  BY <1>2, <1>7
<1>9. CASE x = named
  BY <1>4, <1>9
<1>10. CASE x = more /\ \A j \in 1 .. Len(items) : items[j].kind # "memory"
  <2>1. /\ DOMAIN named \subseteq DOMAIN x
        /\ \A n \in DOMAIN x : NamedBy(p, e, n, x[n]) \/ (n \in DOMAIN named /\ x[n] = named[n])
    BY <1>6, <1>10, PropertyParts
  <2>2. \A n : NamedBy(p, e, n, x[n]) => n = "memory"
    BY <1>5 DEF NamedBy
  <2> QED
    BY <1>4, <1>10, <2>1, <2>2
<1> QED
  BY <1>8, <1>9, <1>10

LEMMA ReachableParts ==
  ASSUME NEW p, NEW e
  PROVE  /\ Reachable(p, e) => /\ e.kind # "other"
                               /\ e.kind = "memory" => HasMemory(p)
                               /\ e.kind = "table" => e.index = 0
         /\ e.kind = "function" => (Reachable(p, e) <=> e.index < Len(p.m.functions))
         /\ e.kind = "memory"   => (Reachable(p, e) <=> HasMemory(p))
         /\ e.kind = "global"   => (Reachable(p, e) <=> e.index < Len(p.m.globals))
         /\ e.kind = "table"    => (Reachable(p, e) <=> e.index = 0)
  BY DEF Reachable

\* The exports object of an instance is the one of ExportsListed.
AsListed(r) ==
  /\ \A e \in Listed(r) : e.name \in DOMAIN r.exports
  /\ \A n \in DOMAIN r.exports :
       \/ \E e \in Listed(r) : e.name = n /\ e.kind = r.exports[n].kind /\ e.index = r.exports[n].index
       \/ n = "memory" /\ \A e \in Listed(r) : e.kind # "memory"

Listing(r) == CanExport(r.native, ItemsOf(Binary[r.bytes], 7))

LEMMA ItemsList ==
  ASSUME NEW image, IsImage(image)
  PROVE  IsList(ItemsOf(image, 7)) /\ Indexed(ItemsOf(image, 7))
<1>1. CASE ItemsOf(image, 7) = <<>>
  <2>1. IsSeq(<<>>) /\ Len(<<>>) = 0
    <3>1. <<>> \in Seq({})
      OBVIOUS
    <3> QED
      BY <3>1 DEF IsSeq
  <2> QED
    BY <1>1, <2>1, SeqParts DEF IsList, Indexed
<1>2. CASE \E s \in 1 .. Len(image.sections) :
             image.sections[s].id = 7 /\ ItemsOf(image, 7) = image.sections[s].items
  BY <1>2 DEF IsImage, Indexed
<1> QED
  BY <1>1, <1>2, ItemsParts

LEMMA PublishedAsListed ==
  ASSUME NEW r, r.bytes \in DOMAIN Binary, WellFormed(r.native), Listing(r),
         r.exports = ExportsObject(r.native, Binary[r.bytes])
  PROVE  AsListed(r)
<1>1. PICK p, image, items, x :
        p = r.native /\ image = Binary[r.bytes] /\ items = ItemsOf(image, 7) /\ x = r.exports
  OBVIOUS
<1>2. IsImage(image)
  BY <1>1, ImageAssumption
<1>3. IsList(items) /\ Indexed(items)
  BY <1>1, <1>2, ItemsList
<1>4. x = ExportsObject(p, image)
  BY <1>1
<1>5. /\ \A j \in 1 .. Len(items) : Reachable(p, items[j]) => items[j].name \in DOMAIN x
      /\ \A n \in DOMAIN x :
           \/ \E j \in 1 .. Len(items) : NamedBy(p, items[j], n, x[n])
           \/ n = "memory" /\ \A j \in 1 .. Len(items) : items[j].kind # "memory"
  BY <1>1, <1>3, <1>4, ExportsObjectParts
<1>6. ASSUME NEW j \in 1 .. Len(items)
      PROVE  Reachable(p, items[j]) <=> items[j] \in Listed(r)
  <2>1. PICK e : e = items[j]
    OBVIOUS
  <2>2. Exportable(p, e) /\ e.index \in Nat
    BY <1>1, <1>3, <2>1 DEF Listing, CanExport, Indexed
  <2>3. IsSeq(p.m.globals) /\ Len(p.m.globals) \in Nat /\ DOMAIN p.m.globals = 1 .. Len(p.m.globals)
    BY <1>1, SeqParts DEF WellFormed, HasLists
  <2>4. e.kind = "global" => e.index < Len(p.m.globals)
    <3>1. ASSUME e.kind = "global"
          PROVE  e.index < Len(p.m.globals)
      <4>1. e.index + 1 \in 1 .. Len(p.m.globals)
        BY <2>2, <2>3, <3>1 DEF Exportable
      <4> QED
        BY ONLY <2>2, <2>3, <4>1
    <3> QED
      BY <3>1
  <2>5. e \in Listed(r) <=> /\ e.kind # "other"
                            /\ e.kind = "memory" => HasMemory(p)
                            /\ e.kind = "table" => e.index = 0
    BY <1>1, <2>1 DEF Listed, Items
  <2>6. PICK reach : reach = Reachable(p, e)
    OBVIOUS
  <2>7. e.kind \in {"function", "global", "table", "memory", "other"}
        /\ (e.kind = "function" => e.index < Len(p.m.functions))
    BY <2>2 DEF Exportable
  <2> QED
    BY ONLY <2>1, <2>4, <2>5, <2>7, ReachableParts
<1>7. \A e \in Listed(r) : \E j \in 1 .. Len(items) : e = items[j]
  BY <1>1 DEF Listed, Items
<1>8. \A e \in Listed(r) : e.name \in DOMAIN x
  BY <1>5, <1>6, <1>7
<1>9. ASSUME NEW n \in DOMAIN x
      PROVE  \/ \E e \in Listed(r) : e.name = n /\ e.kind = x[n].kind /\ e.index = x[n].index
             \/ n = "memory" /\ \A e \in Listed(r) : e.kind # "memory"
  <2>1. CASE \E j \in 1 .. Len(items) : NamedBy(p, items[j], n, x[n])
    BY <1>6, <2>1 DEF NamedBy
  <2>2. CASE n = "memory" /\ \A j \in 1 .. Len(items) : items[j].kind # "memory"
    BY <1>7, <2>2
  <2> QED
    BY <1>5, <2>1, <2>2
<1> QED
  BY <1>1, <1>8, <1>9 DEF AsListed

-----------------------------------------------------------------------------
(* The inductive invariant of linking.                                     *)

\* An import calls an entry of its instance, which was made for its name.
LinkedTo(r, f) ==
  /\ r.native.m.functions[f].stub \in 1 .. Len(r.entries)
  /\ r.entries[r.native.m.functions[f].stub].module \in {"*", r.native.m.functions[f].import.module}
  /\ r.entries[r.native.m.functions[f].stub].field = r.native.m.functions[f].import.field

HasImports(p) ==
  /\ WellFormed(p) /\ p.m.imports \in Nat /\ p.m.imports <= Len(p.m.functions)

AllLinked(r) == HasImports(r.native) /\ \A f \in 1 .. r.native.m.imports : LinkedTo(r, f)

\* The imports before the next one are linked, the others as yet to nothing or
\* by the entry of an earlier one.
PartlyLinked(r, next) ==
  /\ HasImports(r.native) /\ Ok(r.native) /\ IsSeq(r.entries) /\ next \in Nat \ {0}
  /\ \A f \in 1 .. r.native.m.imports :
       /\ r.native.m.functions[f].import # NoImport
       /\ r.native.m.functions[f].stub = Unset \/ LinkedTo(r, f)
       /\ f < next => LinkedTo(r, f)

\* Until it is loaded a module belongs to instantiate, and then to the runtime.
Holds(p, stage) ==
  /\ p.twice = FALSE
  /\ stage = "load" => Owns(p) /\ HasRuntime(p)
  /\ stage \notin {"create", "parse", "load"} => Loaded(p)

\* What holds of an instance whose instantiate has come so far.
Linking(r, stage, next) ==
  /\ Holds(r.native, stage)
  /\ r.bytes \in DOMAIN Binary /\ (stage \notin {"create", "parse"} => Listing(r))
  /\ stage \in {"create", "parse", "load"} => r.compiled = NoImage /\ r.entries = <<>> /\ next = 1
  /\ stage = "load" => WellFormed(r.native) /\ Ok(r.native) /\ Unlinked(r.native)
  /\ stage = "link" => r.compiled = NoImage /\ PartlyLinked(r, next)
  /\ stage \in {"compile", "start", "publish"} => AllLinked(r)

LinkInv(in, s) ==
  /\ \A k \in 1 .. Len(s) : KindAt(s, k) = "instantiate" =>
       Linking(in[IdAt(s, k)], StageAt(s, k), NextAt(s, k))
  /\ \A i \in Id : in[i].status = "live" => AllLinked(in[i]) /\ AsListed(in[i]) /\ Loaded(in[i].native)
  /\ \A i \in Id : in[i].status \notin {"building", "live"} => Released(in[i].native)
  /\ Getters(s) /\ Waits(s)

\* Instances are as they were or have ended.
Ended(r) == r.status \notin {"building", "live"} /\ Released(r.native)

Resting(in, jn) == \A i \in Id : jn[i] = in[i] \/ Ended(jn[i])

LEMMA Instantiates ==
  ASSUME NEW in, NEW s, Good(in, s), NEW k \in 1 .. Len(s), KindAt(s, k) = "instantiate"
  PROVE  IdAt(s, k) \in Id /\ in[IdAt(s, k)].status = "building"
<1>1. IdAt(s, k) \in Id
  BY DEF Good, Shape, Fits
<1>2. IsBuilt(s, IdAt(s, k))
  BY DEF IsBuilt, Builds
<1> QED
  BY <1>1, <1>2 DEF Good, Matches

\* No instantiation goes on.
LEMMA QuietKeeps ==
  ASSUME NEW in, NEW s, LinkInv(in, s), NEW jn, NEW t, Good(jn, t), Calm(s, t, 0), Resting(in, jn)
  PROVE  LinkInv(jn, t)
<1>1. ASSUME NEW k \in 1 .. Len(t), KindAt(t, k) = "instantiate"
      PROVE  Linking(jn[IdAt(t, k)], StageAt(t, k), NextAt(t, k))
  <2>1. IdAt(t, k) \in Id /\ jn[IdAt(t, k)].status = "building"
    BY <1>1, Instantiates
  <2>2. jn[IdAt(t, k)] = in[IdAt(t, k)]
    BY <2>1 DEF Resting, Ended
  <2>3. SameSpot(s, t, k)
    <3>1. k # 0
      OBVIOUS
    <3> QED
      BY <1>1, <3>1 DEF Calm
  <2>4. Linking(in[IdAt(s, k)], StageAt(s, k), NextAt(s, k))
    BY <1>1, <2>3 DEF LinkInv, SameSpot
  <2> QED
    BY <2>2, <2>3, <2>4 DEF SameSpot
<1>2. ASSUME NEW i \in Id, jn[i].status = "live"
      PROVE  AllLinked(jn[i]) /\ AsListed(jn[i]) /\ Loaded(jn[i].native)
  <2>1. jn[i] = in[i]
    BY <1>2 DEF Resting, Ended
  <2> QED
    BY <1>2, <2>1 DEF LinkInv
<1>4. ASSUME NEW i \in Id, jn[i].status \notin {"building", "live"}
      PROVE  Released(jn[i].native)
  BY <1>4 DEF Resting, Ended, LinkInv
<1>3. Getters(t) /\ Waits(t)
  BY DEF LinkInv, Calm
<1> QED
  BY <1>1, <1>2, <1>3, <1>4 DEF LinkInv

\* The instantiation of the n-th frame begins or goes on.
LEMMA ActiveKeeps ==
  ASSUME NEW in, NEW s, LinkInv(in, s), NEW jn, NEW t, Good(jn, t), NEW n \in 1 .. Len(t), Calm(s, t, n),
         KindAt(t, n) = "instantiate", \A j \in Id : j # IdAt(t, n) => jn[j] = in[j],
         Linking(jn[IdAt(t, n)], StageAt(t, n), NextAt(t, n))
  PROVE  LinkInv(jn, t)
<1>1. ASSUME NEW k \in 1 .. Len(t), KindAt(t, k) = "instantiate", k # n
      PROVE  Linking(jn[IdAt(t, k)], StageAt(t, k), NextAt(t, k))
  <2>1. IdAt(t, k) \in Id
    BY <1>1, Instantiates
  <2>2. IdAt(t, k) # IdAt(t, n)
    BY <1>1 DEF Good, Shape, Once, Builds
  <2>3. SameSpot(s, t, k)
    BY <1>1 DEF Calm
  <2>4. Linking(in[IdAt(s, k)], StageAt(s, k), NextAt(s, k))
    BY <1>1, <2>3 DEF LinkInv, SameSpot
  <2> QED
    BY <2>1, <2>2, <2>3, <2>4 DEF SameSpot
<1>4. jn[IdAt(t, n)].status = "building"
  BY Instantiates
<1>2. ASSUME NEW i \in Id, jn[i].status # "building"
      PROVE  /\ jn[i].status = "live" => AllLinked(jn[i]) /\ AsListed(jn[i]) /\ Loaded(jn[i].native)
             /\ jn[i].status # "live" => Released(jn[i].native)
  <2>1. jn[i] = in[i]
    BY <1>2, <1>4
  <2> QED
    BY <1>2, <2>1 DEF LinkInv
<1>3. Getters(t) /\ Waits(t)
  BY DEF LinkInv, Calm
<1> QED
  BY <1>1, <1>2, <1>3 DEF LinkInv

-----------------------------------------------------------------------------
(* Steps in which no instantiation goes on.                                *)

Quiet(in, s, jn, t) == Calm(s, t, 0) /\ Resting(in, jn)

LEMMA AllRest ==
  ASSUME NEW in
  PROVE  Resting(in, in)
  BY DEF Resting

LEMMA RemainsReleased ==
  ASSUME NEW r, IsInstance(r), NEW native, Releasable(native), NEW t, t = Remains(r, native)
  PROVE  IsInstance(t) /\ Released(t.native)
<1>1. PICK d, a : d = DestroyState(native) /\ a = [NoNative EXCEPT !.heap = d.heap, !.twice = d.twice]
  OBVIOUS
<1>2. t = [r EXCEPT !.native = a, !.entries = <<>>, !.exports = << >>]
  BY <1>1, Zenon DEF Remains
<1>3. t.native = a
  BY <1>2 DEF IsInstance, InstanceFields
<1>4. a.heap = d.heap /\ a.twice = d.twice
  <2>1. IsParser(NoNative)
    BY DEF NoNative, NewEnvironment, IsParser, ParserFields
  <2> QED
    BY <1>1, <2>1 DEF IsParser, ParserFields
<1>5. Released(d)
  BY <1>1, StateReleased
<1> QED
  BY <1>3, <1>4, <1>5, RemainsParts DEF Released

LEMMA FailedRests ==
  ASSUME NEW in, NEW s, Good(in, s), NEW i \in Id, NEW native, Releasable(native), NEW stage, NEW e,
         NEW jn, jn = [in EXCEPT ![i] = Failed(in[i], native, stage, e)]
  PROVE  Resting(in, jn)
<1>1. PICK a, c : a = Remains(in[i], native) /\ c = Classified(e)
  OBVIOUS
<1>2. PICK r : r = [a EXCEPT !.status = "failed", !.error = c, !.failed = stage, !.promise = "none"]
  OBVIOUS
<1>3. jn = [in EXCEPT ![i] = r]
  BY <1>1, <1>2, Zenon DEF Failed
<1>4. IsInstance(in[i])
  BY DEF Good, Matches, Story
<1>5. IsInstance(a) /\ Released(a.native)
  BY <1>1, <1>4, RemainsReleased
<1>6. r.status = "failed" /\ r.native = a.native
  BY <1>2, <1>5 DEF IsInstance, InstanceFields
<1>7. in = [j \in Id |-> in[j]]
  BY DEF Good
<1>8. Ended(r)
  BY <1>5, <1>6 DEF Ended
<1> QED
  BY <1>3, <1>7, <1>8 DEF Resting

LEMMA GoneRests ==
  ASSUME NEW r, Story(r), NEW native, Releasable(native),
         NEW t, t = [Remains(r, native) EXCEPT !.status = "gone"]
  PROVE  Ended(t)
<1>1. PICK a : a = Remains(r, native)
  OBVIOUS
<1>2. IsInstance(a) /\ Released(a.native)
  BY <1>1, RemainsReleased DEF Story
<1>3. t.status = "gone" /\ t.native = a.native
  BY <1>1, <1>2 DEF IsInstance, InstanceFields
<1> QED
  BY <1>2, <1>3 DEF Ended

\* An instance that is waiting for what runs on top of its instantiate can be destroyed.
LEMMA WaitingLoaded ==
  ASSUME NEW in, NEW s, LinkInv(in, s), NEW k \in 1 .. Len(s), k # Len(s), KindAt(s, k) = "instantiate"
  PROVE  Releasable(in[IdAt(s, k)].native)
<1>1. Linking(in[IdAt(s, k)], StageAt(s, k), NextAt(s, k)) /\ StageAt(s, k) \in {"link", "publish"}
  BY DEF LinkInv, Waits
<1> QED
  BY <1>1 DEF Linking, Holds, Releasable

LEMMA BelowParts ==
  ASSUME NEW s, Shape(s), s # <<>>, NEW b, b = SubSeq(s, 1, Len(s) - 1)
  PROVE  Shape(b) /\ (\A n : Calm(s, b, n)) /\ Len(b) = Len(s) - 1 /\ Len(s) - 1 \in 0 .. Len(s)
<1>1. IsSeq(s)
  BY DEF Shape
<1>2. Len(s) - 1 \in 0 .. Len(s)
  BY <1>1, SeqParts
<1>3. IsCut(s, b, Len(s) - 1)
  BY <1>1, <1>2, CutParts
<1>4. Shape(b)
  BY <1>2, CutShape
<1>5. \A n : Calm(s, b, n)
  BY <1>1, <1>2, CutCalm
<1> QED
  BY <1>2, <1>3, <1>4, <1>5 DEF IsCut

LEMMA FailsQuiet ==
  ASSUME Good(inst, stack), stack # <<>>, NEW native, Releasable(native), NEW stage, NEW e,
         Fails(native, stage, e)
  PROVE  Quiet(inst, stack, inst', stack')
<1>1. IsTop(inst, stack, Len(stack), Top)
  BY TopParts DEF Top
<1>2. Resting(inst, inst')
  <2>1. inst' = [inst EXCEPT ![Top.id] = Failed(inst[Top.id], native, stage, e)]
    BY DEF Fails, I
  <2>2. Top.id \in Id
    BY <1>1 DEF IsTop
  <2> QED
    BY <2>1, <2>2, FailedRests
<1>3. Shape(stack) /\ Len(stack) - 1 \in 0 .. Len(stack)
  BY BelowParts DEF Good
<1>4. stack' = Caught(SubSeq(stack, 1, Len(stack) - 1), Classified(e))
  BY DEF Fails, Below
<1>5. Calm(stack, stack', 0)
  BY <1>3, <1>4, LeaveCalm
<1> QED
  BY <1>2, <1>5 DEF Quiet

LEMMA RaiseQuiet ==
  ASSUME Good(inst, stack), LinkInv(inst, stack), stack # <<>>, Top.kind = "run", NEW e, Raise(e)
  PROVE  Quiet(inst, stack, inst', stack')
<1>1. PICK n, b : n = Len(stack) /\ b = Below
  OBVIOUS
<1>2. IsTop(inst, stack, n, Top)
  BY <1>1, TopParts DEF Top
<1>3. Shape(stack)
  BY DEF Good
<1>4. Shape(b) /\ Calm(stack, b, 0) /\ Len(b) = n - 1
  BY <1>1, <1>3, BelowParts DEF Below
<1>5. CASE Top.at = "start"
  <2>1. KindAt(stack, n) = "run" /\ StageAt(stack, n) = "start"
    BY <1>2, <1>5 DEF IsTop
  <2>2. n \in Nat /\ n > 1
    BY <1>1, <1>3, <2>1, TwoParts
  <2>3. PICK stage : stage = IF e.origin = "RuntimeError" THEN "start" ELSE "js"
    OBVIOUS
  <2>4. /\ inst' = [inst EXCEPT ![Top.id] = Failed(inst[Top.id], inst[Top.id].native, stage, e)]
        /\ stack' = Caught(SubSeq(b, 1, Len(b) - 1), Classified(e))
    BY <1>1, <1>5, <2>3, Zenon DEF Raise
  <2>8. Releasable(inst[Top.id].native)
    <3>1. /\ n - 1 \in 1 .. n /\ n - 1 # n /\ KindAt(stack, n - 1) = "instantiate"
          /\ IdAt(stack, n - 1) = Top.id
      BY <1>1, <1>2, <1>3, <2>1, <2>2, TwoParts DEF IsTop
    <3> QED
      BY <1>1, <3>1, WaitingLoaded
  <2>5. Resting(inst, inst')
    BY <1>2, <2>4, <2>8, FailedRests DEF IsTop
  <2>6. Len(b) - 1 \in 0 .. Len(b)
    BY <1>4, <2>2
  <2>7. Calm(b, stack', 0)
    BY <1>4, <2>4, <2>6, LeaveCalm
  <2> QED
    BY <1>4, <2>5, <2>7, CalmTwice DEF Quiet
<1>6. CASE Top.at # "start"
  <2>1. stack' = Caught(b, e) /\ inst' = inst
    BY <1>1, <1>6, Zenon DEF Raise
  <2>2. Calm(b, stack', 0)
    BY <1>4, <2>1, CaughtCalm
  <2>3. Resting(inst, inst')
    BY <2>1, AllRest
  <2> QED
    BY <1>4, <2>2, <2>3, CalmTwice DEF Quiet
<1> QED
  BY <1>5, <1>6

LEMMA JsThrowsQuiet ==
  ASSUME Good(inst, stack), LinkInv(inst, stack), JsThrows
  PROVE  Quiet(inst, stack, inst', stack')
<1>1. stack # <<>> /\ Shape(stack) /\ Top.kind \in JsKinds
  BY DEF JsThrows, Good
<1>2. PICK n, b : n = Len(stack) /\ b = Below
  OBVIOUS
<1>3. IsTop(inst, stack, n, Top)
  BY <1>1, <1>2, TopParts DEF Top
<1>4. Shape(b) /\ Calm(stack, b, 0) /\ Len(b) = n - 1
  BY <1>1, <1>2, BelowParts DEF Below
<1>5. KindAt(stack, n) = Top.kind /\ KindAt(stack, n) \in JsKinds
  BY <1>1, <1>3 DEF IsTop
<1>6. n \in Nat /\ n > 1 /\ Fits(stack, n - 1) /\ n - 1 \in 1 .. n
  BY <1>1, <1>2, <1>5, TwoParts
<1>7. PICK owner : owner = b[Len(b)]
  OBVIOUS
<1>8. owner = stack[n - 1]
  <2>1. n - 1 \in 0 .. Len(stack) /\ n - 1 \in 1 .. n - 1
    BY <1>2, <1>6
  <2>2. IsCut(stack, b, n - 1)
    BY <1>1, <1>2, <2>1, CutParts DEF Below, Shape
  <2> QED
    BY <1>7, <2>1, <2>2 DEF IsCut
<1>9. owner.id = IdAt(stack, n - 1) /\ owner.id \in Id /\ owner.at = StageAt(stack, n - 1)
      /\ owner.kind = KindAt(stack, n - 1)
  BY <1>6, <1>8 DEF IdAt, StageAt, KindAt, Fits
<1>10. PICK fails, left, e :
        /\ fails = (owner.kind = "instantiate" \/ owner.at = "start")
        /\ left = IF Top.kind = "import" /\ owner.at = "start" THEN 2 ELSE 1
        /\ inst' = IF fails THEN [inst EXCEPT ![owner.id] = Failed(@, @.native, "js", e)] ELSE inst
        /\ stack' = Caught(SubSeq(b, 1, Len(b) - left), IF fails THEN Classified(e) ELSE e)
  BY <1>2, <1>7, Zenon DEF JsThrows
<1>14. fails => Releasable(inst[owner.id].native)
  <2>1. n - 1 \in 1 .. Len(stack) /\ n - 1 # Len(stack)
    BY <1>2, <1>6
  <2>2. CASE owner.kind = "instantiate"
    BY <1>9, <2>1, <2>2, WaitingLoaded
  <2>3. CASE owner.kind # "instantiate" /\ owner.at = "start"
    <3>1. KindAt(stack, n - 1) = "run" /\ StageAt(stack, n - 1) = "start"
      BY <1>1, <1>2, <1>5, <1>9, <2>3, TwoParts
    <3>2. /\ n - 1 > 1 /\ KindAt(stack, (n - 1) - 1) = "instantiate"
          /\ IdAt(stack, (n - 1) - 1) = owner.id
      BY <1>6, <1>9, <3>1 DEF Fits
    <3>3. (n - 1) - 1 \in 1 .. Len(stack) /\ (n - 1) - 1 # Len(stack)
      BY <1>2, <1>6, <3>2
    <3> QED
      BY <3>2, <3>3, WaitingLoaded
  <2> QED
    BY <1>10, <2>2, <2>3
<1>11. Resting(inst, inst')
  <2>1. CASE fails
    <3>1. inst' = [inst EXCEPT ![owner.id] = Failed(inst[owner.id], inst[owner.id].native, "js", e)]
      BY <1>10, <2>1
    <3> QED
      BY <1>9, <1>14, <2>1, <3>1, FailedRests
  <2>2. CASE ~fails
    BY <1>10, <2>2, AllRest
  <2> QED
    BY <2>1, <2>2
<1>12. Len(b) - left \in 0 .. Len(b)
  <2>1. CASE left = 1
    BY <1>4, <1>6, <2>1
  <2>2. CASE left # 1
    <3>1. left = 2 /\ Top.kind = "import" /\ owner.at = "start"
      BY <1>10, <2>2
    <3>2. KindAt(stack, n - 1) = "run"
      BY <1>1, <1>2, <1>5, <3>1, TwoParts
    <3>3. n - 1 > 1
      BY <1>6, <1>9, <3>1, <3>2 DEF Fits
    <3> QED
      BY <1>4, <1>6, <3>1, <3>3
  <2> QED
    BY <2>1, <2>2
<1>13. Calm(b, stack', 0)
  <2>1. PICK e2 : e2 = IF fails THEN Classified(e) ELSE e
    OBVIOUS
  <2>2. stack' = Caught(SubSeq(b, 1, Len(b) - left), e2)
    BY <1>10, <2>1
  <2> QED
    BY <1>4, <1>12, <2>2, LeaveCalm
<1> QED
  BY <1>4, <1>11, <1>13, CalmTwice DEF Quiet

LEMMA StackQuiet ==
  ASSUME NEW in, NEW s, NEW jn, NEW t, jn = in, Calm(s, t, 0)
  PROVE  Quiet(in, s, jn, t)
  BY AllRest DEF Quiet

LEMMA CallQuiet ==
  ASSUME NEW s, IsSeq(s), NEW kind, kind # "instantiate", NEW i, NEW at, NEW code,
         NEW t, t = Append(s, Activation(kind, i, at, code)), NEW n,
         kind = "getter" => Len(s) > 0 /\ s[Len(s)].at = "link", Open(s)
  PROVE  Calm(s, t, n)
<1>1. PICK f : f = Activation(kind, i, at, code)
  OBVIOUS
<1>2. f.kind # "instantiate" /\ f.kind = kind
  BY <1>1, ActivationParts
<1>3. IsPushed(s, t, f)
  BY <1>1, PushParts
<1> QED
  BY <1>2, <1>3, PushCalm

LEMMA CallGetterQuiet ==
  ASSUME Good(inst, stack), CallGetter
  PROVE  Quiet(inst, stack, inst', stack')
<1>1. stack' = Append(stack, Activation("getter", Top.id, "js", <<>>)) /\ inst' = inst
  BY DEF CallGetter
<1>2. IsSeq(stack)
  BY DEF Good, Shape
<1>4. Len(stack) > 0 /\ stack[Len(stack)].at = "link"
  <2>1. stack # <<>> /\ Top.at = "link"
    BY DEF CallGetter, At
  <2> QED
    BY <1>2, <2>1, SeqParts DEF Top
<1>5. Open(stack)
  BY <1>4 DEF Open
<1>3. Calm(stack, stack', 0)
  BY <1>1, <1>2, <1>4, <1>5, CallQuiet
<1> QED
  BY <1>1, <1>3, StackQuiet

LEMMA CallImportQuiet ==
  ASSUME Good(inst, stack), LinkInv(inst, stack), CallImport
  PROVE  Quiet(inst, stack, inst', stack')
<1>1. stack # <<>> /\ Top.kind = "run"
  BY DEF CallImport, Runs
<1>2. CASE Entry(Top.id, Head(Top.code)).fn = Missing
  <2>1. Raise(Plain("Error"))
    BY <1>2, Zenon DEF CallImport
  <2> QED
    BY <1>1, <2>1, RaiseQuiet
<1>3. CASE Entry(Top.id, Head(Top.code)).fn # Missing
  <2>1. /\ stack' = Append([stack EXCEPT ![Len(stack)].code = Tail(@)],
                           Activation("import", Top.id, "js", <<>>))
        /\ inst' = inst
    BY <1>3, Zenon DEF CallImport
  <2>2. PICK n, f : n = Len(stack) /\ f = CodeSet(Top, Tail(Top.code))
    OBVIOUS
  <2>3. PICK t : t = [stack EXCEPT ![n] = f]
    OBVIOUS
  <2>4. t = [stack EXCEPT ![Len(stack)].code = Tail(@)]
    BY <2>2, <2>3 DEF CodeSet, Top
  <2>5. IsTop(inst, stack, n, Top)
    BY <1>1, <2>2, TopParts DEF Top
  <2>6. f.kind # "instantiate" /\ f.kind = stack[Len(stack)].kind
    BY <1>1, <2>2, <2>5, FrameChanges DEF IsTop, SameFrame, Top
  <2>7. IsSeq(stack) /\ Len(stack) > 0
    BY <2>2, <2>5 DEF IsTop
  <2>8. Calm(stack, t, 0)
    BY <2>2, <2>3, <2>6, <2>7, ReplaceCalm
  <2>9. IsSeq(t) /\ Open(t)
    <3>1. IsReplaced(stack, t, f)
      BY <2>2, <2>3, <2>7, ReplaceParts
    <3>2. IsSeq(t) /\ t[Len(t)] = f
      BY <3>1 DEF IsReplaced
    <3> QED
      BY <2>6, <3>2 DEF Open
  <2>10. stack' = Append(t, Activation("import", Top.id, "js", <<>>))
    BY <2>1, <2>4
  <2>13. PICK kind, i : kind = "import" /\ i = Top.id
    OBVIOUS
  <2>14. kind # "instantiate" /\ kind # "getter" /\ stack' = Append(t, Activation(kind, i, "js", <<>>))
    BY <2>10, <2>13
  <2>11. Calm(t, stack', 0)
    BY ONLY <2>9, <2>14, CallQuiet
  <2>12. Calm(stack, stack', 0)
    BY <2>8, <2>11, CalmTwice
  <2> QED
    BY <2>1, <2>12, StackQuiet
<1> QED
  BY <1>2, <1>3

LEMMA CallExportQuiet ==
  ASSUME Good(inst, stack), NEW i \in Id, CallExport(i)
  PROVE  Quiet(inst, stack, inst', stack')
<1>1. PICK f : stack' = Append(stack, Activation("run", i, "call", CodeOf(inst[i].native, f)))
  BY Zenon DEF CallExport
<1>2. PICK code : code = CodeOf(inst[i].native, f)
  OBVIOUS
<1>3. stack' = Append(stack, Activation("run", i, "call", code)) /\ inst' = inst
  BY <1>1, <1>2 DEF CallExport
<1>4. IsSeq(stack)
  BY DEF Good, Shape
<1>6. PICK kind : kind = "run"
  OBVIOUS
<1>7. kind # "instantiate" /\ kind # "getter" /\ stack' = Append(stack, Activation(kind, i, "call", code))
  BY <1>3, <1>6
<1>8. Open(stack)
  <2>1. JsRuns
    BY DEF CallExport
  <2> QED
    BY <1>4, <2>1, SeqParts DEF JsRuns, JsKinds, Top, Open
<1>5. Calm(stack, stack', 0)
  BY ONLY <1>4, <1>7, <1>8, CallQuiet
<1> QED
  BY <1>3, <1>5, StackQuiet

LEMMA BelowQuiet ==
  ASSUME Good(inst, stack), stack # <<>>, stack' = Below, inst' = inst
  PROVE  Quiet(inst, stack, inst', stack')
<1>1. Calm(stack, stack', 0)
  BY BelowParts DEF Good, Below
<1> QED
  BY <1>1, StackQuiet

LEMMA CollectQuiet ==
  ASSUME Good(inst, stack), LinkInv(inst, stack), NEW i \in Id, Collect(i)
  PROVE  Quiet(inst, stack, inst', stack')
<1>1. PICK r : r = [Remains(inst[i], inst[i].native) EXCEPT !.status = "gone"]
  OBVIOUS
<1>2. inst' = [inst EXCEPT ![i] = r] /\ stack' = stack
  BY <1>1 DEF Collect
<1>3. inst = [j \in Id |-> inst[j]] /\ Story(inst[i])
  BY DEF Good, Matches
<1>6. Releasable(inst[i].native)
  BY DEF Collect, LinkInv, Releasable
<1>4. Ended(r)
  BY <1>1, <1>3, <1>6, GoneRests
<1>5. Resting(inst, inst')
  BY <1>2, <1>3, <1>4 DEF Resting
<1> QED
  BY <1>2, <1>5, CalmSame DEF Quiet

LEMMA ReloadQuiet ==
  ASSUME Good(inst, stack), LinkInv(inst, stack), Reload
  PROVE  Quiet(inst, stack, inst', stack')
<1>1. /\ inst' = [i \in Id |->
           IF inst[i].status = "live" THEN [Remains(inst[i], inst[i].native) EXCEPT !.status = "gone"]
           ELSE inst[i]]
      /\ stack' = stack
  BY DEF Reload
<1>2. ASSUME NEW i \in Id
      PROVE  inst'[i] = inst[i] \/ Ended(inst'[i])
  <2>1. CASE inst[i].status = "live"
    <3>1. inst'[i] = [Remains(inst[i], inst[i].native) EXCEPT !.status = "gone"]
      BY <1>1, <2>1
    <3>2. Story(inst[i]) /\ Releasable(inst[i].native)
      BY <2>1 DEF Good, Matches, LinkInv, Releasable
    <3> QED
      BY <3>1, <3>2, GoneRests
  <2>2. CASE inst[i].status # "live"
    BY <1>1, <2>2
  <2> QED
    BY <2>1, <2>2
<1>3. Resting(inst, inst')
  BY <1>2 DEF Resting
<1> QED
  BY <1>1, <1>3, CalmSame DEF Quiet

LEMMA NewModuleQuiet ==
  ASSUME Good(inst, stack), NewModule
  PROVE  Quiet(inst, stack, inst', stack')
<1>1. inst' = inst /\ (stack' = stack \/ Rejects(Plain("CompileError")))
  BY Zenon DEF NewModule
<1>2. CASE stack' = stack
  BY <1>1, <1>2, CalmSame, StackQuiet
<1>3. CASE Rejects(Plain("CompileError"))
  <2>1. stack' = Caught(stack, Plain("CompileError")) /\ Shape(stack)
    BY <1>3 DEF Rejects, Good
  <2>2. Calm(stack, stack', 0)
    BY <2>1, CaughtCalm
  <2> QED
    BY <1>1, <2>2, StackQuiet
<1> QED
  BY <1>1, <1>2, <1>3

-----------------------------------------------------------------------------
(* Steps of instantiate.                                                   *)

OthersSame(in, jn, i) == \A j \in Id : j # i => jn[j] = in[j]

\* What linking is about.
LinkParts(r, native, entries, compiled) ==
  r.native = native /\ r.entries = entries /\ r.compiled = compiled

LEMMA NativeParts ==
  ASSUME NEW in, in = [j \in Id |-> in[j]], NEW i \in Id, IsInstance(in[i]), NEW x,
         NEW jn, NativeChanged(in, jn, i, x)
  PROVE  /\ OthersSame(in, jn, i) /\ jn[i].bytes = in[i].bytes
         /\ LinkParts(jn[i], x, in[i].entries, in[i].compiled)
<1>1. PICK r : r = [in[i] EXCEPT !.native = x]
  OBVIOUS
<1>2. r.bytes = in[i].bytes /\ LinkParts(r, x, in[i].entries, in[i].compiled)
  BY <1>1 DEF IsInstance, InstanceFields, LinkParts
<1>3. jn = [in EXCEPT ![i] = r]
  BY <1>1 DEF NativeChanged
<1>4. jn[i] = r /\ OthersSame(in, jn, i)
  BY <1>3 DEF OthersSame
<1> QED
  BY <1>2, <1>4

ParsedChanged(in, jn, i, x, y) == jn = [in EXCEPT ![i].native = x, ![i].parsed = y]
CompiledChanged(in, jn, i, x, y) == jn = [in EXCEPT ![i].native = x, ![i].compiled = y]

LEMMA ParsedParts ==
  ASSUME NEW in, in = [j \in Id |-> in[j]], NEW i \in Id, IsInstance(in[i]), NEW x, NEW y,
         NEW jn, ParsedChanged(in, jn, i, x, y)
  PROVE  /\ OthersSame(in, jn, i) /\ jn[i].bytes = in[i].bytes
         /\ LinkParts(jn[i], x, in[i].entries, in[i].compiled)
<1>1. PICK r : r = [in[i] EXCEPT !.native = x, !.parsed = y]
  OBVIOUS
<1>2. r.bytes = in[i].bytes /\ LinkParts(r, x, in[i].entries, in[i].compiled)
  BY <1>1 DEF IsInstance, InstanceFields, LinkParts
<1>3. jn = [in EXCEPT ![i] = r]
  BY <1>1 DEF ParsedChanged
<1>4. jn[i] = r /\ OthersSame(in, jn, i)
  BY <1>3 DEF OthersSame
<1> QED
  BY <1>2, <1>4

LEMMA CompiledParts ==
  ASSUME NEW in, in = [j \in Id |-> in[j]], NEW i \in Id, IsInstance(in[i]), NEW x, NEW y,
         NEW jn, CompiledChanged(in, jn, i, x, y)
  PROVE  /\ OthersSame(in, jn, i) /\ jn[i].bytes = in[i].bytes
         /\ LinkParts(jn[i], x, in[i].entries, y)
<1>1. PICK r : r = [in[i] EXCEPT !.native = x, !.compiled = y]
  OBVIOUS
<1>2. r.bytes = in[i].bytes /\ LinkParts(r, x, in[i].entries, y)
  BY <1>1 DEF IsInstance, InstanceFields, LinkParts
<1>3. jn = [in EXCEPT ![i] = r]
  BY <1>1 DEF CompiledChanged
<1>4. jn[i] = r /\ OthersSame(in, jn, i)
  BY <1>3 DEF OthersSame
<1> QED
  BY <1>2, <1>4

LEMMA EntryParts ==
  ASSUME NEW in, in = [j \in Id |-> in[j]], NEW i \in Id, IsInstance(in[i]), NEW x, NEW y,
         NEW jn, LinkChanged(in, jn, i, x, y)
  PROVE  /\ OthersSame(in, jn, i) /\ jn[i].bytes = in[i].bytes
         /\ LinkParts(jn[i], x, Append(in[i].entries, y), in[i].compiled)
<1>1. PICK z : z = Append(in[i].entries, y)
  OBVIOUS
<1>2. PICK r : r = [in[i] EXCEPT !.native = x, !.entries = z]
  OBVIOUS
<1>3. r.bytes = in[i].bytes /\ LinkParts(r, x, z, in[i].compiled)
  BY <1>2 DEF IsInstance, InstanceFields, LinkParts
<1>4. jn = [in EXCEPT ![i] = r]
  BY <1>1, <1>2 DEF LinkChanged
<1>5. jn[i] = r /\ OthersSame(in, jn, i)
  BY <1>4 DEF OthersSame
<1> QED
  BY <1>1, <1>3, <1>5

LEMMA TopLinking ==
  ASSUME NEW in, NEW s, Good(in, s), LinkInv(in, s), s # <<>>, NEW f, f = s[Len(s)], f.kind = "instantiate"
  PROVE  Linking(in[f.id], f.at, f.next) /\ IsTop(in, s, Len(s), f)
<1>1. IsTop(in, s, Len(s), f)
  BY TopParts
<1>2. Len(s) \in 1 .. Len(s) /\ KindAt(s, Len(s)) = "instantiate" /\ f.id = IdAt(s, Len(s))
      /\ f.at = StageAt(s, Len(s)) /\ f.next = NextAt(s, Len(s))
  BY <1>1 DEF IsTop, NextAt
<1> QED
  BY <1>1, <1>2 DEF LinkInv

\* The innermost frame changes, and its instance.
LEMMA TopMoves ==
  ASSUME NEW in, NEW s, Good(in, s), LinkInv(in, s), s # <<>>, s[Len(s)].kind = "instantiate",
         NEW f, SameFrame(s[Len(s)], f), NEW t, t = [s EXCEPT ![Len(s)] = f],
         NEW jn, OthersSame(in, jn, f.id), Linking(jn[f.id], f.at, f.next), Good(jn, t)
  PROVE  LinkInv(jn, t)
<1>1. PICK n : n = Len(s)
  OBVIOUS
<1>2. IsSeq(s) /\ n \in Nat /\ n > 0 /\ n \in 1 .. n
  BY <1>1, SeqParts DEF Good, Shape
<1>3. IsReplaced(s, t, f)
  BY <1>1, <1>2, ReplaceParts
<1>4. Len(t) = n /\ t[n] = f
  BY <1>1, <1>3 DEF IsReplaced
<1>5. KindAt(t, n) = "instantiate" /\ IdAt(t, n) = f.id /\ StageAt(t, n) = f.at /\ NextAt(t, n) = f.next
  BY <1>4 DEF SameFrame, KindAt, IdAt, StageAt, NextAt
<1>6. Calm(s, t, n)
  BY <1>1, <1>2, ReplaceCalm DEF SameFrame
<1>7. n \in 1 .. Len(t) /\ \A j \in Id : j # IdAt(t, n) => jn[j] = in[j]
  BY <1>2, <1>4, <1>5 DEF OthersSame
<1>8. Linking(jn[IdAt(t, n)], StageAt(t, n), NextAt(t, n))
  BY <1>5
<1> QED
  BY ONLY LinkInv(in, s), Good(jn, t), <1>5, <1>6, <1>7, <1>8, ActiveKeeps

LEMMA GotoMoves ==
  ASSUME Good(inst, stack), LinkInv(inst, stack), stack # <<>>, Top.kind = "instantiate",
         NEW stage, Goto(stage), OthersSame(inst, inst', Top.id), Linking(inst'[Top.id], stage, Top.next),
         Good(inst', stack')
  PROVE  LinkInv(inst', stack')
<1>1. PICK n, f : n = Len(stack) /\ f = AtSet(Top, stage)
  OBVIOUS
<1>2. IsTop(inst, stack, n, Top)
  BY <1>1, TopParts DEF Top
<1>3. SameFrame(Top, f) /\ f.at = stage /\ f.next = Top.next /\ f.id = Top.id
  BY <1>1, <1>2, FrameChanges, NextChanges DEF IsTop, SameFrame
<1>4. stack' = [stack EXCEPT ![n] = f]
  BY <1>1 DEF Goto, AtSet, Top
<1>5. /\ stack[n].kind = "instantiate" /\ SameFrame(stack[n], f)
      /\ OthersSame(inst, inst', f.id) /\ Linking(inst'[f.id], f.at, f.next)
  BY <1>1, <1>3 DEF Top
<1> QED
  BY ONLY Good(inst, stack), LinkInv(inst, stack), stack # <<>>, Good(inst', stack'), <1>1, <1>4, <1>5, TopMoves

StepMoves == Good(inst, stack) /\ LinkInv(inst, stack) /\ Good(inst', stack')

LEMMA FailsMoves ==
  ASSUME StepMoves, stack # <<>>, NEW native, Releasable(native), NEW stage, NEW e, Fails(native, stage, e)
  PROVE  LinkInv(inst', stack')
BY FailsQuiet, QuietKeeps DEF StepMoves, Quiet

LEMMA AtLinking ==
  ASSUME Good(inst, stack), LinkInv(inst, stack), NEW stage, At(stage)
  PROVE  /\ Linking(inst[Top.id], stage, Top.next) /\ stack # <<>> /\ Top.kind = "instantiate"
         /\ Top.id \in Id /\ inst = [j \in Id |-> inst[j]] /\ IsInstance(inst[Top.id])
<1>1. stack # <<>> /\ Top.kind = "instantiate" /\ Top.at = stage /\ Top = stack[Len(stack)]
  BY DEF At, Top
<1>2. Linking(inst[Top.id], Top.at, Top.next)
  BY <1>1, TopLinking
<1> QED
  BY <1>1, <1>2, AtParts

\* From linking on.
LEMMA AtLoaded ==
  ASSUME Good(inst, stack), LinkInv(inst, stack), NEW stage \in {"link", "compile", "start", "publish"}, At(stage)
  PROVE  /\ Loaded(inst[Top.id].native) /\ Releasable(inst[Top.id].native) /\ WellFormed(inst[Top.id].native)
         /\ Loaded(Native) /\ Releasable(Native)
<1>1. Linking(inst[Top.id], stage, Top.next)
  BY AtLinking
<1>2. Loaded(inst[Top.id].native)
  BY <1>1 DEF Linking, Holds
<1> QED
  BY <1>2 DEF Loaded, Releasable, Native, I

LEMMA CreateLinks ==
  ASSUME StepMoves, Create
  PROVE  LinkInv(inst', stack')
<1>1. At("create") /\ Good(inst, stack) /\ LinkInv(inst, stack)
  BY DEF Create, StepMoves
<1>2. CASE inst' = [inst EXCEPT ![Top.id].native = NewRuntime(NewEnvironment)] /\ Goto("parse")
  <2>1. NativeChanged(inst, inst', Top.id, NewRuntime(NewEnvironment))
    BY <1>2 DEF NativeChanged
  <2>2. PICK r, t : r = inst[Top.id] /\ t = inst'[Top.id]
    OBVIOUS
  <2>3. /\ OthersSame(inst, inst', Top.id) /\ t.bytes = r.bytes
        /\ t.entries = r.entries /\ t.compiled = r.compiled
    BY <1>1, <2>1, <2>2, AtLinking, NativeParts DEF LinkParts
  <2>4. Linking(r, "create", Top.next)
    BY <1>1, <2>2, AtLinking
  <2>6. t.native = NewRuntime(NewEnvironment)
    BY <1>1, <2>1, <2>2, AtLinking, NativeParts DEF LinkParts
  <2>7. t.native.twice = FALSE
    BY <2>6 DEF NewRuntime, NewEnvironment, Alloc
  <2>5. Linking(t, "parse", Top.next)
    BY <2>3, <2>4, <2>7 DEF Linking, Holds
  <2> QED
    BY <1>1, <1>2, <2>2, <2>3, <2>5, AtLinking, GotoMoves DEF StepMoves
<1>3. CASE Fails(NewEnvironment, "create", Plain("Error"))
  BY <1>1, <1>3, FailsMoves, AtLinking, NewFresh DEF Releasable
<1> QED
  BY <1>2, <1>3 DEF Create

LEMMA ParseLinks ==
  ASSUME StepMoves, Parse
  PROVE  LinkInv(inst', stack')
<1>1. At("parse") /\ Good(inst, stack) /\ LinkInv(inst, stack)
  BY DEF Parse, StepMoves
<1>2. PICK parsed : parsed = Parsed[Bytes(Top.id)]
  OBVIOUS
<1>3. IF Ok(parsed)
      THEN /\ inst' = [inst EXCEPT ![Top.id].native = parsed, ![Top.id].parsed = Bytes(Top.id)]
           /\ Goto("load")
      ELSE Fails(parsed, "parse", Thrown("CompileError"))
  BY <1>2, Zenon DEF Parse
<1>7. PICK bytes : bytes = inst[Top.id].bytes
  OBVIOUS
<1>9. bytes \in DOMAIN Binary
  BY <1>1, <1>7, AtLinking DEF Linking
<1>8. PICK image, items : image = Binary[bytes] /\ items = ItemsOf(image, 7)
  OBVIOUS
<1>6. /\ HasRuntime(parsed)
      /\ Ok(parsed) => /\ WellFormed(parsed) /\ Unlinked(parsed) /\ CanExport(parsed, items)
                       /\ Owns(parsed)
      /\ ~Ok(parsed) => Bare(parsed)
  <2>1. IsImage(image)
    BY <1>8, <1>9, ImageAssumption
  <2>2. PICK p : p = NewRuntime(NewEnvironment)
    OBVIOUS
  <2>3. parsed = ParseModule(p, image)
    BY <1>2, <1>7, <1>8, <1>9, <2>2, Zenon DEF Parsed, Bytes
  <2>4. Fresh(p) /\ HasRuntime(p)
    BY <2>2, NewFresh
  <2> QED
    BY <1>8, <2>1, <2>3, <2>4, ModuleParsed
<1>4. CASE Ok(parsed)
  <2>1. PICK r, t : r = inst[Top.id] /\ t = inst'[Top.id]
    OBVIOUS
  <2>2. Linking(r, "parse", Top.next)
    BY <1>1, <2>1, AtLinking
  <2>3. /\ OthersSame(inst, inst', Top.id) /\ t.native = parsed /\ t.bytes = r.bytes
        /\ t.entries = r.entries /\ t.compiled = r.compiled
    <3>1. PICK y : y = Bytes(Top.id)
      OBVIOUS
    <3>2. ParsedChanged(inst, inst', Top.id, parsed, y)
      BY <1>3, <1>4, <3>1 DEF ParsedChanged
    <3>3. Top.id \in Id /\ inst = [j \in Id |-> inst[j]] /\ IsInstance(inst[Top.id])
      BY <1>1, AtLinking
    <3>4. /\ OthersSame(inst, inst', Top.id) /\ t.bytes = r.bytes
          /\ LinkParts(t, parsed, r.entries, r.compiled)
      BY <2>1, <3>2, <3>3, ParsedParts
    <3> QED
      BY <3>4 DEF LinkParts
  <2>4. WellFormed(parsed) /\ Unlinked(parsed) /\ CanExport(parsed, items) /\ Owns(parsed) /\ HasRuntime(parsed)
    BY <1>4, <1>6
  <2>6. parsed.twice = FALSE
    BY <2>4 DEF Owns
  <2>5. Linking(t, "load", Top.next)
    BY <1>4, <1>7, <1>8, <2>1, <2>2, <2>3, <2>4, <2>6 DEF Linking, Listing, Holds
  <2> QED
    BY <1>1, <1>3, <1>4, <2>1, <2>3, <2>5, AtLinking, GotoMoves DEF StepMoves
<1>5. CASE ~Ok(parsed)
  BY <1>1, <1>3, <1>5, <1>6, FailsMoves, AtLinking DEF Releasable
<1> QED
  BY <1>4, <1>5

LEMMA LoadLinks ==
  ASSUME StepMoves, Load
  PROVE  LinkInv(inst', stack')
<1>1. At("load") /\ Good(inst, stack) /\ LinkInv(inst, stack)
  BY DEF Load, StepMoves
<1>2. PICK loaded : loaded = LoadModule(Native)
  OBVIOUS
<1>3. IF Ok(loaded)
      THEN inst' = [inst EXCEPT ![Top.id].native = loaded] /\ Goto("link")
      ELSE Fails(LoadFailure(loaded), "load", Thrown("CompileError"))
  BY <1>2, Zenon DEF Load
<1>6. PICK p : p = inst[Top.id].native
  OBVIOUS
<1>7. WellFormed(p) /\ Owns(p) /\ HasRuntime(p) /\ loaded = LoadModule(p)
  BY <1>1, <1>2, <1>6, AtLinking DEF Linking, Holds, Native, I
<1>8. Kept(p, loaded) /\ (Ok(loaded) => loaded.m.linked = TRUE)
  BY <1>7, KeptLoadModule
<1>9. WellFormed(loaded) /\ Owns(loaded) /\ HasRuntime(loaded) /\ Follows(p, loaded)
  BY <1>7, <1>8, KeptWell DEF Kept, Owning
<1>4. CASE Ok(loaded)
  <2>1. NativeChanged(inst, inst', Top.id, loaded)
    BY <1>3, <1>4 DEF NativeChanged
  <2>2. PICK r, t : r = inst[Top.id] /\ t = inst'[Top.id]
    OBVIOUS
  <2>3. /\ OthersSame(inst, inst', Top.id) /\ t.native = loaded /\ t.bytes = r.bytes
        /\ t.entries = r.entries /\ t.compiled = r.compiled
    BY <1>1, <2>1, <2>2, AtLinking, NativeParts DEF LinkParts
  <2>4. Linking(r, "load", Top.next)
    BY <1>1, <2>2, AtLinking
  <2>5. WellFormed(r.native) /\ Unlinked(r.native) /\ r.compiled = NoImage /\ r.entries = <<>> /\ Top.next = 1
    BY <2>4 DEF Linking
  <2>6. Loaded(loaded) /\ loaded.twice = FALSE
    BY <1>4, <1>8, <1>9 DEF Loaded, Owns
  <2>7. r.native = p
    BY <1>6, <2>2
  <2>8. WellFormed(loaded) /\ Unlinked(loaded)
    BY <1>9, <2>5, <2>7, UnlinkedKept
  <2>9. IsSeq(t.entries)
    BY <2>3, <2>5 DEF IsSeq
  <2>10. PartlyLinked(t, Top.next)
    <3>1. HasImports(loaded)
      BY <2>8 DEF HasImports, Unlinked
    <3>2. Len(loaded.m.functions) \in Nat
      BY <2>8, FunctionsLength
    <3>3. ASSUME NEW f \in 1 .. loaded.m.imports
          PROVE  /\ loaded.m.functions[f].import # NoImport /\ loaded.m.functions[f].stub = Unset
                 /\ ~(f < 1)
      <4>1. f \in 1 .. Len(loaded.m.functions)
        BY <2>8, <3>2 DEF Unlinked
      <4>2. ~(f < 1)
        BY <2>8 DEF Unlinked
      <4> QED
        BY <2>8, <4>1, <4>2 DEF Unlinked
    <3> QED
      BY <1>4, <2>3, <2>5, <2>9, <3>1, <3>3 DEF PartlyLinked
  <2>12. t.bytes \in DOMAIN Binary /\ Listing(t)
    BY <1>9, <2>3, <2>4, <2>7, ExportKept DEF Linking, Listing
  <2>11. Linking(t, "link", Top.next)
    BY <2>3, <2>5, <2>6, <2>10, <2>12 DEF Linking, Holds
  <2> QED
    BY <1>1, <1>3, <1>4, <2>2, <2>3, <2>11, AtLinking, GotoMoves DEF StepMoves
<1>5. CASE ~Ok(loaded)
  <2>1. Releasable(LoadFailure(loaded))
    BY <1>9, ModuleFreed DEF LoadFailure, Releasable
  <2> QED
    BY <1>1, <1>3, <1>5, <2>1, FailsMoves, AtLinking
<1> QED
  BY <1>4, <1>5

LEMMA LinkedLinks ==
  ASSUME StepMoves, Linked
  PROVE  LinkInv(inst', stack')
<1>1. At("link") /\ Good(inst, stack) /\ LinkInv(inst, stack) /\ Goto("compile") /\ inst' = inst
  BY DEF Linked, StepMoves
<1>2. PICK r : r = inst[Top.id]
  OBVIOUS
<1>3. ~(Top.next <= r.native.m.imports)
  BY <1>2 DEF Linked, Imports, Native, I
<1>4. PartlyLinked(r, Top.next)
  BY <1>1, <1>2, AtLinking DEF Linking
<1>5. AllLinked(r)
  <2>1. \A f \in 1 .. r.native.m.imports : f < Top.next
    BY <1>3, <1>4 DEF PartlyLinked, HasImports
  <2> QED
    BY <1>4, <2>1 DEF PartlyLinked, AllLinked
<1>8. r.bytes \in DOMAIN Binary /\ Listing(r)
  BY <1>1, <1>2, AtLinking DEF Linking
<1>9. Holds(r.native, "compile")
  BY <1>1, <1>2, AtLoaded DEF Holds, Loaded, Owns
<1>6. Linking(inst'[Top.id], "compile", Top.next)
  BY <1>1, <1>2, <1>5, <1>8, <1>9 DEF Linking
<1>7. OthersSame(inst, inst', Top.id)
  BY <1>1 DEF OthersSame
<1> QED
  BY <1>1, <1>6, <1>7, AtLinking, GotoMoves DEF StepMoves

\* What can be exported.
LEMMA ListingKept ==
  ASSUME NEW r, r.bytes \in DOMAIN Binary, Listing(r), NEW t, Kept(r.native, t.native), t.bytes = r.bytes
  PROVE  t.bytes \in DOMAIN Binary /\ Listing(t)
  BY ExportKept DEF Listing, Kept

\* What keeps functions, imports and stubs keeps the links.
LEMMA LinksKept ==
  ASSUME NEW r, AllLinked(r), NEW x, Kept(r.native, x), NEW c, NEW t, LinkParts(t, x, r.entries, c)
  PROVE  AllLinked(t)
<1>1. t.native = x /\ t.entries = r.entries
  BY DEF LinkParts
<1>2. HasImports(r.native)
  BY DEF AllLinked
<1>3. /\ x.m.imports = r.native.m.imports /\ Len(x.m.functions) = Len(r.native.m.functions)
      /\ \A f \in 1 .. Len(r.native.m.functions) :
           /\ x.m.functions[f].import = r.native.m.functions[f].import
           /\ x.m.functions[f].stub = r.native.m.functions[f].stub
  BY DEF Kept, Follows, SameLinks
<1>4. HasImports(x)
  BY <1>2, <1>3, KeptWell DEF HasImports
<1>5. ASSUME NEW f \in 1 .. x.m.imports
      PROVE  LinkedTo(t, f)
  <2>1. f \in 1 .. r.native.m.imports
    BY <1>3
  <2>2. f \in 1 .. Len(r.native.m.functions)
    <3>1. Len(r.native.m.functions) \in Nat
      BY <1>2, FunctionsLength DEF HasImports
    <3> QED
      BY <1>2, <2>1, <3>1 DEF HasImports
  <2>3. LinkedTo(r, f)
    BY <2>1 DEF AllLinked
  <2> QED
    BY <1>1, <1>3, <2>2, <2>3 DEF LinkedTo
<1> QED
  BY <1>1, <1>4, <1>5 DEF AllLinked

LEMMA CompileLinks ==
  ASSUME StepMoves, Compile
  PROVE  LinkInv(inst', stack')
<1>1. At("compile") /\ Good(inst, stack) /\ LinkInv(inst, stack)
  BY DEF Compile, StepMoves
<1>2. PICK compiled : compiled = CompileModule(Native, Binary[Bytes(Top.id)])
  OBVIOUS
<1>3. IF Ok(compiled)
      THEN /\ inst' = [inst EXCEPT ![Top.id].native = compiled, ![Top.id].compiled = Bytes(Top.id)]
           /\ Goto("start")
      ELSE Fails(compiled, "compile", Thrown("CompileError"))
  BY <1>2, Zenon DEF Compile
<1>6. Kept(Native, compiled) /\ Loaded(compiled) /\ compiled.twice = FALSE
  <2>1. Loaded(Native)
    BY <1>1, AtLoaded
  <2>2. Kept(Native, compiled)
    BY <1>2, <2>1, KeptCompileModule DEF Loaded
  <2>3. Loaded(compiled)
    BY <2>1, <2>2, LoadedKept
  <2> QED
    BY <2>2, <2>3 DEF Loaded, Owns
<1>4. CASE Ok(compiled)
  <2>1. PICK r, t, y : r = inst[Top.id] /\ t = inst'[Top.id] /\ y = Bytes(Top.id)
    OBVIOUS
  <2>2. AllLinked(r) /\ r.bytes \in DOMAIN Binary /\ Listing(r)
    BY <1>1, <2>1, AtLinking DEF Linking
  <2>3. OthersSame(inst, inst', Top.id) /\ t.bytes = r.bytes /\ LinkParts(t, compiled, r.entries, y)
    <3>1. CompiledChanged(inst, inst', Top.id, compiled, y)
      BY <1>3, <1>4, <2>1 DEF CompiledChanged
    <3>2. Top.id \in Id /\ inst = [j \in Id |-> inst[j]] /\ IsInstance(inst[Top.id])
      BY <1>1, AtLinking
    <3> QED
      BY <2>1, <3>1, <3>2, CompiledParts
  <2>6. Kept(r.native, compiled)
    BY <1>6, <2>1 DEF Native, I
  <2>7. AllLinked(t)
    BY <2>2, <2>3, <2>6, LinksKept
  <2>9. t.bytes \in DOMAIN Binary /\ Listing(t)
    BY <2>2, <2>3, <2>6, ListingKept DEF LinkParts
  <2>8. Linking(t, "start", Top.next)
    BY <1>6, <2>3, <2>7, <2>9 DEF Linking, LinkParts, Holds
  <2> QED
    BY <1>1, <1>3, <1>4, <2>1, <2>3, <2>8, AtLinking, GotoMoves DEF StepMoves
<1>5. CASE ~Ok(compiled)
  BY <1>1, <1>3, <1>5, <1>6, FailsMoves, AtLinking DEF Releasable
<1> QED
  BY <1>4, <1>5

LEMMA StartLinks ==
  ASSUME StepMoves, Start
  PROVE  LinkInv(inst', stack')
<1>1. At("start") /\ Good(inst, stack) /\ LinkInv(inst, stack)
  BY DEF Start, StepMoves
<1>2. PICK start, r, t : start = Native.m.start /\ r = inst[Top.id] /\ t = inst'[Top.id]
  OBVIOUS
<1>3. IF start = Unset THEN Goto("publish") /\ inst' = inst
      ELSE IF StartFails(Native) THEN Fails(Native, "start", Thrown("RuntimeError"))
      ELSE /\ stack' = Append([stack EXCEPT ![Len(stack)].at = "publish"],
                              Activation("run", Top.id, "start", CodeOf(Native, start + 1)))
           /\ inst' = [inst EXCEPT ![Top.id].native.m.start = Unset]
  BY <1>2, Zenon DEF Start
<1>4. AllLinked(r) /\ r.bytes \in DOMAIN Binary /\ Listing(r)
  BY <1>1, <1>2, AtLinking DEF Linking
<1>5. CASE start = Unset
  <2>1. OthersSame(inst, inst', Top.id) /\ t = r
    BY <1>2, <1>3, <1>5 DEF OthersSame
  <2>3. Holds(r.native, "publish")
    BY <1>1, <1>2, AtLoaded DEF Holds, Loaded, Owns
  <2>2. Linking(t, "publish", Top.next)
    BY <1>4, <2>1, <2>3 DEF Linking
  <2> QED
    BY <1>1, <1>2, <1>3, <1>5, <2>1, <2>2, AtLinking, GotoMoves DEF StepMoves
<1>6. CASE start # Unset /\ StartFails(Native)
  BY <1>1, <1>3, <1>6, FailsMoves, AtLinking, AtLoaded
<1>7. CASE start # Unset /\ ~StartFails(Native)
  <2>1. PICK x : x = [r.native EXCEPT !.m.start = Unset]
    OBVIOUS
  <2>2. Top.id \in Id /\ inst = [j \in Id |-> inst[j]] /\ IsInstance(inst[Top.id])
    BY <1>1, AtLinking
  <2>3. NativeChanged(inst, inst', Top.id, x)
    BY <1>2, <1>3, <1>7, <2>1 DEF NativeChanged
  <2>4. OthersSame(inst, inst', Top.id) /\ t.bytes = r.bytes /\ LinkParts(t, x, r.entries, r.compiled)
    BY <1>2, <2>2, <2>3, NativeParts
  <2>5. Kept(r.native, x)
    BY <1>4, <2>1, KeptFields DEF AllLinked, HasImports
  <2>6. AllLinked(t) /\ t.bytes \in DOMAIN Binary /\ Listing(t)
    BY <1>4, <2>4, <2>5, LinksKept, ListingKept DEF LinkParts
  <2>28. Holds(x, "publish")
    <3>1. Loaded(x)
      BY <1>1, <1>2, <2>5, AtLoaded, LoadedKept
    <3> QED
      BY <3>1 DEF Holds, Loaded, Owns
  <2>7. PICK n, f : n = Len(stack) /\ f = AtSet(Top, "publish")
    OBVIOUS
  <2>8. PICK u : u = [stack EXCEPT ![n] = f]
    OBVIOUS
  <2>9. u = [stack EXCEPT ![Len(stack)].at = "publish"]
    BY <2>7, <2>8 DEF AtSet, Top
  <2>10. stack # <<>> /\ Top.kind = "instantiate" /\ IsTop(inst, stack, n, Top)
    BY <1>1, <2>7, TopParts DEF At, Top
  <2>11. SameFrame(Top, f) /\ f.at = "publish"
    BY <2>7, <2>10, FrameChanges DEF IsTop
  <2>12. f.kind = "instantiate" /\ f.id = Top.id
    BY <2>10, <2>11 DEF SameFrame
  <2>13. IsSeq(stack) /\ n \in Nat /\ n > 0 /\ n \in 1 .. n
    BY <2>10 DEF IsTop
  <2>14. IsReplaced(stack, u, f) /\ Calm(stack, u, n)
    BY <2>7, <2>8, <2>10, <2>12, <2>13, ReplaceParts, ReplaceCalm DEF Top
  <2>15. IsSeq(u) /\ Len(u) = n /\ u[n] = f
    BY <2>7, <2>14 DEF IsReplaced
  <2>16. PICK code, g : code = CodeOf(Native, start + 1) /\ g = Activation("run", Top.id, "start", code)
    OBVIOUS
  <2>17. stack' = Append(u, g)
    BY <1>3, <1>7, <2>9, <2>16
  <2>26. PICK kind, i : kind = "run" /\ i = Top.id
    OBVIOUS
  <2>27. /\ kind # "instantiate" /\ kind # "getter"
         /\ stack' = Append(u, Activation(kind, i, "start", code))
    BY <2>16, <2>17, <2>26
  <2>29. Open(u)
    BY <2>11, <2>15 DEF Open
  <2>18. Calm(u, stack', n)
    BY ONLY <2>15, <2>27, <2>29, CallQuiet
  <2>19. Calm(stack, stack', n)
    BY <2>14, <2>18, CalmTwice
  <2>20. IsPushed(u, stack', g)
    BY <2>15, <2>17, PushParts
  <2>21. stack'[n] = f /\ n \in 1 .. Len(stack')
    BY <2>13, <2>15, <2>20 DEF IsPushed
  <2>22. KindAt(stack', n) = "instantiate" /\ IdAt(stack', n) = Top.id /\ StageAt(stack', n) = "publish"
    BY <2>11, <2>12, <2>21 DEF KindAt, IdAt, StageAt
  <2>23. Linking(inst'[IdAt(stack', n)], StageAt(stack', n), NextAt(stack', n))
    BY <1>2, <2>4, <2>6, <2>22, <2>28 DEF Linking, LinkParts
  <2>24. \A j \in Id : j # IdAt(stack', n) => inst'[j] = inst[j]
    BY <2>4, <2>22 DEF OthersSame
  <2>25. LinkInv(inst, stack) /\ Good(inst', stack')
    BY DEF StepMoves
  <2> QED
    BY ONLY <2>19, <2>21, <2>22, <2>23, <2>24, <2>25, ActiveKeeps
<1> QED
  BY <1>5, <1>6, <1>7

LEMMA PublishLinks ==
  ASSUME StepMoves, Publish
  PROVE  LinkInv(inst', stack')
<1>1. At("publish") /\ Good(inst, stack) /\ LinkInv(inst, stack) /\ stack' = Below
  BY DEF Publish, StepMoves
<1>2. PICK x, i : x = ExportsObject(Native, Binary[Bytes(Top.id)]) /\ i = Top.id
  OBVIOUS
<1>3. PICK r : r = [inst[i] EXCEPT !.status = "live", !.scanned = inst[i].bytes, !.exports = x,
                     !.promise = "none"]
  OBVIOUS
<1>4. inst' = [inst EXCEPT ![i] = r]
  BY <1>2, <1>3, Zenon DEF Publish, I, Bytes
<1>5. i \in Id /\ inst = [j \in Id |-> inst[j]] /\ IsInstance(inst[i]) /\ stack # <<>>
      /\ AllLinked(inst[i]) /\ inst[i].bytes \in DOMAIN Binary /\ Listing(inst[i])
  BY <1>1, <1>2, AtLinking DEF Linking
<1>6. /\ LinkParts(r, inst[i].native, inst[i].entries, inst[i].compiled) /\ r.status = "live"
      /\ r.bytes = inst[i].bytes /\ r.exports = x
  BY <1>3, <1>5 DEF IsInstance, InstanceFields, LinkParts
<1>13. x = ExportsObject(inst[i].native, Binary[inst[i].bytes])
  BY <1>2 DEF Native, I, Bytes
<1>14. WellFormed(inst[i].native)
  BY <1>5 DEF AllLinked, HasImports
<1>15. r.native = inst[i].native
  BY <1>6 DEF LinkParts
<1>16. AsListed(r)
  BY <1>5, <1>6, <1>13, <1>14, <1>15, PublishedAsListed DEF Listing
<1>17. Loaded(r.native)
  BY <1>1, <1>2, <1>15, AtLoaded
<1>7. AllLinked(r) /\ AsListed(r)
  BY <1>5, <1>6, <1>16, LinksKept, KeptSame DEF AllLinked, HasImports
<1>8. inst'[i] = r /\ \A j \in Id : j # i => inst'[j] = inst[j]
  BY <1>4, <1>5
<1>9. Calm(stack, stack', 0)
  BY <1>1, <1>5, BelowParts DEF Good, Below
<1>10. ASSUME NEW k \in 1 .. Len(stack'), KindAt(stack', k) = "instantiate"
       PROVE  Linking(inst'[IdAt(stack', k)], StageAt(stack', k), NextAt(stack', k))
  <2>1. IdAt(stack', k) \in Id /\ inst'[IdAt(stack', k)].status = "building"
    BY <1>10, Instantiates DEF StepMoves
  <2>2. IdAt(stack', k) # i
    BY <1>6, <1>8, <2>1
  <2>3. SameSpot(stack, stack', k)
    <3>1. k # 0
      OBVIOUS
    <3> QED
      BY <1>9, <1>10, <3>1 DEF Calm
  <2>4. Linking(inst[IdAt(stack, k)], StageAt(stack, k), NextAt(stack, k))
    BY <1>1, <1>10, <2>3 DEF LinkInv, SameSpot
  <2> QED
    BY <1>8, <2>1, <2>2, <2>3, <2>4 DEF SameSpot
<1>11. ASSUME NEW j \in Id, inst'[j].status = "live"
       PROVE  AllLinked(inst'[j]) /\ AsListed(inst'[j]) /\ Loaded(inst'[j].native)
  BY <1>1, <1>7, <1>8, <1>11, <1>17 DEF LinkInv
<1>18. ASSUME NEW j \in Id, inst'[j].status \notin {"building", "live"}
       PROVE  Released(inst'[j].native)
  BY <1>1, <1>6, <1>8, <1>18 DEF LinkInv
<1>12. Getters(stack') /\ Waits(stack')
  BY <1>1, <1>9 DEF LinkInv, Calm
<1> QED
  BY <1>10, <1>11, <1>12, <1>18 DEF LinkInv

\* The next import is linked, and with it every other of its name.
LinksNext(r, n, t, module, field, letters, q, e, y) ==
  /\ module = r.native.m.functions[n].import.module /\ field = r.native.m.functions[n].import.field
  /\ e = Len(r.entries) + 1 /\ q = LinkFunction(r.native, module, field, letters, e) /\ Ok(q)
  /\ y.module = module /\ y.field = field
  /\ LinkParts(t, q, Append(r.entries, y), r.compiled) /\ t.bytes = r.bytes

LEMMA NextLinked ==
  ASSUME NEW r, NEW n, PartlyLinked(r, n), Listing(r), NEW t, NEW module, NEW field, NEW letters,
         NEW q, NEW e, NEW y, LinksNext(r, n, t, module, field, letters, q, e, y)
  PROVE  PartlyLinked(t, n + 1) /\ Listing(t)
<1>0. /\ module = r.native.m.functions[n].import.module /\ field = r.native.m.functions[n].import.field
      /\ e = Len(r.entries) + 1 /\ q = LinkFunction(r.native, module, field, letters, e) /\ Ok(q)
      /\ y.module = module /\ y.field = field
      /\ LinkParts(t, q, Append(r.entries, y), r.compiled) /\ t.bytes = r.bytes
  BY DEF LinksNext
<1>1. PICK p, a, b : p = r.native /\ a = r.entries /\ b = Append(a, y) /\ e = Len(a) + 1
  BY <1>0
<1>2. HasImports(p) /\ Ok(p) /\ IsSeq(a) /\ n \in Nat \ {0}
  BY <1>1 DEF PartlyLinked
<1>3. t.native = q /\ t.entries = b
  BY <1>0, <1>1 DEF LinkParts
<1>4. IsPushed(a, b, y)
  BY <1>1, <1>2, PushParts
<1>5. /\ IsSeq(b) /\ Len(a) \in Nat /\ Len(b) = e /\ e \in 1 .. Len(b) /\ b[e] = y
      /\ \A k \in 1 .. Len(a) : k \in 1 .. Len(b) /\ b[k] = a[k]
  <2>1. Len(a) \in Nat /\ e = Len(a) + 1
    BY ONLY <1>1, <1>2, SeqParts
  <2>2. IsSeq(b) /\ Len(b) = e /\ b[e] = y /\ \A k \in 1 .. Len(a) : b[k] = a[k]
    BY ONLY <1>4, <2>1 DEF IsPushed
  <2>3. e \in 1 .. e /\ \A k \in 1 .. Len(a) : k \in 1 .. e
    BY ONLY <2>1
  <2> QED
    BY ONLY <2>1, <2>2, <2>3
<1>6. PICK d : d = Len(p.m.functions)
  OBVIOUS
<1>7. WellFormed(p) /\ d \in Nat /\ p.m.imports \in Nat /\ p.m.imports <= d
  BY <1>2, <1>6, FunctionsLength DEF HasImports
<1>8. q = LinkFunction(p, module, field, letters, e) /\ Ok(q)
  BY <1>0, <1>1
<1>9. /\ WellFormed(q) /\ q.m.imports = p.m.imports /\ Len(q.m.functions) = d
      /\ DOMAIN p.m.globals \subseteq DOMAIN q.m.globals
      /\ \A f \in 1 .. d :
           /\ q.m.functions[f].import = p.m.functions[f].import
           /\ q.m.functions[f].stub = IF SameImport(p.m.functions[f], module, field) THEN e
                                      ELSE p.m.functions[f].stub
  <2>1. /\ WellFormed(q) /\ q.m.imports = p.m.imports /\ Len(q.m.functions) = Len(p.m.functions)
        /\ DOMAIN p.m.globals \subseteq DOMAIN q.m.globals
        /\ \A f \in 1 .. Len(p.m.functions) : q.m.functions[f].import = p.m.functions[f].import
        /\ Ok(q) => \A f \in 1 .. Len(p.m.functions) :
             q.m.functions[f].stub = IF SameImport(p.m.functions[f], module, field) THEN e
                                     ELSE p.m.functions[f].stub
    BY ONLY <1>2, <1>7, <1>8, FunctionLinked
  <2> QED
    BY ONLY <1>6, <1>8, <2>1
<1>10. HasImports(q)
  BY <1>7, <1>9 DEF HasImports
<1>11. ASSUME NEW f \in 1 .. p.m.imports, SameImport(p.m.functions[f], module, field)
       PROVE  LinkedTo(t, f)
  <2>1. f \in 1 .. d
    BY ONLY <1>7, f \in 1 .. p.m.imports
  <2>2. q.m.functions[f].stub = e /\ q.m.functions[f].import = p.m.functions[f].import
    BY <1>9, <1>11, <2>1
  <2>3. module \in {"*", p.m.functions[f].import.module} /\ field = p.m.functions[f].import.field
    BY <1>11 DEF SameImport
  <2> QED
    BY <1>0, <1>3, <1>5, <2>2, <2>3 DEF LinkedTo
<1>12. ASSUME NEW f \in 1 .. p.m.imports, LinkedTo(r, f)
       PROVE  LinkedTo(t, f)
  <2>1. CASE SameImport(p.m.functions[f], module, field)
    BY <1>11, <2>1
  <2>2. CASE ~SameImport(p.m.functions[f], module, field)
    <3>1. f \in 1 .. d
      BY ONLY <1>7, f \in 1 .. p.m.imports
    <3>2. /\ q.m.functions[f].stub = p.m.functions[f].stub
          /\ q.m.functions[f].import = p.m.functions[f].import
      BY <1>9, <2>2, <3>1
    <3>3. /\ p.m.functions[f].stub \in 1 .. Len(a)
          /\ a[p.m.functions[f].stub].module \in {"*", p.m.functions[f].import.module}
          /\ a[p.m.functions[f].stub].field = p.m.functions[f].import.field
      BY <1>1, <1>12 DEF LinkedTo
    <3>4. PICK x : x = p.m.functions[f].stub
      OBVIOUS
    <3>5. x \in 1 .. Len(b) /\ b[x] = a[x]
      BY <1>5, <3>3, <3>4
    <3> QED
      BY <1>3, <3>2, <3>3, <3>4, <3>5 DEF LinkedTo
  <2> QED
    BY <2>1, <2>2
<1>13. ASSUME NEW f \in 1 .. q.m.imports
       PROVE  /\ q.m.functions[f].import # NoImport
              /\ q.m.functions[f].stub = Unset \/ LinkedTo(t, f)
              /\ f < n + 1 => LinkedTo(t, f)
  <2>6. f \in 1 .. p.m.imports
    BY <1>9
  <2>1. f \in 1 .. p.m.imports /\ f \in 1 .. d
    BY ONLY <1>7, <2>6
  <2>2. /\ p.m.functions[f].import # NoImport
        /\ p.m.functions[f].stub = Unset \/ LinkedTo(r, f)
        /\ f < n => LinkedTo(r, f)
    BY <1>1, <2>1 DEF PartlyLinked
  <2>3. q.m.functions[f].import = p.m.functions[f].import
    BY <1>9, <2>1
  <2>4. q.m.functions[f].stub = Unset \/ LinkedTo(t, f)
    <3>1. CASE SameImport(p.m.functions[f], module, field)
      BY <1>11, <2>1, <3>1
    <3>2. CASE ~SameImport(p.m.functions[f], module, field)
      <4>1. q.m.functions[f].stub = p.m.functions[f].stub
        BY <1>9, <2>1, <3>2
      <4> QED
        BY <1>12, <2>1, <2>2, <4>1
    <3> QED
      BY <3>1, <3>2
  <2>5. ASSUME f < n + 1
        PROVE  LinkedTo(t, f)
    <3>1. CASE f < n
      BY <1>12, <2>1, <2>2, <3>1
    <3>2. CASE ~(f < n)
      <4>3. n \in Nat \ {0}
        BY <1>2
      <4>1. f = n
        BY ONLY <1>7, <4>3, <2>1, <2>5, <3>2
      <4>2. SameImport(p.m.functions[f], module, field)
        BY <1>0, <1>1, <2>2, <4>1 DEF SameImport
      <4> QED
        BY <1>11, <2>1, <4>2
    <3> QED
      BY <3>1, <3>2
  <2> QED
    BY <2>2, <2>3, <2>4, <2>5
<1>14. \A f \in 1 .. q.m.imports :
          /\ q.m.functions[f].import # NoImport
          /\ q.m.functions[f].stub = Unset \/ LinkedTo(t, f)
          /\ f < n + 1 => LinkedTo(t, f)
  BY ONLY <1>13
<1>15. n + 1 \in Nat \ {0}
  BY ONLY <1>2
<1>16. PICK m : m = n + 1
  OBVIOUS
<1>17. PartlyLinked(t, m)
  BY ONLY <1>0, <1>3, <1>5, <1>10, <1>14, <1>15, <1>16 DEF PartlyLinked
<1>18. Listing(t)
  BY ONLY <1>0, Listing(r), <1>1, <1>3, <1>6, <1>9 DEF Listing, CanExport, Exportable
<1> QED
  BY ONLY <1>16, <1>17, <1>18

LEMMA LinkLinks ==
  ASSUME NEW s, Good(inst, s), LinkInv(inst, s), s # <<>>, s[Len(s)].kind = "instantiate",
         s[Len(s)].at = "link", NEW fn, Link(s[Len(s)].id, fn, s), Good(inst', stack')
  PROVE  LinkInv(inst', stack')
<1>1. PICK n, f, i, r : n = Len(s) /\ f = s[n] /\ i = f.id /\ r = inst[i]
  OBVIOUS
<1>2. IsTop(inst, s, n, f) /\ Linking(r, "link", f.next)
  BY <1>1, TopLinking
<1>3. PICK g : g = r.native.m.functions[f.next]
  OBVIOUS
<1>4. PICK letters : letters = BuildSignature(TypeOf(r.native, g))
  OBVIOUS
<1>5. PICK linked : linked = LinkFunction(r.native, g.import.module, g.import.field, letters, Len(r.entries) + 1)
  OBVIOUS
<1>6. PICK y : y = [module |-> g.import.module, field |-> g.import.field, fn |-> fn]
  OBVIOUS
<1>7. IF Ok(linked)
      THEN /\ inst' = [inst EXCEPT ![i].native = linked, ![i].entries = Append(@, y)]
           /\ stack' = [s EXCEPT ![Len(s)].next = @ + 1]
      ELSE /\ inst' = [inst EXCEPT ![i] = Failed(@, linked, "link", Thrown("LinkError"))]
           /\ stack' = Caught(SubSeq(s, 1, Len(s) - 1), Classified(Thrown("LinkError")))
  BY <1>1, <1>3, <1>4, <1>5, <1>6, Zenon DEF Link
<1>8. r.compiled = NoImage /\ PartlyLinked(r, f.next) /\ r.bytes \in DOMAIN Binary /\ Listing(r)
  BY <1>2 DEF Linking
<1>9. i \in Id /\ inst = [j \in Id |-> inst[j]] /\ IsInstance(inst[i])
  BY <1>1, <1>2 DEF IsTop
<1>12. Loaded(linked) /\ linked.twice = FALSE
  <2>1. Loaded(r.native) /\ Ok(r.native)
    BY <1>2, <1>8 DEF Linking, Holds, PartlyLinked
  <2>2. PICK module, field, e : module = g.import.module /\ field = g.import.field /\ e = Len(r.entries) + 1
    OBVIOUS
  <2>3. linked = LinkFunction(r.native, module, field, letters, e)
    BY <1>5, <2>2
  <2>4. Loaded(linked)
    BY ONLY <2>1, <2>3, LoadedLinked
  <2> QED
    BY <2>4 DEF Loaded, Owns
<1>10. CASE Ok(linked)
  <2>1. PICK t : t = inst'[i]
    OBVIOUS
  <2>2. /\ OthersSame(inst, inst', i) /\ t.bytes = r.bytes
        /\ LinkParts(t, linked, Append(r.entries, y), r.compiled)
    <3>1. LinkChanged(inst, inst', i, linked, y)
      BY <1>7, <1>10 DEF LinkChanged
    <3> QED
      BY <1>1, <1>9, <2>1, <3>1, EntryParts
  <2>3. y.module = g.import.module /\ y.field = g.import.field
    BY <1>6
  <2>4. PICK module, field : module = g.import.module /\ field = g.import.field
    OBVIOUS
  <2>5. /\ linked = LinkFunction(r.native, module, field, letters, Len(r.entries) + 1)
        /\ module = r.native.m.functions[f.next].import.module
        /\ field = r.native.m.functions[f.next].import.field
        /\ y.module = module /\ y.field = field
    BY <1>3, <1>5, <2>3, <2>4
  <2>6. PartlyLinked(t, f.next + 1) /\ Listing(t)
    <3>1. PICK m : m = f.next
      OBVIOUS
    <3>2. PartlyLinked(r, m) /\ module = r.native.m.functions[m].import.module
          /\ field = r.native.m.functions[m].import.field
      BY ONLY <1>8, <2>5, <3>1
    <3>4. PICK e : e = Len(r.entries) + 1
      OBVIOUS
    <3>5. linked = LinkFunction(r.native, module, field, letters, e)
      BY ONLY <2>5, <3>4
    <3>6. LinksNext(r, m, t, module, field, letters, linked, e, y)
      BY ONLY <1>10, <2>2, <2>5, <3>2, <3>4, <3>5 DEF LinksNext
    <3>3. PartlyLinked(t, m + 1) /\ Listing(t)
      BY ONLY <1>8, <3>2, <3>6, NextLinked
    <3> QED
      BY ONLY <3>1, <3>3
  <2>7. t.compiled = NoImage
    BY <1>8, <2>2 DEF LinkParts
  <2>14. Holds(t.native, "link")
    BY <1>12, <2>2 DEF Holds, LinkParts
  <2>8. Linking(t, "link", f.next + 1)
    BY <1>8, <2>2, <2>6, <2>7, <2>14 DEF Linking
  <2>9. PICK a : a = NextSet(f, f.next + 1)
    OBVIOUS
  <2>10. SameFrame(f, a) /\ a.at = f.at /\ a.next = f.next + 1
    BY <1>2, <2>9, FrameChanges, NextChanges DEF IsTop
  <2>11. stack' = [s EXCEPT ![n] = a]
    BY <1>1, <1>7, <1>10, <2>9 DEF NextSet
  <2>12. a.id = i /\ a.at = "link"
    BY <1>1, <2>10 DEF SameFrame
  <2>13. /\ SameFrame(s[Len(s)], a) /\ OthersSame(inst, inst', a.id)
         /\ Linking(inst'[a.id], a.at, a.next)
    BY <1>1, <2>1, <2>2, <2>8, <2>10, <2>12
  <2> QED
    BY ONLY Good(inst, s), LinkInv(inst, s), s # <<>>, s[Len(s)].kind = "instantiate", Good(inst', stack'),
            <1>1, <2>11, <2>13, TopMoves
<1>11. CASE ~Ok(linked)
  <2>1. inst' = [inst EXCEPT ![i] = Failed(inst[i], linked, "link", Thrown("LinkError"))]
    BY <1>7, <1>11
  <2>2. Resting(inst, inst')
    BY <1>9, <1>12, <2>1, FailedRests DEF Releasable
  <2>3. Shape(s) /\ Len(s) - 1 \in 0 .. Len(s)
    BY BelowParts DEF Good
  <2>4. stack' = Caught(SubSeq(s, 1, Len(s) - 1), Classified(Thrown("LinkError")))
    BY <1>7, <1>11
  <2>5. Calm(s, stack', 0)
    BY <2>3, <2>4, LeaveCalm
  <2> QED
    BY <2>2, <2>5, QuietKeeps
<1> QED
  BY <1>10, <1>11

LEMMA ResolveImportLinks ==
  ASSUME StepMoves, NEW fn, ResolveImport(fn)
  PROVE  LinkInv(inst', stack')
<1>1. At("link") /\ Link(Top.id, fn, stack)
  BY DEF ResolveImport
<1>2. /\ stack # <<>> /\ stack[Len(stack)].kind = "instantiate" /\ stack[Len(stack)].at = "link"
      /\ Link(stack[Len(stack)].id, fn, stack)
  BY <1>1 DEF At, Top
<1> QED
  BY <1>2, LinkLinks DEF StepMoves

LEMMA JsReturnsLinks ==
  ASSUME StepMoves, JsReturns
  PROVE  LinkInv(inst', stack')
<1>1. stack # <<>> /\ Shape(stack) /\ Good(inst, stack) /\ LinkInv(inst, stack) /\ Good(inst', stack')
  BY DEF JsReturns, Good, StepMoves
<1>2. CASE Top.kind = "getter" /\ \E fn \in Functions \cup {Missing} : Link(Top.id, fn, Below)
  <2>1. PICK fn : Link(Top.id, fn, Below)
    BY <1>2
  <2>2. PICK n, b : n = Len(stack) /\ b = Below
    OBVIOUS
  <2>3. IsTop(inst, stack, n, Top)
    BY <1>1, <2>2, TopParts DEF Top
  <2>4. KindAt(stack, n) = "getter" /\ IdAt(stack, n) = Top.id /\ IsSeq(stack) /\ n \in 1 .. n
    BY <1>2, <2>3 DEF IsTop
  <2>5. /\ n \in Nat /\ n > 1 /\ KindAt(stack, n - 1) = "instantiate"
        /\ IdAt(stack, n - 1) = Top.id
    BY <1>1, <2>2, <2>4, TwoParts DEF JsKinds
  <2>6. StageAt(stack, n - 1) = "link"
    BY <1>1, <2>2, <2>4 DEF LinkInv, Getters
  <2>7. IsCut(stack, b, n - 1)
    <3>1. n - 1 \in 0 .. n
      BY <2>5
    <3> QED
      BY <2>2, <2>4, <3>1, CutParts DEF Below
  <2>8. b # <<>> /\ b[Len(b)] = stack[n - 1]
    <3>1. IsSeq(b) /\ Len(b) = n - 1 /\ n - 1 > 0 /\ n - 1 \in 1 .. n - 1
      BY <2>5, <2>7 DEF IsCut
    <3> QED
      BY <2>7, <3>1, SeqParts DEF IsCut
  <2>9. b[Len(b)].kind = "instantiate" /\ b[Len(b)].id = Top.id /\ b[Len(b)].at = "link"
    BY <2>5, <2>6, <2>8 DEF KindAt, IdAt, StageAt
  <2>10. Good(inst, b)
    BY <1>1, <1>2, <2>2, BelowKeeps
  <2>11. Calm(stack, b, 0) /\ Resting(inst, inst)
    BY <1>1, <2>2, BelowParts, AllRest DEF Below
  <2>12. LinkInv(inst, b)
    BY <1>1, <2>10, <2>11, QuietKeeps
  <2>13. Link(b[Len(b)].id, fn, b)
    BY <2>1, <2>2, <2>9
  <2> QED
    BY ONLY <1>1, <2>8, <2>9, <2>10, <2>12, <2>13, LinkLinks
<1>3. CASE Top.kind = "import" /\ stack' = Below /\ inst' = inst
  <2>1. Quiet(inst, stack, inst', stack')
    BY <1>1, <1>3, BelowQuiet
  <2> QED
    BY <1>1, <2>1, QuietKeeps DEF Quiet
<1> QED
  BY <1>2, <1>3 DEF JsReturns

-----------------------------------------------------------------------------
(* The bytes of instances and modules.                                     *)

\* The buffer holds some binary, and so does a module that has bytes of its own.
BytesKnown(bytes, module) ==
  /\ bytes \in DOMAIN Binary
  /\ module # NoModule /\ module.from # "buffer" => module.image \in DOMAIN Binary

LEMMA NothingReleased == Released(NoNative)
  BY DEF NoNative, NewEnvironment, Released

LEMMA BeginLinks ==
  ASSUME StepMoves, JsRuns, NEW i \in Id, NEW image \in DOMAIN Binary, NEW promise, NEW validated,
         Begin(i, image, promise, validated)
  PROVE  LinkInv(inst', stack')
<1>1. PICK r, f :
        /\ r = Begun(image, promise, validated)
        /\ f = Activation("instantiate", i, "create", <<>>)
  OBVIOUS
<1>2. inst' = [inst EXCEPT ![i] = r] /\ stack' = Append(stack, f)
  BY <1>1, Zenon DEF Begin, Begun
<1>3. r.bytes = image /\ r.compiled = NoImage /\ r.entries = <<>> /\ r.native = NoNative
  BY <1>1 DEF Begun, Unborn
<1>4. f.kind = "instantiate" /\ f.id = i /\ f.at = "create" /\ f.next = 1
  BY <1>1 DEF Activation
<1>5. Good(inst, stack) /\ LinkInv(inst, stack) /\ Good(inst', stack')
  BY DEF StepMoves
<1>6. IsSeq(stack) /\ inst = [j \in Id |-> inst[j]]
  BY <1>5 DEF Good, Shape
<1>7. IsPushed(stack, stack', f)
  BY <1>2, <1>6, PushParts
<1>8. PICK n : n = Len(stack')
  OBVIOUS
<1>9. n \in 1 .. Len(stack') /\ stack'[n] = f
  BY <1>6, <1>7, <1>8, SeqParts DEF IsPushed
<1>10. Calm(stack, stack', n)
  <2>1. f.kind # "getter"
    BY <1>4
  <2>2. Open(stack)
    BY <1>6, SeqParts DEF JsRuns, JsKinds, Top, Open
  <2> QED
    BY <1>6, <1>7, <1>8, <2>1, <2>2, PushCalm
<1>11. KindAt(stack', n) = "instantiate" /\ IdAt(stack', n) = i /\ StageAt(stack', n) = "create"
       /\ NextAt(stack', n) = 1
  BY <1>4, <1>9 DEF KindAt, IdAt, StageAt, NextAt
<1>12. inst'[i] = r /\ \A j \in Id : j # i => inst'[j] = inst[j]
  BY <1>2, <1>6
<1>13. Linking(r, "create", 1)
  <2>1. NoNative.twice = FALSE
    BY NothingReleased DEF Released
  <2> QED
    BY <1>3, <2>1 DEF Linking, Holds
<1>14. /\ \A j \in Id : j # IdAt(stack', n) => inst'[j] = inst[j]
       /\ Linking(inst'[IdAt(stack', n)], StageAt(stack', n), NextAt(stack', n))
  BY <1>11, <1>12, <1>13
<1> QED
  BY ONLY <1>5, <1>9, <1>10, <1>11, <1>14, ActiveKeeps

LEMMA NewInstanceLinks ==
  ASSUME StepMoves, BytesKnown(content, jsModule), NEW i \in Id, NewInstance(i)
  PROVE  LinkInv(inst', stack')
<1>1. PICK promise \in {"none", "pending"} :
        Begin(i, ModuleBytes, promise, IF jsModule.from = "view" THEN jsModule.image ELSE ModuleBytes)
  BY Zenon DEF NewInstance
<1>2. PICK validated, image :
        /\ validated = IF jsModule.from = "view" THEN jsModule.image ELSE ModuleBytes
        /\ image = ModuleBytes
  OBVIOUS
<1>3. Begin(i, image, promise, validated)
  BY <1>1, <1>2
<1>4. image \in DOMAIN Binary
  <2>1. jsModule # NoModule
    BY DEF NewInstance
  <2> QED
    BY <1>2, <2>1 DEF ModuleBytes, BytesKnown
<1> QED
  BY <1>3, <1>4, BeginLinks DEF NewInstance, Uses

LEMMA InstantiateLinks ==
  ASSUME StepMoves, BytesKnown(content, jsModule), NEW i \in Id, Instantiate(i)
  PROVE  LinkInv(inst', stack')
<1>1. PICK r : r = [Unborn EXCEPT !.status = "failed", !.error = Plain("CompileError"),
                      !.failed = "parse"]
  OBVIOUS
<1>2. Begin(i, content, "pending", content) \/ (inst' = [inst EXCEPT ![i] = r] /\ stack' = stack)
  BY <1>1, Zenon DEF Instantiate
<1>3. CASE Begin(i, content, "pending", content)
  BY <1>3, BeginLinks DEF BytesKnown, Instantiate, Uses
<1>4. CASE inst' = [inst EXCEPT ![i] = r] /\ stack' = stack
  <2>1. r.status = "failed" /\ r.native = NoNative
    BY <1>1 DEF Unborn
  <2>2. inst = [j \in Id |-> inst[j]]
    BY DEF StepMoves, Good
  <2>4. Ended(r)
    BY <2>1, NothingReleased DEF Ended
  <2>3. Resting(inst, inst')
    BY <1>4, <2>2, <2>4 DEF Resting
  <2> QED
    BY <1>4, <2>3, CalmSame, QuietKeeps DEF StepMoves
<1> QED
  BY <1>2, <1>3, <1>4

LEMMA QuietLinks ==
  ASSUME StepMoves, Quiet(inst, stack, inst', stack')
  PROVE  LinkInv(inst', stack')
  BY QuietKeeps DEF StepMoves, Quiet

LEMMA NativeLinks ==
  ASSUME StepMoves, NativeStep
  PROVE  LinkInv(inst', stack')
<1>1. Good(inst, stack) /\ LinkInv(inst, stack)
  BY DEF StepMoves
<1>2. CASE Create
  BY <1>2, CreateLinks
<1>3. CASE Parse
  BY <1>3, ParseLinks
<1>4. CASE Load
  BY <1>4, LoadLinks
<1>5. CASE \E fn \in Functions \cup {Missing} : ResolveImport(fn)
  BY <1>5, ResolveImportLinks
<1>6. CASE CallGetter
  BY <1>1, <1>6, CallGetterQuiet, QuietLinks
<1>7. CASE RefuseSignature
  <2>1. At("link") /\ Fails(Native, "link", Thrown("LinkError"))
    BY <1>7 DEF RefuseSignature
  <2>2. stack # <<>>
    BY <2>1 DEF At
  <2>3. Releasable(Native)
    BY <1>1, <2>1, AtLoaded
  <2> QED
    BY <2>1, <2>2, <2>3, FailsMoves
<1>8. CASE Linked
  BY <1>8, LinkedLinks
<1>9. CASE Compile
  BY <1>9, CompileLinks
<1>10. CASE Start
  BY <1>10, StartLinks
<1>11. CASE Publish
  BY <1>11, PublishLinks
<1>12. CASE RunTraps
  <2>1. stack # <<>> /\ Top.kind = "run" /\ Raise(Thrown("RuntimeError"))
    BY <1>12 DEF RunTraps, Runs
  <2> QED
    BY <1>1, <2>1, RaiseQuiet, QuietLinks
<1>13. CASE CallImport
  BY <1>1, <1>13, CallImportQuiet, QuietLinks
<1>14. CASE RunReturns
  <2>1. stack # <<>> /\ stack' = Below /\ inst' = inst
    BY <1>14 DEF RunReturns, Runs
  <2> QED
    BY <1>1, <2>1, BelowQuiet, QuietLinks
<1> QED
  BY <1>2, <1>3, <1>4, <1>5, <1>6, <1>7, <1>8, <1>9, <1>10, <1>11, <1>12, <1>13, <1>14 DEF NativeStep

LEMMA JsLinks ==
  ASSUME StepMoves, JsLeaves \/ JsActs
  PROVE  LinkInv(inst', stack')
<1>1. Good(inst, stack) /\ LinkInv(inst, stack)
  BY DEF StepMoves
<1>2. CASE JsReturns
  BY <1>2, JsReturnsLinks
<1>3. CASE JsThrows
  BY <1>1, <1>3, JsThrowsQuiet, QuietLinks
<1>4. CASE WriteBuffer
  BY <1>4 DEF WriteBuffer, StepMoves
<1>5. ASSUME NEW i \in Id, CallExport(i)
      PROVE  LinkInv(inst', stack')
  BY <1>1, <1>5, CallExportQuiet, QuietLinks
<1>6. ASSUME NEW i \in Id, Collect(i)
      PROVE  LinkInv(inst', stack')
  BY <1>1, <1>6, CollectQuiet, QuietLinks
<1> QED
  BY <1>2, <1>3, <1>4, <1>5, <1>6 DEF JsLeaves, JsActs

\* What instances do leaves the JS side's bytes and modules alone.
LEMMA BytesStay ==
  ASSUME BytesKnown(content, jsModule), Next
  PROVE  BytesKnown(content', jsModule')
<1>1. CASE ImportPackage
  BY <1>1 DEF ImportPackage, instanceVars
<1>2. CASE Reload
  BY <1>2 DEF Reload, BytesKnown
<1>3. CASE NewModule
  <2>1. /\ content' = content
        /\ \/ jsModule' = jsModule
           \/ jsModule' \in {[from |-> "buffer", image |-> NoImage], [from |-> "view", image |-> content]}
    BY <1>3, Zenon DEF NewModule
  <2> QED
    BY <2>1 DEF BytesKnown
<1>4. CASE \E i \in Id : NewInstance(i) \/ Instantiate(i)
  <2>1. content' = content /\ jsModule' = jsModule
    BY <1>4 DEF NewInstance, Instantiate
  <2> QED
    BY <2>1
<1>5. CASE NativeActs
  <2>1. content' = content /\ jsModule' = jsModule
    BY <1>5 DEF NativeActs, OfInstances, NativeStep, Create, Parse, Load, ResolveImport, CallGetter,
                RefuseSignature, Linked, Compile, Start, Publish, RunTraps, CallImport, RunReturns
  <2> QED
    BY <2>1
<1>6. CASE JsFinishes
  <2>1. content' = content /\ jsModule' = jsModule
    BY <1>6 DEF JsFinishes, OfInstances, JsLeaves, JsReturns, JsThrows
  <2> QED
    BY <2>1
<1>7. CASE OfInstances(JsActs)
  <2>1. jsModule' = jsModule /\ (content' = content \/ content' \in Rewrites)
    BY <1>7 DEF OfInstances, JsActs, WriteBuffer, CallExport, Collect
  <2>2. Rewrites \subseteq DOMAIN Binary
    BY ImageAssumption
  <2> QED
    BY <2>1, <2>2 DEF BytesKnown
<1> QED
  BY <1>1, <1>2, <1>3, <1>4, <1>5, <1>6, <1>7 DEF Next

\* What is validated is released.
LEMMA ContentReleased ==
  ASSUME BytesKnown(content, jsModule)
  PROVE  Discarded(Validated[content]) \subseteq Leaked
<1>1. content \in DOMAIN Binary
  BY DEF BytesKnown
<1>2. PICK image : image = Binary[content]
  OBVIOUS
<1>3. IsImage(image)
  BY <1>1, <1>2, ImageAssumption
<1>4. Validated[content] = ParseModule(NewEnvironment, image)
  BY <1>1, <1>2, Zenon DEF Validated
<1> QED
  BY <1>3, <1>4, ValidatedReleased

LEMMA NothingLost ==
  ASSUME BytesKnown(content, jsModule), lost \subseteq Leaked, Next
  PROVE  lost' \subseteq Leaked
<1>1. PICK more : more = Discarded(Validated[content])
  OBVIOUS
<1>2. more \subseteq Leaked
  BY <1>1, ContentReleased
<1>3. lost' = lost \/ lost' = lost \cup more
  <2>1. ASSUME ImportPackage \/ Reload
        PROVE  lost' = lost
    BY <2>1 DEF ImportPackage, Reload
  <2>2. ASSUME NewModule
        PROVE  lost' = lost \cup more
    BY <1>1, <2>2, Zenon DEF NewModule
  <2>3. ASSUME NEW i \in Id, NewInstance(i) \/ Instantiate(i)
        PROVE  lost' = lost \/ lost' = lost \cup more
    <3>1. CASE NewInstance(i)
      BY <3>1 DEF NewInstance
    <3>2. CASE Instantiate(i)
      BY <1>1, <3>2, Zenon DEF Instantiate
    <3> QED
      BY <2>3, <3>1, <3>2
  <2>4. ASSUME NativeActs \/ JsFinishes \/ OfInstances(JsActs)
        PROVE  lost' = lost
    BY <2>4 DEF NativeActs, JsFinishes, OfInstances
  <2> QED
    BY <2>1, <2>2, <2>3, <2>4 DEF Next
<1> QED
  BY <1>2, <1>3

LinksInv == LinkInv(inst, stack) /\ BytesKnown(content, jsModule) /\ lost \subseteq Leaked

LEMMA InitLinks ==
  ASSUME Init
  PROVE  LinksInv
<1>1. inst = [i \in Id |-> Unborn] /\ stack = <<>> /\ jsModule = NoModule
  BY DEF Init
<1>2. Unborn.status = "free" /\ 1 .. Len(stack) = {} /\ Unborn.native = NoNative
  BY <1>1, UnbornParts DEF Unborn
<1>3. LinkInv(inst, stack)
  BY <1>1, <1>2, NothingReleased DEF LinkInv, Getters, Waits
<1>4. content \in DOMAIN Binary
  BY ImageAssumption DEF Init
<1>5. lost \subseteq Leaked
  BY DEF Init
<1> QED
  BY <1>1, <1>3, <1>4, <1>5 DEF LinksInv, BytesKnown

LEMMA NextLinks ==
  ASSUME Inv, LinksInv, [Next]_vars, Inv'
  PROVE  LinksInv'
<1>1. /\ StepMoves /\ Good(inst, stack) /\ LinkInv(inst, stack) /\ BytesKnown(content, jsModule)
      /\ lost \subseteq Leaked
  BY DEF StepMoves, Inv, LinksInv
<1>2. CASE UNCHANGED vars
  BY <1>2 DEF vars, instanceVars, LinksInv
<1>3. CASE Next
  <2>1. BytesKnown(content', jsModule') /\ lost' \subseteq Leaked
    BY <1>1, <1>3, BytesStay, NothingLost
  <2>2. LinkInv(inst', stack')
    <3>1. CASE ImportPackage
      <4>1. inst' = inst /\ stack' = stack
        BY <3>1 DEF ImportPackage, instanceVars
      <4> QED
        BY <1>1, <4>1 DEF StepMoves
    <3>2. CASE Reload
      BY <1>1, <3>2, ReloadQuiet, QuietLinks
    <3>3. CASE NewModule
      BY <1>1, <3>3, NewModuleQuiet, QuietLinks
    <3>4. ASSUME NEW i \in Id, NewInstance(i) \/ Instantiate(i)
          PROVE  LinkInv(inst', stack')
      BY <1>1, <3>4, NewInstanceLinks, InstantiateLinks
    <3>5. CASE NativeActs
      BY <1>1, <3>5, NativeLinks DEF NativeActs, OfInstances
    <3>6. CASE JsFinishes
      BY <1>1, <3>6, JsLinks DEF JsFinishes, OfInstances
    <3>7. CASE OfInstances(JsActs)
      BY <1>1, <3>7, JsLinks DEF OfInstances
    <3> QED
      BY <1>3, <3>1, <3>2, <3>3, <3>4, <3>5, <3>6, <3>7 DEF Next
  <2> QED
    BY <2>1, <2>2 DEF LinksInv
<1> QED
  BY <1>2, <1>3

LEMMA ImportsOfLinks ==
  ASSUME Inv, LinksInv
  PROVE  ImportsLinked
<1>1. Good(inst, stack) /\ LinkInv(inst, stack)
  BY DEF Inv, LinksInv
<1>2. ASSUME NEW i \in Id, inst[i].compiled # NoImage, inst[i].status \in {"building", "live"}
      PROVE  AllLinked(inst[i])
  <2>1. CASE inst[i].status = "live"
    BY <1>1, <2>1 DEF LinkInv
  <2>2. CASE inst[i].status = "building"
    <3>1. PICK k \in 1 .. Len(stack) : Builds(stack, k, i)
      BY <1>1, <2>2 DEF Good, Matches, IsBuilt
    <3>2. KindAt(stack, k) = "instantiate" /\ IdAt(stack, k) = i
      BY <3>1 DEF Builds
    <3>3. Linking(inst[i], StageAt(stack, k), NextAt(stack, k))
      BY <1>1, <3>2 DEF LinkInv
    <3>4. StageAt(stack, k) \in Stage
      BY <1>1, <3>2 DEF Good, Shape, Fits
    <3> QED
      BY <1>2, <3>3, <3>4 DEF Linking, Stage
  <2> QED
    BY <1>2, <2>1, <2>2
<1> QED
  BY <1>2 DEF ImportsLinked, AllLinked, LinkedTo

\* While wasm may run, the start function of an instance that is still being built
\* included, every import calls an entry of its own instance that was made for its
\* module and field: whatever the getters and imports that run in between do, and
\* whatever the bytes are (m3_bind.c:133-150, react-native-webassembly.cpp:852).
THEOREM ImportsAreLinked == Spec => []ImportsLinked
<1>1. Init => Inv /\ LinksInv
  BY InitInv, InitLinks
<1>2. (Inv /\ LinksInv) /\ [Next]_vars => (Inv /\ LinksInv)'
  BY NextKeeps, NextLinks
<1>3. Inv /\ LinksInv => ImportsLinked
  BY ImportsOfLinks
<1> QED
  BY <1>1, <1>2, <1>3, PTL DEF Spec

LEMMA ExportsOfLinks ==
  ASSUME LinksInv
  PROVE  ExportsListed
<1>1. \A i \in Id : inst[i].status = "live" => AsListed(inst[i])
  BY DEF LinksInv, LinkInv
<1> QED
  BY <1>1, Zenon DEF ExportsListed, AsListed

\* The exports object of a live instance has everything Module.exports lists, under
\* all its names and with its kind and index, but for a memory of no pages and a
\* table that is not the first; and it has nothing else but a memory the binary does
\* not export: whatever the bytes are, and whatever JS runs between the parser's
\* reading of them and the binding's own (react-native-webassembly.cpp:609, :909).
THEOREM ExportsAreListed == Spec => []ExportsListed
<1>1. Init => Inv /\ LinksInv
  BY InitInv, InitLinks
<1>2. (Inv /\ LinksInv) /\ [Next]_vars => (Inv /\ LinksInv)'
  BY NextKeeps, NextLinks
<1>3. Inv /\ LinksInv => ExportsListed
  BY ExportsOfLinks
<1> QED
  BY <1>1, <1>2, <1>3, PTL DEF Spec

LEMMA FreedOfLinks ==
  ASSUME Inv, LinksInv
  PROVE  FreedOnce
<1>1. Good(inst, stack) /\ LinkInv(inst, stack) /\ lost \subseteq Leaked
  BY DEF Inv, LinksInv
<1>2. ASSUME NEW i \in Id
      PROVE  /\ ~inst[i].native.twice
             /\ inst[i].status \in {"failed", "gone"} => inst[i].native.heap \subseteq Leaked
  <2>1. CASE inst[i].status = "building"
    <3>1. PICK k \in 1 .. Len(stack) : Builds(stack, k, i)
      BY <1>1, <2>1 DEF Good, Matches, IsBuilt
    <3>2. Linking(inst[i], StageAt(stack, k), NextAt(stack, k))
      BY <1>1, <3>1 DEF LinkInv, Builds
    <3> QED
      BY <2>1, <3>2 DEF Linking, Holds
  <2>2. CASE inst[i].status = "live"
    <3>1. inst[i].native.twice = FALSE
      BY <1>1, <2>2 DEF LinkInv, Loaded, Owns
    <3> QED
      BY <2>2, <3>1
  <2>3. CASE inst[i].status \notin {"building", "live"}
    BY <1>1, <2>3 DEF LinkInv, Released
  <2> QED
    BY <2>1, <2>2, <2>3
<1> QED
  BY <1>1, <1>2 DEF FreedOnce

\* Whatever the bytes are and at whatever step an instantiation fails, of itself or by
\* what JS does in the middle of it, and for an instance that is collected or goes with
\* its runtime: every block of its environment, runtime and module is freed, and none
\* is freed twice, but for what a failed name section leaves; and nothing is left of what
\* was only validated (react-native-webassembly.cpp:64, :822-832; m3_module.c:22).
THEOREM ResourcesFreedOnce == Spec => []FreedOnce
<1>1. Init => Inv /\ LinksInv
  BY InitInv, InitLinks
<1>2. (Inv /\ LinksInv) /\ [Next]_vars => (Inv /\ LinksInv)'
  BY NextKeeps, NextLinks
<1>3. Inv /\ LinksInv => FreedOnce
  BY FreedOfLinks
<1> QED
  BY <1>1, <1>2, <1>3, PTL DEF Spec
=============================================================================
