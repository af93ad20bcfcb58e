--------------------------- MODULE CodePagesProofs ---------------------------
(***************************************************************************)
(* Proofs about CodePages, for every size of page, operation and br_table  *)
(* and every number of pages, fragments and nested blocks.                 *)
(***************************************************************************)
EXTENDS CodePages, FiniteSetTheorems, SequenceTheorems, WellFoundedInduction, TLAPS

-----------------------------------------------------------------------------
(* What the inductive invariant reads: of a pool s, of code c, of contexts *)
(* cs, of entries st, of a destination l.  The provers see no more than    *)
(* the names.                                                              *)

Open(s, rt)    == s.open[rt]
Full(s, rt)    == s.full[rt]
Count(s, rt)   == s.active[rt]
Total(s, rt)   == s.total[rt]
Pages(s)       == s.allocated
Returned(s)    == s.released
Capacity(s, p) == s.lines[p]
Torn(s)        == s.torn
CodeOf(s)      == s.code

Size(c, p)     == Len(c[p])
Owner(c, p, i) == c[p][i].of
Jump(c, p, i)  == c[p][i].to
Ends(c, p, i)  == c[p][i].ends

Frag(cs, i)    == cs[i].frag
At(cs, i)      == cs[i].page
KindOf(cs, i)  == cs[i].kind
Table(cs, i)   == cs[i].table

Entry(st, f)   == st[f]

PageOf(l)      == l.page
LineOf(l)      == l.line
FragOf(l)      == l.of

-----------------------------------------------------------------------------
(* The inductive invariant, about any pool s, contexts cs, entries st and  *)
(* number of fragments n, as an operation of the compiler goes through     *)
(* several of them.                                                        *)

ListName == {"open", "full", "temp open", "temp full", "released"}

\* The lists a page may be on.
Lists(s) == [l \in ListName |->
  IF l = "open" THEN Open(s, "main") ELSE IF l = "full" THEN Full(s, "main")
  ELSE IF l = "temp open" THEN Open(s, "temp") ELSE IF l = "temp full" THEN Full(s, "temp")
  ELSE Returned(s)]

\* No page is on two lists of L, or twice on one.
Apart(L) ==
  \A l, m \in ListName : \A i \in DOMAIN L[l] : \A j \in DOMAIN L[m] :
    L[l][i] = L[m][j] => l = m /\ i = j

Listed(L, p) == \E l \in ListName : \E i \in DOMAIN L[l] : L[l][i] = p

PoolType ==
  [open : [Runtime -> Seq(Page)], full : [Runtime -> Seq(Page)],
   active : [Runtime -> Int], total : [Runtime -> Nat],
   allocated : SUBSET Page, released : Seq(Page),
   lines : [Page -> Nat], code : [Page -> Seq(Line)], torn : BOOLEAN]

Accounted(s) ==
  \A rt \in Runtime : Len(Open(s, rt)) + Len(Full(s, rt)) + Count(s, rt) = Total(s, rt)

\* Pages are allocated in order; the rest is as malloc will find it.
Allocated(s) ==
  /\ \E n \in 0 .. MaxPages : Pages(s) = 1 .. n
  /\ \A p \in Page \ Pages(s) : Size(CodeOf(s), p) = 0

\* No line is beyond the end of its page, if every operation could be written, and
\* none on a page the environment has.
Lined(s) ==
  /\ ~Torn(s) => \A p \in Pages(s) : Size(CodeOf(s), p) <= Capacity(s, p)
  /\ \A i \in DOMAIN Returned(s) : Size(CodeOf(s), Returned(s)[i]) = 0

\* The pages in held are out of the lists.
Placed(s, held) ==
  /\ s \in PoolType
  /\ Apart(Lists(s))
  /\ \A p \in Page : Listed(Lists(s), p) => p \in Pages(s)
  /\ held \subseteq Pages(s)
  /\ \A p \in held : ~Listed(Lists(s), p)
  /\ Accounted(s) /\ Allocated(s) /\ Lined(s)

Kind == {"function", "expression", "else", "target"}

Tables == 0 .. MaxTargets + 1

ContextType == [frag : Fragment, kind : Kind, page : Page, table : Tables]

Held(cs) == {At(cs, i) : i \in 1 .. Len(cs)}

\* The runtime whose pages are written on.
RtOf(ph)    == IF ph = "loading" THEN "temp" ELSE "main"
OtherRt(ph) == IF ph = "loading" THEN "main" ELSE "temp"

NoTemp(s) == Open(s, "temp") = <<>> /\ Full(s, "temp") = <<>>

InTemp(s, p) ==
  \/ \E i \in DOMAIN Open(s, "temp") : Open(s, "temp")[i] = p
  \/ \E i \in DOMAIN Full(s, "temp") : Full(s, "temp")[i] = p

\* While the instance is built; as long as m3_LoadModule runs there is no code but
\* the expression's.
Storage(ph, s, held) ==
  /\ Placed(s, held)
  /\ Count(s, OtherRt(ph)) = 0
  /\ ph # "loading" => NoTemp(s)
  /\ ph = "loading" => /\ Open(s, "main") = <<>> /\ Full(s, "main") = <<>>
                       /\ \A p \in Page : Size(CodeOf(s), p) # 0 => p \in held \/ InTemp(s, p)

\* A function or an expression, in it else blocks, in one with an open table a target.
Nesting(cs) ==
  /\ \A i \in 1 .. Len(cs) :
       /\ KindOf(cs, i) \in {"function", "expression"} <=> i = 1
       /\ Table(cs, i) > 0 => KindOf(cs, i) \in {"function", "else"}
  /\ \A i \in 1 .. Len(cs) - 1 :
       /\ KindOf(cs, i) \in {"function", "else"}
       /\ Table(cs, i) > 0 <=> KindOf(cs, i + 1) = "target"

\* Each on a page of its own.
Separate(cs) ==
  /\ \A i, j \in 1 .. Len(cs) : At(cs, i) = At(cs, j) => i = j
  /\ \A i, j \in 1 .. Len(cs) : Frag(cs, i) = Frag(cs, j) => i = j

\* With room for the rest of a table and a bridge, if every operation could be written.
Ample(s, p, n) == ~Torn(s) => FreeLines(s, p) >= n

Room(s, cs) == \A i \in 1 .. Len(cs) : Ample(s, At(cs, i), 2 + Table(cs, i))

\* f is compiled on page p.
On(cs, f, p) == \E i \in 1 .. Len(cs) : Frag(cs, i) = f /\ At(cs, i) = p

\* After k lines of page p the code of f goes on.
GoesOn(c, cs, p, k, f) ==
  IF k < Size(c, p) THEN Owner(c, p, k + 1) = f ELSE On(cs, f, p) /\ k = Size(c, p)

Reaches(c, cs, l) == GoesOn(c, cs, PageOf(l), LineOf(l), FragOf(l))

\* JumpsLand and FallsThrough.
Joined(c, cs, st) ==
  /\ \A f \in Fragment : Entry(st, f) # Nowhere => /\ FragOf(Entry(st, f)) = f
                                                   /\ Reaches(c, cs, Entry(st, f))
  /\ \A p \in Page : \A i \in 1 .. Size(c, p) :
       /\ Jump(c, p, i) # Nowhere => Reaches(c, cs, Jump(c, p, i))
       /\ ~Ends(c, p, i) => GoesOn(c, cs, p, i, Owner(c, p, i))

\* Nothing is f's, nor leads to it.
Unwritten(c, f) ==
  \A p \in Page : \A i \in 1 .. Size(c, p) :
    /\ Owner(c, p, i) # f
    /\ Jump(c, p, i) # Nowhere => FragOf(Jump(c, p, i)) # f

\* An open fragment has begun to write, or if a target, there is nothing of it.
BegunBy(c, st, f, kind) ==
  LET l == Entry(st, f) IN
  /\ l # Nowhere /\ FragOf(l) = f /\ LineOf(l) <= Size(c, PageOf(l))
  /\ kind = "target" /\ LineOf(l) = Size(c, PageOf(l)) => Unwritten(c, f)

Begun(c, cs, st) == \A i \in 1 .. Len(cs) : BegunBy(c, st, Frag(cs, i), KindOf(cs, i))

\* Nothing is known of fragments to come.
Numbered(c, cs, n) ==
  /\ \A f \in Fragment : f > n => Unwritten(c, f)
  /\ \A i \in 1 .. Len(cs) : Frag(cs, i) <= n

Sound(c, cs, st, n) == Joined(c, cs, st) /\ Begun(c, cs, st) /\ Numbered(c, cs, n)

Shape(ph, cs) ==
  /\ Separate(cs) /\ Nesting(cs)
  /\ cs # <<>> => KindOf(cs, 1) = (IF ph = "loading" THEN "expression" ELSE "function")

\* No fragment but those being compiled has an entry.
Known(cs, st) == \A f \in Fragment : Entry(st, f) # Nowhere => \E i \in 1 .. Len(cs) : Frag(cs, i) = f

Types ==
  /\ phase \in {"loading", "linking", "compiling", "live", "failed", "released"}
  /\ contexts \in Seq(ContextType)
  /\ start \in [Fragment -> Destination]
  /\ fragments \in 0 .. MaxFragments

\* While the instance is built.
Building(ph, s, cs, st, n) ==
  /\ Storage(ph, s, Held(cs)) /\ Count(s, RtOf(ph)) = Len(cs) /\ Room(s, cs)
  /\ Shape(ph, cs) /\ Sound(CodeOf(s), cs, st, n)
  /\ ph = "loading" => Known(cs, st)
  /\ cs = <<>> => NoTemp(s)

\* After a failure.
Failed(s) ==
  /\ Placed(s, {}) /\ NoTemp(s)
  /\ Count(s, "temp") = 0 /\ Count(s, "main") \in {0, 1}

\* After the end.
Ended(s) ==
  /\ s \in PoolType /\ Count(s, "main") \in {0, 1} /\ Count(s, "temp") = 0
  /\ \A l \in ListName : Lists(s)[l] = <<>>
  /\ ~Torn(s) => \A p \in Pages(s) : Size(CodeOf(s), p) <= Capacity(s, p)

Inv ==
  /\ Types
  /\ phase = "failed" => contexts = <<>> /\ Failed(pool)
  /\ phase = "released" => contexts = <<>> /\ Ended(pool)
  /\ phase \notin {"failed", "released"} => Building(phase, pool, contexts, start, fragments)

-----------------------------------------------------------------------------
(* Numbers and sequences.                                                  *)

\* Every set of naturals has a least element.
LEMMA LeastNumber ==
  ASSUME NEW T \in SUBSET Nat, T # {}
  PROVE  \E m \in T : \A n \in T : m <= n
<1> DEFINE R == {p \in Nat \X Nat : p[1] < p[2]}
<1>1. IsWellFoundedOn(R, Nat)
  <2>1. OpToRel(<, Nat) = R
    BY DEF OpToRel
  <2> QED
    BY <2>1, NatLessThanWellFounded
<1>2. PICK m \in T : \A n \in T : ~(<<n, m>> \in R)
  <2> HIDE DEF R
  <2> QED
    BY <1>1, WFMin
<1>3. ASSUME NEW n \in T
      PROVE  m <= n
  <2>1. m \in Nat /\ n \in Nat /\ <<n, m>> \in Nat \X Nat
    OBVIOUS
  <2>2. ~(n < m)
    BY <1>2, <2>1
  <2> QED
    BY <2>1, <2>2
<1> QED
  BY <1>3

\* Induction: a set with 0 and the successors of its naturals has them all.
LEMMA Induction ==
  ASSUME NEW S, 0 \in S, \A n \in Nat : n \in S => n + 1 \in S
  PROVE  Nat \subseteq S
<1> DEFINE T == {n \in Nat : n \notin S}
<1>1. SUFFICES ASSUME T # {} PROVE FALSE
  OBVIOUS
<1>2. PICK m \in T : \A n \in T : m <= n
  <2>1. T \in SUBSET Nat
    OBVIOUS
  <2> HIDE DEF T
  <2> QED
    BY <1>1, <2>1, LeastNumber
<1>3. m # 0 /\ m \in Nat
  BY <1>2
<1>4. m - 1 \in Nat /\ m - 1 \notin T
  BY <1>2, <1>3
<1>5. m - 1 \in S
  BY <1>4
<1> QED
  BY <1>3, <1>4, <1>5

\* Where Max and Min of a set of indices are.
LEMMA Extremes ==
  ASSUME NEW n \in Nat, NEW t \in SUBSET (1 .. n), t # {}
  PROVE  /\ Max(t) \in t /\ \A y \in t : y <= Max(t)
         /\ Min(t) \in t
<1>1. t \in SUBSET Nat
  OBVIOUS
<1>2. \E x \in t : \A y \in t : x =< y
  BY <1>1, LeastNumber
<1>3. Min(t) \in t
  BY <1>2 DEF Min
<1> DEFINE U == {n - x : x \in t}
<1>4. U \in SUBSET Nat /\ U # {}
  <2>1. \A x \in t : n - x \in Nat
    OBVIOUS
  <2> QED
    BY <2>1
<1>5. PICK m \in U : \A k \in U : m <= k
  <2> HIDE DEF U
  <2> QED
    BY <1>4, LeastNumber
<1>6. PICK x \in t : m = n - x
  BY <1>5
<1>7. ASSUME NEW y \in t
      PROVE  x >= y
  <2>1. n - y \in U
    OBVIOUS
  <2>2. n - x <= n - y
    BY <1>5, <1>6, <2>1
  <2>3. x \in Int /\ y \in Int
    OBVIOUS
  <2> QED
    BY <2>2, <2>3
<1>8. \A y \in t : Max(t) >= y /\ Max(t) \in t
  BY <1>7 DEF Max
<1> HIDE DEF U
<1>9. \A y \in t : y \in Int
  OBVIOUS
<1>10. Max(t) \in Int
  BY <1>8, <1>9
<1> QED
  BY <1>3, <1>8, <1>9, <1>10

\* What is left when the element at x is taken out.
LEMMA Removed ==
  ASSUME NEW S, NEW s \in Seq(S), NEW x \in 1 .. Len(s)
  PROVE  LET r == RemoveAt(s, x) IN
         /\ r \in Seq(S) /\ Len(r) = Len(s) - 1
         /\ \A i \in 1 .. Len(s) - 1 : r[i] = IF i < x THEN s[i] ELSE s[i + 1]
<1> DEFINE a == SubSeq(s, 1, x - 1)
           b == SubSeq(s, x + 1, Len(s))
<1>1. Len(s) \in Nat /\ x \in Nat /\ \A i \in 1 .. Len(s) : s[i] \in S
  BY ElementOfSeq
<1>2. a \in Seq(S) /\ Len(a) = x - 1 /\ \A i \in 1 .. x - 1 : a[i] = s[i]
  BY <1>1
<1>3. b \in Seq(S) /\ Len(b) = Len(s) - x /\ \A i \in 1 .. Len(s) - x : b[i] = s[x + i]
  BY <1>1
<1> HIDE DEF a, b
<1>4. /\ a \o b \in Seq(S) /\ Len(a \o b) = Len(s) - 1
      /\ \A i \in 1 .. Len(s) - 1 : (a \o b)[i] = IF i < x THEN a[i] ELSE b[i - (x - 1)]
  BY <1>1, <1>2, <1>3, ConcatProperties
<1>5. ASSUME NEW i \in 1 .. Len(s) - 1, ~(i < x)
      PROVE  b[i - (x - 1)] = s[i + 1]
  <2>1. i - (x - 1) \in 1 .. Len(s) - x /\ x + (i - (x - 1)) = i + 1
    BY <1>1, <1>5
  <2> QED
    BY <1>3, <2>1
<1>6. RemoveAt(s, x) = a \o b
  BY DEF RemoveAt, a, b
<1> QED
  BY <1>1, <1>2, <1>4, <1>5, <1>6

-----------------------------------------------------------------------------
(* The lists.                                                              *)

Changed(F, k, l) == [F EXCEPT ![k] = l]

\* A page taken out of its list is on none.
LEMMA Dropped ==
  ASSUME NEW F \in [ListName -> Seq(Page)], NEW k \in ListName, NEW x \in 1 .. Len(F[k]),
         Apart(F), NEW G, G = Changed(F, k, RemoveAt(F[k], x))
  PROVE  /\ G \in [ListName -> Seq(Page)] /\ Apart(G)
         /\ ~Listed(G, F[k][x])
         /\ \A p : Listed(G, p) => Listed(F, p)
<1>1. F[k] \in Seq(Page)
  OBVIOUS
<1>2. /\ G[k] \in Seq(Page) /\ Len(G[k]) = Len(F[k]) - 1
      /\ \A i \in 1 .. Len(F[k]) - 1 : G[k][i] = IF i < x THEN F[k][i] ELSE F[k][i + 1]
  BY <1>1, Removed DEF Changed
<1>3. G \in [ListName -> Seq(Page)] /\ \A l \in ListName : l # k => G[l] = F[l]
  BY <1>2 DEF Changed
<1> DEFINE From(l, i) == IF l = k /\ i >= x THEN i + 1 ELSE i
<1>4. ASSUME NEW l \in ListName, NEW i \in DOMAIN G[l]
      PROVE  /\ From(l, i) \in DOMAIN F[l] /\ G[l][i] = F[l][From(l, i)]
             /\ ~(l = k /\ From(l, i) = x) /\ i \in Int
  <2>1. DOMAIN G[l] = 1 .. Len(G[l]) /\ DOMAIN F[l] = 1 .. Len(F[l]) /\ Len(F[l]) \in Nat /\ x \in Nat
    BY <1>3
  <2> QED
    BY <1>2, <1>3, <2>1
<1>5. ASSUME NEW l \in ListName, NEW m \in ListName, NEW i \in DOMAIN G[l], NEW j \in DOMAIN G[m],
             G[l][i] = G[m][j]
      PROVE  l = m /\ i = j
  <2>1. F[l][From(l, i)] = F[m][From(m, j)] /\ From(l, i) \in DOMAIN F[l] /\ From(m, j) \in DOMAIN F[m]
    BY <1>4, <1>5
  <2>2. l = m /\ From(l, i) = From(m, j)
    <3> HIDE DEF From
    <3> QED
      BY <2>1 DEF Apart
  <2>3. i \in Int /\ j \in Int /\ x \in Int
    BY <1>4
  <2> QED
    BY <2>2, <2>3
<1>6. Apart(G)
  BY <1>5 DEF Apart
<1>7. ASSUME NEW l \in ListName, NEW i \in DOMAIN G[l]
      PROVE  G[l][i] # F[k][x]
  <2>1. x \in DOMAIN F[k]
    BY <1>1
  <2> HIDE DEF From
  <2> QED
    BY <1>4, <2>1 DEF Apart
<1>8. \A p : Listed(G, p) => Listed(F, p)
  <2> HIDE DEF From
  <2> QED
    BY <1>4 DEF Listed
<1> QED
  BY <1>3, <1>6, <1>7, <1>8 DEF Listed

\* A page that is on no list may be put in front of one.
LEMMA Pushed ==
  ASSUME NEW F \in [ListName -> Seq(Page)], NEW k \in ListName, NEW p \in Page,
         Apart(F), ~Listed(F, p), NEW G, G = Changed(F, k, <<p>> \o F[k])
  PROVE  /\ G \in [ListName -> Seq(Page)] /\ Apart(G)
         /\ \A q : Listed(G, q) <=> q = p \/ Listed(F, q)
<1>1. F[k] \in Seq(Page) /\ <<p>> \in Seq(Page) /\ Len(<<p>>) = 1 /\ <<p>>[1] = p
  OBVIOUS
<1>2. /\ G[k] \in Seq(Page) /\ Len(G[k]) = Len(F[k]) + 1 /\ G[k][1] = p
      /\ \A i \in 2 .. Len(F[k]) + 1 : G[k][i] = F[k][i - 1]
  BY <1>1, ConcatProperties DEF Changed
<1>3. G \in [ListName -> Seq(Page)] /\ \A l \in ListName : l # k => G[l] = F[l]
  BY <1>2 DEF Changed
<1> DEFINE From(l, i) == IF l = k THEN i - 1 ELSE i
<1>4. \A l \in ListName : /\ DOMAIN G[l] = 1 .. Len(G[l]) /\ DOMAIN F[l] = 1 .. Len(F[l])
                          /\ Len(F[l]) \in Nat /\ Len(G[l]) \in Nat
  BY <1>3
<1>5. ASSUME NEW l \in ListName, NEW i \in DOMAIN G[l]
      PROVE  /\ i \in Int
             /\ \/ l = k /\ i = 1 /\ G[l][i] = p
                \/ From(l, i) \in DOMAIN F[l] /\ G[l][i] = F[l][From(l, i)] /\ G[l][i] # p
  <2>1. CASE l = k /\ i = 1
    BY <1>2, <2>1
  <2>2. CASE l # k
    <3>1. G[l][i] # p
      BY <1>3, <2>2 DEF Listed
    <3>2. G[l] = F[l]
      BY ONLY <1>3, <2>2, l \in ListName, Zenon
    <3>3. i \in DOMAIN F[l] /\ DOMAIN F[l] = 1 .. Len(F[l]) /\ Len(F[l]) \in Nat
      BY ONLY <1>4, <3>2, l \in ListName, i \in DOMAIN G[l]
    <3>4. i \in Int
      BY ONLY <3>3
    <3> QED
      BY <2>2, <3>1, <3>2, <3>3, <3>4
  <2>3. CASE l = k /\ i # 1
    <3>1. i \in 2 .. Len(F[k]) + 1 /\ i - 1 \in DOMAIN F[k]
      BY <1>2, <1>4, <2>3
    <3>2. G[k][i] = F[k][i - 1]
      BY <1>2, <3>1
    <3>3. F[k][i - 1] # p
      BY <3>1 DEF Listed
    <3> QED
      BY <2>3, <3>1, <3>2, <3>3
  <2> QED
    BY <2>1, <2>2, <2>3
<1>6. ASSUME NEW l \in ListName, NEW m \in ListName, NEW i \in DOMAIN G[l], NEW j \in DOMAIN G[m],
             G[l][i] = G[m][j]
      PROVE  l = m /\ i = j
  <2>1. CASE G[l][i] = p
    BY <1>5, <1>6, <2>1
  <2>2. CASE G[l][i] # p
    <3>1. /\ F[l][From(l, i)] = F[m][From(m, j)]
          /\ From(l, i) \in DOMAIN F[l] /\ From(m, j) \in DOMAIN F[m] /\ i \in Int /\ j \in Int
      BY <1>5, <1>6, <2>2
    <3>2. l = m /\ From(l, i) = From(m, j)
      <4> HIDE DEF From
      <4> QED
        BY <3>1 DEF Apart
    <3> QED
      BY <3>1, <3>2
  <2> QED
    BY <2>1, <2>2
<1>7. \A q : Listed(G, q) => q = p \/ Listed(F, q)
  <2> HIDE DEF From
  <2> QED
    BY <1>5 DEF Listed
<1>8. Listed(G, p)
  <2>1. 1 \in DOMAIN G[k] /\ G[k][1] = p
    BY <1>2, <1>4
  <2> QED
    BY <2>1 DEF Listed
<1>9. ASSUME NEW q, Listed(F, q)
      PROVE  Listed(G, q)
  <2>0. PICK l \in ListName : \E i \in DOMAIN F[l] : F[l][i] = q
    BY <1>9 DEF Listed
  <2>1. PICK i \in DOMAIN F[l] : F[l][i] = q
    BY <2>0
  <2>2. CASE l # k
    BY <1>3, <2>1, <2>2 DEF Listed
  <2>3. CASE l = k
    <3>1. i + 1 \in 2 .. Len(F[k]) + 1 /\ i + 1 - 1 = i /\ i + 1 \in DOMAIN G[k]
      BY <1>2, <1>4, <2>3
    <3>2. G[k][i + 1] = q
      BY <1>2, <2>1, <2>3, <3>1
    <3> QED
      BY <3>1, <3>2 DEF Listed
  <2> QED
    BY <2>2, <2>3
<1> QED
  BY <1>3, <1>6, <1>7, <1>8, <1>9 DEF Apart

-----------------------------------------------------------------------------
(* The pool.                                                               *)

OpenName(rt) == IF rt = "main" THEN "open" ELSE "temp open"
FullName(rt) == IF rt = "main" THEN "full" ELSE "temp full"

\* The lists of a pool.
LEMMA ListsOf ==
  ASSUME NEW s \in PoolType
  PROVE  /\ Lists(s) \in [ListName -> Seq(Page)]
         /\ \A rt \in Runtime : /\ OpenName(rt) \in ListName /\ Lists(s)[OpenName(rt)] = Open(s, rt)
                                /\ FullName(rt) \in ListName /\ Lists(s)[FullName(rt)] = Full(s, rt)
         /\ "released" \in ListName /\ Lists(s)["released"] = Returned(s)
  BY DEF PoolType, Lists, ListName, Runtime, OpenName, FullName, Open, Full, Returned

\* The free lines of a page that has n lines, of which m are written.
Spare(n, m) == IF m <= n THEN n - m ELSE U32 - (m - n)

\* What the parts of a pool are.
LEMMA PoolParts ==
  ASSUME NEW s \in PoolType
  PROVE  /\ \A rt \in Runtime :
              /\ Open(s, rt) \in Seq(Page) /\ Full(s, rt) \in Seq(Page)
              /\ Len(Open(s, rt)) \in Nat /\ Len(Full(s, rt)) \in Nat
              /\ Count(s, rt) \in Int /\ Total(s, rt) \in Nat
         /\ Returned(s) \in Seq(Page) /\ Pages(s) \subseteq Page
         /\ CodeOf(s) \in [Page -> Seq(Line)]
         /\ \A p \in Page : /\ Capacity(s, p) \in Nat /\ Size(CodeOf(s), p) \in Nat
                            /\ FreeLines(s, p) = Spare(Capacity(s, p), Size(CodeOf(s), p))
                            /\ FreeLines(s, p) \in Int
         /\ Torn(s) \in BOOLEAN
<1>1. ASSUME NEW rt \in Runtime
      PROVE  /\ Open(s, rt) \in Seq(Page) /\ Full(s, rt) \in Seq(Page)
             /\ Count(s, rt) \in Int /\ Total(s, rt) \in Nat
  BY DEF PoolType, Open, Full, Count, Total
<1>2. \A rt \in Runtime : Len(Open(s, rt)) \in Nat /\ Len(Full(s, rt)) \in Nat
  BY <1>1
<1>3. Returned(s) \in Seq(Page) /\ Pages(s) \subseteq Page /\ CodeOf(s) \in [Page -> Seq(Line)]
  BY DEF PoolType, Returned, Pages, CodeOf
<1>4. ASSUME NEW p \in Page
      PROVE  /\ Capacity(s, p) \in Nat /\ Size(CodeOf(s), p) \in Nat
             /\ FreeLines(s, p) = Spare(Capacity(s, p), Size(CodeOf(s), p))
             /\ FreeLines(s, p) \in Int
  <2>1. Capacity(s, p) \in Nat
    BY DEF PoolType, Capacity
  <2>2. Size(CodeOf(s), p) \in Nat
    BY <1>3 DEF Size
  <2>3. FreeLines(s, p) = Spare(Capacity(s, p), Size(CodeOf(s), p))
    BY DEF FreeLines, Spare, Capacity, Size, CodeOf
  <2>4. Spare(Capacity(s, p), Size(CodeOf(s), p)) \in Int
    BY <2>1, <2>2, LineAssumption DEF Spare
  <2> QED
    BY <2>1, <2>2, <2>3, <2>4
<1>5. Torn(s) \in BOOLEAN
  BY DEF PoolType, Torn
<1> QED
  BY <1>1, <1>2, <1>3, <1>4, <1>5

\* What a function of the pool leaves as it was.
SamePages(s, t) ==
  /\ Pages(t) = Pages(s) /\ CodeOf(t) = CodeOf(s) /\ Torn(t) = Torn(s)
  /\ \A p \in Page : Capacity(t, p) = Capacity(s, p)

OpenChanged(s, t, rt, l, a) ==
  /\ t \in PoolType /\ SamePages(s, t) /\ Returned(t) = Returned(s)
  /\ \A r \in Runtime : /\ Open(t, r) = (IF r = rt THEN l ELSE Open(s, r))
                        /\ Count(t, r) = (IF r = rt THEN a ELSE Count(s, r))
                        /\ Full(t, r) = Full(s, r) /\ Total(t, r) = Total(s, r)

FullChanged(s, t, rt, l, a) ==
  /\ t \in PoolType /\ SamePages(s, t) /\ Returned(t) = Returned(s)
  /\ \A r \in Runtime : /\ Full(t, r) = (IF r = rt THEN l ELSE Full(s, r))
                        /\ Count(t, r) = (IF r = rt THEN a ELSE Count(s, r))
                        /\ Open(t, r) = Open(s, r) /\ Total(t, r) = Total(s, r)

CountsChanged(s, t, rt, a, b) ==
  /\ t \in PoolType
  /\ \A r \in Runtime : /\ Count(t, r) = (IF r = rt THEN a ELSE Count(s, r))
                        /\ Total(t, r) = (IF r = rt THEN b ELSE Total(s, r))
                        /\ Open(t, r) = Open(s, r) /\ Full(t, r) = Full(s, r)
  /\ CodeOf(t) = CodeOf(s) /\ Torn(t) = Torn(s)

\* What the lists of these pools are.
LEMMA OpenLists ==
  ASSUME NEW s, NEW t, NEW rt \in Runtime, NEW l, NEW a, OpenChanged(s, t, rt, l, a)
  PROVE  Lists(t) = Changed(Lists(s), OpenName(rt), l)
  BY DEF OpenChanged, Changed, Lists, ListName, Runtime, OpenName

LEMMA FullLists ==
  ASSUME NEW s, NEW t, NEW rt \in Runtime, NEW l, NEW a, FullChanged(s, t, rt, l, a)
  PROVE  Lists(t) = Changed(Lists(s), FullName(rt), l)
  BY DEF FullChanged, Changed, Lists, ListName, Runtime, FullName

LEMMA ReleasedLists ==
  ASSUME NEW s, NEW t, NEW rt \in Runtime, NEW a, NEW b, CountsChanged(s, t, rt, a, b)
  PROVE  Lists(t) = Changed(Lists(s), "released", Returned(t))
  BY DEF CountsChanged, Changed, Lists, ListName, Runtime

\* The records the functions of the pool return.
OpenSet(s, rt, l, a)   == [s EXCEPT !.open[rt] = l, !.active[rt] = a]
FullSet(s, rt, l, a)   == [s EXCEPT !.full[rt] = l, !.active[rt] = a]
CountsSet(s, rt, a, b) == [s EXCEPT !.total[rt] = b, !.active[rt] = a]
ReleasedSet(s, l)      == [s EXCEPT !.released = l]
Grown(s, p, n)         == [s EXCEPT !.allocated = @ \cup {p}, !.lines[p] = n]
CodeSet(s, c)          == [s EXCEPT !.code = c]

LEMMA OpenRecord ==
  ASSUME NEW s \in PoolType, NEW rt \in Runtime, NEW l \in Seq(Page), NEW a \in Int
  PROVE  OpenChanged(s, OpenSet(s, rt, l, a), rt, l, a)
  BY DEF PoolType, OpenSet, OpenChanged, SamePages, Open, Full, Count, Total, Pages, Returned,
         Capacity, CodeOf, Torn

LEMMA FullRecord ==
  ASSUME NEW s \in PoolType, NEW rt \in Runtime, NEW l \in Seq(Page), NEW a \in Int
  PROVE  FullChanged(s, FullSet(s, rt, l, a), rt, l, a)
  BY DEF PoolType, FullSet, FullChanged, SamePages, Open, Full, Count, Total, Pages, Returned,
         Capacity, CodeOf, Torn

LEMMA CountsRecord ==
  ASSUME NEW s \in PoolType, NEW rt \in Runtime, NEW a \in Int, NEW b \in Nat
  PROVE  /\ CountsChanged(s, CountsSet(s, rt, a, b), rt, a, b)
         /\ SamePages(s, CountsSet(s, rt, a, b)) /\ Returned(CountsSet(s, rt, a, b)) = Returned(s)
  BY DEF PoolType, CountsSet, CountsChanged, SamePages, Open, Full, Count, Total, Pages, Returned,
         Capacity, CodeOf, Torn

SameLists(s, t) ==
  \A r \in Runtime : /\ Open(t, r) = Open(s, r) /\ Full(t, r) = Full(s, r)
                     /\ Count(t, r) = Count(s, r) /\ Total(t, r) = Total(s, r)

LEMMA ReleasedRecord ==
  ASSUME NEW s \in PoolType, NEW l \in Seq(Page), NEW t, t = ReleasedSet(s, l)
  PROVE  t \in PoolType /\ Returned(t) = l /\ SamePages(s, t) /\ SameLists(s, t)
  BY DEF PoolType, ReleasedSet, SamePages, SameLists, Open, Full, Count, Total, Pages, Returned,
         Capacity, CodeOf, Torn

LEMMA GrownRecord ==
  ASSUME NEW s \in PoolType, NEW p \in Page, NEW n \in Nat, NEW t, t = Grown(s, p, n)
  PROVE  /\ t \in PoolType /\ Pages(t) = Pages(s) \cup {p} /\ CodeOf(t) = CodeOf(s)
         /\ \A q \in Page : Capacity(t, q) = IF q = p THEN n ELSE Capacity(s, q)
         /\ Returned(t) = Returned(s) /\ Torn(t) = Torn(s) /\ SameLists(s, t)
  BY DEF PoolType, Grown, SameLists, Open, Full, Count, Total, Pages, Returned, Capacity, CodeOf,
         Torn

LEMMA CodeRecord ==
  ASSUME NEW s \in PoolType, NEW c \in [Page -> Seq(Line)], NEW t, t = CodeSet(s, c)
  PROVE  /\ t \in PoolType /\ CodeOf(t) = c /\ Pages(t) = Pages(s) /\ Returned(t) = Returned(s)
         /\ \A q \in Page : Capacity(t, q) = Capacity(s, q)
         /\ Torn(t) = Torn(s) /\ SameLists(s, t)
  BY DEF PoolType, CodeSet, SameLists, Open, Full, Count, Total, Pages, Returned, Capacity, CodeOf,
         Torn

\* FirstFit finds a page with room, or none.
LEMMA Fitting ==
  ASSUME NEW s, NEW list \in Seq(Page), NEW n \in Nat
  PROVE  LET i == FirstFit(s, list, n) IN
         i = 0 \/ (i \in 1 .. Len(list) /\ FreeLines(s, list[i]) >= n)
<1> DEFINE I == {i \in 1 .. Len(list) : FreeLines(s, list[i]) >= n}
<1>1. FirstFit(s, list, n) = IF I # {} THEN Min(I) ELSE 0
  BY DEF FirstFit, SelectInSeq
<1>2. CASE I # {}
  <2>1. Len(list) \in Nat /\ I \in SUBSET (1 .. Len(list))
    OBVIOUS
  <2>2. Min(I) \in I
    <3> HIDE DEF I
    <3> QED
      BY <1>2, <2>1, Extremes
  <2> QED
    BY <1>1, <1>2, <2>2
<1>3. CASE I = {}
  <2> HIDE DEF I
  <2> QED
    BY <1>1, <1>3
<1> QED
  BY <1>2, <1>3

\* A new page has the lines that were asked for.
LEMMA NewPageFits ==
  ASSUME NEW n \in Nat
  PROVE  NewPageLines(n) \in Nat /\ NewPageLines(n) >= n
<1> DEFINE d == IF n > PageLines THEN n - PageLines ELSE 0
           q == (d + AlignLines - 1) \div AlignLines
<1>1. PageLines \in Nat /\ AlignLines \in Nat \ {0}
  BY LineAssumption
<1>2. d \in Nat /\ d + PageLines >= n /\ d + AlignLines - 1 \in Nat
  BY <1>1
<1>3. \A x \in Nat, y \in Nat \ {0} :
        x \div y \in Nat /\ y * (x \div y) \in Nat /\ x < y * (x \div y) + y
  OBVIOUS
<1>4. q \in Nat /\ AlignLines * q \in Nat /\ d + AlignLines - 1 < AlignLines * q + AlignLines
  <2> HIDE DEF d
  <2> QED
    BY <1>1, <1>2, <1>3
<1>5. NewPageLines(n) = PageLines + AlignLines * q
  BY DEF NewPageLines
<1> HIDE DEF d, q
<1> QED
  BY <1>1, <1>2, <1>4, <1>5

-----------------------------------------------------------------------------
(* Taking pages.                                                           *)

\* Pages that keep their code and size keep their free lines.
LEMMA PagesKept ==
  ASSUME NEW s \in PoolType, NEW t \in PoolType, SamePages(s, t)
  PROVE  /\ \A p \in Page : FreeLines(t, p) = FreeLines(s, p)
         /\ Allocated(s) => Allocated(t)
         /\ Lined(s) /\ Returned(t) = Returned(s) => Lined(t)
<1>1. ASSUME NEW p \in Page
      PROVE  FreeLines(t, p) = FreeLines(s, p)
  <2>1. Capacity(t, p) = Capacity(s, p) /\ CodeOf(t) = CodeOf(s)
    BY DEF SamePages
  <2> QED
    BY <2>1, PoolParts
<1>2. Allocated(s) => Allocated(t)
  BY DEF SamePages, Allocated
<1>3. ASSUME Lined(s), Returned(t) = Returned(s)
      PROVE  Lined(t)
  <2>1. Pages(s) \subseteq Page
    BY PoolParts
  <2> QED
    BY <1>3, <2>1 DEF SamePages, Lined
<1> QED
  BY <1>1, <1>2, <1>3

\* The counts stay right.
LEMMA AccountedOpen ==
  ASSUME NEW s \in PoolType, NEW t, NEW rt \in Runtime, NEW l \in Seq(Page), NEW a \in Int,
         OpenChanged(s, t, rt, l, a), Accounted(s),
         Len(l) + a = Len(Open(s, rt)) + Count(s, rt)
  PROVE  Accounted(t)
<1>1. ASSUME NEW r \in Runtime
      PROVE  Len(Open(t, r)) + Len(Full(t, r)) + Count(t, r) = Total(t, r)
  <2>1. /\ Len(Open(s, r)) \in Nat /\ Len(Full(s, r)) \in Nat /\ Count(s, r) \in Int
        /\ Len(Open(s, r)) + Len(Full(s, r)) + Count(s, r) = Total(s, r)
    BY PoolParts DEF Accounted
  <2>2. Full(t, r) = Full(s, r) /\ Total(t, r) = Total(s, r) /\ Len(l) \in Nat
    BY DEF OpenChanged
  <2>3. CASE r = rt
    <3>1. Open(t, r) = l /\ Count(t, r) = a
      BY <2>3 DEF OpenChanged
    <3> QED
      BY <2>1, <2>2, <2>3, <3>1
  <2>4. CASE r # rt
    <3>1. Open(t, r) = Open(s, r) /\ Count(t, r) = Count(s, r)
      BY <2>4 DEF OpenChanged
    <3> QED
      BY <2>1, <2>2, <3>1
  <2> QED
    BY <2>3, <2>4
<1> QED
  BY <1>1 DEF Accounted

LEMMA AccountedFull ==
  ASSUME NEW s \in PoolType, NEW t, NEW rt \in Runtime, NEW l \in Seq(Page), NEW a \in Int,
         FullChanged(s, t, rt, l, a), Accounted(s),
         Len(l) + a = Len(Full(s, rt)) + Count(s, rt)
  PROVE  Accounted(t)
<1>1. ASSUME NEW r \in Runtime
      PROVE  Len(Open(t, r)) + Len(Full(t, r)) + Count(t, r) = Total(t, r)
  <2>1. /\ Len(Open(s, r)) \in Nat /\ Len(Full(s, r)) \in Nat /\ Count(s, r) \in Int
        /\ Len(Open(s, r)) + Len(Full(s, r)) + Count(s, r) = Total(s, r)
    BY PoolParts DEF Accounted
  <2>2. Open(t, r) = Open(s, r) /\ Total(t, r) = Total(s, r) /\ Len(l) \in Nat
    BY DEF FullChanged
  <2>3. CASE r = rt
    <3>1. Full(t, r) = l /\ Count(t, r) = a
      BY <2>3 DEF FullChanged
    <3> QED
      BY <2>1, <2>2, <2>3, <3>1
  <2>4. CASE r # rt
    <3>1. Full(t, r) = Full(s, r) /\ Count(t, r) = Count(s, r)
      BY <2>4 DEF FullChanged
    <3> QED
      BY <2>1, <2>2, <3>1
  <2> QED
    BY <2>3, <2>4
<1> QED
  BY <1>1 DEF Accounted

LEMMA AccountedCounts ==
  ASSUME NEW s \in PoolType, NEW t, NEW rt \in Runtime, NEW a \in Int, NEW b \in Int,
         CountsChanged(s, t, rt, a, b), Accounted(s),
         a - b = Count(s, rt) - Total(s, rt)
  PROVE  Accounted(t)
<1>1. ASSUME NEW r \in Runtime
      PROVE  Len(Open(t, r)) + Len(Full(t, r)) + Count(t, r) = Total(t, r)
  <2>1. /\ Len(Open(s, r)) \in Nat /\ Len(Full(s, r)) \in Nat /\ Count(s, r) \in Int
        /\ Total(s, r) \in Nat
        /\ Len(Open(s, r)) + Len(Full(s, r)) + Count(s, r) = Total(s, r)
    BY PoolParts DEF Accounted
  <2>2. Open(t, r) = Open(s, r) /\ Full(t, r) = Full(s, r)
    BY DEF CountsChanged
  <2>3. CASE r = rt
    <3>1. Count(t, r) = a /\ Total(t, r) = b
      BY <2>3 DEF CountsChanged
    <3> QED
      BY <2>1, <2>2, <2>3, <3>1
  <2>4. CASE r # rt
    <3>1. Count(t, r) = Count(s, r) /\ Total(t, r) = Total(s, r)
      BY <2>4 DEF CountsChanged
    <3> QED
      BY <2>1, <2>2, <3>1
  <2> QED
    BY <2>3, <2>4
<1> QED
  BY <1>1 DEF Accounted

\* What taking page q for rt does to a pool.
Taken(s, t, rt, q, n) ==
  /\ q \in Page /\ CodeOf(t) = CodeOf(s) /\ Torn(t) = Torn(s) /\ FreeLines(t, q) >= n
  /\ \A p \in Pages(s) : FreeLines(t, p) = FreeLines(s, p)
  /\ \A r \in Runtime : /\ Count(t, r) = (IF r = rt THEN Count(s, r) + 1 ELSE Count(s, r))
                        /\ r # rt => Open(t, r) = Open(s, r)
                        /\ Full(t, r) = Full(s, r)
  /\ \A p : InTemp(s, p) => InTemp(t, p) \/ p = q

\* A page that leaves its list is out of all of them.
LEMMA OffItsList ==
  ASSUME NEW s, NEW held, Placed(s, held), NEW t \in PoolType, SamePages(s, t),
         Accounted(t), Lined(t), NEW k \in ListName, NEW i \in 1 .. Len(Lists(s)[k]),
         Lists(t) = Changed(Lists(s), k, RemoveAt(Lists(s)[k], i)),
         NEW q, q = Lists(s)[k][i]
  PROVE  Placed(t, held \cup {q}) /\ q \notin held /\ q \in Page
<1> DEFINE F == Lists(s)
           G == Lists(t)
<1>1. s \in PoolType /\ F \in [ListName -> Seq(Page)] /\ Apart(F)
  BY ListsOf DEF Placed
<1>2. Apart(G) /\ ~Listed(G, q) /\ \A p : Listed(G, p) => Listed(F, p)
  <2> HIDE DEF F, G
  <2>1. i \in 1 .. Len(F[k]) /\ G = Changed(F, k, RemoveAt(F[k], i)) /\ q = F[k][i]
    BY DEF F, G
  <2>2. Apart(G) /\ ~Listed(G, F[k][i]) /\ \A p : Listed(G, p) => Listed(F, p)
    BY <1>1, <2>1, Dropped
  <2> QED
    BY <2>1, <2>2
<1>3. q \in Page /\ Listed(F, q)
  <2>1. F[k] \in Seq(Page) /\ i \in DOMAIN F[k]
    BY <1>1
  <2>2. q \in Page
    BY <2>1
  <2> QED
    BY <2>1, <2>2 DEF Listed
<1> HIDE DEF F, G
<1>4. q \in Pages(s) /\ q \notin held
  BY <1>3 DEF Placed, F
<1>5. Pages(t) = Pages(s)
  BY DEF SamePages
<1>6. Allocated(t)
  BY <1>1, PagesKept DEF Placed
<1>7. /\ \A p \in Page : Listed(G, p) => p \in Pages(t)
      /\ held \cup {q} \subseteq Pages(t)
      /\ \A p \in held \cup {q} : ~Listed(G, p)
  BY <1>2, <1>4, <1>5 DEF Placed, F
<1> QED
  BY <1>2, <1>3, <1>4, <1>6, <1>7 DEF Placed, G

\* A page from the front or the middle of the open list.
LEMMA TakenFromOpen ==
  ASSUME NEW s, NEW held, Placed(s, held), NEW rt \in Runtime, NEW n \in Nat,
         NEW i \in 1 .. Len(Open(s, rt)), NEW q, q = Open(s, rt)[i], FreeLines(s, q) >= n,
         NEW t, OpenChanged(s, t, rt, RemoveAt(Open(s, rt), i), Count(s, rt) + 1)
  PROVE  Placed(t, held \cup {q}) /\ q \notin held /\ Taken(s, t, rt, q, n)
<1> DEFINE o == Open(s, rt)
           l == RemoveAt(o, i)
<1>1. /\ s \in PoolType /\ t \in PoolType /\ SamePages(s, t) /\ Returned(t) = Returned(s)
      /\ \A r \in Runtime : /\ Open(t, r) = (IF r = rt THEN l ELSE Open(s, r))
                            /\ Count(t, r) = (IF r = rt THEN Count(s, rt) + 1 ELSE Count(s, r))
                            /\ Full(t, r) = Full(s, r)
  BY DEF OpenChanged, Placed
<1>2. o \in Seq(Page) /\ i \in 1 .. Len(o) /\ Count(s, rt) \in Int /\ Len(o) \in Nat
  BY <1>1, PoolParts
<1>3. l \in Seq(Page) /\ Len(l) = Len(o) - 1
      /\ \A j \in 1 .. Len(o) - 1 : l[j] = IF j < i THEN o[j] ELSE o[j + 1]
  <2> HIDE DEF o
  <2> QED
    BY <1>2, Removed
<1>4. Accounted(t)
  <2>1. OpenChanged(s, t, rt, l, Count(s, rt) + 1) /\ Accounted(s)
    BY DEF Placed
  <2>2. Len(l) + (Count(s, rt) + 1) = Len(Open(s, rt)) + Count(s, rt)
    BY <1>2, <1>3
  <2>3. Count(s, rt) + 1 \in Int
    BY <1>2
  <2> HIDE DEF o, l
  <2> QED
    BY <1>1, <1>3, <2>1, <2>2, <2>3, AccountedOpen
<1>5. Lined(t)
  BY <1>1, PagesKept DEF Placed
<1>6. Placed(t, held \cup {q}) /\ q \notin held /\ q \in Page
  <2> DEFINE k == OpenName(rt)
  <2>1. k \in ListName /\ Lists(s)[k] = o
    BY <1>1, ListsOf
  <2>2. Lists(t) = Changed(Lists(s), k, l)
    BY OpenLists
  <2> HIDE DEF k, o
  <2>3. i \in 1 .. Len(Lists(s)[k]) /\ Lists(t) = Changed(Lists(s), k, RemoveAt(Lists(s)[k], i))
    BY <1>2, <2>1, <2>2
  <2>4. q = Lists(s)[k][i]
    BY <2>1 DEF o
  <2> QED
    BY <1>1, <1>4, <1>5, <2>1, <2>3, <2>4, OffItsList
<1>7. \A p : InTemp(s, p) => InTemp(t, p) \/ p = q
  <2>0. "temp" \in Runtime
    BY DEF Runtime
  <2>1. CASE rt # "temp"
    <3>1. Open(t, "temp") = Open(s, "temp") /\ Full(t, "temp") = Full(s, "temp")
      BY <1>1, <2>0, <2>1
    <3> QED
      BY <3>1 DEF InTemp
  <2>2. CASE rt = "temp"
    <3>1. Open(t, "temp") = l /\ Full(t, "temp") = Full(s, "temp")
      BY <1>1, <2>2
    <3>2. ASSUME NEW j \in DOMAIN o, o[j] # q
          PROVE  \E m \in DOMAIN l : l[m] = o[j]
      <4>1. j \in 1 .. Len(o) /\ DOMAIN l = 1 .. Len(o) - 1 /\ i \in Int
        BY <1>2, <1>3
      <4>2. j # i
        BY <3>2
      <4> HIDE DEF o, l
      <4>3. CASE j < i
        <5>1. j \in 1 .. Len(o) - 1
          BY <1>2, <4>1, <4>3
        <5> QED
          BY <1>3, <4>1, <4>3, <5>1
      <4>4. CASE ~(j < i)
        <5>1. j - 1 \in 1 .. Len(o) - 1 /\ ~(j - 1 < i) /\ j - 1 + 1 = j
          BY <1>2, <4>1, <4>2, <4>4
        <5>2. l[j - 1] = o[j]
          BY <1>3, <5>1
        <5> QED
          BY <4>1, <5>1, <5>2
      <4> QED
        BY <4>3, <4>4
    <3>3. o = Open(s, "temp")
      BY <2>2
    <3> HIDE DEF o, l
    <3> QED
      BY <3>1, <3>2, <3>3 DEF InTemp
  <2> QED
    BY <2>1, <2>2
<1>8. \A p \in Page : FreeLines(t, p) = FreeLines(s, p)
  BY <1>1, PagesKept
<1>9. Pages(s) \subseteq Page
  BY <1>1, PoolParts
<1> HIDE DEF o, l
<1> QED
  BY <1>1, <1>6, <1>7, <1>8, <1>9 DEF Taken, SamePages

\* A page from the front or the middle of the list the environment got back.
LEMMA TakenFromReleased ==
  ASSUME NEW s, NEW held, Placed(s, held), NEW rt \in Runtime, NEW n \in Nat,
         NEW i \in 1 .. Len(Returned(s)), NEW q, q = Returned(s)[i], FreeLines(s, q) >= n,
         NEW t, CountsChanged(s, t, rt, Count(s, rt) + 1, Total(s, rt) + 1),
         SamePages(s, t), Returned(t) = RemoveAt(Returned(s), i)
  PROVE  Placed(t, held \cup {q}) /\ q \notin held /\ Taken(s, t, rt, q, n)
<1> DEFINE o == Returned(s)
           l == Returned(t)
<1>1. /\ s \in PoolType /\ t \in PoolType
      /\ \A r \in Runtime : /\ Open(t, r) = Open(s, r) /\ Full(t, r) = Full(s, r)
                            /\ Count(t, r) = (IF r = rt THEN Count(s, rt) + 1 ELSE Count(s, r))
  BY DEF CountsChanged, Placed
<1>2. o \in Seq(Page) /\ i \in 1 .. Len(o) /\ Len(o) \in Nat /\ Count(s, rt) \in Int /\ Total(s, rt) \in Nat
  BY <1>1, PoolParts
<1>3. l \in Seq(Page) /\ Len(l) = Len(o) - 1
      /\ \A j \in 1 .. Len(o) - 1 : l[j] = IF j < i THEN o[j] ELSE o[j + 1]
  <2>1. l = RemoveAt(o, i)
    OBVIOUS
  <2> HIDE DEF o, l
  <2> QED
    BY <1>2, <2>1, Removed
<1>4. Accounted(t)
  <2> DEFINE c == Count(s, rt) + 1
             d == Total(s, rt) + 1
  <2>1. c \in Int /\ d \in Int /\ c - d = Count(s, rt) - Total(s, rt)
    BY <1>2
  <2>2. CountsChanged(s, t, rt, c, d)
    OBVIOUS
  <2> HIDE DEF c, d
  <2> QED
    BY <1>1, <2>1, <2>2, AccountedCounts DEF Placed
<1>5. Lined(t)
  <2>1. ASSUME NEW j \in DOMAIN l
        PROVE  \E m \in DOMAIN o : l[j] = o[m]
    <3>1. j \in 1 .. Len(o) - 1 /\ DOMAIN o = 1 .. Len(o) /\ i \in Int
      BY <1>2, <1>3
    <3>2. j \in DOMAIN o /\ j + 1 \in DOMAIN o
      BY <1>2, <3>1
    <3> HIDE DEF o, l
    <3> QED
      BY <1>3, <3>1, <3>2
  <2>2. \A m \in DOMAIN o : Size(CodeOf(s), o[m]) = 0
    BY DEF Placed, Lined
  <2>3. \A j \in DOMAIN l : Size(CodeOf(t), l[j]) = 0
    <3>1. CodeOf(t) = CodeOf(s)
      BY DEF SamePages
    <3> HIDE DEF o, l
    <3> QED
      BY <2>1, <2>2, <3>1
  <2>4. ~Torn(t) => \A p \in Pages(t) : Size(CodeOf(t), p) <= Capacity(t, p)
    BY <1>1, PoolParts DEF Placed, Lined, SamePages
  <2> QED
    BY <2>3, <2>4 DEF Lined
<1>6. Placed(t, held \cup {q}) /\ q \notin held /\ q \in Page
  <2> DEFINE k == "released"
  <2>1. k \in ListName /\ Lists(s)[k] = o
    BY <1>1, ListsOf
  <2>2. Lists(t) = Changed(Lists(s), k, RemoveAt(o, i))
    BY ReleasedLists
  <2> HIDE DEF k, o
  <2>3. i \in 1 .. Len(Lists(s)[k]) /\ Lists(t) = Changed(Lists(s), k, RemoveAt(Lists(s)[k], i))
    BY <1>2, <2>1, <2>2
  <2>4. q = Lists(s)[k][i]
    BY <2>1 DEF o
  <2> QED
    BY <1>1, <1>4, <1>5, <2>1, <2>3, <2>4, OffItsList
<1>7. \A p : InTemp(s, p) => InTemp(t, p)
  BY <1>1 DEF InTemp, Runtime
<1>8. \A p \in Page : FreeLines(t, p) = FreeLines(s, p)
  BY <1>1, PagesKept
<1>9. Pages(s) \subseteq Page
  BY <1>1, PoolParts
<1> HIDE DEF o, l
<1> QED
  BY <1>1, <1>6, <1>7, <1>8, <1>9 DEF Taken, SamePages

\* t is s with a new page q of that many lines for rt.
FreshPage(s, t, rt, q, n) ==
  /\ CountsChanged(s, t, rt, Count(s, rt) + 1, Total(s, rt) + 1)
  /\ Returned(t) = Returned(s) /\ Pages(t) = Pages(s) \cup {q}
  /\ \A p \in Page : Capacity(t, p) = IF p = q THEN NewPageLines(n) ELSE Capacity(s, p)

\* A page malloc had.
LEMMA TakenFresh ==
  ASSUME NEW s, NEW held, Placed(s, held), NEW rt \in Runtime, NEW n \in Nat,
         NEW q \in Page, q = Cardinality(Pages(s)) + 1,
         NEW t, FreshPage(s, t, rt, q, n)
  PROVE  Placed(t, held \cup {q}) /\ q \notin held /\ Taken(s, t, rt, q, n)
<1>1. /\ s \in PoolType /\ t \in PoolType /\ CodeOf(t) = CodeOf(s) /\ Torn(t) = Torn(s)
      /\ \A r \in Runtime : /\ Open(t, r) = Open(s, r) /\ Full(t, r) = Full(s, r)
                            /\ Count(t, r) = (IF r = rt THEN Count(s, rt) + 1 ELSE Count(s, r))
      /\ Returned(t) = Returned(s) /\ Pages(t) = Pages(s) \cup {q}
      /\ \A p \in Page : Capacity(t, p) = IF p = q THEN NewPageLines(n) ELSE Capacity(s, p)
  BY DEF FreshPage, CountsChanged, Placed
<1>2. PICK m \in 0 .. MaxPages : Pages(s) = 1 .. m
  BY DEF Placed, Allocated
<1>3. q = m + 1 /\ Pages(t) = 1 .. q /\ q \in 0 .. MaxPages /\ q \notin Pages(s)
  <2>1. MaxPages \in Nat
    BY LineAssumption
  <2>2. Cardinality(1 .. m) = m
    BY <1>2, <2>1, FS_Interval
  <2>3. q = m + 1
    BY <1>2, <2>2
  <2>4. 1 .. m + 1 = (1 .. m) \cup {m + 1}
    BY <1>2, <2>1
  <2> QED
    BY <1>1, <1>2, <2>1, <2>3, <2>4 DEF Page
<1>4. Size(CodeOf(s), q) = 0
  BY <1>3 DEF Placed, Allocated
<1>5. FreeLines(t, q) >= n
  <2>1. NewPageLines(n) \in Nat /\ NewPageLines(n) >= n
    BY NewPageFits
  <2>2. FreeLines(t, q) = Spare(Capacity(t, q), Size(CodeOf(t), q)) /\ Capacity(t, q) = NewPageLines(n)
    BY <1>1, PoolParts
  <2> QED
    BY <1>1, <1>4, <2>1, <2>2 DEF Spare
<1>6. Accounted(t)
  <2>1. Count(s, rt) \in Int /\ Total(s, rt) \in Nat
    BY <1>1, PoolParts
  <2> DEFINE c == Count(s, rt) + 1
             d == Total(s, rt) + 1
  <2>2. c \in Int /\ d \in Int /\ c - d = Count(s, rt) - Total(s, rt)
    BY <2>1
  <2>3. CountsChanged(s, t, rt, c, d)
    BY DEF FreshPage
  <2> HIDE DEF c, d
  <2> QED
    BY <1>1, <2>2, <2>3, AccountedCounts DEF Placed
<1>7. Lists(t) = Lists(s)
  BY <1>1 DEF Lists, Runtime
<1>8. Pages(s) \subseteq Page
  BY <1>1, PoolParts
<1>9. Allocated(t)
  BY <1>1, <1>3 DEF Placed, Allocated
<1>10. Lined(t)
  <2>1. ASSUME ~Torn(t), NEW p \in Pages(t)
        PROVE  Size(CodeOf(t), p) <= Capacity(t, p)
    <3>1. CASE p = q
      <4>1. Capacity(t, q) \in Nat
        BY <1>1, PoolParts
      <4> QED
        BY <1>1, <1>4, <3>1, <4>1
    <3>2. CASE p # q
      BY <1>1, <1>8, <2>1, <3>2 DEF Placed, Lined
    <3> QED
      BY <3>1, <3>2
  <2> QED
    BY <1>1, <2>1 DEF Placed, Lined
<1>11. ~Listed(Lists(s), q) /\ q \notin held
  BY <1>3 DEF Placed
<1>12. Placed(t, held \cup {q})
  BY <1>1, <1>6, <1>7, <1>9, <1>10, <1>11 DEF Placed
<1>13. \A p \in Pages(s) : FreeLines(t, p) = FreeLines(s, p)
  BY <1>1, <1>3, <1>8, PoolParts
<1>14. \A p : InTemp(s, p) => InTemp(t, p)
  BY <1>1 DEF InTemp, Runtime
<1> QED
  BY <1>1, <1>5, <1>11, <1>12, <1>13, <1>14 DEF Taken

\* The pools Acquire returns.
OffOpen(s, rt, i)  == [s EXCEPT !.open[rt] = RemoveAt(@, i), !.active[rt] = @ + 1]
Added(s, rt)       == [s EXCEPT !.total[rt] = @ + 1, !.active[rt] = @ + 1]
OffReleased(s, i)  == [s EXCEPT !.released = RemoveAt(@, i)]

LEMMA AcquireCases ==
  ASSUME NEW s, NEW rt, NEW n, NEW a \in Acquire(s, rt, n)
  PROVE  LET io == FirstFit(s, Open(s, rt), n)
             ir == FirstFit(s, Returned(s), n)
             q  == Cardinality(Pages(s)) + 1
         IN  \/ a = [page |-> NoPage, pool |-> s]
             \/ io # 0 /\ a = [page |-> Open(s, rt)[io], pool |-> OffOpen(s, rt, io)]
             \/ ir # 0 /\ a = [page |-> Returned(s)[ir], pool |-> OffReleased(Added(s, rt), ir)]
             \/ q \in Page /\ a = [page |-> q, pool |-> Grown(Added(s, rt), q, NewPageLines(n))]
<1> DEFINE io == FirstFit(s, Open(s, rt), n)
           ir == FirstFit(s, Returned(s), n)
           q  == Cardinality(Pages(s)) + 1
<1>1. CASE io # 0
  BY <1>1, Zenon DEF Acquire, Open, Returned, Unlink, OffOpen
<1>2. CASE io = 0 /\ ir # 0
  BY <1>2, Zenon DEF Acquire, Open, Returned, Unlink, Added, OffReleased
<1>3. CASE io = 0 /\ ir = 0
  <2>1. a \in {[page |-> NoPage, pool |-> s]} \cup
              {[page |-> p, pool |-> Grown(Added(s, rt), p, NewPageLines(n))] : p \in Page \cap {q}}
    BY <1>3, Zenon DEF Acquire, Open, Returned, Pages, Added, Grown
  <2> QED
    BY <2>1, Zenon
<1> QED
  BY <1>1, <1>2, <1>3

\* What they are.
LEMMA AcquirePools ==
  ASSUME NEW s \in PoolType
  PROVE  /\ \A rt \in Runtime : \A i \in 1 .. Len(Open(s, rt)) :
              OpenChanged(s, OffOpen(s, rt, i), rt, RemoveAt(Open(s, rt), i), Count(s, rt) + 1)
         /\ \A rt \in Runtime :
              /\ CountsChanged(s, Added(s, rt), rt, Count(s, rt) + 1, Total(s, rt) + 1)
              /\ SamePages(s, Added(s, rt)) /\ Returned(Added(s, rt)) = Returned(s)
<1>1. ASSUME NEW rt \in Runtime, NEW i \in 1 .. Len(Open(s, rt))
      PROVE  OpenChanged(s, OffOpen(s, rt, i), rt, RemoveAt(Open(s, rt), i), Count(s, rt) + 1)
  <2> DEFINE o == Open(s, rt)
             l == RemoveAt(Open(s, rt), i)
             c == Count(s, rt) + 1
  <2>1. o \in Seq(Page) /\ c \in Int
    BY PoolParts
  <2>2. l \in Seq(Page)
    <3>1. i \in 1 .. Len(o) /\ l = RemoveAt(o, i)
      OBVIOUS
    <3> HIDE DEF o, l
    <3> QED
      BY <2>1, <3>1, Removed
  <2>3. OffOpen(s, rt, i) = OpenSet(s, rt, l, c)
    BY Zenon DEF OffOpen, OpenSet, Open, Count
  <2> HIDE DEF o, l, c
  <2>4. OpenChanged(s, OffOpen(s, rt, i), rt, l, c)
    BY <2>1, <2>2, <2>3, OpenRecord
  <2> QED
    BY <2>4 DEF l, c
<1>2. ASSUME NEW rt \in Runtime
      PROVE  /\ CountsChanged(s, Added(s, rt), rt, Count(s, rt) + 1, Total(s, rt) + 1)
             /\ SamePages(s, Added(s, rt)) /\ Returned(Added(s, rt)) = Returned(s)
  <2> DEFINE c == Count(s, rt) + 1
             d == Total(s, rt) + 1
  <2>1. c \in Int /\ d \in Nat
    BY PoolParts
  <2>2. Added(s, rt) = CountsSet(s, rt, c, d)
    BY Zenon DEF Added, CountsSet, Count, Total
  <2> HIDE DEF c, d
  <2>3. /\ CountsChanged(s, Added(s, rt), rt, c, d)
        /\ SamePages(s, Added(s, rt)) /\ Returned(Added(s, rt)) = Returned(s)
    BY <2>1, <2>2, CountsRecord
  <2> QED
    BY <2>3 DEF c, d
<1> QED
  BY <1>1, <1>2

\* AcquireCodePageWithCapacity.
LEMMA Acquired ==
  ASSUME NEW s, NEW held, Placed(s, held), NEW rt \in Runtime, NEW n \in Nat,
         NEW a \in Acquire(s, rt, n)
  PROVE  \/ a.page = NoPage /\ a.pool = s
         \/ /\ a.page # NoPage /\ a.page \in Page /\ a.page \notin held
            /\ Placed(a.pool, held \cup {a.page}) /\ Taken(s, a.pool, rt, a.page, n)
<1> DEFINE io == FirstFit(s, Open(s, rt), n)
           ir == FirstFit(s, Returned(s), n)
           q  == Cardinality(Pages(s)) + 1
           u  == Added(s, rt)
<1>1. s \in PoolType /\ Open(s, rt) \in Seq(Page) /\ Returned(s) \in Seq(Page)
  BY PoolParts DEF Placed
<1>2. \A p \in Page : p # NoPage
  BY DEF Page, NoPage
<1>3. CASE a = [page |-> NoPage, pool |-> s]
  BY <1>3
<1>4. CASE io # 0 /\ a = [page |-> Open(s, rt)[io], pool |-> OffOpen(s, rt, io)]
  <2>1. io \in 1 .. Len(Open(s, rt)) /\ FreeLines(s, Open(s, rt)[io]) >= n
    BY <1>1, <1>4, Fitting
  <2>2. a.page = Open(s, rt)[io] /\ a.pool = OffOpen(s, rt, io)
    BY <1>4
  <2> HIDE DEF io
  <2>3. OpenChanged(s, a.pool, rt, RemoveAt(Open(s, rt), io), Count(s, rt) + 1)
    BY <1>1, <2>1, <2>2, AcquirePools
  <2>4. Placed(a.pool, held \cup {a.page}) /\ a.page \notin held /\ Taken(s, a.pool, rt, a.page, n)
    BY <2>1, <2>2, <2>3, TakenFromOpen
  <2> QED
    BY <1>2, <2>4 DEF Taken
<1>5. /\ CountsChanged(s, u, rt, Count(s, rt) + 1, Total(s, rt) + 1)
      /\ SamePages(s, u) /\ Returned(u) = Returned(s) /\ u \in PoolType
  BY <1>1, AcquirePools DEF CountsChanged
<1>6. CASE ir # 0 /\ a = [page |-> Returned(s)[ir], pool |-> OffReleased(u, ir)]
  <2> DEFINE t == OffReleased(u, ir)
             l == RemoveAt(Returned(s), ir)
  <2>1. ir \in 1 .. Len(Returned(s)) /\ FreeLines(s, Returned(s)[ir]) >= n
    BY <1>1, <1>6, Fitting
  <2>2. a.page = Returned(s)[ir] /\ a.pool = t
    BY <1>6
  <2>3. l \in Seq(Page)
    BY <1>1, <2>1, Removed
  <2>4. t = ReleasedSet(u, l)
    <3>1. RemoveAt(u.released, ir) = l
      BY <1>5 DEF Returned
    <3> QED
      BY <3>1, Zenon DEF OffReleased, ReleasedSet
  <2> HIDE DEF l, u, t
  <2>5. t \in PoolType /\ Returned(t) = l /\ SamePages(u, t) /\ SameLists(u, t)
    BY <1>5, <2>3, <2>4, ReleasedRecord
  <2>6. CountsChanged(s, t, rt, Count(s, rt) + 1, Total(s, rt) + 1) /\ SamePages(s, t)
    BY <1>5, <2>5 DEF CountsChanged, SamePages, SameLists
  <2>7. Returned(t) = RemoveAt(Returned(s), ir)
    BY <2>5 DEF l
  <2> HIDE DEF ir
  <2>8. Placed(t, held \cup {a.page}) /\ a.page \notin held /\ Taken(s, t, rt, a.page, n)
    BY <2>1, <2>2, <2>6, <2>7, TakenFromReleased
  <2> QED
    BY <1>2, <2>2, <2>8 DEF Taken
<1>7. CASE q \in Page /\ a = [page |-> q, pool |-> Grown(u, q, NewPageLines(n))]
  <2> DEFINE b == NewPageLines(n)
             t == Grown(u, q, b)
  <2>1. a.page = q /\ a.pool = t /\ b \in Nat
    BY <1>7, NewPageFits
  <2> HIDE DEF q, u, b, t
  <2>3. /\ t \in PoolType /\ Pages(t) = Pages(u) \cup {q} /\ CodeOf(t) = CodeOf(u)
        /\ Torn(t) = Torn(u)
        /\ \A p \in Page : Capacity(t, p) = IF p = q THEN b ELSE Capacity(u, p)
        /\ Returned(t) = Returned(u) /\ SameLists(u, t)
    BY <1>5, <1>7, <2>1, GrownRecord DEF t
  <2>4. CountsChanged(s, t, rt, Count(s, rt) + 1, Total(s, rt) + 1)
    BY <1>5, <2>3 DEF CountsChanged, SameLists
  <2>5. FreshPage(s, t, rt, q, n)
    BY <1>5, <2>3, <2>4 DEF FreshPage, SamePages, b
  <2>6. q = Cardinality(Pages(s)) + 1
    BY DEF q
  <2>7. Placed(t, held \cup {q}) /\ q \notin held /\ Taken(s, t, rt, q, n)
    BY <1>7, <2>5, <2>6, TakenFresh
  <2> QED
    BY <1>2, <1>7, <2>1, <2>7
<1> QED
  BY <1>3, <1>4, <1>6, <1>7, AcquireCases

-----------------------------------------------------------------------------
(* Giving pages back, and writing on them.                                 *)

\* What giving back page p of rt does to a pool.
GivenBack(s, t, rt, p) ==
  /\ CodeOf(t) = CodeOf(s) /\ Pages(t) = Pages(s) /\ Torn(t) = Torn(s)
  /\ \A q \in Page : FreeLines(t, q) = FreeLines(s, q)
  /\ \A r \in Runtime : /\ Count(t, r) = (IF r = rt THEN Count(s, r) - 1 ELSE Count(s, r))
                        /\ r # rt => Open(t, r) = Open(s, r) /\ Full(t, r) = Full(s, r)
  /\ \A q : InTemp(s, q) => InTemp(t, q)
  /\ rt = "temp" => InTemp(t, p)

\* A page in front of a list is on it, and so are those that were.
LEMMA InFront ==
  ASSUME NEW o \in Seq(Page), NEW p \in Page
  PROVE  /\ <<p>> \o o \in Seq(Page) /\ Len(<<p>> \o o) = Len(o) + 1
         /\ \E j \in DOMAIN (<<p>> \o o) : (<<p>> \o o)[j] = p
         /\ \A i \in DOMAIN o : \E j \in DOMAIN (<<p>> \o o) : (<<p>> \o o)[j] = o[i]
<1> DEFINE l == <<p>> \o o
<1>1. <<p>> \in Seq(Page) /\ Len(<<p>>) = 1 /\ <<p>>[1] = p /\ Len(o) \in Nat /\ DOMAIN o = 1 .. Len(o)
  OBVIOUS
<1>2. /\ l \in Seq(Page) /\ Len(l) = Len(o) + 1 /\ l[1] = p
      /\ \A i \in 1 .. Len(o) : l[i + 1] = o[i]
  BY <1>1, ConcatProperties
<1> HIDE DEF l
<1>3. DOMAIN l = 1 .. Len(o) + 1
  BY <1>2
<1>4. 1 \in DOMAIN l /\ \A i \in DOMAIN o : i + 1 \in DOMAIN l
  BY <1>1, <1>3
<1>5. /\ \E j \in DOMAIN l : l[j] = p
      /\ \A i \in DOMAIN o : \E j \in DOMAIN l : l[j] = o[i]
  BY <1>1, <1>2, <1>4
<1> QED
  BY <1>2, <1>5 DEF l

\* A page that is out of the lists may go in front of one.
LEMMA OnItsList ==
  ASSUME NEW s, NEW held, Placed(s, held), NEW t \in PoolType, SamePages(s, t),
         Returned(t) = Returned(s), Accounted(t), NEW k \in ListName, NEW p \in held,
         Lists(t) = Changed(Lists(s), k, <<p>> \o Lists(s)[k])
  PROVE  Placed(t, held \ {p})
<1> DEFINE F == Lists(s)
           G == Lists(t)
<1>1. s \in PoolType /\ F \in [ListName -> Seq(Page)] /\ Apart(F) /\ p \in Page /\ ~Listed(F, p)
  BY ListsOf, PoolParts DEF Placed
<1>2. Apart(G) /\ \A q : Listed(G, q) <=> q = p \/ Listed(F, q)
  <2>1. G = Changed(F, k, <<p>> \o F[k])
    OBVIOUS
  <2> HIDE DEF F, G
  <2> QED
    BY <1>1, <2>1, Pushed
<1>3. Pages(t) = Pages(s) /\ Allocated(t) /\ Lined(t)
  BY <1>1, PagesKept DEF Placed, SamePages
<1> HIDE DEF G
<1>4. /\ \A q \in Page : Listed(G, q) => q \in Pages(t)
      /\ held \ {p} \subseteq Pages(t)
      /\ \A q \in held \ {p} : ~Listed(G, q)
  BY <1>2, <1>3 DEF Placed
<1> QED
  BY <1>2, <1>3, <1>4 DEF Placed, G

LEMMA PageReleased ==
  ASSUME NEW s, NEW held, Placed(s, held), NEW rt \in Runtime, NEW p \in held
  PROVE  LET t == ReleasePage(s, rt, p) IN
         Placed(t, held \ {p}) /\ GivenBack(s, t, rt, p)
<1> DEFINE t == ReleasePage(s, rt, p)
           c == Count(s, rt) - 1
           lf == <<p>> \o Full(s, rt)
           lo == <<p>> \o Open(s, rt)
<1>1. s \in PoolType /\ p \in Page /\ Accounted(s)
  BY PoolParts DEF Placed
<1>2. /\ Open(s, rt) \in Seq(Page) /\ Full(s, rt) \in Seq(Page) /\ Count(s, rt) \in Int
      /\ Len(Open(s, rt)) \in Nat /\ Len(Full(s, rt)) \in Nat
  BY <1>1, PoolParts
<1>3. /\ c \in Int
      /\ lf \in Seq(Page) /\ Len(lf) + c = Len(Full(s, rt)) + Count(s, rt)
      /\ lo \in Seq(Page) /\ Len(lo) + c = Len(Open(s, rt)) + Count(s, rt)
  <2>1. lf \in Seq(Page) /\ Len(lf) = Len(Full(s, rt)) + 1
    BY <1>1, <1>2, InFront
  <2>2. lo \in Seq(Page) /\ Len(lo) = Len(Open(s, rt)) + 1
    BY <1>1, <1>2, InFront
  <2> HIDE DEF lf, lo
  <2>3. c \in Int
    BY <1>2
  <2>4. Len(lf) + c = Len(Full(s, rt)) + Count(s, rt)
    BY <1>2, <2>1
  <2>5. Len(lo) + c = Len(Open(s, rt)) + Count(s, rt)
    BY <1>2, <2>2
  <2> QED
    BY <2>1, <2>2, <2>3, <2>4, <2>5
<1>4. CASE FreeLines(s, p) < Threshold
  <2>1. t = FullSet(s, rt, lf, c)
    BY <1>4, Zenon DEF ReleasePage, FullSet, Full, Count
  <2>2. FullChanged(s, t, rt, lf, c)
    <3> HIDE DEF lf, c, t
    <3> QED
      BY <1>1, <1>3, <2>1, FullRecord
  <2> HIDE DEF t
  <2>3. Accounted(t)
    <3> HIDE DEF lf, c
    <3> QED
      BY <1>1, <1>3, <2>2, AccountedFull
  <2>4. t \in PoolType /\ SamePages(s, t) /\ Returned(t) = Returned(s)
    BY <2>2 DEF FullChanged
  <2>5. Placed(t, held \ {p})
    <3> DEFINE k == FullName(rt)
    <3>1. k \in ListName /\ Lists(s)[k] = Full(s, rt)
      BY <1>1, ListsOf
    <3>2. Lists(t) = Changed(Lists(s), k, lf)
      <4> HIDE DEF lf, c
      <4> QED
        BY <2>2, FullLists
    <3> HIDE DEF k
    <3>3. Lists(t) = Changed(Lists(s), k, <<p>> \o Lists(s)[k])
      BY <3>1, <3>2
    <3> QED
      BY <2>3, <2>4, <3>1, <3>3, OnItsList
  <2>6. GivenBack(s, t, rt, p)
    <3>1. /\ \A r \in Runtime : /\ Full(t, r) = (IF r = rt THEN lf ELSE Full(s, r))
                                /\ Count(t, r) = (IF r = rt THEN Count(s, r) - 1 ELSE Count(s, r))
                                /\ Open(t, r) = Open(s, r)
      BY <2>2 DEF FullChanged
    <3>2. \A q \in Page : FreeLines(t, q) = FreeLines(s, q)
      BY <1>1, <2>4, PagesKept
    <3>3. /\ \A i \in DOMAIN Full(s, rt) : \E j \in DOMAIN lf : lf[j] = Full(s, rt)[i]
          /\ \E j \in DOMAIN lf : lf[j] = p
      BY <1>1, <1>2, InFront
    <3> HIDE DEF lf
    <3>4. \A q : InTemp(s, q) => InTemp(t, q)
      BY <3>1, <3>3 DEF InTemp, Runtime
    <3>5. rt = "temp" => InTemp(t, p)
      BY <3>1, <3>3 DEF InTemp, Runtime
    <3> QED
      BY <2>4, <3>1, <3>2, <3>4, <3>5 DEF GivenBack, SamePages
  <2> QED
    BY <2>5, <2>6 DEF t
<1>5. CASE ~(FreeLines(s, p) < Threshold)
  <2>1. t = OpenSet(s, rt, lo, c)
    BY <1>5, Zenon DEF ReleasePage, OpenSet, Open, Count
  <2>2. OpenChanged(s, t, rt, lo, c)
    <3> HIDE DEF lo, c, t
    <3> QED
      BY <1>1, <1>3, <2>1, OpenRecord
  <2> HIDE DEF t
  <2>3. Accounted(t)
    <3> HIDE DEF lo, c
    <3> QED
      BY <1>1, <1>3, <2>2, AccountedOpen
  <2>4. t \in PoolType /\ SamePages(s, t) /\ Returned(t) = Returned(s)
    BY <2>2 DEF OpenChanged
  <2>5. Placed(t, held \ {p})
    <3> DEFINE k == OpenName(rt)
    <3>1. k \in ListName /\ Lists(s)[k] = Open(s, rt)
      BY <1>1, ListsOf
    <3>2. Lists(t) = Changed(Lists(s), k, lo)
      <4> HIDE DEF lo, c
      <4> QED
        BY <2>2, OpenLists
    <3> HIDE DEF k
    <3>3. Lists(t) = Changed(Lists(s), k, <<p>> \o Lists(s)[k])
      BY <3>1, <3>2
    <3> QED
      BY <2>3, <2>4, <3>1, <3>3, OnItsList
  <2>6. GivenBack(s, t, rt, p)
    <3>1. /\ \A r \in Runtime : /\ Open(t, r) = (IF r = rt THEN lo ELSE Open(s, r))
                                /\ Count(t, r) = (IF r = rt THEN Count(s, r) - 1 ELSE Count(s, r))
                                /\ Full(t, r) = Full(s, r)
      BY <2>2 DEF OpenChanged
    <3>2. \A q \in Page : FreeLines(t, q) = FreeLines(s, q)
      BY <1>1, <2>4, PagesKept
    <3>3. /\ \A i \in DOMAIN Open(s, rt) : \E j \in DOMAIN lo : lo[j] = Open(s, rt)[i]
          /\ \E j \in DOMAIN lo : lo[j] = p
      BY <1>1, <1>2, InFront
    <3> HIDE DEF lo
    <3>4. \A q : InTemp(s, q) => InTemp(t, q)
      BY <3>1, <3>3 DEF InTemp, Runtime
    <3>5. rt = "temp" => InTemp(t, p)
      BY <3>1, <3>3 DEF InTemp, Runtime
    <3> QED
      BY <2>4, <3>1, <3>2, <3>4, <3>5 DEF GivenBack, SamePages
  <2> QED
    BY <2>5, <2>6 DEF t
<1> QED
  BY <1>4, <1>5

\* d is code c with lines added to page p.
Appended(c, d, p, lines) ==
  /\ Size(d, p) = Size(c, p) + Len(lines)
  /\ \A q \in Page \ {p} : /\ Size(d, q) = Size(c, q)
                           /\ \A i \in 1 .. Size(c, q) : /\ Owner(d, q, i) = Owner(c, q, i)
                                                         /\ Jump(d, q, i) = Jump(c, q, i)
                                                         /\ Ends(d, q, i) = Ends(c, q, i)
  /\ \A i \in 1 .. Size(c, p) : /\ Owner(d, p, i) = Owner(c, p, i)
                                /\ Jump(d, p, i) = Jump(c, p, i)
                                /\ Ends(d, p, i) = Ends(c, p, i)
  /\ \A i \in 1 .. Len(lines) : /\ Owner(d, p, Size(c, p) + i) = lines[i].of
                                /\ Jump(d, p, Size(c, p) + i) = lines[i].to
                                /\ Ends(d, p, Size(c, p) + i) = lines[i].ends

\* What a write leaves as it was.
Unmoved(s, t) ==
  /\ SameLists(s, t) /\ Pages(t) = Pages(s) /\ Torn(t) = Torn(s)
  /\ \A q \in Page : Capacity(t, q) = Capacity(s, q)

LEMMA Written ==
  ASSUME NEW s, NEW held, Placed(s, held), NEW p \in held, NEW lines \in Seq(Line),
         Ample(s, p, Len(lines))
  PROVE  LET t == Emit(s, p, lines) IN
         /\ Placed(t, held) /\ Unmoved(s, t) /\ Appended(CodeOf(s), CodeOf(t), p, lines)
         /\ Len(lines) <= FreeLines(s, p) => FreeLines(t, p) = FreeLines(s, p) - Len(lines)
         /\ \A q \in Page \ {p} : FreeLines(t, q) = FreeLines(s, q)
         /\ \A q : InTemp(t, q) <=> InTemp(s, q)
<1> DEFINE t == Emit(s, p, lines)
           c == CodeOf(s)
           d == [c EXCEPT ![p] = @ \o lines]
<1>1. s \in PoolType /\ p \in Page /\ p \in Pages(s) /\ ~Listed(Lists(s), p)
  BY PoolParts DEF Placed
<1>2. c \in [Page -> Seq(Line)] /\ Len(lines) \in Nat
  BY <1>1, PoolParts
<1> HIDE DEF c
<1>3. c[p] \in Seq(Line) /\ Len(c[p]) \in Nat /\ c[p] \o lines \in Seq(Line)
  BY <1>1, <1>2
<1>4. d \in [Page -> Seq(Line)] /\ d[p] = c[p] \o lines /\ \A q \in Page \ {p} : d[q] = c[q]
  BY <1>1, <1>2, <1>3
<1> HIDE DEF d
<1>5. t = CodeSet(s, d)
  BY Zenon DEF Emit, CodeSet, CodeOf, d, c
<1> HIDE DEF t
<1>6. /\ t \in PoolType /\ CodeOf(t) = d /\ Pages(t) = Pages(s) /\ Returned(t) = Returned(s)
      /\ \A q \in Page : Capacity(t, q) = Capacity(s, q)
      /\ Torn(t) = Torn(s) /\ SameLists(s, t)
  BY <1>1, <1>4, <1>5, CodeRecord
<1>7. Appended(c, d, p, lines)
  <2>1. Size(d, p) = Size(c, p) + Len(lines)
    BY <1>2, <1>3, <1>4 DEF Size
  <2>2. ASSUME NEW i \in 1 .. Size(c, p)
        PROVE  d[p][i] = c[p][i]
    BY <1>2, <1>3, <1>4, ConcatProperties DEF Size
  <2>3. ASSUME NEW i \in 1 .. Len(lines)
        PROVE  d[p][Size(c, p) + i] = lines[i]
    <3>1. Size(c, p) = Len(c[p])
      BY DEF Size
    <3>2. Len(c[p]) + i \in 1 .. Len(c[p]) + Len(lines) /\ ~(Len(c[p]) + i <= Len(c[p]))
          /\ Len(c[p]) + i - Len(c[p]) = i
      BY <1>2, <1>3
    <3>3. (c[p] \o lines)[Len(c[p]) + i] = lines[Len(c[p]) + i - Len(c[p])]
      BY <1>3, <3>2, ConcatProperties
    <3> QED
      BY <1>4, <3>1, <3>2, <3>3
  <2>4. \A q \in Page \ {p} : /\ Size(d, q) = Size(c, q)
                              /\ \A i \in 1 .. Size(c, q) : /\ Owner(d, q, i) = Owner(c, q, i)
                                                            /\ Jump(d, q, i) = Jump(c, q, i)
                                                            /\ Ends(d, q, i) = Ends(c, q, i)
    BY <1>4 DEF Size, Owner, Jump, Ends
  <2>5. \A i \in 1 .. Size(c, p) : /\ Owner(d, p, i) = Owner(c, p, i)
                                   /\ Jump(d, p, i) = Jump(c, p, i)
                                   /\ Ends(d, p, i) = Ends(c, p, i)
    BY <2>2 DEF Owner, Jump, Ends
  <2>6. \A i \in 1 .. Len(lines) : /\ Owner(d, p, Size(c, p) + i) = lines[i].of
                                   /\ Jump(d, p, Size(c, p) + i) = lines[i].to
                                   /\ Ends(d, p, Size(c, p) + i) = lines[i].ends
    BY <2>3 DEF Owner, Jump, Ends
  <2> QED
    BY <2>1, <2>4, <2>5, <2>6 DEF Appended
<1>8. \A q \in Page : Size(d, q) = IF q = p THEN Size(c, p) + Len(lines) ELSE Size(c, q)
  BY <1>7 DEF Appended
<1>9. /\ Len(lines) <= FreeLines(s, p) => FreeLines(t, p) = FreeLines(s, p) - Len(lines)
      /\ \A q \in Page \ {p} : FreeLines(t, q) = FreeLines(s, q)
  <2>1. \A q \in Page : /\ FreeLines(s, q) = Spare(Capacity(s, q), Size(c, q))
                        /\ FreeLines(t, q) = Spare(Capacity(s, q), Size(d, q))
                        /\ Size(c, q) \in Nat /\ Capacity(s, q) \in Nat
    BY <1>1, <1>6, PoolParts DEF c
  <2>2. \A n, m, k \in Nat : k <= Spare(n, m) => Spare(n, m + k) = Spare(n, m) - k
    BY LineAssumption DEF Spare
  <2> QED
    BY <1>1, <1>2, <1>8, <2>1, <2>2
<1>10. Placed(t, held)
  <2>1. Lists(t) = Lists(s)
    BY <1>6 DEF Lists, SameLists, Runtime
  <2>2. Accounted(t)
    BY <1>6 DEF Placed, Accounted, SameLists
  <2>3. Allocated(t)
    BY <1>1, <1>6, <1>8 DEF Placed, Allocated, c
  <2>4. ASSUME ~Torn(t) PROVE \A q \in Pages(t) : Size(d, q) <= Capacity(t, q)
    <3>1. Pages(s) \subseteq Page /\ \A q \in Pages(s) : Size(c, q) <= Capacity(s, q)
      BY <1>1, <1>6, <2>4, PoolParts DEF Placed, Lined, c
    <3>2. Size(c, p) + Len(lines) <= Capacity(s, p)
      <4>1. /\ FreeLines(s, p) = Spare(Capacity(s, p), Size(c, p))
            /\ Size(c, p) \in Nat /\ Capacity(s, p) \in Nat
        BY <1>1, PoolParts DEF c
      <4>2. FreeLines(s, p) >= Len(lines) /\ Size(c, p) <= Capacity(s, p)
        BY <1>1, <1>6, <2>4, <3>1 DEF Ample
      <4> QED
        BY <1>2, <4>1, <4>2 DEF Spare
    <3> QED
      BY <1>6, <1>8, <3>1, <3>2
  <2>5. \A i \in DOMAIN Returned(t) : Size(d, Returned(t)[i]) = 0
    <3>1. ASSUME NEW i \in DOMAIN Returned(s)
          PROVE  Returned(s)[i] # p /\ Returned(s)[i] \in Page /\ Size(c, Returned(s)[i]) = 0
      <4>1. Returned(s) \in Seq(Page) /\ "released" \in ListName /\ Lists(s)["released"] = Returned(s)
        BY <1>1, PoolParts, ListsOf
      <4>2. Returned(s)[i] \in Page
        BY <4>1
      <4> QED
        BY <1>1, <4>1, <4>2 DEF Placed, Lined, Listed, c
    <3> QED
      BY <1>6, <1>8, <3>1
  <2> QED
    BY <1>1, <1>6, <2>1, <2>2, <2>3, <2>4, <2>5 DEF Placed, Lined
<1>11. \A q : InTemp(t, q) <=> InTemp(s, q)
  BY <1>6 DEF InTemp, SameLists, Runtime
<1> QED
  BY <1>6, <1>7, <1>9, <1>10, <1>11 DEF Unmoved, t, c

-----------------------------------------------------------------------------
(* The end of a runtime.                                                   *)

\* Where an element of three sequences in a row is from.
LEMMA InARow ==
  ASSUME NEW S, NEW a \in Seq(S), NEW b \in Seq(S), NEW r \in Seq(S)
  PROVE  LET x == a \o b \o r IN
         /\ x \in Seq(S) /\ Len(x) = Len(a) + Len(b) + Len(r)
         /\ \A i \in 1 .. Len(x) :
              x[i] = IF i <= Len(a) THEN a[i]
                     ELSE IF i <= Len(a) + Len(b) THEN b[i - Len(a)] ELSE r[i - Len(a) - Len(b)]
<1> DEFINE ab == a \o b
           x == ab \o r
<1>1. Len(a) \in Nat /\ Len(b) \in Nat /\ Len(r) \in Nat
  OBVIOUS
<1>2. /\ ab \in Seq(S) /\ Len(ab) = Len(a) + Len(b)
      /\ \A i \in 1 .. Len(a) + Len(b) : ab[i] = IF i <= Len(a) THEN a[i] ELSE b[i - Len(a)]
  BY ConcatProperties
<1>3. /\ x \in Seq(S) /\ Len(x) = Len(ab) + Len(r)
      /\ \A i \in 1 .. Len(ab) + Len(r) : x[i] = IF i <= Len(ab) THEN ab[i] ELSE r[i - Len(ab)]
  <2>1. ab \in Seq(S)
    BY <1>2
  <2> HIDE DEF ab
  <2>2. /\ ab \o r \in Seq(S) /\ Len(ab \o r) = Len(ab) + Len(r)
        /\ \A i \in 1 .. Len(ab) + Len(r) :
             (ab \o r)[i] = IF i <= Len(ab) THEN ab[i] ELSE r[i - Len(ab)]
    BY <2>1, ConcatProperties
  <2> QED
    BY <2>2, Zenon
<1> HIDE DEF x, ab
<1>4. Len(x) = Len(a) + Len(b) + Len(r)
  BY <1>1, <1>2, <1>3
<1>5. ASSUME NEW i \in 1 .. Len(x)
      PROVE  x[i] = IF i <= Len(a) THEN a[i]
                    ELSE IF i <= Len(a) + Len(b) THEN b[i - Len(a)] ELSE r[i - Len(a) - Len(b)]
  <2>1. i \in Nat /\ i >= 1
    BY <1>1, <1>4
  <2>2. CASE i <= Len(a) + Len(b)
    <3>1. i \in 1 .. Len(a) + Len(b) /\ i \in 1 .. Len(ab) + Len(r)
      BY <1>1, <1>2, <2>1, <2>2
    <3> QED
      BY <1>2, <1>3, <2>2, <3>1
  <2>3. CASE ~(i <= Len(a) + Len(b))
    <3>1. i - Len(ab) = i - Len(a) - Len(b) /\ ~(i <= Len(a)) /\ i \in 1 .. Len(ab) + Len(r)
      BY <1>1, <1>2, <1>4, <2>1, <2>3
    <3> QED
      BY <1>2, <1>3, <2>3, <3>1
  <2> QED
    BY <2>2, <2>3
<1> QED
  BY <1>3, <1>4, <1>5 DEF x, ab

\* Lists j and k, of a and b pages, are put in front of list m: where element i
\* of list l was.
ListAt(j, k, m, a, b, l, i) ==
  IF l # m THEN l ELSE IF i <= a THEN j ELSE IF i <= a + b THEN k ELSE m
IndexAt(m, a, b, l, i) ==
  IF l # m \/ i <= a THEN i ELSE IF i <= a + b THEN i - a ELSE i - a - b

\* Where an element was tells where it is.
LEMMA Positions ==
  ASSUME NEW j, NEW k, NEW m, j # k, j # m, k # m, NEW a \in Nat, NEW b \in Nat,
         NEW l, NEW n, l # j, l # k, n # j, n # k, NEW i \in Int, NEW x \in Int,
         ListAt(j, k, m, a, b, l, i) = ListAt(j, k, m, a, b, n, x),
         IndexAt(m, a, b, l, i) = IndexAt(m, a, b, n, x)
  PROVE  l = n /\ i = x
<1> USE DEF ListAt, IndexAt
<1>1. CASE l # m
  <2>1. n # m /\ l = n
    BY <1>1
  <2> QED
    BY <1>1, <2>1
<1>2. CASE l = m
  <2>1. n = m
    BY <1>2
  <2>2. CASE i <= a
    BY <1>2, <2>1, <2>2
  <2>3. CASE ~(i <= a) /\ i <= a + b
    BY <1>2, <2>1, <2>3
  <2>4. CASE ~(i <= a) /\ ~(i <= a + b)
    BY <1>2, <2>1, <2>4
  <2> QED
    BY <2>2, <2>3, <2>4
<1> QED
  BY <1>1, <1>2

InARowOf(F, G, j, k, m, a, b, r) ==
  /\ Len(G[j]) = 0 /\ Len(G[k]) = 0 /\ \A l \in ListName \ {j, k, m} : G[l] = F[l]
  /\ Len(F[j]) = a /\ Len(F[k]) = b /\ Len(F[m]) = r /\ Len(G[m]) = a + b + r
  /\ \A i \in 1 .. a + b + r : G[m][i] = IF i <= a THEN F[j][i]
                                          ELSE IF i <= a + b THEN F[k][i - a] ELSE F[m][i - a - b]

LEMMA Merged ==
  ASSUME NEW F \in [ListName -> Seq(Page)], NEW G \in [ListName -> Seq(Page)], Apart(F),
         NEW j \in ListName, NEW k \in ListName, NEW m \in ListName, j # k, j # m, k # m,
         NEW a \in Nat, NEW b \in Nat, NEW r \in Nat, InARowOf(F, G, j, k, m, a, b, r)
  PROVE  /\ Apart(G)
         /\ \A p : Listed(G, p) => Listed(F, p)
         /\ \A i \in DOMAIN G[m] : \E h \in {j, k, m} : \E x \in DOMAIN F[h] : G[m][i] = F[h][x]
<1> DEFINE List(l, i)  == ListAt(j, k, m, a, b, l, i)
           Index(l, i) == IndexAt(m, a, b, l, i)
<1>0. /\ Len(G[j]) = 0 /\ Len(G[k]) = 0 /\ \A l \in ListName \ {j, k, m} : G[l] = F[l]
      /\ Len(F[j]) = a /\ Len(F[k]) = b /\ Len(F[m]) = r /\ Len(G[m]) = a + b + r
      /\ \A i \in 1 .. a + b + r : G[m][i] = IF i <= a THEN F[j][i]
                                              ELSE IF i <= a + b THEN F[k][i - a] ELSE F[m][i - a - b]
  BY DEF InARowOf
<1>1. \A l \in ListName : DOMAIN G[l] = 1 .. Len(G[l]) /\ DOMAIN F[l] = 1 .. Len(F[l])
  OBVIOUS
<1>2. ASSUME NEW l \in ListName, NEW i \in DOMAIN G[l]
      PROVE  /\ i \in Int /\ (i >= 1) /\ l # j /\ l # k
             /\ List(l, i) \in ListName /\ Index(l, i) \in DOMAIN F[List(l, i)]
             /\ G[l][i] = F[List(l, i)][Index(l, i)]
  <2> USE DEF ListAt, IndexAt
  <2>1. Len(G[l]) \in Nat /\ i \in 1 .. Len(G[l])
    BY <1>1
  <2>2. i \in Int /\ i >= 1 /\ l # j /\ l # k
    BY <1>0, <2>1
  <2>3. CASE l = m
    <3>1. i \in 1 .. a + b + r
      BY <1>0, <2>1, <2>3
    <3>2. CASE i <= a
      <4>1. List(l, i) = j /\ Index(l, i) = i /\ i \in 1 .. a
        BY <2>2, <2>3, <3>2
      <4>2. G[m][i] = F[j][i] /\ i \in DOMAIN F[j]
        BY <1>0, <1>1, <3>1, <3>2, <4>1
      <4> QED
        BY <2>2, <2>3, <4>1, <4>2
    <3>3. CASE ~(i <= a) /\ i <= a + b
      <4>1. List(l, i) = k /\ Index(l, i) = i - a /\ i - a \in 1 .. b
        BY <2>2, <2>3, <3>3
      <4>2. G[m][i] = F[k][i - a] /\ i - a \in DOMAIN F[k]
        BY <1>0, <1>1, <3>1, <3>3, <4>1
      <4> QED
        BY <2>2, <2>3, <4>1, <4>2
    <3>4. CASE ~(i <= a) /\ ~(i <= a + b)
      <4>1. List(l, i) = m /\ Index(l, i) = i - a - b /\ i - a - b \in 1 .. r
        BY <2>2, <2>3, <3>1, <3>4
      <4>2. G[m][i] = F[m][i - a - b] /\ i - a - b \in DOMAIN F[m]
        BY <1>0, <1>1, <3>1, <3>4, <4>1
      <4> QED
        BY <2>2, <2>3, <4>1, <4>2
    <3> QED
      BY <3>2, <3>3, <3>4
  <2>4. CASE l # m
    <3>1. G[l] = F[l] /\ i \in DOMAIN F[l] /\ List(l, i) = l /\ Index(l, i) = i
      BY <1>0, <2>2, <2>4
    <3> QED
      BY <2>2, <3>1
  <2> QED
    BY <2>3, <2>4
<1>3. ASSUME NEW l \in ListName, NEW n \in ListName, l # j, l # k, n # j, n # k,
             NEW i \in Int, NEW x \in Int, List(l, i) = List(n, x), Index(l, i) = Index(n, x)
      PROVE  l = n /\ i = x
  BY ONLY <1>3, Positions, j # k, j # m, k # m, a \in Nat, b \in Nat
<1> HIDE DEF List, Index
<1>4. Apart(G)
  <2>1. ASSUME NEW l \in ListName, NEW n \in ListName, NEW i \in DOMAIN G[l], NEW x \in DOMAIN G[n],
               G[l][i] = G[n][x]
        PROVE  l = n /\ i = x
    <3>1. /\ List(l, i) \in ListName /\ Index(l, i) \in DOMAIN F[List(l, i)]
          /\ List(n, x) \in ListName /\ Index(n, x) \in DOMAIN F[List(n, x)]
          /\ F[List(l, i)][Index(l, i)] = F[List(n, x)][Index(n, x)]
      BY <1>2, <2>1
    <3>2. List(l, i) = List(n, x) /\ Index(l, i) = Index(n, x)
      BY <3>1 DEF Apart
    <3>3. l # j /\ l # k /\ n # j /\ n # k /\ i \in Int /\ x \in Int
      BY <1>2
    <3> QED
      BY <1>3, <3>2, <3>3
  <2> QED
    BY <2>1 DEF Apart
<1>5. \A p : Listed(G, p) => Listed(F, p)
  BY <1>2 DEF Listed
<1>6. ASSUME NEW i \in DOMAIN G[m]
      PROVE  \E h \in {j, k, m} : \E x \in DOMAIN F[h] : G[m][i] = F[h][x]
  <2>1. List(m, i) \in {j, k, m}
    BY DEF List, ListAt
  <2>2. Index(m, i) \in DOMAIN F[List(m, i)] /\ G[m][i] = F[List(m, i)][Index(m, i)]
    BY <1>2
  <2> QED
    BY <2>1, <2>2
<1> QED
  BY <1>4, <1>5, <1>6

\* Runtime_Release's pool.
ListsSet(s, rt, l, m) == [s EXCEPT !.open[rt] = l, !.full[rt] = m]

EmptiedPool(s, rt, l, c) ==
  [s EXCEPT !.released = l, !.code = c, !.open[rt] = <<>>, !.full[rt] = <<>>]

LEMMA ListsRecord ==
  ASSUME NEW s \in PoolType, NEW rt \in Runtime, NEW l \in Seq(Page), NEW m \in Seq(Page),
         NEW t, t = ListsSet(s, rt, l, m)
  PROVE  /\ t \in PoolType /\ Returned(t) = Returned(s) /\ SamePages(s, t)
         /\ \A r \in Runtime : /\ Open(t, r) = (IF r = rt THEN l ELSE Open(s, r))
                               /\ Full(t, r) = (IF r = rt THEN m ELSE Full(s, r))
                               /\ Count(t, r) = Count(s, r) /\ Total(t, r) = Total(s, r)
  BY DEF PoolType, ListsSet, SamePages, Open, Full, Count, Total, Pages, Returned, Capacity, CodeOf,
         Torn

LEMMA EmptiedRecord ==
  ASSUME NEW s \in PoolType, NEW rt \in Runtime, NEW l \in Seq(Page), NEW c \in [Page -> Seq(Line)],
         NEW t, t = EmptiedPool(s, rt, l, c)
  PROVE  /\ t \in PoolType /\ Returned(t) = l /\ CodeOf(t) = c /\ Pages(t) = Pages(s)
         /\ Torn(t) = Torn(s)
         /\ \A p \in Page : Capacity(t, p) = Capacity(s, p)
         /\ \A r \in Runtime : /\ Open(t, r) = (IF r = rt THEN <<>> ELSE Open(s, r))
                               /\ Full(t, r) = (IF r = rt THEN <<>> ELSE Full(s, r))
                               /\ Count(t, r) = Count(s, r) /\ Total(t, r) = Total(s, r)
<1> DEFINE none == <<>>
           u == ReleasedSet(s, l)
           v == CodeSet(u, c)
<1>1. t = ListsSet(v, rt, none, none)
  BY Zenon DEF EmptiedPool, ReleasedSet, CodeSet, ListsSet
<1>2. none \in Seq(Page)
  OBVIOUS
<1> HIDE DEF none, v
<1>3. u \in PoolType /\ Returned(u) = l /\ SamePages(s, u) /\ SameLists(s, u)
  BY ReleasedRecord
<1> HIDE DEF u
<1>4. /\ v \in PoolType /\ CodeOf(v) = c /\ Pages(v) = Pages(u) /\ Returned(v) = Returned(u)
      /\ \A q \in Page : Capacity(v, q) = Capacity(u, q)
      /\ Torn(v) = Torn(u) /\ SameLists(u, v)
  BY <1>3, CodeRecord DEF v
<1>5. /\ t \in PoolType /\ Returned(t) = Returned(v) /\ SamePages(v, t)
      /\ \A r \in Runtime : /\ Open(t, r) = (IF r = rt THEN none ELSE Open(v, r))
                            /\ Full(t, r) = (IF r = rt THEN none ELSE Full(v, r))
                            /\ Count(t, r) = Count(v, r) /\ Total(t, r) = Total(v, r)
  BY <1>1, <1>2, <1>4, ListsRecord
<1> QED
  BY <1>3, <1>4, <1>5 DEF none, SameLists, SamePages

LEMMA RuntimeReleased ==
  ASSUME NEW s \in PoolType, NEW rt \in Runtime
  PROVE  LET t == ReleaseRuntime(s, rt) IN
         /\ t \in PoolType /\ Pages(t) = Pages(s) /\ Torn(t) = Torn(s)
         /\ Returned(t) = Full(s, rt) \o Open(s, rt) \o Returned(s)
         /\ \A p \in Page : Capacity(t, p) = Capacity(s, p)
         /\ \A p \in Page :
              LET back == (\E i \in DOMAIN Open(s, rt) : Open(s, rt)[i] = p)
                            \/ (\E i \in DOMAIN Full(s, rt) : Full(s, rt)[i] = p)
              IN  /\ back => Size(CodeOf(t), p) = 0
                  /\ ~back => Size(CodeOf(t), p) = Size(CodeOf(s), p)
         /\ \A r \in Runtime : /\ Open(t, r) = (IF r = rt THEN <<>> ELSE Open(s, r))
                               /\ Full(t, r) = (IF r = rt THEN <<>> ELSE Full(s, r))
                               /\ Count(t, r) = Count(s, r) /\ Total(t, r) = Total(s, r)
<1> DEFINE t == ReleaseRuntime(s, rt)
           o == Open(s, rt)
           f == Full(s, rt)
           back == ToSet(o \o f)
           l == f \o o \o Returned(s)
           c == [p \in Page |-> IF p \in back THEN <<>> ELSE CodeOf(s)[p]]
<1>1. o \in Seq(Page) /\ f \in Seq(Page) /\ Returned(s) \in Seq(Page) /\ CodeOf(s) \in [Page -> Seq(Line)]
  BY PoolParts
<1>2. t = EmptiedPool(s, rt, l, c)
  BY Zenon DEF ReleaseRuntime, EmptiedPool, Open, Full, Returned, CodeOf
<1>3. l \in Seq(Page)
  <2> HIDE DEF o, f
  <2> QED
    BY <1>1, InARow
<1>4. c \in [Page -> Seq(Line)]
  <2>1. <<>> \in Seq(Line)
    OBVIOUS
  <2> HIDE DEF back
  <2> QED
    BY <1>1, <2>1
<1>5. \A p \in Page : p \in back <=> \/ \E i \in DOMAIN o : o[i] = p
                                     \/ \E i \in DOMAIN f : f[i] = p
  <2> HIDE DEF o, f
  <2>1. Len(o) \in Nat /\ Len(f) \in Nat /\ DOMAIN o = 1 .. Len(o) /\ DOMAIN f = 1 .. Len(f)
    BY <1>1
  <2>2. /\ Len(o \o f) = Len(o) + Len(f) /\ DOMAIN (o \o f) = 1 .. Len(o) + Len(f)
        /\ \A i \in 1 .. Len(o) + Len(f) : (o \o f)[i] = IF i <= Len(o) THEN o[i] ELSE f[i - Len(o)]
    BY <1>1, ConcatProperties
  <2>3. \A p : p \in back <=> \E i \in DOMAIN (o \o f) : (o \o f)[i] = p
    BY DEF ToSet
  <2> HIDE DEF back
  <2> DEFINE x == o \o f
  <2>4. /\ DOMAIN x = 1 .. Len(o) + Len(f)
        /\ \A i \in 1 .. Len(o) + Len(f) : x[i] = IF i <= Len(o) THEN o[i] ELSE f[i - Len(o)]
        /\ \A p : p \in back <=> \E i \in DOMAIN x : x[i] = p
    BY <2>2, <2>3
  <2> HIDE DEF x
  <2>5. ASSUME NEW p, NEW i \in DOMAIN x, x[i] = p
        PROVE  (\E j \in DOMAIN o : o[j] = p) \/ (\E j \in DOMAIN f : f[j] = p)
    <3>1. CASE i <= Len(o)
      <4>1. i \in DOMAIN o /\ o[i] = p
        BY <2>1, <2>4, <2>5, <3>1
      <4> QED
        BY <4>1
    <3>2. CASE ~(i <= Len(o))
      <4>1. i - Len(o) \in DOMAIN f
        BY <2>1, <2>4, <3>2
      <4>2. f[i - Len(o)] = p
        BY <2>4, <2>5, <3>2
      <4> QED
        BY <4>1, <4>2
    <3> QED
      BY <3>1, <3>2
  <2>6. ASSUME NEW i \in DOMAIN o
        PROVE  i \in DOMAIN x /\ x[i] = o[i]
    BY <2>1, <2>4
  <2>7. ASSUME NEW i \in DOMAIN f
        PROVE  Len(o) + i \in DOMAIN x /\ x[Len(o) + i] = f[i]
    <3>1. Len(o) + i \in 1 .. Len(o) + Len(f) /\ ~(Len(o) + i <= Len(o)) /\ Len(o) + i - Len(o) = i
      BY <2>1
    <3>2. x[Len(o) + i] = f[Len(o) + i - Len(o)]
      BY <2>4, <3>1
    <3> QED
      BY <2>4, <3>1, <3>2
  <2> QED
    BY <2>4, <2>5, <2>6, <2>7
<1> HIDE DEF t, l, c
<1>6. /\ t \in PoolType /\ Returned(t) = l /\ CodeOf(t) = c /\ Pages(t) = Pages(s)
      /\ Torn(t) = Torn(s)
      /\ \A p \in Page : Capacity(t, p) = Capacity(s, p)
      /\ \A r \in Runtime : /\ Open(t, r) = (IF r = rt THEN <<>> ELSE Open(s, r))
                            /\ Full(t, r) = (IF r = rt THEN <<>> ELSE Full(s, r))
                            /\ Count(t, r) = Count(s, r) /\ Total(t, r) = Total(s, r)
  BY <1>2, <1>3, <1>4, EmptiedRecord
<1>7. ASSUME NEW p \in Page
      PROVE  /\ p \in back => Size(c, p) = 0
             /\ p \notin back => Size(c, p) = Size(CodeOf(s), p)
  <2> HIDE DEF back
  <2>1. c[p] = IF p \in back THEN <<>> ELSE CodeOf(s)[p]
    BY DEF c
  <2> QED
    BY <2>1 DEF Size
<1> HIDE DEF back
<1> QED
  BY <1>5, <1>6, <1>7 DEF t, l, o, f

Uncounted(s, rt, a, b) == [s EXCEPT !.active[rt] = a, !.total[rt] = b]

LEMMA UncountedRecord ==
  ASSUME NEW s \in PoolType, NEW rt \in Runtime, NEW a \in Int, NEW b \in Nat,
         NEW t, t = Uncounted(s, rt, a, b)
  PROVE  CountsChanged(s, t, rt, a, b) /\ SamePages(s, t) /\ Returned(t) = Returned(s)
  BY DEF Uncounted, PoolType, CountsChanged, SamePages, Open, Full, Count, Total, Pages,
         Returned, Capacity, CodeOf, Torn

\* The temporary runtime is gone, its pages with the environment.
LEMMA TempDiscarded ==
  ASSUME NEW s, NEW held, Placed(s, held)
  PROVE  LET t == DiscardTemp(s) IN
         /\ Placed(t, held) /\ NoTemp(t) /\ Count(t, "temp") = 0
         /\ Open(t, "main") = Open(s, "main") /\ Full(t, "main") = Full(s, "main")
         /\ Count(t, "main") = Count(s, "main")
         /\ \A p \in Page : Size(CodeOf(t), p) # 0 => Size(CodeOf(s), p) # 0 /\ ~InTemp(s, p)
<1> DEFINE u == ReleaseRuntime(s, "temp")
           t == DiscardTemp(s)
<1>1. s \in PoolType /\ "temp" \in Runtime /\ "main" \in Runtime
  BY DEF Placed, Runtime
<1>2. /\ u \in PoolType /\ Pages(u) = Pages(s) /\ Torn(u) = Torn(s)
      /\ Returned(u) = Full(s, "temp") \o Open(s, "temp") \o Returned(s)
      /\ \A p \in Page : Capacity(u, p) = Capacity(s, p)
      /\ \A p \in Page : /\ InTemp(s, p) => Size(CodeOf(u), p) = 0
                         /\ ~InTemp(s, p) => Size(CodeOf(u), p) = Size(CodeOf(s), p)
      /\ \A r \in Runtime : /\ Open(u, r) = (IF r = "temp" THEN <<>> ELSE Open(s, r))
                            /\ Full(u, r) = (IF r = "temp" THEN <<>> ELSE Full(s, r))
                            /\ Count(u, r) = Count(s, r) /\ Total(u, r) = Total(s, r)
  BY <1>1, RuntimeReleased DEF InTemp
<1> HIDE DEF u
<1>3. t = Uncounted(u, "temp", 0, 0)
  BY Zenon DEF DiscardTemp, Uncounted, u
<1>4. CountsChanged(u, t, "temp", 0, 0) /\ SamePages(u, t) /\ Returned(t) = Returned(u)
  BY <1>1, <1>2, <1>3, UncountedRecord
<1> HIDE DEF t
<1>5. /\ t \in PoolType /\ Pages(t) = Pages(s) /\ CodeOf(t) = CodeOf(u) /\ Torn(t) = Torn(s)
      /\ Returned(t) = Full(s, "temp") \o Open(s, "temp") \o Returned(s)
      /\ \A p \in Page : Capacity(t, p) = Capacity(s, p)
      /\ Open(t, "temp") = <<>> /\ Full(t, "temp") = <<>>
      /\ Count(t, "temp") = 0 /\ Total(t, "temp") = 0
      /\ Open(t, "main") = Open(s, "main") /\ Full(t, "main") = Full(s, "main")
      /\ Count(t, "main") = Count(s, "main") /\ Total(t, "main") = Total(s, "main")
  BY <1>1, <1>2, <1>4 DEF CountsChanged, SamePages
<1>6. \A p \in Page : /\ Size(CodeOf(t), p) # 0 => Size(CodeOf(s), p) # 0 /\ ~InTemp(s, p)
                      /\ Size(CodeOf(t), p) = 0 \/ Size(CodeOf(t), p) = Size(CodeOf(s), p)
  BY <1>2, <1>5
<1> DEFINE F == Lists(s)
           G == Lists(t)
<1>7. F \in [ListName -> Seq(Page)] /\ G \in [ListName -> Seq(Page)] /\ Apart(F)
  BY <1>1, <1>5, ListsOf DEF Placed
<1>8. /\ F["temp open"] = Open(s, "temp") /\ F["temp full"] = Full(s, "temp")
      /\ F["released"] = Returned(s) /\ F["open"] = Open(s, "main") /\ F["full"] = Full(s, "main")
      /\ G["temp open"] = Open(t, "temp") /\ G["temp full"] = Full(t, "temp")
      /\ G["released"] = Returned(t) /\ G["open"] = Open(t, "main") /\ G["full"] = Full(t, "main")
  BY DEF Lists, ListName
<1>9. /\ G["open"] = F["open"] /\ G["full"] = F["full"]
      /\ G["temp open"] = <<>> /\ G["temp full"] = <<>>
      /\ G["released"] = F["temp full"] \o F["temp open"] \o F["released"]
  BY <1>5, <1>8
<1> DEFINE j == "temp full"
           k == "temp open"
           m == "released"
<1>10. /\ j \in ListName /\ k \in ListName /\ m \in ListName /\ j # k /\ j # m /\ k # m
       /\ \A l \in ListName \ {j, k, m} : l \in {"open", "full"}
  BY DEF ListName
<1>11. /\ \A l \in ListName \ {j, k, m} : G[l] = F[l]
       /\ Len(G[j]) = 0 /\ Len(G[k]) = 0 /\ G[m] = F[j] \o F[k] \o F[m]
  <2>1. ASSUME NEW l \in ListName \ {j, k, m}
        PROVE  G[l] = F[l]
    BY <1>9, <1>10
  <2>2. Len(<<>>) = 0
    OBVIOUS
  <2> QED
    BY <1>9, <2>1, <2>2
<1> HIDE DEF j, k, m
<1>12. /\ Apart(G) /\ \A p : Listed(G, p) => Listed(F, p)
       /\ \A i \in DOMAIN G[m] : \E h \in {j, k, m} : \E x \in DOMAIN F[h] : G[m][i] = F[h][x]
  <2> DEFINE a == F[j]
             b == F[k]
             r == F[m]
             x == a \o b \o r
  <2>1. a \in Seq(Page) /\ b \in Seq(Page) /\ r \in Seq(Page) /\ G[m] = x
    BY <1>7, <1>10, <1>11
  <2> HIDE DEF a, b, r
  <2>2. /\ Len(x) = Len(a) + Len(b) + Len(r)
        /\ \A i \in 1 .. Len(x) :
             x[i] = IF i <= Len(a) THEN a[i]
                    ELSE IF i <= Len(a) + Len(b) THEN b[i - Len(a)] ELSE r[i - Len(a) - Len(b)]
    BY <2>1, InARow
  <2>3. Len(a) \in Nat /\ Len(b) \in Nat /\ Len(r) \in Nat
    BY <2>1
  <2> HIDE DEF x
  <2> DEFINE la == Len(a)
             lb == Len(b)
             lr == Len(r)
  <2>4. la \in Nat /\ lb \in Nat /\ lr \in Nat
    BY <2>3
  <2>5. /\ Len(G[j]) = 0 /\ Len(G[k]) = 0 /\ \A l \in ListName \ {j, k, m} : G[l] = F[l]
        /\ Len(F[j]) = la /\ Len(F[k]) = lb /\ Len(F[m]) = lr /\ Len(G[m]) = la + lb + lr
        /\ \A i \in 1 .. la + lb + lr : G[m][i] = IF i <= la THEN F[j][i]
                                                  ELSE IF i <= la + lb THEN F[k][i - la]
                                                  ELSE F[m][i - la - lb]
    BY <1>11, <2>1, <2>2, <2>3 DEF a, b, r
  <2> HIDE DEF la, lb, lr
  <2>6. InARowOf(F, G, j, k, m, la, lb, lr)
    BY <2>5 DEF InARowOf
  <2> HIDE DEF F, G
  <2> QED
    BY <1>7, <1>10, <2>4, <2>6, Merged
<1>13. \A i \in DOMAIN Returned(t) : Size(CodeOf(t), Returned(t)[i]) = 0
  <2>1. ASSUME NEW i \in DOMAIN Returned(t)
        PROVE  Size(CodeOf(t), Returned(t)[i]) = 0
    <3>1. i \in DOMAIN G[m] /\ Returned(t)[i] = G[m][i]
      BY <1>8 DEF m
    <3>2. PICK h \in {j, k, m} : \E x \in DOMAIN F[h] : G[m][i] = F[h][x]
      BY <1>12, <3>1
    <3>3. PICK x \in DOMAIN F[h] : Returned(t)[i] = F[h][x]
      BY <3>1, <3>2
    <3>4. F[h][x] \in Page
      BY <1>7, <1>10
    <3>5. CASE h = m
      <4>1. Size(CodeOf(s), F[h][x]) = 0
        BY <1>8, <3>5 DEF Placed, Lined, m
      <4> QED
        BY <1>6, <3>3, <3>4, <4>1
    <3>6. CASE h \in {j, k}
      <4>1. InTemp(s, F[h][x])
        BY <1>8, <3>6 DEF InTemp, j, k
      <4> QED
        BY <1>6, <3>3, <3>4, <4>1
    <3> QED
      BY <3>2, <3>5, <3>6
  <2> QED
    BY <2>1
<1>14. Accounted(t)
  <2>1. Len(Open(s, "main")) + Len(Full(s, "main")) + Count(s, "main") = Total(s, "main")
    BY <1>1 DEF Placed, Accounted
  <2>2. Len(Open(t, "main")) + Len(Full(t, "main")) + Count(t, "main") = Total(t, "main")
    BY <1>5, <2>1
  <2>3. Len(Open(t, "temp")) = 0 /\ Len(Full(t, "temp")) = 0
    BY <1>5
  <2>4. Len(Open(t, "temp")) + Len(Full(t, "temp")) + Count(t, "temp") = Total(t, "temp")
    BY <1>5, <2>3
  <2> QED
    BY <2>2, <2>4 DEF Accounted, Runtime
<1>15. Allocated(t)
  BY <1>5, <1>6 DEF Placed, Allocated
<1>16. Lined(t)
  <2>1. ASSUME ~Torn(t), NEW p \in Pages(t)
        PROVE  Size(CodeOf(t), p) <= Capacity(t, p)
    <3>1. p \in Page /\ p \in Pages(s) /\ Size(CodeOf(s), p) <= Capacity(s, p) /\ Capacity(s, p) \in Nat
      BY <1>1, <1>5, <2>1, PoolParts DEF Placed, Lined
    <3> QED
      BY <1>5, <1>6, <3>1
  <2> QED
    BY <1>13, <2>1 DEF Lined
<1>17. Placed(t, held)
  <2>1. /\ \A p \in Page : Listed(G, p) => p \in Pages(t)
        /\ held \subseteq Pages(t) /\ \A p \in held : ~Listed(G, p)
    BY <1>5, <1>12 DEF Placed, F
  <2> QED
    BY <1>5, <1>12, <1>14, <1>15, <1>16, <2>1 DEF Placed, G
<1> QED
  BY <1>5, <1>6, <1>17 DEF t, NoTemp

-----------------------------------------------------------------------------
(* The pages a failed compilation gives back.                              *)

\* The fold that is ReleaseAll, over the first n of the contexts cs.
Given(rt, cs, m, t) == ReleasePage(t, rt, At(cs, m))

GivenAt(s, rt, cs, iter, t) == IF t = {} THEN s ELSE Given(rt, cs, Max(t), iter[t \ {Max(t)}])

Fold(s, rt, cs, n, iter) == iter = [t \in SUBSET (1 .. n) |-> GivenAt(s, rt, cs, iter, t)]

LEMMA FoldExists ==
  ASSUME NEW s, NEW rt, NEW cs, NEW n \in Nat
  PROVE  \E iter : Fold(s, rt, cs, n, iter)
<1> DEFINE I == {m \in Nat : \E iter : Fold(s, rt, cs, m, iter)}
<1>1. 0 \in I
  <2> DEFINE h == [t \in SUBSET (1 .. 0) |-> s]
  <2>1. \A t \in SUBSET (1 .. 0) : t = {}
    OBVIOUS
  <2>2. h = [t \in SUBSET (1 .. 0) |-> GivenAt(s, rt, cs, h, t)]
    BY <2>1 DEF GivenAt
  <2> HIDE DEF h
  <2> QED
    BY <2>2 DEF Fold
<1>2. ASSUME NEW m \in Nat, m \in I
      PROVE  m + 1 \in I
  <2>1. PICK g : Fold(s, rt, cs, m, g)
    BY <1>2
  <2> DEFINE h == [t \in SUBSET (1 .. m + 1) |->
                     IF m + 1 \in t THEN Given(rt, cs, m + 1, g[t \ {m + 1}]) ELSE g[t]]
  <2>2. ASSUME NEW t \in SUBSET (1 .. m + 1)
        PROVE  h[t] = GivenAt(s, rt, cs, h, t)
    <3>1. t \ {m + 1} \in SUBSET (1 .. m) /\ t \ {m + 1} \in SUBSET (1 .. m + 1)
      BY <1>2
    <3>2. CASE m + 1 \in t
      <4>1. Max(t) = m + 1
        <5> DEFINE M == m + 1
        <5>0. M \in Nat /\ t \in SUBSET (1 .. M) /\ t # {}
          BY <3>2
        <5> HIDE DEF M
        <5>1. Max(t) \in t /\ \A y \in t : y <= Max(t)
          BY ONLY <5>0, Extremes
        <5>2. Max(t) \in 1 .. m + 1 /\ m + 1 <= Max(t)
          BY <3>2, <5>1
        <5> QED
          BY <1>2, <5>2
      <4>2. h[t \ {m + 1}] = g[t \ {m + 1}] /\ h[t] = Given(rt, cs, m + 1, g[t \ {m + 1}])
        BY <3>1, <3>2
      <4> HIDE DEF h
      <4>3. t # {}
        BY <3>2
      <4> QED
        BY <4>1, <4>2, <4>3 DEF GivenAt
    <3>3. CASE m + 1 \notin t
      <4>1. t \in SUBSET (1 .. m) /\ h[t] = g[t]
        BY <3>1, <3>3
      <4>2. g[t] = GivenAt(s, rt, cs, g, t)
        BY <2>1, <4>1 DEF Fold
      <4>3. t # {} => h[t \ {Max(t)}] = g[t \ {Max(t)}]
        BY <3>3
      <4> HIDE DEF h
      <4> QED
        BY <4>1, <4>2, <4>3 DEF GivenAt
    <3> QED
      BY <3>2, <3>3
  <2>3. h = [t \in SUBSET (1 .. m + 1) |-> GivenAt(s, rt, cs, h, t)]
    <3>1. h = [t \in SUBSET (1 .. m + 1) |-> h[t]]
      OBVIOUS
    <3> HIDE DEF h
    <3> QED
      BY <2>2, <3>1
  <2> HIDE DEF h
  <2> QED
    BY <1>2, <2>3 DEF Fold
<1> HIDE DEF I
<1>3. n \in I
  BY <1>1, <1>2, Induction
<1> QED
  BY <1>3 DEF I

\* The pools r on the way.
Unfolded(s, rt, open, n, r) ==
  /\ r[0] = s /\ r[n] = ReleaseAll(s, rt, open)
  /\ \A k \in 1 .. n : r[k] = ReleasePage(r[k - 1], rt, At(open, n - k + 1))

LEMMA ReleaseAllUnfolds ==
  ASSUME NEW s, NEW rt, NEW open, NEW n \in Nat, Len(open) = n
  PROVE  \E r : Unfolded(s, rt, open, n, r)
<1> DEFINE cs == Reverse(open)
           C == CHOOSE i : Fold(s, rt, cs, n, i)
           r == [k \in 0 .. n |-> C[1 .. k]]
<1>1. DOMAIN cs = 1 .. n /\ \A k \in 1 .. n : At(cs, k) = At(open, n - k + 1)
  BY DEF Reverse, At
<1>2. ReleaseAll(s, rt, open) = C[1 .. n]
  BY <1>1 DEF ReleaseAll, FoldLeft, MapThenFoldSet, Fold, Given, GivenAt, At
<1>3. Fold(s, rt, cs, n, C)
  <2> HIDE DEF cs
  <2> QED
    BY FoldExists
<1> HIDE DEF C, cs
<1>4. \A t \in SUBSET (1 .. n) : C[t] = GivenAt(s, rt, cs, C, t)
  BY <1>3 DEF Fold
<1>5. C[1 .. 0] = s
  <2>1. 1 .. 0 = {} /\ 1 .. 0 \in SUBSET (1 .. n)
    OBVIOUS
  <2> QED
    BY <1>4, <2>1 DEF GivenAt
<1>6. ASSUME NEW k \in 1 .. n
      PROVE  C[1 .. k] = ReleasePage(C[1 .. k - 1], rt, At(open, n - k + 1))
  <2>1. k \in Nat /\ 1 .. k \in SUBSET (1 .. n) /\ k \in 1 .. k
    OBVIOUS
  <2>2. Max(1 .. k) = k
    <3>1. Max(1 .. k) \in 1 .. k /\ \A y \in 1 .. k : y <= Max(1 .. k)
      BY <2>1, Extremes
    <3> HIDE DEF Max
    <3> QED
      BY <2>1, <3>1
  <2>3. (1 .. k) \ {k} = 1 .. k - 1
    BY <2>1
  <2>4. C[1 .. k] = Given(rt, cs, k, C[1 .. k - 1])
    BY <1>4, <2>1, <2>2, <2>3 DEF GivenAt
  <2> QED
    BY <1>1, <2>4 DEF Given
<1>7. \A k \in 0 .. n : r[k] = C[1 .. k]
  OBVIOUS
<1> HIDE DEF r
<1>8. /\ r[0] = s /\ r[n] = ReleaseAll(s, rt, open)
      /\ \A k \in 1 .. n : r[k] = ReleasePage(r[k - 1], rt, At(open, n - k + 1))
  <2>1. ASSUME NEW k \in 1 .. n
        PROVE  r[k] = ReleasePage(r[k - 1], rt, At(open, n - k + 1))
    <3>1. k \in 0 .. n /\ k - 1 \in 0 .. n
      OBVIOUS
    <3> QED
      BY <1>6, <1>7, <3>1
  <2> QED
    BY <1>2, <1>5, <1>7, <2>1
<1> QED
  BY <1>8 DEF Unfolded

\* What it leaves out of the lists may be less.
LEMMA FewerHeld ==
  ASSUME NEW s, NEW held, Placed(s, held), NEW less \in SUBSET held
  PROVE  Placed(s, less)
  BY DEF Placed

LEMMA AllReleased ==
  ASSUME NEW s, NEW held, Placed(s, held), NEW rt \in Runtime, NEW open, NEW n \in Nat,
         Len(open) = n, \A i \in 1 .. n : At(open, i) \in held,
         \A i, j \in 1 .. n : At(open, i) = At(open, j) => i = j
  PROVE  LET t == ReleaseAll(s, rt, open) IN
         /\ Placed(t, {}) /\ CodeOf(t) = CodeOf(s)
         /\ \A r \in Runtime : /\ Count(t, r) = (IF r = rt THEN Count(s, r) - n ELSE Count(s, r))
                               /\ r # rt => Open(t, r) = Open(s, r) /\ Full(t, r) = Full(s, r)
<1> DEFINE Left(k) == {At(open, i) : i \in 1 .. k}
           Given1(t, k) ==
             /\ Placed(t, Left(n - k)) /\ CodeOf(t) = CodeOf(s)
             /\ \A r \in Runtime : /\ Count(t, r) = (IF r = rt THEN Count(s, r) - k ELSE Count(s, r))
                                   /\ r # rt => Open(t, r) = Open(s, r) /\ Full(t, r) = Full(s, r)
<1>0. PICK r : Unfolded(s, rt, open, n, r)
  BY ReleaseAllUnfolds
<1>1. /\ r[0] = s /\ r[n] = ReleaseAll(s, rt, open)
      /\ \A k \in 1 .. n : r[k] = ReleasePage(r[k - 1], rt, At(open, n - k + 1))
  BY <1>0 DEF Unfolded
<1> DEFINE I == {k \in Nat : k <= n => Given1(r[k], k)}
<1>2. 0 \in I
  <2>1. Placed(s, Left(n))
    <3>1. Left(n) \in SUBSET held
      OBVIOUS
    <3> HIDE DEF Spare
    <3> QED
      BY <3>1, FewerHeld
  <2>2. \A q \in Runtime : Count(s, q) \in Int
    BY PoolParts DEF Placed
  <2> HIDE DEF Spare
  <2>3. n - 0 = n /\ \A q \in Runtime : Count(s, q) - 0 = Count(s, q)
    BY <2>2
  <2>4. Given1(s, 0)
    BY <2>1, <2>3
  <2> HIDE DEF Given1
  <2> QED
    BY <1>1, <2>4
<1>3. ASSUME NEW k \in Nat, k \in I
      PROVE  k + 1 \in I
  <2>1. SUFFICES ASSUME k + 1 <= n
                 PROVE  Given1(r[k + 1], k + 1)
    <3> HIDE DEF Given1
    <3> QED
      OBVIOUS
  <2> DEFINE t == r[k]
             p == At(open, n - k)
             u == ReleasePage(t, rt, p)
  <2>2. Given1(t, k)
    BY <1>3, <2>1
  <2>3. r[k + 1] = u
    <3>1. k + 1 \in 1 .. n /\ k + 1 - 1 = k /\ n - (k + 1) + 1 = n - k
      BY <2>1
    <3> QED
      BY <1>1, <3>1
  <2>4. p \in Left(n - k) /\ Left(n - k) \ {p} = Left(n - (k + 1))
    <3>1. n - k \in 1 .. n - k /\ n - k \in 1 .. n /\ 1 .. n - k = (1 .. n - (k + 1)) \cup {n - k}
      BY <2>1
    <3>2. \A i \in 1 .. n - (k + 1) : i \in 1 .. n /\ i # n - k
      BY <2>1
    <3>3. \A i \in 1 .. n - (k + 1) : At(open, i) # p
      BY <3>1, <3>2
    <3> QED
      BY <3>1, <3>3
  <2> HIDE DEF t, p, u
  <2>5. Placed(t, Left(n - k))
    BY <2>2
  <2> HIDE DEF Spare
  <2>6. Placed(u, Left(n - k) \ {p}) /\ GivenBack(t, u, rt, p)
    BY <2>4, <2>5, PageReleased DEF u
  <2>7. ASSUME NEW q \in Runtime
        PROVE  /\ Count(u, q) = (IF q = rt THEN Count(s, q) - (k + 1) ELSE Count(s, q))
               /\ q # rt => Open(u, q) = Open(s, q) /\ Full(u, q) = Full(s, q)
    <3>1. Count(s, q) \in Int
      BY PoolParts DEF Placed
    <3>2. /\ Count(t, q) = (IF q = rt THEN Count(s, q) - k ELSE Count(s, q))
          /\ q # rt => Open(t, q) = Open(s, q) /\ Full(t, q) = Full(s, q)
      BY <2>2
    <3>3. /\ Count(u, q) = (IF q = rt THEN Count(t, q) - 1 ELSE Count(t, q))
          /\ q # rt => Open(u, q) = Open(t, q) /\ Full(u, q) = Full(t, q)
      BY <2>6 DEF GivenBack
    <3> QED
      BY <3>1, <3>2, <3>3
  <2>8. CodeOf(u) = CodeOf(s)
    BY <2>2, <2>6 DEF GivenBack
  <2> QED
    BY <2>3, <2>4, <2>6, <2>7, <2>8
<1>4. n \in I
  <2> HIDE DEF I
  <2> QED
    BY <1>2, <1>3, Induction
<1>5. Given1(r[n], n)
  BY <1>4
<1>6. Left(n - n) = {}
  OBVIOUS
<1> HIDE DEF Spare
<1> QED
  BY <1>1, <1>5, <1>6
-----------------------------------------------------------------------------
(* Where code goes on, as more is written.                                 *)

\* What a place is.
LEMMA PlaceParts ==
  ASSUME NEW l \in Destination, l # Nowhere
  PROVE  PageOf(l) \in Page /\ LineOf(l) \in Nat /\ FragOf(l) \in Fragment
  BY DEF Destination, Place, PageOf, LineOf, FragOf

\* The place after the code on a page.
LEMMA LocationParts ==
  ASSUME NEW s \in PoolType, NEW p \in Page, NEW f \in Fragment
  PROVE  LET l == Location(s, p, f) IN
         /\ l \in Destination /\ l # Nowhere
         /\ PageOf(l) = p /\ LineOf(l) = Size(CodeOf(s), p) /\ FragOf(l) = f
<1> DEFINE k == Size(CodeOf(s), p)
           l == [page |-> p, line |-> k, of |-> f]
<1>1. k \in Nat
  BY PoolParts
<1>2. Location(s, p, f) = l
  BY Zenon DEF Location, Size, CodeOf
<1> HIDE DEF k
<1>3. l \in Place /\ PageOf(l) = p /\ LineOf(l) = k /\ FragOf(l) = f
  BY <1>1 DEF Place, PageOf, LineOf, FragOf
<1> HIDE DEF l
<1>4. l \in Destination /\ l # Nowhere
  BY <1>3, NowhereAssumption DEF Destination
<1> QED
  BY <1>2, <1>3, <1>4 DEF k

\* What code is.
LEMMA CodeParts ==
  ASSUME NEW c \in [Page -> Seq(Line)]
  PROVE  \A p \in Page : /\ Size(c, p) \in Nat
                         /\ \A i \in 1 .. Size(c, p) :
                              Owner(c, p, i) \in Fragment /\ Jump(c, p, i) \in Destination
<1> SUFFICES ASSUME NEW p \in Page
             PROVE  /\ Size(c, p) \in Nat
                    /\ \A i \in 1 .. Size(c, p) :
                         Owner(c, p, i) \in Fragment /\ Jump(c, p, i) \in Destination
  OBVIOUS
<1>1. c[p] \in Seq(Line)
  OBVIOUS
<1>2. \A i \in 1 .. Len(c[p]) : c[p][i] \in Line
  BY <1>1
<1>3. \A x \in Line : x.of \in Fragment /\ x.to \in Destination
  BY DEF Line
<1> QED
  BY <1>1, <1>2, <1>3 DEF Size, Owner, Jump

\* Lines of f alone.
LinesOf(f, lines) ==
  Len(lines) \in Nat \ {0} /\ \A i \in 1 .. Len(lines) : lines[i].of = f

\* Only f is compiled on page p, and nowhere else.
Alone(cs, f, p) ==
  On(cs, f, p) /\ \A g, q : On(cs, g, q) => (q = p <=> g = f)

\* es is what is left of cs, except for what was on page p.
Remain(cs, es, p) ==
  /\ \A g, q : On(cs, g, q) /\ q # p => On(es, g, q)
  /\ \A j \in 1 .. Len(es) : \E i \in 1 .. Len(cs) : Frag(es, j) = Frag(cs, i) /\ KindOf(es, j) = KindOf(cs, i)

\* What goes on before f writes goes on after it.
LEMMA Continued ==
  ASSUME NEW c, NEW d, NEW cs, NEW es, NEW p \in Page, NEW f, NEW lines,
         Appended(c, d, p, lines), LinesOf(f, lines), Alone(cs, f, p), Remain(cs, es, p),
         \A x \in Page : Size(c, x) \in Nat,
         NEW q \in Page, NEW k \in Nat, NEW g, GoesOn(c, cs, q, k, g)
  PROVE  GoesOn(d, es, q, k, g)
<1>1. Size(c, q) \in Nat /\ Len(lines) \in Nat \ {0}
  BY DEF LinesOf
<1>2. CASE q # p
  <2>1. Size(d, q) = Size(c, q) /\ \A i \in 1 .. Size(c, q) : Owner(d, q, i) = Owner(c, q, i)
    BY <1>2 DEF Appended
  <2>2. CASE k < Size(c, q)
    <3>1. k + 1 \in 1 .. Size(c, q)
      BY <1>1, <2>2
    <3> QED
      BY <2>1, <2>2, <3>1 DEF GoesOn
  <2>3. CASE ~(k < Size(c, q))
    BY <1>2, <2>1, <2>3 DEF GoesOn, Remain
  <2> QED
    BY <2>2, <2>3
<1>3. CASE q = p
  <2>1. /\ Size(d, p) = Size(c, p) + Len(lines)
        /\ \A i \in 1 .. Size(c, p) : Owner(d, p, i) = Owner(c, p, i)
        /\ \A i \in 1 .. Len(lines) : Owner(d, p, Size(c, p) + i) = f
    BY DEF Appended, LinesOf
  <2>2. CASE k < Size(c, p)
    <3>1. k + 1 \in 1 .. Size(c, p) /\ k < Size(d, p)
      BY <1>1, <1>3, <2>1, <2>2
    <3> QED
      BY <1>3, <2>1, <2>2, <3>1 DEF GoesOn
  <2>3. CASE ~(k < Size(c, p))
    <3>1. k = Size(c, p) /\ On(cs, g, p)
      BY <1>3, <2>3 DEF GoesOn
    <3>2. g = f
      BY <3>1 DEF Alone
    <3>3. 1 \in 1 .. Len(lines) /\ k < Size(d, p)
      BY <1>1, <1>3, <2>1, <3>1
    <3>4. Owner(d, p, k + 1) = f
      BY <2>1, <3>1, <3>3
    <3> QED
      BY <1>3, <3>2, <3>3, <3>4 DEF GoesOn
  <2> QED
    BY <2>2, <2>3
<1> QED
  BY <1>2, <1>3

\* Where new lines of f may jump to.
Lead(d, es, n, f, lines) ==
  \A i \in 1 .. Len(lines) :
    lines[i].to # Nowhere =>
      /\ Reaches(d, es, lines[i].to) /\ FragOf(lines[i].to) <= n
      /\ \A j \in 1 .. Len(es) : KindOf(es, j) = "target" => \/ Frag(es, j) = f
                                                            \/ FragOf(lines[i].to) # Frag(es, j)

\* The last of them ends, or f goes on after it.
Closed(es, f, p, lines) ==
  /\ \A i \in 1 .. Len(lines) : ~lines[i].ends => i < Len(lines) \/ On(es, f, p)

\* Nothing new of g.
LEMMA StillUnwritten ==
  ASSUME NEW c, NEW d, NEW p \in Page, NEW f, NEW lines, NEW g,
         Appended(c, d, p, lines), LinesOf(f, lines), \A x \in Page : Size(c, x) \in Nat,
         Unwritten(c, g), g # f,
         \A i \in 1 .. Len(lines) : lines[i].to # Nowhere => FragOf(lines[i].to) # g
  PROVE  Unwritten(d, g)
<1>1. ASSUME NEW q \in Page, NEW i \in 1 .. Size(d, q)
      PROVE  Owner(d, q, i) # g /\ (Jump(d, q, i) # Nowhere => FragOf(Jump(d, q, i)) # g)
  <2>1. Size(c, q) \in Nat /\ Len(lines) \in Nat \ {0}
    BY DEF LinesOf
  <2>2. CASE q # p
    <3>1. Size(d, q) = Size(c, q)
      BY <2>2 DEF Appended
    <3>2. i \in 1 .. Size(c, q) /\ Owner(d, q, i) = Owner(c, q, i) /\ Jump(d, q, i) = Jump(c, q, i)
      BY <2>2, <3>1 DEF Appended
    <3> QED
      BY <3>2 DEF Unwritten
  <2>3. CASE q = p /\ i <= Size(c, p)
    <3>1. i \in 1 .. Size(c, p)
      BY <2>1, <2>3 DEF Appended
    <3>2. Owner(d, p, i) = Owner(c, p, i) /\ Jump(d, p, i) = Jump(c, p, i)
      BY <3>1 DEF Appended
    <3> QED
      BY <2>3, <3>1, <3>2 DEF Unwritten
  <2>4. CASE q = p /\ ~(i <= Size(c, p))
    <3>1. Size(d, p) = Size(c, p) + Len(lines)
      BY DEF Appended
    <3>2. i - Size(c, p) \in 1 .. Len(lines) /\ Size(c, p) + (i - Size(c, p)) = i
      BY <2>1, <2>4, <3>1
    <3> DEFINE x == i - Size(c, p)
    <3>3. Owner(d, p, Size(c, p) + x) = lines[x].of /\ Jump(d, p, Size(c, p) + x) = lines[x].to
      BY <3>2 DEF Appended
    <3>4. lines[x].of = f
      BY <3>2 DEF LinesOf
    <3>5. Owner(d, p, i) = f /\ Jump(d, p, i) = lines[x].to
      BY <3>2, <3>3, <3>4
    <3> QED
      BY <2>4, <3>2, <3>5
  <2> QED
    BY <2>2, <2>3, <2>4
<1> QED
  BY <1>1 DEF Unwritten

\* A fragment writes; it may be its end.
LEMMA WrittenSound ==
  ASSUME NEW c, NEW d, NEW cs, NEW es, NEW st \in [Fragment -> Destination], NEW n \in Nat,
         Sound(c, cs, st, n),
         c \in [Page -> Seq(Line)], d \in [Page -> Seq(Line)],
         NEW p \in Page, NEW f \in Fragment, NEW lines,
         Appended(c, d, p, lines), LinesOf(f, lines), Alone(cs, f, p), Remain(cs, es, p),
         \A i \in 1 .. Len(cs) : Frag(cs, i) \in Fragment,
         f <= n, Lead(d, es, n, f, lines), Closed(es, f, p, lines)
  PROVE  Sound(d, es, st, n)
<1>1. \A q \in Page : Size(c, q) \in Nat /\ Size(d, q) \in Nat
  BY CodeParts
<1>2. Len(lines) \in Nat \ {0} /\ Size(d, p) = Size(c, p) + Len(lines)
  BY DEF LinesOf, Appended
<1>3. \A g \in Fragment : Entry(st, g) \in Destination
  BY DEF Entry
<1>4. ASSUME NEW l \in Destination, l # Nowhere, Reaches(c, cs, l)
      PROVE  Reaches(d, es, l)
  <2>1. PageOf(l) \in Page /\ LineOf(l) \in Nat /\ GoesOn(c, cs, PageOf(l), LineOf(l), FragOf(l))
    BY <1>4, PlaceParts DEF Reaches
  <2>2. GoesOn(d, es, PageOf(l), LineOf(l), FragOf(l))
    BY <1>1, <2>1, Continued
  <2> QED
    BY <2>2 DEF Reaches
<1>5. ASSUME NEW q \in Page, NEW i \in 1 .. Size(d, q)
      PROVE  /\ Jump(d, q, i) # Nowhere => Reaches(d, es, Jump(d, q, i))
             /\ ~Ends(d, q, i) => GoesOn(d, es, q, i, Owner(d, q, i))
  <2>1. CASE i <= Size(c, q)
    <3>1. i \in Nat /\ i \in 1 .. Size(c, q)
      BY <1>1, <2>1
    <3>2. /\ Owner(d, q, i) = Owner(c, q, i) /\ Jump(d, q, i) = Jump(c, q, i)
          /\ Ends(d, q, i) = Ends(c, q, i)
      <4>1. CASE q = p
        BY <3>1, <4>1 DEF Appended
      <4>2. CASE q # p
        BY <3>1, <4>2 DEF Appended
      <4> QED
        BY <4>1, <4>2
    <3>3. /\ Jump(c, q, i) \in Destination
          /\ Jump(c, q, i) # Nowhere => Reaches(c, cs, Jump(c, q, i))
          /\ ~Ends(c, q, i) => GoesOn(c, cs, q, i, Owner(c, q, i))
      BY <3>1, CodeParts DEF Sound, Joined
    <3>4. ~Ends(c, q, i) => GoesOn(d, es, q, i, Owner(c, q, i))
      BY <1>1, <3>1, <3>3, Continued
    <3> QED
      BY <1>4, <3>2, <3>3, <3>4
  <2>2. CASE ~(i <= Size(c, q))
    <3>1. q = p
      BY <1>1, <2>2 DEF Appended
    <3> DEFINE x == i - Size(c, p)
    <3>2. x \in 1 .. Len(lines) /\ Size(c, p) + x = i
      BY <1>1, <1>2, <2>2, <3>1
    <3> HIDE DEF x
    <3>3. /\ Owner(d, p, i) = lines[x].of /\ Jump(d, p, i) = lines[x].to /\ Ends(d, p, i) = lines[x].ends
          /\ lines[x].of = f
      BY <3>2 DEF Appended, LinesOf
    <3>4. lines[x].to # Nowhere => Reaches(d, es, lines[x].to)
      BY <3>2 DEF Lead
    <3>5. ASSUME ~lines[x].ends
          PROVE  GoesOn(d, es, p, i, f)
      <4>1. CASE x < Len(lines)
        <5>0. Size(c, p) \in Nat /\ x \in Int /\ x >= 1
          BY <1>1, <1>2, <3>2
        <5>1. x + 1 \in 1 .. Len(lines) /\ i < Size(d, p) /\ Size(c, p) + (x + 1) = i + 1
          BY ONLY <1>2, <3>2, <4>1, <5>0
        <5> DEFINE y == x + 1
        <5>2. Owner(d, p, Size(c, p) + y) = lines[y].of /\ lines[y].of = f
          BY <5>1 DEF Appended, LinesOf
        <5>3. Owner(d, p, i + 1) = f
          BY <5>1, <5>2
        <5> QED
          BY <5>1, <5>3 DEF GoesOn
      <4>2. CASE ~(x < Len(lines))
        <5>1. i = Size(d, p) /\ ~(i < Size(d, p))
          BY <1>1, <1>2, <3>2, <4>2
        <5>2. On(es, f, p)
          BY <3>2, <3>5, <4>2 DEF Closed
        <5> QED
          BY <5>1, <5>2 DEF GoesOn
      <4> QED
        BY <4>1, <4>2
    <3> QED
      BY <3>1, <3>3, <3>4, <3>5
  <2> QED
    BY <2>1, <2>2
<1>6. Joined(d, es, st)
  <2>1. ASSUME NEW g \in Fragment, Entry(st, g) # Nowhere
        PROVE  FragOf(Entry(st, g)) = g /\ Reaches(d, es, Entry(st, g))
    <3>1. FragOf(Entry(st, g)) = g /\ Reaches(c, cs, Entry(st, g))
      BY <2>1 DEF Sound, Joined
    <3> QED
      BY <1>3, <1>4, <2>1, <3>1
  <2> QED
    BY <1>5, <2>1 DEF Joined
<1>7. ASSUME NEW j \in 1 .. Len(es)
      PROVE  BegunBy(d, st, Frag(es, j), KindOf(es, j))
  <2>1. PICK i \in 1 .. Len(cs) : Frag(es, j) = Frag(cs, i) /\ KindOf(es, j) = KindOf(cs, i)
    BY DEF Remain
  <2> DEFINE g == Frag(es, j)
             l == Entry(st, g)
  <2>2. g \in Fragment /\ BegunBy(c, st, g, KindOf(es, j))
    BY <2>1 DEF Sound, Begun
  <2>3. /\ l # Nowhere /\ FragOf(l) = g /\ LineOf(l) <= Size(c, PageOf(l))
        /\ KindOf(es, j) = "target" /\ LineOf(l) = Size(c, PageOf(l)) => Unwritten(c, g)
    BY <2>2 DEF BegunBy
  <2>4. l \in Destination /\ PageOf(l) \in Page /\ LineOf(l) \in Nat
    BY <1>3, <2>2, <2>3, PlaceParts
  <2>5. Reaches(c, cs, l)
    BY <2>2, <2>3 DEF Sound, Joined
  <2> HIDE DEF l
  <2>6. Size(c, PageOf(l)) <= Size(d, PageOf(l))
    <3>1. PageOf(l) # p => Size(d, PageOf(l)) = Size(c, PageOf(l))
      BY <2>4 DEF Appended
    <3> QED
      BY <1>1, <1>2, <2>4, <3>1
  <2>7. LineOf(l) <= Size(d, PageOf(l))
    BY <1>1, <2>3, <2>4, <2>6
  <2>8. ASSUME KindOf(es, j) = "target", LineOf(l) = Size(d, PageOf(l))
        PROVE  Unwritten(d, g)
    <3>1. LineOf(l) = Size(c, PageOf(l))
      BY <1>1, <2>3, <2>4, <2>6, <2>8
    <3>2. Unwritten(c, g)
      BY <2>3, <2>8, <3>1
    <3>3. g # f
      <4>1. SUFFICES ASSUME g = f PROVE FALSE
        OBVIOUS
      <4>2. On(cs, f, PageOf(l))
        BY <2>3, <2>4, <2>5, <3>1, <4>1, <1>1 DEF Reaches, GoesOn
      <4>3. PageOf(l) = p
        BY <4>2 DEF Alone
      <4>4. Size(d, p) = Size(c, p)
        BY <2>8, <3>1, <4>3
      <4>5. Size(c, p) \in Nat
        BY <1>1
      <4> QED
        BY <1>2, <4>4, <4>5
    <3>4. \A x \in 1 .. Len(lines) : lines[x].to # Nowhere => FragOf(lines[x].to) # g
      BY <2>8, <3>3 DEF Lead
    <3> HIDE DEF g
    <3> QED
      BY <1>1, <3>2, <3>3, <3>4, StillUnwritten
  <2> QED
    BY <2>3, <2>7, <2>8 DEF BegunBy, l
<1>8. Numbered(d, es, n)
  <2>1. ASSUME NEW g \in Fragment, g > n
        PROVE  Unwritten(d, g)
    <3>1. g \in Int /\ f \in Int
      BY LineAssumption DEF Fragment
    <3>2. g # f /\ Unwritten(c, g)
      BY <2>1, <3>1 DEF Sound, Numbered
    <3>3. \A x \in 1 .. Len(lines) : lines[x].to # Nowhere => FragOf(lines[x].to) # g
      <4>1. ASSUME NEW x \in 1 .. Len(lines), lines[x].to # Nowhere, FragOf(lines[x].to) = g
            PROVE  FALSE
        <5>1. g <= n
          BY <4>1 DEF Lead
        <5> QED
          BY <2>1, <3>1, <5>1
      <4> QED
        BY <4>1
    <3> QED
      BY <1>1, <3>2, <3>3, StillUnwritten
  <2>2. \A j \in 1 .. Len(es) : Frag(es, j) <= n
    BY DEF Remain, Sound, Numbered
  <2> QED
    BY <2>1, <2>2 DEF Numbered
<1> QED
  BY <1>6, <1>7, <1>8 DEF Sound, Begun
-----------------------------------------------------------------------------
(* The fragments that are open.                                            *)

LEMMA ContextParts ==
  ASSUME NEW cs \in Seq(ContextType)
  PROVE  /\ Len(cs) \in Nat /\ (cs = <<>> <=> Len(cs) = 0)
         /\ \A i \in 1 .. Len(cs) : /\ Frag(cs, i) \in Fragment /\ KindOf(cs, i) \in Kind
                                    /\ At(cs, i) \in Page /\ Table(cs, i) \in Tables
<1>1. Len(cs) \in Nat /\ (cs = <<>> <=> Len(cs) = 0)
  BY EmptySeq
<1>2. \A i \in 1 .. Len(cs) : cs[i] \in ContextType
  OBVIOUS
<1>3. \A x \in ContextType : x.frag \in Fragment /\ x.kind \in Kind /\ x.page \in Page /\ x.table \in Tables
  BY DEF ContextType
<1> QED
  BY <1>1, <1>2, <1>3 DEF Frag, KindOf, At, Table

\* The changes to the contexts.
PageSet(cs, x, q)  == [cs EXCEPT ![x].page = q]
TableSet(cs, x, t) == [cs EXCEPT ![x].table = t]
Popped(cs)         == SubSeq(cs, 1, Len(cs) - 1)
Opening(cs, f, kind, q) == Append(cs, [frag |-> f, kind |-> kind, page |-> q, table |-> 0])

\* es has the contexts of cs, but for those numbered in X.
SameBut(cs, es, X) ==
  \A i \in (1 .. Len(es)) \ X : /\ Frag(es, i) = Frag(cs, i) /\ KindOf(es, i) = KindOf(cs, i)
                                /\ At(es, i) = At(cs, i) /\ Table(es, i) = Table(cs, i)

PageIsSet(cs, es, x, q) ==
  /\ es \in Seq(ContextType) /\ Len(es) = Len(cs) /\ SameBut(cs, es, {x})
  /\ Frag(es, x) = Frag(cs, x) /\ KindOf(es, x) = KindOf(cs, x) /\ Table(es, x) = Table(cs, x)
  /\ At(es, x) = q
  /\ q = At(cs, x) => es = cs

LEMMA PageSetParts ==
  ASSUME NEW cs \in Seq(ContextType), NEW x \in 1 .. Len(cs), NEW q \in Page,
         NEW es, es = PageSet(cs, x, q)
  PROVE  PageIsSet(cs, es, x, q)
<1> DEFINE y == [cs[x] EXCEPT !.page = q]
<1>1. es = [cs EXCEPT ![x] = y]
  BY Zenon DEF PageSet
<1>2. cs[x] \in ContextType
  OBVIOUS
<1>3. /\ y \in ContextType /\ y.frag = cs[x].frag /\ y.kind = cs[x].kind /\ y.table = cs[x].table
      /\ y.page = q /\ (q = cs[x].page => y = cs[x])
  BY <1>2 DEF ContextType
<1> HIDE DEF y
<1>4. es \in Seq(ContextType) /\ Len(es) = Len(cs)
  BY <1>1, <1>3, ExceptSeq
<1>5. es[x] = y /\ \A i \in 1 .. Len(cs) : i # x => es[i] = cs[i]
  BY <1>1, ExceptSeq
<1>6. y = cs[x] => es = cs
  BY <1>4, <1>5, SeqEqual
<1> QED
  BY <1>3, <1>4, <1>5, <1>6 DEF PageIsSet, SameBut, Frag, KindOf, At, Table

TableIsSet(cs, es, x, t) ==
  /\ es \in Seq(ContextType) /\ Len(es) = Len(cs) /\ SameBut(cs, es, {x})
  /\ Frag(es, x) = Frag(cs, x) /\ KindOf(es, x) = KindOf(cs, x) /\ At(es, x) = At(cs, x)
  /\ Table(es, x) = t

LEMMA TableSetParts ==
  ASSUME NEW cs \in Seq(ContextType), NEW x \in 1 .. Len(cs), NEW t \in Tables,
         NEW es, es = TableSet(cs, x, t)
  PROVE  TableIsSet(cs, es, x, t)
<1> DEFINE y == [cs[x] EXCEPT !.table = t]
<1>1. es = [cs EXCEPT ![x] = y]
  BY Zenon DEF TableSet
<1>2. cs[x] \in ContextType
  OBVIOUS
<1>3. /\ y \in ContextType /\ y.frag = cs[x].frag /\ y.kind = cs[x].kind /\ y.page = cs[x].page
      /\ y.table = t
  BY <1>2 DEF ContextType
<1> HIDE DEF y
<1>4. es \in Seq(ContextType) /\ Len(es) = Len(cs)
  BY <1>1, <1>3, ExceptSeq
<1>5. es[x] = y /\ \A i \in 1 .. Len(cs) : i # x => es[i] = cs[i]
  BY <1>1, ExceptSeq
<1> QED
  BY <1>3, <1>4, <1>5 DEF TableIsSet, SameBut, Frag, KindOf, At, Table

LEMMA PoppedParts ==
  ASSUME NEW cs \in Seq(ContextType), Len(cs) > 0, NEW es, es = Popped(cs)
  PROVE  es \in Seq(ContextType) /\ Len(es) = Len(cs) - 1 /\ SameBut(cs, es, {})
<1> DEFINE m == Len(cs) - 1
<1>0. m \in Nat /\ m <= Len(cs) /\ Len(cs) \in Nat
  BY ContextParts
<1>1. es \in Seq(ContextType) /\ Len(es) = m /\ \A i \in 1 .. m : es[i] = cs[i]
  <2>1. es = SubSeq(cs, 1, m)
    BY DEF Popped
  <2> HIDE DEF m
  <2> QED
    BY <1>0, <2>1
<1> QED
  BY <1>1 DEF SameBut, Frag, KindOf, At, Table

LEMMA PushedParts ==
  ASSUME NEW cs \in Seq(ContextType), NEW f \in Fragment, NEW kind \in Kind, NEW q \in Page,
         NEW es, es = Opening(cs, f, kind, q), NEW x, x = Len(cs) + 1
  PROVE  /\ es \in Seq(ContextType) /\ Len(es) = x /\ SameBut(cs, es, {x})
         /\ Frag(es, x) = f /\ KindOf(es, x) = kind /\ At(es, x) = q /\ Table(es, x) = 0
<1> DEFINE y == [frag |-> f, kind |-> kind, page |-> q, table |-> 0]
<1>1. y \in ContextType /\ y.frag = f /\ y.kind = kind /\ y.page = q /\ y.table = 0
  BY LineAssumption DEF ContextType, Tables
<1>2. es = Append(cs, y)
  BY DEF Opening
<1> HIDE DEF y
<1>3. /\ es \in Seq(ContextType) /\ Len(es) = Len(cs) + 1 /\ es[Len(cs) + 1] = y
      /\ \A i \in 1 .. Len(cs) : es[i] = cs[i]
  BY <1>1, <1>2, AppendProperties
<1>4. \A i \in (1 .. Len(es)) \ {x} : i \in 1 .. Len(cs)
  BY <1>3
<1> QED
  BY <1>1, <1>3, <1>4 DEF SameBut, Frag, KindOf, At, Table

\* Each is alone on its page.
LEMMA EachAlone ==
  ASSUME NEW cs, Separate(cs), NEW i \in 1 .. Len(cs)
  PROVE  Alone(cs, Frag(cs, i), At(cs, i))
  BY DEF Separate, Alone, On

\* The innermost goes on on another page.
LEMMA MovedShape ==
  ASSUME NEW ph, NEW cs \in Seq(ContextType), Shape(ph, cs), Len(cs) > 0,
         NEW q \in Page, q \notin Held(cs), NEW es, es = PageSet(cs, Len(cs), q)
  PROVE  /\ Shape(ph, es) /\ Held(es) = (Held(cs) \cup {q}) \ {At(cs, Len(cs))}
         /\ Remain(cs, es, At(cs, Len(cs)))
<1> DEFINE x == Len(cs)
<1>1. x \in Nat /\ x \in 1 .. x /\ 1 \in 1 .. x
  BY ContextParts
<1>2. /\ es \in Seq(ContextType) /\ Len(es) = x /\ SameBut(cs, es, {x})
      /\ Frag(es, x) = Frag(cs, x) /\ KindOf(es, x) = KindOf(cs, x) /\ Table(es, x) = Table(cs, x)
      /\ At(es, x) = q
  <2>1. PageIsSet(cs, es, x, q)
    BY <1>1, PageSetParts
  <2> QED
    BY <2>1 DEF PageIsSet
<1> HIDE DEF x
<1>3. \A i \in 1 .. x : /\ Frag(es, i) = Frag(cs, i) /\ KindOf(es, i) = KindOf(cs, i)
                        /\ Table(es, i) = Table(cs, i) /\ (i # x => At(es, i) = At(cs, i))
  BY <1>2 DEF SameBut
<1>4. \A i \in 1 .. x : At(cs, i) # q
  BY DEF Held, x
<1>5. Separate(cs) /\ Nesting(cs)
  BY DEF Shape
<1>6. Separate(es)
  <2>1. ASSUME NEW i \in 1 .. x, NEW j \in 1 .. x, At(es, i) = At(es, j)
        PROVE  i = j
    <3>1. CASE i = x /\ j # x
      BY <1>2, <1>3, <1>4, <2>1, <3>1
    <3>2. CASE j = x /\ i # x
      BY <1>2, <1>3, <1>4, <2>1, <3>2
    <3>3. CASE i # x /\ j # x
      <4>1. At(cs, i) = At(cs, j)
        BY <1>3, <2>1, <3>3
      <4> QED
        BY <1>5, <4>1 DEF Separate, x
    <3> QED
      BY <3>1, <3>2, <3>3
  <2>2. ASSUME NEW i \in 1 .. x, NEW j \in 1 .. x, Frag(es, i) = Frag(es, j)
        PROVE  i = j
    <3>1. Frag(cs, i) = Frag(cs, j)
      BY <1>3, <2>2
    <3> QED
      BY <1>5, <3>1 DEF Separate, x
  <2> QED
    BY <1>2, <2>1, <2>2 DEF Separate
<1>7. Nesting(es)
  <2>1. ASSUME NEW i \in 1 .. x
        PROVE  /\ KindOf(es, i) \in {"function", "expression"} <=> i = 1
               /\ Table(es, i) > 0 => KindOf(es, i) \in {"function", "else"}
    <3>1. KindOf(es, i) = KindOf(cs, i) /\ Table(es, i) = Table(cs, i)
      BY <1>3
    <3> QED
      BY <1>5, <3>1 DEF Nesting, x
  <2>2. ASSUME NEW i \in 1 .. x - 1
        PROVE  /\ KindOf(es, i) \in {"function", "else"}
               /\ Table(es, i) > 0 <=> KindOf(es, i + 1) = "target"
    <3>1. i \in 1 .. x /\ i + 1 \in 1 .. x
      BY <1>1
    <3>2. KindOf(es, i) = KindOf(cs, i) /\ Table(es, i) = Table(cs, i) /\ KindOf(es, i + 1) = KindOf(cs, i + 1)
      BY <1>3, <3>1
    <3> QED
      BY <1>5, <3>2 DEF Nesting, x
  <2> QED
    BY <1>2, <2>1, <2>2 DEF Nesting
<1>8. Shape(ph, es)
  <2>1. KindOf(es, 1) = KindOf(cs, 1) /\ cs # <<>>
    BY <1>1, <1>3, ContextParts DEF x
  <2> QED
    BY <1>6, <1>7, <2>1 DEF Shape
<1>9. Held(es) = (Held(cs) \cup {q}) \ {At(cs, x)}
  <2>1. Held(es) = {At(es, i) : i \in 1 .. x} /\ Held(cs) = {At(cs, i) : i \in 1 .. x}
    BY <1>2 DEF Held, x
  <2>2. \A i \in 1 .. x : i # x => At(cs, i) # At(cs, x)
    BY <1>1, <1>5 DEF Separate, x
  <2>3. At(cs, x) # q
    BY <1>1, <1>4
  <2> QED
    BY <1>1, <1>2, <1>3, <2>1, <2>2, <2>3
<1>10. Remain(cs, es, At(cs, x))
  <2>1. \A g, r : On(cs, g, r) /\ r # At(cs, x) => On(es, g, r)
    BY <1>2, <1>3 DEF On, x
  <2>2. \A j \in 1 .. Len(es) : \E i \in 1 .. Len(cs) : Frag(es, j) = Frag(cs, i) /\ KindOf(es, j) = KindOf(cs, i)
    BY <1>2, <1>3 DEF x
  <2> QED
    BY <2>1, <2>2 DEF Remain
<1> QED
  BY <1>8, <1>9, <1>10 DEF x

\* The innermost is done.
LEMMA PoppedShape ==
  ASSUME NEW ph, NEW cs \in Seq(ContextType), Shape(ph, cs), Len(cs) > 0, NEW es, es = Popped(cs)
  PROVE  /\ Shape(ph, es) /\ Held(es) = Held(cs) \ {At(cs, Len(cs))}
         /\ Remain(cs, es, At(cs, Len(cs)))
         /\ \A j \in 1 .. Len(es) : Frag(es, j) # Frag(cs, Len(cs))
<1> DEFINE x == Len(cs)
<1>1. x \in Nat /\ x \in 1 .. x
  BY ContextParts
<1>2. es \in Seq(ContextType) /\ Len(es) = x - 1 /\ SameBut(cs, es, {})
  BY <1>1, PoppedParts
<1>3. \A i \in 1 .. x - 1 : /\ Frag(es, i) = Frag(cs, i) /\ KindOf(es, i) = KindOf(cs, i)
                            /\ Table(es, i) = Table(cs, i) /\ At(es, i) = At(cs, i)
                            /\ i \in 1 .. Len(cs) /\ i # x
  BY <1>1, <1>2 DEF SameBut
<1>4. \A i \in 1 .. x : i # x => i \in 1 .. x - 1
  BY <1>1
<1>5. Separate(cs) /\ Nesting(cs)
  BY DEF Shape
<1>6. Separate(es)
  BY <1>2, <1>3, <1>5 DEF Separate
<1>7. Nesting(es)
  <2>1. ASSUME NEW i \in 1 .. Len(es) - 1
        PROVE  /\ KindOf(es, i) \in {"function", "else"}
               /\ Table(es, i) > 0 <=> KindOf(es, i + 1) = "target"
    <3>1. i \in 1 .. x - 1 /\ i + 1 \in 1 .. x - 1
      BY <1>1, <1>2
    <3>2. KindOf(es, i) = KindOf(cs, i) /\ Table(es, i) = Table(cs, i) /\ KindOf(es, i + 1) = KindOf(cs, i + 1)
      BY <1>3, <3>1
    <3> QED
      BY <1>5, <3>1, <3>2 DEF Nesting
  <2> QED
    BY <1>2, <1>3, <1>5, <2>1 DEF Nesting
<1> HIDE DEF x
<1>8. Shape(ph, es)
  <2>1. ASSUME es # <<>>
        PROVE  KindOf(es, 1) = (IF ph = "loading" THEN "expression" ELSE "function")
    <3>1. Len(es) # 0 /\ Len(es) \in Nat /\ cs # <<>>
      BY <1>1, <1>2, <2>1, ContextParts DEF x
    <3>2. 1 \in 1 .. x - 1
      BY <1>1, <1>2, <3>1
    <3> QED
      BY <1>3, <3>1, <3>2 DEF Shape
  <2> QED
    BY <1>6, <1>7, <2>1 DEF Shape
<1>9. Held(es) = Held(cs) \ {At(cs, x)}
  <2>1. Held(es) = {At(es, i) : i \in 1 .. x - 1} /\ Held(cs) = {At(cs, i) : i \in 1 .. x}
    BY <1>2 DEF Held, x
  <2>2. \A i \in 1 .. x : i # x => At(cs, i) # At(cs, x)
    BY <1>1, <1>5 DEF Separate, x
  <2> QED
    BY <1>1, <1>3, <1>4, <2>1, <2>2 DEF x
<1>10. Remain(cs, es, At(cs, x))
  <2>1. ASSUME NEW g, NEW r, On(cs, g, r), r # At(cs, x)
        PROVE  On(es, g, r)
    <3>1. PICK i \in 1 .. x : Frag(cs, i) = g /\ At(cs, i) = r
      BY <2>1 DEF On, x
    <3>2. i # x
      BY <2>1, <3>1
    <3>3. i \in 1 .. x - 1
      BY <1>4, <3>2
    <3> QED
      BY <1>2, <1>3, <3>1, <3>3 DEF On
  <2>2. \A j \in 1 .. Len(es) : \E i \in 1 .. Len(cs) : Frag(es, j) = Frag(cs, i) /\ KindOf(es, j) = KindOf(cs, i)
    BY <1>2, <1>3
  <2> QED
    BY <2>1, <2>2 DEF Remain
<1>11. \A j \in 1 .. Len(es) : Frag(es, j) # Frag(cs, x)
  BY <1>1, <1>2, <1>3, <1>5 DEF Separate, x
<1> QED
  BY <1>8, <1>9, <1>10, <1>11 DEF x

\* A table of the innermost, begun or gone on with.
LEMMA TabledShape ==
  ASSUME NEW ph, NEW cs \in Seq(ContextType), Shape(ph, cs), Len(cs) > 0,
         KindOf(cs, Len(cs)) \in {"function", "else"},
         NEW t \in Tables, NEW es, es = TableSet(cs, Len(cs), t)
  PROVE  /\ Shape(ph, es) /\ Held(es) = Held(cs)
         /\ Remain(cs, es, At(cs, Len(cs))) /\ \A g, r : On(cs, g, r) <=> On(es, g, r)
<1> DEFINE x == Len(cs)
<1>1. x \in Nat /\ x \in 1 .. x /\ 1 \in 1 .. x
  BY ContextParts
<1>2. /\ es \in Seq(ContextType) /\ Len(es) = x /\ SameBut(cs, es, {x})
      /\ Frag(es, x) = Frag(cs, x) /\ KindOf(es, x) = KindOf(cs, x) /\ At(es, x) = At(cs, x)
  <2>1. es = TableSet(cs, x, t) /\ x \in 1 .. Len(cs)
    BY <1>1
  <2> HIDE DEF x
  <2>2. TableIsSet(cs, es, x, t)
    BY ONLY <2>1, TableSetParts, cs \in Seq(ContextType), t \in Tables
  <2> QED
    BY <2>2 DEF x, TableIsSet
<1> HIDE DEF x
<1>3. \A i \in 1 .. x : /\ Frag(es, i) = Frag(cs, i) /\ KindOf(es, i) = KindOf(cs, i)
                        /\ At(es, i) = At(cs, i) /\ (i # x => Table(es, i) = Table(cs, i))
  BY <1>2 DEF SameBut
<1>4. Separate(cs) /\ Nesting(cs)
  BY DEF Shape
<1>5. Separate(es)
  BY <1>2, <1>3, <1>4 DEF Separate, x
<1>6. Nesting(es)
  <2>1. ASSUME NEW i \in 1 .. x
        PROVE  /\ KindOf(es, i) \in {"function", "expression"} <=> i = 1
               /\ Table(es, i) > 0 => KindOf(es, i) \in {"function", "else"}
    <3>1. KindOf(es, i) = KindOf(cs, i) /\ (i # x => Table(es, i) = Table(cs, i))
      BY <1>3
    <3>2. KindOf(cs, x) \in {"function", "else"}
      BY DEF x
    <3> QED
      BY <1>4, <3>1, <3>2 DEF Nesting, x
  <2>2. ASSUME NEW i \in 1 .. x - 1
        PROVE  /\ KindOf(es, i) \in {"function", "else"}
               /\ Table(es, i) > 0 <=> KindOf(es, i + 1) = "target"
    <3>1. i \in 1 .. x /\ i + 1 \in 1 .. x /\ i # x
      BY <1>1
    <3>2. KindOf(es, i) = KindOf(cs, i) /\ Table(es, i) = Table(cs, i) /\ KindOf(es, i + 1) = KindOf(cs, i + 1)
      BY <1>3, <3>1
    <3> QED
      BY <1>4, <3>2 DEF Nesting, x
  <2> QED
    BY <1>2, <2>1, <2>2 DEF Nesting
<1>7. Shape(ph, es)
  <2>1. KindOf(es, 1) = KindOf(cs, 1) /\ cs # <<>>
    BY <1>1, <1>3, ContextParts DEF x
  <2> QED
    BY <1>5, <1>6, <2>1 DEF Shape
<1>8. Held(es) = Held(cs)
  <2>1. Held(es) = {At(es, i) : i \in 1 .. x} /\ Held(cs) = {At(cs, i) : i \in 1 .. x}
    BY <1>2 DEF Held, x
  <2> QED
    BY <1>3, <2>1
<1>9. \A g, r : On(cs, g, r) <=> On(es, g, r)
  BY <1>2, <1>3 DEF On, x
<1>10. Remain(cs, es, At(cs, x))
  <2>2. \A j \in 1 .. Len(es) : \E i \in 1 .. Len(cs) : Frag(es, j) = Frag(cs, i) /\ KindOf(es, j) = KindOf(cs, i)
    BY <1>2, <1>3 DEF x
  <2> QED
    BY <1>9, <2>2 DEF Remain
<1> QED
  BY <1>7, <1>8, <1>9, <1>10 DEF x

\* Where a fragment may begin: a function or an expression outside all others, an
\* else block in one of them or in another, a target in one with an open table.
Begins(ph, cs, kind) ==
  \/ cs = <<>> /\ kind = (IF ph = "loading" THEN "expression" ELSE "function")
  \/ /\ cs # <<>> /\ kind \in {"else", "target"}
     /\ KindOf(cs, Len(cs)) \in {"function", "else"}
     /\ Table(cs, Len(cs)) > 0 <=> kind = "target"

OpenedShape(ph, cs, es, f, kind, q) ==
  /\ es \in Seq(ContextType) /\ Shape(ph, es) /\ Held(es) = Held(cs) \cup {q}
  /\ Len(es) = Len(cs) + 1 /\ Table(es, Len(es)) = 0
  /\ Frag(es, Len(es)) = f /\ KindOf(es, Len(es)) = kind /\ At(es, Len(es)) = q
  /\ SameBut(cs, es, {Len(es)})
  /\ \A g, r : On(es, g, r) <=> On(cs, g, r) \/ (g = f /\ r = q)

LEMMA PushedShape ==
  ASSUME NEW ph, NEW cs \in Seq(ContextType), Shape(ph, cs), NEW f \in Fragment, NEW kind,
         Begins(ph, cs, kind), NEW q \in Page, q \notin Held(cs),
         \A i \in 1 .. Len(cs) : Frag(cs, i) # f,
         NEW es, es = Opening(cs, f, kind, q)
  PROVE  OpenedShape(ph, cs, es, f, kind, q)
<1> DEFINE x == Len(cs)
           y == x + 1
<1>0. kind \in Kind
  BY DEF Begins, Kind
<1>1. x \in Nat /\ y \in Nat /\ y \notin 1 .. x /\ 1 .. y = (1 .. x) \cup {y}
  BY ContextParts
<1>2. /\ es \in Seq(ContextType) /\ Len(es) = y /\ SameBut(cs, es, {y})
      /\ Frag(es, y) = f /\ KindOf(es, y) = kind /\ At(es, y) = q /\ Table(es, y) = 0
  BY <1>0, PushedParts
<1>3. \A i \in 1 .. x : /\ Frag(es, i) = Frag(cs, i) /\ KindOf(es, i) = KindOf(cs, i)
                        /\ Table(es, i) = Table(cs, i) /\ At(es, i) = At(cs, i)
  BY <1>1, <1>2 DEF SameBut
<1>4. Separate(cs) /\ Nesting(cs) /\ (cs = <<>> <=> x = 0)
  BY ContextParts DEF Shape
<1>5. \A i \in 1 .. x : At(cs, i) # q
  BY DEF Held
<1>6. Separate(es)
  <2>1. ASSUME NEW i \in 1 .. y, NEW j \in 1 .. y, At(es, i) = At(es, j) \/ Frag(es, i) = Frag(es, j)
        PROVE  i = j
    <3>1. CASE i \in 1 .. x /\ j \in 1 .. x
      BY <1>3, <1>4, <2>1, <3>1 DEF Separate
    <3>2. CASE i \in 1 .. x /\ j = y
      BY <1>2, <1>3, <1>5, <2>1, <3>2
    <3>3. CASE i = y /\ j \in 1 .. x
      BY <1>2, <1>3, <1>5, <2>1, <3>3
    <3>4. CASE i = y /\ j = y
      BY <3>4
    <3>5. (i \in 1 .. x \/ i = y) /\ (j \in 1 .. x \/ j = y)
      BY <1>1
    <3> QED
      BY <3>1, <3>2, <3>3, <3>4, <3>5
  <2> QED
    BY <1>2, <2>1 DEF Separate
<1>7. kind \in {"function", "expression"} <=> y = 1
  BY <1>1, <1>4 DEF Begins
<1>8. Nesting(es)
  <2>1. ASSUME NEW i \in 1 .. y
        PROVE  /\ KindOf(es, i) \in {"function", "expression"} <=> i = 1
               /\ Table(es, i) > 0 => KindOf(es, i) \in {"function", "else"}
    <3>1. CASE i \in 1 .. x
      <4>1. KindOf(es, i) = KindOf(cs, i) /\ Table(es, i) = Table(cs, i)
        BY <1>3, <3>1
      <4> QED
        BY <1>4, <3>1, <4>1 DEF Nesting
    <3>2. CASE i = y
      BY <1>2, <1>7, <3>2
    <3> QED
      BY <1>1, <3>1, <3>2
  <2>2. ASSUME NEW i \in 1 .. y - 1
        PROVE  /\ KindOf(es, i) \in {"function", "else"}
               /\ Table(es, i) > 0 <=> KindOf(es, i + 1) = "target"
    <3>1. i \in 1 .. x /\ i \in Int
      BY <1>1
    <3>2. KindOf(es, i) = KindOf(cs, i) /\ Table(es, i) = Table(cs, i)
      BY <1>3, <3>1
    <3>3. CASE i = x
      <4>1. cs # <<>> /\ i + 1 = y
        BY <1>1, <1>4, <3>1, <3>3
      <4>2. /\ KindOf(cs, x) \in {"function", "else"}
            /\ Table(cs, x) > 0 <=> kind = "target"
        BY <4>1 DEF Begins
      <4> QED
        BY <1>2, <3>2, <3>3, <4>1, <4>2
    <3>4. CASE i # x
      <4>1. i \in 1 .. x - 1 /\ i + 1 \in 1 .. x
        BY <1>1, <3>1, <3>4
      <4>2. KindOf(es, i + 1) = KindOf(cs, i + 1)
        BY <1>3, <4>1
      <4>3. /\ KindOf(cs, i) \in {"function", "else"}
            /\ Table(cs, i) > 0 <=> KindOf(cs, i + 1) = "target"
        BY <1>4, <4>1 DEF Nesting
      <4> QED
        BY <3>2, <4>2, <4>3
    <3> QED
      BY <3>3, <3>4
  <2> QED
    BY <1>2, <2>1, <2>2 DEF Nesting
<1> HIDE DEF x, y
<1>9. KindOf(es, 1) = (IF ph = "loading" THEN "expression" ELSE "function")
  <2>1. CASE cs = <<>>
    <3>1. y = 1 /\ kind = (IF ph = "loading" THEN "expression" ELSE "function")
      BY <1>1, <1>4, <2>1 DEF Begins, x, y
    <3> QED
      BY <1>2, <3>1
  <2>2. CASE cs # <<>>
    <3>1. 1 \in 1 .. x
      BY <1>1, <1>4, <2>2
    <3> QED
      BY <1>3, <2>2, <3>1 DEF Shape
  <2> QED
    BY <2>1, <2>2
<1>10. Held(es) = Held(cs) \cup {q}
  <2>1. Held(es) = {At(es, i) : i \in 1 .. y} /\ Held(cs) = {At(cs, i) : i \in 1 .. x}
    BY <1>2 DEF Held, x
  <2> QED
    BY <1>1, <1>2, <1>3, <2>1
<1>11. \A g, r : On(es, g, r) <=> On(cs, g, r) \/ (g = f /\ r = q)
  BY <1>1, <1>2, <1>3 DEF On, x
<1> QED
  BY <1>2, <1>6, <1>8, <1>9, <1>10, <1>11 DEF OpenedShape, Shape, x, y
-----------------------------------------------------------------------------
(* The pages of the runtime that is being compiled for.                    *)

LEMMA Runtimes ==
  ASSUME NEW ph
  PROVE  /\ RtOf(ph) \in Runtime /\ OtherRt(ph) \in Runtime /\ RtOf(ph) # OtherRt(ph)
         /\ ph = "loading" => RtOf(ph) = "temp" /\ OtherRt(ph) = "main"
         /\ ph # "loading" => RtOf(ph) = "main" /\ OtherRt(ph) = "temp"
  BY DEF RtOf, OtherRt, Runtime

\* Page q joins those in held, with k free lines.
Gained(ph, s, t, held, q, k) ==
  /\ q \in Page /\ q \notin held
  /\ Storage(ph, t, held \cup {q}) /\ CodeOf(t) = CodeOf(s) /\ Torn(t) = Torn(s)
  /\ FreeLines(t, q) >= k
  /\ \A p \in held : FreeLines(t, p) = FreeLines(s, p)
  /\ Count(t, RtOf(ph)) = Count(s, RtOf(ph)) + 1

LEMMA StorageAcquired ==
  ASSUME NEW ph, NEW s, NEW held, Storage(ph, s, held), NEW k \in Nat,
         NEW a \in Acquire(s, RtOf(ph), k)
  PROVE  \/ a.page = NoPage /\ a.pool = s
         \/ a.page # NoPage /\ Gained(ph, s, a.pool, held, a.page, k)
<1> DEFINE rt == RtOf(ph)
           q == a.page
           t == a.pool
<1>1. /\ rt \in Runtime /\ OtherRt(ph) \in Runtime /\ rt # OtherRt(ph)
      /\ ph = "loading" => rt = "temp" /\ OtherRt(ph) = "main"
      /\ ph # "loading" => rt = "main" /\ OtherRt(ph) = "temp"
  BY Runtimes
<1>2. Placed(s, held)
  BY DEF Storage
<1> HIDE DEF rt
<1>3. SUFFICES ASSUME q # NoPage, q \in Page, q \notin held, Placed(t, held \cup {q}), Taken(s, t, rt, q, k)
               PROVE  /\ Storage(ph, t, held \cup {q}) /\ CodeOf(t) = CodeOf(s)
                      /\ Torn(t) = Torn(s) /\ FreeLines(t, q) >= k
                      /\ \A p \in held : FreeLines(t, p) = FreeLines(s, p)
                      /\ Count(t, rt) = Count(s, rt) + 1
  <2>1. a \in Acquire(s, rt, k)
    BY DEF rt
  <2>2. \/ a.page = NoPage /\ a.pool = s
        \/ /\ a.page # NoPage /\ a.page \in Page /\ a.page \notin held
           /\ Placed(a.pool, held \cup {a.page}) /\ Taken(s, a.pool, rt, a.page, k)
    BY <1>1, <1>2, <2>1, Acquired
  <2> QED
    BY <1>3, <2>2 DEF rt, Gained
<1> HIDE DEF q, t
<1>4. /\ CodeOf(t) = CodeOf(s) /\ Torn(t) = Torn(s) /\ FreeLines(t, q) >= k
      /\ \A p \in held : FreeLines(t, p) = FreeLines(s, p)
      /\ Count(t, rt) = Count(s, rt) + 1
  BY <1>1, <1>2, <1>3 DEF Taken, Placed
<1>5. Count(t, OtherRt(ph)) = 0
  BY <1>1, <1>3 DEF Taken, Storage
<1>6. ASSUME ph # "loading"
      PROVE  NoTemp(t)
  <2>1. Open(t, "temp") = Open(s, "temp") /\ Full(t, "temp") = Full(s, "temp")
    BY <1>1, <1>3, <1>6 DEF Taken
  <2> QED
    BY <1>6, <2>1 DEF Storage, NoTemp
<1>7. ASSUME ph = "loading"
      PROVE  /\ Open(t, "main") = <<>> /\ Full(t, "main") = <<>>
             /\ \A p \in Page : Size(CodeOf(t), p) # 0 => p \in held \cup {q} \/ InTemp(t, p)
  <2>1. Open(t, "main") = Open(s, "main") /\ Full(t, "main") = Full(s, "main")
    BY <1>1, <1>3, <1>7 DEF Taken
  <2>2. \A p : InTemp(s, p) => InTemp(t, p) \/ p = q
    BY <1>3 DEF Taken
  <2> QED
    BY <1>4, <1>7, <2>1, <2>2 DEF Storage
<1> QED
  BY <1>3, <1>4, <1>5, <1>6, <1>7 DEF Storage

\* The lines are on page p of t, which had room for them.
Fewer(s, t, p, lines) ==
  /\ Torn(t) = Torn(s)
  /\ Len(lines) <= FreeLines(s, p) => FreeLines(t, p) = FreeLines(s, p) - Len(lines)

LEMMA StorageWritten ==
  ASSUME NEW ph, NEW s, NEW held, Storage(ph, s, held), NEW p \in held, NEW lines \in Seq(Line),
         Ample(s, p, Len(lines)), NEW t, t = Emit(s, p, lines)
  PROVE  /\ Storage(ph, t, held) /\ Appended(CodeOf(s), CodeOf(t), p, lines)
         /\ Fewer(s, t, p, lines)
         /\ \A q \in Page \ {p} : FreeLines(t, q) = FreeLines(s, q)
         /\ Count(t, RtOf(ph)) = Count(s, RtOf(ph))
<1>1. Placed(s, held) /\ s \in PoolType
  BY DEF Storage, Placed
<1>2. /\ Placed(t, held) /\ Unmoved(s, t) /\ Appended(CodeOf(s), CodeOf(t), p, lines)
      /\ Fewer(s, t, p, lines)
      /\ \A q \in Page \ {p} : FreeLines(t, q) = FreeLines(s, q)
      /\ \A q : InTemp(t, q) <=> InTemp(s, q)
  BY <1>1, Written DEF Fewer, Unmoved
<1>3. \A r \in Runtime : Open(t, r) = Open(s, r) /\ Full(t, r) = Full(s, r) /\ Count(t, r) = Count(s, r)
  BY <1>2 DEF Unmoved, SameLists
<1>4. RtOf(ph) \in Runtime /\ OtherRt(ph) \in Runtime /\ "temp" \in Runtime /\ "main" \in Runtime
  BY Runtimes DEF Runtime
<1>5. \A q \in Page : q # p => Size(CodeOf(t), q) = Size(CodeOf(s), q)
  BY <1>2 DEF Appended
<1>6. Count(t, OtherRt(ph)) = 0
  BY <1>3, <1>4 DEF Storage
<1>7. ph # "loading" => NoTemp(t)
  BY <1>3, <1>4 DEF Storage, NoTemp
<1>8. ASSUME ph = "loading"
      PROVE  /\ Open(t, "main") = <<>> /\ Full(t, "main") = <<>>
             /\ \A q \in Page : Size(CodeOf(t), q) # 0 => q \in held \/ InTemp(t, q)
  BY <1>2, <1>3, <1>4, <1>5, <1>8 DEF Storage
<1> QED
  BY <1>2, <1>3, <1>4, <1>6, <1>7, <1>8 DEF Storage

LEMMA StorageReleased ==
  ASSUME NEW ph, NEW s, NEW held, Storage(ph, s, held), NEW p \in held,
         NEW t, t = ReleasePage(s, RtOf(ph), p)
  PROVE  /\ Storage(ph, t, held \ {p}) /\ CodeOf(t) = CodeOf(s) /\ Torn(t) = Torn(s)
         /\ \A q \in Page : FreeLines(t, q) = FreeLines(s, q)
         /\ Count(t, RtOf(ph)) = Count(s, RtOf(ph)) - 1
<1> DEFINE rt == RtOf(ph)
<1>1. /\ rt \in Runtime /\ OtherRt(ph) \in Runtime /\ rt # OtherRt(ph)
      /\ ph = "loading" => rt = "temp" /\ OtherRt(ph) = "main"
      /\ ph # "loading" => rt = "main" /\ OtherRt(ph) = "temp"
  BY Runtimes
<1>2. Placed(s, held) /\ t = ReleasePage(s, rt, p)
  BY DEF Storage
<1> HIDE DEF rt
<1>3. Placed(t, held \ {p}) /\ GivenBack(s, t, rt, p)
  BY <1>1, <1>2, PageReleased
<1>4. /\ CodeOf(t) = CodeOf(s) /\ \A q \in Page : FreeLines(t, q) = FreeLines(s, q)
      /\ Count(t, rt) = Count(s, rt) - 1 /\ Torn(t) = Torn(s)
  BY <1>1, <1>3 DEF GivenBack
<1>5. /\ Count(t, OtherRt(ph)) = 0
      /\ Open(t, OtherRt(ph)) = Open(s, OtherRt(ph)) /\ Full(t, OtherRt(ph)) = Full(s, OtherRt(ph))
  BY <1>1, <1>3 DEF GivenBack, Storage
<1>6. ph # "loading" => NoTemp(t)
  BY <1>1, <1>5 DEF Storage, NoTemp
<1>7. ASSUME ph = "loading"
      PROVE  /\ Open(t, "main") = <<>> /\ Full(t, "main") = <<>>
             /\ \A q \in Page : Size(CodeOf(t), q) # 0 => q \in held \ {p} \/ InTemp(t, q)
  <2>1. InTemp(t, p) /\ \A q : InTemp(s, q) => InTemp(t, q)
    BY <1>1, <1>3, <1>7 DEF GivenBack
  <2> QED
    BY <1>1, <1>4, <1>5, <1>7, <2>1 DEF Storage
<1> QED
  BY <1>3, <1>4, <1>5, <1>6, <1>7 DEF Storage, rt
-----------------------------------------------------------------------------
(* Steps of a compilation.                                                 *)

\* What the invariant says of the innermost fragment.
LEMMA Innermost ==
  ASSUME NEW ph, NEW s, NEW cs \in Seq(ContextType), NEW st, NEW n,
         Building(ph, s, cs, st, n), Len(cs) > 0,
         NEW x, x = Len(cs), NEW p, p = At(cs, x), NEW f, f = Frag(cs, x)
  PROVE  /\ x \in 1 .. Len(cs) /\ p \in Held(cs) /\ p \in Page /\ f \in Fragment /\ f <= n
         /\ Alone(cs, f, p) /\ Ample(s, p, 2 + Table(cs, x)) /\ Table(cs, x) \in Nat
         /\ Placed(s, Held(cs)) /\ s \in PoolType
         /\ \A i \in 1 .. Len(cs) : Frag(cs, i) \in Fragment
<1>1. x \in 1 .. Len(cs)
  BY ContextParts
<1>2. p \in Held(cs) /\ p \in Page /\ f \in Fragment /\ \A i \in 1 .. Len(cs) : Frag(cs, i) \in Fragment
  BY <1>1, ContextParts DEF Held
<1>3. f <= n
  BY <1>1 DEF Building, Sound, Numbered
<1>4. Alone(cs, f, p)
  BY <1>1, EachAlone DEF Building, Shape
<1>5. Ample(s, p, 2 + Table(cs, x))
  BY <1>1 DEF Building, Room
<1>6. Table(cs, x) \in Nat
  <2>1. Table(cs, x) \in Tables
    BY <1>1, ContextParts
  <2> QED
    BY <2>1, LineAssumption DEF Tables
<1>7. Placed(s, Held(cs)) /\ s \in PoolType
  BY DEF Building, Storage, Placed
<1> QED
  BY <1>1, <1>2, <1>3, <1>4, <1>5, <1>6, <1>7

\* Jumps that lead somewhere lead there after the lines are written.
LEMMA LeadOn ==
  ASSUME NEW c, NEW d, NEW cs, NEW es, NEW p \in Page, NEW f, NEW n, NEW lines \in Seq(Line),
         Appended(c, d, p, lines), LinesOf(f, lines), Alone(cs, f, p), Remain(cs, es, p),
         c \in [Page -> Seq(Line)], Lead(c, cs, n, f, lines)
  PROVE  Lead(d, es, n, f, lines)
<1>1. ASSUME NEW i \in 1 .. Len(lines), lines[i].to # Nowhere
      PROVE  /\ Reaches(d, es, lines[i].to) /\ FragOf(lines[i].to) <= n
             /\ \A j \in 1 .. Len(es) : KindOf(es, j) = "target" => \/ Frag(es, j) = f
                                                                   \/ FragOf(lines[i].to) # Frag(es, j)
  <2> DEFINE l == lines[i].to
  <2>1. l \in Destination /\ l # Nowhere
    <3>1. lines[i] \in Line
      OBVIOUS
    <3> QED
      BY <1>1, <3>1 DEF Line
  <2>2. /\ Reaches(c, cs, l) /\ FragOf(l) <= n
        /\ \A j \in 1 .. Len(cs) : KindOf(cs, j) = "target" => Frag(cs, j) = f \/ FragOf(l) # Frag(cs, j)
    BY <1>1 DEF Lead
  <2> HIDE DEF l
  <2>3. PageOf(l) \in Page /\ LineOf(l) \in Nat /\ GoesOn(c, cs, PageOf(l), LineOf(l), FragOf(l))
    BY <2>1, <2>2, PlaceParts DEF Reaches
  <2>4. \A q \in Page : Size(c, q) \in Nat
    BY CodeParts
  <2>5. GoesOn(d, es, PageOf(l), LineOf(l), FragOf(l))
    BY <2>3, <2>4, Continued
  <2>6. \A j \in 1 .. Len(es) : KindOf(es, j) = "target" => Frag(es, j) = f \/ FragOf(l) # Frag(es, j)
    BY <2>2 DEF Remain
  <2> QED
    BY <2>2, <2>5, <2>6 DEF Reaches, l
<1> QED
  BY <1>1 DEF Lead

\* Page p has room for the lines, for the rest of the table and for a bridge.
HasRoom(s, p, lines, table) == Ample(s, p, Len(lines) + 2 + table)

\* The innermost writes lines, of a table perhaps, and goes on.
LEMMA WroteOn ==
  ASSUME NEW ph, NEW s, NEW cs \in Seq(ContextType), NEW st \in [Fragment -> Destination], NEW n \in Nat,
         Building(ph, s, cs, st, n), Len(cs) > 0,
         NEW x, x = Len(cs), NEW p, p = At(cs, x), NEW f, f = Frag(cs, x),
         NEW lines \in Seq(Line), LinesOf(f, lines), Lead(CodeOf(s), cs, n, f, lines),
         NEW es \in Seq(ContextType), Shape(ph, es), Len(es) = Len(cs), Held(es) = Held(cs),
         SameBut(cs, es, {x}), At(es, x) = p, Remain(cs, es, p), \A g, r : On(cs, g, r) <=> On(es, g, r),
         Table(es, x) \in Nat, HasRoom(s, p, lines, Table(es, x)),
         NEW t, t = Emit(s, p, lines)
  PROVE  Building(ph, t, es, st, n) /\ Fewer(s, t, p, lines)
<1>1. /\ x \in 1 .. Len(cs) /\ p \in Held(cs) /\ p \in Page /\ f \in Fragment /\ f <= n
      /\ Alone(cs, f, p) /\ Placed(s, Held(cs)) /\ s \in PoolType
      /\ \A i \in 1 .. Len(cs) : Frag(cs, i) \in Fragment
  BY Innermost
<1>2. Len(lines) \in Nat /\ Ample(s, p, Len(lines)) /\ FreeLines(s, p) \in Int
  <2>1. FreeLines(s, p) \in Int /\ Len(lines) \in Nat
    BY <1>1, PoolParts
  <2>2. ~Torn(s) => Len(lines) + 2 + Table(es, x) <= FreeLines(s, p)
    BY <2>1 DEF HasRoom, Ample
  <2> QED
    BY <2>1, <2>2 DEF Ample
<1>3. /\ Storage(ph, t, Held(cs)) /\ Appended(CodeOf(s), CodeOf(t), p, lines)
      /\ Fewer(s, t, p, lines) /\ Torn(t) = Torn(s)
      /\ \A q \in Page \ {p} : FreeLines(t, q) = FreeLines(s, q)
      /\ Count(t, RtOf(ph)) = Count(s, RtOf(ph))
  BY <1>1, <1>2, StorageWritten DEF Building, Fewer
<1>4. CodeOf(s) \in [Page -> Seq(Line)] /\ CodeOf(t) \in [Page -> Seq(Line)]
  BY <1>1, <1>3, PoolParts DEF Storage, Placed
<1>5. Sound(CodeOf(t), es, st, n)
  <2> DEFINE c == CodeOf(s)
             d == CodeOf(t)
  <2>1. /\ Sound(c, cs, st, n) /\ Appended(c, d, p, lines) /\ Lead(c, cs, n, f, lines)
        /\ c \in [Page -> Seq(Line)] /\ d \in [Page -> Seq(Line)]
    BY <1>3, <1>4 DEF Building
  <2> HIDE DEF c, d
  <2>2. Lead(d, es, n, f, lines)
    BY <1>1, <2>1, LeadOn
  <2>3. Closed(es, f, p, lines)
    <3>1. On(es, f, p)
      BY <1>1 DEF Alone
    <3> QED
      BY <3>1 DEF Closed
  <2>4. Sound(d, es, st, n)
    BY <1>1, <2>1, <2>2, <2>3, WrittenSound
  <2> QED
    BY <2>4 DEF d
<1>6. Room(t, es)
  <2>1. ASSUME NEW i \in 1 .. Len(es)
        PROVE  Ample(t, At(es, i), 2 + Table(es, i))
    <3>1. CASE i = x
      <4>1. ASSUME ~Torn(t) PROVE FreeLines(t, p) >= 2 + Table(es, x)
        <5>1. Len(lines) + 2 + Table(es, x) <= FreeLines(s, p)
          BY <1>2, <1>3, <4>1 DEF HasRoom, Ample
        <5>2. FreeLines(t, p) = FreeLines(s, p) - Len(lines)
          BY <1>2, <1>3, <5>1 DEF Fewer
        <5> QED
          BY <1>2, <5>1, <5>2
      <4> QED
        BY <3>1, <4>1 DEF Ample
    <3>2. CASE i # x
      <4>1. At(es, i) = At(cs, i) /\ Table(es, i) = Table(cs, i) /\ i \in 1 .. Len(cs)
        BY <3>2 DEF SameBut
      <4>2. At(cs, i) \in Page /\ At(cs, i) # p
        BY <1>1, <3>2, <4>1, ContextParts DEF Building, Shape, Separate
      <4>3. Ample(s, At(cs, i), 2 + Table(cs, i))
        BY <4>1 DEF Building, Room
      <4> QED
        BY <1>3, <4>1, <4>2, <4>3 DEF Ample
    <3> QED
      BY <3>1, <3>2
  <2> QED
    BY <2>1 DEF Room
<1>7. ph = "loading" => Known(es, st)
  <2>1. \A g : (\E i \in 1 .. Len(cs) : Frag(cs, i) = g) => \E i \in 1 .. Len(es) : Frag(es, i) = g
    <3>1. ASSUME NEW i \in 1 .. Len(cs)
          PROVE  \E j \in 1 .. Len(es) : Frag(es, j) = Frag(cs, i)
      <4>1. On(cs, Frag(cs, i), At(cs, i))
        BY DEF On
      <4>2. On(es, Frag(cs, i), At(cs, i))
        BY <4>1
      <4> QED
        BY <4>2 DEF On
    <3> QED
      BY <3>1
  <2> QED
    BY <2>1 DEF Building, Known
<1>8. es # <<>> /\ Count(t, RtOf(ph)) = Len(es)
  BY <1>3, ContextParts DEF Building
<1> QED
  BY <1>3, <1>5, <1>6, <1>7, <1>8 DEF Building

\* The same, where no table is written and nothing jumps.
LEMMA Wrote ==
  ASSUME NEW ph, NEW s, NEW cs \in Seq(ContextType), NEW st \in [Fragment -> Destination], NEW n \in Nat,
         Building(ph, s, cs, st, n), Len(cs) > 0,
         NEW x, x = Len(cs), NEW p, p = At(cs, x), NEW f, f = Frag(cs, x),
         NEW lines \in Seq(Line), LinesOf(f, lines), \A i \in 1 .. Len(lines) : lines[i].to = Nowhere,
         HasRoom(s, p, lines, Table(cs, x)),
         NEW t, t = Emit(s, p, lines)
  PROVE  Building(ph, t, cs, st, n) /\ Fewer(s, t, p, lines)
<1>1. Table(cs, x) \in Nat
  BY Innermost
<1>2. Lead(CodeOf(s), cs, n, f, lines)
  BY DEF Lead
<1>3. Shape(ph, cs) /\ SameBut(cs, cs, {x}) /\ Remain(cs, cs, p)
  BY DEF Building, SameBut, Remain
<1> QED
  BY <1>1, <1>2, <1>3, WroteOn

\* All of Building that holds even when the expression is done.
Between(ph, s, cs, st, n) ==
  /\ Storage(ph, s, Held(cs)) /\ Count(s, RtOf(ph)) = Len(cs) /\ Room(s, cs)
  /\ Shape(ph, cs) /\ Sound(CodeOf(s), cs, st, n)

LEMMA BetweenBuilding ==
  ASSUME NEW ph, NEW s, NEW cs, NEW st, NEW n, Between(ph, s, cs, st, n), ph # "loading"
  PROVE  Building(ph, s, cs, st, n)
  BY DEF Between, Building, Storage

\* The innermost writes its last lines, and gives back its page.
LEMMA WroteLast ==
  ASSUME NEW ph, NEW s, NEW cs \in Seq(ContextType), NEW st \in [Fragment -> Destination], NEW n \in Nat,
         Building(ph, s, cs, st, n), Len(cs) > 0,
         NEW x, x = Len(cs), NEW p, p = At(cs, x), NEW f, f = Frag(cs, x),
         NEW lines \in Seq(Line), LinesOf(f, lines), Lead(CodeOf(s), cs, n, f, lines),
         lines[Len(lines)].ends, Ample(s, p, Len(lines)),
         NEW t, t = ReleasePage(Emit(s, p, lines), RtOf(ph), p), NEW es, es = Popped(cs)
  PROVE  Between(ph, t, es, st, n)
<1>1. /\ x \in 1 .. Len(cs) /\ p \in Held(cs) /\ p \in Page /\ f \in Fragment /\ f <= n
      /\ Alone(cs, f, p) /\ Placed(s, Held(cs)) /\ s \in PoolType
      /\ \A i \in 1 .. Len(cs) : Frag(cs, i) \in Fragment
  BY Innermost
<1>2. PICK u : u = Emit(s, p, lines)
  OBVIOUS
<1>3. /\ Storage(ph, u, Held(cs)) /\ Appended(CodeOf(s), CodeOf(u), p, lines)
      /\ \A q \in Page \ {p} : FreeLines(u, q) = FreeLines(s, q)
      /\ Count(u, RtOf(ph)) = Count(s, RtOf(ph)) /\ Torn(u) = Torn(s)
  BY <1>1, <1>2, StorageWritten DEF Building, Fewer
<1>4. /\ Storage(ph, t, Held(cs) \ {p}) /\ CodeOf(t) = CodeOf(u) /\ Torn(t) = Torn(u)
      /\ \A q \in Page : FreeLines(t, q) = FreeLines(u, q)
      /\ Count(t, RtOf(ph)) = Count(u, RtOf(ph)) - 1
  <2>1. t = ReleasePage(u, RtOf(ph), p)
    BY <1>2
  <2>2. p \in Held(cs) /\ Storage(ph, u, Held(cs))
    BY <1>1, <1>3
  <2> QED
    BY ONLY <2>1, <2>2, StorageReleased
<1>5. /\ Shape(ph, es) /\ Held(es) = Held(cs) \ {p} /\ Remain(cs, es, p)
      /\ es \in Seq(ContextType) /\ Len(es) = Len(cs) - 1 /\ SameBut(cs, es, {})
  BY PoppedShape, PoppedParts DEF Building
<1>6. Sound(CodeOf(t), es, st, n)
  <2> DEFINE c == CodeOf(s)
             d == CodeOf(t)
  <2>1. /\ Sound(c, cs, st, n) /\ Appended(c, d, p, lines) /\ Lead(c, cs, n, f, lines)
        /\ c \in [Page -> Seq(Line)] /\ d \in [Page -> Seq(Line)]
    BY <1>1, <1>3, <1>4, PoolParts DEF Building, Storage, Placed
  <2> HIDE DEF c, d
  <2>2. Lead(d, es, n, f, lines)
    BY <1>1, <1>5, <2>1, LeadOn
  <2>3. Closed(es, f, p, lines)
    <3>1. ASSUME NEW i \in 1 .. Len(lines), ~lines[i].ends
          PROVE  i < Len(lines)
      <4>1. i # Len(lines)
        BY <3>1
      <4>2. i \in Int /\ i <= Len(lines) /\ Len(lines) \in Nat
        OBVIOUS
      <4> QED
        BY ONLY <4>1, <4>2
    <3> QED
      BY <3>1 DEF Closed
  <2>4. Sound(d, es, st, n)
    BY <1>1, <1>5, <2>1, <2>2, <2>3, WrittenSound
  <2> QED
    BY <2>4 DEF d
<1>7. Room(t, es)
  <2>1. ASSUME NEW i \in 1 .. Len(es)
        PROVE  Ample(t, At(es, i), 2 + Table(es, i))
    <3>1. i \in 1 .. Len(cs) /\ i # x
      BY <1>5, ContextParts
    <3>2. At(cs, i) \in Page /\ At(cs, i) # p
      BY <1>1, <3>1, ContextParts DEF Building, Shape, Separate
    <3>3. Ample(s, At(cs, i), 2 + Table(cs, i))
      BY <3>1 DEF Building, Room
    <3>4. FreeLines(t, At(cs, i)) = FreeLines(s, At(cs, i))
      BY <1>3, <1>4, <3>2
    <3>5. At(es, i) = At(cs, i) /\ Table(es, i) = Table(cs, i)
      BY <1>5 DEF SameBut
    <3> QED
      BY <1>3, <1>4, <3>3, <3>4, <3>5 DEF Ample
  <2> QED
    BY <2>1 DEF Room
<1>8. Count(t, RtOf(ph)) = Len(es)
  <2>1. Count(s, RtOf(ph)) = Len(cs) /\ Len(cs) \in Nat
    BY ContextParts DEF Building
  <2> QED
    BY <1>3, <1>4, <1>5, <2>1
<1> QED
  BY <1>4, <1>5, <1>6, <1>7, <1>8 DEF Between
-----------------------------------------------------------------------------
(* A fragment begins.                                                      *)

LEMMA BegunSound ==
  ASSUME NEW c \in [Page -> Seq(Line)], NEW cs, NEW es, NEW st \in [Fragment -> Destination],
         NEW n \in Nat, Sound(c, cs, st, n), NEW f \in Fragment, f = n + 1, NEW q \in Page,
         NEW l \in Destination, l # Nowhere, PageOf(l) = q, LineOf(l) = Size(c, q), FragOf(l) = f,
         Len(es) = Len(cs) + 1, Len(cs) \in Nat, SameBut(cs, es, {Len(es)}), Frag(es, Len(es)) = f,
         \A g, r : On(es, g, r) <=> On(cs, g, r) \/ (g = f /\ r = q),
         \A i \in 1 .. Len(cs) : Frag(cs, i) \in Fragment,
         NEW su, su = [st EXCEPT ![f] = l]
  PROVE  Sound(c, es, su, f)
<1>1. \A r \in Page : Size(c, r) \in Nat
  BY CodeParts
<1>2. /\ Entry(su, f) = l
      /\ \A g \in Fragment : g # f => Entry(su, g) = Entry(st, g)
  BY DEF Entry
<1>3. \A r, k, g : GoesOn(c, cs, r, k, g) => GoesOn(c, es, r, k, g)
  BY DEF GoesOn
<1>4. Reaches(c, es, l)
  BY <1>1 DEF Reaches, GoesOn
<1>5. Joined(c, es, su)
  <2>1. ASSUME NEW g \in Fragment, Entry(su, g) # Nowhere
        PROVE  FragOf(Entry(su, g)) = g /\ Reaches(c, es, Entry(su, g))
    <3>1. CASE g = f
      BY <1>2, <1>4, <3>1
    <3>2. CASE g # f
      <4>1. Entry(su, g) = Entry(st, g)
        BY <1>2, <3>2
      <4> QED
        BY <1>3, <2>1, <4>1 DEF Sound, Joined, Reaches
    <3> QED
      BY <3>1, <3>2
  <2>2. ASSUME NEW r \in Page, NEW i \in 1 .. Size(c, r)
        PROVE  /\ Jump(c, r, i) # Nowhere => Reaches(c, es, Jump(c, r, i))
               /\ ~Ends(c, r, i) => GoesOn(c, es, r, i, Owner(c, r, i))
    BY <1>3 DEF Sound, Joined, Reaches
  <2> QED
    BY <2>1, <2>2 DEF Joined
<1>6. f \in Nat /\ f > n
  OBVIOUS
<1>7. Unwritten(c, f)
  BY <1>6 DEF Sound, Numbered
<1>8. ASSUME NEW j \in 1 .. Len(es)
      PROVE  BegunBy(c, su, Frag(es, j), KindOf(es, j)) /\ Frag(es, j) <= f
  <2>1. CASE j = Len(es)
    <3>1. LineOf(l) <= Size(c, PageOf(l))
      BY <1>1
    <3> QED
      BY <1>2, <1>6, <1>7, <2>1, <3>1 DEF BegunBy
  <2>2. CASE j # Len(es)
    <3>1. j \in 1 .. Len(cs) /\ Frag(es, j) = Frag(cs, j) /\ KindOf(es, j) = KindOf(cs, j)
      BY <2>2 DEF SameBut
    <3>2. Frag(cs, j) <= n /\ BegunBy(c, st, Frag(cs, j), KindOf(cs, j))
      BY <3>1 DEF Sound, Numbered, Begun
    <3>3. Frag(cs, j) \in Fragment
      BY <3>1
    <3>4. Frag(cs, j) # f /\ Frag(cs, j) <= f
      BY <1>6, <3>2, <3>3 DEF Fragment
    <3>5. Entry(su, Frag(cs, j)) = Entry(st, Frag(cs, j))
      BY <1>2, <3>3, <3>4
    <3> QED
      BY <3>1, <3>2, <3>4, <3>5 DEF BegunBy
  <2> QED
    BY <2>1, <2>2
<1>9. \A g \in Fragment : g > f => Unwritten(c, g)
  <2>1. \A g \in Fragment : g > f => g > n
    BY <1>6 DEF Fragment
  <2> QED
    BY <2>1 DEF Sound, Numbered
<1> QED
  BY <1>5, <1>8, <1>9 DEF Sound, Begun, Numbered

Opens(ph, t, cs, es, su, f, q, k) ==
  /\ f \in 0 .. MaxFragments /\ su \in [Fragment -> Destination] /\ es \in Seq(ContextType)
  /\ Building(ph, t, es, su, f)
  /\ Len(es) = Len(cs) + 1 /\ At(es, Len(es)) = q /\ Frag(es, Len(es)) = f
  /\ FreeLines(t, q) >= k

LEMMA Opened ==
  ASSUME NEW ph, NEW s, NEW cs \in Seq(ContextType), NEW st \in [Fragment -> Destination],
         NEW n \in 0 .. MaxFragments, n < MaxFragments,
         Building(ph, s, cs, st, n), NEW kind, Begins(ph, cs, kind),
         NEW k \in Nat, k >= 2, NEW a \in Acquire(s, RtOf(ph), k), a.page # NoPage,
         NEW q, q = a.page, NEW t, t = a.pool,
         NEW f, f = n + 1, NEW es, es = Opening(cs, f, kind, q),
         NEW su, su = [st EXCEPT ![f] = Location(t, q, f)]
  PROVE  Opens(ph, t, cs, es, su, f, q, k)
<1> DEFINE l == Location(t, q, f)
<1>1. n \in Nat /\ f \in Nat /\ f > n /\ f \in Fragment /\ f \in 0 .. MaxFragments
  BY LineAssumption DEF Fragment
<1>2. /\ q \in Page /\ q \notin Held(cs)
      /\ Storage(ph, t, Held(cs) \cup {q}) /\ CodeOf(t) = CodeOf(s) /\ Torn(t) = Torn(s)
      /\ FreeLines(t, q) >= k
      /\ \A p \in Held(cs) : FreeLines(t, p) = FreeLines(s, p)
      /\ Count(t, RtOf(ph)) = Count(s, RtOf(ph)) + 1
  <2>1. Storage(ph, s, Held(cs))
    BY DEF Building
  <2>2. Gained(ph, s, a.pool, Held(cs), a.page, k)
    BY ONLY <2>1, StorageAcquired, k \in Nat, a \in Acquire(s, RtOf(ph), k), a.page # NoPage
  <2>3. q = a.page /\ t = a.pool
    OBVIOUS
  <2> QED
    BY ONLY <2>2, <2>3 DEF Gained
<1>3. t \in PoolType /\ CodeOf(s) \in [Page -> Seq(Line)]
  BY <1>2, PoolParts DEF Storage, Placed
<1>4. l \in Destination /\ l # Nowhere /\ PageOf(l) = q /\ LineOf(l) = Size(CodeOf(s), q) /\ FragOf(l) = f
  <2>1. /\ l \in Destination /\ l # Nowhere
        /\ PageOf(l) = q /\ LineOf(l) = Size(CodeOf(t), q) /\ FragOf(l) = f
    BY <1>1, <1>2, <1>3, LocationParts
  <2> QED
    BY <1>2, <2>1
<1>5. su = [st EXCEPT ![f] = l]
  OBVIOUS
<1> HIDE DEF l
<1>6. su \in [Fragment -> Destination]
  BY <1>4, <1>5
<1>7. \A i \in 1 .. Len(cs) : Frag(cs, i) # f /\ Frag(cs, i) \in Fragment
  <2>1. ASSUME NEW i \in 1 .. Len(cs)
        PROVE  Frag(cs, i) # f /\ Frag(cs, i) \in Fragment
    <3>1. Frag(cs, i) <= n /\ Frag(cs, i) \in Fragment
      BY ContextParts DEF Building, Sound, Numbered
    <3> QED
      BY <1>1, <3>1 DEF Fragment
  <2> QED
    BY <2>1
<1>8. /\ es \in Seq(ContextType) /\ Shape(ph, es) /\ Held(es) = Held(cs) \cup {q}
      /\ Len(es) = Len(cs) + 1 /\ Table(es, Len(es)) = 0
      /\ Frag(es, Len(es)) = f /\ KindOf(es, Len(es)) = kind /\ At(es, Len(es)) = q
      /\ SameBut(cs, es, {Len(es)})
      /\ \A g, r : On(es, g, r) <=> On(cs, g, r) \/ (g = f /\ r = q)
  <2>1. Shape(ph, cs) /\ es = Opening(cs, f, kind, q) /\ Begins(ph, cs, kind)
    BY DEF Building
  <2>2. f \in Fragment /\ q \in Page /\ q \notin Held(cs) /\ \A i \in 1 .. Len(cs) : Frag(cs, i) # f
    BY <1>1, <1>2, <1>7
  <2>3. OpenedShape(ph, cs, es, f, kind, q)
    BY ONLY <2>1, <2>2, PushedShape, cs \in Seq(ContextType)
  <2> QED
    BY ONLY <2>3 DEF OpenedShape
<1>9. Len(cs) \in Nat
  OBVIOUS
<1>10. Sound(CodeOf(t), es, su, f)
  <2> DEFINE c == CodeOf(s)
  <2>1. Sound(c, cs, st, n) /\ c \in [Page -> Seq(Line)] /\ LineOf(l) = Size(c, q) /\ CodeOf(t) = c
    BY <1>2, <1>3, <1>4 DEF Building
  <2> HIDE DEF c
  <2>2. Sound(c, es, su, f)
    BY ONLY <1>1, <1>2, <1>4, <1>5, <1>7, <1>8, <1>9, <2>1, BegunSound, f = n + 1,
            st \in [Fragment -> Destination]
  <2> QED
    BY <2>1, <2>2
<1>11. Room(t, es)
  <2>1. ASSUME NEW i \in 1 .. Len(es)
        PROVE  Ample(t, At(es, i), 2 + Table(es, i))
    <3>1. CASE i = Len(es)
      <4>1. FreeLines(t, q) >= 2
        <5>1. FreeLines(t, q) \in Int
          BY <1>2, <1>3, PoolParts
        <5> QED
          BY <1>2, <5>1
      <4> QED
        BY <1>8, <3>1, <4>1 DEF Ample
    <3>2. CASE i # Len(es)
      <4>1. i \in 1 .. Len(cs) /\ At(es, i) = At(cs, i) /\ Table(es, i) = Table(cs, i)
        BY <1>8, <1>9, <3>2 DEF SameBut
      <4>2. Ample(s, At(cs, i), 2 + Table(cs, i)) /\ At(cs, i) \in Held(cs)
        BY <4>1 DEF Building, Room, Held
      <4> QED
        BY <1>2, <4>1, <4>2 DEF Ample
    <3> QED
      BY <3>1, <3>2
  <2> QED
    BY <2>1 DEF Room
<1>12. ph = "loading" => Known(es, su)
  <2>1. ASSUME ph = "loading", NEW g \in Fragment, Entry(su, g) # Nowhere
        PROVE  \E i \in 1 .. Len(es) : Frag(es, i) = g
    <3>1. CASE g = f
      <4>1. Len(es) \in 1 .. Len(es)
        BY <1>8, <1>9
      <4> QED
        BY <1>8, <3>1, <4>1
    <3>2. CASE g # f
      <4>1. Entry(st, g) # Nowhere
        BY <1>5, <2>1, <3>2 DEF Entry
      <4>2. PICK i \in 1 .. Len(cs) : Frag(cs, i) = g
        BY <2>1, <4>1 DEF Building, Known
      <4>3. i \in 1 .. Len(es) /\ i # Len(es)
        BY <1>8, <1>9
      <4>4. Frag(es, i) = g
        BY <1>8, <4>2, <4>3 DEF SameBut
      <4> QED
        BY <4>3, <4>4
    <3> QED
      BY <3>1, <3>2
  <2> QED
    BY <2>1 DEF Known
<1>13. Count(t, RtOf(ph)) = Len(es) /\ es # <<>>
  <2>1. es # <<>>
    BY <1>8, <1>9, ContextParts
  <2> QED
    BY <1>2, <1>8, <2>1 DEF Building
<1> QED
  BY <1>1, <1>2, <1>6, <1>8, <1>10, <1>11, <1>12, <1>13 DEF Opens, Building

-----------------------------------------------------------------------------
(* A fragment goes on on another page.                                     *)

\* The outcomes of EnsureCodePageNumLines.
EnsuredBy(s, rt, p, f, k, e) ==
  \/ FreeLines(s, p) >= k + 2 /\ e = Emitted(s, p)
  \/ /\ ~(FreeLines(s, p) >= k + 2)
     /\ \E a \in Acquire(s, rt, k + 2) :
          \/ a.page = NoPage /\ e = NotEmitted(s, p)
          \/ /\ a.page # NoPage
             /\ e = Emitted(ReleasePage(Emit(a.pool, p, <<Operation(f), Final(Pointer(f, Location(a.pool, a.page, f)))>>),
                                        rt, p), a.page)

LEMMA EnsureCases ==
  ASSUME NEW s, NEW rt, NEW p, NEW f, NEW k, NEW e \in EnsureLines(s, rt, p, f, k)
  PROVE  EnsuredBy(s, rt, p, f, k, e)
<1>1. CASE FreeLines(s, p) >= k + 2
  BY <1>1 DEF EnsureLines, EnsuredBy
<1>2. CASE ~(FreeLines(s, p) >= k + 2)
  <2>1. PICK a \in Acquire(s, rt, k + 2) :
          e = IF a.page = NoPage THEN NotEmitted(s, p)
              ELSE Emitted(ReleasePage(Emit(a.pool, p, <<Operation(f), Final(Pointer(f, Location(a.pool, a.page, f)))>>),
                                       rt, p), a.page)
    BY <1>2, Zenon DEF EnsureLines
  <2> QED
    BY <1>2, <2>1, Zenon DEF EnsuredBy
<1> QED
  BY <1>1, <1>2

\* The lines of a bridge.
Bridge(f, l) == <<Operation(f), Final(Pointer(f, l))>>

LEMMA BridgeLines ==
  ASSUME NEW f \in Fragment, NEW l \in Destination
  PROVE  LET b == Bridge(f, l) IN
         /\ b \in Seq(Line) /\ Len(b) = 2 /\ LinesOf(f, b)
         /\ b[1].to = Nowhere /\ b[2].to = l /\ b[2].ends
<1> DEFINE x == Operation(f)
           y == Final(Pointer(f, l))
<1>1. x \in Line /\ x.of = f /\ x.to = Nowhere
  BY DEF Operation, Line, Destination
<1>2. y \in Line /\ y.of = f /\ y.to = l /\ y.ends
  BY DEF Pointer, Final, Line
<1> HIDE DEF x, y
<1>3. /\ <<x, y>> \in Seq(Line) /\ Len(<<x, y>>) = 2
      /\ <<x, y>>[1] = x /\ <<x, y>>[2] = y
  BY <1>1, <1>2
<1>4. LinesOf(f, <<x, y>>)
  BY <1>1, <1>2, <1>3 DEF LinesOf
<1> QED
  BY <1>1, <1>2, <1>3, <1>4 DEF Bridge, x, y
LEMMA Bridged ==
  ASSUME NEW ph, NEW s, NEW cs \in Seq(ContextType), NEW st \in [Fragment -> Destination], NEW n \in Nat,
         Building(ph, s, cs, st, n), Len(cs) > 0,
         NEW x, x = Len(cs), NEW p, p = At(cs, x), NEW f, f = Frag(cs, x), Table(cs, x) = 0,
         NEW k \in Nat, k >= 2, NEW u, NEW q \in Page, Gained(ph, s, u, Held(cs), q, k),
         NEW l, l = Location(u, q, f),
         NEW t, t = ReleasePage(Emit(u, p, Bridge(f, l)), RtOf(ph), p),
         NEW es, es = PageSet(cs, x, q)
  PROVE  Building(ph, t, es, st, n) /\ FreeLines(t, q) >= k
<1>1. /\ x \in 1 .. Len(cs) /\ p \in Held(cs) /\ p \in Page /\ f \in Fragment /\ f <= n
      /\ Alone(cs, f, p) /\ Ample(s, p, 2 + Table(cs, x)) /\ s \in PoolType
      /\ \A i \in 1 .. Len(cs) : Frag(cs, i) \in Fragment
  BY Innermost
<1>2. /\ q \in Page /\ q \notin Held(cs) /\ Storage(ph, u, Held(cs) \cup {q})
      /\ CodeOf(u) = CodeOf(s) /\ Torn(u) = Torn(s) /\ FreeLines(u, q) >= k
      /\ \A r \in Held(cs) : FreeLines(u, r) = FreeLines(s, r)
      /\ Count(u, RtOf(ph)) = Count(s, RtOf(ph)) + 1
  BY DEF Gained
<1>3. u \in PoolType /\ q # p
  BY <1>1, <1>2 DEF Storage, Placed
<1>4. l \in Destination /\ l # Nowhere /\ PageOf(l) = q /\ LineOf(l) = Size(CodeOf(s), q) /\ FragOf(l) = f
  <2>1. /\ l \in Destination /\ l # Nowhere
        /\ PageOf(l) = q /\ LineOf(l) = Size(CodeOf(u), q) /\ FragOf(l) = f
    BY <1>1, <1>2, <1>3, LocationParts
  <2> QED
    BY <1>2, <2>1
<1>5. PICK b : b = Bridge(f, l)
  OBVIOUS
<1>6. /\ b \in Seq(Line) /\ Len(b) = 2 /\ LinesOf(f, b)
      /\ b[1].to = Nowhere /\ b[2].to = l /\ b[2].ends
  BY <1>1, <1>4, <1>5, BridgeLines
<1>7. PICK v : v = Emit(u, p, b)
  OBVIOUS
<1>8. /\ Storage(ph, v, Held(cs) \cup {q}) /\ Appended(CodeOf(s), CodeOf(v), p, b)
      /\ \A r \in Page \ {p} : FreeLines(v, r) = FreeLines(u, r)
      /\ Count(v, RtOf(ph)) = Count(u, RtOf(ph)) /\ Torn(v) = Torn(u)
  <2> DEFINE h == Held(cs) \cup {q}
  <2>1. Storage(ph, u, h) /\ p \in h
    BY <1>1, <1>2
  <2> HIDE DEF h
  <2>2. Ample(u, p, Len(b))
    <3>1. Ample(u, p, 2 + Table(cs, x)) /\ Table(cs, x) = 0
      BY <1>1, <1>2 DEF Ample
    <3> QED
      BY ONLY <1>6, <3>1 DEF Ample
  <2>3. /\ Storage(ph, v, h) /\ Appended(CodeOf(u), CodeOf(v), p, b)
        /\ \A r \in Page \ {p} : FreeLines(v, r) = FreeLines(u, r)
        /\ Count(v, RtOf(ph)) = Count(u, RtOf(ph)) /\ Torn(v) = Torn(u)
    <3>1. b \in Seq(Line)
      BY <1>6
    <3> QED
      BY ONLY <1>7, <2>1, <2>2, <3>1, StorageWritten DEF Fewer
  <2> QED
    BY <1>2, <2>3 DEF h
<1>9. /\ Storage(ph, t, (Held(cs) \cup {q}) \ {p}) /\ CodeOf(t) = CodeOf(v) /\ Torn(t) = Torn(v)
      /\ \A r \in Page : FreeLines(t, r) = FreeLines(v, r)
      /\ Count(t, RtOf(ph)) = Count(v, RtOf(ph)) - 1
  <2> DEFINE h == Held(cs) \cup {q}
  <2>1. Storage(ph, v, h) /\ p \in h /\ t = ReleasePage(v, RtOf(ph), p)
    BY <1>1, <1>5, <1>7, <1>8
  <2> HIDE DEF h
  <2>2. /\ Storage(ph, t, h \ {p}) /\ CodeOf(t) = CodeOf(v) /\ Torn(t) = Torn(v)
        /\ \A r \in Page : FreeLines(t, r) = FreeLines(v, r)
        /\ Count(t, RtOf(ph)) = Count(v, RtOf(ph)) - 1
    BY ONLY <2>1, StorageReleased
  <2> QED
    BY <2>2 DEF h
<1>10. Shape(ph, es) /\ Held(es) = (Held(cs) \cup {q}) \ {p} /\ Remain(cs, es, p)
  <2>1. Shape(ph, cs)
    BY DEF Building
  <2>2. /\ Shape(ph, es) /\ Held(es) = (Held(cs) \cup {q}) \ {At(cs, Len(cs))}
        /\ Remain(cs, es, At(cs, Len(cs)))
    BY <1>2, <2>1, MovedShape
  <2> QED
    BY <2>2
<1>11. /\ es \in Seq(ContextType) /\ Len(es) = Len(cs) /\ SameBut(cs, es, {x})
       /\ Frag(es, x) = f /\ Table(es, x) = 0 /\ At(es, x) = q
  <2>1. Len(cs) \in 1 .. Len(cs) /\ q \in Page /\ es = PageSet(cs, Len(cs), q) /\ x = Len(cs)
    BY <1>1, <1>2
  <2>2. PageIsSet(cs, es, Len(cs), q)
    BY ONLY <2>1, PageSetParts, cs \in Seq(ContextType)
  <2> QED
    BY <2>1, <2>2 DEF PageIsSet
<1>12. Sound(CodeOf(t), es, st, n)
  <2> DEFINE c == CodeOf(s)
             d == CodeOf(t)
  <2>1. /\ Sound(c, cs, st, n) /\ Appended(c, d, p, b) /\ LineOf(l) = Size(c, q)
        /\ c \in [Page -> Seq(Line)] /\ d \in [Page -> Seq(Line)]
    BY <1>1, <1>4, <1>8, <1>9, PoolParts DEF Building, Storage, Placed
  <2> HIDE DEF c, d
  <2>2. Reaches(d, es, l)
    <3>1. Size(d, q) = Size(c, q) /\ Size(c, q) \in Nat
      BY <1>2, <1>3, <2>1, CodeParts DEF Appended
    <3>2. On(es, f, q)
      BY <1>1, <1>11 DEF On
    <3> QED
      BY <1>4, <2>1, <3>1, <3>2 DEF Reaches, GoesOn
  <2>3. \A i \in 1 .. Len(b) : i = 1 \/ i = 2
    BY <1>6
  <2>4. Lead(d, es, n, f, b)
    BY <1>1, <1>4, <1>6, <2>2, <2>3 DEF Lead
  <2>5. Closed(es, f, p, b)
    BY <1>6, <2>3 DEF Closed
  <2>6. Sound(d, es, st, n)
    BY <1>1, <1>6, <1>10, <2>1, <2>4, <2>5, WrittenSound
  <2> QED
    BY <2>6 DEF d
<1>13. FreeLines(t, q) >= k
  BY <1>2, <1>3, <1>8, <1>9
<1>14. Room(t, es)
  <2>1. ASSUME NEW i \in 1 .. Len(es)
        PROVE  Ample(t, At(es, i), 2 + Table(es, i))
    <3>1. CASE i = x
      <4>1. FreeLines(t, q) \in Int
        <5>1. t \in PoolType
          BY <1>9 DEF Storage, Placed
        <5> QED
          BY <1>2, <5>1, PoolParts
      <4>2. FreeLines(t, q) >= 2
        BY <1>13, <4>1
      <4> QED
        BY <1>11, <3>1, <4>2 DEF Ample
    <3>2. CASE i # x
      <4>1. At(es, i) = At(cs, i) /\ Table(es, i) = Table(cs, i) /\ i \in 1 .. Len(cs)
        BY <1>11, <3>2 DEF SameBut
      <4>2. At(cs, i) \in Page /\ At(cs, i) # p /\ At(cs, i) \in Held(cs)
        BY <1>1, <3>2, <4>1, ContextParts DEF Building, Shape, Separate, Held
      <4>3. Ample(s, At(cs, i), 2 + Table(cs, i))
        BY <4>1 DEF Building, Room
      <4>4. FreeLines(t, At(cs, i)) = FreeLines(s, At(cs, i)) /\ Torn(t) = Torn(s)
        BY <1>2, <1>8, <1>9, <4>2
      <4> QED
        BY <4>1, <4>3, <4>4 DEF Ample
    <3> QED
      BY <3>1, <3>2
  <2> QED
    BY <2>1 DEF Room
<1>15. ph = "loading" => Known(es, st)
  <2>1. \A i \in 1 .. Len(cs) : i \in 1 .. Len(es) /\ Frag(es, i) = Frag(cs, i)
    BY <1>11 DEF SameBut
  <2> QED
    BY <2>1 DEF Building, Known
<1>16. es # <<>> /\ Count(t, RtOf(ph)) = Len(es)
  <2>1. es # <<>>
    BY <1>11, ContextParts
  <2>2. Count(s, RtOf(ph)) = Len(cs) /\ Len(cs) \in Nat
    BY ContextParts DEF Building
  <2>3. Count(t, RtOf(ph)) = Len(cs)
    BY <1>2, <1>8, <1>9, <2>2
  <2> QED
    BY <1>11, <2>1, <2>3
<1> QED
  BY <1>9, <1>10, <1>12, <1>13, <1>14, <1>15, <1>16 DEF Building

\* What EnsureCodePageNumLines leaves: the innermost fragment goes on, on a page with
\* the lines that were asked for and two more, or nothing has changed.
Ensures(ph, s, cs, st, n, k, e) ==
  \/ /\ e.ok = TRUE /\ e.page \in Page /\ FreeLines(e.pool, e.page) >= k + 2
     /\ Building(ph, e.pool, PageSet(cs, Len(cs), e.page), st, n)
     /\ FreeLines(s, At(cs, Len(cs))) >= k + 2 => e.page = At(cs, Len(cs)) /\ e.pool = s
  \/ /\ e.ok = FALSE /\ e.page = At(cs, Len(cs)) /\ e.pool = s

LEMMA Ensured ==
  ASSUME NEW ph, NEW s, NEW cs \in Seq(ContextType), NEW st \in [Fragment -> Destination], NEW n \in Nat,
         Building(ph, s, cs, st, n), Len(cs) > 0,
         NEW x, x = Len(cs), NEW p, p = At(cs, x), NEW f, f = Frag(cs, x), Table(cs, x) = 0,
         NEW rt, rt = RtOf(ph),
         NEW k \in Nat, NEW e \in EnsureLines(s, rt, p, f, k)
  PROVE  Ensures(ph, s, cs, st, n, k, e)
<1>1. x \in 1 .. Len(cs) /\ p \in Page
  BY Innermost
<1>2. CASE FreeLines(s, p) >= k + 2 /\ e = Emitted(s, p)
  <2>1. e.ok = TRUE /\ e.page = p /\ e.pool = s
    BY <1>2 DEF Emitted
  <2>2. PICK es : es = PageSet(cs, x, p)
    OBVIOUS
  <2>3. es = cs
    <3>1. Len(cs) \in 1 .. Len(cs) /\ es = PageSet(cs, Len(cs), p) /\ p = At(cs, Len(cs))
      BY <1>1, <2>2
    <3>2. PageIsSet(cs, es, Len(cs), p)
      BY ONLY <1>1, <3>1, PageSetParts, cs \in Seq(ContextType)
    <3> QED
      BY <3>1, <3>2 DEF PageIsSet
  <2> QED
    BY <1>1, <1>2, <2>1, <2>2, <2>3 DEF Ensures
<1>3. ASSUME ~(FreeLines(s, p) >= k + 2), NEW a \in Acquire(s, rt, k + 2), a.page = NoPage,
             e = NotEmitted(s, p)
      PROVE  Ensures(ph, s, cs, st, n, k, e)
  <2>1. e.ok = FALSE /\ e.page = p /\ e.pool = s
    BY <1>3 DEF NotEmitted
  <2> QED
    BY <2>1 DEF Ensures
<1>4. ASSUME ~(FreeLines(s, p) >= k + 2), NEW a \in Acquire(s, rt, k + 2), a.page # NoPage,
             e = Emitted(ReleasePage(Emit(a.pool, p, <<Operation(f), Final(Pointer(f, Location(a.pool, a.page, f)))>>),
                                     rt, p), a.page)
      PROVE  Ensures(ph, s, cs, st, n, k, e)
  <2>1. PICK q, u, l, m : q = a.page /\ u = a.pool /\ l = Location(u, q, f) /\ m = k + 2
    OBVIOUS
  <2>2. PICK t : t = ReleasePage(Emit(u, p, Bridge(f, l)), rt, p)
    OBVIOUS
  <2>3. e = Emitted(t, q)
    BY <1>4, <2>1, <2>2, Zenon DEF Bridge
  <2>4. e.ok = TRUE /\ e.page = q /\ e.pool = t
    BY <2>3 DEF Emitted
  <2>5. m \in Nat /\ m >= 2
    BY <2>1
  <2>6. Gained(ph, s, u, Held(cs), q, m)
    <3>1. Storage(ph, s, Held(cs)) /\ a \in Acquire(s, RtOf(ph), m)
      BY <1>4, <2>1 DEF Building
    <3>2. Gained(ph, s, a.pool, Held(cs), a.page, m)
      BY ONLY <3>1, <2>5, StorageAcquired, <1>4
    <3> QED
      BY ONLY <2>1, <3>2
  <2>7. q \in Page
    BY <2>6 DEF Gained
  <2>8. PICK es : es = PageSet(cs, x, q)
    OBVIOUS
  <2>9. Building(ph, t, es, st, n) /\ FreeLines(t, q) >= m
    <3>1. t = ReleasePage(Emit(u, p, Bridge(f, l)), RtOf(ph), p) /\ l = Location(u, q, f)
      BY <2>1, <2>2
    <3> QED
      BY ONLY <2>5, <2>6, <2>7, <2>8, <3>1, Bridged, cs \in Seq(ContextType), st \in [Fragment -> Destination],
              n \in Nat, Building(ph, s, cs, st, n), Len(cs) > 0, x = Len(cs), p = At(cs, x),
              f = Frag(cs, x), Table(cs, x) = 0
  <2>10. ~(FreeLines(s, At(cs, Len(cs))) >= k + 2)
    BY <1>4
  <2> QED
    BY <2>1, <2>4, <2>7, <2>8, <2>9, <2>10 DEF Ensures
<1>5. EnsuredBy(s, rt, p, f, k, e)
  BY EnsureCases
<1> QED
  BY ONLY <1>2, <1>3, <1>4, <1>5, Zenon DEF EnsuredBy
-----------------------------------------------------------------------------
(* Operations are written.                                                 *)

\* n lines of f without a jump.
Plain(f, n, b) ==
  /\ b \in Seq(Line) /\ Len(b) = n /\ LinesOf(f, b)
  /\ \A i \in 1 .. Len(b) : b[i].to = Nowhere

LEMMA PlainLines ==
  ASSUME NEW f \in Fragment, NEW n \in Nat, n > 0, NEW b, b = Immediates(f, n)
  PROVE  Plain(f, n, b)
<1>1. /\ Operation(f) \in Line /\ Operation(f).of = f /\ Operation(f).to = Nowhere
  BY DEF Operation, Line, Destination
<1>2. b = [i \in 1 .. n |-> Operation(f)]
  BY DEF Immediates
<1>3. b \in Seq(Line) /\ Len(b) = n /\ \A i \in 1 .. n : b[i] = Operation(f)
  <2> DEFINE o == Operation(f)
  <2>1. o \in Line /\ b = [i \in 1 .. n |-> o]
    BY <1>1, <1>2
  <2> HIDE DEF o
  <2> QED
    BY <2>1 DEF o
<1> QED
  BY <1>1, <1>3 DEF Plain, LinesOf

LEMMA OneLine ==
  ASSUME NEW f \in Fragment, NEW l \in Destination, NEW y \in Line, y.of = f, y.to = l,
         NEW b, b = <<y>>
  PROVE  b \in Seq(Line) /\ Len(b) = 1 /\ LinesOf(f, b) /\ b[1] = y
<1>1. b \in Seq(Line) /\ Len(b) = 1 /\ b[1] = y
  OBVIOUS
<1> QED
  BY <1>1 DEF LinesOf

LEMMA LineKinds ==
  ASSUME NEW f \in Fragment, NEW l \in Destination
  PROVE  /\ Operation(f) \in Line /\ Operation(f).of = f /\ Operation(f).to = Nowhere
         /\ Pointer(f, l) \in Line /\ Pointer(f, l).of = f /\ Pointer(f, l).to = l
         /\ Final(Operation(f)) \in Line /\ Final(Operation(f)).of = f
         /\ Final(Operation(f)).to = Nowhere /\ Final(Operation(f)).ends
         /\ Final(Pointer(f, l)) \in Line /\ Final(Pointer(f, l)).of = f
         /\ Final(Pointer(f, l)).to = l /\ Final(Pointer(f, l)).ends
  BY DEF Operation, Pointer, Final, Line, Destination

LEMMA EmitOpCases ==
  ASSUME NEW s, NEW rt, NEW p, NEW f, NEW lines, NEW e \in EmitOp(s, rt, p, f, lines)
  PROVE  \E d \in EnsureLines(s, rt, p, f, Threshold) :
           \/ d.ok /\ e = Emitted(Emit(d.pool, d.page, lines), d.page)
           \/ ~d.ok /\ e = d
<1>1. PICK d \in EnsureLines(s, rt, p, f, Threshold) :
        e = IF d.ok THEN Emitted(Emit(d.pool, d.page, lines), d.page) ELSE d
  BY Zenon DEF EmitOp
<1> QED
  BY <1>1, Zenon

\* The innermost fragment goes on, perhaps on another page, after an operation or as if
\* there had been none.
Emits(ph, s, cs, st, n, lines, e) ==
  /\ e.ok \in BOOLEAN /\ e.page \in Page
  /\ Building(ph, e.pool, PageSet(cs, Len(cs), e.page), st, n)
  /\ e.ok => /\ FreeLines(e.pool, e.page) >= (Threshold + 2) - Len(lines)
             /\ FreeLines(s, At(cs, Len(cs))) >= Threshold + 2 =>
                  FreeLines(e.pool, e.page) = FreeLines(s, At(cs, Len(cs))) - Len(lines)

\* The facts about the page a fragment goes on on.
LEMMA OnPage ==
  ASSUME NEW cs \in Seq(ContextType), Len(cs) > 0, NEW q \in Page,
         NEW x, x = Len(cs), NEW es, es = PageSet(cs, x, q)
  PROVE  PageIsSet(cs, es, x, q)
<1>1. Len(cs) \in 1 .. Len(cs) /\ es = PageSet(cs, Len(cs), q)
  BY ContextParts
<1>2. PageIsSet(cs, es, Len(cs), q)
  BY ONLY <1>1, PageSetParts, cs \in Seq(ContextType), q \in Page
<1> QED
  BY <1>2

LEMMA OpWritten ==
  ASSUME NEW ph, NEW s, NEW cs \in Seq(ContextType), NEW st \in [Fragment -> Destination], NEW n \in Nat,
         Building(ph, s, cs, st, n), Len(cs) > 0,
         NEW x, x = Len(cs), NEW p, p = At(cs, x), NEW f, f = Frag(cs, x), Table(cs, x) = 0,
         NEW rt, rt = RtOf(ph),
         NEW lines \in Seq(Line), LinesOf(f, lines), \A i \in 1 .. Len(lines) : lines[i].to = Nowhere,
         Len(lines) <= Threshold,
         NEW e \in EmitOp(s, rt, p, f, lines)
  PROVE  Emits(ph, s, cs, st, n, lines, e)
<1>1. PICK d \in EnsureLines(s, rt, p, f, Threshold) :
        \/ d.ok /\ e = Emitted(Emit(d.pool, d.page, lines), d.page)
        \/ ~d.ok /\ e = d
  BY ONLY EmitOpCases, e \in EmitOp(s, rt, p, f, lines)
<1>2. Threshold \in Nat /\ Len(lines) \in Nat
  BY LineAssumption
<1>3. Ensures(ph, s, cs, st, n, Threshold, d)
  BY <1>2, Ensured
<1>4. p \in Page
  BY Innermost
<1>5. CASE d.ok
  <2>1. PICK q, u : q = d.page /\ u = d.pool
    OBVIOUS
  <2>2. PICK t : t = Emit(u, q, lines)
    OBVIOUS
  <2>3. e = Emitted(t, q)
    BY <1>1, <1>5, <2>1, <2>2
  <2>4. e.ok = TRUE /\ e.page = q /\ e.pool = t
    BY <2>3 DEF Emitted
  <2>5. PICK es : es = PageSet(cs, x, q)
    OBVIOUS
  <2>6. /\ q \in Page /\ FreeLines(u, q) >= Threshold + 2
        /\ Building(ph, u, es, st, n)
        /\ FreeLines(s, p) >= Threshold + 2 => q = p /\ u = s
    BY <1>3, <1>5, <2>1, <2>5 DEF Ensures
  <2>7. /\ es \in Seq(ContextType) /\ Len(es) = Len(cs) /\ Frag(es, x) = f /\ At(es, x) = q
        /\ Table(es, x) = 0
    <3>1. PageIsSet(cs, es, x, q)
      BY <2>5, <2>6, OnPage
    <3> QED
      BY <3>1 DEF PageIsSet
  <2>8. Building(ph, t, es, st, n) /\ FreeLines(t, q) = FreeLines(u, q) - Len(lines)
    <3>1. FreeLines(u, q) \in Int
      <4>1. u \in PoolType
        BY <2>6 DEF Building, Storage, Placed
      <4> QED
        BY <2>6, <4>1, PoolParts
    <3>2. HasRoom(u, q, lines, Table(es, x)) /\ Len(lines) <= FreeLines(u, q)
      BY <1>2, <2>6, <2>7, <3>1 DEF HasRoom, Ample
    <3>3. Len(es) > 0 /\ x = Len(es) /\ q = At(es, x) /\ f = Frag(es, x)
      BY <2>7
    <3>4. Building(ph, t, es, st, n) /\ Fewer(u, t, q, lines)
      BY <2>2, <2>6, <2>7, <3>2, <3>3, Wrote
    <3> QED
      BY <3>2, <3>4 DEF Fewer
  <2>9. FreeLines(t, q) >= (Threshold + 2) - Len(lines)
    <3>1. FreeLines(u, q) \in Int
      <4>1. u \in PoolType
        BY <2>6 DEF Building, Storage, Placed
      <4> QED
        BY <2>6, <4>1, PoolParts
    <3> QED
      BY <1>2, <2>6, <2>8, <3>1
  <2> QED
    BY <2>4, <2>5, <2>6, <2>8, <2>9 DEF Emits
<1>6. CASE ~d.ok
  <2>1. ~d.ok /\ d.page = p /\ d.pool = s
    BY <1>3, <1>6 DEF Ensures
  <2>2. e = d
    BY <1>1, <1>6
  <2>3. PICK es : es = PageSet(cs, x, p)
    OBVIOUS
  <2>4. es = cs
    <3>1. PageIsSet(cs, es, x, p)
      BY <1>4, <2>3, OnPage
    <3> QED
      BY <3>1 DEF PageIsSet
  <2>5. e.ok = FALSE
    BY <1>3, <1>6, <2>2 DEF Ensures
  <2> QED
    BY <1>4, <2>1, <2>2, <2>3, <2>4, <2>5 DEF Emits
<1> QED
  BY <1>5, <1>6
\* Compile_BranchTable: the lines up to the pointers, and a page with room for these.
LEMMA Tabled ==
  ASSUME NEW ph, NEW s, NEW cs \in Seq(ContextType), NEW st, NEW n,
         Building(ph, s, cs, st, n), Len(cs) > 0,
         NEW x, x = Len(cs), NEW p, p = At(cs, x), KindOf(cs, x) \in {"function", "else"},
         NEW k \in Tables, Ample(s, p, 2 + k),
         NEW es, es = TableSet(cs, x, k)
  PROVE  es \in Seq(ContextType) /\ Building(ph, s, es, st, n)
<1>1. x \in 1 .. Len(cs) /\ Len(cs) \in 1 .. Len(cs)
  BY ContextParts
<1>2. /\ es \in Seq(ContextType) /\ Len(es) = Len(cs) /\ SameBut(cs, es, {x})
      /\ Frag(es, x) = Frag(cs, x) /\ KindOf(es, x) = KindOf(cs, x) /\ At(es, x) = At(cs, x)
      /\ Table(es, x) = k
  <2>1. TableIsSet(cs, es, Len(cs), k)
    <3>1. es = TableSet(cs, Len(cs), k)
      OBVIOUS
    <3> QED
      BY ONLY <1>1, <3>1, TableSetParts, cs \in Seq(ContextType), k \in Tables
  <2> QED
    BY <2>1 DEF TableIsSet
<1>3. Shape(ph, es) /\ Held(es) = Held(cs) /\ \A g, r : On(cs, g, r) <=> On(es, g, r)
  <2>1. Shape(ph, cs)
    BY DEF Building
  <2> QED
    BY <2>1, TabledShape
<1>4. \A i \in 1 .. Len(cs) : Frag(es, i) = Frag(cs, i) /\ KindOf(es, i) = KindOf(cs, i)
  BY <1>2 DEF SameBut
<1>5. Sound(CodeOf(s), es, st, n)
  <2> DEFINE c == CodeOf(s)
  <2>1. Sound(c, cs, st, n)
    BY DEF Building
  <2> HIDE DEF c
  <2>2. \A r, m, g : GoesOn(c, cs, r, m, g) <=> GoesOn(c, es, r, m, g)
    BY <1>3 DEF GoesOn
  <2>3. Joined(c, es, st)
    BY <2>1, <2>2 DEF Sound, Joined, Reaches
  <2>4. Begun(c, es, st) /\ Numbered(c, es, n)
    BY <1>2, <1>4, <2>1 DEF Sound, Begun, Numbered
  <2> QED
    BY <2>1, <2>3, <2>4 DEF Sound, c
<1>6. Room(s, es)
  <2>1. ASSUME NEW i \in 1 .. Len(es)
        PROVE  Ample(s, At(es, i), 2 + Table(es, i))
    <3>1. CASE i = x
      BY <1>2, <3>1
    <3>2. CASE i # x
      <4>1. At(es, i) = At(cs, i) /\ Table(es, i) = Table(cs, i) /\ i \in 1 .. Len(cs)
        BY <1>2, <3>2 DEF SameBut
      <4> QED
        BY <4>1 DEF Building, Room
    <3> QED
      BY <3>1, <3>2
  <2> QED
    BY <2>1 DEF Room
<1>7. ph = "loading" => Known(es, st)
  BY <1>2, <1>4 DEF Building, Known
<1>8. es # <<>> /\ cs # <<>>
  BY <1>2, ContextParts
<1> QED
  BY <1>2, <1>3, <1>5, <1>6, <1>7, <1>8 DEF Building

LEMMA EmitTableCases ==
  ASSUME NEW s, NEW rt, NEW p, NEW f, NEW k, NEW e \in EmitTable(s, rt, p, f, k)
  PROVE  \E d \in EnsureLines(s, rt, p, f, TableLines(k)) :
           \/ d.ok /\ e \in EmitOp(d.pool, rt, d.page, f, Immediates(f, 3))
           \/ ~d.ok /\ e = d
<1>1. PICK d \in EnsureLines(s, rt, p, f, TableLines(k)) :
        e \in IF d.ok THEN EmitOp(d.pool, rt, d.page, f, Immediates(f, 3)) ELSE {d}
  BY Zenon DEF EmitTable
<1> QED
  BY <1>1

\* As Emits, with room for the pointers of k targets and the default.
EmitsTable(ph, s, cs, st, n, k, e) ==
  /\ e.ok \in BOOLEAN /\ e.page \in Page
  /\ Building(ph, e.pool, PageSet(cs, Len(cs), e.page), st, n)
  /\ e.ok => FreeLines(e.pool, e.page) >= 2 + (k + 1)

\* The innermost fragment goes on on another page twice.
LEMMA SetTwice ==
  ASSUME NEW cs \in Seq(ContextType), Len(cs) > 0, NEW q \in Page, NEW r \in Page,
         NEW es, es = PageSet(cs, Len(cs), q)
  PROVE  PageSet(es, Len(es), r) = PageSet(cs, Len(cs), r)
<1> DEFINE x == Len(cs)
           y == [cs[x] EXCEPT !.page = q]
<1>1. x \in 1 .. Len(cs)
  BY ContextParts
<1>2. es = [cs EXCEPT ![x] = y]
  BY Zenon DEF PageSet
<1>3. cs[x] \in ContextType
  BY <1>1
<1>4. [y EXCEPT !.page = r] = [cs[x] EXCEPT !.page = r]
  BY <1>3 DEF ContextType
<1>5. y \in ContextType
  BY <1>3 DEF ContextType
<1> HIDE DEF y
<1>6. es \in Seq(ContextType) /\ Len(es) = Len(cs) /\ es[x] = y /\ \A i \in 1 .. Len(cs) : i # x => es[i] = cs[i]
  BY <1>1, <1>2, <1>5, ExceptSeq
<1> DEFINE z == [cs[x] EXCEPT !.page = r]
<1>7. z \in ContextType
  BY <1>3 DEF ContextType
<1>8. PageSet(es, Len(es), r) = [es EXCEPT ![x] = z] /\ PageSet(cs, Len(cs), r) = [cs EXCEPT ![x] = z]
  <2>1. PageSet(es, Len(es), r) = [es EXCEPT ![x] = [es[x] EXCEPT !.page = r]]
    BY <1>6, Zenon DEF PageSet
  <2>2. PageSet(cs, Len(cs), r) = [cs EXCEPT ![x] = [cs[x] EXCEPT !.page = r]]
    BY Zenon DEF PageSet
  <2> QED
    BY <1>4, <1>6, <2>1, <2>2, Zenon
<1> HIDE DEF z, x
<1>9. PICK a, b : a = [es EXCEPT ![x] = z] /\ b = [cs EXCEPT ![x] = z]
  OBVIOUS
<1>10. /\ a \in Seq(ContextType) /\ Len(a) = Len(cs) /\ a[x] = z
       /\ \A i \in 1 .. Len(cs) : i # x => a[i] = es[i]
  BY <1>1, <1>6, <1>7, <1>9, ExceptSeq
<1>11. /\ b \in Seq(ContextType) /\ Len(b) = Len(cs) /\ b[x] = z
       /\ \A i \in 1 .. Len(cs) : i # x => b[i] = cs[i]
  BY <1>1, <1>7, <1>9, ExceptSeq
<1>12. a = b
  BY <1>6, <1>10, <1>11, SeqEqual
<1> QED
  BY <1>8, <1>9, <1>12

LEMMA TableWritten ==
  ASSUME NEW ph, NEW s, NEW cs \in Seq(ContextType), NEW st \in [Fragment -> Destination], NEW n \in Nat,
         Building(ph, s, cs, st, n), Len(cs) > 0,
         NEW x, x = Len(cs), NEW p, p = At(cs, x), NEW f, f = Frag(cs, x), Table(cs, x) = 0,
         NEW rt, rt = RtOf(ph), NEW k \in Nat,
         NEW e \in EmitTable(s, rt, p, f, k)
  PROVE  EmitsTable(ph, s, cs, st, n, k, e)
<1>1. PICK d \in EnsureLines(s, rt, p, f, TableLines(k)) :
        \/ d.ok /\ e \in EmitOp(d.pool, rt, d.page, f, Immediates(f, 3))
        \/ ~d.ok /\ e = d
  BY ONLY EmitTableCases, e \in EmitTable(s, rt, p, f, k)
<1>2. PICK m : m = TableLines(k)
  OBVIOUS
<1>3. m \in Nat /\ m = k + 4
  BY <1>2 DEF TableLines
<1>4. Ensures(ph, s, cs, st, n, m, d)
  <2>1. d \in EnsureLines(s, rt, p, f, m)
    BY <1>2
  <2> QED
    BY <1>3, <2>1, Ensured
<1>5. p \in Page /\ f \in Fragment
  BY Innermost
<1>6. Threshold \in Nat /\ Threshold >= 4
  BY LineAssumption
<1>7. CASE d.ok
  <2>1. PICK q, u : q = d.page /\ u = d.pool
    OBVIOUS
  <2>2. PICK es : es = PageSet(cs, x, q)
    OBVIOUS
  <2>3. q \in Page /\ FreeLines(u, q) >= m + 2 /\ Building(ph, u, es, st, n)
    BY <1>4, <1>7, <2>1, <2>2 DEF Ensures
  <2>4. /\ es \in Seq(ContextType) /\ Len(es) = Len(cs) /\ Frag(es, x) = f /\ At(es, x) = q
        /\ Table(es, x) = 0
    <3>1. PageIsSet(cs, es, x, q)
      BY <2>2, <2>3, OnPage
    <3> QED
      BY <3>1 DEF PageIsSet
  <2>5. PICK b : b = Immediates(f, 3)
    OBVIOUS
  <2>6. /\ b \in Seq(Line) /\ Len(b) = 3 /\ LinesOf(f, b)
        /\ \A i \in 1 .. Len(b) : b[i].to = Nowhere
    <3>1. PICK three : three = 3
      OBVIOUS
    <3>2. three \in Nat /\ three > 0 /\ b = Immediates(f, three)
      BY <2>5, <3>1
    <3>3. Plain(f, three, b)
      BY <1>5, <3>2, PlainLines
    <3> QED
      BY <3>1, <3>3 DEF Plain
  <2>7. Emits(ph, u, es, st, n, b, e)
    <3>1. e \in EmitOp(u, rt, q, f, b)
      BY <1>1, <1>7, <2>1, <2>5
    <3>2. Len(es) > 0 /\ x = Len(es) /\ q = At(es, x) /\ f = Frag(es, x) /\ Len(b) <= Threshold
      BY <1>6, <2>4, <2>6
    <3> QED
      BY ONLY <2>3, <2>4, <2>6, <3>1, <3>2, OpWritten, st \in [Fragment -> Destination], n \in Nat,
              rt = RtOf(ph)
  <2>8. e.ok \in BOOLEAN /\ e.page \in Page /\ Building(ph, e.pool, PageSet(cs, Len(cs), e.page), st, n)
    <3>1. e.ok \in BOOLEAN /\ e.page \in Page /\ Building(ph, e.pool, PageSet(es, Len(es), e.page), st, n)
      BY <2>7 DEF Emits
    <3>2. PICK r : r = e.page
      OBVIOUS
    <3>3. PageSet(es, Len(es), r) = PageSet(cs, Len(cs), r)
      <4>1. r \in Page /\ es = PageSet(cs, Len(cs), q)
        BY <2>2, <3>1, <3>2
      <4> QED
        BY ONLY <2>3, <4>1, SetTwice, cs \in Seq(ContextType), Len(cs) > 0
    <3> QED
      BY <3>1, <3>2, <3>3
  <2>9. ASSUME e.ok
        PROVE  FreeLines(e.pool, e.page) >= 2 + (k + 1)
    <3>1. /\ FreeLines(e.pool, e.page) >= (Threshold + 2) - 3
          /\ FreeLines(u, q) >= Threshold + 2 => FreeLines(e.pool, e.page) = FreeLines(u, q) - 3
      BY <2>4, <2>6, <2>7, <2>9 DEF Emits
    <3>2. FreeLines(u, q) \in Int /\ FreeLines(e.pool, e.page) \in Int
      <4>1. u \in PoolType /\ e.pool \in PoolType
        BY <2>3, <2>8 DEF Building, Storage, Placed
      <4> QED
        BY <2>3, <2>8, <4>1, PoolParts
    <3>3. PICK a, b2 : a = FreeLines(u, q) /\ b2 = FreeLines(e.pool, e.page)
      OBVIOUS
    <3>4. /\ a \in Int /\ b2 \in Int /\ a >= k + 6 /\ b2 >= (Threshold + 2) - 3
          /\ a >= Threshold + 2 => b2 = a - 3
      BY <1>3, <2>3, <3>1, <3>2, <3>3
    <3>5. b2 >= 2 + (k + 1)
      BY ONLY <1>6, <3>4, k \in Nat
    <3> QED
      BY <3>3, <3>5
  <2> QED
    BY <2>8, <2>9 DEF EmitsTable
<1>8. CASE ~d.ok
  <2>1. d.ok = FALSE /\ d.page = p /\ d.pool = s
    BY <1>4, <1>8 DEF Ensures
  <2>2. e = d
    BY <1>1, <1>8
  <2>3. PICK es : es = PageSet(cs, x, p)
    OBVIOUS
  <2>4. es = cs
    <3>1. PageIsSet(cs, es, x, p)
      BY <1>5, <2>3, OnPage
    <3> QED
      BY <3>1 DEF PageIsSet
  <2> QED
    BY <1>5, <2>1, <2>2, <2>3, <2>4 DEF EmitsTable
<1> QED
  BY <1>7, <1>8
-----------------------------------------------------------------------------
(* The compilation fails.                                                  *)

\* The pages that are given back: all but the one Compile_BranchTable saved.
KeptOf(cs) == IF KindOf(cs, Len(cs)) = "target" THEN RemoveAt(cs, Len(cs) - 1) ELSE cs

\* The n contexts are on pages of held, each on its own.
OnOwnPages(cs, n, held) ==
  /\ Len(cs) = n
  /\ \A i \in 1 .. n : At(cs, i) \in held
  /\ \A i, j \in 1 .. n : At(cs, i) = At(cs, j) => i = j

LEMMA KeptParts ==
  ASSUME NEW ph, NEW cs \in Seq(ContextType), Shape(ph, cs), Len(cs) > 0,
         NEW es, es = KeptOf(cs)
  PROVE  \E n \in {Len(cs), Len(cs) - 1} : n \in Nat /\ OnOwnPages(es, n, Held(cs))
<1> DEFINE x == Len(cs)
<1>1. x \in Nat /\ x > 0 /\ \A i \in 1 .. x : At(cs, i) \in Held(cs)
  BY ContextParts DEF Held
<1>2. \A i, j \in 1 .. x : At(cs, i) = At(cs, j) => i = j
  BY DEF Shape, Separate
<1>3. CASE KindOf(cs, x) # "target"
  BY <1>1, <1>2, <1>3 DEF KeptOf, OnOwnPages
<1>4. CASE KindOf(cs, x) = "target"
  <2>1. x # 1
    <3>1. 1 \in 1 .. x
      BY <1>1
    <3>2. KindOf(cs, 1) \in {"function", "expression"}
      BY <3>1 DEF Shape, Nesting
    <3> QED
      BY <1>4, <3>2
  <2> DEFINE m == x - 1
  <2>2. m \in 1 .. Len(cs) /\ es = RemoveAt(cs, m)
    <3>1. m \in 1 .. Len(cs)
      <4>1. x \in Nat /\ x > 0
        BY <1>1
      <4> HIDE DEF x
      <4>2. m \in 1 .. x
        BY ONLY <2>1, <4>1 DEF m
      <4> QED
        BY <4>2 DEF x
    <3>2. es = RemoveAt(cs, Len(cs) - 1)
      BY <1>4, Zenon DEF KeptOf
    <3> QED
      BY <3>1, <3>2
  <2>3. /\ es \in Seq(ContextType) /\ Len(es) = m
        /\ \A i \in 1 .. m : es[i] = IF i < m THEN cs[i] ELSE cs[i + 1]
    <3> HIDE DEF m
    <3>1. LET r == RemoveAt(cs, m) IN
          /\ r \in Seq(ContextType) /\ Len(r) = Len(cs) - 1
          /\ \A i \in 1 .. Len(cs) - 1 : r[i] = IF i < m THEN cs[i] ELSE cs[i + 1]
      BY ONLY <2>2, Removed, cs \in Seq(ContextType)
    <3> QED
      BY <2>2, <3>1 DEF m
  <2>4. ASSUME NEW i \in 1 .. m
        PROVE  \E j \in 1 .. x : /\ j = IF i < m THEN i ELSE i + 1
                                 /\ At(es, i) = At(cs, j)
    <3>1. CASE i < m
      <4>1. i \in 1 .. x /\ es[i] = cs[i]
        BY <1>1, <2>3, <3>1
      <4> QED
        BY <3>1, <4>1 DEF At
    <3>2. CASE ~(i < m)
      <4>1. i + 1 \in 1 .. x /\ es[i] = cs[i + 1]
        BY <1>1, <2>3, <3>2
      <4> QED
        BY <3>2, <4>1 DEF At
    <3> QED
      BY <3>1, <3>2
  <2>5. \A i \in 1 .. m : At(es, i) \in Held(cs)
    BY <1>1, <2>4
  <2>6. ASSUME NEW i \in 1 .. m, NEW j \in 1 .. m, At(es, i) = At(es, j)
        PROVE  i = j
    <3>1. PICK k \in 1 .. x : k = (IF i < m THEN i ELSE i + 1) /\ At(es, i) = At(cs, k)
      BY <2>4
    <3>2. PICK l \in 1 .. x : l = (IF j < m THEN j ELSE j + 1) /\ At(es, j) = At(cs, l)
      BY <2>4
    <3>3. k = l
      BY <1>2, <2>6, <3>1, <3>2
    <3> QED
      BY <1>1, <3>1, <3>2, <3>3
  <2> QED
    BY <1>1, <2>1, <2>3, <2>5, <2>6 DEF OnOwnPages
<1> QED
  BY <1>3, <1>4

LEMMA Threw ==
  ASSUME NEW ph, NEW s, NEW cs \in Seq(ContextType), NEW st, NEW n,
         Building(ph, s, cs, st, n), Len(cs) > 0, NEW es, es = KeptOf(cs),
         NEW rt, rt = RtOf(ph), NEW t, t = ReleaseAll(s, rt, es),
         NEW u, u = (IF rt = "temp" THEN DiscardTemp(t) ELSE t)
  PROVE  Failed(u)
<1>1. /\ rt \in Runtime /\ OtherRt(ph) \in Runtime /\ rt # OtherRt(ph)
      /\ ph = "loading" => rt = "temp" /\ OtherRt(ph) = "main"
      /\ ph # "loading" => rt = "main" /\ OtherRt(ph) = "temp"
  BY Runtimes
<1>2. Placed(s, Held(cs)) /\ Count(s, OtherRt(ph)) = 0 /\ Count(s, rt) = Len(cs) /\ Len(cs) \in Nat
  BY DEF Building, Storage
<1>3. PICK m \in {Len(cs), Len(cs) - 1} : m \in Nat /\ OnOwnPages(es, m, Held(cs))
  <2>1. Shape(ph, cs)
    BY DEF Building
  <2> QED
    BY <2>1, KeptParts
<1>4. /\ Placed(t, {})
      /\ Count(t, rt) = Count(s, rt) - m
      /\ \A r \in Runtime : r # rt => /\ Count(t, r) = Count(s, r)
                                      /\ Open(t, r) = Open(s, r) /\ Full(t, r) = Full(s, r)
  <2>1. /\ Placed(t, {}) /\ CodeOf(t) = CodeOf(s)
        /\ \A r \in Runtime : /\ Count(t, r) = (IF r = rt THEN Count(s, r) - m ELSE Count(s, r))
                              /\ r # rt => Open(t, r) = Open(s, r) /\ Full(t, r) = Full(s, r)
    BY <1>1, <1>2, <1>3, AllReleased DEF OnOwnPages
  <2> QED
    BY <1>1, <2>1
<1>5. Count(t, rt) \in {0, 1} /\ Count(t, OtherRt(ph)) = 0
  BY <1>1, <1>2, <1>3, <1>4
<1>6. CASE ph = "loading"
  <2>1. u = DiscardTemp(t)
    BY <1>1, <1>6
  <2>2. Placed(u, {}) /\ NoTemp(u) /\ Count(u, "temp") = 0 /\ Count(u, "main") = Count(t, "main")
    BY <1>4, <2>1, TempDiscarded
  <2> QED
    BY <1>1, <1>5, <1>6, <2>2 DEF Failed
<1>7. CASE ph # "loading"
  <2>1. u = t
    BY <1>1, <1>7
  <2>2. NoTemp(s)
    BY <1>7 DEF Building, Storage
  <2>3. NoTemp(t)
    BY <1>1, <1>4, <1>7, <2>2 DEF NoTemp
  <2> QED
    BY <1>1, <1>4, <1>5, <1>7, <2>1, <2>3 DEF Failed
<1> QED
  BY <1>6, <1>7
-----------------------------------------------------------------------------
(* A fragment ends.                                                        *)

\* What is outside the innermost does not depend on the page this is on.
LEMMA SetPopped ==
  ASSUME NEW cs \in Seq(ContextType), Len(cs) > 0, NEW q \in Page,
         NEW es, es = PageSet(cs, Len(cs), q)
  PROVE  Popped(es) = Popped(cs)
<1> DEFINE x == Len(cs)
           m == x - 1
           y == [cs[x] EXCEPT !.page = q]
<1>1. x \in 1 .. x /\ x \in Nat /\ m \in Nat
  BY ContextParts
<1>2. es = [cs EXCEPT ![x] = y]
  BY Zenon DEF PageSet
<1>3. cs[x] \in ContextType
  BY <1>1
<1>4. y \in ContextType
  BY <1>3 DEF ContextType
<1> HIDE DEF y
<1>5. es \in Seq(ContextType) /\ Len(es) = x /\ \A i \in 1 .. x : i # x => es[i] = cs[i]
  BY <1>1, <1>2, <1>4, ExceptSeq
<1>6. PICK a, b : a = SubSeq(es, 1, m) /\ b = SubSeq(cs, 1, m)
  OBVIOUS
<1>7. m <= Len(es) /\ m <= Len(cs)
  BY <1>1, <1>5
<1>8. \A i \in 1 .. m : i \in 1 .. x /\ i # x
  BY <1>1
<1>9. Popped(es) = a /\ Popped(cs) = b
  BY <1>5, <1>6 DEF Popped
<1> HIDE DEF m, x
<1>10. a \in Seq(ContextType) /\ Len(a) = m /\ \A i \in 1 .. m : a[i] = es[i]
  BY <1>1, <1>5, <1>6, <1>7
<1>11. b \in Seq(ContextType) /\ Len(b) = m /\ \A i \in 1 .. m : b[i] = cs[i]
  BY <1>1, <1>6, <1>7
<1>12. a = b
  BY <1>5, <1>8, <1>10, <1>11, SeqEqual
<1> QED
  BY <1>9, <1>12

\* It ends with an operation: what is around it goes on, or it fails.
Finishes(ph, s, cs, st, n, e) ==
  /\ e.ok \in BOOLEAN /\ e.page \in Page
  /\ ~e.ok => Building(ph, e.pool, PageSet(cs, Len(cs), e.page), st, n)
  /\ e.ok => Between(ph, ReleasePage(e.pool, RtOf(ph), e.page), Popped(cs), st, n)

LEMMA Finished ==
  ASSUME NEW ph, NEW s, NEW cs \in Seq(ContextType), NEW st \in [Fragment -> Destination], NEW n \in Nat,
         Building(ph, s, cs, st, n), Len(cs) > 0,
         NEW x, x = Len(cs), NEW p, p = At(cs, x), NEW f, f = Frag(cs, x), Table(cs, x) = 0,
         NEW rt, rt = RtOf(ph), NEW b, b = <<Final(Operation(f))>>,
         NEW e \in EmitOp(s, rt, p, f, b)
  PROVE  Finishes(ph, s, cs, st, n, e)
<1>1. PICK d \in EnsureLines(s, rt, p, f, Threshold) :
        \/ d.ok /\ e = Emitted(Emit(d.pool, d.page, b), d.page)
        \/ ~d.ok /\ e = d
  BY ONLY EmitOpCases, e \in EmitOp(s, rt, p, f, b)
<1>2. Threshold \in Nat
  BY LineAssumption
<1>3. Ensures(ph, s, cs, st, n, Threshold, d)
  BY <1>2, Ensured
<1>4. p \in Page /\ f \in Fragment
  BY Innermost
<1>5. CASE d.ok
  <2>1. PICK q, u : q = d.page /\ u = d.pool
    OBVIOUS
  <2>2. PICK v : v = Emit(u, q, b)
    OBVIOUS
  <2>3. e = Emitted(v, q)
    BY <1>1, <1>5, <2>1, <2>2
  <2>4. e.ok = TRUE /\ e.page = q /\ e.pool = v
    BY <2>3 DEF Emitted
  <2>5. PICK es : es = PageSet(cs, x, q)
    OBVIOUS
  <2>6. q \in Page /\ FreeLines(u, q) >= Threshold + 2 /\ Building(ph, u, es, st, n)
    BY <1>3, <1>5, <2>1, <2>5 DEF Ensures
  <2>7. /\ es \in Seq(ContextType) /\ Len(es) = Len(cs) /\ Frag(es, x) = f /\ At(es, x) = q
    <3>1. PageIsSet(cs, es, x, q)
      BY <2>5, <2>6, OnPage
    <3> QED
      BY <3>1 DEF PageIsSet
  <2>8. b \in Seq(Line) /\ Len(b) = 1 /\ LinesOf(f, b) /\ b[1].to = Nowhere /\ b[1].ends
    <3>1. PICK y : y = Final(Operation(f))
      OBVIOUS
    <3>2. y \in Line /\ y.of = f /\ y.to = Nowhere /\ y.ends /\ Nowhere \in Destination
      BY <1>4, <3>1, LineKinds DEF Destination
    <3>3. b = <<y>>
      BY <3>1
    <3>4. b \in Seq(Line) /\ Len(b) = 1 /\ LinesOf(f, b) /\ b[1] = y
      BY ONLY <1>4, <3>2, <3>3, OneLine
    <3> QED
      BY <3>2, <3>4
  <2>9. Ample(u, q, Len(b))
    <3>1. FreeLines(u, q) \in Int
      <4>1. u \in PoolType
        BY <2>6 DEF Building, Storage, Placed
      <4> QED
        BY <2>6, <4>1, PoolParts
    <3>2. FreeLines(u, q) >= 1
      BY ONLY <1>2, <2>6, <3>1
    <3> QED
      BY ONLY <2>8, <3>1, <3>2 DEF Ample
  <2>10. PICK c : c = CodeOf(u)
    OBVIOUS
  <2>11. Lead(c, es, n, f, b) /\ b[Len(b)].ends
    BY <2>8 DEF Lead
  <2>12. PICK t, ps : t = ReleasePage(v, rt, q) /\ ps = Popped(es)
    OBVIOUS
  <2>13. Between(ph, t, ps, st, n)
    <3>1. t = ReleasePage(Emit(u, q, b), RtOf(ph), q) /\ ps = Popped(es)
      BY <2>2, <2>12
    <3>2. Len(es) > 0 /\ x = Len(es) /\ q = At(es, x) /\ f = Frag(es, x)
      BY <2>7
    <3>3. Lead(CodeOf(u), es, n, f, b)
      BY <2>10, <2>11
    <3>4. b \in Seq(Line) /\ LinesOf(f, b) /\ b[Len(b)].ends /\ es \in Seq(ContextType) /\ Building(ph, u, es, st, n)
      BY <2>6, <2>7, <2>8
    <3> QED
      BY ONLY <2>9, <3>1, <3>2, <3>3, <3>4, WroteLast, st \in [Fragment -> Destination], n \in Nat
  <2>14. ps = Popped(cs)
    BY <2>5, <2>6, <2>12, SetPopped
  <2> QED
    BY <2>4, <2>6, <2>12, <2>13, <2>14 DEF Finishes
<1>6. CASE ~d.ok
  <2>1. d.ok = FALSE /\ d.page = p /\ d.pool = s
    BY <1>3, <1>6 DEF Ensures
  <2>2. e = d
    BY <1>1, <1>6
  <2>3. PICK es : es = PageSet(cs, x, p)
    OBVIOUS
  <2>4. es = cs
    <3>1. PageIsSet(cs, es, x, p)
      BY <1>4, <2>3, OnPage
    <3> QED
      BY <3>1 DEF PageIsSet
  <2> QED
    BY <1>4, <2>1, <2>2, <2>3, <2>4 DEF Finishes
<1> QED
  BY <1>5, <1>6
-----------------------------------------------------------------------------
(* A fragment in another ends.                                             *)

\* No else block and no target while the module is being loaded.
LEMMA NotLoading ==
  ASSUME NEW ph, NEW cs \in Seq(ContextType), Shape(ph, cs), Len(cs) > 0,
         KindOf(cs, Len(cs)) # "expression"
  PROVE  ph # "loading"
<1> SUFFICES ASSUME ph = "loading"
             PROVE  FALSE
  OBVIOUS
<1>1. Len(cs) \in Nat /\ cs # <<>>
  BY ContextParts
<1>2. KindOf(cs, 1) = "expression"
  BY <1>1 DEF Shape
<1>3. CASE Len(cs) = 1
  BY <1>2, <1>3
<1>4. CASE Len(cs) # 1
  <2>1. 1 \in 1 .. Len(cs) - 1
    <3>1. PICK m : m = Len(cs)
      OBVIOUS
    <3>2. m \in Nat /\ m > 0 /\ m # 1
      BY <1>1, <1>4, <3>1
    <3>3. 1 \in 1 .. m - 1
      BY ONLY <3>2
    <3> QED
      BY <3>1, <3>3
  <2>2. KindOf(cs, 1) \in {"function", "else"}
    BY <2>1 DEF Shape, Nesting
  <2> QED
    BY <1>2, <2>2
<1> QED
  BY <1>3, <1>4

\* What is around the innermost.
Around(cs, y, ps) ==
  /\ y \in 1 .. Len(cs) /\ y # Len(cs) /\ Len(ps) = y /\ ps \in Seq(ContextType)
  /\ KindOf(cs, y) \in {"function", "else"}
  /\ Table(cs, y) > 0 <=> KindOf(cs, Len(cs)) = "target"
  /\ Frag(ps, y) = Frag(cs, y) /\ At(ps, y) = At(cs, y) /\ KindOf(ps, y) = KindOf(cs, y)
  /\ Table(ps, y) = Table(cs, y)

LEMMA ParentParts ==
  ASSUME NEW ph, NEW cs \in Seq(ContextType), Shape(ph, cs), Len(cs) > 0,
         KindOf(cs, Len(cs)) \in {"else", "target"},
         NEW y, y = Len(cs) - 1, NEW ps, ps = Popped(cs)
  PROVE  Around(cs, y, ps)
<1>1. Len(cs) \in Nat /\ Len(cs) > 0
  BY ContextParts
<1>2. Len(cs) # 1
  <2>1. 1 \in 1 .. Len(cs)
    BY <1>1
  <2>2. KindOf(cs, 1) \in {"function", "expression"}
    BY <2>1 DEF Shape, Nesting
  <2> QED
    BY <2>2
<1>3. y \in 1 .. Len(cs) /\ y # Len(cs) /\ y \in 1 .. Len(cs) - 1 /\ y \in 1 .. y /\ y + 1 = Len(cs)
  BY ONLY <1>1, <1>2, y = Len(cs) - 1
<1>4. ps \in Seq(ContextType) /\ Len(ps) = y /\ SameBut(cs, ps, {})
  <2>1. ps \in Seq(ContextType) /\ Len(ps) = Len(cs) - 1 /\ SameBut(cs, ps, {})
    BY PoppedParts
  <2> QED
    BY <2>1
<1>5. /\ Frag(ps, y) = Frag(cs, y) /\ At(ps, y) = At(cs, y) /\ KindOf(ps, y) = KindOf(cs, y)
      /\ Table(ps, y) = Table(cs, y)
  BY <1>3, <1>4 DEF SameBut
<1>6. /\ KindOf(cs, y) \in {"function", "else"}
      /\ Table(cs, y) > 0 <=> KindOf(cs, y + 1) = "target"
  BY <1>3 DEF Shape, Nesting
<1> QED
  BY <1>3, <1>4, <1>5, <1>6 DEF Around

\* The branch back out of an else block leads to where the code around it goes on.
LEMMA BackLeads ==
  ASSUME NEW ph, NEW s, NEW cs \in Seq(ContextType), NEW st, NEW n,
         Building(ph, s, cs, st, n), Len(cs) > 0, NEW y, NEW ps, Around(cs, y, ps),
         NEW f, f = Frag(cs, Len(cs)),
         NEW l, l = Location(s, At(cs, y), Frag(cs, y)), NEW b, Len(b) = 1, b[1].to = l
  PROVE  l \in Destination /\ Lead(CodeOf(s), cs, n, f, b)
<1>1. /\ y \in 1 .. Len(cs) /\ KindOf(cs, y) \in {"function", "else"}
  BY DEF Around
<1>2. PICK g, p : g = Frag(cs, y) /\ p = At(cs, y)
  OBVIOUS
<1>3. g \in Fragment /\ p \in Page /\ s \in PoolType
  BY <1>1, <1>2, ContextParts DEF Building, Storage, Placed
<1>4. l \in Destination /\ l # Nowhere /\ PageOf(l) = p /\ LineOf(l) = Size(CodeOf(s), p) /\ FragOf(l) = g
  <2>1. l = Location(s, p, g)
    BY <1>2
  <2> QED
    BY <1>3, <2>1, LocationParts
<1>5. Size(CodeOf(s), p) \in Nat
  BY <1>3, PoolParts
<1>6. Reaches(CodeOf(s), cs, l)
  <2>1. On(cs, g, p)
    BY <1>1, <1>2 DEF On
  <2> QED
    BY <1>4, <1>5, <2>1 DEF Reaches, GoesOn
<1>7. g <= n
  BY <1>1, <1>2 DEF Building, Sound, Numbered
<1>8. \A j \in 1 .. Len(cs) : KindOf(cs, j) = "target" => g # Frag(cs, j)
  BY <1>1, <1>2 DEF Building, Shape, Separate
<1>9. \A i \in 1 .. Len(b) : i = 1
  OBVIOUS
<1> QED
  BY <1>4, <1>6, <1>7, <1>8, <1>9 DEF Lead

\* The pointer of a table leads to the landing code.
LEMMA EntryLeads ==
  ASSUME NEW ph, NEW t, NEW cs \in Seq(ContextType), NEW ps \in Seq(ContextType), NEW st, NEW n,
         Between(ph, t, ps, st, n), NEW f \in Fragment, f <= n,
         \A j \in 1 .. Len(ps) : Frag(ps, j) # f,
         NEW g, NEW l, l = Entry(st, f) \/ l = Nowhere, NEW b, Len(b) = 1, b[1].to = l
  PROVE  Lead(CodeOf(t), ps, n, g, b)
<1>1. \A i \in 1 .. Len(b) : i = 1
  OBVIOUS
<1>2. CASE l = Nowhere
  BY <1>1, <1>2 DEF Lead
<1>3. CASE l # Nowhere
  <2>1. l = Entry(st, f) /\ FragOf(l) = f /\ Reaches(CodeOf(t), ps, l)
    BY <1>3 DEF Between, Sound, Joined
  <2> QED
    BY <1>1, <2>1 DEF Lead
<1> QED
  BY <1>2, <1>3

\* The table gets the pointer.
LEMMA PointerWritten ==
  ASSUME NEW ph, NEW t, NEW ps \in Seq(ContextType), NEW st \in [Fragment -> Destination], NEW n \in Nat,
         Building(ph, t, ps, st, n), Len(ps) > 0,
         NEW y, y = Len(ps), NEW p, p = At(ps, y), NEW g, g = Frag(ps, y),
         KindOf(ps, y) \in {"function", "else"}, Table(ps, y) > 0,
         NEW l \in Destination, NEW b, b = <<IF Table(ps, y) = 1 THEN Final(Pointer(g, l)) ELSE Pointer(g, l)>>,
         Lead(CodeOf(t), ps, n, g, b),
         NEW k, k = Table(ps, y) - 1, NEW es, es = TableSet(ps, y, k), NEW u, u = Emit(t, p, b)
  PROVE  es \in Seq(ContextType) /\ Building(ph, u, es, st, n)
<1>1. /\ y \in 1 .. Len(ps) /\ p \in Page /\ g \in Fragment
      /\ Ample(t, p, 2 + Table(ps, y)) /\ Table(ps, y) \in Nat /\ t \in PoolType
  BY Innermost
<1>2. k \in Tables /\ k \in Nat
  <2>1. Table(ps, y) \in Tables
    BY <1>1, ContextParts
  <2>2. MaxTargets \in Nat
    BY LineAssumption
  <2>3. PICK a : a = Table(ps, y)
    OBVIOUS
  <2>4. a \in Tables /\ a \in Nat /\ a > 0 /\ k = a - 1
    BY <1>1, <2>1, <2>3
  <2> QED
    BY ONLY <2>2, <2>4 DEF Tables
<1>3. /\ es \in Seq(ContextType) /\ Len(es) = Len(ps) /\ SameBut(ps, es, {y})
      /\ Frag(es, y) = Frag(ps, y) /\ KindOf(es, y) = KindOf(ps, y) /\ At(es, y) = At(ps, y)
      /\ Table(es, y) = k
  <2>1. TableIsSet(ps, es, Len(ps), k)
    <3>1. es = TableSet(ps, Len(ps), k) /\ Len(ps) \in 1 .. Len(ps)
      BY <1>1
    <3> QED
      BY ONLY <1>2, <3>1, TableSetParts, ps \in Seq(ContextType)
  <2> QED
    BY <2>1 DEF TableIsSet
<1>4. /\ Shape(ph, es) /\ Held(es) = Held(ps) /\ Remain(ps, es, p)
      /\ \A h, r : On(ps, h, r) <=> On(es, h, r)
  <2>1. Shape(ph, ps) /\ es = TableSet(ps, Len(ps), k) /\ KindOf(ps, Len(ps)) \in {"function", "else"}
    BY DEF Building
  <2>2. /\ Shape(ph, es) /\ Held(es) = Held(ps)
        /\ Remain(ps, es, At(ps, Len(ps))) /\ \A h, r : On(ps, h, r) <=> On(es, h, r)
    BY ONLY <1>2, <2>1, TabledShape, ps \in Seq(ContextType), Len(ps) > 0
  <2> QED
    BY <2>2
<1>5. b \in Seq(Line) /\ Len(b) = 1 /\ LinesOf(g, b)
  <2>1. PICK z : z = IF Table(ps, y) = 1 THEN Final(Pointer(g, l)) ELSE Pointer(g, l)
    OBVIOUS
  <2>2. z \in Line /\ z.of = g /\ z.to = l
    BY <1>1, <2>1, LineKinds
  <2>3. b = <<z>>
    BY <2>1
  <2> QED
    BY <1>1, <2>2, <2>3, OneLine
<1>6. HasRoom(t, p, b, Table(es, y))
  <2>1. FreeLines(t, p) \in Int
    BY <1>1, PoolParts
  <2>2. PICK a, c : a = Table(ps, y) /\ c = FreeLines(t, p)
    OBVIOUS
  <2>3. a \in Nat /\ c \in Int /\ k = a - 1 /\ (~Torn(t) => c >= 2 + a)
    BY <1>1, <2>1, <2>2 DEF Ample
  <2>4. ~Torn(t) => 1 + 2 + k <= c
    BY ONLY <2>3
  <2>5. ~Torn(t) => c >= Len(b) + 2 + Table(es, y)
    BY <1>3, <1>5, <2>3, <2>4
  <2> QED
    BY <2>2, <2>5 DEF HasRoom, Ample
<1>7. Table(es, y) \in Nat /\ At(es, y) = p
  BY <1>2, <1>3
<1> QED
  BY ONLY <1>3, <1>4, <1>5, <1>6, <1>7, WroteOn, ps \in Seq(ContextType), st \in [Fragment -> Destination],
          n \in Nat, Building(ph, t, ps, st, n), Len(ps) > 0, y = Len(ps), p = At(ps, y), g = Frag(ps, y),
          Lead(CodeOf(t), ps, n, g, b), u = Emit(t, p, b)

\* A target nothing was written for is forgotten, and its page given back.
LEMMA Withdrawn ==
  ASSUME NEW ph, NEW s, NEW cs \in Seq(ContextType), NEW st \in [Fragment -> Destination], NEW n \in Nat,
         Building(ph, s, cs, st, n), Len(cs) > 0,
         NEW x, x = Len(cs), NEW p, p = At(cs, x), NEW f, f = Frag(cs, x),
         KindOf(cs, x) = "target", Entry(st, f) = Location(s, p, f),
         NEW t, t = ReleasePage(s, RtOf(ph), p), NEW es, es = Popped(cs),
         NEW su, su = [st EXCEPT ![f] = Nowhere]
  PROVE  su \in [Fragment -> Destination] /\ Between(ph, t, es, su, n)
<1>1. /\ x \in 1 .. Len(cs) /\ p \in Held(cs) /\ p \in Page /\ f \in Fragment /\ f <= n
      /\ Alone(cs, f, p) /\ s \in PoolType
      /\ \A i \in 1 .. Len(cs) : Frag(cs, i) \in Fragment
  BY Innermost
<1>2. /\ Storage(ph, t, Held(cs) \ {p}) /\ CodeOf(t) = CodeOf(s) /\ Torn(t) = Torn(s)
      /\ \A q \in Page : FreeLines(t, q) = FreeLines(s, q)
      /\ Count(t, RtOf(ph)) = Count(s, RtOf(ph)) - 1
  <2>1. Storage(ph, s, Held(cs)) /\ p \in Held(cs)
    BY <1>1 DEF Building
  <2> QED
    BY ONLY <2>1, StorageReleased, t = ReleasePage(s, RtOf(ph), p)
<1>3. /\ Shape(ph, es) /\ Held(es) = Held(cs) \ {p} /\ Remain(cs, es, p)
      /\ es \in Seq(ContextType) /\ Len(es) = Len(cs) - 1 /\ SameBut(cs, es, {})
      /\ \A j \in 1 .. Len(es) : Frag(es, j) # f
  BY PoppedShape, PoppedParts DEF Building
<1>4. su \in [Fragment -> Destination]
  BY DEF Destination
<1>5. Entry(su, f) = Nowhere /\ \A g \in Fragment : g # f => Entry(su, g) = Entry(st, g)
  BY <1>1 DEF Entry
<1>6. \A i \in 1 .. Len(es) : /\ i \in 1 .. Len(cs) /\ i # x
                              /\ Frag(es, i) = Frag(cs, i) /\ KindOf(es, i) = KindOf(cs, i)
                              /\ At(es, i) = At(cs, i) /\ Table(es, i) = Table(cs, i)
  BY <1>3, ContextParts DEF SameBut
<1>7. Sound(CodeOf(t), es, su, n)
  <2> DEFINE c == CodeOf(s)
  <2>1. Sound(c, cs, st, n) /\ CodeOf(t) = c /\ c \in [Page -> Seq(Line)]
    BY <1>1, <1>2, PoolParts DEF Building
  <2>2. LET l == Entry(st, f) IN l # Nowhere /\ PageOf(l) = p /\ LineOf(l) = Size(c, p) /\ FragOf(l) = f
    BY <1>1, LocationParts
  <2> HIDE DEF c
  <2>3. Unwritten(c, f)
    <3>1. BegunBy(c, st, f, "target")
      BY <1>1, <2>1 DEF Sound, Begun
    <3> QED
      BY <2>2, <3>1 DEF BegunBy
  <2>4. ASSUME NEW r, NEW m, NEW g, g # f, GoesOn(c, cs, r, m, g)
        PROVE  GoesOn(c, es, r, m, g)
    <3>1. ASSUME On(cs, g, r)
          PROVE  On(es, g, r)
      <4>1. r # p
        BY <1>1, <2>4, <3>1 DEF Alone
      <4> QED
        BY <1>3, <3>1, <4>1 DEF Remain
    <3> QED
      BY <2>4, <3>1 DEF GoesOn
  <2>5. ASSUME NEW g \in Fragment, Entry(su, g) # Nowhere
        PROVE  FragOf(Entry(su, g)) = g /\ Reaches(c, es, Entry(su, g))
    <3>1. g # f /\ Entry(su, g) = Entry(st, g)
      BY <1>5, <2>5
    <3>2. FragOf(Entry(st, g)) = g /\ Reaches(c, cs, Entry(st, g))
      BY <2>1, <2>5, <3>1 DEF Sound, Joined
    <3> QED
      BY <2>4, <3>1, <3>2 DEF Reaches
  <2>6. ASSUME NEW r \in Page, NEW i \in 1 .. Size(c, r)
        PROVE  /\ Jump(c, r, i) # Nowhere => Reaches(c, es, Jump(c, r, i))
               /\ ~Ends(c, r, i) => GoesOn(c, es, r, i, Owner(c, r, i))
    <3>1. /\ Jump(c, r, i) # Nowhere => Reaches(c, cs, Jump(c, r, i))
          /\ ~Ends(c, r, i) => GoesOn(c, cs, r, i, Owner(c, r, i))
      BY <2>1 DEF Sound, Joined
    <3>2. Owner(c, r, i) # f /\ (Jump(c, r, i) # Nowhere => FragOf(Jump(c, r, i)) # f)
      BY <2>3 DEF Unwritten
    <3> QED
      BY <2>4, <3>1, <3>2 DEF Reaches
  <2>7. Joined(c, es, su)
    BY <2>5, <2>6 DEF Joined
  <2>8. ASSUME NEW j \in 1 .. Len(es)
        PROVE  BegunBy(c, su, Frag(es, j), KindOf(es, j)) /\ Frag(es, j) <= n
    <3>1. j \in 1 .. Len(cs) /\ Frag(es, j) = Frag(cs, j) /\ KindOf(es, j) = KindOf(cs, j)
      BY <1>6
    <3>2. Frag(cs, j) # f /\ Frag(cs, j) \in Fragment
      BY <1>1, <1>3, <3>1
    <3>3. Entry(su, Frag(cs, j)) = Entry(st, Frag(cs, j))
      BY <1>5, <3>2
    <3>4. BegunBy(c, st, Frag(cs, j), KindOf(cs, j)) /\ Frag(cs, j) <= n
      BY <2>1, <3>1 DEF Sound, Begun, Numbered
    <3> QED
      BY <3>1, <3>3, <3>4 DEF BegunBy
  <2>9. Begun(c, es, su) /\ Numbered(c, es, n)
    BY <2>1, <2>8 DEF Sound, Begun, Numbered
  <2> QED
    BY <2>1, <2>7, <2>9 DEF Sound
<1>8. Room(t, es)
  <2>1. ASSUME NEW i \in 1 .. Len(es)
        PROVE  Ample(t, At(es, i), 2 + Table(es, i))
    <3>1. i \in 1 .. Len(cs) /\ At(es, i) = At(cs, i) /\ Table(es, i) = Table(cs, i)
      BY <1>6
    <3>2. Ample(s, At(cs, i), 2 + Table(cs, i)) /\ At(cs, i) \in Page
      BY <3>1, ContextParts DEF Building, Room
    <3>3. FreeLines(t, At(cs, i)) = FreeLines(s, At(cs, i))
      BY <1>2, <3>2
    <3> QED
      BY <1>2, <3>1, <3>2, <3>3 DEF Ample
  <2> QED
    BY <2>1 DEF Room
<1>9. Count(t, RtOf(ph)) = Len(es)
  <2>1. Count(s, RtOf(ph)) = Len(cs) /\ Len(cs) \in Nat
    BY ContextParts DEF Building
  <2> QED
    BY <1>2, <1>3, <2>1
<1> QED
  BY <1>2, <1>3, <1>4, <1>7, <1>8, <1>9 DEF Between
-----------------------------------------------------------------------------
(* The actions preserve the invariant.                                     *)

\* What the module's names stand for while the instance is built.
LEMMA Names ==
  ASSUME Types, Building(phase, pool, contexts, start, fragments), contexts # <<>>
  PROVE  /\ Len(contexts) > 0 /\ Len(contexts) \in 1 .. Len(contexts)
         /\ Top.frag = Frag(contexts, Len(contexts)) /\ Top.kind = KindOf(contexts, Len(contexts))
         /\ Top.page = At(contexts, Len(contexts)) /\ Top.table = Table(contexts, Len(contexts))
         /\ Rt = RtOf(phase)
         /\ phase # "loading" => Rt = "main"
         /\ KindOf(contexts, Len(contexts)) # "expression" => phase # "loading" /\ Rt = "main"
         /\ \A q : SetPage(q) = PageSet(contexts, Len(contexts), q)
         /\ PopContext = Popped(contexts)
         /\ fragments \in Nat /\ contexts \in Seq(ContextType) /\ start \in [Fragment -> Destination]
         /\ fragments \in 0 .. MaxFragments
<1>1. Len(contexts) \in Nat /\ Len(contexts) # 0 /\ contexts \in Seq(ContextType)
  BY ContextParts DEF Types
<1>2. Len(contexts) > 0 /\ Len(contexts) \in 1 .. Len(contexts)
  BY <1>1
<1>3. /\ Top.frag = Frag(contexts, Len(contexts)) /\ Top.kind = KindOf(contexts, Len(contexts))
      /\ Top.page = At(contexts, Len(contexts)) /\ Top.table = Table(contexts, Len(contexts))
  BY DEF Top, Frag, KindOf, At, Table
<1>4. contexts[1].kind = (IF phase = "loading" THEN "expression" ELSE "function")
  BY DEF Building, Shape, KindOf
<1>5. Rt = RtOf(phase) /\ (phase # "loading" => Rt = "main")
  BY <1>4 DEF Rt, RtOf
<1>6. KindOf(contexts, Len(contexts)) # "expression" => phase # "loading"
  BY <1>1, <1>2, NotLoading DEF Building
<1>7. (\A q : SetPage(q) = PageSet(contexts, Len(contexts), q)) /\ PopContext = Popped(contexts)
  BY DEF SetPage, PageSet, PopContext, Popped
<1>8. fragments \in Nat /\ start \in [Fragment -> Destination] /\ fragments \in 0 .. MaxFragments
  BY LineAssumption DEF Types
<1> QED
  BY <1>1, <1>2, <1>3, <1>5, <1>6, <1>7, <1>8

\* While the instance is built.
LEMMA InvBuilding ==
  ASSUME Inv, phase \notin {"failed", "released"}
  PROVE  Types /\ Building(phase, pool, contexts, start, fragments)
  BY DEF Inv

LEMMA Compiling ==
  ASSUME Inv, contexts # <<>>
  PROVE  Types /\ Building(phase, pool, contexts, start, fragments)
  BY DEF Inv

\* A step that goes on building.
LEMMA StillBuilding ==
  ASSUME Inv, phase' = phase, phase \notin {"failed", "released"},
         contexts' \in Seq(ContextType), start' \in [Fragment -> Destination],
         fragments' \in 0 .. MaxFragments,
         Building(phase, pool', contexts', start', fragments')
  PROVE  Inv'
<1>1. Types'
  BY DEF Inv, Types
<1> QED
  BY <1>1 DEF Inv

LEMMA IsBuilding ==
  ASSUME Inv, contexts # <<>>
  PROVE  phase \notin {"failed", "released"}
  BY DEF Inv

\* A step that fails.
LEMMA NowFailed ==
  ASSUME Inv, phase' = "failed", contexts' = <<>>, start' = start, fragments' = fragments,
         Failed(pool')
  PROVE  Inv'
<1>1. Types'
  BY EmptySeq DEF Inv, Types
<1> QED
  BY <1>1 DEF Inv

LEMMA ThrowFails ==
  ASSUME Inv, contexts # <<>>, NEW e, e.page \in Page,
         Building(phase, e.pool, PageSet(contexts, Len(contexts), e.page), start, fragments),
         Throw(e)
  PROVE  Inv'
<1>1. Types /\ Building(phase, pool, contexts, start, fragments)
  BY Compiling
<1>2. /\ Len(contexts) > 0 /\ contexts \in Seq(ContextType)
      /\ Top.kind = KindOf(contexts, Len(contexts)) /\ Rt = RtOf(phase)
      /\ SetPage(e.page) = PageSet(contexts, Len(contexts), e.page)
  BY <1>1, Names
<1>3. PICK open, x, q : open = PageSet(contexts, Len(contexts), q) /\ x = Len(contexts) /\ q = e.page
  OBVIOUS
<1>4. open \in Seq(ContextType) /\ Len(open) = Len(contexts) /\ KindOf(open, x) = KindOf(contexts, x)
  <2>1. q \in Page /\ open = PageSet(contexts, x, q) /\ x = Len(contexts)
    BY <1>3
  <2>2. PageIsSet(contexts, open, x, q)
    BY ONLY <1>2, <2>1, OnPage
  <2> QED
    BY <2>2 DEF PageIsSet
<1>5. PICK kept : kept = IF Top.kind = "target" THEN RemoveAt(open, Len(open) - 1) ELSE open
  OBVIOUS
<1>6. kept = KeptOf(open)
  BY <1>2, <1>3, <1>4, <1>5 DEF KeptOf
<1>7. PICK rt, s, t : rt = Rt /\ s = e.pool /\ t = ReleaseAll(s, rt, kept)
  OBVIOUS
<1>8. /\ pool' = (IF rt = "temp" THEN DiscardTemp(t) ELSE t)
      /\ contexts' = <<>> /\ phase' = "failed" /\ start' = start /\ fragments' = fragments
  BY <1>2, <1>3, <1>5, <1>7, Zenon DEF Throw
<1>9. Failed(pool')
  <2>1. PICK u : u = (IF rt = "temp" THEN DiscardTemp(t) ELSE t)
    OBVIOUS
  <2>2. Building(phase, s, open, start, fragments) /\ Len(open) > 0 /\ rt = RtOf(phase)
        /\ open \in Seq(ContextType)
    BY <1>2, <1>3, <1>4, <1>7
  <2>3. t = ReleaseAll(s, rt, kept)
    BY <1>7
  <2>4. Failed(u)
    BY ONLY <1>6, <2>1, <2>2, <2>3, Threw
  <2> QED
    BY <1>8, <2>1, <2>4
<1> QED
  BY <1>8, <1>9, NowFailed

\* Where nothing was written.
LEMMA ThrowHere ==
  ASSUME Inv, contexts # <<>>, Throw(NotEmitted(pool, Top.page))
  PROVE  Inv'
<1>1. Types /\ Building(phase, pool, contexts, start, fragments)
  BY Compiling
<1>2. /\ Len(contexts) > 0 /\ contexts \in Seq(ContextType) /\ Top.page = At(contexts, Len(contexts))
      /\ Len(contexts) \in 1 .. Len(contexts)
  BY <1>1, Names
<1>3. PICK e, p, x : e = NotEmitted(pool, p) /\ p = Top.page /\ x = Len(contexts)
  OBVIOUS
<1>4. e.page = p /\ e.pool = pool
  BY <1>3 DEF NotEmitted
<1>5. p \in Page
  BY <1>2, <1>3, ContextParts
<1>6. PICK es : es = PageSet(contexts, x, p)
  OBVIOUS
<1>7. es = contexts
  <2>1. PageIsSet(contexts, es, x, p)
    BY ONLY <1>2, <1>3, <1>5, <1>6, OnPage
  <2> QED
    BY <1>2, <1>3, <2>1 DEF PageIsSet
<1>8. Building(phase, e.pool, PageSet(contexts, Len(contexts), e.page), start, fragments) /\ e.page \in Page
  BY <1>1, <1>3, <1>4, <1>5, <1>6, <1>7
<1>9. Throw(e)
  BY <1>3
<1> QED
  BY <1>8, <1>9, ThrowFails

\* A fragment begins.
LEMMA BegunKeeps ==
  ASSUME Inv, phase \notin {"failed", "released"}, fragments < MaxFragments,
         NEW kind, Begins(phase, contexts, kind),
         NEW a \in Acquire(pool, RtOf(phase), Threshold), a.page # NoPage, Begin(kind, a)
  PROVE  Inv'
<1>1. Types /\ Building(phase, pool, contexts, start, fragments)
  BY InvBuilding
<1>2. PICK f, q, t, es, su : /\ f = fragments + 1 /\ q = a.page /\ t = a.pool
                             /\ es = Opening(contexts, f, kind, q)
                             /\ su = [start EXCEPT ![f] = Location(t, q, f)]
  OBVIOUS
<1>3. contexts \in Seq(ContextType) /\ start \in [Fragment -> Destination] /\ fragments \in 0 .. MaxFragments
  BY <1>1 DEF Types
<1>4. Threshold \in Nat /\ Threshold >= 2
  BY LineAssumption
<1>5. Opens(phase, t, contexts, es, su, f, q, Threshold)
  BY ONLY <1>1, <1>2, <1>3, <1>4, Opened, fragments < MaxFragments, Begins(phase, contexts, kind),
          a \in Acquire(pool, RtOf(phase), Threshold), a.page # NoPage
<1>6. /\ fragments' = f /\ start' = su /\ contexts' = es /\ pool' = t /\ phase' = phase
  BY <1>2, Zenon DEF Begin, Context, Opening
<1> QED
  BY <1>5, <1>6, StillBuilding DEF Opens

\* No page can be had for the first fragment.
LEMMA NoneFails ==
  ASSUME Inv, phase \notin {"failed", "released"}, contexts = <<>>,
         phase' = "failed", UNCHANGED <<pool, contexts, start, fragments>>
  PROVE  Inv'
<1>1. Building(phase, pool, contexts, start, fragments)
  BY InvBuilding
<1>2. Failed(pool)
  <2>1. Held(contexts) = {} /\ Len(contexts) = 0
    BY EmptySeq DEF Held
  <2>2. Placed(pool, {}) /\ NoTemp(pool) /\ Count(pool, RtOf(phase)) = 0 /\ Count(pool, OtherRt(phase)) = 0
    BY <1>1, <2>1 DEF Building, Storage
  <2>3. Count(pool, "temp") = 0 /\ Count(pool, "main") = 0
    BY <2>2 DEF RtOf, OtherRt
  <2> QED
    BY <2>2, <2>3 DEF Failed
<1> QED
  BY <1>2, NowFailed

\* The innermost fragment has moved, or not.
LEMMA PageKeeps ==
  ASSUME Inv, contexts # <<>>, NEW q \in Page, contexts' = PageSet(contexts, Len(contexts), q),
         UNCHANGED <<phase, start, fragments>>,
         Building(phase, pool', PageSet(contexts, Len(contexts), q), start, fragments)
  PROVE  Inv'
<1>1. Types /\ Building(phase, pool, contexts, start, fragments)
  BY Compiling
<1>2. Len(contexts) > 0 /\ contexts \in Seq(ContextType)
  BY <1>1, Names
<1>3. PICK es, x : es = PageSet(contexts, x, q) /\ x = Len(contexts)
  OBVIOUS
<1>4. es \in Seq(ContextType)
  <2>1. PageIsSet(contexts, es, x, q)
    BY ONLY <1>2, <1>3, OnPage, q \in Page
  <2> QED
    BY <2>1 DEF PageIsSet
<1>5. start \in [Fragment -> Destination] /\ fragments \in 0 .. MaxFragments
  BY <1>1 DEF Types
<1> QED
  BY <1>3, <1>4, <1>5, IsBuilding, StillBuilding

LEMMA BeginExpressionKeeps ==
  ASSUME Inv, BeginExpression
  PROVE  Inv'
<1>1. phase = "loading" /\ contexts = <<>> /\ fragments < MaxFragments
  BY DEF BeginExpression, Idle
<1>2. Types /\ Building(phase, pool, contexts, start, fragments)
  BY <1>1, InvBuilding
<1>3. PICK a \in Acquire(pool, "temp", Threshold) :
        \/ a.page # NoPage /\ Begin("expression", a)
        \/ /\ a.page = NoPage
           /\ phase' = "failed"
           /\ UNCHANGED <<pool, contexts, start, fragments>>
  BY DEF BeginExpression
<1>4. CASE a.page # NoPage /\ Begin("expression", a)
  <2>1. Begins(phase, contexts, "expression")
    BY <1>1 DEF Begins
  <2>2. a \in Acquire(pool, RtOf(phase), Threshold)
    BY <1>1 DEF RtOf
  <2> QED
    BY <1>1, <1>2, <1>4, <2>1, <2>2, BegunKeeps
<1>5. CASE a.page = NoPage /\ phase' = "failed" /\ UNCHANGED <<pool, contexts, start, fragments>>
  BY <1>1, <1>5, NoneFails
<1> QED
  BY <1>3, <1>4, <1>5

LEMMA BeginFunctionKeeps ==
  ASSUME Inv, BeginFunction
  PROVE  Inv'
<1>1. phase = "compiling" /\ contexts = <<>> /\ fragments < MaxFragments
  BY DEF BeginFunction, Idle
<1>2. Types /\ Building(phase, pool, contexts, start, fragments)
  BY <1>1, InvBuilding
<1>3. PICK a \in Acquire(pool, "main", Threshold) :
        \/ a.page # NoPage /\ Begin("function", a)
        \/ /\ a.page = NoPage
           /\ phase' = "failed"
           /\ UNCHANGED <<pool, contexts, start, fragments>>
  BY DEF BeginFunction
<1>4. CASE a.page # NoPage /\ Begin("function", a)
  <2>1. Begins(phase, contexts, "function")
    BY <1>1 DEF Begins
  <2>2. a \in Acquire(pool, RtOf(phase), Threshold)
    BY <1>1 DEF RtOf
  <2> QED
    BY <1>1, <1>2, <1>4, <2>1, <2>2, BegunKeeps
<1>5. CASE a.page = NoPage /\ phase' = "failed" /\ UNCHANGED <<pool, contexts, start, fragments>>
  BY <1>1, <1>5, NoneFails
<1> QED
  BY <1>3, <1>4, <1>5

LEMMA BeginElseKeeps ==
  ASSUME Inv, BeginElse
  PROVE  Inv'
<1>1. contexts # <<>> /\ Top.table = 0 /\ Top.kind \in {"function", "else"} /\ fragments < MaxFragments
  BY DEF BeginElse, Busy
<1>2. Types /\ Building(phase, pool, contexts, start, fragments)
  BY <1>1, Compiling
<1>3. /\ KindOf(contexts, Len(contexts)) \in {"function", "else"} /\ Table(contexts, Len(contexts)) = 0
      /\ phase # "loading" /\ Rt = "main" /\ Rt = RtOf(phase)
  BY <1>1, <1>2, Names
<1>4. PICK a \in Acquire(pool, "main", Threshold) :
        \/ a.page # NoPage /\ Begin("else", a)
        \/ a.page = NoPage /\ Throw(NotEmitted(pool, Top.page))
  BY DEF BeginElse
<1>5. CASE a.page # NoPage /\ Begin("else", a)
  <2>1. Begins(phase, contexts, "else")
    BY <1>1, <1>3 DEF Begins
  <2>2. a \in Acquire(pool, RtOf(phase), Threshold)
    BY <1>3
  <2> QED
    BY <1>1, <1>2, <1>5, <2>1, <2>2, BegunKeeps, IsBuilding
<1> QED
  BY <1>1, <1>4, <1>5, ThrowHere

LEMMA BeginTargetKeeps ==
  ASSUME Inv, BeginTarget
  PROVE  Inv'
<1>1. contexts # <<>> /\ Top.table > 0 /\ fragments < MaxFragments
  BY DEF BeginTarget
<1>2. Types /\ Building(phase, pool, contexts, start, fragments)
  BY <1>1, Compiling
<1>3. Table(contexts, Len(contexts)) > 0 /\ Len(contexts) \in 1 .. Len(contexts)
  BY <1>1, <1>2, Names
<1>4. KindOf(contexts, Len(contexts)) \in {"function", "else"}
  BY <1>2, <1>3 DEF Building, Shape, Nesting
<1>5. phase # "loading" /\ Rt = "main" /\ Rt = RtOf(phase)
  BY <1>1, <1>2, <1>4, Names
<1>6. PICK a \in Acquire(pool, "main", Threshold) :
        \/ a.page # NoPage /\ Begin("target", a)
        \/ a.page = NoPage /\ Throw(NotEmitted(pool, Top.page))
  BY DEF BeginTarget
<1>7. CASE a.page # NoPage /\ Begin("target", a)
  <2>1. Begins(phase, contexts, "target")
    BY <1>1, <1>3, <1>4 DEF Begins
  <2>2. a \in Acquire(pool, RtOf(phase), Threshold)
    BY <1>5
  <2> QED
    BY <1>1, <1>2, <1>7, <2>1, <2>2, BegunKeeps, IsBuilding
<1> QED
  BY <1>1, <1>6, <1>7, ThrowHere

LEMMA EmitOperationKeeps ==
  ASSUME Inv, NEW n \in {0, MaxImmediates}, EmitOperation(n)
  PROVE  Inv'
<1>1. contexts # <<>> /\ Top.table = 0
  BY DEF EmitOperation, Busy
<1>2. Types /\ Building(phase, pool, contexts, start, fragments)
  BY <1>1, Compiling
<1>3. PICK p, f, x, rt, m : p = Top.page /\ f = Top.frag /\ x = Len(contexts) /\ rt = Rt /\ m = n + 1
  OBVIOUS
<1>4. /\ Len(contexts) > 0 /\ p = At(contexts, x) /\ f = Frag(contexts, x) /\ rt = RtOf(phase)
      /\ Table(contexts, x) = 0
      /\ contexts \in Seq(ContextType) /\ start \in [Fragment -> Destination] /\ fragments \in Nat
      /\ \A q : SetPage(q) = PageSet(contexts, Len(contexts), q)
  BY <1>1, <1>2, <1>3, Names
<1>5. f \in Fragment
  BY <1>2, <1>3, <1>4, Innermost
<1>6. m \in Nat /\ m > 0 /\ m <= Threshold
  BY <1>3, LineAssumption
<1>7. PICK b : b = Immediates(f, m)
  OBVIOUS
<1>8. b \in Seq(Line) /\ Len(b) = m /\ LinesOf(f, b) /\ \A i \in 1 .. Len(b) : b[i].to = Nowhere
  <2>1. Plain(f, m, b)
    BY <1>5, <1>6, <1>7, PlainLines
  <2> QED
    BY <2>1 DEF Plain
<1>9. PICK e \in EmitOp(pool, rt, p, f, b) :
        \/ ~e.ok /\ Throw(e)
        \/ /\ e.ok
           /\ pool' = e.pool
           /\ contexts' = SetPage(e.page)
           /\ UNCHANGED <<phase, start, fragments>>
  BY <1>3, <1>7, Zenon DEF EmitOperation
<1>10. Emits(phase, pool, contexts, start, fragments, b, e)
  <2>1. Len(b) <= Threshold
    BY <1>6, <1>8
  <2> QED
    BY ONLY <1>2, <1>3, <1>4, <1>8, <2>1, OpWritten, e \in EmitOp(pool, rt, p, f, b)
<1>11. e.page \in Page /\ Building(phase, e.pool, PageSet(contexts, Len(contexts), e.page), start, fragments)
  BY <1>10 DEF Emits
<1>12. CASE ~e.ok /\ Throw(e)
  BY <1>1, <1>11, <1>12, ThrowFails
<1>13. CASE e.ok /\ pool' = e.pool /\ contexts' = SetPage(e.page) /\ UNCHANGED <<phase, start, fragments>>
  BY <1>1, <1>4, <1>11, <1>13, PageKeeps
<1> QED
  BY <1>9, <1>12, <1>13

\* An operation is missing from here on: of the pages it is only known where they are.
LEMMA Tore ==
  ASSUME NEW ph, NEW s, NEW cs, NEW st, NEW n, Building(ph, s, cs, st, n),
         NEW t, t = [s EXCEPT !.torn = TRUE]
  PROVE  Building(ph, t, cs, st, n) /\ Torn(t)
<1>1. Placed(s, Held(cs)) /\ s \in PoolType
  BY DEF Building, Storage, Placed
<1>2. /\ t \in PoolType /\ Torn(t) /\ Pages(t) = Pages(s) /\ CodeOf(t) = CodeOf(s)
      /\ Returned(t) = Returned(s)
  BY <1>1 DEF PoolType, Torn, Pages, CodeOf, Returned
<1>3. \A r : /\ Open(t, r) = Open(s, r) /\ Full(t, r) = Full(s, r)
             /\ Count(t, r) = Count(s, r) /\ Total(t, r) = Total(s, r)
  BY <1>1 DEF PoolType, Open, Full, Count, Total
<1>4. Lists(t) = Lists(s)
  BY <1>2, <1>3 DEF Lists
<1>5. Accounted(t) /\ Allocated(t) /\ Lined(t)
  BY <1>1, <1>2, <1>3 DEF Placed, Accounted, Allocated, Lined
<1>6. Placed(t, Held(cs))
  BY <1>1, <1>2, <1>4, <1>5 DEF Placed
<1>7. \A p : InTemp(t, p) <=> InTemp(s, p)
  BY <1>3 DEF InTemp
<1>8. NoTemp(t) <=> NoTemp(s)
  BY <1>3 DEF NoTemp
<1>9. Storage(ph, t, Held(cs))
  BY <1>2, <1>3, <1>6, <1>7, <1>8 DEF Building, Storage
<1>10. Room(t, cs)
  BY <1>2 DEF Room, Ample
<1> QED
  BY <1>2, <1>3, <1>8, <1>9, <1>10 DEF Building

\* Slots without their operation, if there are any.
LEMMA SlotsWritten ==
  ASSUME NEW s \in PoolType, NEW p \in Page, NEW k \in Nat, NEW f \in Fragment,
         NEW b, b = Immediates(f, k), NEW t, t = [Emit(s, p, b) EXCEPT !.torn = TRUE],
         NEW u, u = [s EXCEPT !.torn = TRUE]
  PROVE  /\ u \in PoolType /\ t = Emit(u, p, b)
         /\ k = 0 => t = u
<1>1. u \in PoolType /\ u.code = s.code /\ CodeOf(s) \in [Page -> Seq(Line)]
  BY PoolParts DEF PoolType
<1>2. PICK c : c = [s.code EXCEPT ![p] = s.code[p] \o b]
  OBVIOUS
<1>3. Emit(s, p, b) = [s EXCEPT !.code = c] /\ Emit(u, p, b) = [u EXCEPT !.code = c]
  BY <1>1, <1>2, Zenon DEF Emit
<1>4. [[s EXCEPT !.code = c] EXCEPT !.torn = TRUE] = [u EXCEPT !.code = c]
  BY DEF PoolType
<1>5. t = Emit(u, p, b)
  BY <1>3, <1>4
<1>6. ASSUME k = 0
      PROVE  t = u
  <2>1. b = [i \in {} |-> Operation(f)]
    <3>1. 1 .. k = {}
      BY <1>6
    <3> QED
      BY <3>1 DEF Immediates
  <2>2. b = <<>>
    BY <2>1
  <2>3. s.code[p] \in Seq(Line)
    BY <1>1 DEF CodeOf
  <2>4. s.code[p] \o b = s.code[p]
    BY <2>2, <2>3
  <2>5. c = s.code
    BY <1>1, <1>2, <2>4 DEF CodeOf
  <2>6. [u EXCEPT !.code = s.code] = u
    BY DEF PoolType
  <2> QED
    BY <1>3, <1>5, <2>5, <2>6
<1> QED
  BY <1>1, <1>5, <1>6

LEMMA EmitUncheckedKeeps ==
  ASSUME Inv, NEW slots \in {0, SelectSlots}, EmitUnchecked(slots)
  PROVE  Inv'
<1>1. contexts # <<>> /\ Top.table = 0
  BY DEF EmitUnchecked, Busy
<1>2. Types /\ Building(phase, pool, contexts, start, fragments)
  BY <1>1, Compiling
<1>3. PICK p, f, x, rt, m : p = Top.page /\ f = Top.frag /\ x = Len(contexts) /\ rt = Rt /\ m = slots + 1
  OBVIOUS
<1>4. /\ Len(contexts) > 0 /\ p = At(contexts, x) /\ f = Frag(contexts, x) /\ rt = RtOf(phase)
      /\ Table(contexts, x) = 0
      /\ contexts \in Seq(ContextType) /\ start \in [Fragment -> Destination] /\ fragments \in Nat
      /\ \A q : SetPage(q) = PageSet(contexts, Len(contexts), q)
  BY <1>1, <1>2, <1>3, Names
<1>5. f \in Fragment
  BY <1>2, <1>3, <1>4, Innermost
<1>6. m \in Nat /\ m > 0 /\ m <= Threshold /\ slots \in Nat
  BY <1>3, LineAssumption
<1>7. PICK b, d : b = Immediates(f, m) /\ d = Immediates(f, slots)
  OBVIOUS
<1>8. b \in Seq(Line) /\ Len(b) = m /\ LinesOf(f, b) /\ \A i \in 1 .. Len(b) : b[i].to = Nowhere
  <2>1. Plain(f, m, b)
    BY <1>5, <1>6, <1>7, PlainLines
  <2> QED
    BY <2>1 DEF Plain
<1>9. PICK e \in EmitOp(pool, rt, p, f, b) :
        /\ pool' = IF e.ok THEN e.pool ELSE [Emit(e.pool, e.page, d) EXCEPT !.torn = TRUE]
        /\ contexts' = SetPage(e.page)
        /\ UNCHANGED <<phase, start, fragments>>
  BY <1>3, <1>7, Zenon DEF EmitUnchecked
<1>10. Emits(phase, pool, contexts, start, fragments, b, e)
  <2>1. Len(b) <= Threshold
    BY <1>6, <1>8
  <2> QED
    BY ONLY <1>2, <1>3, <1>4, <1>8, <2>1, OpWritten, e \in EmitOp(pool, rt, p, f, b)
<1>11. e.page \in Page /\ Building(phase, e.pool, PageSet(contexts, Len(contexts), e.page), start, fragments)
  BY <1>10 DEF Emits
<1>12. Building(phase, pool', PageSet(contexts, Len(contexts), e.page), start, fragments)
  <2>1. PICK q, s, es, t, u : /\ q = e.page /\ s = e.pool /\ es = PageSet(contexts, x, q)
                              /\ t = [Emit(s, q, d) EXCEPT !.torn = TRUE] /\ u = [s EXCEPT !.torn = TRUE]
    OBVIOUS
  <2>2. Building(phase, s, es, start, fragments) /\ q \in Page
    BY <1>3, <1>11, <2>1
  <2>3. /\ es \in Seq(ContextType) /\ Len(es) = Len(contexts) /\ At(es, x) = q /\ Frag(es, x) = f
    <3>1. PageIsSet(contexts, es, x, q)
      BY ONLY <1>3, <1>4, <2>1, <2>2, OnPage
    <3> QED
      BY <1>3, <1>4, <3>1 DEF PageIsSet
  <2>4. s \in PoolType
    BY <2>2 DEF Building, Storage, Placed
  <2>5. Building(phase, u, es, start, fragments) /\ Torn(u)
    BY <2>1, <2>2, Tore
  <2>6. u \in PoolType /\ t = Emit(u, q, d) /\ (slots = 0 => t = u)
    BY ONLY <1>5, <1>6, <1>7, <2>1, <2>2, <2>4, SlotsWritten
  <2>7. Building(phase, t, es, start, fragments)
    <3>1. CASE slots = 0
      BY <2>5, <2>6, <3>1
    <3>2. CASE slots > 0
      <4>1. Plain(f, slots, d)
        BY <1>5, <1>6, <1>7, <3>2, PlainLines
      <4>2. d \in Seq(Line) /\ LinesOf(f, d) /\ \A i \in 1 .. Len(d) : d[i].to = Nowhere
        BY <4>1 DEF Plain
      <4>3. HasRoom(u, q, d, Table(es, x))
        BY <2>5 DEF HasRoom, Ample
      <4>4. Len(es) > 0 /\ x = Len(es) /\ q = At(es, x) /\ f = Frag(es, x)
        BY <1>3, <1>4, <2>3
      <4>5. t = Emit(u, q, d) /\ es \in Seq(ContextType)
        BY <2>3, <2>6
      <4> QED
        BY ONLY <1>4, <2>5, <4>2, <4>3, <4>4, <4>5, Wrote
    <3> QED
      BY <1>6, <3>1, <3>2
  <2>8. pool' = s \/ pool' = t
    BY <1>9, <2>1
  <2> QED
    BY <1>3, <2>1, <2>2, <2>7, <2>8
<1> QED
  BY <1>1, <1>4, <1>9, <1>11, <1>12, PageKeeps

LEMMA BranchTableKeeps ==
  ASSUME Inv, NEW k \in {0, MaxTargets}, BranchTable(k)
  PROVE  Inv'
<1>1. contexts # <<>> /\ Top.table = 0 /\ Top.kind \in {"function", "else"}
  BY DEF BranchTable, Busy
<1>2. Types /\ Building(phase, pool, contexts, start, fragments)
  BY <1>1, Compiling
<1>3. PICK p, f, x, rt : p = Top.page /\ f = Top.frag /\ x = Len(contexts) /\ rt = "main"
  OBVIOUS
<1>4. /\ Len(contexts) > 0 /\ p = At(contexts, x) /\ f = Frag(contexts, x)
      /\ Table(contexts, x) = 0 /\ KindOf(contexts, x) \in {"function", "else"}
      /\ contexts \in Seq(ContextType) /\ start \in [Fragment -> Destination] /\ fragments \in Nat
      /\ \A q : SetPage(q) = PageSet(contexts, Len(contexts), q)
  BY <1>1, <1>2, <1>3, Names
<1>5. rt = RtOf(phase)
  BY <1>1, <1>2, <1>3, <1>4, Names
<1>6. PICK e \in EmitTable(pool, rt, p, f, k) :
        \/ ~e.ok /\ Throw(e)
        \/ /\ e.ok
           /\ pool' = e.pool
           /\ contexts' = [SetPage(e.page) EXCEPT ![Len(contexts)].table = k + 1]
           /\ UNCHANGED <<phase, start, fragments>>
  BY <1>3, Zenon DEF BranchTable
<1>7. k \in Nat /\ k + 1 \in Tables
  BY LineAssumption DEF Tables
<1>8. EmitsTable(phase, pool, contexts, start, fragments, k, e)
  BY ONLY <1>2, <1>3, <1>4, <1>5, <1>7, TableWritten, e \in EmitTable(pool, rt, p, f, k)
<1>9. e.page \in Page /\ Building(phase, e.pool, PageSet(contexts, Len(contexts), e.page), start, fragments)
  BY <1>8 DEF EmitsTable
<1>10. CASE ~e.ok /\ Throw(e)
  BY <1>1, <1>9, <1>10, ThrowFails
<1>11. CASE /\ e.ok /\ pool' = e.pool /\ UNCHANGED <<phase, start, fragments>>
            /\ contexts' = [SetPage(e.page) EXCEPT ![Len(contexts)].table = k + 1]
  <2>1. PICK q, s, es, fs, t : /\ q = e.page /\ s = e.pool /\ es = PageSet(contexts, x, q)
                               /\ t = k + 1 /\ fs = TableSet(es, x, t)
    OBVIOUS
  <2>2. /\ es \in Seq(ContextType) /\ Len(es) = Len(contexts) /\ KindOf(es, x) = KindOf(contexts, x)
        /\ At(es, x) = q
    <3>1. PageIsSet(contexts, es, x, q)
      BY ONLY <1>3, <1>4, <1>9, <2>1, OnPage
    <3> QED
      BY <3>1 DEF PageIsSet
  <2>3. Ample(s, q, 2 + t)
    BY <1>8, <1>11, <2>1 DEF EmitsTable, Ample
  <2>4. Building(phase, s, es, start, fragments) /\ Len(es) > 0 /\ x = Len(es) /\ t \in Tables
    BY <1>3, <1>4, <1>7, <1>9, <2>1, <2>2
  <2>5. fs \in Seq(ContextType) /\ Building(phase, s, fs, start, fragments)
    <3>1. fs = TableSet(es, x, t) /\ q = At(es, x) /\ KindOf(es, x) \in {"function", "else"} /\ es \in Seq(ContextType)
      BY <1>4, <2>1, <2>2
    <3> QED
      BY ONLY <2>3, <2>4, <3>1, Tabled
  <2>6. contexts' = fs
    BY <1>3, <1>4, <1>11, <2>1, Zenon DEF TableSet
  <2> QED
    BY <1>1, <1>2, <1>11, <2>1, <2>5, <2>6, StillBuilding, IsBuilding DEF Types
<1> QED
  BY <1>6, <1>10, <1>11

\* Outside all fragments.
LEMMA Outermost ==
  ASSUME NEW ph, NEW cs \in Seq(ContextType), Shape(ph, cs), Len(cs) > 0,
         KindOf(cs, Len(cs)) \in {"function", "expression"}
  PROVE  Len(cs) = 1 /\ Popped(cs) = <<>>
<1>1. Len(cs) \in 1 .. Len(cs)
  BY ContextParts
<1>2. Len(cs) = 1
  BY <1>1 DEF Shape, Nesting
<1>3. PICK es : es = Popped(cs)
  OBVIOUS
<1>4. es \in Seq(ContextType) /\ Len(es) = 0
  <2>1. es \in Seq(ContextType) /\ Len(es) = Len(cs) - 1
    BY <1>3, PoppedParts
  <2> QED
    BY <1>2, <2>1
<1> QED
  BY <1>2, <1>3, <1>4, ContextParts

LEMMA EndFunctionKeeps ==
  ASSUME Inv, EndFunction
  PROVE  Inv'
<1>1. contexts # <<>> /\ Top.table = 0 /\ Top.kind = "function"
  BY DEF EndFunction, Busy
<1>2. Types /\ Building(phase, pool, contexts, start, fragments)
  BY <1>1, Compiling
<1>3. PICK p, f, x, rt, b : p = Top.page /\ f = Top.frag /\ x = Len(contexts) /\ rt = "main" /\ b = <<Final(Operation(f))>>
  OBVIOUS
<1>4. /\ Len(contexts) > 0 /\ p = At(contexts, x) /\ f = Frag(contexts, x)
      /\ Table(contexts, x) = 0 /\ KindOf(contexts, x) = "function"
      /\ contexts \in Seq(ContextType) /\ start \in [Fragment -> Destination] /\ fragments \in Nat
  BY <1>1, <1>2, <1>3, Names
<1>5. rt = RtOf(phase) /\ phase # "loading"
  BY <1>1, <1>2, <1>3, <1>4, Names
<1>6. PICK e \in EmitOp(pool, rt, p, f, b) :
        \/ ~e.ok /\ Throw(e)
        \/ /\ e.ok
           /\ pool' = ReleasePage(e.pool, rt, e.page)
           /\ contexts' = <<>>
           /\ UNCHANGED <<phase, start, fragments>>
  BY <1>3, Zenon DEF EndFunction
<1>7. Finishes(phase, pool, contexts, start, fragments, e)
  BY ONLY <1>2, <1>3, <1>4, <1>5, Finished, e \in EmitOp(pool, rt, p, f, b)
<1>8. CASE ~e.ok /\ Throw(e)
  BY <1>1, <1>7, <1>8, ThrowFails DEF Finishes
<1>9. CASE e.ok /\ pool' = ReleasePage(e.pool, rt, e.page) /\ contexts' = <<>> /\ UNCHANGED <<phase, start, fragments>>
  <2>1. Popped(contexts) = <<>>
    BY <1>2, <1>3, <1>4, Outermost DEF Building
  <2>2. Between(phase, pool', <<>>, start, fragments)
    BY <1>5, <1>7, <1>9, <2>1 DEF Finishes
  <2>3. Building(phase, pool', <<>>, start, fragments)
    BY <1>5, <2>2, BetweenBuilding
  <2>4. contexts' \in Seq(ContextType)
    BY <1>9, EmptySeq
  <2> QED
    BY <1>1, <1>2, <1>9, <2>3, <2>4, StillBuilding, IsBuilding DEF Types
<1> QED
  BY <1>6, <1>8, <1>9

\* Nothing is left of an expression.
LEMMA ExpressionGone ==
  ASSUME NEW t, NEW st \in [Fragment -> Destination], NEW n, Between("loading", t, <<>>, st, n),
         NEW f, \A g \in Fragment : Entry(st, g) # Nowhere => g = f,
         NEW u, u = DiscardTemp(t), NEW su, su = [st EXCEPT ![f] = Nowhere]
  PROVE  su \in [Fragment -> Destination] /\ Building("loading", u, <<>>, su, n)
<1>1. Held(<<>>) = {} /\ Len(<<>>) = 0
  BY EmptySeq DEF Held
<1>2. Storage("loading", t, {})
  BY <1>1 DEF Between
<1>3. /\ Placed(t, {}) /\ Count(t, "main") = 0 /\ Open(t, "main") = <<>> /\ Full(t, "main") = <<>>
      /\ \A p \in Page : Size(CodeOf(t), p) # 0 => InTemp(t, p)
  BY <1>2 DEF Storage, OtherRt
<1>4. /\ Placed(u, {}) /\ NoTemp(u) /\ Count(u, "temp") = 0
      /\ Open(u, "main") = <<>> /\ Full(u, "main") = <<>> /\ Count(u, "main") = 0
      /\ \A p \in Page : Size(CodeOf(u), p) # 0 => Size(CodeOf(t), p) # 0 /\ ~InTemp(t, p)
  BY <1>3, TempDiscarded
<1>5. \A p \in Page : Size(CodeOf(u), p) = 0
  BY <1>3, <1>4
<1>6. su \in [Fragment -> Destination] /\ \A g \in Fragment : Entry(su, g) = Nowhere
  BY DEF Entry, Destination
<1>7. Storage("loading", u, Held(<<>>)) /\ Count(u, RtOf("loading")) = Len(<<>>)
  BY <1>1, <1>4, <1>5 DEF Storage, OtherRt, RtOf
<1>8. Room(u, <<>>) /\ Shape("loading", <<>>)
  BY <1>1 DEF Room, Shape, Separate, Nesting
<1>9. Sound(CodeOf(u), <<>>, su, n)
  <2>1. PICK c, ps : c = CodeOf(u) /\ ps = <<>>
    OBVIOUS
  <2>2. /\ \A p \in Page : \A i \in 1 .. Size(c, p) : FALSE
        /\ \A i \in 1 .. Len(ps) : FALSE
    BY <1>1, <1>5, <2>1
  <2>3. Joined(c, ps, su)
    BY ONLY <1>6, <2>2 DEF Joined
  <2>4. Begun(c, ps, su) /\ Numbered(c, ps, n)
    BY ONLY <2>2 DEF Begun, Numbered, Unwritten
  <2> QED
    BY <2>1, <2>3, <2>4 DEF Sound
<1>10. Known(<<>>, su)
  BY <1>6 DEF Known
<1> QED
  BY <1>4, <1>6, <1>7, <1>8, <1>9, <1>10 DEF Building

LEMMA EndExpressionKeeps ==
  ASSUME Inv, EndExpression
  PROVE  Inv'
<1>1. contexts # <<>> /\ Top.table = 0 /\ Top.kind = "expression"
  BY DEF EndExpression, Busy
<1>2. Types /\ Building(phase, pool, contexts, start, fragments)
  BY <1>1, Compiling
<1>3. PICK p, f, x, rt, b : p = Top.page /\ f = Top.frag /\ x = Len(contexts) /\ rt = "temp" /\ b = <<Final(Operation(f))>>
  OBVIOUS
<1>4. /\ Len(contexts) > 0 /\ p = At(contexts, x) /\ f = Frag(contexts, x)
      /\ Table(contexts, x) = 0 /\ KindOf(contexts, x) = "expression"
      /\ contexts \in Seq(ContextType) /\ start \in [Fragment -> Destination] /\ fragments \in Nat
  BY <1>1, <1>2, <1>3, Names
<1>5. x = 1 /\ Len(contexts) = 1 /\ Popped(contexts) = <<>>
  BY <1>2, <1>3, <1>4, Outermost DEF Building
<1>6. rt = RtOf(phase) /\ phase = "loading"
  BY <1>1, <1>2, <1>3, <1>4, <1>5 DEF Building, Shape, RtOf
<1>7. PICK e \in EmitOp(pool, rt, p, f, b) :
        \/ ~e.ok /\ Throw(e)
        \/ /\ e.ok
           /\ pool' = DiscardTemp(ReleasePage(e.pool, rt, e.page))
           /\ start' = [start EXCEPT ![f] = Nowhere]
           /\ contexts' = <<>>
           /\ UNCHANGED <<phase, fragments>>
  BY <1>3, Zenon DEF EndExpression
<1>8. Finishes(phase, pool, contexts, start, fragments, e)
  BY ONLY <1>2, <1>3, <1>4, <1>6, Finished, e \in EmitOp(pool, rt, p, f, b)
<1>9. CASE ~e.ok /\ Throw(e)
  BY <1>1, <1>8, <1>9, ThrowFails DEF Finishes
<1>10. CASE /\ e.ok /\ pool' = DiscardTemp(ReleasePage(e.pool, rt, e.page))
            /\ start' = [start EXCEPT ![f] = Nowhere] /\ contexts' = <<>> /\ UNCHANGED <<phase, fragments>>
  <2>1. PICK t : t = ReleasePage(e.pool, rt, e.page)
    OBVIOUS
  <2>2. Between("loading", t, <<>>, start, fragments)
    BY <1>5, <1>6, <1>8, <1>10, <2>1 DEF Finishes
  <2>3. \A g \in Fragment : Entry(start, g) # Nowhere => g = f
    <3>1. Known(contexts, start)
      BY <1>2, <1>6 DEF Building
    <3>2. \A i \in 1 .. Len(contexts) : i = 1
      BY <1>5
    <3> QED
      BY <1>4, <1>5, <3>1, <3>2 DEF Known
  <2>4. PICK u, su : u = pool' /\ su = start'
    OBVIOUS
  <2>5. u = DiscardTemp(t) /\ su = [start EXCEPT ![f] = Nowhere]
    BY <1>10, <2>1, <2>4
  <2>6. su \in [Fragment -> Destination] /\ Building("loading", u, <<>>, su, fragments)
    BY ONLY <1>4, <2>2, <2>3, <2>5, ExpressionGone
  <2>7. contexts' \in Seq(ContextType)
    BY <1>10, EmptySeq
  <2> QED
    BY <1>1, <1>2, <1>6, <1>10, <2>4, <2>6, <2>7, StillBuilding, IsBuilding DEF Types
<1> QED
  BY <1>7, <1>9, <1>10

LEMMA CompileErrorKeeps ==
  ASSUME Inv, CompileError
  PROVE  Inv'
  BY ThrowHere DEF CompileError

\* The stub of an import.
LEMMA StubLines ==
  ASSUME NEW f \in Fragment, NEW b, b = Append(Immediates(f, 3), Final(Operation(f)))
  PROVE  /\ b \in Seq(Line) /\ Len(b) = 4 /\ LinesOf(f, b) /\ b[Len(b)].ends
         /\ \A i \in 1 .. Len(b) : b[i].to = Nowhere
<1>1. PICK a, y, n : a = Immediates(f, n) /\ y = Final(Operation(f)) /\ n = 3
  OBVIOUS
<1>2. a \in Seq(Line) /\ Len(a) = 3 /\ LinesOf(f, a) /\ \A i \in 1 .. Len(a) : a[i].to = Nowhere
  <2>1. n \in Nat /\ n > 0
    BY <1>1
  <2>2. Plain(f, n, a)
    BY <1>1, <2>1, PlainLines
  <2> QED
    BY <1>1, <2>2 DEF Plain
<1>3. y \in Line /\ y.of = f /\ y.to = Nowhere /\ y.ends
  <2>1. Nowhere \in Destination
    BY DEF Destination
  <2> QED
    BY <1>1, <2>1, LineKinds
<1>4. b = Append(a, y)
  BY <1>1
<1>5. b \in Seq(Line) /\ Len(b) = 4 /\ b[4] = y /\ \A i \in 1 .. 3 : b[i] = a[i]
  <2>1. a \in Seq(Line) /\ y \in Line
    BY <1>2, <1>3
  <2>2. /\ b \in Seq(Line) /\ Len(b) = Len(a) + 1 /\ b[Len(a) + 1] = y
        /\ \A i \in 1 .. Len(a) : b[i] = a[i]
    BY ONLY <1>4, <2>1, AppendProperties
  <2> QED
    BY <1>2, <2>2
<1>6. \A i \in 1 .. 4 : i = 4 \/ i \in 1 .. 3
  OBVIOUS
<1>7. \A i \in 1 .. Len(b) : b[i].of = f /\ b[i].to = Nowhere
  BY <1>2, <1>3, <1>5, <1>6 DEF LinesOf
<1> QED
  BY <1>3, <1>5, <1>7 DEF LinesOf

LEMMA LinkImportKeeps ==
  ASSUME Inv, LinkImport
  PROVE  Inv'
<1>1. phase = "linking" /\ contexts = <<>> /\ fragments < MaxFragments
  BY DEF LinkImport, Idle
<1>2. Types /\ Building(phase, pool, contexts, start, fragments)
  BY <1>1, InvBuilding
<1>3. PICK a \in Acquire(pool, "main", 4) :
       \/ /\ a.page # NoPage
          /\ LET f == fragments + 1
                 s == Emit(a.pool, a.page, Append(Immediates(f, 3), Final(Operation(f))))
             IN  pool' = ReleasePage(s, "main", a.page)
          /\ start' = [start EXCEPT ![fragments + 1] = Location(a.pool, a.page, fragments + 1)]
          /\ fragments' = fragments + 1
          /\ UNCHANGED <<phase, contexts>>
       \/ /\ a.page = NoPage
          /\ phase' = "failed"
          /\ UNCHANGED <<pool, contexts, start, fragments>>
  BY DEF LinkImport
<1>4. CASE a.page = NoPage /\ phase' = "failed" /\ UNCHANGED <<pool, contexts, start, fragments>>
  BY <1>1, <1>4, NoneFails
<1>5. CASE /\ a.page # NoPage
           /\ LET f == fragments + 1
                  s == Emit(a.pool, a.page, Append(Immediates(f, 3), Final(Operation(f))))
              IN  pool' = ReleasePage(s, "main", a.page)
           /\ start' = [start EXCEPT ![fragments + 1] = Location(a.pool, a.page, fragments + 1)]
           /\ fragments' = fragments + 1
           /\ UNCHANGED <<phase, contexts>>
  <2>1. PICK f, q, t, kind, es, su, b, k : /\ f = fragments + 1 /\ q = a.page /\ t = a.pool
                                           /\ kind = "function" /\ es = Opening(contexts, f, kind, q)
                                           /\ su = [start EXCEPT ![f] = Location(t, q, f)]
                                           /\ b = Append(Immediates(f, 3), Final(Operation(f)))
                                           /\ k = 4
    OBVIOUS
  <2>2. contexts \in Seq(ContextType) /\ start \in [Fragment -> Destination] /\ fragments \in 0 .. MaxFragments
    BY <1>2 DEF Types
  <2>3. k \in Nat /\ k >= 2 /\ Begins(phase, contexts, kind) /\ a \in Acquire(pool, RtOf(phase), k)
    BY <1>1, <2>1 DEF Begins, RtOf
  <2>4. Opens(phase, t, contexts, es, su, f, q, k)
    BY ONLY <1>1, <1>2, <1>5, <2>1, <2>2, <2>3, Opened
  <2>5. /\ f \in 0 .. MaxFragments /\ su \in [Fragment -> Destination] /\ es \in Seq(ContextType)
        /\ Building(phase, t, es, su, f) /\ Len(es) = 1 /\ At(es, Len(es)) = q /\ Frag(es, Len(es)) = f
        /\ FreeLines(t, q) >= 4
    <3>1. Len(contexts) = 0
      BY <1>1, EmptySeq
    <3> QED
      BY <2>1, <2>4, <3>1 DEF Opens
  <2>6. f \in Fragment /\ f \in Nat
    <3>1. fragments \in Nat /\ fragments < MaxFragments
      BY <1>1, <2>2, LineAssumption
    <3> QED
      BY <2>1, <2>5, <3>1, LineAssumption DEF Fragment
  <2>7. /\ b \in Seq(Line) /\ Len(b) = 4 /\ LinesOf(f, b) /\ b[Len(b)].ends
        /\ \A i \in 1 .. Len(b) : b[i].to = Nowhere
    BY <2>1, <2>6, StubLines
  <2>8. PICK c, x, u, ps : /\ c = CodeOf(t) /\ x = Len(es) /\ ps = Popped(es)
                           /\ u = ReleasePage(Emit(t, q, b), RtOf(phase), q)
    OBVIOUS
  <2>9. Lead(CodeOf(t), es, f, f, b)
    BY <2>7 DEF Lead
  <2>10. Between(phase, u, ps, su, f)
    <3>1. Ample(t, q, Len(b)) /\ Len(es) > 0 /\ q = At(es, x) /\ f = Frag(es, x)
      BY <2>5, <2>7, <2>8 DEF Ample
    <3>2. b \in Seq(Line) /\ LinesOf(f, b) /\ b[Len(b)].ends
      BY <2>7
    <3>3. es \in Seq(ContextType) /\ su \in [Fragment -> Destination] /\ Building(phase, t, es, su, f)
      BY <2>5
    <3> QED
      BY ONLY <2>6, <2>8, <2>9, <3>1, <3>2, <3>3, WroteLast
  <2>11. ps = <<>>
    <3>1. ps \in Seq(ContextType) /\ Len(ps) = Len(es) - 1
      <4>1. es \in Seq(ContextType) /\ Len(es) > 0 /\ ps = Popped(es)
        BY <2>5, <2>8
      <4> QED
        BY ONLY <4>1, PoppedParts
    <3>2. Len(ps) = 0 /\ ps \in Seq(ContextType)
      BY <2>5, <3>1
    <3> QED
      BY ONLY <3>2, ContextParts
  <2>12. Building(phase, u, <<>>, su, f)
    BY <1>1, <2>10, <2>11, BetweenBuilding
  <2>13. pool' = u /\ start' = su /\ fragments' = f /\ contexts' = <<>> /\ phase' = phase
    <3>1. RtOf(phase) = "main"
      BY <1>1 DEF RtOf
    <3> QED
      BY <1>1, <1>5, <2>1, <2>8, <3>1, Zenon
  <2>14. contexts' \in Seq(ContextType)
    BY <1>5, <2>2
  <2> QED
    BY <1>1, <2>5, <2>12, <2>13, <2>14, StillBuilding
<1> QED
  BY <1>3, <1>4, <1>5

LEMMA EndElseKeeps ==
  ASSUME Inv, EndElse
  PROVE  Inv'
<1>1. contexts # <<>> /\ Top.table = 0 /\ Top.kind = "else"
  BY DEF EndElse, Busy
<1>2. Types /\ Building(phase, pool, contexts, start, fragments)
  BY <1>1, Compiling
<1>3. PICK p, f, x, rt, a, y, ps : /\ p = Top.page /\ f = Top.frag /\ x = Len(contexts) /\ rt = "main"
                                   /\ a = <<Operation(f)>> /\ y = x - 1 /\ ps = Popped(contexts)
  OBVIOUS
<1>4. /\ Len(contexts) > 0 /\ p = At(contexts, x) /\ f = Frag(contexts, x)
      /\ Table(contexts, x) = 0 /\ KindOf(contexts, x) = "else"
      /\ contexts \in Seq(ContextType) /\ start \in [Fragment -> Destination] /\ fragments \in Nat
      /\ PopContext = ps
  BY <1>1, <1>2, <1>3, Names
<1>5. rt = RtOf(phase) /\ phase # "loading"
  BY <1>1, <1>2, <1>3, <1>4, Names
<1>6. PICK e \in EmitOp(pool, rt, p, f, a) :
        \/ ~e.ok /\ Throw(e)
        \/ /\ e.ok
           /\ LET back == Location(e.pool, Parent.page, Parent.frag)
              IN  pool' = ReleasePage(Emit(e.pool, e.page, <<Final(Pointer(Top.frag, back))>>), rt, e.page)
           /\ contexts' = PopContext
           /\ UNCHANGED <<phase, start, fragments>>
  BY <1>3, Zenon DEF EndElse
<1>7. f \in Fragment
  BY <1>2, <1>3, <1>4, Innermost
<1>8. Nowhere \in Destination
  BY DEF Destination
<1>9. a \in Seq(Line) /\ Len(a) = 1 /\ LinesOf(f, a) /\ \A i \in 1 .. Len(a) : a[i].to = Nowhere
  <2>1. PICK z : z = Operation(f)
    OBVIOUS
  <2>2. z \in Line /\ z.of = f /\ z.to = Nowhere
    BY <1>7, <1>8, <2>1, LineKinds
  <2>3. a = <<z>>
    BY <1>3, <2>1
  <2>4. a \in Seq(Line) /\ Len(a) = 1 /\ LinesOf(f, a) /\ a[1] = z
    BY ONLY <1>7, <1>8, <2>2, <2>3, OneLine
  <2> QED
    BY <2>2, <2>4
<1>10. Emits(phase, pool, contexts, start, fragments, a, e)
  <2>1. Len(a) <= Threshold
    BY <1>9, LineAssumption
  <2> QED
    BY ONLY <1>2, <1>3, <1>4, <1>5, <1>9, <2>1, OpWritten, e \in EmitOp(pool, rt, p, f, a)
<1>11. e.page \in Page /\ Building(phase, e.pool, PageSet(contexts, Len(contexts), e.page), start, fragments)
  BY <1>10 DEF Emits
<1>12. CASE ~e.ok /\ Throw(e)
  BY <1>1, <1>11, <1>12, ThrowFails
<1>13. CASE /\ e.ok
            /\ LET back == Location(e.pool, Parent.page, Parent.frag)
               IN  pool' = ReleasePage(Emit(e.pool, e.page, <<Final(Pointer(Top.frag, back))>>), rt, e.page)
            /\ contexts' = PopContext
            /\ UNCHANGED <<phase, start, fragments>>
  <2>1. PICK q, s, es, l : /\ q = e.page /\ s = e.pool /\ es = PageSet(contexts, x, q)
                           /\ l = Location(s, At(es, y), Frag(es, y))
    OBVIOUS
  <2>2. /\ es \in Seq(ContextType) /\ Len(es) = Len(contexts) /\ KindOf(es, x) = "else"
        /\ At(es, x) = q /\ Frag(es, x) = f /\ Len(es) > 0 /\ Building(phase, s, es, start, fragments)
    <3>1. PageIsSet(contexts, es, x, q)
      BY ONLY <1>3, <1>4, <1>11, <2>1, OnPage
    <3> QED
      BY <1>3, <1>4, <1>11, <2>1, <3>1 DEF PageIsSet
  <2>3. Popped(es) = ps
    BY <1>3, <1>4, <1>11, <2>1, SetPopped
  <2>4. Around(contexts, y, ps)
    <3>1. Shape(phase, contexts) /\ KindOf(contexts, Len(contexts)) \in {"else", "target"} /\ y = Len(contexts) - 1
      BY <1>2, <1>3, <1>4 DEF Building
    <3> QED
      BY ONLY <1>3, <1>4, <3>1, ParentParts
  <2>5. Around(es, y, ps)
    <3>1. Shape(phase, es) /\ KindOf(es, Len(es)) \in {"else", "target"} /\ y = Len(es) - 1 /\ ps = Popped(es)
      BY <1>3, <2>2, <2>3 DEF Building
    <3> QED
      BY ONLY <2>2, <3>1, ParentParts
  <2>6. Parent.page = At(es, y) /\ Parent.frag = Frag(es, y)
    <3>1. Parent.page = At(contexts, y) /\ Parent.frag = Frag(contexts, y)
      BY <1>3 DEF Parent, At, Frag
    <3> QED
      BY <2>4, <2>5, <3>1 DEF Around
  <2>7. PICK b : b = <<Final(Pointer(f, l))>>
    OBVIOUS
  <2>8. pool' = ReleasePage(Emit(s, q, b), rt, q)
    BY <1>3, <1>13, <2>1, <2>6, <2>7, Zenon
  <2>9. l \in Destination
    <3>1. y \in 1 .. Len(es)
      BY <2>5 DEF Around
    <3>2. PICK p2, g : p2 = At(es, y) /\ g = Frag(es, y)
      OBVIOUS
    <3>3. p2 \in Page /\ g \in Fragment /\ s \in PoolType /\ l = Location(s, p2, g)
      BY <2>1, <2>2, <3>1, <3>2, ContextParts DEF Building, Storage, Placed
    <3> QED
      BY <3>3, LocationParts
  <2>10. b \in Seq(Line) /\ Len(b) = 1 /\ LinesOf(f, b) /\ b[1].to = l /\ b[1].ends
    <3>1. PICK z : z = Final(Pointer(f, l))
      OBVIOUS
    <3>2. z \in Line /\ z.of = f /\ z.to = l /\ z.ends
      BY <1>7, <2>9, <3>1, LineKinds
    <3>3. b = <<z>>
      BY <2>7, <3>1
    <3>4. b \in Seq(Line) /\ Len(b) = 1 /\ LinesOf(f, b) /\ b[1] = z
      BY ONLY <1>7, <2>9, <3>2, <3>3, OneLine
    <3> QED
      BY <3>2, <3>4
  <2>11. Lead(CodeOf(s), es, fragments, f, b)
    <3>1. f = Frag(es, Len(es)) /\ Len(b) = 1 /\ b[1].to = l
      BY <1>3, <2>2, <2>10
    <3>2. l = Location(s, At(es, y), Frag(es, y))
      BY <2>1
    <3> QED
      BY ONLY <2>2, <2>5, <3>1, <3>2, BackLeads
  <2>12. Ample(s, q, Len(b))
    <3>1. Ample(s, q, 2 + Table(es, x)) /\ Table(es, x) \in Nat /\ s \in PoolType
      <4>1. x = Len(es) /\ q = At(es, x) /\ f = Frag(es, x)
        BY <1>3, <2>2
      <4> QED
        BY ONLY <2>2, <4>1, Innermost
    <3>2. FreeLines(s, q) \in Int
      BY <1>11, <2>1, <3>1, PoolParts
    <3>3. PICK m, k : m = FreeLines(s, q) /\ k = Table(es, x)
      OBVIOUS
    <3>4. m \in Int /\ k \in Nat /\ (~Torn(s) => m >= 2 + k)
      BY <3>1, <3>2, <3>3 DEF Ample
    <3>5. ~Torn(s) => m >= 1
      BY ONLY <3>4
    <3> QED
      BY <2>10, <3>3, <3>5 DEF Ample
  <2>13. PICK t : t = pool'
    OBVIOUS
  <2>14. Between(phase, t, ps, start, fragments)
    <3>1. t = ReleasePage(Emit(s, q, b), RtOf(phase), q) /\ ps = Popped(es)
      BY <1>5, <2>3, <2>8, <2>13
    <3>2. x = Len(es) /\ q = At(es, x) /\ f = Frag(es, x)
      BY <1>3, <2>2
    <3>3. b \in Seq(Line) /\ LinesOf(f, b) /\ b[Len(b)].ends
      BY <2>10
    <3> QED
      BY ONLY <1>4, <2>2, <2>11, <2>12, <3>1, <3>2, <3>3, WroteLast
  <2>15. Building(phase, t, ps, start, fragments)
    BY <1>5, <2>14, BetweenBuilding
  <2>16. ps \in Seq(ContextType)
    BY <2>4 DEF Around
  <2> QED
    BY <1>1, <1>2, <1>4, <1>13, <2>13, <2>15, <2>16, StillBuilding, IsBuilding DEF Types
<1> QED
  BY <1>6, <1>12, <1>13

\* The pointer of a table is written, once the target is done.
LEMMA TableKeeps ==
  ASSUME Inv, contexts # <<>>, Top.kind = "target", NEW e, NEW t, t = ReleasePage(e.pool, "main", e.page),
         NEW ps, ps = Popped(contexts), start' \in [Fragment -> Destination],
         NEW su, su = start', NEW l \in Destination, l = Entry(su, Top.frag) \/ l = Nowhere,
         Between(phase, t, ps, su, fragments), EndTable(e, l), UNCHANGED <<phase, fragments>>
  PROVE  Inv'
<1>1. Types /\ Building(phase, pool, contexts, start, fragments)
  BY Compiling
<1>2. PICK x, y, f, g, p, k, b, es, u : /\ x = Len(contexts) /\ y = x - 1 /\ f = Top.frag
                                  /\ g = Frag(ps, y) /\ p = At(ps, y) /\ k = Table(ps, y) - 1
                                  /\ b = <<IF Table(ps, y) = 1 THEN Final(Pointer(g, l)) ELSE Pointer(g, l)>>
                                  /\ es = TableSet(ps, y, k) /\ u = Emit(t, p, b)
  OBVIOUS
<1>3. /\ Len(contexts) > 0 /\ KindOf(contexts, x) = "target" /\ f = Frag(contexts, x)
      /\ contexts \in Seq(ContextType) /\ fragments \in Nat /\ PopContext = ps
  BY <1>1, <1>2, Names
<1>4. phase # "loading"
  BY <1>1, <1>2, <1>3, Names
<1>5. Shape(phase, contexts)
  BY <1>1 DEF Building
<1>6. Around(contexts, y, ps)
  <2>1. KindOf(contexts, Len(contexts)) \in {"else", "target"} /\ y = Len(contexts) - 1
    BY <1>2, <1>3
  <2> QED
    BY ONLY <1>3, <1>5, <2>1, ParentParts, ps = Popped(contexts)
<1>7. /\ ps \in Seq(ContextType) /\ Len(ps) = y /\ Len(ps) > 0 /\ KindOf(ps, y) \in {"function", "else"}
      /\ Table(ps, y) > 0 /\ Frag(contexts, y) = g /\ At(contexts, y) = p /\ Table(contexts, y) = Table(ps, y)
  <2>1. y \in 1 .. Len(contexts)
    BY <1>6 DEF Around
  <2> QED
    BY <1>2, <1>3, <1>6, <2>1 DEF Around
<1>8. f \in Fragment /\ f <= fragments /\ \A j \in 1 .. Len(ps) : Frag(ps, j) # f
  <2>1. f \in Fragment /\ f <= fragments
    <3>1. PICK q : q = At(contexts, x)
      OBVIOUS
    <3> QED
      BY ONLY <1>1, <1>2, <1>3, <3>1, Innermost
  <2>2. \A j \in 1 .. Len(ps) : Frag(ps, j) # Frag(contexts, Len(contexts))
    BY <1>3, <1>5, PoppedShape
  <2> QED
    BY <1>2, <1>3, <2>1, <2>2
<1>9. Building(phase, t, ps, su, fragments)
  BY <1>4, BetweenBuilding
<1>10. Len(b) = 1 /\ b[1].to = l
  <2>1. g \in Fragment
    <3>1. y \in 1 .. Len(ps)
      BY <1>6, <1>7 DEF Around
    <3> QED
      BY <1>2, <1>7, <3>1, ContextParts
  <2>2. PICK z : z = IF Table(ps, y) = 1 THEN Final(Pointer(g, l)) ELSE Pointer(g, l)
    OBVIOUS
  <2>3. z.to = l
    BY <2>1, <2>2, LineKinds
  <2>4. b = <<z>>
    BY <1>2, <2>2
  <2> QED
    BY <2>3, <2>4
<1>11. Lead(CodeOf(t), ps, fragments, g, b)
  <2>1. l = Entry(su, f) \/ l = Nowhere
    BY <1>2
  <2> QED
    BY ONLY <1>3, <1>7, <1>8, <1>10, <2>1, EntryLeads, Between(phase, t, ps, su, fragments)
<1>12. es \in Seq(ContextType) /\ Building(phase, u, es, su, fragments)
  <2>1. su \in [Fragment -> Destination] /\ y = Len(ps)
    BY <1>7
  <2> QED
    BY ONLY <1>2, <1>3, <1>7, <1>9, <1>11, <2>1, PointerWritten, l \in Destination
<1>13. pool' = u /\ contexts' = es
  <2>1. Parent.page = p /\ Parent.frag = g /\ Parent.table = Table(ps, y)
    <3>1. Parent.page = At(contexts, y) /\ Parent.frag = Frag(contexts, y) /\ Parent.table = Table(contexts, y)
      BY <1>2 DEF Parent, At, Frag, Table
    <3> QED
      BY <1>7, <3>1
  <2>2. pool' = u
    BY <1>2, <2>1, Zenon DEF EndTable
  <2>3. contexts' = [ps EXCEPT ![y].table = ps[y].table - 1]
    BY <1>2, <1>3, Zenon DEF EndTable
  <2>4. es = [ps EXCEPT ![y].table = ps[y].table - 1]
    BY <1>2, Zenon DEF TableSet, Table
  <2> QED
    BY <2>2, <2>3, <2>4
<1> QED
  BY <1>1, <1>12, <1>13, StillBuilding, IsBuilding DEF Types

LEMMA EndTargetKeeps ==
  ASSUME Inv, EndTarget
  PROVE  Inv'
<1>1. contexts # <<>> /\ Top.table = 0 /\ Top.kind = "target"
  BY DEF EndTarget, Busy
<1>2. Types /\ Building(phase, pool, contexts, start, fragments)
  BY <1>1, Compiling
<1>3. PICK p, f, x, rt, b, ps : /\ p = Top.page /\ f = Top.frag /\ x = Len(contexts) /\ rt = "main"
                                /\ b = <<Final(Operation(f))>> /\ ps = Popped(contexts)
  OBVIOUS
<1>4. /\ Len(contexts) > 0 /\ p = At(contexts, x) /\ f = Frag(contexts, x)
      /\ Table(contexts, x) = 0 /\ KindOf(contexts, x) = "target"
      /\ contexts \in Seq(ContextType) /\ start \in [Fragment -> Destination] /\ fragments \in Nat
  BY <1>1, <1>2, <1>3, Names
<1>5. rt = RtOf(phase) /\ phase # "loading"
  BY <1>1, <1>2, <1>3, <1>4, Names
<1>6. f \in Fragment
  BY <1>2, <1>3, <1>4, Innermost
<1>7. start[f] = Entry(start, f) /\ Entry(start, f) \in Destination
  BY <1>4, <1>6 DEF Entry
<1>8. ASSUME NEW e \in EmitOp(pool, rt, p, f, b), ~e.ok, Throw(e)
      PROVE  Inv'
  <2>1. Finishes(phase, pool, contexts, start, fragments, e)
    BY ONLY <1>2, <1>3, <1>4, <1>5, Finished, e \in EmitOp(pool, rt, p, f, b)
  <2> QED
    BY <1>1, <1>8, <2>1, ThrowFails DEF Finishes
<1>9. ASSUME NEW e \in EmitOp(pool, rt, p, f, b), e.ok, EndTable(e, start[f]),
             UNCHANGED <<phase, start, fragments>>
      PROVE  Inv'
  <2>1. Finishes(phase, pool, contexts, start, fragments, e)
    BY ONLY <1>2, <1>3, <1>4, <1>5, Finished, e \in EmitOp(pool, rt, p, f, b)
  <2>2. PICK t, su, l : t = ReleasePage(e.pool, "main", e.page) /\ su = start' /\ l = start[f]
    OBVIOUS
  <2>3. Between(phase, t, ps, su, fragments)
    BY <1>3, <1>5, <1>9, <2>1, <2>2 DEF Finishes
  <2>4. su \in [Fragment -> Destination] /\ l \in Destination /\ l = Entry(su, Top.frag) /\ EndTable(e, l)
    BY <1>3, <1>4, <1>7, <1>9, <2>2
  <2> QED
    BY <1>1, <1>3, <1>9, <2>2, <2>3, <2>4, TableKeeps
<1>10. ASSUME start[f] = Location(pool, p, f), EndTable(Emitted(pool, p), Nowhere),
              start' = [start EXCEPT ![f] = Nowhere], UNCHANGED <<phase, fragments>>
       PROVE  Inv'
  <2>1. PICK t, su, e, l : /\ t = ReleasePage(pool, rt, p) /\ su = start' /\ e = Emitted(pool, p) /\ l = Nowhere
    OBVIOUS
  <2>2. su \in [Fragment -> Destination] /\ Between(phase, t, ps, su, fragments)
    <3>1. Entry(start, f) = Location(pool, p, f) /\ t = ReleasePage(pool, RtOf(phase), p)
      BY <1>5, <1>7, <1>10, <2>1
    <3>2. su = [start EXCEPT ![f] = Nowhere]
      BY <1>10, <2>1
    <3> QED
      BY ONLY <1>2, <1>3, <1>4, <3>1, <3>2, Withdrawn
  <2>3. t = ReleasePage(e.pool, "main", e.page)
    BY <1>3, <2>1 DEF Emitted
  <2>4. l \in Destination /\ EndTable(e, l) /\ su = start'
    BY <1>10, <2>1 DEF Destination
  <2> QED
    BY <1>1, <1>3, <1>10, <2>1, <2>2, <2>3, <2>4, TableKeeps
<1>11. \/ \E e \in EmitOp(pool, rt, p, f, b) :
            \/ ~e.ok /\ Throw(e)
            \/ e.ok /\ EndTable(e, start[f]) /\ UNCHANGED <<phase, start, fragments>>
       \/ /\ start[f] = Location(pool, p, f)
          /\ EndTable(Emitted(pool, p), Nowhere)
          /\ start' = [start EXCEPT ![f] = Nowhere]
          /\ UNCHANGED <<phase, fragments>>
  BY <1>3, Zenon DEF EndTarget
<1> QED
  BY ONLY <1>8, <1>9, <1>10, <1>11, Zenon
-----------------------------------------------------------------------------
(* The invariant.                                                          *)

LEMMA InitInv ==
  ASSUME Init
  PROVE  Inv
<1> DEFINE s == NewPool
<1>1. s \in PoolType
  BY EmptySeq DEF NewPool, PoolType
<1>2. /\ \A rt \in Runtime : /\ Open(s, rt) = <<>> /\ Full(s, rt) = <<>>
                             /\ Count(s, rt) = 0 /\ Total(s, rt) = 0
      /\ Pages(s) = {} /\ Returned(s) = <<>>
      /\ \A p \in Page : CodeOf(s)[p] = <<>>
  BY DEF NewPool, Open, Full, Count, Total, Pages, Returned, CodeOf
<1> HIDE DEF s
<1>3. \A p \in Page : Size(CodeOf(s), p) = 0
  BY <1>2, EmptySeq DEF Size
<1>4. \A l \in ListName : Lists(s)[l] = <<>>
  BY <1>2 DEF Lists, Runtime
<1>5. DOMAIN <<>> = {} /\ Len(<<>>) = 0 /\ 1 .. 0 = {}
  OBVIOUS
<1>6. Apart(Lists(s)) /\ \A p : ~Listed(Lists(s), p)
  BY <1>4, <1>5 DEF Apart, Listed
<1>7. Accounted(s)
  BY <1>2, <1>5 DEF Accounted
<1>8. Allocated(s)
  <2>1. 0 \in 0 .. MaxPages
    BY LineAssumption
  <2> QED
    BY <1>2, <1>3, <1>5, <2>1 DEF Allocated
<1>9. Lined(s)
  BY <1>2, <1>5 DEF Lined
<1>10. Placed(s, {})
  BY <1>1, <1>6, <1>7, <1>8, <1>9 DEF Placed
<1>11. /\ phase = "loading" /\ pool = s /\ contexts = <<>> /\ fragments = 0
       /\ start = [f \in Fragment |-> Nowhere]
  BY DEF Init, s
<1>12. Storage("loading", s, {})
  BY <1>2, <1>3, <1>10 DEF Storage, OtherRt, Runtime
<1>13. Held(<<>>) = {}
  BY <1>5 DEF Held
<1>14. \A f \in Fragment : Entry(start, f) = Nowhere
  BY <1>11 DEF Entry
<1>15. Sound(CodeOf(s), <<>>, start, 0)
  BY <1>3, <1>5, <1>14 DEF Sound, Joined, Begun, Numbered, Unwritten
<1>16. Shape("loading", <<>>)
  BY <1>5 DEF Shape, Separate, Nesting
<1>17. NoTemp(s) /\ Count(s, RtOf("loading")) = 0
  BY <1>2 DEF NoTemp, RtOf, Runtime
<1>18. Room(s, <<>>) /\ Known(<<>>, start)
  BY <1>5, <1>14 DEF Room, Known
<1>19. Building(phase, pool, contexts, start, fragments)
  BY <1>5, <1>11, <1>12, <1>13, <1>15, <1>16, <1>17, <1>18 DEF Building
<1>20. Types
  <2>1. start \in [Fragment -> Destination]
    BY <1>11 DEF Destination
  <2>2. 0 \in 0 .. MaxFragments
    BY LineAssumption
  <2> QED
    BY <1>11, <2>1, <2>2, EmptySeq DEF Types
<1> QED
  BY <1>11, <1>19, <1>20 DEF Inv

\* Between two fragments nothing is held, written on, or in the temporary runtime.
LEMMA AtRest ==
  ASSUME NEW ph, NEW s, NEW st, NEW n, Building(ph, s, <<>>, st, n)
  PROVE  /\ Placed(s, {}) /\ NoTemp(s)
         /\ Count(s, "main") = 0 /\ Count(s, "temp") = 0
<1>1. Held(<<>>) = {} /\ Len(<<>>) = 0
  BY EmptySeq DEF Held
<1>2. Placed(s, {}) /\ NoTemp(s) /\ Count(s, RtOf(ph)) = 0 /\ Count(s, OtherRt(ph)) = 0
  BY <1>1 DEF Building, Storage
<1> QED
  BY <1>2 DEF RtOf, OtherRt

LEMMA ProceedKeeps ==
  ASSUME Inv, Proceed
  PROVE  Inv'
<1>1. /\ contexts = <<>> /\ phase \in {"loading", "linking", "compiling"}
      /\ phase' \in {"linking", "compiling", "live"}
      /\ pool' = pool /\ contexts' = contexts /\ start' = start /\ fragments' = fragments
  BY DEF Proceed, Idle
<1>2. Types /\ Building(phase, pool, <<>>, start, fragments)
  BY <1>1, InvBuilding
<1>3. /\ Placed(pool, {}) /\ NoTemp(pool)
      /\ Count(pool, "main") = 0 /\ Count(pool, "temp") = 0
  BY <1>2, AtRest
<1>4. Held(<<>>) = {} /\ Len(<<>>) = 0
  BY EmptySeq DEF Held
<1>5. PICK ph : ph = phase'
  OBVIOUS
<1>6. ph # "loading"
  BY <1>1, <1>5
<1>7. Storage(ph, pool, {}) /\ Count(pool, RtOf(ph)) = 0
  BY <1>3, <1>6 DEF Storage, OtherRt, RtOf
<1>8. Shape(ph, <<>>)
  BY <1>2 DEF Building, Shape
<1>9. Building(ph, pool, <<>>, start, fragments)
  BY <1>2, <1>3, <1>4, <1>6, <1>7, <1>8 DEF Building
<1>10. Types'
  BY <1>1, <1>2 DEF Types
<1> QED
  BY <1>1, <1>5, <1>9, <1>10 DEF Inv

\* The pool of Release.
Freed(s) == [s EXCEPT !.allocated = @ \ ToSet(s.released), !.released = <<>>]

LEMMA FreedRecord ==
  ASSUME NEW s \in PoolType, NEW t, t = Freed(s)
  PROVE  /\ t \in PoolType /\ Pages(t) \subseteq Pages(s) /\ Returned(t) = <<>>
         /\ CodeOf(t) = CodeOf(s) /\ Torn(t) = Torn(s) /\ SameLists(s, t)
         /\ \A p \in Page : Capacity(t, p) = Capacity(s, p)
<1>1. PICK a : a = s.allocated \ ToSet(s.released)
  OBVIOUS
<1>2. t = [s EXCEPT !.allocated = a, !.released = <<>>]
  BY <1>1, Zenon DEF Freed
<1>3. a \subseteq s.allocated
  BY <1>1
<1>4. <<>> \in Seq(Page)
  BY EmptySeq
<1> QED
  BY <1>2, <1>3, <1>4 DEF PoolType, SameLists, Open, Full, Count, Total, Pages, Returned, Capacity,
                         CodeOf, Torn

LEMMA FreedEnds ==
  ASSUME NEW s, Placed(s, {}), NoTemp(s), Count(s, "temp") = 0, Count(s, "main") \in {0, 1},
         NEW u, u = ReleaseRuntime(s, "main"), NEW t, t = Freed(u)
  PROVE  Ended(t)
<1>1. s \in PoolType /\ "main" \in Runtime /\ "temp" \in Runtime
  BY DEF Placed, Runtime
<1>2. /\ u \in PoolType /\ Pages(u) = Pages(s) /\ Torn(u) = Torn(s)
      /\ \A p \in Page : Capacity(u, p) = Capacity(s, p)
      /\ \A p \in Page : Size(CodeOf(u), p) \in {0, Size(CodeOf(s), p)}
      /\ \A r \in Runtime : /\ Open(u, r) = (IF r = "main" THEN <<>> ELSE Open(s, r))
                            /\ Full(u, r) = (IF r = "main" THEN <<>> ELSE Full(s, r))
                            /\ Count(u, r) = Count(s, r)
  BY <1>1, RuntimeReleased
<1>3. /\ t \in PoolType /\ Pages(t) \subseteq Pages(u) /\ Returned(t) = <<>>
      /\ CodeOf(t) = CodeOf(u) /\ Torn(t) = Torn(u) /\ SameLists(u, t)
      /\ \A p \in Page : Capacity(t, p) = Capacity(u, p)
  BY <1>2, FreedRecord
<1>4. /\ Open(t, "main") = <<>> /\ Full(t, "main") = <<>>
      /\ Open(t, "temp") = <<>> /\ Full(t, "temp") = <<>>
      /\ Count(t, "main") = Count(s, "main") /\ Count(t, "temp") = 0
  BY <1>1, <1>2, <1>3 DEF SameLists, NoTemp
<1>5. \A l \in ListName : Lists(t)[l] = <<>>
  BY <1>3, <1>4 DEF Lists
<1>6. ASSUME ~Torn(t), NEW p \in Pages(t)
      PROVE  Size(CodeOf(t), p) <= Capacity(t, p)
  <2>1. p \in Page /\ p \in Pages(s)
    BY <1>1, <1>2, <1>3, PoolParts
  <2>2. Size(CodeOf(s), p) <= Capacity(s, p) /\ Capacity(s, p) \in Nat
    BY <1>1, <1>2, <1>3, <1>6, <2>1, PoolParts DEF Placed, Lined
  <2>3. Capacity(t, p) = Capacity(s, p) /\ Size(CodeOf(t), p) \in {0, Size(CodeOf(s), p)}
    BY <1>2, <1>3, <2>1
  <2> QED
    BY <2>2, <2>3
<1> QED
  BY <1>3, <1>4, <1>5, <1>6 DEF Ended

LEMMA ReleaseKeeps ==
  ASSUME Inv, Release
  PROVE  Inv'
<1>1. PICK u : u = ReleaseRuntime(pool, "main")
  OBVIOUS
<1>2. /\ phase \in {"live", "failed"} /\ contexts = <<>> /\ phase' = "released"
      /\ contexts' = contexts /\ start' = start /\ fragments' = fragments
  BY DEF Release, Idle
<1>3. pool' = Freed(u)
  BY <1>1, Zenon DEF Release, Freed
<1>4. /\ Placed(pool, {}) /\ NoTemp(pool)
      /\ Count(pool, "main") \in {0, 1} /\ Count(pool, "temp") = 0
  <2>1. CASE phase = "failed"
    BY <2>1 DEF Inv, Failed
  <2>2. CASE phase = "live"
    <3>1. Building(phase, pool, <<>>, start, fragments)
      BY <1>2, <2>2, InvBuilding
    <3> QED
      BY <3>1, AtRest
  <2> QED
    BY <1>2, <2>1, <2>2
<1>5. Ended(pool')
  BY <1>1, <1>3, <1>4, FreedEnds
<1>6. Types'
  BY <1>2 DEF Inv, Types
<1> QED
  BY <1>2, <1>5, <1>6 DEF Inv

LEMMA NextKeeps ==
  ASSUME Inv, [Next]_vars
  PROVE  Inv'
<1>1. CASE BeginExpression
  BY <1>1, BeginExpressionKeeps
<1>2. CASE EndExpression
  BY <1>2, EndExpressionKeeps
<1>3. CASE LinkImport
  BY <1>3, LinkImportKeeps
<1>4. CASE BeginFunction
  BY <1>4, BeginFunctionKeeps
<1>5. CASE EndFunction
  BY <1>5, EndFunctionKeeps
<1>6. ASSUME NEW n \in {0, MaxImmediates}, EmitOperation(n)
      PROVE  Inv'
  BY <1>6, EmitOperationKeeps
<1>7. CASE CompileError
  BY <1>7, CompileErrorKeeps
<1>8. CASE BeginElse
  BY <1>8, BeginElseKeeps
<1>9. CASE EndElse
  BY <1>9, EndElseKeeps
<1>10. ASSUME NEW targets \in {0, MaxTargets}, BranchTable(targets)
       PROVE  Inv'
  BY <1>10, BranchTableKeeps
<1>11. CASE BeginTarget
  BY <1>11, BeginTargetKeeps
<1>12. CASE EndTarget
  BY <1>12, EndTargetKeeps
<1>13. CASE Proceed
  BY <1>13, ProceedKeeps
<1>14. CASE Release
  BY <1>14, ReleaseKeeps
<1>15. ASSUME NEW slots \in {0, SelectSlots}, EmitUnchecked(slots)
       PROVE  Inv'
  BY <1>15, EmitUncheckedKeeps
<1>16. CASE UNCHANGED vars
  BY <1>16, Zenon DEF vars, Inv, Types
<1> QED
  BY <1>1, <1>2, <1>3, <1>4, <1>5, <1>6, <1>7, <1>8, <1>9, <1>10, <1>11, <1>12, <1>13, <1>14, <1>15,
     <1>16 DEF Next, Step

\* The inductive invariant: what every state of the pages and of the compilation
\* is, from m3_LoadModule to the end of the environment.
THEOREM Invariant == Spec => []Inv
<1>1. Init => Inv
  BY InitInv
<1>2. Inv /\ [Next]_vars => Inv'
  BY NextKeeps
<1> QED
  BY <1>1, <1>2, PTL DEF Spec

-----------------------------------------------------------------------------
(* What it says.                                                           *)

\* In every state but the last the lists are Placed, in some way.
LEMMA IsPlaced ==
  ASSUME Inv, phase # "released"
  PROVE  \/ phase = "failed" /\ contexts = <<>> /\ Failed(pool)
         \/ /\ phase \notin {"failed", "released"}
            /\ Building(phase, pool, contexts, start, fragments)
            /\ Placed(pool, Held(contexts))
  BY DEF Inv, Building, Storage

LEMMA PoolTyped ==
  ASSUME Inv
  PROVE  pool \in PoolType /\ \A rt \in Runtime : Count(pool, rt) \in Nat
<1>1. CASE phase = "released"
  BY <1>1 DEF Inv, Ended, Runtime
<1>2. CASE phase = "failed"
  BY <1>2 DEF Inv, Failed, Placed, Runtime
<1>3. CASE phase \notin {"failed", "released"}
  <2>1. Types /\ Building(phase, pool, contexts, start, fragments)
    BY <1>3, InvBuilding
  <2>2. /\ pool \in PoolType /\ Count(pool, OtherRt(phase)) = 0
        /\ Count(pool, RtOf(phase)) = Len(contexts)
    BY <2>1 DEF Building, Storage, Placed
  <2>3. Len(contexts) \in Nat
    BY <2>1, ContextParts DEF Types
  <2> QED
    BY <2>2, <2>3 DEF RtOf, OtherRt, Runtime
<1> QED
  BY <1>1, <1>2, <1>3

LEMMA InvTypeOK ==
  ASSUME Inv
  PROVE  TypeOK
<1>1. pool \in PoolType /\ \A rt \in Runtime : pool.active[rt] \in Nat
  BY PoolTyped DEF Count
<1>2. pool.active \in [Runtime -> Nat]
  BY <1>1 DEF PoolType
<1>3. /\ pool.allocated \subseteq Page /\ pool.lines \in [Page -> Nat]
      /\ pool.code \in [Page -> Seq(Line)]
      /\ pool.open \in [Runtime -> Seq(Page)] /\ pool.full \in [Runtime -> Seq(Page)]
      /\ pool.total \in [Runtime -> Nat] /\ pool.released \in Seq(Page)
      /\ pool.torn \in BOOLEAN
  BY <1>1 DEF PoolType
<1>4. /\ phase \in {"loading", "linking", "compiling", "live", "failed", "released"}
      /\ contexts \in Seq([frag : Fragment, kind : {"function", "expression", "else", "target"},
                           page : Page, table : 0 .. MaxTargets + 1])
      /\ start \in [Fragment -> Destination] /\ fragments \in 0 .. MaxFragments
  BY DEF Inv, Types, ContextType, Kind, Tables
<1> QED
  BY <1>2, <1>3, <1>4 DEF TypeOK

\* The counts and lists of the runtimes, the code of the pages, the contexts and
\* the entries stay what the other invariants take them for.
THEOREM TypesHold == Spec => []TypeOK
<1>1. Inv => TypeOK
  BY InvTypeOK
<1> QED
  BY <1>1, Invariant, PTL

LEMMA InvPagesAccounted ==
  ASSUME Inv
  PROVE  PagesAccounted
<1>1. ASSUME phase # "released"
      PROVE  Accounted(pool)
  BY <1>1, IsPlaced DEF Failed, Placed
<1> QED
  BY <1>1 DEF PagesAccounted, Accounted, Open, Full, Count, Total

\* ReleaseCodePage's assertion (m3_env.c): whatever is acquired, bridged, thrown
\* away half-written or taken back from the environment, the pages a runtime
\* counts are the ones on its two lists and the ones being written.
THEOREM PagesAreAccounted == Spec => []PagesAccounted
<1>1. Inv => PagesAccounted
  BY InvPagesAccounted
<1> QED
  BY <1>1, Invariant, PTL

\* c has the members of a and of b, once each.
Unites(a, b, c) ==
  /\ c \in Seq(Page) /\ IsInjective(c)
  /\ \A i \in DOMAIN c : \/ \E j \in DOMAIN a : c[i] = a[j]
                         \/ \E j \in DOMAIN b : c[i] = b[j]

LEMMA InjectiveConcat ==
  ASSUME NEW a \in Seq(Page), NEW b \in Seq(Page), IsInjective(a), IsInjective(b),
         \A i \in DOMAIN a : \A j \in DOMAIN b : a[i] # b[j],
         NEW c, c = a \o b
  PROVE  Unites(a, b, c)
<1>1. PICK m \in Nat, n \in Nat : m = Len(a) /\ n = Len(b)
  OBVIOUS
<1>2. c \in Seq(Page) /\ Len(c) = m + n
  BY <1>1
<1>3. DOMAIN a = 1 .. m /\ DOMAIN b = 1 .. n /\ DOMAIN c = 1 .. m + n
  BY <1>1, <1>2
<1>4. \A i \in 1 .. m + n : c[i] = IF i <= m THEN a[i] ELSE b[i - m]
  BY <1>1, <1>3
<1>5. ASSUME NEW i \in 1 .. m + n
      PROVE  \/ i <= m /\ i \in 1 .. m /\ c[i] = a[i]
             \/ ~(i <= m) /\ i - m \in 1 .. n /\ c[i] = b[i - m]
  <2>0. c[i] = IF i <= m THEN a[i] ELSE b[i - m]
    BY ONLY <1>4, i \in 1 .. m + n
  <2>1. CASE i <= m
    <3>1. i \in 1 .. m
      BY <2>1
    <3>2. c[i] = a[i]
      BY ONLY <2>0, <2>1
    <3> QED
      BY ONLY <2>1, <3>1, <3>2
  <2>2. CASE ~(i <= m)
    <3>1. i - m \in 1 .. n
      BY <2>2
    <3>2. c[i] = b[i - m]
      BY ONLY <2>0, <2>2
    <3> QED
      BY ONLY <2>2, <3>1, <3>2
  <2> QED
    BY <2>1, <2>2
<1>6. ASSUME NEW i \in 1 .. m + n, NEW j \in 1 .. m + n, c[i] = c[j]
      PROVE  i = j
  <2>1. CASE i <= m /\ j <= m
    BY <1>3, <1>5, <1>6, <2>1 DEF IsInjective
  <2>2. CASE i <= m /\ ~(j <= m)
    BY <1>3, <1>5, <1>6, <2>2
  <2>3. CASE ~(i <= m) /\ j <= m
    BY <1>3, <1>5, <1>6, <2>3
  <2>4. CASE ~(i <= m) /\ ~(j <= m)
    <3>1. /\ i - m \in 1 .. n /\ c[i] = b[i - m]
          /\ j - m \in 1 .. n /\ c[j] = b[j - m]
      BY <1>5, <2>4
    <3>2. \A x, y \in 1 .. n : b[x] = b[y] => x = y
      BY <1>3 DEF IsInjective
    <3>3. i - m = j - m
      BY <1>6, <3>1, <3>2
    <3> QED
      BY <3>3
  <2> QED
    BY <2>1, <2>2, <2>3, <2>4
<1> QED
  BY <1>2, <1>3, <1>5, <1>6 DEF IsInjective, Unites

LEMMA InvOnePlace ==
  ASSUME Inv
  PROVE  OnePlace
<1> DEFINE L == Lists(pool)
           h == [i \in DOMAIN contexts |-> contexts[i].page]
<1>1. pool \in PoolType /\ contexts \in Seq(ContextType)
  BY PoolTyped DEF Inv, Types
<1>2. /\ Len(contexts) \in Nat /\ DOMAIN contexts = 1 .. Len(contexts)
      /\ \A i \in 1 .. Len(contexts) : h[i] = At(contexts, i) /\ h[i] \in Page
  <2>1. DOMAIN contexts = 1 .. Len(contexts) /\ \A i \in 1 .. Len(contexts) : h[i] = At(contexts, i)
    BY <1>1 DEF At
  <2> QED
    BY <1>1, <2>1, ContextParts
<1>3. h \in Seq(Page) /\ DOMAIN h = 1 .. Len(contexts)
  <2>1. h \in [1 .. Len(contexts) -> Page]
    BY <1>2
  <2> QED
    BY <1>2, <2>1
<1> HIDE DEF h
<1>4. /\ Apart(L) /\ IsInjective(h)
      /\ \A l \in ListName : \A i \in DOMAIN L[l] : \A j \in DOMAIN h : L[l][i] # h[j]
  <2>1. CASE phase = "released" \/ phase = "failed"
    <3>1. contexts = <<>>
      BY <2>1 DEF Inv
    <3>2. DOMAIN h = {} /\ DOMAIN <<>> = {}
      BY <1>3, <3>1
    <3>3. Apart(L)
      <4>1. CASE phase = "released"
        <5>1. \A l \in ListName : L[l] = <<>>
          BY <4>1 DEF Inv, Ended
        <5> HIDE DEF L
        <5> QED
          BY <3>2, <5>1 DEF Apart
      <4>2. CASE phase = "failed"
        BY <4>2 DEF Inv, Failed, Placed
      <4> QED
        BY <2>1, <4>1, <4>2
    <3> QED
      BY <3>2, <3>3 DEF IsInjective
  <2>2. CASE phase \notin {"failed", "released"}
    <3>1. Placed(pool, Held(contexts)) /\ Separate(contexts)
      BY <2>2, InvBuilding DEF Building, Storage, Shape
    <3>2. IsInjective(h)
      BY <1>2, <1>3, <3>1 DEF IsInjective, Separate
    <3>3. ASSUME NEW l \in ListName, NEW i \in DOMAIN L[l], NEW j \in DOMAIN h
          PROVE  L[l][i] # h[j]
      <4>1. h[j] \in Held(contexts)
        BY <1>2, <1>3 DEF Held
      <4>2. ~Listed(L, h[j])
        BY <3>1, <4>1 DEF Placed
      <4> HIDE DEF L
      <4> QED
        BY <4>2 DEF Listed
    <3> QED
      BY <3>1, <3>2, <3>3 DEF Placed
  <2> QED
    BY <2>1, <2>2
<1>5. /\ L["open"] = pool.open["main"] /\ L["full"] = pool.full["main"]
      /\ L["temp open"] = pool.open["temp"] /\ L["temp full"] = pool.full["temp"]
      /\ L["released"] = pool.released
  BY DEF Lists, ListName, Open, Full, Returned
<1>6. {"open", "full", "temp open", "temp full", "released"} = ListName
  BY DEF ListName
<1>7. \A l \in ListName : L[l] \in Seq(Page)
  BY <1>1, ListsOf
<1> HIDE DEF L
<1>8. \A l \in ListName : IsInjective(L[l])
  BY <1>4 DEF Apart, IsInjective
<1>9. \A l, m \in ListName : l # m => \A i \in DOMAIN L[l] : \A j \in DOMAIN L[m] : L[l][i] # L[m][j]
  BY <1>4 DEF Apart
<1>10. PICK a, b, c, d, e : a = L["open"] /\ b = L["full"] /\ c = L["temp open"] /\ d = L["temp full"]
                            /\ e = L["released"]
  OBVIOUS
<1>11. PICK ab, abc, abcd, abcde : ab = a \o b /\ abc = ab \o c /\ abcd = abc \o d /\ abcde = abcd \o e
  OBVIOUS
<1>12. /\ a \in Seq(Page) /\ b \in Seq(Page) /\ c \in Seq(Page) /\ d \in Seq(Page) /\ e \in Seq(Page)
       /\ IsInjective(a) /\ IsInjective(b) /\ IsInjective(c) /\ IsInjective(d) /\ IsInjective(e)
  BY <1>6, <1>7, <1>8, <1>10
<1> DEFINE Disjoint(x, y) == \A i \in DOMAIN x : \A j \in DOMAIN y : x[i] # y[j]
<1>13. /\ Disjoint(a, b) /\ Disjoint(a, c) /\ Disjoint(a, d) /\ Disjoint(a, e) /\ Disjoint(a, h)
       /\ Disjoint(b, c) /\ Disjoint(b, d) /\ Disjoint(b, e) /\ Disjoint(b, h)
       /\ Disjoint(c, d) /\ Disjoint(c, e) /\ Disjoint(c, h)
       /\ Disjoint(d, e) /\ Disjoint(d, h) /\ Disjoint(e, h)
  <2>1. /\ "open" # "full" /\ "open" # "temp open" /\ "open" # "temp full" /\ "open" # "released"
        /\ "full" # "temp open" /\ "full" # "temp full" /\ "full" # "released"
        /\ "temp open" # "temp full" /\ "temp open" # "released" /\ "temp full" # "released"
    OBVIOUS
  <2>2. \A l, m \in ListName : l # m => Disjoint(L[l], L[m])
    BY <1>9
  <2>3. \A l \in ListName : Disjoint(L[l], h)
    BY <1>4
  <2> HIDE DEF Disjoint
  <2> QED
    BY <1>6, <1>10, <2>1, <2>2, <2>3
<1>14. ASSUME NEW x \in Seq(Page), NEW y \in Seq(Page), IsInjective(x), IsInjective(y), Disjoint(x, y),
              NEW z, z = x \o y
       PROVE  /\ z \in Seq(Page) /\ IsInjective(z)
              /\ \A w : Disjoint(x, w) /\ Disjoint(y, w) => Disjoint(z, w)
  <2>1. Unites(x, y, z)
    BY <1>14, InjectiveConcat
  <2> QED
    BY <2>1 DEF Unites
<1> HIDE DEF Disjoint
<1>15. ab \in Seq(Page) /\ IsInjective(ab) /\ \A w : Disjoint(a, w) /\ Disjoint(b, w) => Disjoint(ab, w)
  BY <1>11, <1>12, <1>13, <1>14
<1>16. abc \in Seq(Page) /\ IsInjective(abc) /\ \A w : Disjoint(ab, w) /\ Disjoint(c, w) => Disjoint(abc, w)
  BY <1>11, <1>12, <1>13, <1>14, <1>15
<1>17. abcd \in Seq(Page) /\ IsInjective(abcd)
       /\ \A w : Disjoint(abc, w) /\ Disjoint(d, w) => Disjoint(abcd, w)
  BY <1>11, <1>12, <1>13, <1>14, <1>15, <1>16
<1>18. abcde \in Seq(Page) /\ IsInjective(abcde)
       /\ \A w : Disjoint(abcd, w) /\ Disjoint(e, w) => Disjoint(abcde, w)
  BY <1>11, <1>12, <1>13, <1>14, <1>15, <1>16, <1>17
<1>19. IsInjective(abcde \o h)
  <2>1. Disjoint(abcde, h)
    BY <1>13, <1>15, <1>16, <1>17, <1>18
  <2> QED
    BY <1>3, <1>4, <1>14, <1>18, <2>1
<1>20. abcde \o h = pool.open["main"] \o pool.full["main"] \o pool.open["temp"] \o pool.full["temp"]
                      \o pool.released \o h
  BY <1>5, <1>10, <1>11
<1> QED
  BY <1>19, <1>20 DEF OnePlace, h

\* A page is on one list, once, or one compilation writes on it: nobody else can
\* get hold of a page that is being written, or of one that waits while an else
\* block or a target is compiled.
THEOREM PagesHaveOnePlace == Spec => []OnePlace
<1>1. Inv => OnePlace
  BY InvOnePlace
<1> QED
  BY <1>1, Invariant, PTL

LEMMA InvRoomKept ==
  ASSUME Inv, ~Torn(pool)
  PROVE  /\ WithinPage
         /\ \A i \in DOMAIN contexts : FreeLines(pool, contexts[i].page) >= 2 + contexts[i].table
<1>1. ASSUME NEW p \in Pages(pool)
      PROVE  Size(CodeOf(pool), p) <= Capacity(pool, p)
  <2>1. CASE phase = "released"
    BY <2>1 DEF Inv, Ended
  <2>2. CASE phase # "released"
    BY <2>2, IsPlaced DEF Failed, Placed, Lined
  <2> QED
    BY <2>1, <2>2
<1>2. DOMAIN contexts = 1 .. Len(contexts)
  BY DEF Inv, Types
<1>3. ASSUME NEW i \in 1 .. Len(contexts)
      PROVE  FreeLines(pool, At(contexts, i)) >= 2 + Table(contexts, i)
  <2>1. contexts # <<>>
    BY EmptySeq
  <2>2. Room(pool, contexts)
    BY <2>1, Compiling DEF Building
  <2> QED
    BY <2>2 DEF Room, Ample
<1>4. \A p \in pool.allocated : ~(Len(pool.code[p]) > pool.lines[p])
  <2>1. \A p \in pool.allocated : p \in Page /\ Size(CodeOf(pool), p) \in Nat /\ Capacity(pool, p) \in Nat
    BY PoolTyped, PoolParts DEF Pages
  <2>2. ASSUME NEW p \in pool.allocated
        PROVE  ~(Len(pool.code[p]) > pool.lines[p])
    <3>1. PICK k, m : k = Size(CodeOf(pool), p) /\ m = Capacity(pool, p)
      OBVIOUS
    <3>2. k \in Nat /\ m \in Nat /\ k <= m
      BY <1>1, <2>1, <3>1 DEF Pages
    <3>3. ~(k > m)
      BY ONLY <3>2
    <3> QED
      BY <3>1, <3>3 DEF Size, CodeOf, Capacity
  <2> QED
    BY <2>2
<1>5. \A i \in DOMAIN contexts : FreeLines(pool, contexts[i].page) >= 2 + contexts[i].table
  BY <1>2, <1>3 DEF At, Table
<1> QED
  BY <1>4, <1>5 DEF WithinPage, Overrun

\* EmitWord's assertion (m3_code.c), for every size of page, operation and table: as
\* long as no operation was left out in front of its slots, no line is written past the
\* end of a page, and every page that is being written keeps room for the rest of its
\* br_table and for the bridge off it.
THEOREM RoomIsKept == Spec => []RoomKept
<1>1. Inv => RoomKept
  BY InvRoomKept DEF RoomKept, Torn
<1> QED
  BY <1>1, Invariant, PTL

LEMMA InvCompilationReturnsPages ==
  ASSUME Inv
  PROVE  CompilationReturnsPages
<1>1. SUFFICES ASSUME contexts = <<>>
               PROVE  Count(pool, "main") <= (IF phase \in {"failed", "released"} THEN 1 ELSE 0)
  BY DEF CompilationReturnsPages, Idle, Count
<1>2. CASE phase \in {"failed", "released"}
  BY <1>2 DEF Inv, Failed, Ended
<1>3. CASE phase \notin {"failed", "released"}
  <2>1. Building(phase, pool, <<>>, start, fragments)
    BY <1>1, <1>3, InvBuilding
  <2>2. Count(pool, "main") = 0
    BY <2>1, AtRest
  <2> QED
    BY <1>3, <2>2
<1> QED
  BY <1>2, <1>3

\* A compilation that succeeds gives back every page it wrote on, and one that
\* fails, at whatever depth, keeps one at most: the page Compile_BranchTable saved.
THEOREM PagesAreReturned == Spec => []CompilationReturnsPages
<1>1. Inv => CompilationReturnsPages
  BY InvCompilationReturnsPages
<1> QED
  BY <1>1, Invariant, PTL

\* Where code goes on is what Continues says.
LEMMA ReachesContinues ==
  ASSUME contexts \in Seq(ContextType), NEW l, Reaches(CodeOf(pool), contexts, l)
  PROVE  Continues(l)
<1>1. DOMAIN contexts = 1 .. Len(contexts)
  OBVIOUS
<1> QED
  BY <1>1 DEF Reaches, GoesOn, On, Continues, CodeOf, Size, Owner, PageOf, LineOf, FragOf, Frag, At

LEMMA InvJoined ==
  ASSUME Inv, phase \notin {"failed", "released"}
  PROVE  /\ contexts \in Seq(ContextType) /\ Joined(CodeOf(pool), contexts, start)
         /\ \A p \in Pages(pool) : p \in Page /\ DOMAIN pool.code[p] = 1 .. Size(CodeOf(pool), p)
<1>1. Types /\ Building(phase, pool, contexts, start, fragments)
  BY InvBuilding
<1>2. Joined(CodeOf(pool), contexts, start) /\ contexts \in Seq(ContextType)
  BY <1>1 DEF Building, Sound, Types
<1>3. Pages(pool) \subseteq Page /\ CodeOf(pool) \in [Page -> Seq(Line)]
  BY PoolTyped, PoolParts
<1>4. \A p \in Page : DOMAIN pool.code[p] = 1 .. Size(CodeOf(pool), p)
  BY <1>3 DEF CodeOf, Size
<1> QED
  BY <1>2, <1>3, <1>4

LEMMA InvJumpsLand ==
  ASSUME Inv
  PROVE  JumpsLand
<1>1. SUFFICES ASSUME phase \notin {"failed", "released"}
               PROVE  /\ \A f \in Fragment : start[f] # Nowhere => Continues(start[f])
                      /\ \A p \in pool.allocated : \A i \in DOMAIN pool.code[p] :
                           pool.code[p][i].to # Nowhere => Continues(pool.code[p][i].to)
  BY DEF JumpsLand
<1>2. /\ contexts \in Seq(ContextType) /\ Joined(CodeOf(pool), contexts, start)
      /\ \A p \in Pages(pool) : p \in Page /\ DOMAIN pool.code[p] = 1 .. Size(CodeOf(pool), p)
  BY <1>1, InvJoined
<1>3. ASSUME NEW f \in Fragment, start[f] # Nowhere
      PROVE  Continues(start[f])
  <2>1. Reaches(CodeOf(pool), contexts, start[f])
    BY <1>2, <1>3 DEF Joined, Entry
  <2> QED
    BY <1>2, <2>1, ReachesContinues
<1>4. ASSUME NEW p \in pool.allocated, NEW i \in DOMAIN pool.code[p], pool.code[p][i].to # Nowhere
      PROVE  Continues(pool.code[p][i].to)
  <2>1. p \in Page /\ i \in 1 .. Size(CodeOf(pool), p)
    BY <1>2 DEF Pages
  <2>2. Jump(CodeOf(pool), p, i) = pool.code[p][i].to
    BY DEF Jump, CodeOf
  <2>3. Reaches(CodeOf(pool), contexts, pool.code[p][i].to)
    BY <1>2, <1>4, <2>1, <2>2 DEF Joined
  <2> QED
    BY <1>2, <2>3, ReachesContinues
<1> QED
  BY <1>3, <1>4

\* Every entry, bridge, table pointer and branch back out of an else block leads to
\* the code it was made for, whatever other fragments write on the pages in between.
THEOREM JumpsAlwaysLand == Spec => []JumpsLand
<1>1. Inv => JumpsLand
  BY InvJumpsLand
<1> QED
  BY <1>1, Invariant, PTL

LEMMA InvFallsThrough ==
  ASSUME Inv
  PROVE  FallsThrough
<1>1. SUFFICES ASSUME phase \notin {"failed", "released"},
                      NEW p \in pool.allocated, NEW i \in DOMAIN pool.code[p], ~pool.code[p][i].ends
               PROVE  Continues([page |-> p, line |-> i, of |-> pool.code[p][i].of])
  BY DEF FallsThrough
<1>2. /\ contexts \in Seq(ContextType) /\ Joined(CodeOf(pool), contexts, start)
      /\ \A q \in Pages(pool) : q \in Page /\ DOMAIN pool.code[q] = 1 .. Size(CodeOf(pool), q)
  BY <1>1, InvJoined
<1>3. p \in Page /\ i \in 1 .. Size(CodeOf(pool), p)
  BY <1>2 DEF Pages
<1>4. PICK l, f : l = [page |-> p, line |-> i, of |-> f] /\ f = pool.code[p][i].of
  OBVIOUS
<1>5. f = Owner(CodeOf(pool), p, i) /\ ~Ends(CodeOf(pool), p, i)
  BY <1>1, <1>4 DEF Owner, Ends, CodeOf
<1>6. GoesOn(CodeOf(pool), contexts, p, i, f)
  BY <1>2, <1>3, <1>5 DEF Joined
<1>7. PageOf(l) = p /\ LineOf(l) = i /\ FragOf(l) = f
  BY <1>4 DEF PageOf, LineOf, FragOf
<1>8. Reaches(CodeOf(pool), contexts, l)
  BY <1>6, <1>7 DEF Reaches
<1> QED
  BY <1>2, <1>4, <1>8, ReachesContinues

\* Control never runs on from the code of one fragment into that of another on the
\* same page: behind a line that does not end a fragment comes a line of its own,
\* or the fragment is still being written there.
THEOREM FragmentsFallThrough == Spec => []FallsThrough
<1>1. Inv => FallsThrough
  BY InvFallsThrough
<1> QED
  BY <1>1, Invariant, PTL

=============================================================================
