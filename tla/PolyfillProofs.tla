--------------------------- MODULE PolyfillProofs ---------------------------
(***************************************************************************)
(* Proofs about Polyfill and Instances, for every set of binaries, import  *)
(* objects and platforms and every depth of nesting.  What the parser and  *)
(* the loader compute is left open.                                        *)
(***************************************************************************)
EXTENDS Polyfill, SequenceTheorems, TLAPS

-----------------------------------------------------------------------------
(* Stacks.                                                                 *)

IsSeq(s) == \E S : s \in Seq(S)

KindAt(s, k)   == s[k].kind
IdAt(s, k)     == s[k].id
StageAt(s, k)  == s[k].at
CaughtAt(s, k) == s[k].caught

IsFrame(a) == a = [x \in {"kind", "id", "at", "next", "code", "caught"} |-> a[x]]

LEMMA SeqParts ==
  ASSUME NEW s, IsSeq(s)
  PROVE  /\ Len(s) \in Nat /\ DOMAIN s = 1 .. Len(s) /\ (s = <<>> <=> Len(s) = 0)
<1>1. PICK S : s \in Seq(S)
  BY DEF IsSeq
<1> QED
  BY <1>1, EmptySeq

LEMMA MoreMembers ==
  ASSUME NEW S, NEW T, S \subseteq T, NEW s \in Seq(S)
  PROVE  s \in Seq(T)
<1>1. \A k \in 1 .. Len(s) : s[k] \in T
  OBVIOUS
<1>2. s = [k \in 1 .. Len(s) |-> s[k]] /\ Len(s) \in Nat
  OBVIOUS
<1> QED
  BY <1>1, <1>2, SeqDef

\* b is a with one frame more.
IsPushed(a, b, frame) ==
  /\ IsSeq(b) /\ Len(b) = Len(a) + 1
  /\ \A k \in 1 .. Len(a) : b[k] = a[k]
  /\ b[Len(b)] = frame

LEMMA PushParts ==
  ASSUME NEW a, IsSeq(a), NEW frame, NEW b, b = Append(a, frame)
  PROVE  IsPushed(a, b, frame)
<1>1. PICK S : a \in Seq(S)
  BY DEF IsSeq
<1>2. a \in Seq(S \cup {frame})
  BY <1>1, MoreMembers
<1>3. /\ b \in Seq(S \cup {frame}) /\ Len(b) = Len(a) + 1 /\ b[Len(a) + 1] = frame
      /\ \A k \in 1 .. Len(a) : b[k] = a[k]
  BY <1>2, AppendProperties
<1> QED
  BY <1>3 DEF IsPushed, IsSeq

\* b is a without the frames above the n-th.
IsCut(a, b, n) ==
  /\ IsSeq(b) /\ Len(b) = n
  /\ \A k \in 1 .. n : b[k] = a[k]

LEMMA CutParts ==
  ASSUME NEW a, IsSeq(a), NEW n \in 0 .. Len(a), NEW b, b = SubSeq(a, 1, n)
  PROVE  IsCut(a, b, n)
<1>1. PICK S : a \in Seq(S)
  BY DEF IsSeq
<1>2. b \in Seq(S) /\ Len(b) = n /\ \A k \in 1 .. n : b[k] = a[k]
  BY <1>1
<1> QED
  BY <1>2 DEF IsCut, IsSeq

\* b is a with another frame on top.
IsReplaced(a, b, frame) ==
  /\ IsSeq(b) /\ Len(b) = Len(a)
  /\ \A k \in 1 .. Len(a) - 1 : b[k] = a[k]
  /\ b[Len(a)] = frame

LEMMA ReplaceParts ==
  ASSUME NEW a, IsSeq(a), Len(a) > 0, NEW frame, NEW b, b = [a EXCEPT ![Len(a)] = frame]
  PROVE  IsReplaced(a, b, frame)
<1>1. PICK S : a \in Seq(S)
  BY DEF IsSeq
<1>2. a \in Seq(S \cup {frame}) /\ Len(a) \in 1 .. Len(a)
  BY <1>1, MoreMembers
<1>3. b \in Seq(S \cup {frame}) /\ Len(b) = Len(a)
  BY <1>2, ExceptSeq
<1>4. b[Len(a)] = frame /\ \A k \in 1 .. Len(a) : k # Len(a) => b[k] = a[k]
  BY <1>2, ExceptSeq
<1>5. \A k \in 1 .. Len(a) - 1 : k \in 1 .. Len(a) /\ k # Len(a)
  BY <1>2
<1> QED
  BY <1>3, <1>4, <1>5 DEF IsReplaced, IsSeq

-----------------------------------------------------------------------------
(* Frames.                                                                 *)

AtSet(a, x)     == [a EXCEPT !.at = x]
NextSet(a, x)   == [a EXCEPT !.next = x]
CodeSet(a, x)   == [a EXCEPT !.code = x]
CaughtSet(a, x) == [a EXCEPT !.caught = x]

\* But for where it is and what it caught, b is a.
SameFrame(a, b) == IsFrame(b) /\ b.kind = a.kind /\ b.id = a.id

LEMMA FrameChanges ==
  ASSUME NEW a, IsFrame(a), NEW x
  PROVE  /\ SameFrame(a, AtSet(a, x)) /\ AtSet(a, x).at = x /\ AtSet(a, x).caught = a.caught
         /\ SameFrame(a, NextSet(a, x)) /\ NextSet(a, x).at = a.at /\ NextSet(a, x).caught = a.caught
         /\ SameFrame(a, CodeSet(a, x)) /\ CodeSet(a, x).at = a.at /\ CodeSet(a, x).caught = a.caught
         /\ SameFrame(a, CaughtSet(a, x)) /\ CaughtSet(a, x).at = a.at /\ CaughtSet(a, x).caught = x
  BY DEF IsFrame, SameFrame, AtSet, NextSet, CodeSet, CaughtSet

LEMMA ActivationParts ==
  ASSUME NEW kind, NEW i, NEW at, NEW code, NEW a, a = Activation(kind, i, at, code)
  PROVE  IsFrame(a) /\ a.kind = kind /\ a.id = i /\ a.at = at /\ a.caught = NoError
  BY DEF IsFrame, Activation

-----------------------------------------------------------------------------
(* The inductive invariant.                                                *)

FrameKind == {"instantiate", "run", "getter", "import"}
Stage     == {"create", "parse", "load", "link", "compile", "start", "publish"}
Status    == {"free", "building", "live", "failed", "gone"}

\* Errors on their way: with a tag, which is then what they came up as, or without.
Known(e) ==
  /\ e = [class |-> e.class, tag |-> e.tag, origin |-> e.origin]
  /\ e.tag = "none" => e.class = e.origin
  /\ e.tag # "none" => e.tag = e.origin

\* What lies on what: a getter on the instantiate that reads it, an import on the
\* run that calls it, the start function on its instantiate.
Fits(s, k) ==
  /\ IsFrame(s[k]) /\ KindAt(s, k) \in FrameKind /\ IdAt(s, k) \in Id /\ Known(CaughtAt(s, k))
  /\ KindAt(s, k) = "instantiate" => StageAt(s, k) \in Stage
  /\ KindAt(s, k) = "run" => StageAt(s, k) \in {"start", "call"}
  /\ KindAt(s, k) \in JsKinds => StageAt(s, k) = "js"
  /\ KindAt(s, k) = "getter" =>
       k > 1 /\ KindAt(s, k - 1) = "instantiate" /\ IdAt(s, k - 1) = IdAt(s, k)
  /\ KindAt(s, k) = "import" => k > 1 /\ KindAt(s, k - 1) = "run" /\ IdAt(s, k - 1) = IdAt(s, k)
  /\ KindAt(s, k) = "run" /\ StageAt(s, k) = "start" =>
       k > 1 /\ KindAt(s, k - 1) = "instantiate" /\ IdAt(s, k - 1) = IdAt(s, k)

Builds(s, k, i) == KindAt(s, k) = "instantiate" /\ IdAt(s, k) = i

\* An instance is being built by one activation.
Once(s) ==
  \A j, k \in 1 .. Len(s) :
    Builds(s, j, IdAt(s, k)) /\ Builds(s, k, IdAt(s, k)) => j = k

Shape(s) == IsSeq(s) /\ (\A k \in 1 .. Len(s) : Fits(s, k)) /\ Once(s)

InstanceFields ==
  {"status", "bytes", "native", "entries", "exports", "promise", "error", "failed",
   "parsed", "compiled", "scanned", "validated"}

IsInstance(r) == r = [x \in InstanceFields |-> r[x]]

Reported(stage, e) == e.class = e.origin /\ e.tag = "none" /\ Expected(stage, e)

\* What holds of an instance, whatever runs.
Story(r) ==
  /\ IsInstance(r) /\ r.status \in Status /\ r.promise \in {"none", "pending"}
  /\ r.promise = "pending" => r.status = "building"
  /\ r.status \in {"building", "live"} => r.validated = r.bytes
  /\ r.status = "live" => r.parsed = r.bytes /\ r.compiled = r.bytes /\ r.scanned = r.bytes
  /\ r.status = "failed" => Reported(r.failed, r.error)

\* What holds of one whose instantiate has come so far.
Reached(r, stage) ==
  /\ stage \in {"load", "link", "compile", "start", "publish"} => r.parsed = r.bytes
  /\ stage \in {"start", "publish"} => r.compiled = r.bytes

IsBuilt(s, i) == \E k \in 1 .. Len(s) : Builds(s, k, i)

Matches(in, s) ==
  /\ \A i \in Id : Story(in[i]) /\ (in[i].status = "building" <=> IsBuilt(s, i))
  /\ \A k \in 1 .. Len(s) : KindAt(s, k) = "instantiate" => Reached(in[IdAt(s, k)], StageAt(s, k))

Good(in, s) == in = [i \in Id |-> in[i]] /\ Shape(s) /\ Matches(in, s)

\* The bindings, once installed, are there.
HostOK(h) ==
  /\ h = [x \in {"platform", "bound", "imported", "turbo", "reloads"} |-> h[x]]
  /\ h.turbo \in [created : BOOLEAN, installed : BOOLEAN]
  /\ h.bound \in BOOLEAN /\ h.imported \in BOOLEAN
  /\ h.imported => h.bound
  /\ h.turbo.installed => h.bound

Inv == Good(inst, stack) /\ calls \in 0 .. MaxCalls /\ HostOK(host)

-----------------------------------------------------------------------------
(* What happens on a stack.                                                *)

\* A frame that builds nothing is pushed.
LEMMA PushKeeps ==
  ASSUME NEW in, NEW s, Good(in, s), NEW f, f.kind # "instantiate", NEW t, IsPushed(s, t, f),
         Fits(t, Len(t))
  PROVE  Good(in, t)
<1>1. PICK n : n = Len(s)
  OBVIOUS
<1>2. n \in Nat /\ Len(t) = n + 1 /\ IsSeq(t) /\ t[n + 1] = f /\ \A k \in 1 .. n : t[k] = s[k]
  BY <1>1, SeqParts DEF Good, Shape, IsPushed
<1>3. \A k \in 1 .. n : /\ KindAt(t, k) = KindAt(s, k) /\ IdAt(t, k) = IdAt(s, k)
                        /\ StageAt(t, k) = StageAt(s, k) /\ CaughtAt(t, k) = CaughtAt(s, k)
  BY <1>2 DEF KindAt, IdAt, StageAt, CaughtAt
<1>4. KindAt(t, n + 1) # "instantiate" /\ 1 .. n + 1 = (1 .. n) \cup {n + 1}
  BY <1>2 DEF KindAt
<1>5. ASSUME NEW k \in 1 .. n
      PROVE  Fits(t, k)
  <2>1. Fits(s, k)
    BY <1>1 DEF Good, Shape
  <2>2. k > 1 => k - 1 \in 1 .. n
    BY <1>2
  <2> QED
    BY <1>2, <1>3, <2>1, <2>2 DEF Fits
<1>6. \A k \in 1 .. Len(t) : Fits(t, k)
  BY <1>2, <1>4, <1>5
<1>7. \A k \in 1 .. n : \A i : Builds(t, k, i) <=> Builds(s, k, i)
  BY <1>3 DEF Builds
<1>8. \A i : ~Builds(t, n + 1, i)
  BY <1>4 DEF Builds
<1>9. Once(t)
  BY <1>1, <1>2, <1>3, <1>4, <1>7, <1>8 DEF Good, Shape, Once
<1>10. \A i : IsBuilt(t, i) <=> IsBuilt(s, i)
  BY <1>1, <1>2, <1>4, <1>7, <1>8 DEF IsBuilt
<1>11. Matches(in, t)
  <2>1. \A i \in Id : Story(in[i]) /\ (in[i].status = "building" <=> IsBuilt(t, i))
    BY <1>10 DEF Good, Matches
  <2>2. ASSUME NEW k \in 1 .. n + 1, KindAt(t, k) = "instantiate"
        PROVE  Reached(in[IdAt(t, k)], StageAt(t, k))
    <3>1. k \in 1 .. n
      BY <1>4, <2>2
    <3> QED
      BY <1>1, <1>3, <2>2, <3>1 DEF Good, Matches
  <2> QED
    BY <1>2, <2>1, <2>2 DEF Matches
<1> QED
  BY <1>2, <1>6, <1>9, <1>11 DEF Good, Shape

\* The innermost frame is replaced by one for the same; of the instance it builds
\* r is what becomes of it.
LEMMA TopKeeps ==
  ASSUME NEW in, NEW s, Good(in, s), Len(s) > 0, NEW f, NEW t, IsReplaced(s, t, f),
         SameFrame(s[Len(s)], f), Known(f.caught),
         f.kind # "instantiate" => f.at = StageAt(s, Len(s)),
         NEW r, NEW jn,
         f.kind = "instantiate" =>
           /\ f.at \in Stage /\ Story(r) /\ Reached(r, f.at) /\ r.status = in[f.id].status
           /\ jn = [in EXCEPT ![f.id] = r],
         f.kind # "instantiate" => jn = in
  PROVE  Good(jn, t)
<1>1. PICK n : n = Len(s)
  OBVIOUS
<1>2. n \in Nat /\ n > 0 /\ n \in 1 .. n /\ Len(t) = n /\ IsSeq(t) /\ t[n] = f
      /\ \A k \in 1 .. n - 1 : t[k] = s[k]
  BY <1>1, SeqParts DEF Good, Shape, IsReplaced
<1>3. \A k \in 1 .. n - 1 : StageAt(t, k) = StageAt(s, k) /\ CaughtAt(t, k) = CaughtAt(s, k)
  BY <1>2 DEF StageAt, CaughtAt
<1>4. \A k \in 1 .. n : k \in 1 .. n - 1 \/ k = n
  BY <1>2
<1>5. \A k \in 1 .. n : KindAt(t, k) = KindAt(s, k) /\ IdAt(t, k) = IdAt(s, k)
  BY <1>1, <1>2, <1>4 DEF SameFrame, KindAt, IdAt
<1>6. StageAt(t, n) = f.at /\ CaughtAt(t, n) = f.caught /\ KindAt(t, n) = f.kind /\ IdAt(t, n) = f.id
  BY <1>2 DEF StageAt, CaughtAt, KindAt, IdAt
<1>7. ASSUME NEW k \in 1 .. n
      PROVE  Fits(t, k)
  <2>1. Fits(s, k)
    BY <1>1 DEF Good, Shape
  <2>2. /\ k > 1 => k - 1 \in 1 .. n
        /\ k > 1 => KindAt(t, k - 1) = KindAt(s, k - 1) /\ IdAt(t, k - 1) = IdAt(s, k - 1)
    BY <1>2, <1>5
  <2>3. CASE k \in 1 .. n - 1
    BY <1>2, <1>3, <1>5, <2>1, <2>2, <2>3 DEF Fits
  <2>4. CASE k = n /\ f.kind = "instantiate"
    <3>1. "instantiate" \notin JsKinds
      BY DEF JsKinds
    <3> QED
      BY <1>2, <1>5, <1>6, <2>1, <2>4, <3>1 DEF Fits, SameFrame
  <2>5. CASE k = n /\ f.kind # "instantiate"
    <3>1. StageAt(t, k) = StageAt(s, k)
      BY <1>1, <1>6, <2>5
    <3> QED
      BY <1>2, <1>5, <1>6, <2>1, <2>2, <2>5, <3>1 DEF Fits, SameFrame
  <2> QED
    BY <1>4, <2>3, <2>4, <2>5
<1>8. \A k \in 1 .. n : \A i : Builds(t, k, i) <=> Builds(s, k, i)
  BY <1>5 DEF Builds
<1>9. Once(t)
  BY <1>1, <1>2, <1>5, <1>8 DEF Good, Shape, Once
<1>10. \A i : IsBuilt(t, i) <=> IsBuilt(s, i)
  BY <1>1, <1>2, <1>8 DEF IsBuilt
<1>11. f.id \in Id
  BY <1>2, <1>6, <1>7 DEF Fits
<1>12. /\ in = [i \in Id |-> in[i]] /\ jn = [i \in Id |-> jn[i]]
       /\ \A i \in Id : jn[i] = in[i] \/ (i = f.id /\ f.kind = "instantiate" /\ jn[i] = r)
       /\ f.kind = "instantiate" => jn[f.id] = r
  BY <1>11 DEF Good
<1>16. f.kind = "instantiate" => Reached(r, f.at)
  OBVIOUS
<1>17. ASSUME f.kind = "instantiate"
       PROVE  jn[f.id] = r
  <2>1. jn = [in EXCEPT ![f.id] = r]
    BY <1>17
  <2>2. in = [i \in Id |-> in[i]]
    BY DEF Good
  <2> QED
    BY ONLY <1>11, <2>1, <2>2
<1>13. \A i \in Id : Story(jn[i]) /\ jn[i].status = in[i].status
  BY <1>12 DEF Good, Matches
<1>14. ASSUME NEW k \in 1 .. n, KindAt(t, k) = "instantiate"
       PROVE  Reached(jn[IdAt(t, k)], StageAt(t, k))
  <2>1. CASE k = n
    <3>1. IdAt(t, k) = f.id /\ StageAt(t, k) = f.at /\ f.kind = "instantiate"
      BY <1>6, <1>14, <2>1
    <3>2. jn[f.id] = r
      BY ONLY <1>17, <3>1
    <3>3. Reached(r, f.at)
      BY ONLY <1>16, <3>1
    <3> QED
      BY ONLY <3>1, <3>2, <3>3
  <2>2. CASE k # n
    <3>1. k \in 1 .. n - 1 /\ IdAt(t, k) \in Id
      BY <1>4, <1>7, <2>2 DEF Fits
    <3>2. Reached(in[IdAt(t, k)], StageAt(t, k))
      BY <1>1, <1>3, <1>5, <1>14, <3>1 DEF Good, Matches
    <3>3. f.kind = "instantiate" => IdAt(t, k) # f.id
      BY <1>2, <1>6, <1>9, <1>14, <2>2 DEF Once, Builds
    <3> QED
      BY <1>12, <3>1, <3>2, <3>3
  <2> QED
    BY <2>1, <2>2
<1>15. Matches(jn, t)
  BY <1>2, <1>10, <1>13, <1>14 DEF Good, Matches
<1> QED
  BY <1>2, <1>7, <1>9, <1>12, <1>15 DEF Good, Shape

\* The frames above the n-th leave.  They build nothing, but for the lowest if
\* there is an instance i that it builds, of which r is what becomes.
LEMMA CutKeeps ==
  ASSUME NEW in, NEW s, Good(in, s), NEW n \in Nat, n < Len(s), NEW t, IsCut(s, t, n),
         \A k \in n + 2 .. Len(s) : KindAt(s, k) # "instantiate",
         NEW i, KindAt(s, n + 1) = "instantiate" => i = IdAt(s, n + 1),
         NEW r, Story(r), r.status # "building",
         NEW jn, KindAt(s, n + 1) = "instantiate" => jn = [in EXCEPT ![i] = r],
         KindAt(s, n + 1) # "instantiate" => jn = in
  PROVE  Good(jn, t)
<1>1. PICK x : x = Len(s)
  OBVIOUS
<1>2. x \in Nat /\ n < x /\ n + 1 \in 1 .. x /\ Len(t) = n /\ IsSeq(t)
      /\ \A k \in 1 .. n : t[k] = s[k]
  BY <1>1, SeqParts DEF Good, Shape, IsCut
<1>3. \A k \in 1 .. n : /\ StageAt(t, k) = StageAt(s, k) /\ CaughtAt(t, k) = CaughtAt(s, k)
                        /\ KindAt(t, k) = KindAt(s, k) /\ IdAt(t, k) = IdAt(s, k) /\ k \in 1 .. x
  BY <1>2 DEF StageAt, CaughtAt, KindAt, IdAt
<1>4. ASSUME NEW k \in 1 .. n
      PROVE  Fits(t, k)
  <2>1. Fits(s, k)
    BY <1>1, <1>3 DEF Good, Shape
  <2>2. k > 1 => k - 1 \in 1 .. n
    BY <1>2
  <2> QED
    BY <1>2, <1>3, <2>1, <2>2 DEF Fits
<1>5. \A k \in 1 .. n : \A j : Builds(t, k, j) <=> Builds(s, k, j)
  BY <1>3 DEF Builds
<1>6. Once(t)
  BY <1>1, <1>2, <1>3, <1>5 DEF Good, Shape, Once
<1>7. \A k \in 1 .. x : k \in 1 .. n \/ k = n + 1 \/ k \in n + 2 .. x
  BY <1>2
<1>8. Fits(s, n + 1)
  BY <1>1, <1>2 DEF Good, Shape
<1>9. CASE KindAt(s, n + 1) # "instantiate"
  <2>1. \A k \in 1 .. x : \A j : Builds(s, k, j) => k \in 1 .. n
    BY <1>1, <1>7, <1>9 DEF Builds
  <2>2. \A j : IsBuilt(t, j) <=> IsBuilt(s, j)
    BY <1>1, <1>2, <1>3, <1>5, <2>1 DEF IsBuilt
  <2>3. Matches(in, t)
    BY <1>1, <1>2, <1>3, <2>2 DEF Good, Matches
  <2> QED
    BY <1>2, <1>4, <1>6, <1>9, <2>3 DEF Good, Shape
<1>10. CASE KindAt(s, n + 1) = "instantiate"
  <2>1. i \in Id /\ Builds(s, n + 1, i) /\ jn = [in EXCEPT ![i] = r] /\ i = IdAt(s, n + 1)
    BY <1>8, <1>10 DEF Fits, Builds
  <2>2. \A k \in 1 .. x : \A j : Builds(s, k, j) => k \in 1 .. n \/ (k = n + 1 /\ j = i)
    BY <1>1, <1>7, <2>1 DEF Builds
  <2>3. \A k \in 1 .. n : ~Builds(s, k, i)
    <3>1. \A k \in 1 .. n : k # n + 1
      OBVIOUS
    <3> QED
      BY <1>1, <1>2, <1>3, <2>1, <3>1 DEF Good, Shape, Once
  <2>4. \A j : j # i => (IsBuilt(t, j) <=> IsBuilt(s, j))
    BY <1>1, <1>2, <1>3, <1>5, <2>2 DEF IsBuilt
  <2>5. ~IsBuilt(t, i)
    BY <1>2, <1>5, <2>3 DEF IsBuilt
  <2>6. jn = [j \in Id |-> jn[j]] /\ jn[i] = r /\ \A j \in Id : j # i => jn[j] = in[j]
    BY <2>1 DEF Good
  <2>7. \A j \in Id : Story(jn[j]) /\ (jn[j].status = "building" <=> IsBuilt(t, j))
    BY <2>4, <2>5, <2>6 DEF Good, Matches
  <2>8. ASSUME NEW k \in 1 .. n, KindAt(t, k) = "instantiate"
        PROVE  Reached(jn[IdAt(t, k)], StageAt(t, k))
    <3>1. IdAt(t, k) # i /\ IdAt(t, k) \in Id
      BY <1>3, <1>4, <2>3, <2>8 DEF Builds, Fits
    <3>2. Reached(in[IdAt(t, k)], StageAt(t, k))
      BY <1>1, <1>3, <2>8 DEF Good, Matches
    <3> QED
      BY <2>6, <3>1, <3>2
  <2> QED
    BY <1>2, <1>4, <1>6, <2>6, <2>7, <2>8 DEF Good, Shape, Matches
<1> QED
  BY <1>9, <1>10

\* An instance begins to be built.
LEMMA BeginKeeps ==
  ASSUME NEW in, NEW s, Good(in, s), NEW i \in Id, in[i].status # "building",
         NEW f, NEW t, IsPushed(s, t, f), IsFrame(f), f.kind = "instantiate", f.id = i,
         f.at = "create", Known(f.caught),
         NEW r, Story(r), r.status = "building", NEW jn, jn = [in EXCEPT ![i] = r]
  PROVE  Good(jn, t)
<1>1. PICK n : n = Len(s)
  OBVIOUS
<1>2. n \in Nat /\ Len(t) = n + 1 /\ IsSeq(t) /\ t[n + 1] = f /\ \A k \in 1 .. n : t[k] = s[k]
  BY <1>1, SeqParts DEF Good, Shape, IsPushed
<1>3. \A k \in 1 .. n : /\ KindAt(t, k) = KindAt(s, k) /\ IdAt(t, k) = IdAt(s, k)
                        /\ StageAt(t, k) = StageAt(s, k) /\ CaughtAt(t, k) = CaughtAt(s, k)
  BY <1>2 DEF KindAt, IdAt, StageAt, CaughtAt
<1>4. /\ KindAt(t, n + 1) = "instantiate" /\ IdAt(t, n + 1) = i /\ StageAt(t, n + 1) = "create"
      /\ CaughtAt(t, n + 1) = f.caught /\ 1 .. n + 1 = (1 .. n) \cup {n + 1}
  BY <1>2 DEF KindAt, IdAt, StageAt, CaughtAt
<1>5. ASSUME NEW k \in 1 .. n
      PROVE  Fits(t, k)
  <2>1. Fits(s, k)
    BY <1>1 DEF Good, Shape
  <2>2. k > 1 => k - 1 \in 1 .. n
    BY <1>2
  <2> QED
    BY <1>2, <1>3, <2>1, <2>2 DEF Fits
<1>6. Fits(t, n + 1)
  BY <1>2, <1>4 DEF Fits, FrameKind, Stage, JsKinds
<1>7. \A k \in 1 .. Len(t) : Fits(t, k)
  BY <1>2, <1>4, <1>5, <1>6
<1>8. \A k \in 1 .. n : \A j : Builds(t, k, j) <=> Builds(s, k, j)
  BY <1>3 DEF Builds
<1>9. \A j : Builds(t, n + 1, j) <=> j = i
  BY <1>4 DEF Builds
<1>10. \A k \in 1 .. n : ~Builds(s, k, i)
  BY <1>1 DEF Good, Matches, IsBuilt
<1>11. Once(t)
  <2>1. ASSUME NEW j \in 1 .. n + 1, NEW k \in 1 .. n + 1,
               Builds(t, j, IdAt(t, k)), Builds(t, k, IdAt(t, k))
        PROVE  j = k
    <3>1. CASE j \in 1 .. n /\ k \in 1 .. n
      BY <1>1, <1>3, <1>8, <2>1, <3>1 DEF Good, Shape, Once
    <3>2. CASE j = n + 1 /\ k \in 1 .. n
      BY <1>8, <1>9, <1>10, <2>1, <3>2
    <3>3. CASE j \in 1 .. n /\ k = n + 1
      BY <1>4, <1>8, <1>10, <2>1, <3>3
    <3>4. CASE j = n + 1 /\ k = n + 1
      BY <3>4
    <3>5. (j \in 1 .. n \/ j = n + 1) /\ (k \in 1 .. n \/ k = n + 1)
      BY <1>4
    <3> QED
      BY <3>1, <3>2, <3>3, <3>4, <3>5
  <2> QED
    BY <1>2, <2>1 DEF Once
<1>12. \A j : j # i => (IsBuilt(t, j) <=> IsBuilt(s, j))
  BY <1>1, <1>2, <1>4, <1>8, <1>9 DEF IsBuilt
<1>13. IsBuilt(t, i)
  BY <1>2, <1>4, <1>9 DEF IsBuilt
<1>14. jn = [j \in Id |-> jn[j]] /\ jn[i] = r /\ \A j \in Id : j # i => jn[j] = in[j]
  BY DEF Good
<1>15. \A j \in Id : Story(jn[j]) /\ (jn[j].status = "building" <=> IsBuilt(t, j))
  BY <1>12, <1>13, <1>14 DEF Good, Matches
<1>16. ASSUME NEW k \in 1 .. n + 1, KindAt(t, k) = "instantiate"
       PROVE  Reached(jn[IdAt(t, k)], StageAt(t, k))
  <2>1. CASE k = n + 1
    BY <1>4, <2>1 DEF Reached
  <2>2. CASE k \in 1 .. n
    <3>1. IdAt(t, k) # i /\ IdAt(t, k) \in Id
      BY <1>3, <1>5, <1>10, <1>16, <2>2 DEF Builds, Fits
    <3>2. Reached(in[IdAt(t, k)], StageAt(t, k))
      BY <1>1, <1>3, <1>16, <2>2 DEF Good, Matches
    <3> QED
      BY <1>14, <3>1, <3>2
  <2> QED
    BY <1>4, <2>1, <2>2
<1> QED
  BY <1>2, <1>7, <1>11, <1>14, <1>15, <1>16 DEF Good, Shape, Matches

-----------------------------------------------------------------------------
(* Errors and records.                                                     *)

LEMMA KnownError ==
  ASSUME NEW e, NEW class, NEW tag, NEW origin,
         e = [class |-> class, tag |-> tag, origin |-> origin],
         tag = "none" => class = origin, tag # "none" => tag = origin
  PROVE  Known(e) /\ e.class = class /\ e.tag = tag /\ e.origin = origin
<1>1. e.class = class /\ e.tag = tag /\ e.origin = origin
  OBVIOUS
<1>2. e = [class |-> e.class, tag |-> e.tag, origin |-> e.origin]
  BY <1>1
<1> QED
  BY ONLY <1>1, <1>2, tag = "none" => class = origin, tag # "none" => tag = origin DEF Known

LEMMA KnownErrors ==
  /\ Known(NoError)
  /\ \A x \in {"CompileError", "LinkError", "RuntimeError"} :
       Known(Thrown(x)) /\ Thrown(x).origin = x
  /\ \A x \in {"Error", "CompileError", "Js"} : Known(Plain(x)) /\ Plain(x).origin = x
<1>1. Known(NoError)
  BY KnownError DEF NoError
<1>2. ASSUME NEW x \in {"CompileError", "LinkError", "RuntimeError"}
      PROVE  Known(Thrown(x)) /\ Thrown(x).origin = x
  <2>1. x # "none"
    OBVIOUS
  <2> QED
    BY <2>1, KnownError DEF Thrown
<1>3. ASSUME NEW x \in {"Error", "CompileError", "Js"}
      PROVE  Known(Plain(x)) /\ Plain(x).origin = x
  <2>1. x # "none"
    OBVIOUS
  <2> QED
    BY <2>1, KnownError DEF Plain
<1> QED
  BY <1>1, <1>2, <1>3

IsClassified(e, c) == Known(c) /\ c.class = e.origin /\ c.origin = e.origin /\ c.tag = "none"

LEMMA ClassifiedParts ==
  ASSUME NEW e, Known(e)
  PROVE  IsClassified(e, Classified(e))
<1>2. e = [class |-> e.class, tag |-> e.tag, origin |-> e.origin]
  BY DEF Known
<1>3. CASE e.tag = "none"
  BY <1>3 DEF Known, Classified, IsClassified
<1>4. CASE e.tag # "none"
  <2>1. PICK c : c = [e EXCEPT !.class = e.tag, !.tag = "none"]
    OBVIOUS
  <2>2. c = Classified(e)
    BY <1>4, <2>1, Zenon DEF Classified
  <2>3. c = [class |-> e.tag, tag |-> "none", origin |-> e.origin]
    BY ONLY <1>2, <2>1
  <2>4. e.tag = e.origin
    BY <1>4 DEF Known
  <2>5. PICK o : o = e.origin
    OBVIOUS
  <2>6. c = [class |-> o, tag |-> "none", origin |-> o]
    BY <2>3, <2>4, <2>5
  <2>7. Known(c) /\ c.class = o /\ c.tag = "none" /\ c.origin = o
    BY ONLY <2>6, KnownError
  <2> QED
    BY <2>2, <2>5, <2>7 DEF IsClassified
<1> QED
  BY <1>3, <1>4

LEMMA RemainsParts ==
  ASSUME NEW r, IsInstance(r), NEW native, NEW t, t = Remains(r, native)
  PROVE  IsInstance(t) /\ \A x \in InstanceFields \ {"native", "entries", "exports"} : t[x] = r[x]
<1>1. PICK a : a = [NoNative EXCEPT !.heap = DestroyState(native).heap, !.twice = DestroyState(native).twice]
  OBVIOUS
<1>2. t = [r EXCEPT !.native = a, !.entries = <<>>, !.exports = << >>]
  BY <1>1, Zenon DEF Remains
<1> QED
  BY <1>2 DEF IsInstance, InstanceFields

LEMMA FailedParts ==
  ASSUME NEW r, IsInstance(r), NEW native, NEW stage, NEW e, Known(e),
         Expected(stage, Classified(e)), NEW t, t = Failed(r, native, stage, e)
  PROVE  Story(t) /\ t.status = "failed"
<1>1. PICK a, c : a = Remains(r, native) /\ c = Classified(e)
  OBVIOUS
<1>2. t = [a EXCEPT !.status = "failed", !.error = c, !.failed = stage, !.promise = "none"]
  BY <1>1, Zenon DEF Failed
<1>3. IsInstance(a)
  BY <1>1, RemainsParts
<1>4. /\ IsInstance(t) /\ t.status = "failed" /\ t.error = c /\ t.failed = stage /\ t.promise = "none"
  BY <1>2, <1>3 DEF IsInstance, InstanceFields
<1>5. c.class = c.origin /\ c.tag = "none"
  BY <1>1, ClassifiedParts DEF IsClassified
<1> QED
  BY <1>1, <1>4, <1>5 DEF Story, Status, Reported

LEMMA UnbornParts ==
  /\ IsInstance(Unborn) /\ Unborn.status = "free" /\ Unborn.promise = "none" /\ Story(Unborn)
<1>1. IsInstance(Unborn) /\ Unborn.status = "free" /\ Unborn.promise = "none"
  BY DEF Unborn, IsInstance, InstanceFields
<1> QED
  BY <1>1 DEF Story, Status

-----------------------------------------------------------------------------
(* Leaving frames.                                                         *)

\* JS catches an error, or an error another one had caught is forgotten.
LEMMA CaughtKeeps ==
  ASSUME NEW in, NEW s, Good(in, s), NEW e, Known(e), NEW t, t = Caught(s, e)
  PROVE  Good(in, t)
<1>1. CASE s = <<>>
  BY <1>1 DEF Caught
<1>2. CASE s # <<>>
  <2>1. PICK n, f : n = Len(s) /\ f = CaughtSet(s[n], e)
    OBVIOUS
  <2>2. IsSeq(s) /\ n \in Nat /\ n > 0 /\ n \in 1 .. n
    BY <1>2, <2>1, SeqParts DEF Good, Shape
  <2>3. t = [s EXCEPT ![n] = f]
    BY <1>2, <2>1, Zenon DEF Caught, CaughtSet
  <2>4. IsReplaced(s, t, f)
    BY <2>1, <2>2, <2>3, ReplaceParts
  <2>5. Fits(s, n)
    BY <2>1, <2>2 DEF Good, Shape
  <2>6. SameFrame(s[n], f) /\ f.at = StageAt(s, n) /\ f.caught = e
    BY <2>1, <2>5, FrameChanges DEF Fits, StageAt
  <2>7. f.kind = KindAt(s, n) /\ f.id = IdAt(s, n) /\ f.id \in Id
    BY <2>5, <2>6 DEF SameFrame, KindAt, IdAt, Fits
  <2>8. PICK r : r = in[f.id]
    OBVIOUS
  <2>9. in = [in EXCEPT ![f.id] = r] /\ Story(r)
    BY <2>7, <2>8 DEF Good, Matches
  <2>10. f.kind = "instantiate" => f.at \in Stage /\ Reached(r, f.at)
    BY <2>1, <2>2, <2>5, <2>6, <2>7, <2>8 DEF Good, Matches, Fits
  <2> QED
    BY <2>1, <2>2, <2>4, <2>6, <2>8, <2>9, <2>10, TopKeeps
<1> QED
  BY <1>1, <1>2

\* Frames that build nothing leave, with an error or without.
LEMMA LeaveKeeps ==
  ASSUME NEW in, NEW s, Good(in, s), NEW n \in Nat, n < Len(s),
         \A k \in n + 1 .. Len(s) : KindAt(s, k) # "instantiate",
         NEW t, t = SubSeq(s, 1, n)
  PROVE  Good(in, t) /\ \A e : Known(e) => Good(in, Caught(t, e))
<1>1. IsSeq(s) /\ Len(s) \in Nat /\ n \in 0 .. Len(s) /\ n + 1 \in n + 1 .. Len(s)
      /\ \A k \in n + 2 .. Len(s) : k \in n + 1 .. Len(s)
  BY SeqParts DEF Good, Shape
<1>2. IsCut(s, t, n)
  BY <1>1, CutParts
<1>3. KindAt(s, n + 1) # "instantiate"
  BY <1>1
<1>4. PICK r : Story(r) /\ r.status # "building"
  BY UnbornParts
<1>5. Good(in, t)
  BY <1>1, <1>2, <1>3, <1>4, CutKeeps
<1> QED
  BY <1>5, CaughtKeeps

\* An error leaves instantiate, the n + 1-th frame, and the JS below it catches it.
LEMMA FailKeeps ==
  ASSUME NEW in, NEW s, Good(in, s), NEW n \in Nat, n < Len(s),
         \A k \in n + 2 .. Len(s) : KindAt(s, k) # "instantiate",
         KindAt(s, n + 1) = "instantiate", NEW i, i = IdAt(s, n + 1),
         NEW native, NEW stage, NEW e, Known(e), Expected(stage, Classified(e)),
         NEW jn, jn = [in EXCEPT ![i] = Failed(in[i], native, stage, e)],
         NEW t, t = Caught(SubSeq(s, 1, n), Classified(e))
  PROVE  Good(jn, t)
<1>1. IsSeq(s) /\ Len(s) \in Nat /\ n \in 0 .. Len(s) /\ n + 1 \in 1 .. Len(s)
  BY SeqParts DEF Good, Shape
<1>2. PICK u : u = SubSeq(s, 1, n)
  OBVIOUS
<1>3. IsCut(s, u, n)
  BY <1>1, <1>2, CutParts
<1>4. i \in Id
  BY <1>1 DEF Good, Shape, Fits
<1>5. PICK r : r = Failed(in[i], native, stage, e)
  OBVIOUS
<1>6. Story(r) /\ r.status = "failed"
  <2>1. IsInstance(in[i])
    BY <1>4 DEF Good, Matches, Story
  <2> QED
    BY <1>5, <2>1, FailedParts
<1>7. jn = [in EXCEPT ![i] = r]
  BY <1>5
<1>8. Good(jn, u)
  <2>1. r.status # "building"
    BY <1>6
  <2>2. Story(r)
    BY <1>6
  <2>3. KindAt(s, n + 1) = "instantiate" => i = IdAt(s, n + 1)
    OBVIOUS
  <2>4. KindAt(s, n + 1) = "instantiate" => jn = [in EXCEPT ![i] = r]
    BY <1>7
  <2>5. KindAt(s, n + 1) # "instantiate" => jn = in
    OBVIOUS
  <2> QED
    BY ONLY Good(in, s), n \in Nat, n < Len(s), <1>3, <2>1, <2>2, <2>3, <2>4, <2>5, CutKeeps,
       \A k \in n + 2 .. Len(s) : KindAt(s, k) # "instantiate"
<1>9. Known(Classified(e))
  BY ClassifiedParts DEF IsClassified
<1> QED
  BY <1>2, <1>8, <1>9, CaughtKeeps

-----------------------------------------------------------------------------
(* Steps of instantiate.                                                   *)

IsTop(in, s, n, f) ==
  /\ n = Len(s) /\ n \in Nat /\ n > 0 /\ n \in 1 .. n /\ IsSeq(s) /\ f = s[n] /\ Fits(s, n)
  /\ IsFrame(f) /\ f.id \in Id /\ f.kind \in FrameKind /\ Known(f.caught)
  /\ f.kind = KindAt(s, n) /\ f.id = IdAt(s, n) /\ f.at = StageAt(s, n)
  /\ in = [i \in Id |-> in[i]]
  /\ Story(in[f.id]) /\ IsInstance(in[f.id])
  /\ f.kind = "instantiate" =>
       f.at \in Stage /\ Reached(in[f.id], f.at) /\ in[f.id].status = "building"

LEMMA TopParts ==
  ASSUME NEW in, NEW s, Good(in, s), s # <<>>
  PROVE  IsTop(in, s, Len(s), s[Len(s)])
<1>1. PICK n, f : n = Len(s) /\ f = s[n]
  OBVIOUS
<1>2. IsSeq(s) /\ n \in Nat /\ n > 0 /\ n \in 1 .. n
  BY <1>1, SeqParts DEF Good, Shape
<1>3. f.kind = KindAt(s, n) /\ f.id = IdAt(s, n) /\ f.at = StageAt(s, n) /\ f.caught = CaughtAt(s, n)
  BY <1>1 DEF KindAt, IdAt, StageAt, CaughtAt
<1>4. Fits(s, n)
  BY <1>1, <1>2 DEF Good, Shape
<1>5. IsFrame(f) /\ f.id \in Id /\ f.kind \in FrameKind /\ Known(f.caught)
  BY <1>1, <1>3, <1>4 DEF Fits
<1>6. in = [i \in Id |-> in[i]] /\ Matches(in, s)
  BY DEF Good
<1>7. Story(in[f.id]) /\ IsInstance(in[f.id])
  BY <1>5, <1>6 DEF Matches, Story
<1>8. ASSUME f.kind = "instantiate"
      PROVE  f.at \in Stage /\ Reached(in[f.id], f.at) /\ in[f.id].status = "building"
  <2>1. Builds(s, n, f.id)
    BY <1>3, <1>8 DEF Builds
  <2>2. IsBuilt(s, f.id)
    BY <1>1, <1>2, <2>1 DEF IsBuilt
  <2> QED
    BY <1>1, <1>2, <1>3, <1>4, <1>5, <1>6, <1>8, <2>2 DEF Fits, Matches
<1> QED
  BY <1>1, <1>2, <1>3, <1>4, <1>5, <1>6, <1>7, <1>8 DEF IsTop

\* But for some fields, t is r.
SameBut(r, t, fields) == IsInstance(t) /\ \A x \in InstanceFields \ fields : t[x] = r[x]

Touched(in, jn, i, fields) ==
  /\ jn = [j \in Id |-> jn[j]] /\ \A j \in Id : j # i => jn[j] = in[j]
  /\ SameBut(in[i], jn[i], fields)

Built == {"native", "entries", "parsed", "compiled"}

LEMMA UpdateParts ==
  ASSUME NEW in, in = [j \in Id |-> in[j]], NEW i \in Id, NEW jn, jn = [j \in Id |-> jn[j]],
         \A j \in Id : j # i => jn[j] = in[j]
  PROVE  jn = [in EXCEPT ![i] = jn[i]]
  OBVIOUS

\* The innermost instantiate comes further, or goes on with the next import.
LEMMA AdvanceKeeps ==
  ASSUME NEW in, NEW s, Good(in, s), s # <<>>, s[Len(s)].kind = "instantiate",
         NEW f, SameFrame(s[Len(s)], f), f.at \in Stage, f.caught = s[Len(s)].caught,
         NEW t, t = [s EXCEPT ![Len(s)] = f],
         NEW jn, Touched(in, jn, f.id, Built), Reached(jn[f.id], f.at)
  PROVE  Good(jn, t)
<1>1. PICK n, g, r : n = Len(s) /\ g = s[n] /\ r = jn[f.id]
  OBVIOUS
<1>2. IsTop(in, s, n, g)
  BY <1>1, TopParts
<1>3. IsReplaced(s, t, f)
  BY <1>1, <1>2, ReplaceParts DEF IsTop
<1>4. f.kind = "instantiate" /\ f.id = g.id /\ f.id \in Id /\ Known(f.caught)
  BY <1>1, <1>2 DEF IsTop, SameFrame
<1>5. in[f.id].status = "building" /\ Story(in[f.id])
  BY <1>1, <1>2, <1>4 DEF IsTop
<1>6. /\ IsInstance(r) /\ r.status = in[f.id].status /\ r.promise = in[f.id].promise
      /\ r.bytes = in[f.id].bytes /\ r.validated = in[f.id].validated
  BY <1>1 DEF Touched, SameBut, InstanceFields, Built
<1>7. Story(r)
  BY <1>5, <1>6 DEF Story, Status
<1>8. jn = [in EXCEPT ![f.id] = r]
  BY <1>1, <1>2, <1>4, UpdateParts DEF Touched, IsTop
<1>9. Len(s) > 0
  BY <1>1, <1>2 DEF IsTop
<1>10. Reached(r, f.at)
  BY <1>1
<1> QED
  BY ONLY Good(in, s), <1>3, <1>4, <1>6, <1>7, <1>8, <1>9, <1>10, TopKeeps, f.at \in Stage,
          SameFrame(s[Len(s)], f)

LEMMA FailureClasses ==
  /\ Expected("create", Classified(Plain("Error")))
  /\ Expected("parse", Classified(Thrown("CompileError")))
  /\ Expected("load", Classified(Thrown("CompileError")))
  /\ Expected("link", Classified(Thrown("LinkError")))
  /\ Expected("compile", Classified(Thrown("CompileError")))
  /\ Expected("start", Classified(Thrown("RuntimeError")))
  /\ \A e : Expected("js", e)
<1>1. \A x \in {"CompileError", "LinkError", "RuntimeError"} : Classified(Thrown(x)).class = x
  BY KnownErrors, ClassifiedParts DEF IsClassified
<1>2. Classified(Plain("Error")).class = "Error"
  BY KnownErrors, ClassifiedParts DEF IsClassified
<1> QED
  BY <1>1, <1>2 DEF Expected

LEMMA FailsKeeps ==
  ASSUME Good(inst, stack), stack # <<>>, Top.kind = "instantiate",
         NEW native, NEW stage, NEW e, Known(e), Expected(stage, Classified(e)),
         Fails(native, stage, e)
  PROVE  Good(inst', stack')
<1>1. PICK n, f : n = Len(stack) /\ f = Top
  OBVIOUS
<1>2. IsTop(inst, stack, n, f)
  BY <1>1, TopParts DEF Top
<1>3. PICK m : m = n - 1
  OBVIOUS
<1>4. m \in Nat /\ m < n /\ m + 1 = n /\ m + 2 .. n = {}
  BY <1>2, <1>3 DEF IsTop
<1>5. /\ inst' = [inst EXCEPT ![f.id] = Failed(inst[f.id], native, stage, e)]
      /\ stack' = Caught(SubSeq(stack, 1, m), Classified(e))
  BY <1>1, <1>3 DEF Fails, I, Below
<1>6. KindAt(stack, m + 1) = "instantiate" /\ f.id = IdAt(stack, m + 1)
  BY <1>1, <1>2, <1>4 DEF IsTop
<1>7. \A k \in m + 2 .. Len(stack) : KindAt(stack, k) # "instantiate"
  BY <1>1, <1>4
<1> QED
  BY <1>1, <1>4, <1>5, <1>6, <1>7, FailKeeps

LEMMA TouchedParts ==
  ASSUME NEW in, in = [j \in Id |-> in[j]], NEW i \in Id, IsInstance(in[i]), NEW r, NEW fields,
         SameBut(in[i], r, fields), NEW jn, jn = [in EXCEPT ![i] = r]
  PROVE  Touched(in, jn, i, fields) /\ jn[i] = r
  BY DEF Touched

NativeSet(r, x)   == [r EXCEPT !.native = x]
EntriesSet(r, x)  == [r EXCEPT !.entries = x]
ParsedSet(r, x)   == [r EXCEPT !.parsed = x]
CompiledSet(r, x) == [r EXCEPT !.compiled = x]

LEMMA FieldParts ==
  ASSUME NEW r, IsInstance(r), NEW x
  PROVE  /\ SameBut(r, NativeSet(r, x), {"native"})
         /\ SameBut(r, EntriesSet(r, x), {"entries"})
         /\ SameBut(r, ParsedSet(r, x), {"parsed"}) /\ ParsedSet(r, x).parsed = x
         /\ SameBut(r, CompiledSet(r, x), {"compiled"}) /\ CompiledSet(r, x).compiled = x
  BY DEF IsInstance, SameBut, InstanceFields, NativeSet, EntriesSet, ParsedSet, CompiledSet

LEMMA SameTwice ==
  ASSUME NEW r, NEW a, NEW b, NEW f, NEW g, SameBut(r, a, f), SameBut(a, b, g),
         NEW h, f \subseteq h, g \subseteq h
  PROVE  SameBut(r, b, h)
  BY DEF SameBut

LEMMA SetTwice ==
  ASSUME NEW in, in = [j \in Id |-> in[j]], NEW i \in Id, NEW a, NEW b, NEW kn, NEW jn,
         kn = [in EXCEPT ![i] = a], jn = [kn EXCEPT ![i] = b]
  PROVE  jn = [in EXCEPT ![i] = b] /\ kn[i] = a
  OBVIOUS

\* The native side of an instance changes.
NativeChanged(in, jn, i, x) == jn = [in EXCEPT ![i].native = x]

LEMMA NativeChanges ==
  ASSUME NEW in, in = [j \in Id |-> in[j]], NEW i \in Id, IsInstance(in[i]), NEW x,
         NEW jn, NativeChanged(in, jn, i, x)
  PROVE  /\ Touched(in, jn, i, Built)
         /\ \A stage : Reached(in[i], stage) <=> Reached(jn[i], stage)
<1>1. PICK r : r = NativeSet(in[i], x)
  OBVIOUS
<1>2. SameBut(in[i], r, {"native"}) /\ SameBut(in[i], r, Built)
  <2>1. SameBut(in[i], r, {"native"})
    BY <1>1, FieldParts
  <2> QED
    BY <2>1 DEF SameBut, Built
<1>3. jn = [in EXCEPT ![i] = r]
  BY <1>1 DEF NativeSet, NativeChanged
<1>4. Touched(in, jn, i, Built) /\ jn[i] = r
  BY <1>2, <1>3, TouchedParts
<1>5. r.parsed = in[i].parsed /\ r.compiled = in[i].compiled /\ r.bytes = in[i].bytes
  BY <1>2 DEF SameBut, InstanceFields
<1> QED
  BY <1>4, <1>5 DEF Reached

LEMMA GotoKeeps ==
  ASSUME Good(inst, stack), stack # <<>>, Top.kind = "instantiate",
         NEW stage \in Stage, Goto(stage),
         Touched(inst, inst', Top.id, Built), Reached(inst'[Top.id], stage)
  PROVE  Good(inst', stack')
<1>1. PICK n, f : n = Len(stack) /\ f = AtSet(Top, stage)
  OBVIOUS
<1>2. IsTop(inst, stack, n, Top)
  BY <1>1, TopParts DEF Top
<1>3. SameFrame(Top, f) /\ f.at = stage /\ f.caught = Top.caught
  BY <1>1, <1>2, FrameChanges DEF IsTop
<1>4. stack' = [stack EXCEPT ![n] = f]
  BY <1>1 DEF Goto, AtSet, Top
<1>5. f.id = Top.id
  BY <1>3 DEF SameFrame
<1>6. /\ stack[n].kind = "instantiate" /\ SameFrame(stack[n], f) /\ f.caught = stack[n].caught
      /\ f.at \in Stage /\ Touched(inst, inst', f.id, Built) /\ Reached(inst'[f.id], f.at)
  BY <1>1, <1>3, <1>5 DEF Top
<1> QED
  BY ONLY Good(inst, stack), stack # <<>>, <1>1, <1>4, <1>6, AdvanceKeeps

LEMMA AtParts ==
  ASSUME Good(inst, stack), NEW stage, At(stage)
  PROVE  /\ stack # <<>> /\ Top.kind = "instantiate" /\ Top.at = stage /\ Top.id \in Id
         /\ inst = [j \in Id |-> inst[j]] /\ IsInstance(inst[Top.id]) /\ Story(inst[Top.id])
         /\ Reached(inst[Top.id], stage) /\ inst[Top.id].status = "building"
<1>1. stack # <<>> /\ Top.kind = "instantiate" /\ Top.at = stage
  BY DEF At
<1>2. IsTop(inst, stack, Len(stack), Top)
  BY <1>1, TopParts DEF Top
<1> QED
  BY <1>1, <1>2 DEF IsTop

LEMMA CreateKeeps ==
  ASSUME Good(inst, stack), Create
  PROVE  Good(inst', stack')
<1>1. At("create")
  BY DEF Create
<1>2. CASE inst' = [inst EXCEPT ![Top.id].native = NewRuntime(NewEnvironment)] /\ Goto("parse")
  <2>3. NativeChanged(inst, inst', Top.id, NewRuntime(NewEnvironment))
    BY <1>2 DEF NativeChanged
  <2>1. Touched(inst, inst', Top.id, Built)
    BY <1>1, <2>3, AtParts, NativeChanges
  <2>2. Reached(inst'[Top.id], "parse") /\ "parse" \in Stage
    BY DEF Reached, Stage
  <2> QED
    BY <1>1, <1>2, <2>1, <2>2, AtParts, GotoKeeps
<1>3. CASE Fails(NewEnvironment, "create", Plain("Error"))
  <2>1. Known(Plain("Error")) /\ Expected("create", Classified(Plain("Error")))
    BY KnownErrors, FailureClasses
  <2> QED
    BY <1>1, <1>3, <2>1, AtParts, FailsKeeps
<1> QED
  BY <1>2, <1>3 DEF Create

\* The bytes have been read as a module.
LEMMA ParseChanges ==
  ASSUME NEW in, in = [j \in Id |-> in[j]], NEW i \in Id, IsInstance(in[i]), NEW x,
         NEW jn, jn = [in EXCEPT ![i].native = x, ![i].parsed = in[i].bytes]
  PROVE  Touched(in, jn, i, Built) /\ Reached(jn[i], "load")
<1>1. PICK a, b : a = NativeSet(in[i], x) /\ b = ParsedSet(a, in[i].bytes)
  OBVIOUS
<1>2. SameBut(in[i], a, {"native"}) /\ SameBut(a, b, {"parsed"}) /\ b.parsed = in[i].bytes
  <2>1. SameBut(in[i], a, {"native"})
    BY <1>1, FieldParts
  <2>2. IsInstance(a)
    BY <2>1 DEF SameBut
  <2> QED
    BY <1>1, <2>1, <2>2, FieldParts
<1>3. SameBut(in[i], b, Built)
  BY <1>2, SameTwice DEF Built
<1>4. PICK kn : kn = [in EXCEPT ![i] = a]
  OBVIOUS
<1>5. kn[i] = a /\ jn = [kn EXCEPT ![i] = b]
  BY <1>1, <1>4 DEF NativeSet, ParsedSet
<1>6. jn = [in EXCEPT ![i] = b]
  BY <1>4, <1>5, SetTwice
<1>7. Touched(in, jn, i, Built) /\ jn[i] = b
  BY <1>3, <1>6, TouchedParts
<1>8. b.bytes = in[i].bytes
  BY <1>3 DEF SameBut, Built, InstanceFields
<1> QED
  BY <1>2, <1>7, <1>8 DEF Reached

LEMMA ParseKeeps ==
  ASSUME Good(inst, stack), Parse
  PROVE  Good(inst', stack')
<1>1. At("parse")
  BY DEF Parse
<1>2. PICK parsed : parsed = Parsed[Bytes(Top.id)]
  OBVIOUS
<1>3. IF Ok(parsed)
      THEN /\ inst' = [inst EXCEPT ![Top.id].native = parsed, ![Top.id].parsed = Bytes(Top.id)]
           /\ Goto("load")
      ELSE Fails(parsed, "parse", Thrown("CompileError"))
  BY <1>2, Zenon DEF Parse
<1>4. CASE Ok(parsed)
  <2>1. inst' = [inst EXCEPT ![Top.id].native = parsed, ![Top.id].parsed = inst[Top.id].bytes]
    BY <1>3, <1>4 DEF Bytes
  <2>2. Touched(inst, inst', Top.id, Built) /\ Reached(inst'[Top.id], "load")
    BY <1>1, <2>1, AtParts, ParseChanges
  <2>3. Goto("load") /\ "load" \in Stage
    BY <1>3, <1>4 DEF Stage
  <2> QED
    BY <1>1, <2>2, <2>3, AtParts, GotoKeeps
<1>5. CASE ~Ok(parsed)
  <2>1. Known(Thrown("CompileError")) /\ Expected("parse", Classified(Thrown("CompileError")))
    BY KnownErrors, FailureClasses
  <2> QED
    BY <1>1, <1>3, <1>5, <2>1, AtParts, FailsKeeps
<1> QED
  BY <1>4, <1>5

LEMMA LoadKeeps ==
  ASSUME Good(inst, stack), Load
  PROVE  Good(inst', stack')
<1>1. At("load")
  BY DEF Load
<1>2. PICK loaded : loaded = LoadModule(Native)
  OBVIOUS
<1>3. IF Ok(loaded)
      THEN inst' = [inst EXCEPT ![Top.id].native = loaded] /\ Goto("link")
      ELSE Fails(LoadFailure(loaded), "load", Thrown("CompileError"))
  BY <1>2, Zenon DEF Load
<1>4. CASE Ok(loaded)
  <2>3. NativeChanged(inst, inst', Top.id, loaded)
    BY <1>3, <1>4 DEF NativeChanged
  <2>1. Touched(inst, inst', Top.id, Built) /\ Reached(inst'[Top.id], "load")
    BY <1>1, <2>3, AtParts, NativeChanges
  <2>2. Goto("link") /\ "link" \in Stage /\ Reached(inst'[Top.id], "link")
    BY <1>3, <1>4, <2>1 DEF Stage, Reached
  <2> QED
    BY <1>1, <2>1, <2>2, AtParts, GotoKeeps
<1>5. CASE ~Ok(loaded)
  <2>1. Known(Thrown("CompileError")) /\ Expected("load", Classified(Thrown("CompileError")))
    BY KnownErrors, FailureClasses
  <2> QED
    BY <1>1, <1>3, <1>5, <2>1, AtParts, FailsKeeps
<1> QED
  BY <1>4, <1>5

\* One import is linked, or is not.
LinkChanged(in, jn, i, x, y) == jn = [in EXCEPT ![i].native = x, ![i].entries = Append(@, y)]

LEMMA LinkChanges ==
  ASSUME NEW in, in = [j \in Id |-> in[j]], NEW i \in Id, IsInstance(in[i]), NEW x, NEW y,
         NEW jn, LinkChanged(in, jn, i, x, y)
  PROVE  Touched(in, jn, i, Built) /\ \A stage : Reached(in[i], stage) <=> Reached(jn[i], stage)
<1>1. PICK a : a = NativeSet(in[i], x)
  OBVIOUS
<1>2. PICK b : b = EntriesSet(a, Append(a.entries, y))
  OBVIOUS
<1>3. SameBut(in[i], a, {"native"}) /\ SameBut(a, b, {"entries"})
  <2>1. SameBut(in[i], a, {"native"})
    BY <1>1, FieldParts
  <2>2. IsInstance(a)
    BY <2>1 DEF SameBut
  <2> QED
    BY <1>2, <2>1, <2>2, FieldParts
<1>4. SameBut(in[i], b, Built)
  BY <1>3, SameTwice DEF Built
<1>5. PICK kn : kn = [in EXCEPT ![i] = a]
  OBVIOUS
<1>6. kn[i] = a /\ jn = [kn EXCEPT ![i] = b]
  BY <1>1, <1>2, <1>5 DEF NativeSet, EntriesSet, LinkChanged
<1>7. jn = [in EXCEPT ![i] = b]
  BY <1>5, <1>6, SetTwice
<1>8. Touched(in, jn, i, Built) /\ jn[i] = b
  BY <1>4, <1>7, TouchedParts
<1>9. b.parsed = in[i].parsed /\ b.compiled = in[i].compiled /\ b.bytes = in[i].bytes
  BY <1>3 DEF SameBut, InstanceFields
<1> QED
  BY <1>8, <1>9 DEF Reached

LEMMA LinkKeeps ==
  ASSUME NEW s, Good(inst, s), s # <<>>, s[Len(s)].kind = "instantiate",
         NEW fn, Link(s[Len(s)].id, fn, s)
  PROVE  Good(inst', stack')
<1>1. PICK n, f, i : n = Len(s) /\ f = s[n] /\ i = f.id
  OBVIOUS
<1>2. IsTop(inst, s, n, f)
  BY <1>1, TopParts
<1>3. PICK g : g = inst[i].native.m.functions[s[Len(s)].next]
  OBVIOUS
<1>4. PICK linked : linked = LinkFunction(inst[i].native, g.import.module, g.import.field,
                       BuildSignature(TypeOf(inst[i].native, g)), Len(inst[i].entries) + 1)
  OBVIOUS
<1>5. PICK y : y = [module |-> g.import.module, field |-> g.import.field, fn |-> fn]
  OBVIOUS
<1>6. IF Ok(linked)
      THEN /\ inst' = [inst EXCEPT ![i].native = linked, ![i].entries = Append(@, y)]
           /\ stack' = [s EXCEPT ![Len(s)].next = @ + 1]
      ELSE /\ inst' = [inst EXCEPT ![i] = Failed(@, linked, "link", Thrown("LinkError"))]
           /\ stack' = Caught(SubSeq(s, 1, Len(s) - 1), Classified(Thrown("LinkError")))
  BY <1>1, <1>3, <1>4, <1>5, Zenon DEF Link
<1>7. CASE Ok(linked)
  <2>1. /\ Touched(inst, inst', i, Built)
        /\ \A stage : Reached(inst[i], stage) <=> Reached(inst'[i], stage)
    <3>1. LinkChanged(inst, inst', i, linked, y)
      BY <1>6, <1>7 DEF LinkChanged
    <3> QED
      BY <1>1, <1>2, <3>1, LinkChanges DEF IsTop
  <2>2. PICK a : a = NextSet(f, f.next + 1)
    OBVIOUS
  <2>3. SameFrame(f, a) /\ a.at = f.at /\ a.caught = f.caught
    BY <1>2, <2>2, FrameChanges DEF IsTop
  <2>4. stack' = [s EXCEPT ![n] = a]
    BY <1>1, <1>6, <1>7, <2>2 DEF NextSet
  <2>5. a.id = i
    BY <1>1, <2>3 DEF SameFrame
  <2>6. /\ s[n].kind = "instantiate" /\ SameFrame(s[n], a) /\ a.caught = s[n].caught
        /\ a.at \in Stage /\ Touched(inst, inst', a.id, Built) /\ Reached(inst'[a.id], a.at)
    BY <1>1, <1>2, <2>1, <2>3, <2>5 DEF IsTop
  <2> QED
    BY ONLY Good(inst, s), s # <<>>, <1>1, <2>4, <2>6, AdvanceKeeps
<1>8. CASE ~Ok(linked)
  <2>1. PICK e : e = Thrown("LinkError")
    OBVIOUS
  <2>2. Known(e) /\ Expected("link", Classified(e))
    BY <2>1, KnownErrors, FailureClasses
  <2>3. PICK m : m = n - 1
    OBVIOUS
  <2>4. m \in Nat /\ m < n /\ m + 1 = n /\ m + 2 .. n = {}
    BY <1>2, <2>3 DEF IsTop
  <2>5. /\ inst' = [inst EXCEPT ![i] = Failed(inst[i], linked, "link", e)]
        /\ stack' = Caught(SubSeq(s, 1, m), Classified(e))
    BY <1>1, <1>6, <1>8, <2>1, <2>3
  <2>6. KindAt(s, m + 1) = "instantiate" /\ i = IdAt(s, m + 1)
    BY <1>1, <1>2, <2>4 DEF IsTop
  <2>7. \A k \in m + 2 .. Len(s) : KindAt(s, k) # "instantiate"
    BY <1>1, <2>4
  <2> QED
    BY <1>1, <2>2, <2>4, <2>5, <2>6, <2>7, FailKeeps
<1> QED
  BY <1>7, <1>8

LEMMA ResolveImportKeeps ==
  ASSUME Good(inst, stack), NEW fn, ResolveImport(fn)
  PROVE  Good(inst', stack')
<1>1. At("link") /\ Link(Top.id, fn, stack)
  BY DEF ResolveImport
<1>2. stack # <<>> /\ stack[Len(stack)].kind = "instantiate" /\ Link(stack[Len(stack)].id, fn, stack)
  BY <1>1 DEF At, Top
<1> QED
  BY <1>2, LinkKeeps

\* What runs is called by what is innermost; it takes code, and builds nothing.
LEMMA CallKeeps ==
  ASSUME NEW in, NEW s, Good(in, s), NEW kind \in {"getter", "import", "run"}, NEW i \in Id, NEW at,
         NEW code, NEW f, f = Activation(kind, i, at, code), NEW t, t = Append(s, f),
         kind \in JsKinds => at = "js",
         kind = "run" => at \in {"start", "call"},
         kind \in JsKinds \/ at = "start" =>
           /\ s # <<>> /\ s[Len(s)].id = i
           /\ s[Len(s)].kind = IF kind = "import" THEN "run" ELSE "instantiate"
  PROVE  Good(in, t)
<1>1. PICK n : n = Len(s)
  OBVIOUS
<1>2. IsSeq(s) /\ n \in Nat /\ (s # <<>> => n > 0) /\ n + 1 > n
  BY <1>1, SeqParts DEF Good, Shape
<1>3. IsPushed(s, t, f)
  BY <1>2, PushParts
<1>4. IsFrame(f) /\ f.kind = kind /\ f.id = i /\ f.at = at /\ f.caught = NoError
  BY ActivationParts
<1>5. Len(t) = n + 1 /\ t[n + 1] = f /\ (s # <<>> => t[n] = s[n])
  BY <1>1, <1>2, <1>3 DEF IsPushed
<1>6. /\ KindAt(t, n + 1) = kind /\ IdAt(t, n + 1) = i /\ StageAt(t, n + 1) = at
      /\ CaughtAt(t, n + 1) = NoError
      /\ s # <<>> => KindAt(t, n) = s[n].kind /\ IdAt(t, n) = s[n].id
  BY <1>4, <1>5 DEF KindAt, IdAt, StageAt, CaughtAt
<1>7. Fits(t, n + 1)
  <2>1. PICK k : k = n + 1
    OBVIOUS
  <2>2. k - 1 = n /\ (s # <<>> => k > 1)
    BY <1>2, <2>1
  <2>3. /\ IsFrame(t[k]) /\ KindAt(t, k) \in FrameKind /\ KindAt(t, k) # "instantiate"
        /\ IdAt(t, k) \in Id /\ Known(CaughtAt(t, k))
    BY <1>4, <1>5, <1>6, <2>1, KnownErrors DEF FrameKind
  <2>4. /\ KindAt(t, k) \in JsKinds => StageAt(t, k) = "js"
        /\ KindAt(t, k) = "run" => StageAt(t, k) \in {"start", "call"}
    BY <1>6, <2>1
  <2>5. KindAt(t, k) \in JsKinds \/ StageAt(t, k) = "start" =>
          /\ k > 1 /\ IdAt(t, k - 1) = IdAt(t, k)
          /\ KindAt(t, k - 1) = IF KindAt(t, k) = "import" THEN "run" ELSE "instantiate"
    BY <1>1, <1>6, <2>1, <2>2
  <2>6. Fits(t, k)
    BY ONLY <2>3, <2>4, <2>5 DEF Fits, JsKinds
  <2> QED
    BY <2>1, <2>6
<1>8. Fits(t, Len(t)) /\ f.kind # "instantiate"
  BY <1>4, <1>5, <1>7
<1> QED
  BY ONLY Good(in, s), <1>3, <1>8, PushKeeps

LEMMA CallGetterKeeps ==
  ASSUME Good(inst, stack), CallGetter
  PROVE  Good(inst', stack')
<1>1. At("link") /\ stack' = Append(stack, Activation("getter", Top.id, "js", <<>>)) /\ inst' = inst
  BY DEF CallGetter
<1>2. Top.id \in Id /\ stack # <<>> /\ Top.kind = "instantiate"
  BY <1>1, AtParts
<1> QED
  BY <1>1, <1>2, CallKeeps DEF Top, JsKinds

LEMMA RefuseSignatureKeeps ==
  ASSUME Good(inst, stack), RefuseSignature
  PROVE  Good(inst', stack')
<1>1. At("link") /\ Fails(Native, "link", Thrown("LinkError"))
  BY DEF RefuseSignature
<1>2. Known(Thrown("LinkError")) /\ Expected("link", Classified(Thrown("LinkError")))
  BY KnownErrors, FailureClasses
<1> QED
  BY <1>1, <1>2, AtParts, FailsKeeps

LEMMA Untouched ==
  ASSUME NEW in, in = [j \in Id |-> in[j]], NEW i \in Id, IsInstance(in[i])
  PROVE  Touched(in, in, i, Built)
  BY DEF Touched, SameBut

LEMMA LinkedKeeps ==
  ASSUME Good(inst, stack), Linked
  PROVE  Good(inst', stack')
<1>1. At("link") /\ Goto("compile") /\ inst' = inst
  BY DEF Linked
<1>2. Touched(inst, inst', Top.id, Built) /\ Reached(inst[Top.id], "link")
  BY <1>1, AtParts, Untouched
<1>3. Reached(inst'[Top.id], "compile") /\ "compile" \in Stage
  BY <1>1, <1>2 DEF Reached, Stage
<1> QED
  BY <1>1, <1>2, <1>3, AtParts, GotoKeeps

LEMMA CompileChanges ==
  ASSUME NEW in, in = [j \in Id |-> in[j]], NEW i \in Id, IsInstance(in[i]), NEW x,
         Reached(in[i], "compile"),
         NEW jn, jn = [in EXCEPT ![i].native = x, ![i].compiled = in[i].bytes]
  PROVE  Touched(in, jn, i, Built) /\ Reached(jn[i], "start")
<1>1. PICK a, b : a = NativeSet(in[i], x) /\ b = CompiledSet(a, in[i].bytes)
  OBVIOUS
<1>2. SameBut(in[i], a, {"native"}) /\ SameBut(a, b, {"compiled"}) /\ b.compiled = in[i].bytes
  <2>1. SameBut(in[i], a, {"native"})
    BY <1>1, FieldParts
  <2>2. IsInstance(a)
    BY <2>1 DEF SameBut
  <2> QED
    BY <1>1, <2>1, <2>2, FieldParts
<1>3. SameBut(in[i], b, Built)
  BY <1>2, SameTwice DEF Built
<1>4. PICK kn : kn = [in EXCEPT ![i] = a]
  OBVIOUS
<1>5. kn[i] = a /\ jn = [kn EXCEPT ![i] = b]
  BY <1>1, <1>4 DEF NativeSet, CompiledSet
<1>6. jn = [in EXCEPT ![i] = b]
  BY <1>4, <1>5, SetTwice
<1>7. Touched(in, jn, i, Built) /\ jn[i] = b
  BY <1>3, <1>6, TouchedParts
<1>8. b.bytes = in[i].bytes /\ b.parsed = in[i].parsed
  BY <1>2 DEF SameBut, InstanceFields
<1>9. in[i].parsed = in[i].bytes
  BY DEF Reached
<1> QED
  BY <1>2, <1>7, <1>8, <1>9 DEF Reached

LEMMA CompileKeeps ==
  ASSUME Good(inst, stack), Compile
  PROVE  Good(inst', stack')
<1>1. At("compile")
  BY DEF Compile
<1>2. PICK compiled : compiled = CompileModule(Native, Binary[Bytes(Top.id)])
  OBVIOUS
<1>3. IF Ok(compiled)
      THEN /\ inst' = [inst EXCEPT ![Top.id].native = compiled, ![Top.id].compiled = Bytes(Top.id)]
           /\ Goto("start")
      ELSE Fails(compiled, "compile", Thrown("CompileError"))
  BY <1>2, Zenon DEF Compile
<1>4. CASE Ok(compiled)
  <2>1. inst' = [inst EXCEPT ![Top.id].native = compiled, ![Top.id].compiled = inst[Top.id].bytes]
    BY <1>3, <1>4 DEF Bytes
  <2>2. Touched(inst, inst', Top.id, Built) /\ Reached(inst'[Top.id], "start")
    BY <1>1, <2>1, AtParts, CompileChanges
  <2>3. Goto("start") /\ "start" \in Stage
    BY <1>3, <1>4 DEF Stage
  <2> QED
    BY <1>1, <2>2, <2>3, AtParts, GotoKeeps
<1>5. CASE ~Ok(compiled)
  <2>1. Known(Thrown("CompileError")) /\ Expected("compile", Classified(Thrown("CompileError")))
    BY KnownErrors, FailureClasses
  <2> QED
    BY <1>1, <1>3, <1>5, <2>1, AtParts, FailsKeeps
<1> QED
  BY <1>4, <1>5

\* Once the start function is called it is not called again.
StartTaken(in, jn, i) == jn = [in EXCEPT ![i].native.m.start = Unset]

LEMMA StartChanges ==
  ASSUME NEW in, in = [j \in Id |-> in[j]], NEW i \in Id, IsInstance(in[i]),
         NEW jn, StartTaken(in, jn, i)
  PROVE  /\ Touched(in, jn, i, Built)
         /\ \A stage : Reached(in[i], stage) <=> Reached(jn[i], stage)
<1>1. PICK x : x = [in[i].native EXCEPT !.m.start = Unset]
  OBVIOUS
<1>2. NativeChanged(in, jn, i, x)
  BY <1>1 DEF StartTaken, NativeChanged
<1> QED
  BY <1>2, NativeChanges

LEMMA StartKeeps ==
  ASSUME Good(inst, stack), Start
  PROVE  Good(inst', stack')
<1>1. At("start")
  BY DEF Start
<1>2. PICK start : start = Native.m.start
  OBVIOUS
<1>3. IF start = Unset THEN Goto("publish") /\ inst' = inst
      ELSE IF StartFails(Native) THEN Fails(Native, "start", Thrown("RuntimeError"))
      ELSE /\ stack' = Append([stack EXCEPT ![Len(stack)].at = "publish"],
                              Activation("run", Top.id, "start", CodeOf(Native, start + 1)))
           /\ inst' = [inst EXCEPT ![Top.id].native.m.start = Unset]
  BY <1>2, Zenon DEF Start
<1>4. "publish" \in Stage /\ \A r : Reached(r, "start") <=> Reached(r, "publish")
  BY DEF Stage, Reached
<1>5. CASE start = Unset
  <2>1. Touched(inst, inst', Top.id, Built) /\ Reached(inst'[Top.id], "publish")
    BY <1>1, <1>3, <1>4, <1>5, AtParts, Untouched
  <2> QED
    BY <1>1, <1>3, <1>4, <1>5, <2>1, AtParts, GotoKeeps
<1>6. CASE start # Unset /\ StartFails(Native)
  <2>1. Known(Thrown("RuntimeError")) /\ Expected("start", Classified(Thrown("RuntimeError")))
    BY KnownErrors, FailureClasses
  <2> QED
    BY <1>1, <1>3, <1>6, <2>1, AtParts, FailsKeeps
<1>7. CASE start # Unset /\ ~StartFails(Native)
  <2>1. StartTaken(inst, inst', Top.id)
    BY <1>3, <1>7 DEF StartTaken
  <2>2. Touched(inst, inst', Top.id, Built) /\ Reached(inst'[Top.id], "publish")
    BY <1>1, <1>4, <2>1, AtParts, StartChanges
  <2>3. PICK n, f : n = Len(stack) /\ f = AtSet(Top, "publish")
    OBVIOUS
  <2>4. PICK t : t = [stack EXCEPT ![n] = f]
    OBVIOUS
  <2>5. t = [stack EXCEPT ![Len(stack)].at = "publish"]
    BY <2>3, <2>4 DEF AtSet, Top
  <2>6. stack # <<>> /\ Top.kind = "instantiate" /\ IsTop(inst, stack, n, Top)
    BY <1>1, <2>3, TopParts DEF At, Top
  <2>7. SameFrame(Top, f) /\ f.at = "publish" /\ f.caught = Top.caught
    BY <2>3, <2>6, FrameChanges DEF IsTop
  <2>8. f.kind = "instantiate" /\ f.id = Top.id /\ f.id \in Id
    BY <2>6, <2>7 DEF SameFrame, IsTop
  <2>9. Good(inst', t)
    <3>1. /\ stack[n].kind = "instantiate" /\ SameFrame(stack[n], f) /\ f.caught = stack[n].caught
          /\ f.at \in Stage /\ Touched(inst, inst', f.id, Built) /\ Reached(inst'[f.id], f.at)
      BY <1>4, <2>2, <2>3, <2>6, <2>7, <2>8 DEF Top
    <3> QED
      BY ONLY Good(inst, stack), <2>3, <2>4, <2>6, <3>1, AdvanceKeeps
  <2>10. t # <<>> /\ t[Len(t)] = f
    <3>1. IsReplaced(stack, t, f) /\ n > 0
      BY <2>3, <2>4, <2>6, ReplaceParts DEF IsTop
    <3> QED
      BY <2>3, <3>1, SeqParts DEF IsReplaced
  <2>11. PICK code : code = CodeOf(Native, start + 1)
    OBVIOUS
  <2>12. stack' = Append(t, Activation("run", f.id, "start", code))
    BY <1>3, <1>7, <2>5, <2>8, <2>11
  <2> QED
    BY <2>8, <2>9, <2>10, <2>12, CallKeeps DEF JsKinds
<1> QED
  BY <1>5, <1>6, <1>7

LiveParts(r, t) ==
  /\ IsInstance(t) /\ t.status = "live" /\ t.promise = "none" /\ t.bytes = r.bytes
  /\ t.parsed = r.parsed /\ t.compiled = r.compiled /\ t.scanned = r.bytes
  /\ t.validated = r.validated

LEMMA Lives ==
  ASSUME NEW r, IsInstance(r), NEW x, NEW t,
         t = [r EXCEPT !.status = "live", !.scanned = r.bytes, !.exports = x, !.promise = "none"]
  PROVE  LiveParts(r, t)
  BY DEF LiveParts, IsInstance, InstanceFields

LEMMA PublishKeeps ==
  ASSUME Good(inst, stack), Publish
  PROVE  Good(inst', stack')
<1>1. At("publish") /\ stack' = Below
  BY DEF Publish
<1>2. PICK n, i : n = Len(stack) /\ i = Top.id
  OBVIOUS
<1>3. IsTop(inst, stack, n, Top) /\ Top.kind = "instantiate" /\ Top.at = "publish"
  BY <1>1, <1>2, TopParts DEF At, Top
<1>4. PICK x : x = ExportsObject(Native, Binary[Bytes(Top.id)])
  OBVIOUS
<1>5. PICK r : r = [inst[i] EXCEPT !.status = "live", !.scanned = inst[i].bytes, !.exports = x,
                     !.promise = "none"]
  OBVIOUS
<1>6. inst' = [inst EXCEPT ![i] = r]
  BY <1>2, <1>4, <1>5, Zenon DEF Publish, I, Bytes
<1>7. LiveParts(inst[i], r)
  BY <1>2, <1>3, <1>5, Lives DEF IsTop
<1>8. /\ inst[i].parsed = inst[i].bytes /\ inst[i].compiled = inst[i].bytes
      /\ inst[i].validated = inst[i].bytes
  BY <1>2, <1>3 DEF IsTop, Reached, Story
<1>9. Story(r) /\ r.status # "building"
  BY <1>7, <1>8 DEF LiveParts, Story, Status
<1>10. PICK m : m = n - 1
  OBVIOUS
<1>11. m \in Nat /\ m < n /\ m + 1 = n /\ m + 2 .. n = {} /\ m \in 0 .. n
  BY <1>3, <1>10 DEF IsTop
<1>12. IsCut(stack, stack', m)
  BY <1>1, <1>2, <1>3, <1>10, <1>11, CutParts DEF Below, IsTop
<1>13. KindAt(stack, m + 1) = "instantiate" /\ i = IdAt(stack, m + 1)
  BY <1>2, <1>3, <1>11 DEF IsTop
<1>14. \A k \in m + 2 .. Len(stack) : KindAt(stack, k) # "instantiate"
  BY <1>2, <1>11
<1>15. m < Len(stack)
  BY <1>2, <1>11
<1>16. /\ KindAt(stack, m + 1) = "instantiate" => i = IdAt(stack, m + 1)
       /\ KindAt(stack, m + 1) = "instantiate" => inst' = [inst EXCEPT ![i] = r]
       /\ KindAt(stack, m + 1) # "instantiate" => inst' = inst
  BY <1>6, <1>13
<1>17. m \in Nat /\ Story(r) /\ r.status # "building"
  BY <1>9, <1>11
<1> QED
  BY ONLY Good(inst, stack), <1>12, <1>14, <1>15, <1>16, <1>17, CutKeeps

-----------------------------------------------------------------------------
(* Running wasm, and JS.                                                   *)

LEMMA CutTwice ==
  ASSUME NEW s, IsSeq(s), NEW a \in 0 .. Len(s), NEW b \in 0 .. a
  PROVE  SubSeq(SubSeq(s, 1, a), 1, b) = SubSeq(s, 1, b)
<1>1. PICK S : s \in Seq(S)
  BY DEF IsSeq
<1>2. PICK t, u, v : t = SubSeq(s, 1, a) /\ u = SubSeq(t, 1, b) /\ v = SubSeq(s, 1, b)
  OBVIOUS
<1>3. t \in Seq(S) /\ Len(t) = a /\ \A k \in 1 .. a : t[k] = s[k]
  BY <1>1, <1>2
<1>4. u \in Seq(S) /\ Len(u) = b /\ \A k \in 1 .. b : u[k] = t[k]
  BY <1>2, <1>3
<1>5. v \in Seq(S) /\ Len(v) = b /\ \A k \in 1 .. b : v[k] = s[k]
  BY <1>1, <1>2
<1>6. \A k \in 1 .. b : u[k] = v[k]
  BY <1>3, <1>4, <1>5
<1>7. u = v
  BY <1>4, <1>5, <1>6, SeqEqual
<1> QED
  BY <1>2, <1>7

\* The two innermost frames, where the upper one needs the lower.
LEMMA TwoParts ==
  ASSUME NEW s, Shape(s), s # <<>>, NEW n, n = Len(s),
         KindAt(s, n) \in JsKinds \/ (KindAt(s, n) = "run" /\ StageAt(s, n) = "start")
  PROVE  /\ n \in Nat /\ n > 1 /\ n - 1 \in 1 .. n /\ Fits(s, n - 1)
         /\ IdAt(s, n - 1) = IdAt(s, n)
         /\ KindAt(s, n - 1) = IF KindAt(s, n) = "import" THEN "run" ELSE "instantiate"
<1>1. IsSeq(s) /\ n \in Nat /\ n > 0 /\ n \in 1 .. n
  BY SeqParts DEF Shape
<1>2. Fits(s, n)
  BY <1>1 DEF Shape
<1>3. n > 1
  BY <1>2 DEF Fits, JsKinds
<1>4. n - 1 \in 1 .. n
  BY <1>1, <1>3
<1>5. Fits(s, n - 1)
  BY <1>4 DEF Shape
<1> QED
  BY <1>1, <1>2, <1>3, <1>4, <1>5 DEF Fits, JsKinds

\* An error leaves the run.
LEMMA RaiseKeeps ==
  ASSUME Good(inst, stack), stack # <<>>, Top.kind = "run", NEW e, Known(e), Raise(e)
  PROVE  Good(inst', stack')
<1>1. PICK n : n = Len(stack)
  OBVIOUS
<1>2. IsTop(inst, stack, n, Top)
  BY <1>1, TopParts DEF Top
<1>3. KindAt(stack, n) = "run" /\ n \in Nat /\ n > 0 /\ IsSeq(stack) /\ n - 1 \in 0 .. n
  BY <1>2 DEF IsTop
<1>4. Below = SubSeq(stack, 1, n - 1) /\ Len(Below) = n - 1
  <2>1. IsCut(stack, Below, n - 1)
    BY <1>1, <1>3, CutParts DEF Below
  <2> QED
    BY <1>1, <2>1 DEF Below, IsCut
<1>5. CASE Top.at = "start"
  <2>1. StageAt(stack, n) = "start"
    BY <1>2, <1>5 DEF IsTop
  <2>2. /\ n > 1 /\ IdAt(stack, n - 1) = IdAt(stack, n)
        /\ KindAt(stack, n - 1) = "instantiate"
    <3>1. Shape(stack)
      BY DEF Good
    <3> QED
      BY <1>1, <1>3, <2>1, <3>1, TwoParts
  <2>3. PICK stage : stage = IF e.origin = "RuntimeError" THEN "start" ELSE "js"
    OBVIOUS
  <2>4. /\ inst' = [inst EXCEPT ![Top.id] = Failed(@, @.native, stage, e)]
        /\ stack' = Caught(SubSeq(Below, 1, Len(Below) - 1), Classified(e))
    BY <1>5, <2>3, Zenon DEF Raise
  <2>5. PICK m, i : m = n - 2 /\ i = Top.id
    OBVIOUS
  <2>6. m \in Nat /\ m < n /\ m + 1 = n - 1 /\ m + 2 = n /\ m \in 0 .. n - 1
    BY <1>3, <2>2, <2>5
  <2>7. stack' = Caught(SubSeq(stack, 1, m), Classified(e))
    <3>1. SubSeq(Below, 1, m) = SubSeq(stack, 1, m)
      BY <1>1, <1>3, <1>4, <2>6, CutTwice
    <3>2. Len(Below) - 1 = m
      BY <1>3, <1>4, <2>5
    <3> QED
      BY <2>4, <3>1, <3>2
  <2>8. \A k \in m + 2 .. n : KindAt(stack, k) # "instantiate"
    BY <1>3, <2>6
  <2>9. Expected(stage, Classified(e))
    <3>1. Classified(e).class = e.origin
      BY ClassifiedParts DEF IsClassified
    <3> QED
      BY <2>3, <3>1 DEF Expected
  <2>10. KindAt(stack, m + 1) = "instantiate" /\ i = IdAt(stack, m + 1)
    BY <1>2, <2>2, <2>5, <2>6 DEF IsTop
  <2>11. inst' = [inst EXCEPT ![i] = Failed(inst[i], inst[i].native, stage, e)]
    BY <2>4, <2>5
  <2> QED
    BY <1>1, <2>6, <2>7, <2>8, <2>9, <2>10, <2>11, FailKeeps
<1>6. CASE Top.at # "start"
  <2>1. stack' = Caught(Below, e) /\ inst' = inst
    BY <1>6, Zenon DEF Raise
  <2>2. PICK m : m = n - 1
    OBVIOUS
  <2>3. m \in Nat /\ m < n /\ m + 1 .. n = {n}
    BY <1>3, <2>2
  <2>4. \A k \in m + 1 .. Len(stack) : KindAt(stack, k) # "instantiate"
    BY <1>1, <1>3, <2>3
  <2>5. Good(inst, Caught(Below, e))
    BY <1>1, <1>4, <2>2, <2>3, <2>4, LeaveKeeps
  <2> QED
    BY <2>1, <2>5
<1> QED
  BY <1>5, <1>6

LEMMA RunTrapsKeeps ==
  ASSUME Good(inst, stack), RunTraps
  PROVE  Good(inst', stack')
<1>1. stack # <<>> /\ Top.kind = "run" /\ Raise(Thrown("RuntimeError"))
  BY DEF RunTraps, Runs
<1>2. Known(Thrown("RuntimeError"))
  BY KnownErrors
<1> QED
  BY <1>1, <1>2, RaiseKeeps

\* The innermost frame that builds nothing leaves.
LEMMA BelowKeeps ==
  ASSUME Good(inst, stack), stack # <<>>, Top.kind # "instantiate"
  PROVE  Good(inst, Below)
<1>1. PICK n, m : n = Len(stack) /\ m = n - 1
  OBVIOUS
<1>2. IsTop(inst, stack, n, Top)
  BY <1>1, TopParts DEF Top
<1>3. m \in Nat /\ m < n /\ m + 1 .. n = {n} /\ KindAt(stack, n) # "instantiate"
  BY <1>1, <1>2 DEF IsTop
<1>4. \A k \in m + 1 .. Len(stack) : KindAt(stack, k) # "instantiate"
  BY <1>1, <1>3
<1>5. Below = SubSeq(stack, 1, m)
  BY <1>1 DEF Below
<1> QED
  BY <1>1, <1>3, <1>4, <1>5, LeaveKeeps

LEMMA RunReturnsKeeps ==
  ASSUME Good(inst, stack), RunReturns
  PROVE  Good(inst', stack')
<1>1. stack # <<>> /\ Top.kind # "instantiate" /\ stack' = Below /\ inst' = inst
  BY DEF RunReturns, Runs
<1> QED
  BY <1>1, BelowKeeps

LEMMA CallImportKeeps ==
  ASSUME Good(inst, stack), CallImport
  PROVE  Good(inst', stack')
<1>1. stack # <<>> /\ Top.kind = "run"
  BY DEF CallImport, Runs
<1>2. CASE Entry(Top.id, Head(Top.code)).fn = Missing
  <2>1. Raise(Plain("Error")) /\ Known(Plain("Error"))
    BY <1>2, KnownErrors, Zenon DEF CallImport
  <2> QED
    BY <1>1, <2>1, RaiseKeeps
<1>3. CASE Entry(Top.id, Head(Top.code)).fn # Missing
  <2>1. /\ stack' = Append([stack EXCEPT ![Len(stack)].code = Tail(@)],
                           Activation("import", Top.id, "js", <<>>))
        /\ inst' = inst
    BY <1>3, Zenon DEF CallImport
  <2>2. PICK n, f : n = Len(stack) /\ f = CodeSet(Top, Tail(Top.code))
    OBVIOUS
  <2>3. PICK t : t = [stack EXCEPT ![n] = f]
    OBVIOUS
  <2>4. t = [stack EXCEPT ![Len(stack)].code = Tail(@)]
    BY <2>2, <2>3 DEF CodeSet, Top
  <2>5. IsTop(inst, stack, n, Top)
    BY <1>1, <2>2, TopParts DEF Top
  <2>6. SameFrame(Top, f) /\ f.at = Top.at /\ f.caught = Top.caught
    BY <2>2, <2>5, FrameChanges DEF IsTop
  <2>7. f.kind = "run" /\ f.id = Top.id /\ f.id \in Id
    BY <1>1, <2>5, <2>6 DEF SameFrame, IsTop
  <2>8. IsReplaced(stack, t, f) /\ n > 0
    BY <2>2, <2>3, <2>5, ReplaceParts DEF IsTop
  <2>9. Good(inst, t)
    <3>1. /\ Len(stack) > 0 /\ SameFrame(stack[Len(stack)], f) /\ Known(f.caught)
          /\ f.at = StageAt(stack, Len(stack)) /\ f.kind # "instantiate"
      BY <2>2, <2>5, <2>6, <2>7, <2>8 DEF IsTop
    <3> QED
      BY ONLY Good(inst, stack), <2>8, <3>1, TopKeeps
  <2>10. t # <<>> /\ t[Len(t)] = f
    BY <2>2, <2>8, SeqParts DEF IsReplaced
  <2>11. stack' = Append(t, Activation("import", f.id, "js", <<>>))
    BY <2>1, <2>4, <2>7
  <2> QED
    BY <2>1, <2>7, <2>9, <2>10, <2>11, CallKeeps DEF JsKinds
<1> QED
  BY <1>2, <1>3

LEMMA JsReturnsKeeps ==
  ASSUME Good(inst, stack), JsReturns
  PROVE  Good(inst', stack')
<1>1. stack # <<>> /\ Shape(stack)
  BY DEF JsReturns, Good
<1>2. CASE Top.kind = "getter" /\ \E fn \in Functions \cup {Missing} : Link(Top.id, fn, Below)
  <2>1. PICK fn : Link(Top.id, fn, Below)
    BY <1>2
  <2>2. PICK n : n = Len(stack)
    OBVIOUS
  <2>3. IsTop(inst, stack, n, Top)
    BY <1>1, <2>2, TopParts DEF Top
  <2>4. KindAt(stack, n) = "getter" /\ IdAt(stack, n) = Top.id /\ IsSeq(stack)
    BY <1>2, <2>3 DEF IsTop
  <2>5. /\ n \in Nat /\ n > 1 /\ KindAt(stack, n - 1) = "instantiate"
        /\ IdAt(stack, n - 1) = Top.id
    BY <1>1, <2>2, <2>4, TwoParts DEF JsKinds
  <2>6. IsCut(stack, Below, n - 1)
    <3>1. n - 1 \in 0 .. n
      BY <2>5
    <3> QED
      BY <2>2, <2>4, <3>1, CutParts DEF Below
  <2>7. Below # <<>> /\ Below[Len(Below)] = stack[n - 1]
    <3>1. IsSeq(Below) /\ Len(Below) = n - 1 /\ n - 1 > 0 /\ n - 1 \in 1 .. n - 1
      BY <2>5, <2>6 DEF IsCut
    <3> QED
      BY <2>6, <3>1, SeqParts DEF IsCut
  <2>8. Below[Len(Below)].kind = "instantiate" /\ Below[Len(Below)].id = Top.id
    BY <2>5, <2>7 DEF KindAt, IdAt
  <2>9. Good(inst, Below)
    BY <1>1, <1>2, BelowKeeps
  <2> QED
    BY <2>1, <2>7, <2>8, <2>9, LinkKeeps
<1>3. CASE Top.kind = "import" /\ stack' = Below /\ inst' = inst
  BY <1>1, <1>3, BelowKeeps
<1> QED
  BY <1>2, <1>3 DEF JsReturns

LEMMA JsThrowsKeeps ==
  ASSUME Good(inst, stack), JsThrows
  PROVE  Good(inst', stack')
<1>1. stack # <<>> /\ Shape(stack) /\ Top.kind \in JsKinds
  BY DEF JsThrows, Good
<1>2. PICK n, owner : n = Len(stack) /\ owner = stack[n - 1]
  OBVIOUS
<1>3. IsTop(inst, stack, n, Top)
  BY <1>1, <1>2, TopParts DEF Top
<1>4. /\ KindAt(stack, n) = Top.kind /\ IdAt(stack, n) = Top.id /\ IsSeq(stack)
      /\ Top.kind # "instantiate" /\ Top.kind \in {"getter", "import"} /\ Known(Top.caught)
  BY <1>1, <1>3 DEF IsTop, JsKinds
<1>5. /\ n \in Nat /\ n > 1 /\ Fits(stack, n - 1) /\ IdAt(stack, n - 1) = Top.id
      /\ KindAt(stack, n - 1) = IF Top.kind = "import" THEN "run" ELSE "instantiate"
  BY <1>1, <1>2, <1>4, TwoParts
<1>6. owner.kind = KindAt(stack, n - 1) /\ owner.id = Top.id /\ owner.at = StageAt(stack, n - 1)
  BY <1>2, <1>5 DEF KindAt, IdAt, StageAt
<1>7. Len(Below) = n - 1 /\ Below[Len(Below)] = owner /\ n - 1 \in 0 .. n
  <2>1. n - 1 \in 0 .. n /\ n - 1 \in 1 .. n - 1
    BY <1>5
  <2>2. IsCut(stack, Below, n - 1)
    BY <1>2, <1>4, <2>1, CutParts DEF Below
  <2> QED
    BY <1>2, <2>1, <2>2 DEF IsCut
<1>8. \A b \in 0 .. n - 1 : SubSeq(Below, 1, b) = SubSeq(stack, 1, b)
  BY <1>2, <1>4, <1>7, CutTwice DEF Below
<1>9. PICK fails, left, e :
        /\ fails = (owner.kind = "instantiate" \/ owner.at = "start")
        /\ left = IF Top.kind = "import" /\ owner.at = "start" THEN 2 ELSE 1
        /\ e \in {Plain("Js"), Top.caught}
        /\ inst' = IF fails THEN [inst EXCEPT ![owner.id] = Failed(@, @.native, "js", e)] ELSE inst
        /\ stack' = Caught(SubSeq(Below, 1, Len(Below) - left), IF fails THEN Classified(e) ELSE e)
  BY <1>7, Zenon DEF JsThrows
<1>10. Known(e)
  BY <1>4, <1>9, KnownErrors
<1>11. Expected("js", Classified(e))
  BY FailureClasses
<1>12. PICK m : m = n - 1 - left
  OBVIOUS
<1>13. CASE owner.kind = "instantiate"
  <2>1. Top.kind = "getter" /\ left = 1 /\ fails
    BY <1>4, <1>5, <1>6, <1>9, <1>13
  <2>2. m = n - 2 /\ m \in Nat /\ m < n /\ m + 1 = n - 1 /\ m + 2 .. n = {n} /\ m \in 0 .. n - 1
    BY <1>5, <1>12, <2>1
  <2>3. /\ inst' = [inst EXCEPT ![owner.id] = Failed(inst[owner.id], inst[owner.id].native, "js", e)]
        /\ stack' = Caught(SubSeq(stack, 1, m), Classified(e))
    BY <1>7, <1>8, <1>9, <1>12, <2>1, <2>2
  <2>4. \A k \in m + 2 .. Len(stack) : KindAt(stack, k) # "instantiate"
    BY <1>2, <1>4, <2>2
  <2>5. KindAt(stack, m + 1) = "instantiate" /\ owner.id = IdAt(stack, m + 1)
    BY <1>5, <1>6, <1>13, <2>2
  <2> QED
    BY <1>2, <1>10, <1>11, <2>2, <2>3, <2>4, <2>5, FailKeeps
<1>14. CASE owner.kind = "run" /\ owner.at = "start"
  <2>1. Top.kind = "import" /\ left = 2 /\ fails
    BY <1>4, <1>5, <1>6, <1>9, <1>14
  <2>2. /\ n - 1 > 1 /\ KindAt(stack, n - 1 - 1) = "instantiate"
        /\ IdAt(stack, n - 1 - 1) = owner.id
    BY <1>5, <1>6, <1>14 DEF Fits
  <2>3. /\ m = n - 3 /\ m \in Nat /\ m < n /\ m + 1 = n - 1 - 1 /\ m + 2 .. n = {n - 1, n}
        /\ m \in 0 .. n - 1
    BY <1>5, <1>12, <2>1, <2>2
  <2>4. /\ inst' = [inst EXCEPT ![owner.id] = Failed(inst[owner.id], inst[owner.id].native, "js", e)]
        /\ stack' = Caught(SubSeq(stack, 1, m), Classified(e))
    BY <1>7, <1>8, <1>9, <1>12, <2>1, <2>3
  <2>5. \A k \in m + 2 .. Len(stack) : KindAt(stack, k) # "instantiate"
    BY <1>2, <1>4, <1>6, <1>14, <2>3
  <2>6. KindAt(stack, m + 1) = "instantiate" /\ owner.id = IdAt(stack, m + 1)
    BY <2>2, <2>3
  <2> QED
    BY <1>2, <1>10, <1>11, <2>3, <2>4, <2>5, <2>6, FailKeeps
<1>15. CASE owner.kind = "run" /\ owner.at # "start"
  <2>1. left = 1 /\ ~fails
    BY <1>9, <1>15
  <2>2. m = n - 2 /\ m \in Nat /\ m < n /\ m + 1 .. n = {n - 1, n} /\ m \in 0 .. n - 1
    BY <1>5, <1>12, <2>1
  <2>3. inst' = inst /\ stack' = Caught(SubSeq(stack, 1, m), e)
    BY <1>7, <1>8, <1>9, <1>12, <2>1, <2>2
  <2>4. \A k \in m + 1 .. Len(stack) : KindAt(stack, k) # "instantiate"
    BY <1>2, <1>4, <1>6, <1>15, <2>2
  <2>5. Good(inst, Caught(SubSeq(stack, 1, m), e))
    BY <1>2, <1>10, <2>2, <2>4, LeaveKeeps
  <2> QED
    BY <2>3, <2>5
<1> QED
  BY <1>5, <1>6, <1>13, <1>14, <1>15

LEMMA CallExportKeeps ==
  ASSUME Good(inst, stack), NEW i \in Id, CallExport(i)
  PROVE  Good(inst', stack')
<1>1. PICK f : stack' = Append(stack, Activation("run", i, "call", CodeOf(inst[i].native, f)))
  BY Zenon DEF CallExport
<1>2. PICK code : code = CodeOf(inst[i].native, f)
  OBVIOUS
<1>3. stack' = Append(stack, Activation("run", i, "call", code)) /\ inst' = inst
  BY <1>1, <1>2 DEF CallExport
<1>4. "run" \in {"getter", "import", "run"} /\ "run" \notin JsKinds /\ "call" \in {"start", "call"}
      /\ "call" # "start"
  BY DEF JsKinds
<1>5. Good(inst, stack')
  BY <1>3, <1>4, CallKeeps
<1> QED
  BY <1>3, <1>5

\* What happens to instances that are not being built.
LEMMA OutsideKeeps ==
  ASSUME NEW in, NEW s, Good(in, s), NEW jn, jn = [i \in Id |-> jn[i]],
         \A i \in Id : \/ jn[i] = in[i]
                       \/ in[i].status # "building" /\ jn[i].status # "building" /\ Story(jn[i])
  PROVE  Good(jn, s)
<1>1. Matches(in, s) /\ Shape(s)
  BY DEF Good
<1>2. \A i \in Id : Story(jn[i]) /\ (jn[i].status = "building" <=> IsBuilt(s, i))
  BY <1>1 DEF Matches
<1>3. ASSUME NEW k \in 1 .. Len(s), KindAt(s, k) = "instantiate"
      PROVE  Reached(jn[IdAt(s, k)], StageAt(s, k))
  <2>1. IdAt(s, k) \in Id
    BY <1>1 DEF Shape, Fits
  <2>2. IsBuilt(s, IdAt(s, k))
    BY <1>3 DEF IsBuilt, Builds
  <2>3. in[IdAt(s, k)].status = "building"
    BY <1>1, <2>1, <2>2 DEF Matches
  <2>4. jn[IdAt(s, k)] = in[IdAt(s, k)]
    BY <2>1, <2>3
  <2> QED
    BY <1>1, <1>3, <2>4 DEF Matches
<1> QED
  BY <1>1, <1>2, <1>3 DEF Good, Matches

LEMMA GoneParts ==
  ASSUME NEW r, Story(r), r.status = "live", NEW native, NEW t,
         t = [Remains(r, native) EXCEPT !.status = "gone"]
  PROVE  Story(t) /\ t.status # "building"
<1>1. PICK a : a = Remains(r, native)
  OBVIOUS
<1>2. IsInstance(a) /\ a.promise = r.promise
  BY <1>1, RemainsParts DEF Story, InstanceFields
<1>3. IsInstance(t) /\ t.status = "gone" /\ t.promise = a.promise
  BY <1>1, <1>2 DEF IsInstance, InstanceFields
<1> QED
  BY <1>2, <1>3 DEF Story, Status

LEMMA CollectKeeps ==
  ASSUME Good(inst, stack), NEW i \in Id, Collect(i)
  PROVE  Good(inst', stack')
<1>1. PICK r : r = [Remains(inst[i], inst[i].native) EXCEPT !.status = "gone"]
  OBVIOUS
<1>2. inst[i].status = "live" /\ inst' = [inst EXCEPT ![i] = r] /\ stack' = stack
  BY <1>1 DEF Collect
<1>3. inst = [j \in Id |-> inst[j]] /\ Story(inst[i])
  BY DEF Good, Matches
<1>4. Story(r) /\ r.status # "building"
  BY <1>1, <1>2, <1>3, GoneParts
<1>5. inst' = [j \in Id |-> inst'[j]] /\ \A j \in Id : inst'[j] = inst[j] \/ (j = i /\ inst'[j] = r)
  BY <1>2, <1>3
<1> QED
  BY <1>2, <1>4, <1>5, OutsideKeeps

-----------------------------------------------------------------------------
(* The JS side.                                                            *)

Begun(image, promise, validated) ==
  [Unborn EXCEPT !.status = "building", !.bytes = image, !.promise = promise,
     !.validated = validated]

LEMMA BegunParts ==
  ASSUME NEW image, NEW promise \in {"none", "pending"}, NEW validated, validated = image,
         NEW r, r = Begun(image, promise, validated)
  PROVE  Story(r) /\ r.status = "building"
<1>1. IsInstance(Unborn)
  BY UnbornParts
<1>2. IsInstance(r) /\ r.status = "building" /\ r.bytes = image /\ r.promise = promise
      /\ r.validated = validated
  BY <1>1 DEF IsInstance, InstanceFields, Begun
<1> QED
  BY <1>2 DEF Story, Status

LEMMA BeginsKeeps ==
  ASSUME Good(inst, stack), NEW i \in Id, inst[i].status = "free", NEW image,
         NEW promise \in {"none", "pending"}, NEW validated, validated = image,
         Begin(i, image, promise, validated)
  PROVE  Good(inst', stack')
<1>1. PICK r, f :
        /\ r = Begun(image, promise, validated)
        /\ f = Activation("instantiate", i, "create", <<>>)
  OBVIOUS
<1>2. inst' = [inst EXCEPT ![i] = r] /\ stack' = Append(stack, f)
  BY <1>1, Zenon DEF Begin, Begun
<1>3. Story(r) /\ r.status = "building"
  BY <1>1, BegunParts
<1>4. IsFrame(f) /\ f.kind = "instantiate" /\ f.id = i /\ f.at = "create" /\ Known(f.caught)
  BY <1>1, ActivationParts, KnownErrors
<1>5. IsPushed(stack, stack', f)
  BY <1>2, PushParts DEF Good, Shape
<1>6. inst[i].status # "building"
  OBVIOUS
<1> QED
  BY ONLY Good(inst, stack), i \in Id, <1>2, <1>3, <1>4, <1>5, <1>6, BeginKeeps

LEMMA NewInstanceKeeps ==
  ASSUME Good(inst, stack), NEW i \in Id, NewInstance(i)
  PROVE  Good(inst', stack')
<1>1. PICK promise \in {"none", "pending"} :
        Begin(i, ModuleBytes, promise, IF jsModule.from = "view" THEN jsModule.image ELSE ModuleBytes)
  BY Zenon DEF NewInstance
<1>2. PICK validated : validated = IF jsModule.from = "view" THEN jsModule.image ELSE ModuleBytes
  OBVIOUS
<1>3. validated = ModuleBytes
  BY <1>2 DEF ModuleBytes
<1>4. inst[i].status = "free"
  BY DEF NewInstance, Unused
<1>5. PICK image : image = ModuleBytes
  OBVIOUS
<1>6. Begin(i, image, promise, validated)
  BY <1>1, <1>2, <1>5
<1> QED
  BY <1>3, <1>4, <1>5, <1>6, BeginsKeeps

LEMMA RejectedParts ==
  ASSUME NEW r, r = [Unborn EXCEPT !.status = "failed", !.error = Plain("CompileError"),
                       !.failed = "parse"]
  PROVE  Story(r) /\ r.status # "building"
<1>1. IsInstance(Unborn) /\ Unborn.promise = "none"
  BY UnbornParts
<1>2. PICK e : e = Plain("CompileError")
  OBVIOUS
<1>3. r = [Unborn EXCEPT !.status = "failed", !.error = e, !.failed = "parse"]
  BY <1>2
<1>4. IsInstance(r) /\ r.status = "failed" /\ r.error = e /\ r.failed = "parse" /\ r.promise = "none"
  BY <1>1, <1>3 DEF IsInstance, InstanceFields
<1>5. e.class = "CompileError" /\ e.origin = "CompileError" /\ e.tag = "none"
  BY <1>2 DEF Plain
<1>6. Reported("parse", e)
  BY <1>5 DEF Reported, Expected
<1> QED
  BY <1>4, <1>6 DEF Story, Status

LEMMA InstantiateKeeps ==
  ASSUME Good(inst, stack), NEW i \in Id, Instantiate(i)
  PROVE  Good(inst', stack')
<1>1. inst[i].status = "free"
  BY DEF Instantiate, Unused
<1>2. PICK r : r = [Unborn EXCEPT !.status = "failed", !.error = Plain("CompileError"),
                      !.failed = "parse"]
  OBVIOUS
<1>3. Begin(i, content, "pending", content) \/ (inst' = [inst EXCEPT ![i] = r] /\ stack' = stack)
  BY <1>2, Zenon DEF Instantiate
<1>4. CASE Begin(i, content, "pending", content)
  BY <1>1, <1>4, BeginsKeeps
<1>5. CASE inst' = [inst EXCEPT ![i] = r] /\ stack' = stack
  <2>1. Story(r) /\ r.status # "building"
    BY <1>2, RejectedParts
  <2>2. inst = [j \in Id |-> inst[j]]
    BY DEF Good
  <2>3. inst' = [j \in Id |-> inst'[j]] /\ \A j \in Id : inst'[j] = inst[j] \/ (j = i /\ inst'[j] = r)
    BY <1>5, <2>2
  <2> QED
    BY <1>1, <1>5, <2>1, <2>3, OutsideKeeps
<1> QED
  BY <1>3, <1>4, <1>5

LEMMA NewModuleKeeps ==
  ASSUME Good(inst, stack), NewModule
  PROVE  Good(inst', stack')
<1>1. inst' = inst /\ (stack' = stack \/ Rejects(Plain("CompileError")))
  BY Zenon DEF NewModule
<1>2. CASE stack' = stack
  BY <1>1, <1>2
<1>3. CASE Rejects(Plain("CompileError"))
  <2>1. stack' = Caught(stack, Plain("CompileError")) /\ Known(Plain("CompileError"))
    BY <1>3, KnownErrors DEF Rejects
  <2> QED
    BY <1>1, <2>1, CaughtKeeps
<1> QED
  BY <1>1, <1>2, <1>3

LEMMA ReloadKeeps ==
  ASSUME Good(inst, stack), Reload
  PROVE  Good(inst', stack')
<1>1. /\ inst' = [i \in Id |->
           IF inst[i].status = "live" THEN [Remains(inst[i], inst[i].native) EXCEPT !.status = "gone"]
           ELSE inst[i]]
      /\ stack' = stack
  BY DEF Reload
<1>2. ASSUME NEW i \in Id, inst'[i] # inst[i]
      PROVE  inst[i].status # "building" /\ inst'[i].status # "building" /\ Story(inst'[i])
  <2>1. inst[i].status = "live" /\ inst'[i] = [Remains(inst[i], inst[i].native) EXCEPT !.status = "gone"]
    BY <1>1, <1>2
  <2>2. Story(inst[i])
    BY DEF Good, Matches
  <2>3. Story(inst'[i]) /\ inst'[i].status # "building"
    BY <2>1, <2>2, GoneParts
  <2> QED
    BY <2>1, <2>3
<1>3. inst' = [i \in Id |-> inst'[i]]
  BY <1>1
<1> QED
  BY <1>1, <1>2, <1>3, OutsideKeeps

-----------------------------------------------------------------------------
(* The runtime.                                                            *)

LEMMA NewRuntimeParts ==
  ASSUME NEW platform, NEW old, NEW reloads
  PROVE  HostOK(NewRuntimeOf(platform, old, reloads))
  BY DEF NewRuntimeOf, NewTurboModule, HostOK

LEMMA ReloadHost ==
  ASSUME HostOK(host), Reload
  PROVE  HostOK(host')
  BY NewRuntimeParts DEF Reload

\* Where install() answers that the bindings are there, they are.
LEMMA InstallParts ==
  ASSUME NEW h, HostOK(h), NEW holder \in BOOLEAN, NEW x, x = Install(h, holder)
  PROVE  HostOK([x.host EXCEPT !.imported = x.ok])
<1>1. CASE h.turbo.installed
  BY <1>1 DEF Install, HostOK
<1>2. CASE ~h.turbo.installed /\ ~holder
  BY <1>2 DEF Install, HostOK
<1>3. CASE ~h.turbo.installed /\ holder
  BY <1>3 DEF Install, HostOK
<1> QED
  BY <1>1, <1>2, <1>3

LEMMA ImportHost ==
  ASSUME HostOK(host), ImportPackage
  PROVE  HostOK(host')
<1>1. PICK h : h = [host EXCEPT !.turbo.created = TRUE, !.bound = @ \/ host.platform = "ios"]
  OBVIOUS
<1>2. HostOK(h)
  BY <1>1 DEF HostOK
<1>3. \/ h.bound /\ host' = [h EXCEPT !.imported = TRUE]
      \/ \E holder \in BOOLEAN :
           host' = [Install(h, holder).host EXCEPT !.imported = Install(h, holder).ok]
  BY <1>1, Zenon DEF ImportPackage
<1>4. CASE h.bound /\ host' = [h EXCEPT !.imported = TRUE]
  BY <1>2, <1>4 DEF HostOK
<1>5. CASE \E holder \in BOOLEAN :
             host' = [Install(h, holder).host EXCEPT !.imported = Install(h, holder).ok]
  <2>1. PICK holder \in BOOLEAN :
          host' = [Install(h, holder).host EXCEPT !.imported = Install(h, holder).ok]
    BY <1>5
  <2> QED
    BY <1>2, <2>1, InstallParts
<1> QED
  BY <1>3, <1>4, <1>5

-----------------------------------------------------------------------------
(* The theorems.                                                           *)

LEMMA InitInv ==
  ASSUME Init
  PROVE  Inv
<1>1. PICK x : HostOK(x) /\ host = x
  BY NewRuntimeParts DEF Init
<1>2. inst = [i \in Id |-> Unborn] /\ stack = <<>> /\ calls = 0
  BY DEF Init
<1>3. IsSeq(stack) /\ Len(stack) = 0 /\ 1 .. Len(stack) = {}
  BY <1>2 DEF IsSeq
<1>4. Shape(stack)
  BY <1>3 DEF Shape, Once
<1>5. \A i : ~IsBuilt(stack, i)
  BY <1>3 DEF IsBuilt
<1>6. \A i \in Id : inst[i] = Unborn
  BY <1>2
<1>7. Matches(inst, stack)
  BY <1>3, <1>5, <1>6, UnbornParts DEF Matches
<1>8. inst = [i \in Id |-> inst[i]]
  BY <1>2
<1>9. calls \in 0 .. MaxCalls
  BY <1>2, BoundAssumption
<1> QED
  BY <1>1, <1>4, <1>7, <1>8, <1>9 DEF Inv, Good

LEMMA NativeKeeps ==
  ASSUME Good(inst, stack), NativeStep
  PROVE  Good(inst', stack') /\ calls' = calls
<1>1. calls' = calls
  BY DEF NativeStep, Create, Parse, Load, ResolveImport, CallGetter, RefuseSignature, Linked, Compile, Start,
         Publish, RunTraps, CallImport, RunReturns
<1>2. Good(inst', stack')
  <2>1. CASE Create
    BY <2>1, CreateKeeps
  <2>2. CASE Parse
    BY <2>2, ParseKeeps
  <2>3. CASE Load
    BY <2>3, LoadKeeps
  <2>13. CASE CallGetter
    BY <2>13, CallGetterKeeps
  <2>4. CASE \E fn \in Functions \cup {Missing} : ResolveImport(fn)
    BY <2>4, ResolveImportKeeps
  <2>5. CASE RefuseSignature
    BY <2>5, RefuseSignatureKeeps
  <2>6. CASE Linked
    BY <2>6, LinkedKeeps
  <2>7. CASE Compile
    BY <2>7, CompileKeeps
  <2>8. CASE Start
    BY <2>8, StartKeeps
  <2>9. CASE Publish
    BY <2>9, PublishKeeps
  <2>10. CASE RunTraps
    BY <2>10, RunTrapsKeeps
  <2>11. CASE CallImport
    BY <2>11, CallImportKeeps
  <2>12. CASE RunReturns
    BY <2>12, RunReturnsKeeps
  <2> QED
    BY <2>1, <2>2, <2>3, <2>4, <2>5, <2>6, <2>7, <2>8, <2>9, <2>10, <2>11, <2>12, <2>13 DEF NativeStep
<1> QED
  BY <1>1, <1>2

LEMMA JsLeavesKeeps ==
  ASSUME Good(inst, stack), JsLeaves
  PROVE  Good(inst', stack') /\ calls' = calls
<1>1. calls' = calls
  BY DEF JsLeaves, JsReturns, JsThrows
<1>2. Good(inst', stack')
  BY JsReturnsKeeps, JsThrowsKeeps DEF JsLeaves
<1> QED
  BY <1>1, <1>2

LEMMA JsActsKeeps ==
  ASSUME Good(inst, stack), calls \in 0 .. MaxCalls, JsActs
  PROVE  Good(inst', stack') /\ calls' \in 0 .. MaxCalls
<1>1. CASE WriteBuffer
  BY <1>1 DEF WriteBuffer
<1>2. ASSUME NEW i \in Id, CallExport(i)
      PROVE  Good(inst', stack') /\ calls' \in 0 .. MaxCalls
  <2>1. calls' = calls + 1 /\ calls < MaxCalls
    BY <1>2 DEF CallExport
  <2>2. calls' \in 0 .. MaxCalls
    BY <2>1, BoundAssumption
  <2> QED
    BY <1>2, <2>2, CallExportKeeps
<1>3. ASSUME NEW i \in Id, Collect(i)
      PROVE  Good(inst', stack') /\ calls' \in 0 .. MaxCalls
  <2>1. calls' = calls
    BY <1>3 DEF Collect
  <2> QED
    BY <1>3, <2>1, CollectKeeps
<1> QED
  BY <1>1, <1>2, <1>3 DEF JsActs

LEMMA NextKeeps ==
  ASSUME Inv, [Next]_vars
  PROVE  Inv'
<1>1. Good(inst, stack) /\ calls \in 0 .. MaxCalls /\ HostOK(host)
  BY DEF Inv
<1>2. ASSUME Good(inst', stack'), calls' \in 0 .. MaxCalls, HostOK(host')
      PROVE  Inv'
  BY <1>2 DEF Inv
<1>3. CASE ImportPackage
  <2>1. HostOK(host')
    BY <1>1, <1>3, ImportHost
  <2>2. inst' = inst /\ stack' = stack /\ calls' = calls
    BY <1>3 DEF ImportPackage, instanceVars
  <2> QED
    BY <1>1, <1>2, <2>1, <2>2
<1>4. CASE Reload
  <2>1. HostOK(host')
    BY <1>1, <1>4, ReloadHost
  <2>2. calls' = calls
    BY <1>4 DEF Reload
  <2> QED
    BY <1>1, <1>2, <1>4, <2>1, <2>2, ReloadKeeps
<1>5. CASE NewModule
  <2>1. calls' = calls /\ host' = host
    BY <1>5 DEF NewModule
  <2> QED
    BY <1>1, <1>2, <1>5, <2>1, NewModuleKeeps
<1>6. ASSUME NEW i \in Id, NewInstance(i)
      PROVE  Inv'
  <2>1. calls' = calls /\ host' = host
    BY <1>6 DEF NewInstance
  <2> QED
    BY <1>1, <1>2, <1>6, <2>1, NewInstanceKeeps
<1>7. ASSUME NEW i \in Id, Instantiate(i)
      PROVE  Inv'
  <2>1. calls' = calls /\ host' = host
    BY <1>7 DEF Instantiate
  <2> QED
    BY <1>1, <1>2, <1>7, <2>1, InstantiateKeeps
<1>8. CASE NativeActs
  <2>1. NativeStep /\ host' = host
    BY <1>8 DEF NativeActs, OfInstances
  <2> QED
    BY <1>1, <1>2, <2>1, NativeKeeps
<1>9. CASE JsFinishes
  <2>1. JsLeaves /\ host' = host
    BY <1>9 DEF JsFinishes, OfInstances
  <2> QED
    BY <1>1, <1>2, <2>1, JsLeavesKeeps
<1>10. CASE OfInstances(JsActs)
  <2>1. JsActs /\ host' = host
    BY <1>10 DEF OfInstances
  <2> QED
    BY <1>1, <1>2, <2>1, JsActsKeeps
<1>11. CASE UNCHANGED vars
  BY <1>1, <1>2, <1>11 DEF vars, instanceVars
<1> QED
  BY <1>3, <1>4, <1>5, <1>6, <1>7, <1>8, <1>9, <1>10, <1>11 DEF Next

\* The stack is what native code and JS can be in, and every instance is in a state
\* that what runs for it explains.
THEOREM Invariant == Spec => []Inv
<1>1. Init => Inv
  BY InitInv
<1>2. Inv /\ [Next]_vars => Inv'
  BY NextKeeps
<1> QED
  BY <1>1, <1>2, PTL DEF Spec

\* Everything is a value of its kind, an instance is being built exactly while an
\* activation of instantiate for it is on the stack, and only then its promise is
\* pending (react-native-webassembly.cpp:803, core.ts:499).
THEOREM TypesHold == Spec => []TypeOK
<1>1. ASSUME Inv
      PROVE  TypeOK
  <2>1. Good(inst, stack) /\ calls \in 0 .. MaxCalls
    BY <1>1 DEF Inv
  <2>2. ASSUME NEW i \in Id
        PROVE  /\ inst[i].status \in Status /\ inst[i].promise \in {"none", "pending"}
               /\ inst[i].promise = "pending" => inst[i].status = "building"
    BY <2>1 DEF Good, Matches, Story
  <2>3. ASSUME NEW i \in Id
        PROVE  inst[i].status = "building" <=>
                 \E k \in 1 .. Len(stack) : stack[k].kind = "instantiate" /\ stack[k].id = i
    BY <2>1 DEF Good, Matches, IsBuilt, Builds, KindAt, IdAt
  <2>4. ASSUME NEW k \in 1 .. Len(stack)
        PROVE  stack[k].kind \in JsKinds <=> stack[k].at = "js"
    <3>1. Fits(stack, k)
      BY <2>1 DEF Good, Shape
    <3> QED
      BY <3>1 DEF Fits, KindAt, StageAt, FrameKind, Stage, JsKinds
  <2> QED
    BY <2>1, <2>2, <2>3, <2>4 DEF TypeOK, Status
<1> QED
  BY <1>1, Invariant, PTL

\* An instance JS can use was parsed, compiled and exported from the bytes its
\* Module was validated with, whatever JS that ran in between wrote to its buffer
\* (react-native-webassembly.cpp:803).
THEOREM InstancesHaveOneImage == Spec => []OneImage
<1>1. Inv => OneImage
  BY DEF Inv, Good, Matches, Story, OneImage
<1> QED
  BY <1>1, Invariant, PTL

\* An instantiation that fails is reported with the class of what failed, and with
\* no tag, through however many instantiations, getters, imports and start functions
\* the error came up (core.ts:55, react-native-webassembly.cpp:181).
THEOREM ErrorsAreClassified == Spec => []ErrorsKeepClass
<1>1. Inv => ErrorsKeepClass
  BY DEF Inv, Good, Matches, Story, Reported, ErrorsKeepClass
<1> QED
  BY <1>1, Invariant, PTL

\* Where the package could be imported the bindings are installed, on both
\* platforms and after any number of reloads (WebassemblyModule.java:11-14, index.tsx:21).
THEOREM ImportInstalls == Spec => []InstalledWhereImported
<1>1. Inv => InstalledWhereImported
  BY DEF Inv, HostOK, InstalledWhereImported
<1> QED
  BY <1>1, Invariant, PTL
=============================================================================
