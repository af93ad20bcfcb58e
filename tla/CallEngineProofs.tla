--------------------------- MODULE CallEngineProofs ---------------------------
(***************************************************************************)
(* Proofs about CallEngine, for every number of activations, stack size,   *)
(* frame size, recursion limit and set of memory addresses, and that it    *)
(* implements JsCalls.                                                     *)
(***************************************************************************)
EXTENDS CallEngine, FiniteSetTheorems, SequenceTheorems, TLAPS

-----------------------------------------------------------------------------
(* The inductive invariant, about any sequence of frames so that lemmas    *)
(* can say what a push and a pop do to it.                                 *)

\* Which activation may lie on which: start only at the bottom, calls on wasm,
\* exports called by JS.
Shape(fs) ==
  \A k \in 1 .. Len(fs) :
    /\ fs[k].via = "start" => k = 1 /\ fs[k].kind = "wasm"
    /\ fs[k].via = "call"  => k > 1 /\ fs[k - 1].kind = "wasm"
    /\ fs[k].via = "entry" => k = 1 \/ fs[k - 1].kind = "import"

\* sp is where runtime->stack belongs while the first n frames are there.
BaseOf(fs, n, sp) ==
  /\ (\A i \in 1 .. n : fs[i].kind = "wasm") => sp = 0
  /\ \A i \in 1 .. n :
       fs[i].kind = "import" /\ (\A j \in i + 1 .. n : fs[j].kind = "wasm") => sp = fs[i].base

\* An import has saved where runtime->stack was; an entry started there.
Saved(fs) ==
  \A k \in 1 .. Len(fs) :
    /\ fs[k].kind = "import" => BaseOf(fs, k - 1, fs[k].saved)
    /\ fs[k].via = "entry" => BaseOf(fs, k - 1, fs[k].base)

\* Frames lie above the live slots of the wasm frames below them.
Nested(fs) ==
  \A k \in 1 .. Len(fs) : \A i \in 1 .. k - 1 :
    fs[i].kind = "wasm" => fs[i].base + LiveSlots <= fs[k].base

Numbered(fs, n) ==
  \A k \in 1 .. Len(fs) : fs[k].id <= n /\ \A i \in 1 .. k - 1 : fs[i].id < fs[k].id

Structure(fs, sp, n) ==
  Shape(fs) /\ Saved(fs) /\ Nested(fs) /\ Numbered(fs, n) /\ BaseOf(fs, Len(fs), sp)

Called(fs) == {k \in 1 .. Len(fs) : fs[k].via = "call"}

Depth(fs, d) == d = Cardinality(Called(fs)) /\ d <= MaxCallDepth

Intact(fs, sl) ==
  \A k \in 1 .. Len(fs) : fs[k].kind = "wasm" =>
    \A s \in fs[k].base .. fs[k].base + LiveSlots - 1 : s \in DOMAIN sl => sl[s] = fs[k].id

\* The frames of exports called by JS start within the allocation.
Within(fs) == \A k \in 1 .. Len(fs) : fs[k].via = "entry" => fs[k].base < Allocation

TrapInWasm == trap # "none" => frames # <<>> /\ Top.kind = "wasm"

Received ==
  \/ received = None
  \/ \E v \in 0 .. MaxCalls : received = Value(v)
  \/ \E x \in Activation \cup {Trapped, Missing} : received = Exception(x)

SlotsType == [0 .. Allocation - 1 -> 0 .. MaxCalls]

\* All that is said of the frames and the operand stack.
FramesOK ==
  /\ frames \in Seq(FrameType) /\ slots \in SlotsType
  /\ stackBase \in Nat /\ callDepth \in Nat /\ calls \in 0 .. MaxCalls /\ overrun \in BOOLEAN
  /\ Structure(frames, stackBase, calls)
  /\ Depth(frames, callDepth)
  /\ Intact(frames, slots)
  /\ ~overrun => Within(frames)

\* What is left of the types.
ControlOK ==
  /\ phase \in {"starting", "live", "failed"}
  /\ maxStack \in Nat
  /\ mallocated \in Addr
  /\ trap \in {"none", "wasm", "js"}
  /\ pending \in Activation \cup {None, Trapped, Missing}
  /\ lastCalled \in Activation \cup {None}

Inv ==
  /\ ControlOK /\ Received /\ FramesOK
  /\ TrapInWasm /\ MemoryPointerFresh /\ ExceptionPendingOnlyInFlight

-----------------------------------------------------------------------------
\* The sizes are numbers.
LEMMA SlotsNat ==
  /\ StackSlots \in Nat /\ Slack \in Nat /\ MaxSlots \in Nat /\ LiveSlots \in Nat
  /\ ArgSlots \in Nat /\ MaxCallDepth \in Nat /\ MaxCalls \in Nat /\ Allocation \in Nat
  /\ 0 < LiveSlots /\ LiveSlots <= MaxSlots /\ 0 < ArgSlots /\ ArgSlots <= MaxSlots
  /\ 0 < MaxCalls
  BY SlotAssumption DEF Allocation

-----------------------------------------------------------------------------
(* Sequences of frames.                                                    *)

\* Same except for the pointers to the memory.
Alike(fs, gs) ==
  /\ Len(gs) = Len(fs)
  /\ \A k \in 1 .. Len(fs) :
       /\ gs[k].id = fs[k].id /\ gs[k].kind = fs[k].kind /\ gs[k].via = fs[k].via
       /\ gs[k].base = fs[k].base /\ gs[k].saved = fs[k].saved

\* The fields of a frame of a sequence.
LEMMA FrameFields ==
  ASSUME NEW fs \in Seq(FrameType)
  PROVE  /\ Len(fs) \in Nat
         /\ fs # <<>> => Len(fs) > 0 /\ Len(fs) \in 1 .. Len(fs)
         /\ \A k \in 1 .. Len(fs) :
              /\ fs[k] \in FrameType
              /\ fs[k].id \in Nat /\ fs[k].id \in Activation
              /\ fs[k].kind \in {"wasm", "import"} /\ fs[k].via \in {"start", "entry", "call"}
              /\ fs[k].base \in Nat /\ fs[k].saved \in Nat
<1>1. Len(fs) \in Nat /\ \A k \in 1 .. Len(fs) : fs[k] \in FrameType
  OBVIOUS
<1>2. ASSUME NEW f \in FrameType
      PROVE  /\ f.id \in Nat /\ f.id \in Activation
             /\ f.kind \in {"wasm", "import"} /\ f.via \in {"start", "entry", "call"}
             /\ f.base \in Nat /\ f.saved \in Nat
  BY SlotsNat DEF FrameType, Activation
<1>3. fs # <<>> => Len(fs) > 0 /\ Len(fs) \in 1 .. Len(fs)
  OBVIOUS
<1> QED
  BY <1>1, <1>2, <1>3

\* What Append gives.
LEMMA AppendFrame ==
  ASSUME NEW fs \in Seq(FrameType), NEW f \in FrameType
  PROVE  /\ Append(fs, f) \in Seq(FrameType)
         /\ Len(Append(fs, f)) = Len(fs) + 1
         /\ \A k \in 1 .. Len(fs) : Append(fs, f)[k] = fs[k]
         /\ Append(fs, f)[Len(fs) + 1] = f
  OBVIOUS

\* What is left when the innermost frame goes.
LEMMA RemoveFrame ==
  ASSUME NEW fs \in Seq(FrameType), fs # <<>>
  PROVE  /\ SubSeq(fs, 1, Len(fs) - 1) \in Seq(FrameType)
         /\ Len(SubSeq(fs, 1, Len(fs) - 1)) = Len(fs) - 1
         /\ \A k \in 1 .. Len(fs) - 1 : SubSeq(fs, 1, Len(fs) - 1)[k] = fs[k]
<1> DEFINE n == Len(fs) - 1
<1>1. n \in Nat /\ \A k \in 1 .. n : fs[k] \in FrameType
  OBVIOUS
<1> HIDE DEF n
<1>2. /\ SubSeq(fs, 1, n) \in Seq(FrameType)
      /\ Len(SubSeq(fs, 1, n)) = IF 1 <= n THEN n - 1 + 1 ELSE 0
      /\ \A k \in 1 .. n - 1 + 1 : SubSeq(fs, 1, n)[k] = fs[1 + k - 1]
  BY <1>1, SubSeqProperties
<1>3. /\ SubSeq(fs, 1, n) \in Seq(FrameType) /\ Len(SubSeq(fs, 1, n)) = n
      /\ \A k \in 1 .. n : SubSeq(fs, 1, n)[k] = fs[k]
  BY <1>1, <1>2
<1> QED
  BY <1>3 DEF n

\* A frame is pushed by a call from wasm, or by JS where runtime->stack is.
LEMMA PushStructure ==
  ASSUME NEW fs \in Seq(FrameType), NEW f \in FrameType, NEW n \in Nat, NEW sp \in Nat,
         NEW new \in Nat,
         Structure(fs, sp, n), f.id = n + 1, f.via \in {"entry", "call"},
         f.via = "call" => fs # <<>> /\ fs[Len(fs)].kind = "wasm" /\ f.base = fs[Len(fs)].base + LiveSlots,
         f.via = "entry" => (fs = <<>> \/ fs[Len(fs)].kind = "import") /\ f.base = sp,
         f.kind = "wasm" => new = sp,
         f.kind = "import" => f.saved = sp /\ new = f.base
  PROVE  Structure(Append(fs, f), new, n + 1)
<1> DEFINE gs == Append(fs, f)
<1>1. /\ Len(gs) = Len(fs) + 1 /\ Len(fs) \in Nat
      /\ \A k \in 1 .. Len(fs) : gs[k] = fs[k] /\ fs[k] \in FrameType
      /\ gs[Len(fs) + 1] = f
  BY AppendFrame
<1>2. fs # <<>> => Len(fs) > 0
  OBVIOUS
<1> HIDE DEF gs
<1>3. Shape(gs)
  BY <1>1, <1>2 DEF Structure, Shape
<1>4. \A k \in 1 .. Len(fs), m \in Nat : BaseOf(fs, k - 1, m) => BaseOf(gs, k - 1, m)
  BY <1>1 DEF BaseOf
<1>5. BaseOf(gs, Len(fs), sp)
  BY <1>1 DEF Structure, BaseOf
<1>6. Saved(gs)
  <2> SUFFICES ASSUME NEW k \in 1 .. Len(gs)
               PROVE  /\ gs[k].kind = "import" => BaseOf(gs, k - 1, gs[k].saved)
                      /\ gs[k].via = "entry" => BaseOf(gs, k - 1, gs[k].base)
    BY DEF Saved
  <2>1. CASE k = Len(fs) + 1
    BY <2>1, <1>1, <1>5
  <2>2. CASE k \in 1 .. Len(fs)
    <3>1. gs[k] = fs[k] /\ fs[k].saved \in Nat /\ fs[k].base \in Nat
      BY <2>2, <1>1, FrameFields
    <3> QED
      BY <2>2, <3>1, <1>4 DEF Structure, Saved
  <2> QED
    BY <1>1, <2>1, <2>2
<1>7. Nested(gs)
  <2> SUFFICES ASSUME NEW k \in 1 .. Len(gs), NEW i \in 1 .. k - 1, gs[i].kind = "wasm"
               PROVE  gs[i].base + LiveSlots <= gs[k].base
    BY DEF Nested
  <2>1. CASE k \in 1 .. Len(fs)
    BY <2>1, <1>1 DEF Structure, Nested
  <2>2. CASE k = Len(fs) + 1
    <3>1. i \in 1 .. Len(fs) /\ gs[i] = fs[i] /\ gs[k] = f /\ fs # <<>>
      BY <2>2, <1>1
    <3>2. i # Len(fs) => fs[i].base + LiveSlots <= fs[Len(fs)].base
      BY <3>1 DEF Structure, Nested
    <3>3. LiveSlots \in Nat /\ fs[Len(fs)].base \in Nat /\ fs[i].base \in Nat
      BY <3>1, FrameFields, SlotsNat
    <3>4. CASE f.via = "call"
      <4>1. f.base = fs[Len(fs)].base + LiveSlots
        BY <3>4
      <4>2. i = Len(fs) \/ fs[i].base + LiveSlots <= fs[Len(fs)].base
        BY <3>2
      <4> QED
        BY <3>1, <3>3, <4>1, <4>2
    <3>5. CASE f.via = "entry"
      <4>1. fs[Len(fs)].kind = "import"
        BY <3>5, <3>1
      <4>2. sp = fs[Len(fs)].base
        BY <4>1, <3>1 DEF Structure, BaseOf
      <4> QED
        BY <4>1, <4>2, <3>1, <3>2, <3>5
    <3> QED
      BY <3>4, <3>5
  <2> QED
    BY <1>1, <2>1, <2>2
<1>8. Numbered(gs, n + 1)
  <2>1. \A k \in 1 .. Len(fs) : fs[k].id \in Int
    BY <1>1 DEF FrameType, Activation
  <2> QED
    BY <1>1, <2>1 DEF Structure, Numbered
<1>9. BaseOf(gs, Len(gs), new)
  <2>1. f.kind \in {"wasm", "import"}
    BY DEF FrameType
  <2> QED
    BY <1>1, <1>5, <2>1 DEF BaseOf
<1> QED
  BY <1>3, <1>6, <1>7, <1>8, <1>9 DEF Structure, gs

\* The innermost frame goes; runtime->stack is what an import had saved.
LEMMA PopStructure ==
  ASSUME NEW fs \in Seq(FrameType), fs # <<>>, NEW n \in Nat, NEW sp \in Nat, NEW new \in Nat,
         Structure(fs, sp, n),
         fs[Len(fs)].kind = "wasm" => new = sp,
         fs[Len(fs)].kind = "import" => new = fs[Len(fs)].saved
  PROVE  Structure(SubSeq(fs, 1, Len(fs) - 1), new, n)
<1> DEFINE gs == SubSeq(fs, 1, Len(fs) - 1)
<1>1. /\ Len(gs) = Len(fs) - 1 /\ Len(fs) \in Nat /\ Len(fs) > 0
      /\ \A k \in 1 .. Len(fs) - 1 : gs[k] = fs[k]
  BY RemoveFrame, FrameFields
<1> HIDE DEF gs
<1>2. \A k \in 1 .. Len(fs), m \in Nat : BaseOf(fs, k - 1, m) => BaseOf(gs, k - 1, m)
  <2> SUFFICES ASSUME NEW k \in 1 .. Len(fs), NEW m \in Nat, BaseOf(fs, k - 1, m)
               PROVE  BaseOf(gs, k - 1, m)
    OBVIOUS
  <2>1. \A i \in 1 .. k - 1 : gs[i] = fs[i]
    BY <1>1
  <2>2. k - 1 \in Nat
    BY <1>1
  <2> QED
    BY <2>1, <2>2 DEF BaseOf
<1>3. Shape(gs) /\ Nested(gs) /\ Numbered(gs, n)
  <2>1. Shape(gs)
    BY <1>1 DEF Structure, Shape
  <2>2. Nested(gs)
    BY <1>1 DEF Structure, Nested
  <2>3. Numbered(gs, n)
    BY <1>1 DEF Structure, Numbered
  <2> QED
    BY <2>1, <2>2, <2>3
<1>4. Saved(gs)
  <2> SUFFICES ASSUME NEW k \in 1 .. Len(gs)
               PROVE  /\ gs[k].kind = "import" => BaseOf(gs, k - 1, gs[k].saved)
                      /\ gs[k].via = "entry" => BaseOf(gs, k - 1, gs[k].base)
    BY DEF Saved
  <2>1. gs[k] = fs[k] /\ k \in 1 .. Len(fs)
    BY <1>1
  <2>2. fs[k].saved \in Nat /\ fs[k].base \in Nat
    BY <2>1, FrameFields
  <2> QED
    BY <2>1, <2>2, <1>2 DEF Structure, Saved
<1>5. BaseOf(gs, Len(gs), new)
  <2>1. fs[Len(fs)].kind \in {"wasm", "import"}
    BY FrameFields
  <2>2. CASE fs[Len(fs)].kind = "wasm"
    BY <1>1, <2>2 DEF Structure, BaseOf
  <2>3. CASE fs[Len(fs)].kind = "import"
    <3>1. BaseOf(fs, Len(fs) - 1, new)
      BY <1>1, <2>3 DEF Structure, Saved
    <3> QED
      BY <3>1, <1>1, <1>2
  <2> QED
    BY <2>1, <2>2, <2>3
<1> QED
  BY <1>3, <1>4, <1>5 DEF Structure, gs

\* The structure does not speak of the pointers to the memory.
LEMMA AlikeStructure ==
  ASSUME NEW fs, NEW gs, NEW n, NEW sp, Len(fs) \in Nat, Alike(fs, gs), Structure(fs, sp, n)
  PROVE  Structure(gs, sp, n)
<1>1. Shape(gs) /\ Nested(gs) /\ Numbered(gs, n)
  BY DEF Alike, Structure, Shape, Nested, Numbered
<1>2. \A k \in 1 .. Len(fs) + 1 : \A m : BaseOf(fs, k - 1, m) => BaseOf(gs, k - 1, m)
  BY DEF Alike, BaseOf
<1>3. Saved(gs)
  BY <1>2 DEF Alike, Structure, Saved
<1>4. BaseOf(gs, Len(gs), sp)
  BY <1>2 DEF Alike, Structure, BaseOf
<1> QED
  BY <1>1, <1>3, <1>4 DEF Structure

-----------------------------------------------------------------------------
(* Depth.                                                                  *)

\* The calls among finitely many frames are finitely many.
LEMMA CalledFinite ==
  ASSUME NEW fs \in Seq(FrameType)
  PROVE  IsFiniteSet(Called(fs)) /\ Cardinality(Called(fs)) \in Nat
<1>1. Len(fs) \in Nat
  BY FrameFields
<1>2. IsFiniteSet(1 .. Len(fs))
  BY <1>1, FS_Interval
<1>3. Called(fs) \in SUBSET (1 .. Len(fs))
  BY DEF Called
<1>4. IsFiniteSet(Called(fs))
  BY <1>2, <1>3, FS_Subset
<1> QED
  BY <1>4, FS_CardinalityType

\* A call counts up, an entry does not.
LEMMA PushDepth ==
  ASSUME NEW fs \in Seq(FrameType), NEW f \in FrameType, NEW d \in Nat, Depth(fs, d)
  PROVE  /\ f.via = "call" /\ d < MaxCallDepth => Depth(Append(fs, f), d + 1)
         /\ f.via # "call" => Depth(Append(fs, f), d)
<1> DEFINE gs == Append(fs, f)
           n  == Len(fs) + 1
<1>1. /\ Len(gs) = n /\ n \in Nat /\ Len(fs) = n - 1
      /\ \A k \in 1 .. n - 1 : gs[k] = fs[k]
      /\ gs[n] = f
  BY AppendFrame, FrameFields
<1>2. IsFiniteSet(Called(fs)) /\ n \notin Called(fs)
  BY CalledFinite, <1>1 DEF Called
<1> HIDE DEF gs, n
<1>3. f.via = "call" => Called(gs) = Called(fs) \cup {n}
  BY <1>1 DEF Called
<1>4. f.via # "call" => Called(gs) = Called(fs)
  BY <1>1 DEF Called
<1>5. Cardinality(Called(fs) \cup {n}) = Cardinality(Called(fs)) + 1
  BY <1>2, FS_AddElement
<1>6. f.via = "call" /\ d < MaxCallDepth => Depth(gs, d + 1)
  <2> SUFFICES ASSUME f.via = "call", d < MaxCallDepth
               PROVE  Depth(gs, d + 1)
    OBVIOUS
  <2>1. Cardinality(Called(gs)) = d + 1
    BY <1>3, <1>5 DEF Depth
  <2> QED
    BY <2>1, SlotsNat DEF Depth
<1>7. f.via # "call" => Depth(gs, d)
  BY <1>4 DEF Depth
<1> QED
  BY <1>6, <1>7 DEF gs

\* A call that goes counts down.
LEMMA PopDepth ==
  ASSUME NEW fs \in Seq(FrameType), fs # <<>>, NEW d \in Nat, Depth(fs, d)
  PROVE  /\ fs[Len(fs)].via = "call" => d - 1 \in Nat /\ Depth(SubSeq(fs, 1, Len(fs) - 1), d - 1)
         /\ fs[Len(fs)].via # "call" => Depth(SubSeq(fs, 1, Len(fs) - 1), d)
<1> DEFINE gs == SubSeq(fs, 1, Len(fs) - 1)
           n  == Len(fs)
<1>1. /\ Len(gs) = n - 1 /\ n \in Nat /\ n \in 1 .. n
      /\ \A k \in 1 .. n - 1 : gs[k] = fs[k]
  BY RemoveFrame, FrameFields
<1>2. IsFiniteSet(Called(fs)) /\ Cardinality(Called(fs)) \in Nat
  BY CalledFinite
<1> HIDE DEF gs
<1>3. Called(gs) = Called(fs) \ {n}
  BY <1>1 DEF Called
<1>4. n \in Called(fs) <=> fs[n].via = "call"
  BY <1>1 DEF Called
<1> HIDE DEF n
<1>5. Cardinality(Called(fs) \ {n}) = IF n \in Called(fs) THEN Cardinality(Called(fs)) - 1
                                                       ELSE Cardinality(Called(fs))
  BY <1>2, FS_RemoveElement
<1>6. n \in Called(fs) => Cardinality(Called(fs)) # 0
  BY <1>2, FS_EmptySet
<1>7. fs[n].via = "call" => d - 1 \in Nat /\ Depth(gs, d - 1)
  BY <1>2, <1>3, <1>4, <1>5, <1>6, SlotsNat DEF Depth
<1>8. fs[n].via # "call" => Depth(gs, d)
  BY <1>3, <1>4, <1>5 DEF Depth
<1> QED
  BY <1>7, <1>8 DEF gs, n

-----------------------------------------------------------------------------
(* Slots.                                                                  *)

Written(sl, b, n, id) == [s \in DOMAIN sl |-> IF s \in b .. b + n - 1 THEN id ELSE sl[s]]

Above(fs, b) == \A k \in 1 .. Len(fs) : fs[k].kind = "wasm" => fs[k].base + LiveSlots <= b

\* What is written above the live slots of all frames leaves them intact.
LEMMA WriteAbove ==
  ASSUME NEW fs \in Seq(FrameType), NEW sl \in SlotsType, NEW b \in Nat, NEW n \in Nat,
         NEW id \in 0 .. MaxCalls, Intact(fs, sl), Above(fs, b)
  PROVE  Intact(fs, Written(sl, b, n, id)) /\ Written(sl, b, n, id) \in SlotsType
<1>1. ASSUME NEW k \in 1 .. Len(fs), fs[k].kind = "wasm",
             NEW s \in fs[k].base .. fs[k].base + LiveSlots - 1, s \in DOMAIN sl
      PROVE  Written(sl, b, n, id)[s] = fs[k].id
  <2>1. fs[k].base + LiveSlots <= b /\ sl[s] = fs[k].id
    BY <1>1 DEF Above, Intact
  <2>2. fs[k].base \in Nat /\ LiveSlots \in Nat
    BY FrameFields, SlotsNat
  <2>3. s \notin b .. b + n - 1
    BY <2>1, <2>2
  <2> QED
    BY <1>1, <2>1, <2>3 DEF Written
<1>2. DOMAIN Written(sl, b, n, id) = DOMAIN sl
  BY DEF Written
<1>3. Written(sl, b, n, id) \in SlotsType
  BY DEF Written, SlotsType
<1> QED
  BY <1>1, <1>2, <1>3 DEF Intact

\* A new wasm frame owns its slots.
LEMMA PushIntact ==
  ASSUME NEW fs \in Seq(FrameType), NEW f \in FrameType, NEW sl, Intact(fs, sl),
         f.kind = "wasm" => \A s \in f.base .. f.base + LiveSlots - 1 : s \in DOMAIN sl => sl[s] = f.id
  PROVE  Intact(Append(fs, f), sl)
<1>1. /\ Len(Append(fs, f)) = Len(fs) + 1 /\ Len(fs) \in Nat
      /\ \A k \in 1 .. Len(fs) : Append(fs, f)[k] = fs[k]
      /\ Append(fs, f)[Len(fs) + 1] = f
  BY AppendFrame, FrameFields
<1>2. \A k \in 1 .. Len(fs) + 1 : k \in 1 .. Len(fs) \/ k = Len(fs) + 1
  BY <1>1
<1> QED
  BY <1>1, <1>2 DEF Intact

\* Where a frame may start: above the live slots of what is there.
LEMMA StartsAbove ==
  ASSUME NEW fs \in Seq(FrameType), NEW n \in Nat, NEW sp \in Nat, Structure(fs, sp, n)
  PROVE  /\ fs # <<>> /\ fs[Len(fs)].kind = "wasm" => Above(fs, fs[Len(fs)].base + LiveSlots)
         /\ fs = <<>> \/ fs[Len(fs)].kind = "import" => Above(fs, sp)
         /\ fs # <<>> /\ fs[Len(fs)].kind = "import" => sp = fs[Len(fs)].base
         /\ fs # <<>> => Above(SubSeq(fs, 1, Len(fs) - 1), fs[Len(fs)].base)
<1>1. Len(fs) \in Nat /\ (fs # <<>> => Len(fs) \in 1 .. Len(fs)) /\ (fs = <<>> => Len(fs) = 0)
  BY FrameFields
<1>2. \A k \in 1 .. Len(fs) : fs[k].base \in Nat
  BY FrameFields
<1>3. \A k \in 1 .. Len(fs) - 1 : fs[k].kind = "wasm" => fs[k].base + LiveSlots <= fs[Len(fs)].base
  BY <1>1 DEF Structure, Nested
<1>4. \A k \in 1 .. Len(fs) : k \in 1 .. Len(fs) - 1 \/ k = Len(fs)
  BY <1>1
<1>5. fs # <<>> /\ fs[Len(fs)].kind = "import" => sp = fs[Len(fs)].base
  BY <1>1 DEF Structure, BaseOf
<1>6. fs # <<>> /\ fs[Len(fs)].kind = "wasm" => Above(fs, fs[Len(fs)].base + LiveSlots)
  <2> SUFFICES ASSUME fs # <<>>, NEW k \in 1 .. Len(fs), fs[k].kind = "wasm"
               PROVE  fs[k].base + LiveSlots <= fs[Len(fs)].base + LiveSlots
    BY DEF Above
  <2>1. LiveSlots \in Nat /\ fs[k].base \in Nat /\ fs[Len(fs)].base \in Nat
    BY <1>1, <1>2, SlotsNat
  <2>2. k = Len(fs) \/ fs[k].base + LiveSlots <= fs[Len(fs)].base
    BY <1>3, <1>4
  <2> QED
    BY <2>1, <2>2
<1>7. fs = <<>> \/ fs[Len(fs)].kind = "import" => Above(fs, sp)
  BY <1>1, <1>3, <1>4, <1>5 DEF Above
<1>8. fs # <<>> => Above(SubSeq(fs, 1, Len(fs) - 1), fs[Len(fs)].base)
  BY <1>3, RemoveFrame DEF Above
<1> QED
  BY <1>5, <1>6, <1>7, <1>8

-----------------------------------------------------------------------------
(* What pushing, popping and staying do to FramesOK.                       *)

\* A number of a new activation is a number.
LEMMA CallsNat ==
  ASSUME FramesOK, calls < MaxCalls
  PROVE  calls \in Nat /\ calls + 1 \in Activation /\ calls + 1 \in 0 .. MaxCalls
  BY SlotsNat DEF FramesOK, Activation

\* CallExport, CallReexport, CallFunction and CallImport when the call is made.
LEMMA Pushed ==
  ASSUME FramesOK, ~overrun, calls < MaxCalls, calls' = calls + 1,
         NEW kind \in {"wasm", "import"}, NEW via \in {"entry", "call"}, NEW base \in Nat,
         NEW mem \in Addr, NEW saved \in Nat, NEW size \in Nat,
         frames' = Append(frames, Frame(kind, via, base, mem, saved)),
         Write(base, size, calls + 1), size > 0,
         kind = "wasm" => LiveSlots <= size /\ stackBase' = stackBase,
         kind = "import" => saved = stackBase /\ stackBase' = base,
         via = "call" => /\ frames # <<>> /\ Top.kind = "wasm" /\ base = Top.base + LiveSlots
                         /\ callDepth < MaxCallDepth /\ callDepth' = callDepth + 1,
         via = "entry" => /\ frames = <<>> \/ Top.kind = "import"
                          /\ base = stackBase /\ callDepth' = callDepth
  PROVE  FramesOK'
<1> DEFINE f == Frame(kind, via, base, mem, saved)
<1>1. calls \in Nat /\ calls + 1 \in Activation /\ calls + 1 \in 0 .. MaxCalls
  BY CallsNat
<1>2. /\ f \in FrameType /\ f.id = calls + 1 /\ f.kind = kind /\ f.via = via
      /\ f.base = base /\ f.saved = saved
  BY <1>1 DEF Frame, FrameType
<1>3. /\ frames \in Seq(FrameType) /\ slots \in SlotsType /\ stackBase \in Nat /\ callDepth \in Nat
      /\ Structure(frames, stackBase, calls) /\ Depth(frames, callDepth) /\ Intact(frames, slots)
      /\ Within(frames)
  BY DEF FramesOK
<1>4. /\ slots' = Written(slots, base, size, calls + 1)
      /\ overrun' = (base + size > Allocation)
  BY DEF Write, Written
<1>5. Above(frames, base)
  <2>1. CASE via = "call"
    <3>1. frames # <<>> /\ frames[Len(frames)].kind = "wasm" /\ base = frames[Len(frames)].base + LiveSlots
      BY <2>1 DEF Top
    <3> QED
      BY <1>1, <1>3, <3>1, StartsAbove
  <2>2. CASE via = "entry"
    <3>1. (frames = <<>> \/ frames[Len(frames)].kind = "import") /\ base = stackBase
      BY <2>2 DEF Top
    <3> QED
      BY <1>1, <1>3, <3>1, StartsAbove
  <2> QED
    BY <2>1, <2>2
<1> HIDE DEF f
<1>6. stackBase' \in Nat /\ callDepth' \in Nat
  BY <1>3
<1>7. Structure(frames', stackBase', calls')
  BY <1>1, <1>2, <1>3, <1>6, PushStructure DEF Top, f
<1>8. Depth(frames', callDepth')
  BY <1>2, <1>3, PushDepth DEF f
<1>9. Intact(frames', slots') /\ slots' \in SlotsType
  <2>1. Intact(frames, slots') /\ slots' \in SlotsType
    BY <1>1, <1>3, <1>4, <1>5, WriteAbove
  <2>2. ASSUME kind = "wasm", NEW s \in base .. base + LiveSlots - 1, s \in DOMAIN slots'
        PROVE  slots'[s] = calls + 1
    <3>1. s \in base .. base + size - 1 /\ s \in DOMAIN slots
      BY <2>2, <1>4, SlotsNat DEF Written
    <3> QED
      BY <3>1, <1>4 DEF Written
  <2>3. Intact(Append(frames, f), slots')
    BY <2>1, <2>2, <1>2, <1>3, PushIntact
  <2> QED
    BY <2>1, <2>3 DEF f
<1>10. ~overrun' => Within(frames')
  <2> SUFFICES ASSUME ~overrun'
               PROVE  Within(frames')
    OBVIOUS
  <2>1. base < Allocation
    <3>1. ~(base + size > Allocation)
      BY <1>4
    <3> QED
      BY <3>1, SlotsNat
  <2>2. /\ Len(frames') = Len(frames) + 1 /\ Len(frames) \in Nat
        /\ \A k \in 1 .. Len(frames) : frames'[k] = frames[k]
        /\ frames'[Len(frames) + 1] = f
    BY <1>2, <1>3, AppendFrame, FrameFields DEF f
  <2>3. \A k \in 1 .. Len(frames') : k \in 1 .. Len(frames) \/ k = Len(frames) + 1
    BY <2>2
  <2> QED
    BY <2>1, <2>2, <2>3, <1>2, <1>3 DEF Within
<1>11. frames' \in Seq(FrameType)
  BY <1>2, <1>3, AppendFrame DEF f
<1>12. overrun' \in BOOLEAN
  BY <1>4
<1> QED
  BY <1>1, <1>6, <1>7, <1>8, <1>9, <1>10, <1>11, <1>12 DEF FramesOK

\* Return, ImportReturns, ImportThrows and Unwind: the innermost frame goes, and its
\* first slot may be written.
LEMMA Popped ==
  ASSUME FramesOK, ~overrun, frames # <<>>, calls' = calls,
         frames' \in Seq(FrameType), Alike(Below, frames'),
         (slots' = slots /\ overrun' = overrun) \/ Write(Top.base, 1, Top.id),
         Top.kind = "wasm" => stackBase' = stackBase,
         Top.kind = "import" => stackBase' = Top.saved,
         Top.via = "call" => callDepth' = callDepth - 1,
         Top.via # "call" => callDepth' = callDepth
  PROVE  FramesOK'
<1>1. /\ frames \in Seq(FrameType) /\ slots \in SlotsType /\ stackBase \in Nat /\ callDepth \in Nat
      /\ Structure(frames, stackBase, calls) /\ Depth(frames, callDepth) /\ Intact(frames, slots)
      /\ Within(frames) /\ calls \in 0 .. MaxCalls /\ calls \in Nat
  BY SlotsNat DEF FramesOK
<1>2. /\ Top.id \in 0 .. MaxCalls /\ Top.base \in Nat /\ Top.saved \in Nat
      /\ Top.kind \in {"wasm", "import"} /\ Top.via \in {"start", "entry", "call"}
  BY <1>1, FrameFields, SlotsNat DEF Top, Activation
<1>3. /\ Below \in Seq(FrameType) /\ Len(Below) \in Nat
      /\ Len(Below) = Len(frames) - 1 /\ Len(frames) \in Nat
      /\ \A k \in 1 .. Len(frames) - 1 : Below[k] = frames[k]
  BY <1>1, RemoveFrame, FrameFields DEF Below
<1>4. stackBase' \in Nat
  BY <1>1, <1>2
<1>5. Structure(Below, stackBase', calls)
  BY <1>1, <1>4, PopStructure DEF Top, Below
<1>6. Structure(frames', stackBase', calls')
  BY <1>3, <1>5, AlikeStructure
<1>7. callDepth' \in Nat /\ Depth(Below, callDepth')
  BY <1>1, PopDepth DEF Top, Below
<1>8. Depth(frames', callDepth')
  <2>1. Called(frames') = Called(Below)
    BY DEF Called, Alike
  <2> QED
    BY <2>1, <1>7 DEF Depth
<1>9. Intact(Below, slots)
  <2>1. \A k \in 1 .. Len(Below) : k \in 1 .. Len(frames) /\ Below[k] = frames[k]
    BY <1>3
  <2> QED
    BY <2>1, <1>1 DEF Intact
<1>10. Intact(Below, slots') /\ slots' \in SlotsType
  <2>1. CASE slots' = slots
    BY <2>1, <1>1, <1>9
  <2>2. CASE Write(Top.base, 1, Top.id)
    <3>1. slots' = Written(slots, Top.base, 1, Top.id)
      BY <2>2 DEF Write, Written
    <3>2. Above(Below, Top.base)
      BY <1>1, StartsAbove DEF Below, Top
    <3> QED
      BY <3>1, <3>2, <1>1, <1>2, <1>3, <1>9, WriteAbove
  <2> QED
    BY <2>1, <2>2
<1>11. Intact(frames', slots')
  BY <1>10 DEF Intact, Alike
<1>12. Within(frames')
  <2>1. \A k \in 1 .. Len(Below) : k \in 1 .. Len(frames) /\ Below[k] = frames[k]
    BY <1>3
  <2> QED
    BY <2>1, <1>1 DEF Within, Alike
<1>13. overrun' \in BOOLEAN
  BY DEF Write, FramesOK
<1> QED
  BY <1>1, <1>4, <1>6, <1>7, <1>8, <1>10, <1>11, <1>12, <1>13 DEF FramesOK

\* The steps of a frame, and calls that are refused after their arguments were
\* written.
LEMMA Stayed ==
  ASSUME FramesOK, ~overrun, frames' \in Seq(FrameType), Alike(frames, frames'),
         calls' \in 0 .. MaxCalls, calls <= calls',
         stackBase' = stackBase, callDepth' = callDepth,
         \/ slots' = slots /\ overrun' = overrun
         \/ \E b \in Nat, id \in 0 .. MaxCalls : Above(frames, b) /\ Write(b, ArgSlots, id)
  PROVE  FramesOK'
<1>1. /\ frames \in Seq(FrameType) /\ slots \in SlotsType /\ stackBase \in Nat /\ callDepth \in Nat
      /\ Structure(frames, stackBase, calls) /\ Depth(frames, callDepth) /\ Intact(frames, slots)
      /\ Within(frames) /\ calls \in Nat /\ calls' \in Nat /\ Len(frames) \in Nat
      /\ overrun \in BOOLEAN
  BY SlotsNat, FrameFields DEF FramesOK
<1>2. Structure(frames, stackBase, calls')
  <2>1. Numbered(frames, calls')
    <3> SUFFICES ASSUME NEW k \in 1 .. Len(frames)
                 PROVE  frames[k].id <= calls' /\ \A i \in 1 .. k - 1 : frames[i].id < frames[k].id
      BY DEF Numbered
    <3>1. frames[k].id \in Nat
      BY <1>1, FrameFields
    <3>2. frames[k].id <= calls /\ \A i \in 1 .. k - 1 : frames[i].id < frames[k].id
      BY <1>1 DEF Structure, Numbered
    <3> QED
      BY <1>1, <3>1, <3>2
  <2> QED
    BY <2>1, <1>1 DEF Structure
<1>3. Structure(frames', stackBase', calls')
  BY <1>1, <1>2, AlikeStructure
<1>4. Depth(frames', callDepth')
  <2>1. Called(frames') = Called(frames)
    BY DEF Called, Alike
  <2> QED
    BY <2>1, <1>1 DEF Depth
<1>5. Intact(frames, slots') /\ slots' \in SlotsType /\ overrun' \in BOOLEAN
  <2>1. CASE slots' = slots /\ overrun' = overrun
    BY <2>1, <1>1
  <2>2. ASSUME NEW b \in Nat, NEW id \in 0 .. MaxCalls, Above(frames, b), Write(b, ArgSlots, id)
        PROVE  Intact(frames, slots') /\ slots' \in SlotsType /\ overrun' \in BOOLEAN
    <3>1. slots' = Written(slots, b, ArgSlots, id) /\ overrun' \in BOOLEAN
      BY <2>2 DEF Write, Written
    <3> QED
      BY <3>1, <2>2, <1>1, SlotsNat, WriteAbove
  <2> QED
    BY <2>1, <2>2
<1>6. Intact(frames', slots') /\ Within(frames')
  BY <1>1, <1>5 DEF Intact, Within, Alike
<1> QED
  BY <1>1, <1>3, <1>4, <1>5, <1>6 DEF FramesOK

\* The innermost frame of a wasm step and of a JS step.
LEMMA Running ==
  /\ WasmRuns => ~overrun /\ trap = "none" /\ frames # <<>> /\ Top.kind = "wasm"
  /\ JsRuns => ~overrun /\ trap = "none" /\ (frames = <<>> \/ Top.kind = "import")
  BY DEF WasmRuns, JsRuns, Runner

\* After a push the new frame runs.
LEMMA TopPushed ==
  ASSUME FramesOK, calls < MaxCalls, NEW kind \in {"wasm", "import"}, NEW via \in {"entry", "call"},
         NEW base \in Nat, NEW mem \in Addr, NEW saved \in Nat,
         frames' = Append(frames, Frame(kind, via, base, mem, saved))
  PROVE  frames' # <<>> /\ Top'.kind = kind /\ Top'.mem = mem
<1> DEFINE f == Frame(kind, via, base, mem, saved)
<1>1. f \in FrameType /\ f.kind = kind /\ f.mem = mem
  BY CallsNat DEF Frame, FrameType
<1>2. frames \in Seq(FrameType)
  BY DEF FramesOK
<1> HIDE DEF f
<1>3. frames' = Append(frames, f)
  BY DEF f
<1>4. Len(frames') = Len(frames) + 1 /\ frames'[Len(frames) + 1] = f /\ frames' # <<>>
  BY <1>1, <1>2, <1>3, AppendFrame
<1> QED
  BY <1>1, <1>4 DEF Top

\* What runs after the innermost frame is gone: a call returns to wasm, an
\* entry to JS, the start function to nobody.
LEMMA TopPopped ==
  ASSUME FramesOK, frames # <<>>, mallocated \in Addr
  PROVE  /\ Below \in Seq(FrameType) /\ Alike(Below, Below)
         /\ Top.via = "call" =>
              /\ Below # <<>> /\ Below[Len(Below)].kind = "wasm"
              /\ ResumeCaller \in Seq(FrameType) /\ Alike(Below, ResumeCaller) /\ ResumeCaller # <<>>
              /\ ResumeCaller[Len(ResumeCaller)].kind = "wasm"
              /\ ResumeCaller[Len(ResumeCaller)].mem = mallocated
         /\ Top.via = "entry" => Below = <<>> \/ Below[Len(Below)].kind = "import"
         /\ Top.via = "start" => Below = <<>> /\ Top.kind = "wasm"
<1> DEFINE n == Len(frames)
<1>1. frames \in Seq(FrameType) /\ Shape(frames)
  BY DEF FramesOK, Structure
<1>2. /\ Below \in Seq(FrameType) /\ Len(Below) = n - 1 /\ n \in Nat /\ n \in 1 .. n
      /\ \A k \in 1 .. n - 1 : Below[k] = frames[k]
  BY <1>1, RemoveFrame, FrameFields DEF Below
<1>3. n = 1 => Below = <<>>
  BY <1>2, EmptySeq
<1>4. Alike(Below, Below)
  BY DEF Alike
<1>5. /\ Top.via = "start" => n = 1 /\ Top.kind = "wasm"
      /\ Top.via = "call" => n > 1 /\ frames[n - 1].kind = "wasm"
      /\ Top.via = "entry" => n = 1 \/ frames[n - 1].kind = "import"
  BY <1>1, <1>2 DEF Shape, Top
<1>6. ASSUME Top.via = "call"
      PROVE  /\ Below # <<>> /\ Below[Len(Below)].kind = "wasm"
             /\ ResumeCaller \in Seq(FrameType) /\ Alike(Below, ResumeCaller) /\ ResumeCaller # <<>>
             /\ ResumeCaller[Len(ResumeCaller)].kind = "wasm"
             /\ ResumeCaller[Len(ResumeCaller)].mem = mallocated
  <2> DEFINE g == [Below[n - 1] EXCEPT !.mem = mallocated]
  <2>1. n - 1 \in 1 .. Len(Below) /\ Below[n - 1] \in FrameType /\ Below[n - 1].kind = "wasm"
    BY <1>2, <1>5, <1>6, FrameFields
  <2>2. /\ g \in FrameType /\ g.mem = mallocated /\ g.id = Below[n - 1].id
        /\ g.kind = Below[n - 1].kind /\ g.via = Below[n - 1].via
        /\ g.base = Below[n - 1].base /\ g.saved = Below[n - 1].saved
    BY <2>1 DEF FrameType
  <2>3. ResumeCaller = [Below EXCEPT ![n - 1] = g]
    BY DEF ResumeCaller
  <2> HIDE DEF g
  <2>4. /\ ResumeCaller \in Seq(FrameType) /\ Len(ResumeCaller) = Len(Below)
        /\ \A k \in 1 .. Len(Below) : ResumeCaller[k] = IF k = n - 1 THEN g ELSE Below[k]
    BY <2>1, <2>2, <2>3, <1>2, ExceptSeq
  <2>5. Alike(Below, ResumeCaller)
    BY <2>2, <2>4 DEF Alike
  <2> QED
    BY <2>1, <2>2, <2>4, <2>5, <1>2
<1>7. Top.via = "entry" => Below = <<>> \/ Below[Len(Below)].kind = "import"
  <2> SUFFICES ASSUME Top.via = "entry", n # 1
               PROVE  Below[Len(Below)].kind = "import"
    BY <1>3
  <2> QED
    BY <1>2, <1>5
<1> QED
  BY <1>2, <1>3, <1>4, <1>5, <1>6, <1>7

\* EnterLoop, IterateLoop, LeaveLoop and MemGrow change nothing but the
\* pointers of the innermost frame.
LEMMA TopUpdated ==
  ASSUME FramesOK, frames # <<>>, NEW mem \in Addr, NEW loop \in Addr \cup {Null},
         UpdateTop(mem, loop)
  PROVE  /\ frames' \in Seq(FrameType) /\ Alike(frames, frames') /\ frames' # <<>>
         /\ Top'.kind = Top.kind /\ Top'.mem = mem
<1> DEFINE n == Len(frames)
           g == [frames[n] EXCEPT !.mem = mem, !.loop = loop]
<1>1. frames \in Seq(FrameType) /\ n \in 1 .. n /\ frames[n] \in FrameType /\ n \in Nat
  BY FrameFields DEF FramesOK
<1>2. /\ g \in FrameType /\ g.mem = mem /\ g.id = frames[n].id
      /\ g.kind = frames[n].kind /\ g.via = frames[n].via
      /\ g.base = frames[n].base /\ g.saved = frames[n].saved
  BY <1>1 DEF FrameType
<1>3. frames' = [frames EXCEPT ![n] = g]
  BY <1>1 DEF UpdateTop
<1> HIDE DEF g
<1>4. /\ frames' \in Seq(FrameType) /\ Len(frames') = n
      /\ \A k \in 1 .. n : frames'[k] = IF k = n THEN g ELSE frames[k]
  BY <1>1, <1>2, <1>3, ExceptSeq
<1>5. Alike(frames, frames')
  BY <1>2, <1>4 DEF Alike
<1>6. frames' # <<>> /\ Top' = g
  BY <1>1, <1>4 DEF Top
<1> QED
  BY <1>2, <1>4, <1>5, <1>6 DEF Top

\* An export that JS called is left where it was entered, so its result is
\* read where it was written.
LEMMA EntryBase ==
  ASSUME FramesOK, frames # <<>>, Top.via = "entry"
  PROVE  /\ Top.kind = "wasm" => stackBase = Top.base
         /\ Top.kind = "import" => Top.saved = Top.base
<1> DEFINE n == Len(frames)
<1>1. /\ frames \in Seq(FrameType) /\ Shape(frames) /\ Saved(frames)
      /\ BaseOf(frames, n, stackBase) /\ n \in Nat /\ n \in 1 .. n
  BY FrameFields DEF FramesOK, Structure
<1>2. BaseOf(frames, n - 1, Top.base) /\ (Top.kind = "import" => BaseOf(frames, n - 1, Top.saved))
  <2>1. /\ frames[n].kind = "import" => BaseOf(frames, n - 1, frames[n].saved)
        /\ frames[n].via = "entry" => BaseOf(frames, n - 1, frames[n].base)
    <3>1. \A k \in 1 .. Len(frames) :
            /\ frames[k].kind = "import" => BaseOf(frames, k - 1, frames[k].saved)
            /\ frames[k].via = "entry" => BaseOf(frames, k - 1, frames[k].base)
      BY <1>1 DEF Saved
    <3> QED
      BY <3>1, <1>1
  <2>2. Top = frames[n]
    BY DEF Top
  <2> HIDE DEF n
  <2> QED
    BY <2>1, <2>2
<1>3. CASE n = 1
  <2>1. Top.base = 0 /\ (Top.kind = "import" => Top.saved = 0)
    BY <1>2, <1>3 DEF BaseOf
  <2>2. Top.kind = "wasm" => stackBase = 0
    BY <1>1, <1>3 DEF BaseOf, Top
  <2> QED
    BY <2>1, <2>2
<1>4. CASE n # 1
  <2>1. n - 1 \in 1 .. n - 1 /\ frames[n - 1].kind = "import"
    <3>1. frames[n].via = "entry" => n = 1 \/ frames[n - 1].kind = "import"
      BY <1>1 DEF Shape
    <3>2. frames[n - 1].kind = "import"
      BY <3>1, <1>4 DEF Top
    <3>3. n \in 1 .. n /\ n \in Nat /\ n # 1
      BY <1>1, <1>4
    <3> HIDE DEF n
    <3>4. n - 1 \in 1 .. n - 1
      BY <3>3
    <3> QED
      BY <3>2, <3>4
  <2>2. /\ Top.base = frames[n - 1].base
        /\ Top.kind = "import" => Top.saved = frames[n - 1].base
    BY <1>2, <2>1 DEF BaseOf
  <2>3. Top.kind = "wasm" => stackBase = frames[n - 1].base
    BY <1>1, <2>1 DEF BaseOf, Top
  <2> QED
    BY <2>2, <2>3
<1> QED
  BY <1>3, <1>4

\* The types of the innermost frame.
LEMMA TopFields ==
  ASSUME FramesOK, frames # <<>>
  PROVE  /\ Top.id \in Activation /\ Top.id \in 0 .. MaxCalls /\ Top.base \in Nat
         /\ Top.saved \in Nat /\ Top.kind \in {"wasm", "import"}
         /\ Top.via \in {"start", "entry", "call"}
         /\ Top.mem \in Addr /\ Top.loop \in Addr \cup {Null}
         /\ CalleeBase \in Nat
<1>1. Top \in FrameType
  BY FrameFields DEF FramesOK, Top
<1>2. Top.base \in Nat /\ Top.id \in Activation
  BY <1>1 DEF FrameType
<1> QED
  BY <1>1, <1>2, SlotsNat DEF FrameType, CalleeBase, Activation

\* A new frame starts above what the frames there use.
LEMMA FreeBase ==
  ASSUME FramesOK
  PROVE  /\ frames # <<>> /\ Top.kind = "wasm" => Above(frames, CalleeBase)
         /\ frames = <<>> \/ Top.kind = "import" => Above(frames, stackBase)
<1>1. /\ frames \in Seq(FrameType) /\ stackBase \in Nat /\ calls \in Nat
      /\ Structure(frames, stackBase, calls)
  BY SlotsNat DEF FramesOK
<1> QED
  BY <1>1, StartsAbove DEF Top, CalleeBase

\* What runs next: JS, wasm with the right pointer, or a trap.
LEMMA Runs ==
  ASSUME \/ trap' = "none" /\ pending' = None /\ (frames' = <<>> \/ Top'.kind = "import")
         \/ trap' = "none" /\ pending' = None /\ frames' # <<>> /\ Top'.mem = mallocated'
         \/ /\ trap' # "none" /\ (pending' # None <=> trap' = "js")
            /\ frames' # <<>> /\ Top'.kind = "wasm"
  PROVE  TrapInWasm' /\ MemoryPointerFresh' /\ ExceptionPendingOnlyInFlight'
<1>1. TrapInWasm'
  BY DEF TrapInWasm
<1>2. MemoryPointerFresh'
  BY DEF MemoryPointerFresh, WasmRuns, Runner
<1>3. ExceptionPendingOnlyInFlight'
  BY DEF ExceptionPendingOnlyInFlight
<1> QED
  BY <1>1, <1>2, <1>3

-----------------------------------------------------------------------------
(* The invariant.                                                          *)

\* The invariant holds before the first step.
LEMMA InitInv == Init => Inv
<1> SUFFICES ASSUME Init
             PROVE  Inv
  OBVIOUS
<1> DEFINE first == [id |-> 1, kind |-> "wasm", via |-> "start", base |-> 0,
                     mem |-> mallocated, loop |-> Null, saved |-> 0]
<1>1. ControlOK /\ Received
  BY SlotsNat DEF Init, ControlOK, Received
<1>2. TrapInWasm /\ ExceptionPendingOnlyInFlight
  BY DEF Init, TrapInWasm, ExceptionPendingOnlyInFlight
<1>3. /\ slots \in SlotsType /\ stackBase = 0 /\ callDepth = 0 /\ overrun = FALSE
      /\ mallocated \in Addr
  <2>1. 0 \in 0 .. MaxCalls /\ 1 \in 0 .. MaxCalls
    BY SlotsNat
  <2>2. slots = [s \in 0 .. Allocation - 1 |-> IF s < MaxSlots /\ frames # <<>> THEN 1 ELSE 0]
    BY DEF Init
  <2>3. slots \in SlotsType
    BY <2>1, <2>2 DEF SlotsType
  <2> QED
    BY <2>3 DEF Init
<1>4. CASE frames = <<>> /\ calls = 0
  <2>1. calls \in 0 .. MaxCalls /\ frames \in Seq(FrameType)
    BY <1>4, SlotsNat
  <2>2. Structure(frames, stackBase, calls)
    BY <1>3, <1>4 DEF Structure, Shape, Saved, Nested, Numbered, BaseOf
  <2>3. Called(frames) = {}
    BY <1>4 DEF Called
  <2>4. Depth(frames, callDepth)
    BY <1>3, <2>3, FS_EmptySet, SlotsNat DEF Depth
  <2>5. Intact(frames, slots) /\ Within(frames) /\ MemoryPointerFresh
    BY <1>4 DEF Intact, Within, MemoryPointerFresh, WasmRuns, Runner
  <2> QED
    BY <1>1, <1>2, <1>3, <2>1, <2>2, <2>4, <2>5 DEF Inv, FramesOK
<1>5. CASE frames = <<first>> /\ calls = 1
  <2>1. /\ first.id = 1 /\ first.kind = "wasm" /\ first.via = "start" /\ first.base = 0
        /\ first.mem = mallocated /\ first \in FrameType
    BY <1>3, SlotsNat DEF FrameType, Activation
  <2> HIDE DEF first
  <2>2. /\ calls \in 0 .. MaxCalls /\ frames \in Seq(FrameType)
        /\ Len(frames) = 1 /\ frames[1] = first
    BY <1>5, <2>1, SlotsNat
  <2>3. Structure(frames, stackBase, calls)
    BY <1>3, <1>5, <2>1, <2>2 DEF Structure, Shape, Saved, Nested, Numbered, BaseOf
  <2>4. Called(frames) = {}
    BY <2>1, <2>2 DEF Called
  <2>5. Depth(frames, callDepth)
    BY <1>3, <2>4, FS_EmptySet, SlotsNat DEF Depth
  <2>6. Intact(frames, slots)
    <3>1. \A s \in 0 .. LiveSlots - 1 : s \in DOMAIN slots => slots[s] = 1
      <4>1. slots = [s \in 0 .. Allocation - 1 |-> IF s < MaxSlots THEN 1 ELSE 0]
        BY <1>5 DEF Init
      <4> QED
        BY <4>1, SlotsNat
    <3>2. first.base .. first.base + LiveSlots - 1 = 0 .. LiveSlots - 1
      BY <2>1, SlotsNat
    <3>3. \A s \in first.base .. first.base + LiveSlots - 1 : s \in DOMAIN slots => slots[s] = first.id
      BY <3>1, <3>2, <2>1
    <3>4. \A k \in 1 .. Len(frames) : frames[k] = first
      BY <2>2
    <3> QED
      BY <3>3, <3>4 DEF Intact
  <2>7. Within(frames) /\ MemoryPointerFresh
    BY <2>1, <2>2 DEF Within, MemoryPointerFresh, Top
  <2> QED
    BY <1>1, <1>2, <1>3, <2>2, <2>3, <2>5, <2>6, <2>7 DEF Inv, FramesOK
<1> QED
  BY <1>4, <1>5 DEF Init

\* Calls of exports by JS, and its grow().
LEMMA JsStepsInv ==
  ASSUME Inv, CallExport \/ CallReexport \/ JsGrow
  PROVE  Inv'
<1>1. /\ ControlOK /\ Received /\ FramesOK /\ ExceptionPendingOnlyInFlight /\ mallocated \in Addr
      /\ stackBase \in Nat /\ calls \in 0 .. MaxCalls /\ calls \in Nat
      /\ frames \in Seq(FrameType) /\ Alike(frames, frames)
  BY SlotsNat DEF Inv, FramesOK, ControlOK, Alike
<1>2. JsRuns
  BY DEF CallExport, CallReexport, JsGrow
<1>3. ~overrun /\ trap = "none" /\ pending = None /\ (frames = <<>> \/ Top.kind = "import")
  BY <1>1, <1>2, Running DEF ExceptionPendingOnlyInFlight
<1>4. ASSUME calls < MaxCalls, calls' = calls + 1, Write(stackBase, ArgSlots, calls + 1),
             frames' = frames, stackBase' = stackBase, callDepth' = callDepth
      PROVE  FramesOK'
  <2>1. calls + 1 \in 0 .. MaxCalls /\ calls <= calls + 1
    BY <1>1, <1>4, SlotsNat
  <2>2. Above(frames, stackBase)
    BY <1>1, <1>3, FreeBase
  <2> QED
    BY <1>1, <1>3, <1>4, <2>1, <2>2, Stayed
<1>5. CASE CallExport
  <2>1. /\ calls < MaxCalls /\ calls' = calls + 1 /\ pending' = None /\ trap' = "none"
        /\ stackBase' = stackBase /\ callDepth' = callDepth
        /\ phase' = phase /\ maxStack' = maxStack /\ mallocated' = mallocated
    BY <1>3, <1>5 DEF CallExport
  <2>2. CASE FitsStack(stackBase)
    <3>1. /\ frames' = Append(frames, Frame("wasm", "entry", stackBase, mallocated, 0))
          /\ Write(stackBase, MaxSlots, calls + 1) /\ received' = None /\ lastCalled' = lastCalled
      BY <1>5, <2>2 DEF CallExport
    <3>2. FramesOK'
      BY <1>1, <1>3, <2>1, <3>1, SlotsNat, Pushed
    <3>3. frames' # <<>> /\ Top'.mem = mallocated'
      BY <1>1, <2>1, <3>1, TopPushed
    <3>4. ControlOK' /\ Received'
      BY <1>1, <2>1, <3>1 DEF ControlOK, Received
    <3> QED
      BY <2>1, <3>2, <3>3, <3>4, Runs DEF Inv
  <2>3. CASE ~FitsStack(stackBase)
    <3>1. /\ Write(stackBase, ArgSlots, calls + 1) /\ lastCalled' = None
          /\ received' = Exception(Trapped) /\ frames' = frames
      BY <1>5, <2>3 DEF CallExport
    <3>2. FramesOK'
      BY <1>4, <2>1, <3>1
    <3>3. frames' = <<>> \/ Top'.kind = "import"
      BY <1>3, <3>1 DEF Top
    <3>4. ControlOK' /\ Received'
      BY <1>1, <2>1, <3>1 DEF ControlOK, Received
    <3> QED
      BY <2>1, <3>2, <3>3, <3>4, Runs DEF Inv
  <2> QED
    BY <2>2, <2>3
<1>6. CASE CallReexport
  <2>1. /\ calls < MaxCalls /\ calls' = calls + 1 /\ pending' = None /\ trap' = "none"
        /\ stackBase' = stackBase /\ callDepth' = callDepth
        /\ phase' = phase /\ maxStack' = maxStack /\ mallocated' = mallocated
        /\ Write(stackBase, ArgSlots, calls + 1)
    BY <1>3, <1>6 DEF CallReexport
  <2>2. CASE /\ frames' = Append(frames, Frame("import", "entry", stackBase, mallocated, stackBase))
             /\ received' = None /\ lastCalled' = lastCalled
    <3>1. FramesOK'
      BY <1>1, <1>3, <2>1, <2>2, SlotsNat, Pushed
    <3>2. frames' # <<>> /\ Top'.kind = "import"
      BY <1>1, <2>1, <2>2, TopPushed
    <3>3. ControlOK' /\ Received'
      BY <1>1, <2>1, <2>2 DEF ControlOK, Received
    <3> QED
      BY <2>1, <3>1, <3>2, <3>3, Runs DEF Inv
  <2>3. CASE lastCalled' = None /\ received' = Exception(Missing) /\ frames' = frames
    <3>1. FramesOK'
      BY <1>4, <2>1, <2>3
    <3>2. frames' = <<>> \/ Top'.kind = "import"
      BY <1>3, <2>3 DEF Top
    <3>3. ControlOK' /\ Received'
      BY <1>1, <2>1, <2>3 DEF ControlOK, Received
    <3> QED
      BY <2>1, <3>1, <3>2, <3>3, Runs DEF Inv
  <2> QED
    BY <1>6, <2>2, <2>3 DEF CallReexport
<1>7. CASE JsGrow
  <2>1. /\ mallocated' \in Addr /\ maxStack' = stackBase + StackSlots
        /\ phase' = phase /\ frames' = frames /\ slots' = slots /\ stackBase' = stackBase
        /\ callDepth' = callDepth /\ calls' = calls /\ overrun' = overrun /\ received' = received
        /\ trap' = trap /\ pending' = pending /\ lastCalled' = lastCalled
    BY <1>7 DEF JsGrow, outcome
  <2>2. FramesOK'
    BY <1>1, <1>3, <2>1, Stayed
  <2>3. frames' = <<>> \/ Top'.kind = "import"
    BY <1>3, <2>1 DEF Top
  <2>4. ControlOK' /\ Received'
    BY <1>1, <2>1, SlotsNat DEF ControlOK, Received
  <2> QED
    BY <1>3, <2>1, <2>2, <2>3, <2>4, Runs DEF Inv
<1> QED
  BY <1>5, <1>6, <1>7

\* Calls from wasm, made or refused.
LEMMA WasmCallsInv ==
  ASSUME Inv, CallFunction \/ CallImport
  PROVE  Inv'
<1>1. /\ ControlOK /\ Received /\ FramesOK /\ MemoryPointerFresh /\ mallocated \in Addr
      /\ ExceptionPendingOnlyInFlight
      /\ stackBase \in Nat /\ calls \in 0 .. MaxCalls /\ calls \in Nat
      /\ callDepth \in Nat /\ frames \in Seq(FrameType) /\ Alike(frames, frames)
  BY SlotsNat DEF Inv, FramesOK, ControlOK, Alike
<1>2. WasmRuns
  BY DEF CallFunction, CallImport
<1>3. /\ ~overrun /\ trap = "none" /\ pending = None /\ frames # <<>> /\ Top.kind = "wasm"
      /\ Top.mem = mallocated
  BY <1>1, <1>2, Running DEF ExceptionPendingOnlyInFlight, MemoryPointerFresh
<1>4. CalleeBase \in Nat /\ CalleeBase = Top.base + LiveSlots
  BY <1>1, <1>3, TopFields DEF CalleeBase
<1>5. ASSUME calls < MaxCalls, calls' = calls + 1, Write(CalleeBase, ArgSlots, calls + 1),
             frames' = frames, stackBase' = stackBase, callDepth' = callDepth
      PROVE  FramesOK' /\ frames' # <<>> /\ Top'.kind = "wasm"
  <2>1. calls + 1 \in 0 .. MaxCalls /\ calls <= calls + 1
    BY <1>1, <1>5, SlotsNat
  <2>2. Above(frames, CalleeBase)
    BY <1>1, <1>3, FreeBase
  <2>3. FramesOK'
    BY <1>1, <1>3, <1>4, <1>5, <2>1, <2>2, Stayed
  <2> QED
    BY <1>3, <1>5, <2>3 DEF Top
<1>6. CASE CallFunction
  <2>1. /\ calls < MaxCalls /\ calls' = calls + 1 /\ pending' = None /\ lastCalled' = lastCalled
        /\ stackBase' = stackBase /\ phase' = phase /\ maxStack' = maxStack
        /\ mallocated' = mallocated
    BY <1>3, <1>6 DEF CallFunction
  <2>2. CASE callDepth < MaxCallDepth /\ FitsStack(CalleeBase)
    <3>1. /\ frames' = Append(frames, Frame("wasm", "call", CalleeBase, mallocated, 0))
          /\ Write(CalleeBase, MaxSlots, calls + 1) /\ received' = None /\ trap' = "none"
          /\ callDepth' = callDepth + 1
      BY <1>1, <1>3, <1>6, <2>2, SlotsNat DEF CallFunction
    <3>2. FramesOK'
      BY <1>1, <1>3, <1>4, <2>1, <2>2, <3>1, SlotsNat, Pushed
    <3>3. frames' # <<>> /\ Top'.mem = mallocated'
      BY <1>1, <1>4, <2>1, <3>1, TopPushed
    <3>4. ControlOK' /\ Received'
      BY <1>1, <2>1, <3>1 DEF ControlOK, Received
    <3> QED
      BY <2>1, <3>1, <3>2, <3>3, <3>4, Runs DEF Inv
  <2>3. CASE callDepth >= MaxCallDepth \/ ~FitsStack(CalleeBase)
    <3>1. /\ Write(CalleeBase, ArgSlots, calls + 1) /\ trap' = "wasm"
          /\ frames' = frames /\ callDepth' = callDepth /\ received' = received
      BY <1>1, <1>6, <2>3, SlotsNat DEF CallFunction
    <3>2. FramesOK' /\ frames' # <<>> /\ Top'.kind = "wasm"
      BY <1>5, <2>1, <3>1
    <3>3. ControlOK' /\ Received'
      BY <1>1, <2>1, <3>1 DEF ControlOK, Received
    <3> QED
      BY <2>1, <3>1, <3>2, <3>3, Runs DEF Inv
  <2> QED
    BY <1>6, <2>2, <2>3 DEF CallFunction
<1>7. CASE CallImport
  <2>1. /\ calls < MaxCalls /\ calls' = calls + 1 /\ lastCalled' = lastCalled
        /\ phase' = phase /\ maxStack' = maxStack /\ mallocated' = mallocated
        /\ Write(CalleeBase, ArgSlots, calls + 1)
    BY <1>7 DEF CallImport
  <2>2. CASE /\ callDepth < MaxCallDepth
             /\ frames' = Append(frames, Frame("import", "call", CalleeBase, Top.mem, stackBase))
             /\ stackBase' = ImportStack(CalleeBase) /\ callDepth' = callDepth + 1
             /\ received' = None /\ trap' = trap /\ pending' = pending
    <3>1. frames' = Append(frames, Frame("import", "call", CalleeBase, mallocated, stackBase))
          /\ stackBase' = CalleeBase
      BY <1>3, <2>2 DEF ImportStack
    <3>2. FramesOK'
      BY <1>1, <1>3, <1>4, <2>1, <2>2, <3>1, SlotsNat, Pushed
    <3>3. frames' # <<>> /\ Top'.kind = "import"
      BY <1>1, <1>4, <2>1, <3>1, TopPushed
    <3>4. ControlOK' /\ Received'
      BY <1>1, <2>1, <2>2 DEF ControlOK, Received
    <3> QED
      BY <1>3, <2>1, <2>2, <3>2, <3>3, <3>4, Runs DEF Inv
  <2>3. CASE /\ (trap' = "js" /\ pending' = Missing) \/ (trap' = "wasm" /\ pending' = pending)
             /\ frames' = frames /\ stackBase' = stackBase /\ callDepth' = callDepth
             /\ received' = received
    <3>1. FramesOK' /\ frames' # <<>> /\ Top'.kind = "wasm"
      BY <1>5, <2>1, <2>3
    <3>2. pending' # None <=> trap' = "js"
      BY <1>3, <2>3, ValueAssumption
    <3>3. ControlOK' /\ Received'
      BY <1>1, <2>1, <2>3 DEF ControlOK, Received
    <3> QED
      BY <2>1, <2>3, <3>1, <3>2, <3>3, Runs DEF Inv
  <2> QED
    BY <1>7, <2>2, <2>3 DEF CallImport
<1> QED
  BY <1>6, <1>7

\* The steps inside a wasm frame.
LEMMA WasmStepsInv ==
  ASSUME Inv, MemGrow \/ EnterLoop \/ IterateLoop \/ LeaveLoop \/ Trap
  PROVE  Inv'
<1>1. /\ ControlOK /\ Received /\ FramesOK /\ MemoryPointerFresh /\ mallocated \in Addr
      /\ ExceptionPendingOnlyInFlight /\ calls \in 0 .. MaxCalls /\ calls <= calls
      /\ stackBase \in Nat /\ frames \in Seq(FrameType) /\ Alike(frames, frames)
  BY SlotsNat DEF Inv, FramesOK, ControlOK, Alike
<1>2. WasmRuns
  BY DEF MemGrow, EnterLoop, IterateLoop, LeaveLoop, Trap
<1>3. /\ ~overrun /\ trap = "none" /\ pending = None /\ frames # <<>> /\ Top.kind = "wasm"
      /\ Top.mem = mallocated
  BY <1>1, <1>2, Running DEF ExceptionPendingOnlyInFlight, MemoryPointerFresh
<1>4. Top.loop \in Addr \cup {Null}
  BY <1>1, <1>3, TopFields
<1>5. /\ phase' = phase /\ slots' = slots /\ stackBase' = stackBase /\ callDepth' = callDepth
      /\ pending' = None /\ lastCalled' = lastCalled /\ received' = received
      /\ calls' = calls /\ overrun' = overrun
  BY <1>3 DEF MemGrow, EnterLoop, IterateLoop, LeaveLoop, Trap, machine, outcome
<1>6. maxStack' \in Nat /\ mallocated' \in Addr
  BY <1>1, SlotsNat DEF ControlOK, MemGrow, EnterLoop, IterateLoop, LeaveLoop, Trap, machine
<1>7. CASE Trap
  <2>1. trap' = "wasm" /\ frames' = frames
    BY <1>7 DEF Trap
  <2>2. FramesOK'
    BY <1>1, <1>3, <1>5, <2>1, Stayed
  <2>3. frames' # <<>> /\ Top'.kind = "wasm"
    BY <1>3, <2>1 DEF Top
  <2>4. ControlOK' /\ Received'
    BY <1>1, <1>5, <1>6, <2>1 DEF ControlOK, Received
  <2> QED
    BY <1>5, <2>1, <2>2, <2>3, <2>4, Runs DEF Inv
<1>8. ASSUME NEW loop \in Addr \cup {Null}, UpdateTop(mallocated', loop), trap' = trap
      PROVE  Inv'
  <2>1. /\ frames' \in Seq(FrameType) /\ Alike(frames, frames') /\ frames' # <<>>
        /\ Top'.mem = mallocated'
    BY <1>1, <1>3, <1>6, <1>8, TopUpdated
  <2>2. FramesOK'
    BY <1>1, <1>3, <1>5, <2>1, Stayed
  <2>3. ControlOK' /\ Received'
    BY <1>1, <1>5, <1>6, <1>8 DEF ControlOK, Received
  <2> QED
    BY <1>3, <1>5, <1>8, <2>1, <2>2, <2>3, Runs DEF Inv
<1>9. CASE MemGrow
  <2>1. UpdateTop(mallocated', Top.loop) /\ trap' = trap
    BY <1>9 DEF MemGrow, outcome
  <2> QED
    BY <1>4, <1>8, <2>1
<1>10. CASE EnterLoop
  <2>1. UpdateTop(Top.mem, Top.mem) /\ trap' = trap /\ mallocated' = mallocated
    BY <1>10 DEF EnterLoop, outcome, machine
  <2> QED
    BY <1>1, <1>3, <1>8, <2>1
<1>11. CASE IterateLoop
  <2>1. UpdateTop(mallocated, mallocated) /\ trap' = trap /\ mallocated' = mallocated
    BY <1>11 DEF IterateLoop, outcome, machine
  <2> QED
    BY <1>1, <1>8, <2>1
<1>12. CASE LeaveLoop
  <2>1. UpdateTop(Top.mem, Null) /\ trap' = trap /\ mallocated' = mallocated
    BY <1>12 DEF LeaveLoop, outcome, machine
  <2> QED
    BY <1>3, <1>8, <2>1
<1> QED
  BY <1>7, <1>9, <1>10, <1>11, <1>12

\* throwWasmError leaves nothing pending and JS with an exception.
LEMMA Delivered ==
  ASSUME NEW t, NEW p \in Activation \cup {None, Trapped, Missing}, t = "js" <=> p # None,
         Deliver(t, p)
  PROVE  lastCalled' = None /\ trap' = "none" /\ pending' = None /\ Received'
  BY DEF Deliver, Received

\* A result is that of the activation that answers.
LEMMA Answered ==
  ASSUME NEW id \in Activation, NEW base, base \in 0 .. Allocation - 1, slots' \in SlotsType,
         Answer(id, base)
  PROVE  lastCalled' = id /\ received' = Value(slots'[base]) /\ Received'
<1>1. lastCalled' = id /\ received' = Value(slots'[base])
  BY DEF Answer, ResultSlot
<1>2. slots'[base] \in 0 .. MaxCalls
  BY DEF SlotsType
<1> QED
  BY <1>1, <1>2 DEF Received

\* Where an export called by JS began lies within the allocation.
LEMMA EntryWithin ==
  ASSUME FramesOK, ~overrun, frames # <<>>, Top.via = "entry"
  PROVE  Top.base \in 0 .. Allocation - 1
<1>1. Len(frames) \in 1 .. Len(frames) /\ Within(frames)
  BY FrameFields DEF FramesOK
<1>2. Top.base < Allocation /\ Top.base \in Nat
  BY <1>1, TopFields DEF Within, Top
<1> QED
  BY <1>2, SlotsNat

\* Functions and imports return.
LEMMA ReturnsInv ==
  ASSUME Inv, Return \/ ImportReturns
  PROVE  Inv'
<1>1. /\ ControlOK /\ Received /\ FramesOK /\ mallocated \in Addr
      /\ ExceptionPendingOnlyInFlight
  BY DEF Inv, ControlOK
<1>2. /\ ~overrun /\ trap = "none" /\ pending = None /\ frames # <<>>
      /\ Return => Top.kind = "wasm"
      /\ ImportReturns => Top.kind = "import"
  BY <1>1, Running DEF ExceptionPendingOnlyInFlight, Return, ImportReturns
<1>3. /\ Top.id \in Activation /\ Top.base \in Nat /\ Top.via \in {"start", "entry", "call"}
      /\ Top.id \in 0 .. MaxCalls
  BY <1>1, <1>2, TopFields
<1>4. /\ Write(Top.base, 1, Top.id) /\ calls' = calls /\ trap' = "none" /\ pending' = None
      /\ maxStack' = maxStack /\ mallocated' = mallocated
      /\ Top.kind = "wasm" => stackBase' = stackBase
      /\ Top.kind = "import" => stackBase' = Top.saved
  BY <1>2 DEF Return, ImportReturns
<1>5. CASE Top.via = "call"
  <2>1. frames' = ResumeCaller /\ callDepth' = callDepth - 1
        /\ phase' = phase /\ lastCalled' = lastCalled /\ received' = received
    BY <1>5 DEF Return, ImportReturns
  <2>2. /\ frames' \in Seq(FrameType) /\ Alike(Below, frames') /\ frames' # <<>>
        /\ Top'.mem = mallocated'
    BY <1>1, <1>2, <1>4, <1>5, <2>1, TopPopped DEF Top
  <2>3. FramesOK'
    BY <1>1, <1>2, <1>4, <1>5, <2>1, <2>2, Popped
  <2>4. ControlOK' /\ Received'
    BY <1>1, <1>4, <2>1 DEF ControlOK, Received
  <2> QED
    BY <1>4, <2>2, <2>3, <2>4, Runs DEF Inv
<1>6. CASE Top.via = "entry"
  <2>1. /\ frames' = Below /\ callDepth' = callDepth /\ phase' = phase
        /\ Answer(Top.id, stackBase) \/ Answer(Top.id, stackBase')
        /\ Top.kind = "wasm" => Answer(Top.id, stackBase)
        /\ Top.kind = "import" => Answer(Top.id, stackBase')
    BY <1>2, <1>6 DEF Return, ImportReturns
  <2>2. frames' \in Seq(FrameType) /\ Alike(Below, frames')
    BY <1>1, <1>2, <2>1, TopPopped
  <2>3. frames' = <<>> \/ Top'.kind = "import"
    BY <1>1, <1>2, <1>6, <2>1, TopPopped DEF Top
  <2>4. FramesOK'
    BY <1>1, <1>2, <1>4, <1>6, <2>1, <2>2, Popped
  <2>5. Answer(Top.id, Top.base)
    <3>1. /\ Top.kind = "wasm" => stackBase = Top.base
          /\ Top.kind = "import" => stackBase' = Top.base
      BY <1>1, <1>2, <1>4, <1>6, EntryBase
    <3>2. Top.kind = "wasm" \/ Top.kind = "import"
      BY <1>1, <1>2, TopFields
    <3> QED
      BY <2>1, <3>1, <3>2
  <2>6. lastCalled' = Top.id /\ Received'
    BY <1>1, <1>2, <1>3, <1>6, <2>4, <2>5, EntryWithin, Answered DEF FramesOK
  <2>7. ControlOK'
    BY <1>1, <1>3, <1>4, <2>1, <2>6 DEF ControlOK
  <2> QED
    BY <1>4, <2>3, <2>4, <2>6, <2>7, Runs DEF Inv
<1>7. CASE Top.via = "start"
  <2>1. Below = <<>> /\ Top.kind = "wasm"
    BY <1>1, <1>2, <1>7, TopPopped
  <2>2. /\ frames' = Below /\ phase' = "live" /\ received' = Value(Top.id)
        /\ callDepth' = callDepth /\ lastCalled' = lastCalled
    BY <1>2, <1>7, <2>1 DEF Return, ImportReturns
  <2>3. frames' \in Seq(FrameType) /\ Alike(Below, frames') /\ frames' = <<>>
    BY <1>1, <1>2, <2>1, <2>2, TopPopped
  <2>4. FramesOK'
    BY <1>1, <1>2, <1>4, <1>7, <2>1, <2>2, <2>3, Popped
  <2>5. ControlOK' /\ Received'
    BY <1>1, <1>3, <1>4, <2>2 DEF ControlOK, Received
  <2> QED
    BY <1>4, <2>3, <2>4, <2>5, Runs DEF Inv
<1> QED
  BY <1>3, <1>5, <1>6, <1>7

\* Imports throw.
LEMMA ImportThrowsInv ==
  ASSUME Inv, NEW x \in Activation \cup {Trapped, Missing}, ImportThrows(x)
  PROVE  Inv'
<1>1. /\ ControlOK /\ Received /\ FramesOK /\ mallocated \in Addr
      /\ ExceptionPendingOnlyInFlight
  BY DEF Inv, ControlOK
<1>2. /\ ~overrun /\ trap = "none" /\ frames # <<>> /\ Top.kind = "import"
  BY Running DEF ImportThrows
<1>3. /\ frames' = Below /\ stackBase' = Top.saved /\ phase' = phase /\ slots' = slots
      /\ maxStack' = maxStack /\ mallocated' = mallocated /\ calls' = calls /\ overrun' = overrun
  BY DEF ImportThrows
<1>4. frames' \in Seq(FrameType) /\ Alike(Below, frames')
  BY <1>1, <1>2, <1>3, TopPopped
<1>5. x \in Activation \cup {None, Trapped, Missing} /\ x # None
  BY ValueAssumption DEF Activation
<1>6. CASE Top.via = "call"
  <2>1. /\ trap' = "js" /\ pending' = x /\ callDepth' = callDepth - 1
        /\ lastCalled' = lastCalled /\ received' = received
    BY <1>6 DEF ImportThrows
  <2>2. frames' # <<>> /\ Top'.kind = "wasm"
    BY <1>1, <1>2, <1>3, <1>6, TopPopped DEF Top
  <2>3. FramesOK'
    BY <1>1, <1>2, <1>3, <1>4, <1>6, <2>1, Popped
  <2>4. ControlOK' /\ Received'
    BY <1>1, <1>3, <1>5, <2>1 DEF ControlOK, Received
  <2> QED
    BY <1>5, <2>1, <2>2, <2>3, <2>4, Runs DEF Inv
<1>7. CASE Top.via = "entry"
  <2>1. Deliver("js", x) /\ callDepth' = callDepth
    BY <1>7 DEF ImportThrows
  <2>2. lastCalled' = None /\ trap' = "none" /\ pending' = None /\ Received'
    BY <1>5, <2>1, Delivered
  <2>3. frames' = <<>> \/ Top'.kind = "import"
    BY <1>1, <1>2, <1>3, <1>7, TopPopped DEF Top
  <2>4. FramesOK'
    BY <1>1, <1>2, <1>3, <1>4, <1>7, <2>1, Popped
  <2>5. ControlOK'
    BY <1>1, <1>3, <2>2 DEF ControlOK
  <2> QED
    BY <2>2, <2>3, <2>4, <2>5, Runs DEF Inv
<1> QED
  BY <1>6, <1>7 DEF ImportThrows

\* A trap leaves a frame.
LEMMA UnwindInv ==
  ASSUME Inv, Unwind
  PROVE  Inv'
<1>1. /\ ControlOK /\ Received /\ FramesOK /\ mallocated \in Addr /\ TrapInWasm
      /\ pending # None <=> trap = "js"
      /\ pending \in Activation \cup {None, Trapped, Missing}
  BY DEF Inv, ControlOK, ExceptionPendingOnlyInFlight
<1>2. /\ ~overrun /\ trap # "none" /\ frames # <<>> /\ Top.kind = "wasm"
  BY <1>1 DEF Unwind, TrapInWasm
<1>3. /\ frames' = Below /\ stackBase' = stackBase /\ slots' = slots
      /\ maxStack' = maxStack /\ mallocated' = mallocated /\ calls' = calls /\ overrun' = overrun
  BY DEF Unwind
<1>4. frames' \in Seq(FrameType) /\ Alike(Below, frames')
  BY <1>1, <1>2, <1>3, TopPopped
<1>5. CASE Top.via = "call"
  <2>1. /\ callDepth' = callDepth - 1 /\ phase' = phase /\ trap' = trap /\ pending' = pending
        /\ lastCalled' = lastCalled /\ received' = received
    BY <1>5 DEF Unwind, outcome
  <2>2. frames' # <<>> /\ Top'.kind = "wasm"
    BY <1>1, <1>2, <1>3, <1>5, TopPopped DEF Top
  <2>3. FramesOK'
    BY <1>1, <1>2, <1>3, <1>4, <1>5, <2>1, Popped
  <2>4. ControlOK' /\ Received'
    BY <1>1, <1>3, <2>1 DEF ControlOK, Received
  <2> QED
    BY <1>1, <1>2, <2>1, <2>2, <2>3, <2>4, Runs DEF Inv
<1>6. CASE Top.via # "call"
  <2>1. /\ Deliver(trap, pending) /\ callDepth' = callDepth /\ phase' \in {phase, "failed"}
        /\ Top.via = "entry" \/ Top.via = "start"
    BY <1>6 DEF Unwind
  <2>2. lastCalled' = None /\ trap' = "none" /\ pending' = None /\ Received'
    BY <1>1, <2>1, Delivered
  <2>3. frames' = <<>> \/ Top'.kind = "import"
    BY <1>1, <1>2, <1>3, <2>1, TopPopped DEF Top
  <2>4. FramesOK'
    BY <1>1, <1>2, <1>3, <1>4, <1>6, <2>1, Popped
  <2>5. ControlOK'
    BY <1>1, <1>3, <2>1, <2>2 DEF ControlOK
  <2> QED
    BY <2>2, <2>3, <2>4, <2>5, Runs DEF Inv
<1> QED
  BY <1>5, <1>6

\* Every step preserves the invariant.
LEMMA NextInv == Inv /\ [Next]_vars => Inv'
<1> SUFFICES ASSUME Inv, [Next]_vars
             PROVE  Inv'
  OBVIOUS
<1>1. CASE CallExport \/ CallReexport \/ JsGrow
  BY <1>1, JsStepsInv
<1>2. CASE CallFunction \/ CallImport
  BY <1>2, WasmCallsInv
<1>3. CASE MemGrow \/ EnterLoop \/ IterateLoop \/ LeaveLoop \/ Trap
  BY <1>3, WasmStepsInv
<1>4. CASE Return \/ ImportReturns
  BY <1>4, ReturnsInv
<1>5. ASSUME NEW x \in Activation \cup {Trapped, Missing}, ImportThrows(x)
      PROVE  Inv'
  BY <1>5, ImportThrowsInv
<1>6. CASE Unwind
  BY <1>6, UnwindInv
<1>7. CASE UNCHANGED vars
  <2>1. /\ phase' = phase /\ frames' = frames /\ slots' = slots /\ stackBase' = stackBase
        /\ maxStack' = maxStack /\ mallocated' = mallocated /\ callDepth' = callDepth
        /\ trap' = trap /\ pending' = pending /\ lastCalled' = lastCalled /\ received' = received
        /\ calls' = calls /\ overrun' = overrun
    BY <1>7 DEF vars, machine, outcome
  <2>2. ControlOK' /\ Received'
    BY <2>1 DEF Inv, ControlOK, Received
  <2>3. FramesOK'
    BY <2>1 DEF Inv, FramesOK
  <2>4. TrapInWasm' /\ MemoryPointerFresh' /\ ExceptionPendingOnlyInFlight'
    BY <2>1 DEF Inv, TrapInWasm, MemoryPointerFresh, ExceptionPendingOnlyInFlight, WasmRuns,
                Runner, Top
  <2> QED
    BY <2>2, <2>3, <2>4 DEF Inv
<1> QED
  BY <1>1, <1>2, <1>3, <1>4, <1>5, <1>6, <1>7 DEF Next

\* The invariant always holds.
LEMMA Invariant == Spec => []Inv
  BY InitInv, NextInv, PTL DEF Spec

\* The properties the runs check follow from it.
LEMMA Properties ==
  ASSUME Inv
  PROVE  TypeOK /\ CallDepthExact /\ StackBaseRestored /\ FramesIntact
<1>1. frames \in Seq(FrameType) /\ DOMAIN frames = 1 .. Len(frames)
  BY DEF Inv, FramesOK
<1>2. TypeOK
  <2>1. received = None \/ received[1] \in {"value", "exception"}
    BY DEF Inv, Received, Value, Exception
  <2> QED
    BY <2>1 DEF Inv, TypeOK, ControlOK, FramesOK, SlotsType
<1>3. CallDepthExact
  <2>1. Called(frames) = {i \in DOMAIN frames : frames[i].via = "call"}
    BY <1>1 DEF Called
  <2> QED
    BY <2>1 DEF Inv, FramesOK, Depth, CallDepthExact
<1>4. StackBaseRestored
  <2>1. BaseOf(frames, Len(frames), stackBase)
    BY DEF Inv, FramesOK, Structure
  <2> QED
    BY <1>1, <2>1 DEF BaseOf, StackBaseRestored
<1>5. FramesIntact
  BY <1>1 DEF Inv, FramesOK, Intact, FramesIntact
<1> QED
  BY <1>2, <1>3, <1>4, <1>5

\* Types hold for every instance.
THEOREM TypeCorrect == Spec => []TypeOK
  BY Invariant, Properties, PTL

\* Whatever moved the memory, however deep, a running wasm frame addresses it
\* where it is.
THEOREM MemoryPointer == Spec => []MemoryPointerFresh
<1>1. Inv => MemoryPointerFresh
  BY DEF Inv
<1> QED
  BY <1>1, Invariant, PTL

\* The recursion guard counts exactly the active calls, within its limit.
THEOREM RecursionGuard == Spec => []CallDepthExact
  BY Invariant, Properties, PTL

\* runtime->stack is where the innermost import was called, or at the start.
THEOREM StackBase == Spec => []StackBaseRestored
  BY Invariant, Properties, PTL

\* No call overwrites the slots of a suspended frame.
THEOREM SuspendedFrames == Spec => []FramesIntact
  BY Invariant, Properties, PTL

\* An exception is pending exactly while it unwinds.
THEOREM PendingException == Spec => []ExceptionPendingOnlyInFlight
<1>1. Inv => ExceptionPendingOnlyInFlight
  BY DEF Inv
<1> QED
  BY <1>1, Invariant, PTL

-----------------------------------------------------------------------------
(* CallEngine implements JsCalls.                                          *)

\* The activation a frame stands for, and the stack frames stand for.
Abstract(f) == [id |-> f.id, js |-> f.kind = "import", byJs |-> f.via # "call"]

StackOf(fs) == [i \in DOMAIN fs |-> Abstract(fs[i])]

Failing == IF trap = "none" THEN None ELSE IF trap = "js" THEN pending ELSE Trapped

Activations == [id : Activation, js : BOOLEAN, byJs : BOOLEAN]

\* The stack grows and shrinks as the frames do.
LEMMA StackIs ==
  ASSUME NEW fs \in Seq(FrameType)
  PROVE  /\ StackOf(fs) \in Seq(Activations) /\ Len(StackOf(fs)) = Len(fs) /\ Len(fs) \in Nat
         /\ DOMAIN StackOf(fs) = 1 .. Len(fs)
         /\ \A i \in 1 .. Len(fs) : StackOf(fs)[i] = Abstract(fs[i])
         /\ StackOf(fs) = <<>> <=> fs = <<>>
<1>1. DOMAIN fs = 1 .. Len(fs) /\ Len(fs) \in Nat
  OBVIOUS
<1>2. \A i \in 1 .. Len(fs) : Abstract(fs[i]) \in Activations
  BY FrameFields DEF Abstract, Activations
<1>3. StackOf(fs) = [i \in 1 .. Len(fs) |-> Abstract(fs[i])]
  BY <1>1 DEF StackOf
<1>4. StackOf(fs) \in Seq(Activations) /\ Len(StackOf(fs)) = Len(fs)
  BY <1>1, <1>2, <1>3
<1>5. StackOf(fs) = <<>> <=> fs = <<>>
  BY <1>4, EmptySeq
<1> QED
  BY <1>1, <1>3, <1>4, <1>5

\* A pushed frame is an appended activation.
LEMMA StackPushed ==
  ASSUME NEW fs \in Seq(FrameType), NEW f \in FrameType
  PROVE  StackOf(Append(fs, f)) = Append(StackOf(fs), Abstract(f))
<1> DEFINE gs == Append(fs, f)
<1>1. /\ gs \in Seq(FrameType) /\ Len(gs) = Len(fs) + 1
      /\ \A k \in 1 .. Len(fs) : gs[k] = fs[k]
      /\ gs[Len(fs) + 1] = f
  BY AppendFrame
<1>2. Abstract(f) \in Activations
  BY DEF Abstract, Activations, FrameType
<1> DEFINE as == Append(StackOf(fs), Abstract(f))
<1>3. /\ as \in Seq(Activations) /\ Len(as) = Len(fs) + 1 /\ Len(fs) \in Nat
      /\ \A k \in 1 .. Len(fs) : as[k] = Abstract(fs[k])
      /\ as[Len(fs) + 1] = Abstract(f)
  BY <1>2, StackIs
<1> HIDE DEF gs, as
<1>4. /\ StackOf(gs) \in Seq(Activations) /\ Len(StackOf(gs)) = Len(fs) + 1
      /\ \A k \in 1 .. Len(fs) + 1 : StackOf(gs)[k] = Abstract(gs[k])
  BY <1>1, StackIs
<1>5. \A k \in 1 .. Len(fs) + 1 : StackOf(gs)[k] = as[k]
  <2>1. \A k \in 1 .. Len(fs) + 1 : k \in 1 .. Len(fs) \/ k = Len(fs) + 1
    BY <1>3
  <2> QED
    BY <1>1, <1>3, <1>4, <2>1
<1> QED
  BY <1>3, <1>4, <1>5, SeqEqual DEF gs, as

\* What is like the frames below stands for the activations below.
LEMMA StackPopped ==
  ASSUME NEW fs \in Seq(FrameType), fs # <<>>, NEW gs \in Seq(FrameType),
         Alike(SubSeq(fs, 1, Len(fs) - 1), gs)
  PROVE  StackOf(gs) = SubSeq(StackOf(fs), 1, Len(StackOf(fs)) - 1)
<1> DEFINE n == Len(fs) - 1
           as == SubSeq(StackOf(fs), 1, n)
<1>1. /\ Len(gs) = n /\ n \in Nat /\ Len(fs) = n + 1
      /\ \A k \in 1 .. n : Abstract(gs[k]) = Abstract(fs[k])
  <2> DEFINE bs == SubSeq(fs, 1, Len(fs) - 1)
  <2>1. Len(fs) \in Nat /\ Len(fs) > 0
    BY FrameFields
  <2>2. Len(bs) = n /\ \A k \in 1 .. n : bs[k] = fs[k]
    BY RemoveFrame
  <2>3. /\ Len(gs) = Len(bs)
        /\ \A k \in 1 .. Len(bs) : Abstract(gs[k]) = Abstract(bs[k])
    BY DEF Alike, Abstract
  <2> HIDE DEF bs
  <2>4. \A k \in 1 .. n : Abstract(gs[k]) = Abstract(fs[k])
    BY <2>2, <2>3
  <2> QED
    BY <2>1, <2>2, <2>3, <2>4
<1>2. /\ Len(StackOf(fs)) = n + 1 /\ StackOf(fs) \in Seq(Activations)
      /\ \A k \in 1 .. n + 1 : StackOf(fs)[k] = Abstract(fs[k])
      /\ \A k \in 1 .. n + 1 : StackOf(fs)[k] \in Activations
  <2>1. /\ StackOf(fs) \in Seq(Activations) /\ Len(StackOf(fs)) = Len(fs)
        /\ \A k \in 1 .. Len(fs) : StackOf(fs)[k] = Abstract(fs[k])
    BY StackIs
  <2> HIDE DEF n
  <2>2. /\ Len(StackOf(fs)) = n + 1
        /\ \A k \in 1 .. n + 1 : StackOf(fs)[k] = Abstract(fs[k])
    BY <1>1, <2>1
  <2>3. \A k \in 1 .. n + 1 : StackOf(fs)[k] \in Activations
    BY <2>1, <2>2
  <2> QED
    BY <2>1, <2>2, <2>3
<1>3. /\ StackOf(gs) \in Seq(Activations) /\ Len(StackOf(gs)) = n
      /\ \A k \in 1 .. n : StackOf(gs)[k] = Abstract(gs[k])
  BY <1>1, StackIs
<1> HIDE DEF n
<1>4. /\ as \in Seq(Activations)
      /\ Len(as) = IF 1 <= n THEN n - 1 + 1 ELSE 0
      /\ \A k \in 1 .. n - 1 + 1 : as[k] = StackOf(fs)[1 + k - 1]
  BY <1>1, <1>2, SubSeqProperties
<1> HIDE DEF as
<1>5. Len(as) = n /\ \A k \in 1 .. n : as[k] = StackOf(fs)[k]
  <2>1. n \in Nat
    BY <1>1
  <2>2. n - 1 + 1 = n /\ \A k \in 1 .. n : 1 + k - 1 = k
    BY <2>1
  <2>3. Len(as) = n
    BY <1>4, <2>1, <2>2
  <2>4. \A k \in 1 .. n : as[k] = StackOf(fs)[k]
    BY <1>4, <2>2
  <2> QED
    BY <2>3, <2>4
<1>6. StackOf(gs) = as
  <2>1. \A k \in 1 .. n : k \in 1 .. n + 1
    BY <1>1
  <2>2. \A k \in 1 .. n : StackOf(gs)[k] = as[k]
    BY <1>1, <1>2, <1>3, <1>5, <2>1
  <2>3. /\ StackOf(gs) \in Seq(Activations) /\ as \in Seq(Activations)
        /\ Len(StackOf(gs)) = n /\ Len(as) = n
    BY <1>3, <1>4, <1>5
  <2> QED
    BY <2>2, <2>3, SeqEqual
<1>7. Len(StackOf(fs)) - 1 = n
  BY <1>1, <1>2
<1> QED
  BY <1>6, <1>7 DEF as

\* Nothing but pointers changed: the same activations.
LEMMA StackAlike ==
  ASSUME NEW fs \in Seq(FrameType), NEW gs \in Seq(FrameType), Alike(fs, gs)
  PROVE  StackOf(gs) = StackOf(fs)
<1>1. /\ StackOf(fs) \in Seq(Activations) /\ StackOf(gs) \in Seq(Activations)
      /\ Len(StackOf(gs)) = Len(StackOf(fs))
  BY StackIs DEF Alike
<1>2. \A k \in 1 .. Len(fs) : StackOf(gs)[k] = StackOf(fs)[k]
  <2>1. \A k \in 1 .. Len(fs) : Abstract(gs[k]) = Abstract(fs[k]) /\ k \in 1 .. Len(gs)
    BY DEF Alike, Abstract
  <2>2. /\ \A k \in 1 .. Len(fs) : StackOf(fs)[k] = Abstract(fs[k])
        /\ \A k \in 1 .. Len(gs) : StackOf(gs)[k] = Abstract(gs[k])
    BY StackIs
  <2> QED
    BY <2>1, <2>2
<1>3. Len(StackOf(gs)) = Len(fs) /\ Len(StackOf(fs)) = Len(fs)
  BY <1>1, StackIs
<1> QED
  BY <1>1, <1>2, <1>3, SeqEqual

\* The innermost activation, and whether JS runs.
Innermost == StackOf(frames)[Len(StackOf(frames))]
JsInnermost == IF StackOf(frames) = <<>> THEN TRUE ELSE Innermost.js

\* JsCalls' Enter, with the stack the frames stand for.
LEMMA AbstractEnter ==
  ASSUME Failing = None, NEW id \in Activation, NEW js \in BOOLEAN,
         \A i \in DOMAIN StackOf(frames) : StackOf(frames)[i].id # id,
         StackOf(frames)' = Append(StackOf(frames), [id |-> id, js |-> js, byJs |-> JsInnermost]),
         received' = None, Failing' = Failing
  PROVE  Calls!Next
<1>1. Calls!Enter
  BY DEF Calls!Enter, Calls!Ids, Calls!JsRuns, Calls!Top, StackOf, Abstract, Failing,
         JsInnermost, Innermost
<1> QED
  BY <1>1 DEF Calls!Next

\* JsCalls' Return.
LEMMA AbstractReturn ==
  ASSUME Failing = None, StackOf(frames) # <<>>,
         StackOf(frames)' = SubSeq(StackOf(frames), 1, Len(StackOf(frames)) - 1),
         received' = IF Innermost.byJs THEN Value(Innermost.id) ELSE received,
         Failing' = Failing
  PROVE  Calls!Next
<1>1. Calls!Return
  BY DEF Calls!Return, Calls!Below, Calls!Top, Calls!Value, Value, StackOf, Abstract, Failing,
         Innermost
<1> QED
  BY <1>1 DEF Calls!Next

\* JsCalls' Refuse.
LEMMA AbstractRefuse ==
  ASSUME Failing = None, NEW x \in {Trapped, Missing}, StackOf(frames)' = StackOf(frames),
         \/ ~JsInnermost /\ Failing' = x /\ received' = received
         \/ JsInnermost /\ received' = Exception(x) /\ Failing' = Failing
  PROVE  Calls!Next
<1>1. Calls!Refuse(x)
  BY DEF Calls!Refuse, Calls!JsRuns, Calls!Top, Calls!Exception, Exception, StackOf, Abstract,
         Failing, JsInnermost, Innermost
<1> QED
  BY <1>1 DEF Calls!Next

\* JsCalls' Fail.
LEMMA AbstractFail ==
  ASSUME StackOf(frames) # <<>>, NEW x \in Activation \cup {Trapped, Missing},
         \/ Failing = x
         \/ Failing = None /\ Innermost.js /\ (x = Innermost.id \/ received = Exception(x)),
         StackOf(frames)' = SubSeq(StackOf(frames), 1, Len(StackOf(frames)) - 1),
         IF Innermost.byJs THEN Failing' = None /\ received' = Exception(x)
                           ELSE Failing' = x /\ received' = received
  PROVE  Calls!Next
<1>1. Calls!Fail(x)
  BY DEF Calls!Fail, Calls!Below, Calls!Top, Calls!Exception, Exception, StackOf, Abstract,
         Failing, Innermost
<1> QED
  BY <1>1 DEF Calls!Next

\* A step JsCalls does not see.
LEMMA AbstractStutter ==
  ASSUME StackOf(frames)' = StackOf(frames), Failing' = Failing, received' = received
  PROVE  UNCHANGED Calls!calls
  BY DEF Calls!calls, StackOf, Abstract, Failing

\* The innermost activation is the innermost frame's.
LEMMA InnermostIs ==
  ASSUME FramesOK
  PROVE  /\ JsInnermost <=> frames = <<>> \/ Top.kind = "import"
         /\ JsInnermost \in BOOLEAN
         /\ frames # <<>> => StackOf(frames) # <<>> /\ Innermost = Abstract(Top)
<1>1. /\ frames \in Seq(FrameType) /\ (frames # <<>> => Len(frames) \in 1 .. Len(frames))
  BY FrameFields DEF FramesOK
<1>2. frames # <<>> => StackOf(frames) # <<>> /\ Innermost = Abstract(Top)
  BY <1>1, StackIs DEF Innermost, Top
<1>3. frames = <<>> => StackOf(frames) = <<>>
  BY <1>1, StackIs
<1>4. Abstract(Top).js = (Top.kind = "import")
  BY DEF Abstract
<1> QED
  BY <1>2, <1>3, <1>4 DEF JsInnermost

\* A frame is pushed: JsCalls enters an activation of that identity, which is new.
LEMMA PushRefines ==
  ASSUME FramesOK, calls < MaxCalls, trap = "none", trap' = "none", received' = None,
         NEW kind \in {"wasm", "import"}, NEW via \in {"entry", "call"},
         NEW base \in Nat, NEW mem \in Addr, NEW saved \in Nat,
         frames' = Append(frames, Frame(kind, via, base, mem, saved)),
         via = "entry" <=> (frames = <<>> \/ Top.kind = "import")
  PROVE  Calls!Next
<1> DEFINE f == Frame(kind, via, base, mem, saved)
<1>1. calls \in Nat /\ calls + 1 \in Activation
  BY CallsNat
<1>2. f \in FrameType /\ f.id = calls + 1 /\ f.kind = kind /\ f.via = via
  BY <1>1 DEF Frame, FrameType
<1>3. frames \in Seq(FrameType) /\ Numbered(frames, calls)
  BY DEF FramesOK, Structure
<1> HIDE DEF f
<1>4. frames' = Append(frames, f)
  BY DEF f
<1>5. StackOf(frames)' = Append(StackOf(frames), Abstract(f))
  <2>1. StackOf(frames)' = StackOf(frames')
    BY DEF StackOf
  <2> QED
    BY <1>2, <1>3, <1>4, <2>1, StackPushed
<1>6. Abstract(f) = [id |-> calls + 1, js |-> kind = "import", byJs |-> JsInnermost]
  <2>1. JsInnermost <=> via # "call"
    BY InnermostIs
  <2>2. JsInnermost = (via # "call")
    BY <2>1, InnermostIs
  <2> QED
    BY <1>2, <2>2 DEF Abstract
<1>7. \A i \in DOMAIN StackOf(frames) : StackOf(frames)[i].id # calls + 1
  <2> SUFFICES ASSUME NEW i \in DOMAIN StackOf(frames)
               PROVE  StackOf(frames)[i].id # calls + 1
    OBVIOUS
  <2>1. i \in 1 .. Len(frames) /\ StackOf(frames)[i] = Abstract(frames[i])
    BY <1>3, StackIs
  <2>2. frames[i].id <= calls /\ frames[i].id \in Nat
    BY <1>3, <2>1, FrameFields DEF Numbered
  <2>3. StackOf(frames)[i].id = frames[i].id
    BY <2>1 DEF Abstract
  <2> QED
    BY <1>1, <2>2, <2>3
<1>8. Failing = None /\ Failing' = Failing
  BY DEF Failing
<1> QED
  BY <1>1, <1>5, <1>6, <1>7, <1>8, AbstractEnter

\* A frame returns: its JS caller receives the value of that activation.
LEMMA PopRefines ==
  ASSUME FramesOK, frames # <<>>, trap = "none", trap' = "none",
         frames' \in Seq(FrameType), Alike(Below, frames'),
         Top.via = "call" => received' = received,
         Top.via # "call" => received' = Value(Top.id)
  PROVE  Calls!Next
<1>1. frames \in Seq(FrameType)
  BY DEF FramesOK
<1>2. StackOf(frames)' = SubSeq(StackOf(frames), 1, Len(StackOf(frames)) - 1)
  <2>1. StackOf(frames)' = StackOf(frames')
    BY DEF StackOf
  <2> QED
    BY <1>1, <2>1, StackPopped DEF Below
<1>3. StackOf(frames) # <<>> /\ Innermost = Abstract(Top)
  BY InnermostIs
<1>4. received' = IF Innermost.byJs THEN Value(Innermost.id) ELSE received
  BY <1>3 DEF Abstract
<1>5. Failing = None /\ Failing' = Failing
  BY DEF Failing
<1> QED
  BY <1>2, <1>3, <1>4, <1>5, AbstractReturn

\* A frame fails: its caller fails, or is JS and receives the exception.
LEMMA FailRefines ==
  ASSUME FramesOK, frames # <<>>, NEW x \in Activation \cup {Trapped, Missing},
         frames' \in Seq(FrameType), Alike(Below, frames'),
         \/ Failing = x
         \/ trap = "none" /\ Top.kind = "import" /\ (x = Top.id \/ received = Exception(x)),
         Top.via = "call" => Failing' = x /\ received' = received,
         Top.via # "call" => Failing' = None /\ received' = Exception(x)
  PROVE  Calls!Next
<1>1. frames \in Seq(FrameType)
  BY DEF FramesOK
<1>2. StackOf(frames)' = SubSeq(StackOf(frames), 1, Len(StackOf(frames)) - 1)
  <2>1. StackOf(frames)' = StackOf(frames')
    BY DEF StackOf
  <2> QED
    BY <1>1, <2>1, StackPopped DEF Below
<1>3. StackOf(frames) # <<>> /\ Innermost = Abstract(Top)
  BY InnermostIs
<1>4. IF Innermost.byJs THEN Failing' = None /\ received' = Exception(x)
                        ELSE Failing' = x /\ received' = received
  BY <1>3 DEF Abstract
<1>5. \/ Failing = x
      \/ Failing = None /\ Innermost.js /\ (x = Innermost.id \/ received = Exception(x))
  BY <1>3 DEF Abstract, Failing
<1> QED
  BY <1>2, <1>3, <1>4, <1>5, AbstractFail

\* The steps that call, or refuse to.
LEMMA CallsRefine ==
  ASSUME Inv, CallExport \/ CallReexport \/ CallFunction \/ CallImport
  PROVE  Calls!Next
<1>1. /\ FramesOK /\ MemoryPointerFresh /\ mallocated \in Addr /\ stackBase \in Nat
      /\ pending # None <=> trap = "js"
  BY DEF Inv, FramesOK, ControlOK, ExceptionPendingOnlyInFlight
<1>2. StackOf(frames') = StackOf(frames)'
  BY DEF StackOf
<1>3. frames' = frames => StackOf(frames)' = StackOf(frames)
  BY <1>2
<1>4. CASE CallExport \/ CallReexport
  <2>1. JsRuns /\ calls < MaxCalls /\ trap' = trap
    BY <1>4 DEF CallExport, CallReexport
  <2>2. trap = "none" /\ (frames = <<>> \/ Top.kind = "import")
    BY <2>1, Running
  <2>3. Failing = None /\ Failing' = None
    BY <2>1, <2>2 DEF Failing
  <2>4. ASSUME NEW kind \in {"wasm", "import"}, NEW saved \in Nat, received' = None,
               frames' = Append(frames, Frame(kind, "entry", stackBase, mallocated, saved))
        PROVE  Calls!Next
    BY <1>1, <2>1, <2>2, <2>4, PushRefines
  <2>5. ASSUME NEW x \in {Trapped, Missing}, received' = Exception(x), frames' = frames
        PROVE  Calls!Next
    <3>1. JsInnermost
      BY <1>1, <2>2, InnermostIs
    <3> QED
      BY <1>3, <2>3, <2>5, <3>1, AbstractRefuse
  <2>6. CASE CallExport
    <3>1. \/ /\ received' = None
             /\ frames' = Append(frames, Frame("wasm", "entry", stackBase, mallocated, 0))
          \/ received' = Exception(Trapped) /\ frames' = frames
      BY <2>6 DEF CallExport
    <3> QED
      BY <2>4, <2>5, <3>1
  <2>7. CASE CallReexport
    <3>1. \/ /\ received' = None
             /\ frames' = Append(frames, Frame("import", "entry", stackBase, mallocated, stackBase))
          \/ received' = Exception(Missing) /\ frames' = frames
      BY <2>7 DEF CallReexport
    <3> QED
      BY <1>1, <2>4, <2>5, <3>1
  <2> QED
    BY <1>4, <2>6, <2>7
<1>5. CASE CallFunction \/ CallImport
  <2>1. WasmRuns /\ calls < MaxCalls
    BY <1>5 DEF CallFunction, CallImport
  <2>2. trap = "none" /\ frames # <<>> /\ Top.kind = "wasm"
    BY <2>1, Running
  <2>3. CalleeBase \in Nat /\ Top.mem \in Addr /\ Failing = None
    BY <1>1, <2>2, TopFields DEF Failing
  <2>4. ASSUME NEW kind \in {"wasm", "import"}, NEW saved \in Nat, received' = None,
               trap' = "none",
               frames' = Append(frames, Frame(kind, "call", CalleeBase, Top.mem, saved))
        PROVE  Calls!Next
    BY <1>1, <2>1, <2>2, <2>3, <2>4, PushRefines
  <2>5. ASSUME NEW x \in {Trapped, Missing}, Failing' = x, received' = received, frames' = frames
        PROVE  Calls!Next
    <3>1. ~JsInnermost
      BY <1>1, <2>2, InnermostIs
    <3> QED
      BY <1>3, <2>3, <2>5, <3>1, AbstractRefuse
  <2>6. CASE CallFunction
    <3>1. \/ /\ received' = None /\ trap' = "none"
             /\ frames' = Append(frames, Frame("wasm", "call", CalleeBase, Top.mem, 0))
          \/ trap' = "wasm" /\ received' = received /\ frames' = frames
      BY <2>2, <2>6 DEF CallFunction
    <3>2. trap' = "wasm" => Failing' = Trapped
      BY DEF Failing
    <3> QED
      BY <2>4, <2>5, <3>1, <3>2
  <2>7. CASE CallImport
    <3>1. \/ /\ received' = None /\ trap' = "none"
             /\ frames' = Append(frames, Frame("import", "call", CalleeBase, Top.mem, stackBase))
          \/ trap' = "wasm" /\ received' = received /\ frames' = frames
          \/ trap' = "js" /\ pending' = Missing /\ received' = received /\ frames' = frames
      BY <2>2, <2>7 DEF CallImport
    <3>2. /\ trap' = "wasm" => Failing' = Trapped
          /\ trap' = "js" => Failing' = pending'
      BY DEF Failing
    <3> QED
      BY <1>1, <2>4, <2>5, <3>1, <3>2
  <2> QED
    BY <1>5, <2>6, <2>7
<1> QED
  BY <1>4, <1>5

\* A JS caller gets the result its own activation wrote, or its exception.
LEMMA ReturnsRefine ==
  ASSUME Inv, Return \/ ImportReturns
  PROVE  Calls!Next
<1>1. FramesOK /\ mallocated \in Addr
  BY DEF Inv, ControlOK
<1>2. /\ ~overrun /\ trap = "none" /\ frames # <<>>
      /\ Return => Top.kind = "wasm"
      /\ ImportReturns => Top.kind = "import"
  BY Running DEF Return, ImportReturns
<1>3. /\ Top.id \in Activation /\ Top.id \in 0 .. MaxCalls /\ Top.base \in Nat
      /\ Top.via \in {"start", "entry", "call"} /\ Top.kind \in {"wasm", "import"}
  BY <1>1, <1>2, TopFields
<1>4. /\ Write(Top.base, 1, Top.id) /\ trap' = "none"
      /\ Top.kind = "import" => stackBase' = Top.saved
  BY <1>2 DEF Return, ImportReturns
<1>5. CASE Top.via = "call"
  <2>1. frames' = ResumeCaller /\ received' = received
    BY <1>5 DEF Return, ImportReturns
  <2>2. frames' \in Seq(FrameType) /\ Alike(Below, frames')
    BY <1>1, <1>2, <1>5, <2>1, TopPopped
  <2> QED
    BY <1>1, <1>2, <1>4, <1>5, <2>1, <2>2, PopRefines
<1>6. CASE Top.via = "entry"
  <2>1. /\ frames' = Below
        /\ Top.kind = "wasm" => Answer(Top.id, stackBase)
        /\ Top.kind = "import" => Answer(Top.id, stackBase')
    BY <1>2, <1>6 DEF Return, ImportReturns
  <2>2. frames' \in Seq(FrameType) /\ Alike(Below, frames')
    BY <1>1, <1>2, <2>1, TopPopped
  <2>3. Answer(Top.id, Top.base)
    <3>1. /\ Top.kind = "wasm" => stackBase = Top.base
          /\ Top.kind = "import" => stackBase' = Top.base
      BY <1>1, <1>2, <1>4, <1>6, EntryBase
    <3> QED
      BY <1>3, <2>1, <3>1
  <2>4. Top.base \in 0 .. Allocation - 1
    BY <1>1, <1>2, <1>6, EntryWithin
  <2>5. slots'[Top.base] = Top.id
    <3>1. DOMAIN slots = 0 .. Allocation - 1
      BY <1>1 DEF FramesOK, SlotsType
    <3>2. slots' = Written(slots, Top.base, 1, Top.id)
      BY <1>4 DEF Write, Written
    <3>3. Top.base \in Top.base .. Top.base + 1 - 1
      BY <1>3
    <3> QED
      BY <2>4, <3>1, <3>2, <3>3 DEF Written
  <2>6. received' = Value(Top.id)
    BY <2>3, <2>5 DEF Answer, ResultSlot
  <2> QED
    BY <1>1, <1>2, <1>4, <1>6, <2>2, <2>6, PopRefines
<1>7. CASE Top.via = "start"
  <2>1. Below = <<>> /\ Top.kind = "wasm"
    BY <1>1, <1>2, <1>7, TopPopped
  <2>2. frames' = Below /\ received' = Value(Top.id)
    BY <1>2, <1>7, <2>1 DEF Return, ImportReturns
  <2>3. frames' \in Seq(FrameType) /\ Alike(Below, frames')
    BY <1>1, <1>2, <2>2, TopPopped
  <2> QED
    BY <1>1, <1>2, <1>4, <1>7, <2>2, <2>3, PopRefines
<1> QED
  BY <1>3, <1>5, <1>6, <1>7

\* An import throws its own exception or the one it received.
LEMMA ImportThrowsRefine ==
  ASSUME Inv, NEW x \in Activation \cup {Trapped, Missing}, ImportThrows(x)
  PROVE  Calls!Next
<1>1. FramesOK /\ Received /\ mallocated \in Addr
  BY DEF Inv, ControlOK
<1>2. trap = "none" /\ frames # <<>> /\ Top.kind = "import" /\ frames' = Below /\ x # None
  BY Running, ValueAssumption DEF ImportThrows, Activation
<1>3. x = Top.id \/ received = Exception(x)
  <2>1. \/ x = Top.id
        \/ received # None /\ received[1] = "exception" /\ x = received[2]
    BY DEF ImportThrows, Throwable
  <2>2. received # None /\ received[1] = "exception" => received = Exception(received[2])
    BY <1>1 DEF Received, Value, Exception
  <2> QED
    BY <2>1, <2>2
<1>4. frames' \in Seq(FrameType) /\ Alike(Below, frames')
  BY <1>1, <1>2, TopPopped
<1>5. Top.via = "call" => Failing' = x /\ received' = received
  BY DEF ImportThrows, Failing
<1>6. Top.via # "call" => Failing' = None /\ received' = Exception(x)
  <2>1. Top.via # "call" => Deliver("js", x)
    BY DEF ImportThrows
  <2> QED
    BY <1>2, <2>1 DEF Deliver, Failing
<1> QED
  BY <1>1, <1>2, <1>3, <1>4, <1>5, <1>6, FailRefines

\* A trap carries the exception that JS will receive.
LEMMA UnwindRefines ==
  ASSUME Inv, Unwind
  PROVE  Calls!Next
<1>1. /\ FramesOK /\ mallocated \in Addr /\ (trap # "none" => frames # <<>>)
      /\ pending # None <=> trap = "js"
      /\ pending \in Activation \cup {None, Trapped, Missing}
      /\ trap \in {"none", "wasm", "js"}
  BY DEF Inv, ControlOK, ExceptionPendingOnlyInFlight, TrapInWasm
<1>2. trap # "none" /\ frames # <<>> /\ frames' = Below
  BY <1>1 DEF Unwind
<1>3. Failing \in Activation \cup {Trapped, Missing}
  BY <1>1, <1>2 DEF Failing
<1>4. frames' \in Seq(FrameType) /\ Alike(Below, frames')
  BY <1>1, <1>2, TopPopped
<1>5. Top.via = "call" => Failing' = Failing /\ received' = received
  BY DEF Unwind, Failing, outcome
<1>6. Top.via # "call" => Failing' = None /\ received' = Exception(Failing)
  <2>1. Top.via # "call" => Deliver(trap, pending)
    BY DEF Unwind
  <2> QED
    BY <1>1, <1>2, <2>1 DEF Deliver, Failing
<1> QED
  BY <1>1, <1>2, <1>3, <1>4, <1>5, <1>6, FailRefines

\* Growing memory and going through loops is not seen; an instruction that
\* traps is a failure.
LEMMA InnerStepsRefine ==
  ASSUME Inv, JsGrow \/ MemGrow \/ EnterLoop \/ IterateLoop \/ LeaveLoop \/ Trap
  PROVE  [Calls!Next]_(Calls!calls)
<1>1. FramesOK /\ MemoryPointerFresh /\ mallocated \in Addr /\ frames \in Seq(FrameType)
  BY DEF Inv, FramesOK, ControlOK
<1>2. StackOf(frames') = StackOf(frames)'
  BY DEF StackOf
<1>3. CASE JsGrow
  <2>1. frames' = frames /\ trap' = trap /\ pending' = pending /\ received' = received
    BY <1>3 DEF JsGrow, outcome
  <2> QED
    BY <1>2, <2>1, AbstractStutter DEF Failing
<1>4. CASE MemGrow \/ EnterLoop \/ IterateLoop \/ LeaveLoop
  <2>1. trap' = trap /\ pending' = pending /\ received' = received
    BY <1>4 DEF MemGrow, EnterLoop, IterateLoop, LeaveLoop, outcome
  <2>2. WasmRuns /\ frames # <<>>
    BY <1>4, Running DEF MemGrow, EnterLoop, IterateLoop, LeaveLoop
  <2>3. Top.mem \in Addr /\ Top.loop \in Addr \cup {Null}
    BY <1>1, <2>2, TopFields
  <2>4. \E mem \in Addr, loop \in Addr \cup {Null} : UpdateTop(mem, loop)
    BY <1>1, <1>4, <2>3 DEF MemGrow, EnterLoop, IterateLoop, LeaveLoop
  <2>5. frames' \in Seq(FrameType) /\ Alike(frames, frames')
    BY <1>1, <2>2, <2>4, TopUpdated
  <2>6. StackOf(frames)' = StackOf(frames)
    BY <1>1, <1>2, <2>5, StackAlike
  <2> QED
    BY <2>1, <2>6, AbstractStutter DEF Failing
<1>5. CASE Trap
  <2>1. WasmRuns /\ trap' = "wasm" /\ frames' = frames /\ received' = received
    BY <1>5 DEF Trap
  <2>2. trap = "none" /\ frames # <<>> /\ Top.kind = "wasm"
    BY <2>1, Running
  <2>3. Failing = None /\ Failing' = Trapped /\ ~JsInnermost
    BY <1>1, <2>1, <2>2, InnermostIs DEF Failing
  <2> QED
    BY <1>2, <2>1, <2>3, AbstractRefuse
<1> QED
  BY <1>3, <1>4, <1>5

\* The first states of CallEngine are first states of JsCalls.
LEMMA InitRefines == Init => Calls!Init
<1> SUFFICES ASSUME Init
             PROVE  Calls!Init
  OBVIOUS
<1> DEFINE first == [id |-> 1, kind |-> "wasm", via |-> "start", base |-> 0,
                     mem |-> mallocated, loop |-> Null, saved |-> 0]
           one == [id |-> 1, js |-> FALSE, byJs |-> TRUE]
<1>1. Failing = None /\ received = None
  BY DEF Init, Failing
<1>2. StackOf(frames) = <<>> \/ StackOf(frames) = <<one>>
  <2>1. CASE frames = <<>>
    BY <2>1 DEF StackOf
  <2>2. CASE frames = <<first>>
    <3>1. Abstract(first) = one
      BY DEF Abstract
    <3> HIDE DEF first, one
    <3>2. DOMAIN frames = {1} /\ frames[1] = first
      BY <2>2
    <3>3. StackOf(frames) = [i \in {1} |-> one]
      BY <3>1, <3>2 DEF StackOf
    <3>4. <<one>> = [i \in {1} |-> one]
      OBVIOUS
    <3> QED
      BY <3>3, <3>4
  <2> QED
    BY <2>1, <2>2 DEF Init
<1> QED
  BY <1>1, <1>2 DEF Calls!Init, StackOf, Abstract, Failing

\* Every step of CallEngine is a step of JsCalls or leaves it where it is.
LEMMA NextRefines == Inv /\ [Next]_vars => [Calls!Next]_(Calls!calls)
<1> SUFFICES ASSUME Inv, [Next]_vars
             PROVE  [Calls!Next]_(Calls!calls)
  OBVIOUS
<1>1. CASE CallExport \/ CallReexport \/ CallFunction \/ CallImport
  BY <1>1, CallsRefine
<1>2. CASE Return \/ ImportReturns
  BY <1>2, ReturnsRefine
<1>3. ASSUME NEW x \in Activation \cup {Trapped, Missing}, ImportThrows(x)
      PROVE  Calls!Next
  BY <1>3, ImportThrowsRefine
<1>4. CASE Unwind
  BY <1>4, UnwindRefines
<1>5. CASE JsGrow \/ MemGrow \/ EnterLoop \/ IterateLoop \/ LeaveLoop \/ Trap
  BY <1>5, InnerStepsRefine
<1>6. CASE UNCHANGED vars
  <2>1. frames' = frames /\ trap' = trap /\ pending' = pending /\ received' = received
    BY <1>6 DEF vars, outcome
  <2> QED
    BY <2>1, AbstractStutter DEF StackOf, Failing
<1> QED
  BY <1>1, <1>2, <1>3, <1>4, <1>5, <1>6 DEF Next

\* CallEngine implements JsCalls: every JS caller gets the result or the
\* failure of the activation it started, at any depth of re-entrance.
THEOREM Implementation == Spec => ImplementsJsCalls
  BY InitRefines, NextRefines, Invariant, PTL DEF Spec, ImplementsJsCalls, Calls!Spec
=============================================================================
