-------------------------- MODULE LinearMemoryProofs --------------------------
(***************************************************************************)
(* Proofs about LinearMemory, for every page size, limit, address set and  *)
(* every page count a module declares or a program asks for.               *)
(***************************************************************************)
EXTENDS LinearMemory, TLAPS

-----------------------------------------------------------------------------
(* The inductive invariant.                                                *)

BlockTypeOK ==
  /\ maxPages \in Nat
  /\ reservation \in [base : Addr, bytes : Nat] \cup {Unreserved}
  /\ committed \in Nat
  /\ mallocated \in Addr \cup {Null}
  /\ numPages \in Nat
  /\ length \in Nat
  /\ owned \subseteq Addr
  /\ mapped \in [Addr -> Nat]
  /\ dirty \subseteq Nat

\* A reserved block sits at the start of its reservation.
BlockPlaced ==
  reservation # Unreserved /\ mallocated # Null => mallocated = reservation.base

\* The process holds the reservation, or the reallocated block, and nothing else;
\* what it does not hold it cannot access.
OneBlock ==
  /\ owned \subseteq {IF reservation # Unreserved THEN reservation.base ELSE mallocated}
  /\ \A a \in Addr \ owned : mapped[a] = 0

BlockInv ==
  BlockTypeOK /\ MemoryBacked /\ CommitTracksReservation /\ BlockPlaced /\ OneBlock

\* What exists in each phase of the instance's life.
Phases ==
  /\ status # "live" => views = {} /\ cache = None /\ bufferRead = None
  /\ status \in {"declared", "loaded", "orphaned", "released"} => handles = {}
  /\ status \in {"declared", "released"} => mallocated = Null /\ reservation = Unreserved
  /\ status = "released" => owned = {}
  /\ status \in {"loaded", "starting", "live"} => mallocated # Null
  /\ "memory" \notin handles => cache = None

Inv ==
  TypeOK /\ BlockInv /\ ViewsBacked /\ BufferIsCurrent /\ Phases

-----------------------------------------------------------------------------
(* Arithmetic.                                                             *)

\* The product of two naturals is a natural.
LEMMA ProductNat ==
  ASSUME NEW x \in Nat, NEW y \in Nat
  PROVE  x * y \in Nat
  OBVIOUS

\* The remainder of a division lies below the divisor.
LEMMA RemainderNat ==
  ASSUME NEW x \in Nat, NEW y \in Nat \ {0}
  PROVE  x % y \in Nat
  OBVIOUS

\* The 32-bit range is not empty.
LEMMA U32Positive == U32 \in Nat \ {0}
<1>1. PageSize * LinearMemoryLimit \in Nat
  BY ProductNat, SizeAssumption
<1>2. PageSize * LinearMemoryLimit # 0
  BY SizeAssumption
<1> QED
  BY <1>1, <1>2 DEF U32

\* Whatever the page count, the wrapped byte size is a natural number.
LEMMA BytesNat ==
  ASSUME NEW p \in Nat
  PROVE  PageBytes(p) \in Nat /\ BlockBytes(p) \in Nat
<1>1. p * PageSize \in Nat
  BY ProductNat, SizeAssumption
<1>2. PageBytes(p) \in Nat
  BY <1>1, RemainderNat, U32Positive DEF PageBytes
<1> QED
  BY <1>2, SizeAssumption DEF BlockBytes

\* Byte sizes count whole pages.
LEMMA PagesNat ==
  ASSUME NEW b \in Nat
  PROVE  Pages(b) \in Nat
  BY SizeAssumption DEF Pages

-----------------------------------------------------------------------------
(* One call of ResizeMemory.                                               *)

\* What a call leaves behind: the block invariant; an existing reservation and
\* the place of a reserved block, with no accessible byte taken away from it;
\* a block when it succeeds, and unchanged sizes when it fails.
ResizeEffect(ok) ==
  /\ BlockInv'
  /\ ok => mallocated' # Null
  /\ ~ok => mallocated' = mallocated /\ length' = length
  /\ mallocated # Null => mallocated' # Null
  /\ reservation # Unreserved \/ mallocated # Null => reservation' = reservation
  /\ reservation # Unreserved /\ mallocated # Null =>
       mallocated' = mallocated /\ mapped'[mallocated] >= mapped[mallocated]

\* A reservation is the one that exists, or a fresh one for the first block.
LEMMA ReservationChoice ==
  ASSUME BlockInv, NEW r \in Reservations, r # Unreserved
  PROVE  /\ r \in [base : Addr, bytes : Nat]
         /\ \/ r = reservation
            \/ reservation = Unreserved /\ mallocated = Null /\ mapped[r.base] = 0
<1>1. CASE reservation = Unreserved /\ mallocated = Null
  <2>1. PICK a \in FreeAddr : r = [base |-> a, bytes |-> maxPages * PageSize + Header]
    BY <1>1 DEF Reservations
  <2>2. maxPages * PageSize \in Nat
    BY ProductNat, SizeAssumption DEF BlockInv, BlockTypeOK
  <2>3. maxPages * PageSize + Header \in Nat
    BY <2>2, SizeAssumption
  <2> QED
    BY <1>1, <2>1, <2>3 DEF FreeAddr, BlockInv, OneBlock
<1>2. CASE ~(reservation = Unreserved /\ mallocated = Null)
  BY <1>2 DEF Reservations, BlockInv, BlockTypeOK
<1> QED
  BY <1>1, <1>2

\* Growth, or a failed growth, inside a reservation.
LEMMA CommitKeepsBlock ==
  ASSUME NEW p \in Nat, NEW ok \in BOOLEAN, BlockInv, maxPages' = maxPages,
         NEW r \in Reservations, r # Unreserved, reservation' = r,
         owned' = owned \cup {r.base}, Commit(p, r, ok)
  PROVE  ResizeEffect(ok)
<1>1. /\ r \in [base : Addr, bytes : Nat]
      /\ \/ r = reservation
         \/ reservation = Unreserved /\ mallocated = Null /\ mapped[r.base] = 0
  BY ReservationChoice
<1>2. PageBytes(p) \in Nat /\ BlockBytes(p) = PageBytes(p) + Header /\ Header \in Nat
  BY BytesNat, SizeAssumption DEF BlockBytes
<1>3. Null \notin Addr
  BY ValueAssumption
<1>4. CASE ~ok
  <2>1. committed' = CommittedIn(r) /\ UNCHANGED <<mallocated, numPages, length, mapped, dirty>>
    BY <1>4 DEF Commit
  <2> QED
    BY <2>1, <1>1, <1>3, <1>4
       DEF CommittedIn, Unreserved, ResizeEffect, BlockInv, BlockTypeOK, MemoryBacked, CommitTracksReservation,
           BlockPlaced, OneBlock
<1>5. CASE ok
  <2>1. /\ BlockBytes(p) <= r.bytes
        /\ mallocated' = r.base
        /\ numPages' = p
        /\ length' = PageBytes(p)
        /\ dirty' = dirty
    BY <1>5 DEF Commit, SetSize
  <2> QED
    BY <2>1, <1>1, <1>2, <1>3, <1>5
       DEF CommittedIn, Unreserved, ResizeEffect, BlockInv, BlockTypeOK, MemoryBacked,
           CommitTracksReservation, BlockPlaced, OneBlock, Commit
<1> QED
  BY <1>4, <1>5

\* The realloc path, taken when nothing is reserved.
LEMMA RelocateKeepsBlock ==
  ASSUME NEW p \in Nat, NEW ok \in BOOLEAN, BlockInv, maxPages' = maxPages,
         reservation = Unreserved, reservation' = Unreserved, Relocate(p, ok)
  PROVE  ResizeEffect(ok)
<1>1. PageBytes(p) \in Nat /\ BlockBytes(p) = PageBytes(p) + Header /\ Header \in Nat
  BY BytesNat, SizeAssumption DEF BlockBytes
<1>2. Null \notin Addr
  BY ValueAssumption
<1>3. CASE ~ok
  BY <1>3 DEF Relocate, ResizeEffect, BlockInv, BlockTypeOK, MemoryBacked,
              CommitTracksReservation, BlockPlaced, OneBlock
<1>4. CASE ok
  <2>1. PICK a \in FreeAddr \cup ({mallocated} \ {Null}) :
          /\ mallocated' = a
          /\ owned' = (owned \ {mallocated}) \cup {a}
          /\ mapped' = [x \in Addr |-> IF x = a THEN BlockBytes(p)
                                       ELSE IF x = mallocated THEN 0 ELSE mapped[x]]
    BY <1>4 DEF Relocate
  <2>2. numPages' = p /\ length' = PageBytes(p) /\ dirty' \subseteq dirty
        /\ committed' = committed
    BY <1>4 DEF Relocate, SetSize
  <2>3. a \in Addr
    BY <2>1 DEF FreeAddr, BlockInv, BlockTypeOK
  <2> QED
    BY <2>1, <2>2, <2>3, <1>1, <1>2, <1>4
       DEF ResizeEffect, BlockInv, BlockTypeOK, MemoryBacked, CommitTracksReservation,
           BlockPlaced, OneBlock
<1> QED
  BY <1>3, <1>4

\* Every outcome of ResizeMemory keeps the block invariant.
LEMMA ResizeKeepsBlock ==
  ASSUME NEW p \in Nat, NEW ok \in BOOLEAN, BlockInv, maxPages' = maxPages,
         ResizeMemory(p, ok)
  PROVE  ResizeEffect(ok)
<1>1. CASE ~Admissible(p) /\ ~ok /\ UNCHANGED blockVars
  BY <1>1, ValueAssumption
     DEF blockVars, ResizeEffect, BlockInv, BlockTypeOK, MemoryBacked,
         CommitTracksReservation, BlockPlaced, OneBlock
<1>2. CASE \E r \in Reservations :
             /\ reservation' = r
             /\ \/ /\ r # Unreserved
                   /\ owned' = owned \cup {r.base}
                   /\ Commit(p, r, ok)
                \/ r = Unreserved /\ Relocate(p, ok)
  <2>1. PICK r \in Reservations :
             /\ reservation' = r
             /\ \/ /\ r # Unreserved
                   /\ owned' = owned \cup {r.base}
                   /\ Commit(p, r, ok)
                \/ r = Unreserved /\ Relocate(p, ok)
    BY <1>2
  <2>2. CASE r # Unreserved
    BY <2>1, <2>2, CommitKeepsBlock
  <2>3. CASE r = Unreserved
    <3>1. reservation = Unreserved
      BY <2>1, <2>3 DEF Reservations
    <3> QED
      BY <2>1, <2>3, <3>1, RelocateKeepsBlock
  <2> QED
    BY <2>2, <2>3
<1> QED
  BY <1>1, <1>2 DEF ResizeMemory

-----------------------------------------------------------------------------
(* The invariant holds.                                                    *)

\* The inputs of instantiation and of grow are page counts.
LEMMA InitInv == Init => Inv
<1> SUFFICES ASSUME Init PROVE Inv
  OBVIOUS
<1>1. maxPages \in Nat
  <2>1. PICK m \in DeclaredMaxima : maxPages = IF m = 0 THEN LinearMemoryLimit ELSE m
    BY DEF Init
  <2> QED
    BY <2>1, SizeAssumption, ValueAssumption
<1>2. TypeOK
  BY <1>1, ValueAssumption DEF Init, TypeOK, Buffer, None, Failed
<1>3. BlockInv
  BY <1>1, ValueAssumption
     DEF Init, BlockInv, BlockTypeOK, MemoryBacked, CommitTracksReservation,
         BlockPlaced, OneBlock, Unreserved
<1> QED
  BY <1>2, <1>3 DEF Inv, Init, ViewsBacked, BufferIsCurrent, Phases

\* Buffers stay inside a block whose accessible bytes only increase.
LEMMA ViewsStayBacked ==
  ASSUME TypeOK, TypeOK', ViewsBacked, ResizeEffect(TRUE) \/ ResizeEffect(FALSE),
         mallocated # Null, views' = views, status # "released", status' = status
  PROVE  ViewsBacked'
<1> SUFFICES ASSUME reservation' # Unreserved, NEW v \in views, v.size > 0
             PROVE  v.data = mallocated' /\ v.size + Header <= mapped'[v.data]
  BY DEF ViewsBacked
<1>1. reservation # Unreserved
  BY DEF ResizeEffect
<1>2. v.data = mallocated /\ v.size + Header <= mapped[v.data]
  BY <1>1 DEF ViewsBacked
<1>3. mallocated' = mallocated /\ mapped'[mallocated] >= mapped[mallocated]
  BY <1>1 DEF ResizeEffect
<1>4. v.size \in Nat /\ mallocated \in Addr /\ mapped[mallocated] \in Nat
      /\ mapped'[mallocated] \in Nat
  BY DEF TypeOK, Buffer
<1> QED
  BY <1>2, <1>3, <1>4, SizeAssumption

\* Every step keeps the invariant.
LEMMA StepInv == Inv /\ [Next]_vars => Inv'
<1> SUFFICES ASSUME Inv, [Next]_vars PROVE Inv'
  OBVIOUS
<1> USE DEF Inv
<1>1. CASE InitMemory
  <2>1. status = "declared" /\ UNCHANGED <<initPages, maxPages, wrapped, jsVars, grown, bufferRead>>
    BY <1>1 DEF InitMemory
  <2>2. ASSUME NEW ok \in BOOLEAN, ResizeMemory(initPages, ok),
               status' = IF ok THEN "loaded" ELSE "orphaned"
        PROVE  Inv'
    <3>1. ResizeEffect(ok)
      BY <2>1, <2>2, ResizeKeepsBlock DEF TypeOK
    <3>2. TypeOK'
      BY <2>1, <2>2, <3>1 DEF TypeOK, ResizeEffect, BlockInv, BlockTypeOK, jsVars
    <3> QED
      BY <2>1, <2>2, <3>1, <3>2
         DEF ResizeEffect, Phases, ViewsBacked, BufferIsCurrent, jsVars
  <2>3. CASE UNCHANGED blockVars /\ status' = "orphaned"
    BY <2>1, <2>3
       DEF blockVars, jsVars, TypeOK, BlockInv, BlockTypeOK, MemoryBacked,
           CommitTracksReservation, BlockPlaced, OneBlock, Phases, ViewsBacked, BufferIsCurrent
  <2> QED
    BY <1>1, <2>2, <2>3 DEF InitMemory
<1>2. CASE Instantiate
  <2>1. /\ status = "loaded" /\ status' = "starting"
        /\ UNCHANGED <<initPages, maxPages, wrapped, views, cache, grown, bufferRead>>
        /\ handles' \subseteq {"exports", "memory"}
    BY <1>2 DEF Instantiate
  <2>2. \/ UNCHANGED blockVars
        \/ \E pages \in Nat, ok \in BOOLEAN : ResizeMemory(pages, ok)
    BY <1>2, ValueAssumption DEF Instantiate
  <2>3. CASE UNCHANGED blockVars
    BY <2>1, <2>3
       DEF blockVars, TypeOK, BlockInv, BlockTypeOK, MemoryBacked,
           CommitTracksReservation, BlockPlaced, OneBlock, Phases, ViewsBacked, BufferIsCurrent
  <2>4. ASSUME NEW pages \in Nat, NEW ok \in BOOLEAN, ResizeMemory(pages, ok)
        PROVE  Inv'
    <3>1. ResizeEffect(ok)
      BY <2>1, <2>4, ResizeKeepsBlock
    <3>2. TypeOK'
      BY <2>1, <3>1 DEF TypeOK, ResizeEffect, BlockInv, BlockTypeOK
    <3> QED
      BY <2>1, <3>1, <3>2 DEF ResizeEffect, Phases, ViewsBacked, BufferIsCurrent
  <2> QED
    BY <2>2, <2>3, <2>4
<1>3. CASE Release
  <2>1. /\ status' = "released" /\ mallocated' = Null /\ reservation' = Unreserved
        /\ bufferRead' = None
        /\ LET block == IF reservation # Unreserved THEN reservation.base ELSE mallocated
           IN  /\ owned' = owned \ {block}
               /\ mapped' = [a \in Addr |-> IF a = block THEN 0 ELSE mapped[a]]
        /\ UNCHANGED <<initPages, maxPages, wrapped, committed, numPages, length, dirty, jsVars, grown>>
    BY <1>3 DEF Release
  <2>2. handles = {} /\ views = {} /\ cache = None
    BY <1>3 DEF Release, Phases
  <2>3. mapped' = [a \in Addr |-> 0] /\ owned' = {}
    BY <2>1 DEF BlockInv, OneBlock, BlockTypeOK
  <2>4. TypeOK' /\ BlockInv'
    BY <2>1, <2>3, ValueAssumption
       DEF TypeOK, BlockInv, BlockTypeOK, MemoryBacked, CommitTracksReservation,
           BlockPlaced, OneBlock, Unreserved, jsVars, None, Buffer
  <2> QED
    BY <2>1, <2>2, <2>3, <2>4 DEF Phases, ViewsBacked, BufferIsCurrent, jsVars
<1>4. ASSUME NEW delta \in Deltas, MemGrow(delta) PROVE Inv'
  <2>1. UNCHANGED <<status, initPages, maxPages, jsVars>> /\ wrapped' \in BOOLEAN /\ "exports" \in handles
    BY <1>4 DEF MemGrow
  <2>2. status \in {"starting", "live"} /\ mallocated # Null
    BY <2>1 DEF Phases, TypeOK
  <2>3. CASE grown' = numPages /\ UNCHANGED <<blockVars, bufferRead>>
    BY <2>1, <2>3
       DEF blockVars, jsVars, TypeOK, BlockInv, BlockTypeOK, MemoryBacked,
           CommitTracksReservation, BlockPlaced, OneBlock, Phases, ViewsBacked,
           BufferIsCurrent, CurrentBuffer
  <2>4. ASSUME NEW ok \in BOOLEAN, ResizeMemory((numPages + delta) % U32, ok),
               grown' = IF ok THEN numPages ELSE Failed, bufferRead' = None
        PROVE  Inv'
    <3>1. (numPages + delta) % U32 \in Nat
      BY RemainderNat, U32Positive, ValueAssumption DEF TypeOK
    <3>2. ResizeEffect(ok)
      BY <2>1, <2>4, <3>1, ResizeKeepsBlock
    <3>3. TypeOK'
      BY <2>1, <2>4, <3>2 DEF TypeOK, ResizeEffect, BlockInv, BlockTypeOK, jsVars, None, Failed
    <3>4. ViewsBacked'
      BY <2>1, <2>2, <3>2, <3>3, ViewsStayBacked DEF jsVars
    <3> QED
      BY <2>1, <2>2, <2>4, <3>2, <3>3, <3>4 DEF ResizeEffect, Phases, BufferIsCurrent, jsVars
  <2> QED
    BY <1>4, <2>3, <2>4 DEF MemGrow
<1>5. ASSUME NEW delta \in Deltas, Grow(delta) PROVE Inv'
  <2>1. /\ UNCHANGED <<status, initPages, maxPages, wrapped, jsVars>>
        /\ status = "live" /\ bufferRead' = None
    BY <1>5 DEF Grow
  <2>2. status = "live" /\ mallocated # Null
    BY <2>1 DEF Phases, TypeOK
  <2>3. CASE grown' = Failed /\ UNCHANGED blockVars
    BY <2>1, <2>3
       DEF blockVars, jsVars, TypeOK, BlockInv, BlockTypeOK, MemoryBacked,
           CommitTracksReservation, BlockPlaced, OneBlock, Phases, ViewsBacked,
           BufferIsCurrent, None
  <2>4. ASSUME NEW ok \in BOOLEAN, ResizeMemory(Pages(length) + delta, ok),
               grown' = IF ok THEN Pages(length) ELSE Failed
        PROVE  Inv'
    <3>1. Pages(length) \in Nat /\ Pages(length) + delta \in Nat
      BY PagesNat, ValueAssumption DEF TypeOK
    <3>2. ResizeEffect(ok)
      BY <2>1, <2>4, <3>1, ResizeKeepsBlock
    <3>3. TypeOK'
      BY <2>1, <2>4, <3>1, <3>2
         DEF TypeOK, ResizeEffect, BlockInv, BlockTypeOK, jsVars, None, Failed
    <3>4. ViewsBacked'
      BY <2>1, <2>2, <3>2, <3>3, ViewsStayBacked DEF jsVars
    <3> QED
      BY <2>1, <2>2, <2>4, <3>2, <3>3, <3>4 DEF ResizeEffect, Phases, BufferIsCurrent, jsVars
  <2> QED
    BY <1>5, <2>3, <2>4 DEF Grow
<1>6. ASSUME NEW page \in 0 .. LinearMemoryLimit - 1, Store(page) PROVE Inv'
  <2>1. page \in Nat
    BY SizeAssumption
  <2> QED
    BY <1>6, <2>1
       DEF Store, jsVars, TypeOK, BlockInv, BlockTypeOK, MemoryBacked,
           CommitTracksReservation, BlockPlaced, OneBlock, Phases, ViewsBacked,
           BufferIsCurrent, CurrentBuffer
<1>7. CASE GetBuffer
  <2>1. /\ UNCHANGED <<status, initPages, maxPages, wrapped, blockVars, handles, grown>>
        /\ status = "live" /\ "memory" \in handles
        /\ views' = views \cup {cache'}
        /\ bufferRead' = cache'
    BY <1>7 DEF GetBuffer
  <2>2. status = "live" /\ mallocated # Null
    BY <2>1 DEF Phases, TypeOK
  <2>3. cache' = CurrentBuffer
    BY <1>7 DEF GetBuffer, TypeOK, Buffer, None, CurrentBuffer
  <2>4. CurrentBuffer \in Buffer /\ CurrentBuffer' = CurrentBuffer
    BY <2>1 DEF CurrentBuffer, Buffer, TypeOK, blockVars
  <2>5. CurrentBuffer.size > 0 =>
          CurrentBuffer.data = mallocated /\ CurrentBuffer.size + Header <= mapped[mallocated]
    BY <2>2 DEF CurrentBuffer, BlockInv, MemoryBacked, TypeOK
  <2>6. ViewsBacked'
    BY <2>1, <2>3, <2>5 DEF ViewsBacked, blockVars
  <2>7. TypeOK' /\ BlockInv'
    BY <2>1, <2>3, <2>4
       DEF blockVars, TypeOK, BlockInv, BlockTypeOK, MemoryBacked, CommitTracksReservation,
           BlockPlaced, OneBlock
  <2> QED
    BY <2>1, <2>2, <2>3, <2>4, <2>6, <2>7 DEF Phases, BufferIsCurrent, blockVars
<1>8. ASSUME NEW h \in handles, DropHandle(h) PROVE Inv'
  BY <1>8
     DEF DropHandle, blockVars, TypeOK, BlockInv, BlockTypeOK, MemoryBacked,
         CommitTracksReservation, BlockPlaced, OneBlock, Phases, ViewsBacked,
         BufferIsCurrent, CurrentBuffer
<1>9. ASSUME NEW v \in views, DropView(v) PROVE Inv'
  BY <1>9
     DEF DropView, blockVars, TypeOK, BlockInv, BlockTypeOK, MemoryBacked,
         CommitTracksReservation, BlockPlaced, OneBlock, Phases, ViewsBacked,
         BufferIsCurrent, CurrentBuffer
<1>10. CASE Publish
  BY <1>10
     DEF Publish, blockVars, jsVars, TypeOK, BlockInv, BlockTypeOK, MemoryBacked,
         CommitTracksReservation, BlockPlaced, OneBlock, Phases, ViewsBacked,
         BufferIsCurrent
<1>11. CASE InstantiateFails
  BY <1>11
     DEF InstantiateFails, blockVars, TypeOK, BlockInv, BlockTypeOK, MemoryBacked,
         CommitTracksReservation, BlockPlaced, OneBlock, Phases, ViewsBacked,
         BufferIsCurrent
<1>12. CASE UNCHANGED vars
  BY <1>12
     DEF vars, blockVars, jsVars, TypeOK, BlockInv, BlockTypeOK, MemoryBacked,
         CommitTracksReservation, BlockPlaced, OneBlock, Phases, ViewsBacked,
         BufferIsCurrent, CurrentBuffer
<1> QED
  BY <1>1, <1>2, <1>3, <1>4, <1>5, <1>6, <1>7, <1>8, <1>9, <1>10, <1>11, <1>12 DEF Next

\* The invariant is one of the specification.
LEMMA Invariance == Spec => []Inv
<1> QED
  BY InitInv, StepInv, PTL DEF Spec

-----------------------------------------------------------------------------
(* Results.                                                                *)

\* The variables of linear memory keep their types.
THEOREM TypeCorrect == Spec => []TypeOK
<1>1. Inv => TypeOK
  BY DEF Inv
<1> QED
  BY <1>1, Invariance, PTL

\* The length that bounds every load and store of the interpreter never
\* exceeds the accessible bytes, in spite of the 32-bit wraps on the way to it.
THEOREM MemorySafe == Spec => []MemoryBacked
<1>1. Inv => MemoryBacked
  BY DEF Inv, BlockInv
<1> QED
  BY <1>1, Invariance, PTL

\* With a reservation, no ArrayBuffer that JS still holds ever dangles.
THEOREM ViewsSafe == Spec => []ViewsBacked
<1>1. Inv => ViewsBacked
  BY DEF Inv
<1> QED
  BY <1>1, Invariance, PTL

\* The committed byte count is the accessible one, inside the reservation.
THEOREM CommitSafe == Spec => []CommitTracksReservation
<1>1. Inv => CommitTracksReservation
  BY DEF Inv, BlockInv
<1> QED
  BY <1>1, Invariance, PTL

\* memory.buffer always describes the block as it is.
THEOREM BufferCorrect == Spec => []BufferIsCurrent
<1>1. Inv => BufferIsCurrent
  BY DEF Inv
<1> QED
  BY <1>1, Invariance, PTL

\* A destroyed instance leaves no accessible block behind.
THEOREM ReleaseComplete == Spec => []NothingLeaks
<1>1. Inv => NothingLeaks
  BY ValueAssumption DEF Inv, BlockInv, OneBlock, Phases, NothingLeaks
<1> QED
  BY <1>1, Invariance, PTL

\* A step that keeps the instance keeps the place of a reserved block.
LEMMA StepKeepsPlace ==
  ASSUME Inv, [Next]_vars, reservation # Unreserved, mallocated # Null, status' # "released"
  PROVE  mallocated' = mallocated
<1>1. ASSUME NEW p \in Nat, NEW ok \in BOOLEAN, ResizeMemory(p, ok), maxPages' = maxPages
      PROVE  mallocated' = mallocated
  BY <1>1, ResizeKeepsBlock DEF Inv, ResizeEffect
<1>2. \A delta \in Deltas : (numPages + delta) % U32 \in Nat /\ Pages(length) + delta \in Nat
  BY RemainderNat, U32Positive, PagesNat, ValueAssumption DEF Inv, TypeOK
<1>3. CASE InitMemory
  BY <1>1, <1>3 DEF InitMemory, Inv, TypeOK, blockVars
<1>4. CASE Instantiate
  BY <1>1, <1>4, ValueAssumption DEF Instantiate, blockVars
<1>5. CASE \E delta \in Deltas : MemGrow(delta)
  BY <1>1, <1>2, <1>5 DEF MemGrow, blockVars
<1>6. CASE \E delta \in Deltas : Grow(delta)
  BY <1>1, <1>2, <1>6 DEF Grow, blockVars
<1> QED
  BY <1>3, <1>4, <1>5, <1>6
     DEF Next, Release, Publish, InstantiateFails, Store, GetBuffer, DropHandle, DropView,
         blockVars, vars

\* A reserved block never relocates as long as the instance exists.
THEOREM NonMoving == Spec => BlockStays
<1>1. Inv /\ [Next]_vars =>
        [ reservation # Unreserved /\ mallocated # Null /\ status' # "released"
            => mallocated' = mallocated ]_vars
  BY StepKeepsPlace
<1> QED
  BY <1>1, Invariance, PTL DEF Spec, BlockStays

-----------------------------------------------------------------------------
(* LinearMemory implements WasmMemory, for every page size, limit, header  *)
(* and set of addresses, until a size has wrapped.                         *)

\* Length, accessible bytes and page count agree, and only pages of the memory
\* are written.
Exact ==
  /\ maxPages < LinearMemoryLimit /\ numPages <= maxPages
  /\ length = numPages * PageSize
  /\ mallocated # Null => mapped[mallocated] = numPages * PageSize + Header
  /\ mallocated = Null /\ reservation # Unreserved => committed = 0
  /\ \A q \in dirty : q < numPages
  /\ status = "declared" => numPages = 0

-----------------------------------------------------------------------------
(* Arithmetic.                                                             *)

\* Byte sizes grow with the pages.
LEMMA Monotone ==
  ASSUME NEW m \in Nat, NEW n \in Nat
  PROVE  m <= n <=> m * PageSize <= n * PageSize
<1>1. PageSize \in Nat /\ PageSize >= 1
  BY SizeAssumption
<1>2. CASE m <= n
  <2>1. PICK d \in Nat : n = m + d
    <3>1. n - m \in Nat /\ n = m + (n - m)
      BY <1>2
    <3> QED
      BY <3>1
  <2>2. n * PageSize = m * PageSize + d * PageSize /\ d * PageSize \in Nat /\ m * PageSize \in Nat
    BY <1>1, <2>1, ProductNat
  <2> QED
    BY <1>2, <2>2
<1>3. CASE n + 1 <= m
  <2>1. PICK d \in Nat : m = n + 1 + d
    <3>1. m - (n + 1) \in Nat /\ m = n + 1 + (m - (n + 1))
      BY <1>3
    <3> QED
      BY <3>1
  <2>2. m * PageSize = n * PageSize + PageSize + d * PageSize /\ d * PageSize \in Nat
        /\ n * PageSize \in Nat
    BY <1>1, <2>1, ProductNat
  <2> QED
    BY <1>1, <1>3, <2>2
<1> QED
  BY <1>2, <1>3

\* A memory below the limit has the byte size its page count says.
LEMMA BytesExact ==
  ASSUME NEW p \in Nat, p < LinearMemoryLimit
  PROVE  /\ PageBytes(p) = p * PageSize
         /\ BlockBytes(p) = p * PageSize + Header
         /\ p * PageSize \in Nat
<1>1. p * PageSize \in Nat /\ LinearMemoryLimit \in Nat /\ PageSize \in Nat \ {0}
  BY ProductNat, SizeAssumption
<1>2. ~(LinearMemoryLimit * PageSize <= p * PageSize)
  BY <1>1, Monotone
<1>3. U32 = LinearMemoryLimit * PageSize /\ U32 \in Nat \ {0}
  BY <1>1, U32Positive DEF U32
<1>4. p * PageSize < U32
  BY <1>1, <1>2, <1>3
<1>5. \A x \in Nat, y \in Nat \ {0} : x < y => x % y = x
  OBVIOUS
<1>6. PageBytes(p) = p * PageSize
  BY <1>1, <1>3, <1>4, <1>5 DEF PageBytes
<1> QED
  BY <1>1, <1>6 DEF BlockBytes

\* Byte sizes of whole pages count them.
LEMMA PagesExact ==
  ASSUME NEW p \in Nat
  PROVE  Pages(p * PageSize) = p
<1> DEFINE x == p * PageSize
           q == x \div PageSize
<1>1. x \in Nat /\ PageSize \in Nat \ {0}
  BY ProductNat, SizeAssumption
<1>2. \A a \in Nat, b \in Nat \ {0} :
        a \div b \in Nat /\ b * (a \div b) <= a /\ a < b * (a \div b) + b
  OBVIOUS
<1>3. q \in Nat /\ PageSize * q <= x /\ x < PageSize * q + PageSize
  BY <1>1, <1>2
<1> HIDE DEF q
<1>4. q * PageSize = PageSize * q /\ (q + 1) * PageSize = PageSize * q + PageSize
  BY <1>1, <1>3
<1>5. q * PageSize <= p * PageSize /\ ~((q + 1) * PageSize <= p * PageSize)
  BY <1>1, <1>3, <1>4
<1>6. q <= p /\ ~(q + 1 <= p)
  BY <1>3, <1>5, Monotone
<1>7. q = p
  BY <1>3, <1>6
<1> QED
  BY <1>7 DEF q, Pages

\* No more bytes, no more pages.
LEMMA PagesBelow ==
  ASSUME NEW b \in Nat, NEW n \in Nat, b <= n * PageSize
  PROVE  Pages(b) <= n /\ Pages(b) \in Nat
<1> DEFINE q == b \div PageSize
<1>1. PageSize \in Nat \ {0} /\ n * PageSize \in Nat
  BY ProductNat, SizeAssumption
<1>2. \A x \in Nat, y \in Nat \ {0} : x \div y \in Nat /\ y * (x \div y) <= x
  OBVIOUS
<1>3. q \in Nat /\ PageSize * q <= b
  BY <1>1, <1>2
<1> HIDE DEF q
<1>4. q * PageSize = PageSize * q /\ PageSize * q \in Nat
  BY <1>1, <1>3, ProductNat
<1>5. q * PageSize <= n * PageSize
  BY <1>1, <1>3, <1>4
<1>6. q <= n
  BY <1>3, <1>5, Monotone
<1> QED
  BY <1>3, <1>6 DEF q, Pages

-----------------------------------------------------------------------------
(* One call of ResizeMemory that does not shrink.                          *)

\* It enlarges the memory to p pages or leaves its size, and keeps the contents.
Enlarged(p, ok) ==
  /\ ok => numPages' = p /\ p <= maxPages /\ p <= LinearMemoryLimit
  /\ ~ok => numPages' = numPages
  /\ dirty' = dirty /\ numPages' <= maxPages /\ numPages' \in Nat
  /\ length' = numPages' * PageSize
  /\ mallocated' # Null => mapped'[mallocated'] = numPages' * PageSize + Header
  /\ mallocated' = Null /\ reservation' # Unreserved => committed' = 0

\* Inside a reservation only missing bytes are committed, so the accessible ones
\* are exactly those of the block.
LEMMA CommitExact ==
  ASSUME NEW p \in Nat, NEW ok \in BOOLEAN, BlockInv, Exact, numPages <= p, p < LinearMemoryLimit,
         p <= maxPages,
         NEW r \in Reservations, r # Unreserved, reservation' = r, Commit(p, r, ok)
  PROVE  Enlarged(p, ok)
<1>1. /\ r \in [base : Addr, bytes : Nat]
      /\ \/ r = reservation
         \/ reservation = Unreserved /\ mallocated = Null /\ mapped[r.base] = 0
  BY ReservationChoice
<1>2. /\ PageBytes(p) = p * PageSize /\ BlockBytes(p) = p * PageSize + Header
      /\ p * PageSize \in Nat /\ Header \in Nat \ {0} /\ LinearMemoryLimit \in Nat
  BY BytesExact, SizeAssumption
<1>3. numPages \in Nat /\ numPages * PageSize \in Nat /\ maxPages \in Nat
  BY ProductNat, SizeAssumption DEF BlockInv, BlockTypeOK
<1>4. /\ numPages <= maxPages /\ length = numPages * PageSize
      /\ mallocated # Null => mapped[mallocated] = numPages * PageSize + Header
      /\ mallocated = Null /\ reservation # Unreserved => committed = 0
  BY DEF Exact
<1>5. CommittedIn(r) = IF r = reservation THEN committed ELSE 0
  BY DEF CommittedIn
<1>6. CASE ~ok
  <2>1. committed' = CommittedIn(r) /\ UNCHANGED <<mallocated, numPages, length, mapped, dirty>>
    BY <1>6 DEF Commit
  <2>2. mallocated = Null => committed' = 0
    BY <1>4, <1>5, <2>1
  <2> QED
    BY <1>3, <1>4, <1>6, <2>1, <2>2 DEF Enlarged
<1>7. CASE ok
  <2>1. /\ mallocated' = r.base /\ numPages' = p /\ length' = p * PageSize /\ dirty' = dirty
        /\ \/ BlockBytes(p) <= CommittedIn(r) /\ mapped' = mapped
           \/ mapped' = [mapped EXCEPT ![r.base] = BlockBytes(p)]
    BY <1>2, <1>7 DEF Commit, SetSize
  <2>2. r.base \in Addr /\ r.base # Null /\ DOMAIN mapped = Addr
    BY <1>1, ValueAssumption DEF BlockInv, BlockTypeOK
  <2>3. ASSUME BlockBytes(p) <= CommittedIn(r), mapped' = mapped
        PROVE  mapped'[r.base] = p * PageSize + Header
    <3>1. CommittedIn(r) # 0
      BY <1>2, <2>3
    <3>2. r = reservation /\ CommittedIn(r) = committed /\ mallocated # Null
      BY <1>4, <1>5, <3>1
    <3>3. mallocated = r.base /\ mapped[r.base] = committed
      BY <3>2 DEF BlockInv, BlockPlaced, CommitTracksReservation
    <3>4. committed = numPages * PageSize + Header
      BY <1>4, <3>2, <3>3
    <3>5. p * PageSize <= numPages * PageSize
      BY <1>2, <1>3, <2>3, <3>2, <3>4
    <3>6. p <= numPages
      BY <1>3, <3>5, Monotone
    <3>7. p = numPages
      BY <1>3, <3>6
    <3> QED
      BY <2>3, <3>3, <3>4, <3>7, <1>2
  <2>4. mapped'[r.base] = p * PageSize + Header
    <3>1. CASE mapped' = [mapped EXCEPT ![r.base] = BlockBytes(p)]
      BY <1>2, <2>2, <3>1
    <3>2. CASE BlockBytes(p) <= CommittedIn(r) /\ mapped' = mapped
      BY <2>3, <3>2
    <3> QED
      BY <2>1, <3>1, <3>2
  <2> QED
    BY <1>2, <1>7, <2>1, <2>2, <2>4 DEF Enlarged
<1> QED
  BY <1>6, <1>7

\* The realloc path clears nothing that was written, as the computed old size is
\* the real one.
LEMMA RelocateExact ==
  ASSUME NEW p \in Nat, NEW ok \in BOOLEAN, BlockInv, Exact, numPages <= p, p < LinearMemoryLimit,
         p <= maxPages, reservation = Unreserved, reservation' = Unreserved, Relocate(p, ok)
  PROVE  Enlarged(p, ok)
<1>1. /\ PageBytes(p) = p * PageSize /\ BlockBytes(p) = p * PageSize + Header
      /\ LinearMemoryLimit \in Nat
  BY BytesExact, SizeAssumption
<1>2. numPages \in Nat /\ maxPages \in Nat /\ dirty \subseteq Nat
  BY DEF BlockInv, BlockTypeOK
<1>3. /\ numPages <= maxPages /\ length = numPages * PageSize
      /\ mallocated # Null => mapped[mallocated] = numPages * PageSize + Header
      /\ \A q \in dirty : q < numPages
  BY DEF Exact
<1>4. CASE ~ok
  <2>1. UNCHANGED <<committed, mallocated, numPages, length, owned, mapped, dirty>>
    BY <1>4 DEF Relocate
  <2> QED
    BY <1>2, <1>3, <1>4, <2>1 DEF Enlarged
<1>5. CASE ok
  <2>1. PICK a \in FreeAddr \cup ({mallocated} \ {Null}) :
          /\ mallocated' = a
          /\ mapped' = [x \in Addr |-> IF x = a THEN BlockBytes(p)
                                       ELSE IF x = mallocated THEN 0 ELSE mapped[x]]
    BY <1>5 DEF Relocate
  <2>2. /\ numPages' = p /\ length' = p * PageSize
        /\ dirty' = {q \in dirty : q < Pages(length) /\ q < Pages(PageBytes(p))}
    BY <1>1, <1>5 DEF Relocate, SetSize
  <2>3. Pages(length) = numPages /\ Pages(PageBytes(p)) = p
    BY <1>1, <1>2, <1>3, PagesExact
  <2>4. dirty' = dirty
    <3>1. \A q \in dirty : q \in Nat /\ q < numPages /\ q < p
      BY <1>2, <1>3
    <3>2. dirty' = {q \in dirty : q < numPages /\ q < p}
      BY <2>2, <2>3
    <3> QED
      BY <3>1, <3>2
  <2>5. a \in Addr
    BY <2>1 DEF FreeAddr, BlockInv, BlockTypeOK
  <2>6. mapped'[mallocated'] = p * PageSize + Header
    <3>1. mapped'[a] = BlockBytes(p)
      BY <2>1, <2>5
    <3> QED
      BY <1>1, <2>1, <3>1
  <2> QED
    BY <1>1, <1>5, <2>2, <2>4, <2>6 DEF Enlarged
<1> QED
  BY <1>4, <1>5

\* A call that asks for no fewer pages enlarges the memory or fails.
LEMMA ResizeExact ==
  ASSUME NEW p \in Nat, NEW ok \in BOOLEAN, BlockInv, Exact, numPages <= p, ResizeMemory(p, ok)
  PROVE  Enlarged(p, ok)
<1>1. numPages \in Nat /\ maxPages \in Nat /\ maxPages < LinearMemoryLimit /\ LinearMemoryLimit \in Nat
  BY SizeAssumption DEF BlockInv, BlockTypeOK, Exact
<1>2. CASE ~Admissible(p)
  <2>1. ~ok /\ UNCHANGED blockVars
    BY <1>2 DEF ResizeMemory
  <2> QED
    BY <1>1, <2>1 DEF Enlarged, Exact, blockVars
<1>3. CASE Admissible(p)
  <2>1. p <= maxPages /\ p < LinearMemoryLimit
    BY <1>1, <1>3 DEF Admissible
  <2>2. PICK r \in Reservations :
             /\ reservation' = r
             /\ \/ r # Unreserved /\ Commit(p, r, ok)
                \/ r = Unreserved /\ Relocate(p, ok)
    BY <1>3 DEF ResizeMemory
  <2>3. CASE r # Unreserved
    BY <2>1, <2>2, <2>3, CommitExact
  <2>4. CASE r = Unreserved
    <3>1. reservation = Unreserved
      BY <2>2, <2>4 DEF Reservations
    <3> QED
      BY <2>1, <2>2, <2>4, <3>1, RelocateExact
  <2> QED
    BY <2>3, <2>4
<1> QED
  BY <1>2, <1>3

-----------------------------------------------------------------------------
(* The steps.                                                              *)

\* What a call of ResizeMemory leaves exact when nothing else changes.
LEMMA EnlargedExact ==
  ASSUME Inv, Exact, NEW p \in Nat, NEW ok \in BOOLEAN, Enlarged(p, ok), numPages <= p,
         maxPages' = maxPages, status' # "declared"
  PROVE  Exact' /\ (~ok => numPages' = numPages) /\ dirty' = dirty
<1>1. numPages \in Nat /\ dirty \subseteq Nat
  BY DEF Inv, TypeOK
<1>2. numPages <= numPages' /\ numPages' \in Nat
  BY <1>1 DEF Enlarged
<1>3. \A q \in dirty' : q < numPages'
  BY <1>1, <1>2 DEF Enlarged, Exact
<1> QED
  BY <1>3 DEF Enlarged, Exact

\* Enlarging is what WasmMemory calls so.
LEMMA EnlargedRefines ==
  ASSUME Inv, NEW p \in Nat, Enlarged(p, TRUE), numPages <= p, maxPages' = maxPages
  PROVE  \E n \in 0 .. LinearMemoryLimit : Wasm!Enlarge(n)
<1>1. numPages \in Nat /\ maxPages \in Nat /\ LinearMemoryLimit \in Nat
  BY SizeAssumption DEF Inv, TypeOK
<1>2. numPages' = p /\ p <= maxPages /\ p <= LinearMemoryLimit
  BY DEF Enlarged
<1>3. p - numPages \in 0 .. LinearMemoryLimit /\ numPages + (p - numPages) = p
  BY <1>1, <1>2
<1>4. Wasm!Enlarge(p - numPages)
  BY <1>2, <1>3 DEF Wasm!Enlarge
<1> QED
  BY <1>3, <1>4

\* InitMemory and the presize of instantiate allocate or do nothing visible.
LEMMA HostSizes ==
  ASSUME Inv, Exact, NEW p \in Nat, NEW ok \in BOOLEAN, ResizeMemory(p, ok), numPages <= p,
         maxPages' = maxPages, grown' = grown, status' # "declared"
  PROVE  Exact' /\ [Wasm!Next]_(Wasm!memory)
<1>1. Enlarged(p, ok)
  BY ResizeExact DEF Inv
<1>2. Exact' /\ (~ok => numPages' = numPages) /\ dirty' = dirty
  BY <1>1, EnlargedExact
<1>3. CASE ok
  <2>1. \E n \in 0 .. LinearMemoryLimit : Wasm!Enlarge(n)
    BY <1>1, <1>3, EnlargedRefines
  <2>2. Wasm!Allocate
    BY <1>2, <2>1 DEF Wasm!Allocate
  <2> QED
    BY <1>2, <2>2 DEF Wasm!Next
<1>4. CASE ~ok
  BY <1>2, <1>4 DEF Wasm!memory
<1> QED
  BY <1>2, <1>3, <1>4

\* Both ways to grow answer the old page count, or -1 and change nothing.
LEMMA ProgramGrows ==
  ASSUME Inv, Exact, NEW p \in Nat, NEW ok \in BOOLEAN, ResizeMemory(p, ok), numPages <= p,
         maxPages' = maxPages, grown' = IF ok THEN numPages ELSE Failed, status' # "declared"
  PROVE  Exact' /\ [Wasm!Next]_(Wasm!memory)
<1>1. Enlarged(p, ok)
  BY ResizeExact DEF Inv
<1>2. Exact' /\ (~ok => numPages' = numPages) /\ dirty' = dirty
  BY <1>1, EnlargedExact
<1>3. CASE ok
  <2>1. \E n \in 0 .. LinearMemoryLimit : Wasm!Enlarge(n)
    BY <1>1, <1>3, EnlargedRefines
  <2>2. Wasm!Grow
    BY <1>2, <1>3, <2>1 DEF Wasm!Grow
  <2> QED
    BY <1>2, <2>2 DEF Wasm!Next
<1>4. CASE ~ok
  <2>1. Wasm!GrowFails
    BY <1>2, <1>4 DEF Wasm!GrowFails, Failed
  <2> QED
    BY <1>2, <2>1 DEF Wasm!Next
<1> QED
  BY <1>3, <1>4

\* The first states are first states of WasmMemory, and exact.
LEMMA InitExact ==
  ASSUME Init
  PROVE  (~wrapped => Exact) /\ Wasm!Init
<1>1. PICK m \in DeclaredMaxima : maxPages = IF m = 0 THEN LinearMemoryLimit ELSE m
  BY DEF Init
<1>2. maxPages \in Nat /\ LinearMemoryLimit \in Nat
  BY <1>1, ValueAssumption, SizeAssumption
<1>3. ~wrapped => maxPages < LinearMemoryLimit
  <2>1. wrapped = (maxPages >= LinearMemoryLimit)
    BY Zenon DEF Init
  <2>2. ~wrapped => ~(maxPages >= LinearMemoryLimit)
    BY <2>1, Zenon
  <2> QED
    BY <1>2, <2>2
<1>4. 0 * PageSize = 0
  BY SizeAssumption
<1> QED
  BY <1>2, <1>3, <1>4 DEF Init, Exact, Unreserved, Wasm!Init, Failed

\* Where nothing is resized, nothing else of it matters.
LEMMA KeepsExact ==
  ASSUME Exact, UNCHANGED <<maxPages, numPages, length>>,
         status' # "declared" \/ status' = status,
         \A q \in dirty' : q < numPages,
         \/ UNCHANGED <<mallocated, mapped, reservation, committed>>
         \/ mallocated' = Null /\ reservation' = Unreserved
  PROVE  Exact'
  BY DEF Exact

\* What has wrapped stays so.
LEMMA WrappedStays ==
  ASSUME [Next]_vars, wrapped
  PROVE  wrapped'
  BY DEF Next, InitMemory, Instantiate, Publish, InstantiateFails, Release, MemGrow, Grow, Store,
         GetBuffer, DropHandle, DropView, vars

\* A step that wraps nothing keeps sizes exact, and is one of WasmMemory or not seen by it.
LEMMA StepRefines ==
  ASSUME ~wrapped', Inv, Exact, [Next]_vars
  PROVE  Exact' /\ [Wasm!Next]_(Wasm!memory)
<1>1. /\ numPages \in Nat /\ maxPages \in Nat /\ LinearMemoryLimit \in Nat /\ initPages \in Nat
      /\ numPages <= maxPages /\ maxPages < LinearMemoryLimit
      /\ dirty \subseteq Nat
      /\ \A q \in dirty : q < numPages
      /\ U32 \in Nat \ {0}
  BY SizeAssumption, U32Positive DEF Inv, TypeOK, Exact
<1>2. Pages(length) = numPages
  BY <1>1, PagesExact DEF Exact
<1>3. ASSUME NEW delta \in Deltas
      PROVE  /\ delta \in Nat /\ numPages + delta \in Nat /\ numPages <= numPages + delta
             /\ MemGrow(delta) => (numPages + delta) % U32 = numPages + delta
  <2>1. delta \in Nat /\ numPages + delta \in Nat
    BY <1>1, ValueAssumption
  <2>2. MemGrow(delta) => ~(numPages + delta >= U32)
    BY DEF MemGrow
  <2>3. \A x \in Nat, y \in Nat \ {0} : x < y => x % y = x
    OBVIOUS
  <2> QED
    BY <1>1, <2>1, <2>2, <2>3
<1>4. CASE InitMemory
  <2>1. status = "declared" /\ maxPages' = maxPages /\ grown' = grown /\ status' # "declared"
    BY <1>4 DEF InitMemory
  <2>2. numPages = 0
    BY <2>1 DEF Exact
  <2>3. CASE \E ok \in BOOLEAN : ResizeMemory(initPages, ok)
    BY <1>1, <2>1, <2>2, <2>3, HostSizes
  <2>4. CASE UNCHANGED blockVars
    BY <1>1, <2>1, <2>4, KeepsExact DEF blockVars, Wasm!memory
  <2> QED
    BY <1>4, <2>3, <2>4 DEF InitMemory
<1>5. CASE Instantiate
  <2>1. maxPages' = maxPages /\ grown' = grown /\ status' # "declared"
    BY <1>5 DEF Instantiate
  <2>2. PICK pages \in PresizePages :
          IF length > 0 /\ pages > Pages(length)
            THEN \E ok \in BOOLEAN : ResizeMemory(pages, ok)
            ELSE UNCHANGED blockVars
    BY <1>5 DEF Instantiate
  <2>3. CASE length > 0 /\ pages > Pages(length)
    <3>1. pages \in Nat /\ numPages <= pages
      BY <1>1, <1>2, <2>3, ValueAssumption
    <3> QED
      BY <2>1, <2>2, <2>3, <3>1, HostSizes
  <2>4. CASE UNCHANGED blockVars
    BY <1>1, <2>1, <2>4, KeepsExact DEF blockVars, Wasm!memory
  <2> QED
    BY <2>2, <2>3, <2>4
<1>6. ASSUME NEW delta \in Deltas, MemGrow(delta)
      PROVE  Exact' /\ [Wasm!Next]_(Wasm!memory)
  <2>1. maxPages' = maxPages /\ status' = status /\ status # "declared"
    BY <1>6 DEF MemGrow, Inv, Phases
  <2>2. CASE delta = 0
    <3>1. UNCHANGED blockVars /\ grown' = numPages
      BY <1>6, <2>2 DEF MemGrow
    <3>2. Wasm!Enlarge(0) /\ 0 \in 0 .. LinearMemoryLimit
      BY <1>1, <3>1 DEF Wasm!Enlarge, blockVars
    <3>3. Wasm!Grow
      BY <2>1, <3>1, <3>2 DEF Wasm!Grow, blockVars
    <3> QED
      BY <1>1, <2>1, <3>1, <3>3, KeepsExact DEF blockVars, Wasm!Next
  <2>3. CASE delta # 0
    <3>1. \E ok \in BOOLEAN : /\ ResizeMemory(numPages + delta, ok)
                              /\ grown' = IF ok THEN numPages ELSE Failed
      BY <1>3, <1>6, <2>3 DEF MemGrow
    <3> QED
      BY <1>3, <2>1, <3>1, ProgramGrows
  <2> QED
    BY <2>2, <2>3
<1>7. ASSUME NEW delta \in Deltas, Grow(delta)
      PROVE  Exact' /\ [Wasm!Next]_(Wasm!memory)
  <2>1. maxPages' = maxPages /\ status' = status /\ status # "declared"
    BY <1>7 DEF Grow
  <2>2. CASE grown' = Failed /\ UNCHANGED blockVars
    <3>1. Wasm!GrowFails
      BY <2>1, <2>2 DEF Wasm!GrowFails, blockVars, Failed
    <3> QED
      BY <1>1, <2>1, <2>2, <3>1, KeepsExact DEF blockVars, Wasm!Next
  <2>3. CASE \E ok \in BOOLEAN : /\ ResizeMemory(numPages + delta, ok)
                                 /\ grown' = IF ok THEN numPages ELSE Failed
    BY <1>3, <2>1, <2>3, ProgramGrows
  <2> QED
    BY <1>2, <1>7, <2>2, <2>3 DEF Grow
<1>8. ASSUME NEW page \in 0 .. LinearMemoryLimit - 1, Store(page)
      PROVE  Exact' /\ [Wasm!Next]_(Wasm!memory)
  <2>1. /\ dirty' = dirty \cup {page} /\ page \in Nat
        /\ UNCHANGED <<status, maxPages, reservation, committed, mallocated, numPages, length,
                       mapped, grown>>
    BY <1>1, <1>8 DEF Store
  <2>2. page < numPages
    <3>1. ASSUME NEW v \in views, v.data = mallocated, page < Pages(v.size),
                 v.size + Header <= mapped[v.data]
          PROVE  page < numPages
      <4>1. v.size \in Nat /\ Header \in Nat /\ numPages * PageSize \in Nat
        BY <1>1, ProductNat, SizeAssumption DEF Inv, TypeOK, Buffer
      <4>2. status = "live" /\ mallocated # Null
        BY <3>1 DEF Inv, Phases
      <4>3. mapped[mallocated] = numPages * PageSize + Header
        BY <4>2 DEF Exact
      <4>4. v.size <= numPages * PageSize
        BY <3>1, <4>1, <4>3
      <4>5. Pages(v.size) <= numPages /\ Pages(v.size) \in Nat
        BY <1>1, <4>1, <4>4, PagesBelow
      <4>6. page \in Nat
        BY <2>1
      <4> QED
        BY <1>1, <3>1, <4>5, <4>6
    <3> QED
      BY <1>2, <1>8, <3>1 DEF Store
  <2>3. Wasm!Store
    BY <1>1, <2>1, <2>2 DEF Wasm!Store
  <2>4. \A q \in dirty' : q < numPages
    BY <1>1, <2>1, <2>2
  <2> QED
    BY <2>1, <2>3, <2>4, KeepsExact DEF Wasm!Next
<1>9. CASE \/ Publish \/ InstantiateFails \/ Release \/ GetBuffer \/ UNCHANGED vars
           \/ (\E h \in handles : DropHandle(h)) \/ (\E v \in views : DropView(v))
  <2>1. /\ UNCHANGED <<maxPages, numPages, length, dirty, grown>>
        /\ status' # "declared" \/ status' = status
        /\ \/ UNCHANGED <<mallocated, mapped, reservation, committed>>
           \/ mallocated' = Null /\ reservation' = Unreserved
    BY <1>9 DEF Publish, InstantiateFails, Release, GetBuffer, vars, DropHandle, DropView, blockVars
  <2> QED
    BY <1>1, <2>1, KeepsExact DEF Wasm!memory
<1> QED
  BY <1>4, <1>5, <1>6, <1>7, <1>8, <1>9 DEF Next

\* For every page size, limit, header and set of addresses LinearMemory implements
\* WasmMemory until a size wraps: pages are only added, up to the declared maximum,
\* zero when they are new and kept when the block moves, and grow answers the old
\* count or -1.
THEOREM Implementation == Spec => ImplementsWasmMemory
<1>1. Init => (~wrapped => Exact) /\ Wasm!Init
  BY InitExact
<1>2. Inv /\ (~wrapped => Exact) /\ [Next]_vars =>
        /\ ~wrapped' => Exact'
        /\ [wrapped' \/ Wasm!Next]_(Wasm!memory)
  BY StepRefines, WrappedStays
<1> QED
  BY <1>1, <1>2, Invariance, PTL DEF Spec, ImplementsWasmMemory
=============================================================================
