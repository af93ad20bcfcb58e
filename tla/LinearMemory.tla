---------------------------- MODULE LinearMemory ----------------------------
(***************************************************************************)
(* The linear memory of one WebAssembly instance: the block that           *)
(* ResizeMemory reserves, commits or reallocates (cpp/m3_env.c), the two   *)
(* ways it grows (the memory.grow instruction and the JS method            *)
(* memory.grow), and the ArrayBuffers that memory.buffer hands to JS over  *)
(* it (WasmMemory and MemorySnapshotBuffer, react-native-webassembly.cpp). *)
(*                                                                         *)
(* Sizes keep the code's widths, scaled: the code multiplies a u32 page    *)
(* count by 65536 in 32 bits, and 65536 pages are exactly 2^32 bytes; here *)
(* LinearMemoryLimit pages are exactly U32 bytes.                          *)
(***************************************************************************)
EXTENDS Integers, FiniteSets

CONSTANTS
  Addr,               \* addresses a block or a reservation can have
  Null,               \* the NULL pointer
  PageSize,           \* d_m3MemPageSize (65536)
  LinearMemoryLimit,  \* d_m3MaxLinearMemoryPages (65536)
  Header,             \* sizeof (M3MemoryHeader)
  DeclaredMinima,     \* initial page counts a module can declare
  DeclaredMaxima,     \* maximum page counts a module can declare, 0 for none
  PresizePages,       \* memoryInitialPages options an application can pass
  Deltas              \* page counts grow is asked for

U32 == PageSize * LinearMemoryLimit

ASSUME SizeAssumption ==
  /\ PageSize \in Nat \ {0}
  /\ LinearMemoryLimit \in Nat \ {0}
  /\ Header \in Nat \ {0}

ASSUME ValueAssumption ==
  /\ Null \notin Addr
  /\ DeclaredMinima \subseteq Nat
  /\ DeclaredMaxima \subseteq Nat
  /\ PresizePages \subseteq Nat
  /\ Deltas \subseteq Nat

VARIABLES
  status,       \* how far instantiation got
  initPages,    \* memoryInfo.initPages of the module
  maxPages,     \* memory.maxPages of the runtime
  reservation,  \* memory.reservation and memory.reservationBytes
  committed,    \* memory.committedBytes
  mallocated,   \* memory.mallocated
  numPages,     \* memory.numPages
  length,       \* memory.mallocated->length
  owned,        \* the addresses of the mappings and heap blocks the process holds
  mapped,       \* the bytes the system lets the process access at an address
  dirty,        \* the pages of the block that hold something else than zeros
  handles,      \* JS objects, other than buffers, that keep the instance alive
  views,        \* the ArrayBuffers JS still holds
  cache,        \* WasmMemory::buffer_ with bufferData_ and bufferSize_
  grown,        \* what the last grow answered
  wrapped,      \* history: a page or byte count no longer fits in 32 bits
  bufferRead    \* what the last read of memory.buffer returned, until a resize

blockVars == <<reservation, committed, mallocated, numPages, length, owned, mapped, dirty>>
jsVars    == <<handles, views, cache>>
vars      == <<status, initPages, maxPages, blockVars, jsVars, grown, wrapped, bufferRead>>

None     == [data |-> Null, size |-> -1]   \* no buffer
Failed   == -1                             \* memory.grow's -1, grow()'s RangeError
Unreserved == [base |-> Null, bytes |-> 0]

-----------------------------------------------------------------------------
(* Sizes.  A page count is multiplied in 32 bits before it is widened.     *)

PageBytes(p) == (p * PageSize) % U32

BlockBytes(p) == PageBytes(p) + Header

Admissible(p) == p <= maxPages /\ p <= LinearMemoryLimit

\* The byte size of the block as the realloc path computes it.
PreviousBytes == IF PageBytes(numPages) = 0 THEN 0 ELSE BlockBytes(numPages)

Pages(bytes) == bytes \div PageSize

FreeAddr == Addr \ owned

\* Mutant: the size goes through a signed 32-bit integer.
CurrentBufferSigned ==
  [data |-> IF length = 0 THEN Null ELSE mallocated,
   size |-> IF 2 * length >= U32 THEN length - U32 ELSE length]

\* What m3_GetMemory returns: no data pointer for an empty memory.
CurrentBuffer ==
  [data |-> IF length = 0 THEN Null ELSE mallocated, size |-> length]

-----------------------------------------------------------------------------
(* ResizeMemory.  ok is whether it returns m3Err_none.                     *)

\* Only the very first call tries to reserve; mmap may fail.
Reservations ==
  IF reservation = Unreserved /\ mallocated = Null
    THEN {[base |-> a, bytes |-> maxPages * PageSize + Header] : a \in FreeAddr}
           \cup {Unreserved}
    ELSE {reservation}

\* Mutant: the length is computed in 64 bits, the block still in 32.
SetSizeWide(p) ==
  /\ numPages' = p
  /\ length' = p * PageSize

SetSize(p) ==
  /\ numPages' = p
  /\ length' = PageBytes(p)

\* A fresh reservation starts with nothing committed.
CommittedIn(r) == IF r = reservation THEN committed ELSE 0

\* Mutant: committedBytes is updated before mprotect is known to succeed.
CommitEager(p, r, ok) ==
  /\ BlockBytes(p) <= r.bytes
  /\ committed' = IF BlockBytes(p) > CommittedIn(r) THEN BlockBytes(p) ELSE CommittedIn(r)
  /\ \/ ~ok /\ UNCHANGED <<mallocated, numPages, length, mapped, dirty>>
     \/ /\ ok
        /\ mapped' = [mapped EXCEPT ![r.base] = committed']
        /\ mallocated' = r.base
        /\ SetSize(p)
        /\ UNCHANGED dirty

\* Growth inside the reservation: mprotect commits what is missing, or fails.
Commit(p, r, ok) ==
  \/ /\ ~ok
     /\ BlockBytes(p) > r.bytes \/ BlockBytes(p) > CommittedIn(r)
     /\ committed' = CommittedIn(r)
     /\ UNCHANGED <<mallocated, numPages, length, mapped, dirty>>
  \/ /\ ok
     /\ BlockBytes(p) <= r.bytes
     /\ \/ /\ BlockBytes(p) <= CommittedIn(r)
           /\ committed' = CommittedIn(r)
           /\ UNCHANGED mapped
        \/ /\ BlockBytes(p) > CommittedIn(r)
           /\ committed' = BlockBytes(p)
           /\ mapped' = [mapped EXCEPT ![r.base] = BlockBytes(p)]
     /\ mallocated' = r.base
     /\ SetSize(p)
     /\ UNCHANGED dirty

\* m3_Realloc: keeps the block when its computed size does not change, and
\* otherwise moves it or not; bytes past the computed old size are cleared.
Relocate(p, ok) ==
  \/ /\ ~ok
     /\ BlockBytes(p) # PreviousBytes
     /\ UNCHANGED <<committed, mallocated, numPages, length, owned, mapped, dirty>>
  \/ /\ ok
     /\ \E a \in FreeAddr \cup ({mallocated} \ {Null}) :
          /\ BlockBytes(p) = PreviousBytes => a = mallocated
          /\ mallocated' = a
          /\ owned' = (owned \ {mallocated}) \cup {a}
          /\ mapped' = [x \in Addr |-> IF x = a THEN BlockBytes(p)
                                       ELSE IF x = mallocated THEN 0 ELSE mapped[x]]
     /\ dirty' = {q \in dirty : q < Pages(length) /\ q < Pages(PageBytes(p))}
     /\ SetSize(p)
     /\ UNCHANGED committed

\* Mutant: a commit that fails falls through to the realloc path.
ResizeMemoryFallsThrough(p, ok) ==
  /\ Admissible(p)
  /\ \E r \in Reservations :
       /\ reservation' = r
       /\ \/ r # Unreserved /\ Commit(p, r, ok) /\ owned' = owned \cup {r.base}
          \/ Relocate(p, ok)

ResizeMemory(p, ok) ==
  \/ /\ ~Admissible(p)
     /\ ~ok
     /\ UNCHANGED blockVars
  \/ /\ Admissible(p)
     /\ \E r \in Reservations :
          /\ reservation' = r
          /\ \/ /\ r # Unreserved
                /\ owned' = owned \cup {r.base}
                /\ Commit(p, r, ok)
             \/ r = Unreserved /\ Relocate(p, ok)

-----------------------------------------------------------------------------
(* Instantiation.                                                          *)

Init ==
  /\ status = "declared"
  /\ initPages \in DeclaredMinima
  /\ maxPages \in {IF m = 0 THEN LinearMemoryLimit ELSE m : m \in DeclaredMaxima}
  /\ reservation = Unreserved
  /\ committed = 0
  /\ mallocated = Null
  /\ numPages = 0
  /\ length = 0
  /\ owned = {}
  /\ mapped = [a \in Addr |-> 0]
  /\ dirty = {}
  /\ handles = {}
  /\ views = {}
  /\ cache = None
  /\ grown = Failed
  /\ wrapped = (maxPages >= LinearMemoryLimit)   \* as many bytes as there are u32
  /\ bufferRead = None

\* InitMemory, from m3_LoadModule; a failure makes instantiate throw, which
\* drops the only reference to the instance.  For an imported memory nothing
\* is allocated, which InitDataSegments refuses.
InitMemory ==
  /\ status = "declared"
  /\ \/ \E ok \in BOOLEAN :
          /\ ResizeMemory(initPages, ok)
          /\ status' = IF ok THEN "loaded" ELSE "orphaned"
     \/ /\ UNCHANGED blockVars
        /\ status' = "orphaned"
  /\ UNCHANGED <<initPages, maxPages, wrapped, jsVars, grown, bufferRead>>

\* instantiate up to the start function: the memory object will exist only if
\* m3_GetMemory finds bytes now; growing to memoryInitialPages is tried once,
\* its failure ignored.
Instantiate ==
  /\ status = "loaded"
  /\ \E pages \in PresizePages :
       IF length > 0 /\ pages > Pages(length)
         THEN \E ok \in BOOLEAN : ResizeMemory(pages, ok)
         ELSE UNCHANGED blockVars
  /\ status' = "starting"
  /\ handles' = IF length > 0 THEN {"exports", "memory"} ELSE {"exports"}
  /\ UNCHANGED <<initPages, maxPages, wrapped, views, cache, grown, bufferRead>>

\* The start function returned; JS gets the exports and the memory.
Publish ==
  /\ status = "starting"
  /\ status' = "live"
  /\ UNCHANGED <<initPages, maxPages, wrapped, blockVars, jsVars, grown, bufferRead>>

\* A later step of instantiate fails: a data segment does not fit, an import
\* cannot be linked, a body cannot be compiled, the start function traps.
InstantiateFails ==
  /\ status \in {"loaded", "starting"}
  /\ status' = "orphaned"
  /\ handles' = {}
  /\ UNCHANGED <<initPages, maxPages, wrapped, blockVars, views, cache, grown, bufferRead>>

\* Mutant: buffers do not keep the instance alive.
ReleaseUnderViews ==
  /\ status = "live" /\ handles = {}
  /\ status' = "released"
  /\ owned' = {}
  /\ mapped' = [a \in Addr |-> 0]
  /\ mallocated' = Null
  /\ reservation' = Unreserved
  /\ bufferRead' = None
  /\ UNCHANGED <<initPages, maxPages, wrapped, committed, numPages, length, dirty, jsVars, grown>>

\* Mutant: what is given back is the block, not the reservation.
ReleaseBlockOnly ==
  /\ \/ status = "orphaned"
     \/ status = "live" /\ handles = {} /\ views = {}
  /\ status' = "released"
  /\ owned' = owned \ {mallocated}
  /\ mapped' = [a \in Addr |-> IF a = mallocated THEN 0 ELSE mapped[a]]
  /\ mallocated' = Null
  /\ reservation' = Unreserved
  /\ bufferRead' = None
  /\ UNCHANGED <<initPages, maxPages, wrapped, committed, numPages, length, dirty, jsVars, grown>>

\* ~InstanceState, once nothing in JS refers to the instance: Runtime_Release
\* unmaps the reservation, or frees the block.
Release ==
  /\ \/ status = "orphaned"
     \/ status = "live" /\ handles = {} /\ views = {}
  /\ status' = "released"
  /\ LET block == IF reservation # Unreserved THEN reservation.base ELSE mallocated
     IN  /\ owned' = owned \ {block}
         /\ mapped' = [a \in Addr |-> IF a = block THEN 0 ELSE mapped[a]]
  /\ mallocated' = Null
  /\ reservation' = Unreserved
  /\ bufferRead' = None
  /\ UNCHANGED <<initPages, maxPages, wrapped, committed, numPages, length, dirty, jsVars, grown>>

-----------------------------------------------------------------------------
(* Running code: the exports, or the start function before there are any.  *)

\* Mutant: the answer is read after the resize.
MemGrowAnswersNew(delta) ==
  /\ "exports" \in handles
  /\ delta < U32
  /\ \E ok \in BOOLEAN :
       /\ ResizeMemory((numPages + delta) % U32, ok)
       /\ grown' = IF ok THEN numPages' ELSE Failed
  /\ bufferRead' = None
  /\ wrapped' = (wrapped \/ numPages + delta >= U32)
  /\ UNCHANGED <<status, initPages, maxPages, jsVars>>

\* op_MemGrow: the page count is added in 32 bits; growing by zero pages does
\* not touch the block.
MemGrow(delta) ==
  /\ "exports" \in handles
  /\ delta < U32
  /\ \/ /\ delta = 0
        /\ grown' = numPages
        /\ UNCHANGED <<blockVars, bufferRead>>
     \/ /\ delta # 0
        /\ \E ok \in BOOLEAN :
             /\ ResizeMemory((numPages + delta) % U32, ok)
             /\ grown' = IF ok THEN numPages ELSE Failed
        /\ bufferRead' = None
  /\ wrapped' = (wrapped \/ numPages + delta >= U32)
  /\ UNCHANGED <<status, initPages, maxPages, jsVars>>

\* WasmMemory's grow(): counts the pages there are from the byte length, and
\* refuses a sum that does not fit in 32 bits.
Grow(delta) ==
  /\ status = "live"
  /\ "memory" \in handles
  /\ LET previousPages == Pages(length)
     IN  \/ /\ previousPages + delta > U32 - 1
            /\ grown' = Failed
            /\ UNCHANGED blockVars
         \/ /\ previousPages + delta <= U32 - 1
            /\ \E ok \in BOOLEAN :
                 /\ ResizeMemory(previousPages + delta, ok)
                 /\ grown' = IF ok THEN previousPages ELSE Failed
  /\ bufferRead' = None
  /\ UNCHANGED <<status, initPages, maxPages, wrapped, jsVars>>

\* A store by a data segment, by the module, or by JS through a buffer that
\* still covers the page.
Store(page) ==
  /\ \/ (status = "loaded" \/ "exports" \in handles) /\ page < Pages(length)
     \/ \E v \in views : /\ v.data = mallocated
                         /\ page < Pages(v.size)
                         /\ v.size + Header <= mapped[v.data]
  /\ dirty' = dirty \cup {page}
  /\ UNCHANGED <<status, initPages, maxPages, wrapped, reservation, committed, mallocated,
                 numPages, length, owned, mapped, jsVars, grown, bufferRead>>

\* Mutant: only the pointer decides whether the cached buffer is still good.
GetBufferPointerOnly ==
  /\ status = "live"
  /\ "memory" \in handles
  /\ cache' = IF cache = None \/ CurrentBuffer.data # cache.data
                THEN CurrentBuffer ELSE cache
  /\ views' = views \cup {cache'}
  /\ bufferRead' = cache'
  /\ UNCHANGED <<status, initPages, maxPages, wrapped, blockVars, handles, grown>>

\* WasmMemory::getBuffer: a fresh ArrayBuffer when the pointer or the size
\* differ from those of the cached one.
GetBuffer ==
  /\ status = "live"
  /\ "memory" \in handles
  /\ cache' = IF \/ cache = None
                 \/ CurrentBuffer.data # cache.data
                 \/ CurrentBuffer.size # cache.size
                THEN CurrentBuffer ELSE cache
  /\ views' = views \cup {cache'}
  /\ bufferRead' = cache'
  /\ UNCHANGED <<status, initPages, maxPages, wrapped, blockVars, handles, grown>>

\* JS lets go of the exports or of the memory object (and so of its cache).
DropHandle(h) ==
  /\ status = "live"
  /\ h \in handles
  /\ handles' = handles \ {h}
  /\ cache' = IF h = "memory" THEN None ELSE cache
  /\ UNCHANGED <<status, initPages, maxPages, wrapped, blockVars, views, grown, bufferRead>>

\* JS lets go of an ArrayBuffer; the cached one stays reachable from the memory.
DropView(v) ==
  /\ status = "live"
  /\ v \in views /\ v # cache
  /\ views' = views \ {v}
  /\ UNCHANGED <<status, initPages, maxPages, wrapped, blockVars, handles, cache, grown, bufferRead>>

-----------------------------------------------------------------------------
Next ==
  \/ InitMemory
  \/ Instantiate
  \/ Publish
  \/ InstantiateFails
  \/ Release
  \/ \E delta \in Deltas : MemGrow(delta)
  \/ \E delta \in Deltas : Grow(delta)
  \/ \E page \in 0 .. LinearMemoryLimit - 1 : Store(page)
  \/ GetBuffer
  \/ \E h \in handles : DropHandle(h)
  \/ \E v \in views : DropView(v)

Spec == Init /\ [][Next]_vars

-----------------------------------------------------------------------------
(* Correctness.                                                            *)

Buffer == [data : Addr \cup {Null}, size : Nat]

TypeOK ==
  /\ status \in {"declared", "loaded", "starting", "live", "orphaned", "released"}
  /\ initPages \in Nat
  /\ maxPages \in Nat
  /\ reservation \in [base : Addr, bytes : Nat] \cup {Unreserved}
  /\ committed \in Nat
  /\ mallocated \in Addr \cup {Null}
  /\ numPages \in Nat
  /\ length \in Nat
  /\ owned \subseteq Addr
  /\ mapped \in [Addr -> Nat]
  /\ dirty \subseteq Nat
  /\ handles \subseteq {"exports", "memory"}
  /\ views \subseteq Buffer
  /\ cache \in Buffer \cup {None}
  /\ grown \in Nat \cup {Failed}
  /\ wrapped \in BOOLEAN
  /\ bufferRead \in Buffer \cup {None}

\* Every byte below memory->length, the limit each load and store of the
\* interpreter is checked against, is memory the process may access, whatever
\* sequence of commits, moves and 32-bit wraps produced that length.
MemoryBacked ==
  mallocated # Null => length + Header <= mapped[mallocated]

\* What the non-moving memory patch is for: while the memory is reserved, an
\* ArrayBuffer handed out at any time, however old, lies in accessible memory
\* as long as JS holds it (PATCHES.md, "Non-moving linear memory"); and no
\* buffer, reserved or not, outlives the instance.
ViewsBacked ==
  reservation # Unreserved \/ status = "released" =>
    \A v \in views : v.size > 0 => v.data = mallocated /\ v.size + Header <= mapped[v.data]

\* committedBytes is what is really accessible, and never leaves the
\* reservation.
CommitTracksReservation ==
  reservation # Unreserved =>
    mapped[reservation.base] = committed /\ committed <= reservation.bytes

\* A reserved block never relocates while the instance exists.
BlockStays ==
  [][ reservation # Unreserved /\ mallocated # Null /\ status' # "released"
        => mallocated' = mallocated ]_vars

\* A read of memory.buffer describes the block as it is, also after a grow that
\* kept the address (reservation) or kept the size (realloc).
BufferIsCurrent ==
  bufferRead # None => bufferRead = CurrentBuffer

\* Destroying the instance returns everything the process obtained for it, also
\* a reservation whose first commit failed and which no block was ever built on.
NothingLeaks ==
  status = "released" => owned = {}

\* m3_env.c, comment of the commit: "memory only grows".
MemoryOnlyGrows ==
  [][ status = "live" /\ status' = "live" => numPages' >= numPages ]_vars

-----------------------------------------------------------------------------
(* Refinement.                                                             *)

Wasm == INSTANCE WasmMemory WITH
  MaxSize <- LinearMemoryLimit,
  size    <- numPages,
  limit   <- maxPages,
  nonzero <- dirty,
  answer  <- grown

\* As long as the declared maximum is below 65536 pages and memory.grow asks for no
\* sum that wraps, the memory is a WebAssembly memory: pages are only added, never
\* above the declared maximum, new pages are zero, old ones keep their contents (also
\* when the block moves), and grow answers the old count or changes nothing.
ImplementsWasmMemory ==
  Wasm!Init /\ [][wrapped' \/ Wasm!Next]_(Wasm!memory)

=============================================================================
