----------------------------- MODULE WasmMemory -----------------------------
(***************************************************************************)
(* What a WebAssembly memory promises the module and the page: pages are   *)
(* added at the end, zero-filled, up to the declared limit, nothing is     *)
(* lost, and grow answers the previous size or -1.  LinearMemory           *)
(* implements it.                                                          *)
(***************************************************************************)
EXTENDS Integers

CONSTANT MaxSize          \* no memory is larger, in pages

VARIABLES size,           \* pages
          limit,          \* the declared maximum
          nonzero,        \* pages that hold something else than zeros
          answer          \* what the last grow answered

memory == <<size, limit, nonzero, answer>>

Init ==
  /\ size = 0
  /\ limit \in Nat
  /\ nonzero = {}
  /\ answer = -1

Enlarge(n) ==
  /\ size + n <= limit
  /\ size + n <= MaxSize
  /\ size' = size + n

\* The host sizes the memory while it builds the instance.
Allocate ==
  /\ \E n \in 0 .. MaxSize : Enlarge(n)
  /\ UNCHANGED <<limit, nonzero, answer>>

Grow ==
  /\ \E n \in 0 .. MaxSize : Enlarge(n)
  /\ answer' = size
  /\ UNCHANGED <<limit, nonzero>>

GrowFails ==
  /\ answer' = -1
  /\ UNCHANGED <<size, limit, nonzero>>

Store ==
  /\ \E page \in 0 .. size - 1 : nonzero' = nonzero \cup {page}
  /\ UNCHANGED <<size, limit, answer>>

Next == Allocate \/ Grow \/ GrowFails \/ Store

Spec == Init /\ [][Next]_memory
=============================================================================
