--------------------------- MODULE MCLinearMemory ---------------------------
(* Instances of LinearMemory for TLC.  LinearMemoryLimit = 3 stands for     *)
(* 65536, PageSize = 2 for 65536: U32 is 6, so the deltas 0 .. 6 include    *)
(* every 32-bit wrap and, for the JS method, a value above 2^32 - 1.        *)
EXTENDS LinearMemory

CONSTANTS a1, a2

MCAddr == {a1, a2}
AllMinima == 0 .. LinearMemoryLimit + 1
AllMaxima == 0 .. LinearMemoryLimit + 1
AllDeltas == 0 .. U32
Presize == {0, 2, LinearMemoryLimit}
=============================================================================
