---------------------------- MODULE MCRegisters ----------------------------
(* An instance of Registers for TLC.                                       *)
EXTENDS Registers

MCSlotValues ==
  [i32 |-> 0 .. 15,
   i64 |-> {0, 1, 2, 3, 7, 8, 14, 15, 16, 31, 64, 100, 127, 128, 129, 170, 240, 254, 255}]

\* Floats around the least and the greatest integer of each type, in halves.
Magnitudes == {0, 1, 2, 3, 5, 14, 15, 16, 17, 18, 19, 20, 28, 30, 31, 32, 33, 40,
               224, 248, 252, 254, 256, 258, 264, 320, 448, 508, 510, 512, 520, 640}

MCFloatValues ==
  {NaN} \cup {Float(neg, mag) : neg \in BOOLEAN,
               mag \in {m \in Magnitudes : Represents(DoubleBits, m)} \cup {Infinite}}

MCOffsets == {0, 1, 7, 15}

MCStartMemory == [a \in 0 .. 8 |-> IF a \in {0, 2, 3, 6, 8} THEN 1 ELSE 0]
=============================================================================
