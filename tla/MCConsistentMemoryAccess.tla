---------------------- MODULE MCConsistentMemoryAccess ----------------------
(***************************************************************************)
(* Two updates of a 32-bit register and two writes to its halves: an update *)
(* overlaps everything, the writes can run side by side, and an update that *)
(* finishes may release both.  Operations of the same type share a map.    *)
(* The callback of the low half may be called once more.  With three       *)
(* operations, it is those of either request of the update, and its write  *)
(* may be executed late.                                                   *)
(***************************************************************************)
EXTENDS ConsistentMemoryAccess

CONSTANTS wide, wide2, high, low, again, readAgain, writeAgain

MCOps == {wide, wide2, high, low}
MCThreeOps == {wide, high, low}
MCKind == [op \in Ops |-> IF op \in {wide, wide2} THEN "update" ELSE "write"]
MCAddress == [op \in Ops |-> IF op = low THEN 2 ELSE 0]
MCWidth == [op \in Ops |-> IF op \in {wide, wide2} THEN 4 ELSE 2]
MCRepeats == {again}
MCUpdateRepeats == {readAgain, writeAgain}
MCRepeated == [call \in Repeats |-> IF call = again THEN low ELSE wide]
MCRequest == [call \in Repeats |-> IF call = readAgain THEN "read" ELSE "write"]
=============================================================================
