--------------------------- MODULE MCKernelDriver ---------------------------
(* Two processes and pages of two bytes: the image takes up to two pages.   *)
(* The files are those of one board, the first one that has come.           *)
EXTENDS KernelDriver, DeviceSlots

CONSTANTS b1, a1

MCInit == Init /\ SlotsInit

\* The driver's array when the board has come, and no other one has.
OnlyFirstBoard ==
  /\ bound = {b1}
  /\ address = [b \in Boards |-> IF b = b1 THEN a1 ELSE NoAddress]
  /\ BAR_start = [s \in Slots |-> IF s = 0 THEN a1 ELSE NoAddress]
  /\ registered = subsys_id

MCNext ==
  \/ SlotsNext /\ opens = 0 /\ UNCHANGED vars
  \/ Next /\ OnlyFirstBoard /\ UNCHANGED slotsVars

MCSpec == MCInit /\ [][MCNext]_<<vars, slotsVars>>

TypesOK == TypeOK /\ SlotsTypeOK
=============================================================================
