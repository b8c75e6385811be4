----------------------------- MODULE FlashBytes -----------------------------
(***************************************************************************)
(* What a byte of a flash memory holds: a value that was programmed, or    *)
(* one of those below.  Erasing sets all bits, programming clears bits.    *)
(***************************************************************************)
EXTENDS Integers

Erased == -1   \* 0xff
Garbled == -4  \* two different values have been programmed

ProgramByte(old, new) ==
  IF new = Erased \/ new = old THEN old ELSE IF old = Erased THEN new ELSE Garbled
=============================================================================
