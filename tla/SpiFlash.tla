------------------------------ MODULE SpiFlash ------------------------------
(***************************************************************************)
(* flash.c: the driver erases, programs and reads an M25P flash memory     *)
(* through an SPI controller that takes one byte at a time, and may fail   *)
(* to take or to deliver any of them.  Each command is preceded by a write *)
(* enable command.  spi_slave_select ignores that the last byte has not    *)
(* been sent in time and deselects the chip all the same: any command may  *)
(* be cut short, although the function that sends it returns success.      *)
(*                                                                         *)
(* The chip is external: it executes what it has received when it is       *)
(* deselected, and takes an erase or a program command only after a write  *)
(* enable command.  Bytes that are still sent when the chip has been       *)
(* selected anew are not modelled, and an operation that the driver does   *)
(* not wait for any longer is finished before the next one.                *)
(*                                                                         *)
(* An operation is given by the set of its outcomes: the memory, whether   *)
(* the function returns an error, and whether the chip has received the    *)
(* whole command after a write enable command.                             *)
(***************************************************************************)
EXTENDS FlashBytes, Sequences

CONSTANTS
  PageSize,      \* FLASH_DATA_ALLOC_SIZE
  SectorSize,    \* FLASH_SECTOR_SIZE
  FlashSize,
  PrimaryStart,  \* FLASH_SECTOR_PRIMARY_START
  PrimaryEnd,    \* FLASH_SECTOR_PRIMARY_END
  AddressBase    \* 256: an address is sent as three digits

ASSUME FlashAssumption ==
  /\ {PageSize, SectorSize, FlashSize, AddressBase} \subseteq Nat \ {0}
  /\ {PrimaryStart, PrimaryEnd} \subseteq Nat
  /\ SectorSize % PageSize = 0
  /\ {FlashSize, PrimaryStart, PrimaryEnd} \subseteq {n * SectorSize : n \in 0 .. FlashSize}
  /\ PrimaryStart <= PrimaryEnd /\ PrimaryEnd + SectorSize <= FlashSize
  /\ FlashSize <= AddressBase * AddressBase * AddressBase

SmallerOf(m, n) == IF m < n THEN m ELSE n

-----------------------------------------------------------------------------
(* The chip.                                                               *)

AddressIn(received) ==
  ((received[2] * AddressBase + received[3]) * AddressBase + received[4]) % FlashSize

SectorErased(memory, address) ==
  [a \in DOMAIN memory |-> IF a \div SectorSize = address \div SectorSize THEN Erased ELSE memory[a]]

\* The bytes from the fifth one on are programmed, within the page.
PageProgrammed(memory, received) ==
  LET address == AddressIn(received)
      page == address - (address % PageSize)
      Programmed(a) == \E i \in 5 .. Len(received) : a = page + ((address + i - 5) % PageSize)
      Byte(a) == received[5 + ((a - address) % PageSize)]
  IN  [a \in DOMAIN memory |-> IF Programmed(a) THEN ProgramByte(memory[a], Byte(a)) ELSE memory[a]]

\* The memory when the chip is deselected after it has received these bytes.
Execute(memory, enabled, received) ==
  LET is(command, enough) == enabled /\ Len(received) >= 1 /\ Head(received) = command /\ enough
  IN  CASE is("BE", TRUE) -> [a \in DOMAIN memory |-> Erased]
        [] is("SE", Len(received) = 4) -> SectorErased(memory, AddressIn(received))
        [] is("PP", Len(received) > 4) -> PageProgrammed(memory, received)
        [] OTHER -> memory

-----------------------------------------------------------------------------
(* The driver.                                                             *)

AddressBytes(address) ==
  <<(address \div (AddressBase * AddressBase)) % AddressBase,
    (address \div AddressBase) % AddressBase,
    address % AddressBase>>

\* The chip has received the first n bytes of the command.  It is enabled if it
\* has received the write enable command, or an earlier one is still in effect.
\* An error says that a byte could not be written or that the chip was not ready
\* in time; success does not say that the command was complete.
Outcomes(memory, command) ==
  {[memory |-> Execute(memory, enabled, SubSeq(command, 1, n)), failed |-> failed,
    complete |-> enabled /\ n = Len(command)] :
      enabled \in BOOLEAN, failed \in BOOLEAN, n \in 0 .. Len(command)}

BulkErase(memory) == Outcomes(memory, <<"BE">>)

SectorErase(memory, sector) == Outcomes(memory, <<"SE">> \o AddressBytes(sector))

\* Faulty variant, for testing OnlyErasedProgrammed: the sector PrimaryEnd is left out.
LastBeforeEnd == (PrimaryEnd - PrimaryStart) \div SectorSize - 1

\* The number of the last sector that is erased, which is the one at PrimaryEnd.
LastSector == (PrimaryEnd - PrimaryStart) \div SectorSize

\* The sectors are erased one after the other, until one fails.
PrimaryErase(memory) ==
  LET outcomes[k \in 0 .. LastSector] ==
        LET before == IF k = 0 THEN {[memory |-> memory, failed |-> FALSE, complete |-> TRUE]}
                               ELSE outcomes[k - 1]
        IN  {o \in before : o.failed}
              \cup UNION {{[memory |-> e.memory, failed |-> e.failed, complete |-> o.complete /\ e.complete] :
                             e \in SectorErase(o.memory, PrimaryStart + k * SectorSize)} :
                          o \in {b \in before : ~b.failed}}
  IN  outcomes[LastSector]

PageProgram(memory, data, address) ==
  IF Len(data) # PageSize \/ address % PageSize # 0
    THEN {[memory |-> memory, failed |-> TRUE, complete |-> FALSE]}
    ELSE Outcomes(memory, <<"PP">> \o AddressBytes(address) \o data)

\* The bytes that have been read before the first failure are in the buffer.
FastRead(memory, buffer, address) ==
  LET from == AddressIn(<<"FAST_READ">> \o AddressBytes(address))
      Read(n) == [i \in DOMAIN buffer |-> IF i <= n THEN memory[(from + i - 1) % FlashSize] ELSE buffer[i]]
  IN  {Read(n) : n \in 0 .. Len(buffer)}
=============================================================================
