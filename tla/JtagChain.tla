------------------------------ MODULE JtagChain ------------------------------
(***************************************************************************)
(* jtag.c: on a V2P board the driver reaches the platform flash memory     *)
(* (XCF) and the FPGA by driving the pins of their JTAG chain.  The FPGA   *)
(* is nearest to TDO, so that what is shifted first ends there.            *)
(*                                                                         *)
(* The chain is one record.  The devices are external: their TAP           *)
(* controllers are those of the standard, an instruction or data takes     *)
(* effect when the controller leaves the shift states in the update state, *)
(* and the memory executes a program or an erase instruction while the     *)
(* chain is clocked in Run-Test/Idle.  What is shifted is a sequence of    *)
(* pieces with a length and a value; it reaches a device only if the       *)
(* lengths fit, and the bits and bytes of a value are shifted in the order *)
(* in which the sequence has them.                                         *)
(***************************************************************************)
EXTENDS FlashBytes, Sequences, FiniteSets

CONSTANTS
  FpgaIrLen,  \* XC2VP4_IRLEN
  XcfIrLen,   \* XCFXXP_IRLEN
  BlockSize   \* 32, the bytes that are programmed at a time

ASSUME JtagAssumption == {FpgaIrLen, XcfIrLen, BlockSize} \subseteq Nat \ {0}

\* The identities of the two devices, as they are shifted out.
FpgaId == -10
XcfId == -11

\* The memory has a register for the value it was enabled with, -1 if it is
\* disabled, for the address and for the data; pending is set until it has
\* executed its instruction.
IdleChain ==
  [tap |-> "TLR", tms |-> FALSE, driven |-> FALSE,
   fpga |-> "IDCODE", xcf |-> "IDCODE", pieces |-> <<>>,
   enabled |-> -1, address |-> 0, data |-> <<>>, unlocked |-> FALSE, pending |-> FALSE,
   out |-> <<>>, fpgairlen |-> 0, memory |-> <<>>]

-----------------------------------------------------------------------------
(* The devices.                                                            *)

OnZero ==
  [TLR |-> "RTI", RTI |-> "RTI",
   SelectDR |-> "CaptureDR", CaptureDR |-> "ShiftDR", ShiftDR |-> "ShiftDR", Exit1DR |-> "PauseDR",
   PauseDR |-> "PauseDR", Exit2DR |-> "ShiftDR", UpdateDR |-> "RTI",
   SelectIR |-> "CaptureIR", CaptureIR |-> "ShiftIR", ShiftIR |-> "ShiftIR", Exit1IR |-> "PauseIR",
   PauseIR |-> "PauseIR", Exit2IR |-> "ShiftIR", UpdateIR |-> "RTI"]

OnOne ==
  [TLR |-> "TLR", RTI |-> "SelectDR",
   SelectDR |-> "SelectIR", CaptureDR |-> "Exit1DR", ShiftDR |-> "Exit1DR", Exit1DR |-> "UpdateDR",
   PauseDR |-> "Exit2DR", Exit2DR |-> "UpdateDR", UpdateDR |-> "SelectDR",
   SelectIR |-> "TLR", CaptureIR |-> "Exit1IR", ShiftIR |-> "Exit1IR", Exit1IR |-> "UpdateIR",
   PauseIR |-> "Exit2IR", Exit2IR |-> "UpdateIR", UpdateIR |-> "SelectDR"]

Fits(pieces, first, second) == Len(pieces) = 2 /\ pieces[1].length = first /\ pieces[2].length = second

UpdateIr(c) ==
  IF Fits(c.pieces, FpgaIrLen, XcfIrLen)
    THEN [c EXCEPT !.fpga = c.pieces[1].value, !.xcf = c.pieces[2].value, !.pending = TRUE]
    ELSE [c EXCEPT !.fpga = "UNKNOWN", !.xcf = "UNKNOWN"]

\* One bit is shifted through the FPGA, which is bypassed.
UpdateDr(c) ==
  LET value == c.pieces[2].value
      configuration == {"XSC_DATA_BTC", "XSC_DATA_SUCR", "XSC_DATA_CCB", "XSC_DATA_DONE"}
  IN  IF c.fpga # "BYPASS" \/ Len(c.pieces) # 2 \/ c.pieces[1].length # 1 THEN c
      ELSE CASE c.xcf = "ISC_ENABLE" -> [c EXCEPT !.enabled = value]
             [] c.xcf = "XSC_UNLOCK" -> [c EXCEPT !.unlocked = TRUE]
             [] c.xcf = "ISC_ADDRESS_SHIFT" -> [c EXCEPT !.address = value]
             [] c.xcf = "ISC_DATA_SHIFT" -> [c EXCEPT !.data = value]
             [] c.xcf \in configuration -> [c EXCEPT !.data = <<>>]
             [] OTHER -> c

\* A clock in Run-Test/Idle.  Programming goes on with the next block; what is
\* programmed after another register than the data has been shifted is not
\* about the memory.
RunTest(c) ==
  LET done == [c EXCEPT !.pending = FALSE]
  IN  IF ~c.pending \/ c.enabled = -1 THEN c
      ELSE CASE c.xcf = "ISC_ERASE" /\ c.unlocked ->
                  [done EXCEPT !.memory = [a \in DOMAIN c.memory |-> Erased], !.unlocked = FALSE]
             [] c.xcf = "ISC_PROGRAM" /\ c.data # <<>> ->
                  [done EXCEPT
                     !.memory = [a \in DOMAIN c.memory |->
                                   IF a \in c.address .. c.address + Len(c.data) - 1
                                     THEN ProgramByte(c.memory[a], c.data[a - c.address + 1])
                                     ELSE c.memory[a]],
                     !.address = c.address + BlockSize,
                     !.data = <<>>]
             [] c.xcf = "ISC_DISABLE" -> [done EXCEPT !.enabled = -1]
             [] OTHER -> c

\* What is shifted out next: the identities, or the memory from the address on.
Capture(c) ==
  CASE c.fpga = "IDCODE" /\ c.xcf = "IDCODE" -> <<FpgaId, XcfId>>
    [] c.fpga = "BYPASS" /\ c.xcf = "XSC_READ" /\ c.enabled # -1 ->
         [i \in 1 .. Cardinality(DOMAIN c.memory) - c.address |-> c.memory[c.address + i - 1]]
    [] OTHER -> <<>>

Clock(c) ==
  LET next == [c EXCEPT !.tap = IF c.tms THEN OnOne[c.tap] ELSE OnZero[c.tap]]
  IN  CASE next.tap = "TLR" -> [next EXCEPT !.fpga = "IDCODE", !.xcf = "IDCODE", !.pending = FALSE]
        [] next.tap = "CaptureIR" -> [next EXCEPT !.pieces = <<>>]
        [] next.tap = "CaptureDR" -> [next EXCEPT !.pieces = <<>>, !.out = Capture(c)]
        [] next.tap = "UpdateIR" -> UpdateIr(next)
        [] next.tap = "UpdateDR" -> UpdateDr(next)
        [] OTHER -> next

-----------------------------------------------------------------------------
(* The pins.                                                               *)

\* After so many clocks with the same TMS the state of the controller changes
\* no more.
Steady == 5

Clocked(c, n) ==
  LET after[k \in 0 .. Steady] == IF k = 0 THEN c ELSE Clock(after[k - 1])
      clocked == after[IF n < Steady THEN n ELSE Steady]
  IN  IF ~c.driven THEN c
      ELSE IF c.tap = "RTI" /\ ~c.tms /\ n > 1 THEN RunTest(clocked) ELSE clocked

Shifted(c, length, value) ==
  IF c.tap \in {"ShiftIR", "ShiftDR"}
    THEN [c EXCEPT !.pieces = Append(@, [length |-> length, value |-> value])]
    ELSE c

\* What is done with the pins: TMS is set, TCK pulsed n times, or a value put on
\* TDI, bit by bit during the pulses that follow.
Tms(level) == [pin |-> "TMS", level |-> level]
Pulse(n) == [pin |-> "TCK", n |-> n]
Shift(length, value) == [pin |-> "TDI", length |-> length, value |-> value]

Set(c, step) ==
  CASE step.pin = "TMS" -> [c EXCEPT !.tms = step.level]
    [] step.pin = "TCK" -> Clocked(c, step.n)
    [] step.pin = "TDI" -> Shifted(c, step.length, step.value)

Tlr == <<Tms(TRUE), Pulse(5)>>

TlrToSir == <<Tms(FALSE), Pulse(1), Tms(TRUE), Pulse(2), Tms(FALSE), Pulse(2)>>

TlrToSdr == <<Tms(FALSE), Pulse(1), Tms(TRUE), Pulse(1), Tms(FALSE), Pulse(2)>>

Ex1ToSdr == <<Pulse(2), Tms(FALSE), Pulse(2)>>

Ex1ToRti == <<Pulse(1), Tms(FALSE), Pulse(1)>>

\* TMS is set with the last bit, which is shifted nevertheless.
Sdi(length, value, last) ==
  <<Shift(length, value)>>
    \o IF last THEN <<Pulse(length - 1), Tms(TRUE), Pulse(1)>> ELSE <<Pulse(length)>>

\* Devices that are passed over get ones as their instruction, BYPASS.
Sir(hir, irlen, instruction, tir, tlr) ==
  TlrToSir
    \o (IF hir > 0 THEN Sdi(hir, "BYPASS", FALSE) ELSE <<>>)
    \o Sdi(irlen, instruction, tir = 0)
    \o (IF tir > 0 THEN Sdi(tir, "BYPASS", TRUE) ELSE <<>>)
    \o (IF tlr THEN Ex1ToRti ELSE <<>>)

Sdr(hdr, drlen, value, tdr, tlr) ==
  TlrToSdr
    \o (IF hdr > 0 THEN Sdi(hdr, 0, FALSE) ELSE <<>>)
    \o Sdi(drlen, value, tdr = 0)
    \o (IF tdr > 0 THEN Sdi(tdr, 0, TRUE) ELSE <<>>)
    \o (IF tlr THEN Ex1ToRti ELSE <<>>)

-----------------------------------------------------------------------------
(* The operations on the platform flash memory, by the set of chains that  *)
(* they may lead to.                                                       *)

\* jtag_9030_open and jtag_9030_release, with the references before.
JtagOpen(c, references) ==
  IF references = 0 THEN [c EXCEPT !.driven = TRUE, !.tms = FALSE] ELSE c

JtagRelease(c, references) ==
  IF references <= 1 THEN [c EXCEPT !.driven = FALSE, !.tms = FALSE] ELSE c

\* Operations are sequences of commands.
Instruction(value) == [kind |-> "SIR", value |-> value]
Data(length, value) == [kind |-> "SDR", hdr |-> 1, length |-> length, value |-> value]
AllData(length) == [kind |-> "SDR", hdr |-> 0, length |-> length, value |-> 0]
Clocks(n) == [kind |-> "TCK", n |-> n]
Command(kind) == [kind |-> kind]

Steps(fpgairlen, command) ==
  CASE command.kind = "SIR" -> Sir(fpgairlen, XcfIrLen, command.value, 0, TRUE)
    [] command.kind = "SDR" -> Sdr(command.hdr, command.length, command.value, 0, TRUE)
    [] command.kind = "TCK" -> <<Pulse(command.n)>>
    [] command.kind = "TLR" -> Tlr
    [] command.kind = "ISC_ERASE" ->
         Sir(fpgairlen, XcfIrLen, "ISC_ERASE", 0, FALSE)
           \o Ex1ToSdr \o Sdi(1, 0, FALSE) \o Sdi(24, 63, TRUE) \o Ex1ToRti

Do(c, command) ==
  LET steps == Steps(c.fpgairlen, command)
      after[i \in 0 .. Len(steps)] == IF i = 0 THEN c ELSE Set(after[i - 1], steps[i])
  IN  after[Len(steps)]

\* The chains that the commands lead to from these.
After(chains, commands) ==
  LET after[i \in 0 .. Len(commands)] ==
        IF i = 0 THEN chains ELSE {Do(c, commands[i]) : c \in after[i - 1]}
  IN  after[Len(commands)]

\* The identities are read as 96 bits; the FPGA may be one that is not known.
Validate(chains) ==
  {[c EXCEPT !.fpgairlen = IF known /\ c.out = <<FpgaId, XcfId>> THEN FpgaIrLen ELSE 0] :
     c \in After(chains, <<Command("TLR"), AllData(96)>>), known \in BOOLEAN}

Valid(c) == c.fpgairlen # 0

AfterIfValid(chains, commands) ==
  {c \in chains : ~Valid(c)} \cup After({c \in chains : Valid(c)}, commands)

ReadStart(c) ==
  AfterIfValid(Validate(After({c}, <<Command("TLR")>>)), <<Instruction("ISC_ENABLE"), Data(8, 0)>>)

\* One block of 1024 bytes, which is then in out.
XcfRead(c, address, size) ==
  After({c}, <<Instruction("ISC_ADDRESS_SHIFT"), Data(24, address), Clocks(15),
               Instruction("XSC_READ"), Clocks(15), Data(8 * size, 0)>>)

ReadEnd(c) ==
  After({c}, <<Instruction("XSC_OP_STATUS"), Data(8, 0),
               Instruction("ISC_DISABLE"), Clocks(15), Command("TLR")>>)

ProgStart(c) ==
  AfterIfValid(Validate({c}),
    <<Instruction("ISC_ENABLE"), Data(8, 3), Instruction("IDCODE"), Data(32, 0), Command("TLR"),
      Instruction("ISC_ENABLE"), Data(8, 208), Instruction("XSC_UNLOCK"), Data(24, 63),
      Command("ISC_ERASE"), Clocks(140000000), Instruction("IDCODE"), Data(32, 0),
      Instruction("ISC_ENABLE"), Data(8, 3), Instruction("XSC_DATA_BTC"), Data(32, 0),
      Instruction("ISC_PROGRAM"), Clocks(120), Instruction("BYPASS")>>)

\* Faulty variant, for testing FlashHoldsImage: every block is sent with the
\* address of the page.
AddressedEachTime(address, block) == <<Instruction("ISC_ADDRESS_SHIFT"), Data(24, address)>>

\* Only the first block is sent with an address.
Addressed(address, block) ==
  IF block = 0 THEN <<Instruction("ISC_ADDRESS_SHIFT"), Data(24, address)>> ELSE <<>>

XcfWrite(c, data, address) ==
  LET Block(block) == SubSeq(data, block * BlockSize + 1, (block + 1) * BlockSize)
      after[n \in 0 .. Len(data) \div BlockSize] ==
        IF n = 0 THEN {c}
        ELSE After(after[n - 1],
               <<Instruction("ISC_DATA_SHIFT"), Data(8 * BlockSize, Block(n - 1))>>
                 \o Addressed(address, n - 1) \o <<Instruction("ISC_PROGRAM"), Clocks(1000)>>)
  IN  after[Len(data) \div BlockSize]

ProgEnd(chains) ==
  LET Register(register, length) ==
        <<Instruction(register), Data(length, 0), Instruction("ISC_PROGRAM"), Clocks(60)>>
  IN  After(chains,
        <<Instruction("XSC_OP_STATUS"), Data(8, 0)>>
          \o Register("XSC_DATA_SUCR", 16) \o Register("XSC_DATA_CCB", 16) \o Register("XSC_DATA_DONE", 8)
          \o <<Instruction("ISC_DISABLE"), Clocks(50), Command("TLR")>>)

\* The memory has the FPGA load its contents.
Conf(chains) == AfterIfValid(Validate(chains), <<Instruction("XSC_CONFIG"), Command("TLR")>>)
=============================================================================
