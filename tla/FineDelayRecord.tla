--------------------------- MODULE FineDelayRecord ---------------------------
(***************************************************************************)
(* MrfLongoutFineDelayShiftRegisterRecord: the delays of the two outputs   *)
(* of a module are shifted bit by bit into a shift register, through four  *)
(* pins that are bits of a GPIO register.  A transfer is a sequence of 51  *)
(* writes; each callback asks EPICS for a delayed callback that makes the  *)
(* next write, and the last one has the record processed again.            *)
(*                                                                         *)
(* The shift register and the delay chips are external: a rising clock     *)
(* shifts the data pin in, a rising latch clock loads the delay of each    *)
(* output whose latch-enable bit is not set.  The memory access is         *)
(* external, too: a write may fail before or after it has been executed,   *)
(* and a value read back may differ from the one written.                  *)
(***************************************************************************)
EXTENDS RecordProcessing

CONSTANT BitsOf   \* the bits that are set in a value

ASSUME BitsAssumption == BitsOf \in [Values -> SUBSET (0 .. 31)]

VARIABLES
  nextTransferStepIndex,
  writeOutputValue,
  writeSuccessful,
  write,              \* the write that has not been answered: <<>> or <<step, executed>>
  transferCallbacks,  \* requests of callbackRequestDelayed
  direction,          \* the pins are outputs
  pins,               \* the pins that are set in the output register
  shiftRegister,      \* its bits, the one shifted in first first
  delays              \* the delay of each output, a set of bits

transferVars == <<nextTransferStepIndex, writeOutputValue, writeSuccessful, write, transferCallbacks>>
chipVars == <<direction, pins, shiftRegister, delays>>
fineDelayVars == <<transferVars, chipVars>>

Pins == {"DIN", "SCLK", "LCLK", "DIS"}

LastStep == 50
None == <<>>

FineDelayTypeOK ==
  /\ nextTransferStepIndex \in 0 .. LastStep + 2
  /\ writeOutputValue \in Values
  /\ writeSuccessful \in BOOLEAN
  /\ write = None \/ write \in (0 .. LastStep) \X BOOLEAN
  /\ transferCallbacks \in Nat
  /\ direction \in BOOLEAN
  /\ pins \subseteq Pins
  /\ shiftRegister \in Seq(BOOLEAN) /\ Len(shiftRegister) = 24
  /\ delays \in [1 .. 2 -> SUBSET (0 .. 9)]

\* The device has been started before the record: its registers are zero, and
\* the shift register and the delays hold anything; one value stands for it.
FineDelayInit ==
  /\ kind = "fineDelay" => alarm
  /\ nextTransferStepIndex = 0
  /\ writeOutputValue = val[1]
  /\ writeSuccessful = FALSE
  /\ write = None
  /\ transferCallbacks = 0
  /\ direction = FALSE
  /\ pins = {}
  /\ shiftRegister = [i \in 1 .. 24 |-> FALSE]
  /\ delays = [o \in 1 .. 2 |-> {}]

-----------------------------------------------------------------------------
(* startNextTransferStep.                                                  *)

Unused == 32

\* The bit of the value that is shifted in at each position.
TransferOrder ==
  <<7, 6, 5, 4, 3, 2, 1, 0, 19, 18, 17, 16, 10, Unused, 9, 8,
    26, Unused, 25, 24, 23, 22, 21, 20>>

\* Faulty variant, for testing WholeDelaysLatched: the last bit is not clocked.
PinsOfShort(step) ==
  LET bits == BitsOf[writeOutputValue]
      bit == TransferOrder[(step - 1) \div 2 + 1]
  IN  (IF 31 \in bits THEN {"DIS"} ELSE {})
        \cup (IF step \in 1 .. 48 /\ bit \in bits THEN {"DIN"} ELSE {})
        \cup (IF step \in 1 .. 47 /\ step % 2 = 0 THEN {"SCLK"} ELSE {})
        \cup (IF step = 49 THEN {"LCLK"} ELSE {})

\* The pins that are set by a step.  Two steps transfer a bit; the second one
\* raises the clock.
PinsOf(step) ==
  LET bits == BitsOf[writeOutputValue]
      bit == TransferOrder[(step - 1) \div 2 + 1]
  IN  (IF 31 \in bits THEN {"DIS"} ELSE {})
        \cup (IF step \in 1 .. 48 /\ bit \in bits THEN {"DIN"} ELSE {})
        \cup (IF step \in 1 .. 48 /\ step % 2 = 0 THEN {"SCLK"} ELSE {})
        \cup (IF step = 49 THEN {"LCLK"} ELSE {})

\* Faulty variant, for testing OutputsFollowRecord: the last step is left out.
StartNextTransferStepShort ==
  /\ nextTransferStepIndex' = nextTransferStepIndex + 1
  /\ IF nextTransferStepIndex < LastStep
       THEN /\ write' = <<nextTransferStepIndex, FALSE>>
            /\ UNCHANGED <<writeSuccessful, processCallbacks>>
       ELSE /\ writeSuccessful' = TRUE
            /\ processCallbacks' = processCallbacks + 1
            /\ UNCHANGED write

StartNextTransferStep ==
  /\ nextTransferStepIndex' = nextTransferStepIndex + 1
  /\ IF nextTransferStepIndex <= LastStep
       THEN /\ write' = <<nextTransferStepIndex, FALSE>>
            /\ UNCHANGED <<writeSuccessful, processCallbacks>>
       ELSE /\ writeSuccessful' = TRUE
            /\ processCallbacks' = processCallbacks + 1
            /\ UNCHANGED write

\* startNextTransferStepStatic.
TransferCallback ==
  /\ transferCallbacks > 0
  /\ transferCallbacks' = transferCallbacks - 1
  /\ StartNextTransferStep
  /\ UNCHANGED <<configVars, val, pact, rpro, alarm, scanOnce, made, writeOutputValue, chipVars>>

-----------------------------------------------------------------------------
(* processRecord.                                                          *)

\* The write of step 0 is made at once.
StartTransfer(value, callbacks, scans) ==
  /\ writeOutputValue' = value[1]
  /\ nextTransferStepIndex' = 1
  /\ write' = <<0, FALSE>>
  /\ Active(value, callbacks, scans)
  /\ UNCHANGED <<writeSuccessful, transferCallbacks>>

PutDelay ==
  /\ made < MaxRequests
  /\ made' = made + 1
  /\ \E v \in Values :
       LET value == [val EXCEPT ![1] = v]
       IN  IF pact THEN PutWhileActive(value) /\ UNCHANGED transferVars
           ELSE StartTransfer(value, 0, 0)
  /\ UNCHANGED <<configVars, chipVars>>

ScanOnceDelay ==
  /\ scanOnce > 0
  /\ IF pact
       THEN /\ scanOnce' = scanOnce - 1
            /\ UNCHANGED <<val, pact, rpro, alarm, processCallbacks, transferVars>>
       ELSE StartTransfer(val, 0, -1)
  /\ UNCHANGED <<configVars, made, chipVars>>

ProcessCallbackDelay ==
  /\ processCallbacks > 0
  /\ IF pact THEN Finished(val, ~writeSuccessful, -1, 0) /\ UNCHANGED transferVars
             ELSE StartTransfer(val, -1, 0)
  /\ UNCHANGED <<configVars, made, chipVars>>

-----------------------------------------------------------------------------
(* The chips.                                                              *)

Level(pin, output, high) == output /\ pin \in high

Shifted(output, high) ==
  IF Level("SCLK", output, high) /\ ~Level("SCLK", direction, pins)
    THEN Append(Tail(shiftRegister), Level("DIN", output, high))
    ELSE shiftRegister

\* The positions of the bits in the shift register, the most significant bit
\* of each delay first, and of the latch-enable bits.
DelayPositions == <<<<15, 16, 1, 2, 3, 4, 5, 6, 7, 8>>, <<19, 20, 21, 22, 23, 24, 9, 10, 11, 12>>>>
LatchEnablePositions == <<13, 17>>

DelayIn(register, o) == {b \in 0 .. 9 : register[DelayPositions[o][10 - b]]}

Latched(register, output, high) ==
  IF Level("LCLK", output, high) /\ ~Level("LCLK", direction, pins)
    THEN [o \in 1 .. 2 |-> IF register[LatchEnablePositions[o]] THEN delays[o] ELSE DelayIn(register, o)]
    ELSE delays

SetPins(output, high) ==
  /\ direction' = output
  /\ pins' = high
  /\ shiftRegister' = Shifted(output, high)
  /\ delays' = Latched(shiftRegister', output, high)

ExecuteWrite ==
  /\ write # None /\ ~write[2]
  /\ write' = <<write[1], TRUE>>
  /\ IF write[1] = 0 THEN SetPins(TRUE, pins) ELSE SetPins(direction, PinsOf(write[1]))
  /\ UNCHANGED <<epicsVars, nextTransferStepIndex, writeOutputValue, writeSuccessful, transferCallbacks>>

-----------------------------------------------------------------------------
(* The callback of a write.                                                *)

WriteSuccess ==
  /\ write # None /\ write[2]
  /\ write' = None
  /\ transferCallbacks' = transferCallbacks + 1
  /\ UNCHANGED <<epicsVars, nextTransferStepIndex, writeOutputValue, writeSuccessful, chipVars>>

\* The write has failed, or what was read back is not what was written.
WriteFailure ==
  /\ write # None
  /\ write' = None
  /\ writeSuccessful' = FALSE
  /\ processCallbacks' = processCallbacks + 1
  /\ UNCHANGED <<configVars, val, pact, rpro, alarm, scanOnce, made,
                 nextTransferStepIndex, writeOutputValue, transferCallbacks, chipVars>>

-----------------------------------------------------------------------------
WriteStep == ExecuteWrite \/ WriteSuccess \/ WriteFailure

FineDelayNext ==
  \/ PutDelay
  \/ ScanOnceDelay
  \/ ProcessCallbackDelay
  \/ TransferCallback
  \/ WriteStep

\* One record of this kind by itself, with any value that it had before.
FineDelaySpec ==
  /\ ProcessInit /\ kind = "fineDelay" /\ val \in [1 .. N -> Values] /\ alarm \in BOOLEAN /\ FineDelayInit
  /\ [][FineDelayNext]_<<epicsVars, fineDelayVars>>

-----------------------------------------------------------------------------
(* Properties.                                                             *)

\* The delay of an output in a value, and whether the output is to keep the
\* delay it has, as the class documentation has it: the bits of the second
\* output are 16 places higher.
DelayOf(value, o) == {b \in 0 .. 9 : b + 16 * (o - 1) \in BitsOf[value]}
KeepsDelay(value, o) == 10 + 16 * (o - 1) \in BitsOf[value]

\* The outputs never get anything but a whole delay, that of the value whose
\* transfer is under way: no bits of two transfers mixed and none of a transfer
\* that stopped in the middle, although a transfer that fails leaves its bits
\* in the shift register and its levels on the pins.
WholeDelaysLatched ==
  [][\A o \in 1 .. 2 : delays'[o] # delays[o] =>
       delays'[o] = DelayOf(writeOutputValue, o) /\ ~KeepsDelay(writeOutputValue, o)]_delays

\* When everything has been processed and there is no alarm, the outputs have
\* the delays of the record's value and are disabled if it says so, and no clock
\* is left high: values put during a transfer and failed transfers before it
\* make no difference.
OutputsFollowRecord ==
  kind = "fineDelay" /\ Quiet /\ ~alarm =>
    /\ \A o \in 1 .. 2 : KeepsDelay(val[1], o) \/ delays[o] = DelayOf(val[1], o)
    /\ direction /\ pins = (IF 31 \in BitsOf[val[1]] THEN {"DIS"} ELSE {})
=============================================================================
