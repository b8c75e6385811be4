------------------------ MODULE FineDelayRecordProofs -------------------------
(***************************************************************************)
(* Theorems about FineDelayRecord, for any values and any bits they have,  *)
(* and about a record of any kind, as MCRecords has it.                    *)
(***************************************************************************)
EXTENDS MCRecords, ElementRecordsProofs, SequenceTheorems, TLAPS

-----------------------------------------------------------------------------
(* The invariant.                                                          *)

DelayTypesInv ==
  /\ ProcessTypeOK /\ FineDelayTypeOK
  /\ kind = "fineDelay"

\* An active record waits for exactly one thing: the answer of a write, the
\* delayed callback that makes the next one, or its being processed again.
AwaitsAnswer ==
  /\ write # None /\ write[1] + 1 = nextTransferStepIndex
  /\ transferCallbacks = 0 /\ processCallbacks = 0
AwaitsTransfer ==
  /\ write = None /\ nextTransferStepIndex \in 1 .. LastStep + 1
  /\ transferCallbacks = 1 /\ processCallbacks = 0
AwaitsProcessing ==
  /\ write = None
  /\ transferCallbacks = 0 /\ processCallbacks = 1

TokenInv ==
  IF pact THEN AwaitsAnswer \/ AwaitsTransfer \/ AwaitsProcessing
          ELSE ~rpro /\ write = None /\ transferCallbacks = 0 /\ processCallbacks = 0

DelayValueInv == (IF pact THEN ~rpro ELSE scanOnce = 0) => val[1] = writeOutputValue

\* The last step of the transfer of writeOutputValue that is known to have been
\* executed, or -1.
LastExecuted ==
  IF write # None THEN IF write[2] THEN write[1] ELSE write[1] - 1
  ELSE IF transferCallbacks > 0 THEN nextTransferStepIndex - 1
  ELSE IF (pact /\ writeSuccessful) \/ (~pact /\ ~alarm) THEN LastStep
  ELSE -1

\* How often the clock has risen after a step.
Clocks(step) == IF step <= 0 THEN 0 ELSE IF step >= 48 THEN 24 ELSE step \div 2

PinsInv(step) ==
  /\ ~direction => pins = {}
  /\ step >= 0 => direction
  /\ step >= 1 => pins = PinsOf(step)

\* The bits that have been shifted in are the last ones of the register.
RegisterInv(clocks) ==
  \A i \in 1 .. clocks :
    shiftRegister[24 - clocks + i] <=> TransferOrder[i] \in BitsOf[writeOutputValue]

Delivered(o) == KeepsDelay(writeOutputValue, o) \/ delays[o] = DelayOf(writeOutputValue, o)

ChipsAfter(step) ==
  /\ PinsInv(step)
  /\ RegisterInv(Clocks(step))
  /\ step >= 49 => \A o \in 1 .. 2 : Delivered(o)

ChipInv == \E step \in -1 .. LastStep : step = LastExecuted /\ ChipsAfter(step)

FineDelayInv == DelayTypesInv /\ TokenInv /\ DelayValueInv /\ ChipInv
-----------------------------------------------------------------------------
(* The pins and the order of the bits.                                     *)

LEMMA PinsFacts ==
  ASSUME NEW step \in 0 .. LastStep
  PROVE  /\ PinsOf(step) \subseteq Pins
         /\ "SCLK" \in PinsOf(step) <=> step \in 1 .. 48 /\ step % 2 = 0
         /\ "LCLK" \in PinsOf(step) <=> step = 49
         /\ "DIN" \in PinsOf(step) <=>
              step \in 1 .. 48 /\ TransferOrder[(step - 1) \div 2 + 1] \in BitsOf[writeOutputValue]
BY DEF PinsOf, Pins

\* The order is that of the shift register: the bits of each delay are at its
\* positions, and so are those that keep an output as it is.
LEMMA OrderFacts ==
  ASSUME NEW o \in 1 .. 2
  PROVE  /\ \A b \in 0 .. 9 :
              /\ DelayPositions[o][10 - b] \in 1 .. 24
              /\ TransferOrder[DelayPositions[o][10 - b]] = b + 16 * (o - 1)
         /\ LatchEnablePositions[o] \in 1 .. 24
         /\ TransferOrder[LatchEnablePositions[o]] = 10 + 16 * (o - 1)
<1>1. ASSUME NEW b \in 0 .. 9
      PROVE  /\ DelayPositions[1][10 - b] \in 1 .. 24
             /\ TransferOrder[DelayPositions[1][10 - b]] = b
  <2>1. b \in {0, 1, 2, 3, 4, 5, 6, 7, 8, 9}
    OBVIOUS
  <2>. QED BY <2>1 DEF DelayPositions, TransferOrder
<1>2. ASSUME NEW b \in 0 .. 9
      PROVE  /\ DelayPositions[2][10 - b] \in 1 .. 24
             /\ TransferOrder[DelayPositions[2][10 - b]] = b + 16
  <2>1. b \in {0, 1, 2, 3, 4, 5, 6, 7, 8, 9}
    OBVIOUS
  <2>. QED BY <2>1 DEF DelayPositions, TransferOrder
<1>3. /\ LatchEnablePositions[1] = 13 /\ TransferOrder[13] = 10
      /\ LatchEnablePositions[2] = 17 /\ TransferOrder[17] = 26
  BY DEF LatchEnablePositions, TransferOrder
<1>4. o = 1 \/ o = 2
  OBVIOUS
<1>5. CASE o = 1
  BY <1>1, <1>3, <1>5
<1>6. CASE o = 2
  BY <1>2, <1>3, <1>6
<1>. QED BY <1>4, <1>5, <1>6

-----------------------------------------------------------------------------
(* The chips.                                                              *)

\* One bit is shifted in.
LEMMA ShiftFacts ==
  ASSUME NEW S, NEW s \in Seq(S), NEW n \in Nat \ {0}, Len(s) = n, NEW x \in S
  PROVE  /\ Append(Tail(s), x) \in Seq(S) /\ Len(Append(Tail(s), x)) = n
         /\ \A i \in 1 .. n - 1 : Append(Tail(s), x)[i] = s[i + 1]
         /\ Append(Tail(s), x)[n] = x
<1>1. s # <<>>
  BY EmptySeq
<1>2. /\ Tail(s) \in Seq(S) /\ Len(Tail(s)) = n - 1
      /\ \A i \in 1 .. n - 1 : Tail(s)[i] = s[i + 1]
  BY <1>1, HeadTailProperties
<1>3. /\ Append(Tail(s), x) \in Seq(S) /\ Len(Append(Tail(s), x)) = n - 1 + 1
      /\ \A i \in 1 .. n - 1 : Append(Tail(s), x)[i] = Tail(s)[i]
      /\ Append(Tail(s), x)[n - 1 + 1] = x
  BY <1>2, AppendProperties
<1>. QED BY <1>2, <1>3

Bits == BOOLEAN

LEMMA BitShiftedIn ==
  ASSUME FineDelayTypeOK, NEW x \in Bits
  PROVE  /\ Append(Tail(shiftRegister), x) \in Seq(Bits) /\ Len(Append(Tail(shiftRegister), x)) = 24
         /\ \A i \in 1 .. 23 : Append(Tail(shiftRegister), x)[i] = shiftRegister[i + 1]
         /\ Append(Tail(shiftRegister), x)[24] = x
<1>0. PICK n \in Nat \ {0} : n = 24
  OBVIOUS
<1>1. shiftRegister \in Seq(Bits)
  BY DEF FineDelayTypeOK, Bits
<1>2. Len(shiftRegister) = n
  BY <1>0 DEF FineDelayTypeOK
<1>3. /\ Append(Tail(shiftRegister), x) \in Seq(Bits) /\ Len(Append(Tail(shiftRegister), x)) = n
      /\ \A i \in 1 .. n - 1 : Append(Tail(shiftRegister), x)[i] = shiftRegister[i + 1]
      /\ Append(Tail(shiftRegister), x)[n] = x
  BY <1>1, <1>2, ShiftFacts
<1>4. 1 .. n - 1 = 1 .. 23
  BY <1>0
<1>. QED BY <1>0, <1>3, <1>4, Zenon

LEMMA ChipTypes ==
  ASSUME FineDelayTypeOK, NEW output \in BOOLEAN, NEW high \in SUBSET Pins, SetPins(output, high)
  PROVE  /\ direction' \in BOOLEAN /\ pins' \subseteq Pins
         /\ shiftRegister' \in Seq(BOOLEAN) /\ Len(shiftRegister') = 24
         /\ delays' \in [1 .. 2 -> SUBSET (0 .. 9)]
<1>1. direction' \in BOOLEAN /\ pins' \subseteq Pins
  BY DEF SetPins
<1>2. shiftRegister' \in Seq(BOOLEAN) /\ Len(shiftRegister') = 24
  <2>1. Level("DIN", output, high) \in BOOLEAN
    BY DEF Level
  <2>2. PICK x \in BOOLEAN : x = Level("DIN", output, high)
    BY <2>1
  <2>3. shiftRegister' = Append(Tail(shiftRegister), x) \/ UNCHANGED shiftRegister
    BY <2>2 DEF SetPins, Shifted
  <2>4. x \in Bits /\ Bits = BOOLEAN
    BY DEF Bits
  <2>. QED BY <2>3, <2>4, BitShiftedIn DEF FineDelayTypeOK
<1>3. delays' \in [1 .. 2 -> SUBSET (0 .. 9)]
  <2>1. \A o \in 1 .. 2 : DelayIn(shiftRegister', o) \in SUBSET (0 .. 9)
    BY DEF DelayIn
  <2>. QED BY <2>1 DEF SetPins, Latched, FineDelayTypeOK
<1>. QED BY <1>1, <1>2, <1>3

\* A rising clock shifts the bit in, the others keep their order.
LEMMA ClockRises ==
  ASSUME FineDelayTypeOK, UNCHANGED writeOutputValue,
         NEW clocks \in 0 .. 23, RegisterInv(clocks), NEW x \in BOOLEAN,
         x <=> TransferOrder[clocks + 1] \in BitsOf[writeOutputValue],
         shiftRegister' = Append(Tail(shiftRegister), x)
  PROVE  RegisterInv(clocks + 1)'
<1>. SUFFICES ASSUME NEW i \in 1 .. clocks + 1
              PROVE  shiftRegister'[24 - (clocks + 1) + i] <=> TransferOrder[i] \in BitsOf[writeOutputValue]
  BY DEF RegisterInv
<1>1. /\ \A k \in 1 .. 23 : shiftRegister'[k] = shiftRegister[k + 1]
      /\ shiftRegister'[24] = x
  BY BitShiftedIn DEF Bits
<1>2. CASE i = clocks + 1
  <2>1. 24 - (clocks + 1) + i = 24
    BY <1>2
  <2>. QED BY <1>1, <1>2, <2>1
<1>3. CASE i # clocks + 1
  <2>1. /\ i \in 1 .. clocks
        /\ 24 - (clocks + 1) + i \in 1 .. 23
        /\ (24 - (clocks + 1) + i) + 1 = 24 - clocks + i
    BY <1>3
  <2>2. shiftRegister'[24 - (clocks + 1) + i] = shiftRegister[24 - clocks + i]
    BY <1>1, <2>1
  <2>. QED BY <2>1, <2>2 DEF RegisterInv
<1>. QED BY <1>2, <1>3

\* The delays that are loaded from a register that holds all bits of the value.
LEMMA LatchRises ==
  ASSUME FineDelayTypeOK, UNCHANGED writeOutputValue, RegisterInv(24), UNCHANGED shiftRegister, NEW o \in 1 .. 2,
         delays' = [p \in 1 .. 2 |-> IF shiftRegister[LatchEnablePositions[p]] THEN delays[p]
                                     ELSE DelayIn(shiftRegister, p)]
  PROVE  /\ Delivered(o)'
         /\ delays'[o] # delays[o] => delays'[o] = DelayOf(writeOutputValue, o) /\ ~KeepsDelay(writeOutputValue, o)
<1>1. \A i \in 1 .. 24 : shiftRegister[i] <=> TransferOrder[i] \in BitsOf[writeOutputValue]
  BY DEF RegisterInv
<1>2. shiftRegister[LatchEnablePositions[o]] <=> KeepsDelay(writeOutputValue, o)
  BY <1>1, OrderFacts DEF KeepsDelay
<1>3. DelayIn(shiftRegister, o) = DelayOf(writeOutputValue, o)
  <2>1. \A b \in 0 .. 9 : shiftRegister[DelayPositions[o][10 - b]] <=> b + 16 * (o - 1) \in BitsOf[writeOutputValue]
    BY <1>1, OrderFacts
  <2>. QED BY <2>1 DEF DelayIn, DelayOf
<1>4. delays'[o] = IF KeepsDelay(writeOutputValue, o) THEN delays[o] ELSE DelayOf(writeOutputValue, o)
  BY <1>2, <1>3
<1>5. /\ KeepsDelay(writeOutputValue, o)' <=> KeepsDelay(writeOutputValue, o)
      /\ DelayOf(writeOutputValue, o)' = DelayOf(writeOutputValue, o)
  BY DEF KeepsDelay, DelayOf
<1>. QED BY <1>4, <1>5 DEF Delivered

\* Chips that do not change are as the last step left them; what they hold of a
\* transfer that is given up does not matter to the next one.
LEMMA SameChips ==
  ASSUME ChipInv, UNCHANGED chipVars,
         (LastExecuted' = LastExecuted /\ UNCHANGED writeOutputValue) \/ LastExecuted' = -1
  PROVE  ChipInv'
<1>1. PICK step \in -1 .. LastStep : step = LastExecuted /\ ChipsAfter(step)
  BY DEF ChipInv
<1>2. UNCHANGED <<direction, pins, shiftRegister, delays>>
  BY DEF chipVars
<1>3. CASE LastExecuted' = LastExecuted /\ UNCHANGED writeOutputValue
  <2>1. /\ PinsInv(step)' <=> PinsInv(step)
        /\ RegisterInv(Clocks(step))' <=> RegisterInv(Clocks(step))
        /\ \A o \in 1 .. 2 : Delivered(o)' <=> Delivered(o)
    BY <1>2, <1>3 DEF PinsInv, PinsOf, RegisterInv, Clocks, Delivered, KeepsDelay, DelayOf
  <2>2. ChipsAfter(step)'
    BY <1>1, <2>1 DEF ChipsAfter
  <2>. QED BY <1>1, <1>3, <2>2 DEF ChipInv
<1>4. CASE LastExecuted' = -1
  <2>1. ~direction => pins = {}
    BY <1>1 DEF ChipsAfter, PinsInv
  <2>2. PinsInv(-1)' /\ RegisterInv(Clocks(-1))'
    BY <1>2, <2>1 DEF PinsInv, RegisterInv, Clocks
  <2>3. ChipsAfter(-1)' /\ -1 \in -1 .. LastStep
    BY <2>2 DEF ChipsAfter, LastStep
  <2>. QED BY <1>4, <2>3 DEF ChipInv
<1>. QED BY <1>3, <1>4

\* The last clock of a step, counted.
LEMMA ClocksOfStep ==
  ASSUME NEW step \in 1 .. LastStep
  PROVE  /\ step \in 1 .. 48 /\ step % 2 = 0 =>
              /\ Clocks(step - 1) \in 0 .. 23 /\ Clocks(step) = Clocks(step - 1) + 1
              /\ (step - 1) \div 2 + 1 = Clocks(step - 1) + 1
              /\ step > 1 /\ (step - 1) % 2 # 0
         /\ ~(step \in 1 .. 48 /\ step % 2 = 0) => Clocks(step) = Clocks(step - 1)
         /\ Clocks(48) = 24 /\ Clocks(49) = 24
BY DEF Clocks, LastStep

\* The write of a step, executed.
LEMMA ExecuteChips ==
  ASSUME DelayTypesInv, ChipInv, ExecuteWrite
  PROVE  /\ ChipInv'
         /\ \A o \in 1 .. 2 : delays'[o] # delays[o] =>
              delays'[o] = DelayOf(writeOutputValue, o) /\ ~KeepsDelay(writeOutputValue, o)
<1>1. PICK n \in 0 .. LastStep : n = write[1]
  BY DEF DelayTypesInv, FineDelayTypeOK, ExecuteWrite
<1>2. /\ write # None /\ ~write[2] /\ write' = <<n, TRUE>> /\ write' # None
      /\ UNCHANGED writeOutputValue
  BY <1>1 DEF ExecuteWrite, None
<1>3. LastExecuted = n - 1 /\ LastExecuted' = n
  BY <1>1, <1>2 DEF LastExecuted
<1>4. ChipsAfter(n - 1)
  BY <1>3 DEF ChipInv
<1>5. SUFFICES /\ ChipsAfter(n)'
               /\ \A o \in 1 .. 2 : delays'[o] # delays[o] =>
                    delays'[o] = DelayOf(writeOutputValue, o) /\ ~KeepsDelay(writeOutputValue, o)
  BY <1>3 DEF ChipInv
<1>6. CASE n = 0
  <2>1. SetPins(TRUE, pins) /\ (direction \/ pins = {})
    BY <1>1, <1>4, <1>6 DEF ExecuteWrite, ChipsAfter, PinsInv
  <2>2. \A p \in Pins : Level(p, TRUE, pins) => Level(p, direction, pins)
    BY <2>1 DEF Level
  <2>3. direction' = TRUE /\ UNCHANGED <<pins, shiftRegister, delays>>
    BY <2>1, <2>2 DEF SetPins, Shifted, Latched, Pins
  <2>4. PinsInv(0)' /\ RegisterInv(Clocks(0))'
    BY <2>3 DEF PinsInv, RegisterInv, Clocks
  <2>. QED BY <1>6, <2>3, <2>4 DEF ChipsAfter
<1>7. CASE n # 0
  <2>1. n \in 1 .. LastStep /\ direction /\ SetPins(direction, PinsOf(n))
    BY <1>1, <1>4, <1>7 DEF ExecuteWrite, ChipsAfter, PinsInv
  <2>2. direction' /\ pins' = PinsOf(n) /\ PinsOf(n)' = PinsOf(n)
    BY <1>2, <2>1 DEF SetPins, PinsOf
  <2>3. PinsInv(n)'
    BY <2>1, <2>2 DEF PinsInv
  <2>4. "SCLK" \in pins /\ n > 1 => n - 1 \in 1 .. 48 /\ (n - 1) % 2 = 0
    <3>1. ASSUME n > 1 PROVE pins = PinsOf(n - 1) /\ n - 1 \in 0 .. LastStep
      BY <1>4, <3>1 DEF ChipsAfter, PinsInv, LastStep
    <3>. QED BY <3>1, PinsFacts
  <2>5. "LCLK" \in pins /\ n > 1 => n = 50
    <3>1. ASSUME n > 1 PROVE pins = PinsOf(n - 1) /\ n - 1 \in 0 .. LastStep
      BY <1>4, <3>1 DEF ChipsAfter, PinsInv, LastStep
    <3>. QED BY <3>1, PinsFacts DEF LastStep
  <2>6. RegisterInv(Clocks(n))' /\ (n = 49 => UNCHANGED shiftRegister)
    <3>1. CASE n \in 1 .. 48 /\ n % 2 = 0
      <4>1. "SCLK" \in PinsOf(n) /\ "SCLK" \notin pins
        BY <2>1, <2>4, <3>1, PinsFacts, ClocksOfStep
      <4>2. shiftRegister' = Append(Tail(shiftRegister), Level("DIN", direction, PinsOf(n)))
        BY <2>1, <4>1 DEF SetPins, Shifted, Level
      <4>3. PICK x \in BOOLEAN : x = Level("DIN", direction, PinsOf(n))
        BY DEF Level
      <4>4. x <=> TransferOrder[Clocks(n - 1) + 1] \in BitsOf[writeOutputValue]
        BY <2>1, <3>1, <4>3, PinsFacts, ClocksOfStep DEF Level
      <4>5. Clocks(n - 1) \in 0 .. 23 /\ Clocks(n) = Clocks(n - 1) + 1
        BY <2>1, <3>1, ClocksOfStep
      <4>6. PICK k \in 0 .. 23 : k = Clocks(n - 1)
        BY <4>5
      <4>7. RegisterInv(k) /\ shiftRegister' = Append(Tail(shiftRegister), x)
        BY <1>4, <4>2, <4>3, <4>6 DEF ChipsAfter
      <4>8. RegisterInv(k + 1)'
        BY <1>2, <4>4, <4>6, <4>7, ClockRises DEF DelayTypesInv
      <4>. QED BY <3>1, <4>5, <4>6, <4>8 DEF RegisterInv, Clocks
    <3>2. CASE ~(n \in 1 .. 48 /\ n % 2 = 0)
      <4>1. "SCLK" \notin PinsOf(n) /\ Clocks(n) = Clocks(n - 1)
        BY <2>1, <3>2, PinsFacts, ClocksOfStep
      <4>2. UNCHANGED shiftRegister
        BY <2>1, <4>1 DEF SetPins, Shifted, Level
      <4>3. RegisterInv(Clocks(n - 1))
        BY <1>4 DEF ChipsAfter
      <4>4. RegisterInv(Clocks(n - 1))'
        BY <1>2, <4>2, <4>3 DEF RegisterInv, Clocks
      <4>. QED BY <4>1, <4>2, <4>4 DEF RegisterInv, Clocks
    <3>. QED BY <3>1, <3>2
  <2>7. CASE n = 49
    <3>1. "LCLK" \in PinsOf(n) /\ "LCLK" \notin pins /\ UNCHANGED shiftRegister
      BY <2>1, <2>5, <2>6, <2>7, PinsFacts
    <3>2. delays' = [p \in 1 .. 2 |-> IF shiftRegister[LatchEnablePositions[p]] THEN delays[p]
                                      ELSE DelayIn(shiftRegister, p)]
      BY <2>1, <3>1 DEF SetPins, Latched, Level
    <3>3. RegisterInv(24)
      <4>1. RegisterInv(Clocks(48)) /\ Clocks(48) = 24
        BY <1>4, <2>7, ClocksOfStep DEF ChipsAfter, Clocks
      <4>. QED BY <4>1
    <3>4. \A o \in 1 .. 2 :
            /\ Delivered(o)'
            /\ delays'[o] # delays[o] => delays'[o] = DelayOf(writeOutputValue, o) /\ ~KeepsDelay(writeOutputValue, o)
      BY <1>2, <3>1, <3>2, <3>3, LatchRises DEF DelayTypesInv
    <3>. QED BY <2>3, <2>6, <3>4 DEF ChipsAfter
  <2>8. CASE n # 49
    <3>1. "LCLK" \notin PinsOf(n)
      BY <2>1, <2>8, PinsFacts
    <3>2. UNCHANGED delays
      BY <2>1, <3>1 DEF SetPins, Latched, Level
    <3>3. n >= 49 => \A o \in 1 .. 2 : Delivered(o)'
      <4>1. ASSUME n >= 49, NEW o \in 1 .. 2 PROVE Delivered(o)
        BY <1>4, <2>1, <2>8, <4>1 DEF ChipsAfter, LastStep
      <4>. QED BY <1>2, <3>2, <4>1 DEF Delivered, KeepsDelay, DelayOf
    <3>. QED BY <2>3, <2>6, <3>2, <3>3 DEF ChipsAfter
  <2>. QED BY <2>7, <2>8
<1>. QED BY <1>6, <1>7

-----------------------------------------------------------------------------
(* Each step preserves the invariant.                                      *)

LEMMA DelayTypesInit ==
  ASSUME FineDelayInit, val \in [1 .. N -> Values]
  PROVE  FineDelayTypeOK
<1>1. writeOutputValue \in Values
  BY RecordAssumption DEF FineDelayInit
<1>2. writeSuccessful \in BOOLEAN /\ direction \in BOOLEAN
  BY DEF FineDelayInit
<1>3. nextTransferStepIndex \in 0 .. LastStep + 2 /\ transferCallbacks \in Nat /\ write = None
  BY DEF FineDelayInit, LastStep
<1>4. pins \subseteq Pins /\ delays \in [1 .. 2 -> SUBSET (0 .. 9)]
  BY DEF FineDelayInit
<1>5. shiftRegister \in Seq(BOOLEAN) /\ Len(shiftRegister) = 24
  <2>1. PICK x \in Bits : x = FALSE
    BY DEF Bits
  <2>2. PICK n \in Nat : n = 24
    OBVIOUS
  <2>3. shiftRegister = [i \in 1 .. n |-> x]
    BY <2>1, <2>2 DEF FineDelayInit
  <2>4. shiftRegister \in Seq(Bits) /\ DOMAIN shiftRegister = 1 .. n
    BY <2>3, IsASeq
  <2>5. Len(shiftRegister) = n
    BY <2>4, LenProperties
  <2>. QED BY <2>2, <2>4, <2>5 DEF Bits
<1>. QED BY <1>1, <1>2, <1>3, <1>4, <1>5 DEF FineDelayTypeOK

LEMMA FineDelayInvInit ==
  ProcessInit /\ kind = "fineDelay" /\ val \in [1 .. N -> Values] /\ alarm \in BOOLEAN /\ FineDelayInit
    => FineDelayInv
<1>. SUFFICES ASSUME ProcessInit, kind = "fineDelay", val \in [1 .. N -> Values], alarm \in BOOLEAN, FineDelayInit
              PROVE  FineDelayInv
  OBVIOUS
<1>1. ProcessTypeOK
  <2>1. pact \in BOOLEAN /\ rpro \in BOOLEAN /\ verify \in BOOLEAN /\ kind \in AllKinds
    BY DEF ProcessInit, AllKinds, ScalarKinds
  <2>2. processCallbacks \in Nat /\ scanOnce \in Nat /\ made \in 0 .. MaxRequests
    BY RecordAssumption DEF ProcessInit
  <2>. QED BY <2>1, <2>2 DEF ProcessTypeOK
<1>2. FineDelayTypeOK
  BY DelayTypesInit
<1>3. TokenInv /\ DelayValueInv
  BY DEF ProcessInit, FineDelayInit, TokenInv, DelayValueInv
<1>4. LastExecuted = -1
  BY DEF ProcessInit, FineDelayInit, LastExecuted
<1>5. ChipsAfter(-1) /\ -1 \in -1 .. LastStep
  BY DEF ChipsAfter, PinsInv, RegisterInv, Clocks, FineDelayInit, LastStep
<1>. QED BY <1>1, <1>2, <1>3, <1>4, <1>5 DEF FineDelayInv, DelayTypesInv, ChipInv

LEMMA NewWrite ==
  ASSUME NEW step \in 0 .. LastStep, write' = <<step, FALSE>>
  PROVE  write' \in (0 .. LastStep) \X BOOLEAN /\ write'[1] = step /\ ~write'[2] /\ write' # None
<1>1. write' \in (0 .. LastStep) \X BOOLEAN
  OBVIOUS
<1>2. write'[1] = step /\ write' # None
  BY DEF None
<1>3. ~write'[2]
  OBVIOUS
<1>. QED BY <1>1, <1>2, <1>3

\* A transfer is started when there is nothing else to wait for.
LEMMA StartTransferInv ==
  ASSUME FineDelayInv, ~pact, NEW value \in [1 .. N -> Values], NEW callbacks, NEW scans,
         callbacks \in {-1, 0}, processCallbacks + callbacks \in Nat,
         scans \in {-1, 0}, scanOnce + scans \in Nat,
         StartTransfer(value, callbacks, scans), made' \in 0 .. MaxRequests, UNCHANGED <<configVars, chipVars>>
  PROVE  FineDelayInv'
<1>1. /\ DelayTypesInv /\ ~rpro /\ write = None /\ transferCallbacks = 0 /\ processCallbacks = 0
  BY DEF FineDelayInv, TokenInv
<1>2. /\ val' = value /\ pact' = TRUE /\ UNCHANGED <<rpro, alarm, kind, verify>>
      /\ scanOnce' = scanOnce + scans /\ processCallbacks' = processCallbacks + callbacks
      /\ writeOutputValue' = value[1] /\ nextTransferStepIndex' = 1 /\ write' = <<0, FALSE>>
      /\ UNCHANGED <<writeSuccessful, transferCallbacks>>
      /\ UNCHANGED <<direction, pins, shiftRegister, delays>>
  BY DEF StartTransfer, Active, configVars, chipVars
<1>3. processCallbacks' = 0
  BY <1>1, <1>2
<1>4. write' \in (0 .. LastStep) \X BOOLEAN /\ write'[1] = 0 /\ ~write'[2] /\ write' # None
  <2>1. PICK step \in 0 .. LastStep : step = 0
    BY DEF LastStep
  <2>. QED BY <1>2, <2>1, NewWrite
<1>5. ProcessTypeOK'
  <2>1. pact' \in BOOLEAN
    BY <1>2
  <2>. QED BY <1>1, <1>2, <1>3, <2>1 DEF DelayTypesInv, ProcessTypeOK
<1>6. FineDelayTypeOK'
  <2>1. value[1] \in Values
    BY RecordAssumption
  <2>2. nextTransferStepIndex' \in 0 .. LastStep + 2
    BY <1>2 DEF LastStep
  <2>. QED BY <1>1, <1>2, <1>4, <2>1, <2>2 DEF DelayTypesInv, FineDelayTypeOK
<1>7. TokenInv'
  <2>1. AwaitsAnswer'
    <3>1. write'[1] + 1 = nextTransferStepIndex'
      BY <1>2, <1>4
    <3>2. write' # None /\ transferCallbacks' = 0 /\ processCallbacks' = 0
      BY <1>1, <1>2, <1>3, <1>4
    <3>3. None' = None
      BY DEF None
    <3>. QED BY <3>1, <3>2, <3>3 DEF AwaitsAnswer
  <2>. QED BY <1>2, <2>1 DEF TokenInv
<1>8. DelayValueInv'
  BY <1>2 DEF DelayValueInv
<1>9. ChipInv'
  <2>1. LastExecuted' = -1
    BY <1>4 DEF LastExecuted
  <2>. QED BY <2>1, SameChips DEF FineDelayInv
<1>. QED BY <1>1, <1>2, <1>5, <1>6, <1>7, <1>8, <1>9 DEF FineDelayInv, DelayTypesInv

\* What EPICS does: it starts a transfer, finishes it, or finds the record active.
LEMMA EpicsInv ==
  ASSUME FineDelayInv, PutDelay \/ ScanOnceDelay \/ ProcessCallbackDelay
  PROVE  FineDelayInv'
<1>1. /\ val \in [1 .. N -> Values] /\ processCallbacks \in Nat /\ scanOnce \in Nat
      /\ made \in 0 .. MaxRequests /\ MaxRequests \in Nat /\ DelayTypesInv
  BY RecordAssumption DEF FineDelayInv, DelayTypesInv, ProcessTypeOK
<1>2. CASE PutDelay
  <2>1. PICK v \in Values :
          IF pact THEN PutWhileActive([val EXCEPT ![1] = v]) /\ UNCHANGED transferVars
                  ELSE StartTransfer([val EXCEPT ![1] = v], 0, 0)
    BY <1>2 DEF PutDelay
  <2>2. made' \in 0 .. MaxRequests
    BY <1>1, <1>2 DEF PutDelay
  <2>3. PICK value \in [1 .. N -> Values] : value = [val EXCEPT ![1] = v]
    BY <1>1
  <2>4. UNCHANGED <<configVars, chipVars>>
    BY <1>2 DEF PutDelay
  <2>5. CASE ~pact
    <3>1. StartTransfer(value, 0, 0) /\ 0 \in {-1, 0} /\ processCallbacks + 0 \in Nat /\ scanOnce + 0 \in Nat
      BY <1>1, <2>1, <2>5, <2>3
    <3>. QED BY <2>2, <2>4, <2>5, <3>1, StartTransferInv
  <2>6. CASE pact
    <3>1. /\ val' \in [1 .. N -> Values] /\ rpro' = TRUE
          /\ UNCHANGED <<pact, alarm, processCallbacks, scanOnce, transferVars, configVars, chipVars>>
      BY <2>1, <2>4, <2>6, <2>3 DEF PutWhileActive
    <3>2. rpro' \in BOOLEAN
      BY <3>1
    <3>3. ProcessTypeOK' /\ FineDelayTypeOK' /\ UNCHANGED kind
      BY <1>1, <2>2, <3>1, <3>2 DEF DelayTypesInv, ProcessTypeOK, FineDelayTypeOK, configVars, transferVars, chipVars
    <3>4. TokenInv'
      BY <2>6, <3>1 DEF FineDelayInv, TokenInv, AwaitsAnswer, AwaitsTransfer, AwaitsProcessing, transferVars
    <3>5. DelayValueInv'
      BY <2>6, <3>1 DEF DelayValueInv
    <3>6. LastExecuted' = LastExecuted /\ UNCHANGED writeOutputValue
      BY <3>1 DEF LastExecuted, transferVars
    <3>7. ChipInv'
      BY <3>1, <3>6, SameChips DEF FineDelayInv
    <3>. QED BY <1>1, <3>3, <3>4, <3>5, <3>7 DEF FineDelayInv, DelayTypesInv
  <2>. QED BY <2>5, <2>6
<1>3. CASE ScanOnceDelay
  <2>1. scanOnce > 0 /\ UNCHANGED <<configVars, made, chipVars>>
    BY <1>3 DEF ScanOnceDelay
  <2>2. CASE ~pact
    <3>1. StartTransfer(val, 0, -1)
      BY <1>3, <2>2 DEF ScanOnceDelay
    <3>. QED BY <1>1, <2>1, <2>2, <3>1, StartTransferInv
  <2>3. CASE pact
    <3>1. scanOnce' = scanOnce - 1 /\ UNCHANGED <<val, pact, rpro, alarm, processCallbacks, transferVars>>
      BY <1>3, <2>3 DEF ScanOnceDelay
    <3>2. ProcessTypeOK' /\ FineDelayTypeOK' /\ UNCHANGED kind
      BY <1>1, <2>1, <3>1 DEF DelayTypesInv, ProcessTypeOK, FineDelayTypeOK, configVars, transferVars, chipVars
    <3>3. TokenInv'
      BY <2>3, <3>1 DEF FineDelayInv, TokenInv, AwaitsAnswer, AwaitsTransfer, AwaitsProcessing, transferVars
    <3>4. DelayValueInv'
      BY <2>3, <3>1 DEF FineDelayInv, DelayValueInv, transferVars
    <3>5. LastExecuted' = LastExecuted /\ UNCHANGED writeOutputValue
      BY <3>1 DEF LastExecuted, transferVars
    <3>6. ChipInv'
      BY <2>1, <3>5, SameChips DEF FineDelayInv
    <3>. QED BY <1>1, <3>2, <3>3, <3>4, <3>6 DEF FineDelayInv, DelayTypesInv
  <2>. QED BY <2>2, <2>3
<1>4. CASE ProcessCallbackDelay
  <2>1. processCallbacks > 0 /\ UNCHANGED <<configVars, made, chipVars>>
    BY <1>4 DEF ProcessCallbackDelay
  <2>2. pact /\ AwaitsProcessing
    BY <1>1, <2>1 DEF FineDelayInv, TokenInv, AwaitsAnswer, AwaitsTransfer
  <2>3. /\ val' = val /\ pact' = FALSE /\ rpro' = FALSE /\ alarm' = ~writeSuccessful
        /\ processCallbacks' = processCallbacks + (-1)
        /\ scanOnce' = scanOnce + 0 + (IF rpro THEN 1 ELSE 0)
        /\ UNCHANGED transferVars
    BY <1>4, <2>2 DEF ProcessCallbackDelay, Finished
  <2>4. /\ UNCHANGED <<nextTransferStepIndex, writeOutputValue, writeSuccessful, write, transferCallbacks, kind, verify>>
        /\ UNCHANGED <<direction, pins, shiftRegister, delays>>
    BY <2>1, <2>3 DEF transferVars, chipVars, configVars
  <2>5. processCallbacks' = 0 /\ scanOnce' \in Nat /\ (scanOnce' = 0 => ~rpro)
    BY <1>1, <2>2, <2>3 DEF AwaitsProcessing
  <2>6. ProcessTypeOK'
    <3>1. pact' \in BOOLEAN /\ rpro' \in BOOLEAN /\ alarm' \in BOOLEAN
      BY <2>3
    <3>. QED BY <1>1, <2>1, <2>3, <2>4, <2>5, <3>1 DEF DelayTypesInv, ProcessTypeOK
  <2>7. FineDelayTypeOK'
    BY <1>1, <2>4 DEF DelayTypesInv, FineDelayTypeOK
  <2>8. TokenInv'
    BY <2>2, <2>3, <2>4, <2>5 DEF TokenInv, AwaitsProcessing
  <2>9. DelayValueInv'
    BY <2>2, <2>3, <2>4, <2>5 DEF FineDelayInv, DelayValueInv
  <2>10. LastExecuted' = LastExecuted
    <3>1. LastExecuted = IF writeSuccessful THEN LastStep ELSE -1
      BY <2>2 DEF LastExecuted, AwaitsProcessing
    <3>2. LastExecuted' = IF ~alarm' THEN LastStep ELSE -1
      BY <2>2, <2>3, <2>4 DEF LastExecuted, AwaitsProcessing
    <3>. QED BY <2>3, <3>1, <3>2
  <2>11. ChipInv'
    BY <2>1, <2>4, <2>10, SameChips DEF FineDelayInv
  <2>. QED BY <1>1, <2>4, <2>6, <2>7, <2>8, <2>9, <2>11 DEF FineDelayInv, DelayTypesInv
<1>. QED BY <1>2, <1>3, <1>4

\* The transfer itself: the token goes round between the write, the delayed
\* callback and, at the end or when a write fails, the processing.
LEMMA TransferInv ==
  ASSUME FineDelayInv, TransferCallback \/ WriteStep
  PROVE  FineDelayInv'
<1>1. DelayTypesInv /\ ProcessTypeOK /\ FineDelayTypeOK /\ pact
  <2>1. DelayTypesInv /\ ProcessTypeOK /\ FineDelayTypeOK /\ TokenInv
    BY DEF FineDelayInv, DelayTypesInv
  <2>2. transferCallbacks > 0 \/ write # None
    BY DEF TransferCallback, WriteStep, ExecuteWrite, WriteSuccess, WriteFailure
  <2>3. ASSUME ~pact PROVE transferCallbacks = 0 /\ write = None
    BY <2>1, <2>3 DEF TokenInv
  <2>. QED BY <2>1, <2>2, <2>3
<1>2. UNCHANGED <<kind, verify, val, pact, rpro, alarm, scanOnce, made, writeOutputValue>>
  BY DEF TransferCallback, WriteStep, ExecuteWrite, WriteSuccess, WriteFailure, epicsVars, configVars, processVars
<1>3. DelayValueInv'
  BY <1>2 DEF FineDelayInv, DelayValueInv
<1>4. CASE TransferCallback
  <2>1. AwaitsTransfer
    BY <1>1, <1>4 DEF FineDelayInv, TokenInv, AwaitsAnswer, AwaitsProcessing, TransferCallback
  <2>2. transferCallbacks' = 0 /\ nextTransferStepIndex' = nextTransferStepIndex + 1 /\ UNCHANGED chipVars
    BY <1>4, <2>1 DEF TransferCallback, StartNextTransferStep, AwaitsTransfer
  <2>3. LastExecuted = nextTransferStepIndex - 1 /\ nextTransferStepIndex \in 1 .. LastStep + 1
    BY <2>1 DEF LastExecuted, AwaitsTransfer
  <2>4. CASE nextTransferStepIndex <= LastStep
    <3>1. write' = <<nextTransferStepIndex, FALSE>> /\ UNCHANGED <<writeSuccessful, processCallbacks>>
      BY <1>4, <2>4 DEF TransferCallback, StartNextTransferStep
    <3>2. /\ write' \in (0 .. LastStep) \X BOOLEAN /\ write' # None
          /\ write'[1] = nextTransferStepIndex /\ ~write'[2]
      <4>1. nextTransferStepIndex \in 0 .. LastStep
        BY <2>3, <2>4 DEF LastStep
      <4>. QED BY <3>1, <4>1, NewWrite
    <3>3. AwaitsAnswer'
      BY <2>1, <2>2, <3>1, <3>2 DEF AwaitsAnswer, AwaitsTransfer
    <3>4. LastExecuted' = LastExecuted
      BY <2>3, <3>2 DEF LastExecuted
    <3>5. ChipInv'
      BY <1>2, <2>2, <3>4, SameChips DEF FineDelayInv
    <3>6. ProcessTypeOK'
      BY <1>1, <1>2, <3>1 DEF ProcessTypeOK
    <3>7. FineDelayTypeOK'
      <4>1. nextTransferStepIndex' \in 0 .. LastStep + 2 /\ transferCallbacks' \in Nat
        BY <2>2, <2>3 DEF LastStep
      <4>. QED BY <1>1, <1>2, <2>2, <3>1, <3>2, <4>1 DEF FineDelayTypeOK, chipVars
    <3>. QED BY <1>1, <1>2, <1>3, <3>3, <3>5, <3>6, <3>7 DEF FineDelayInv, DelayTypesInv, TokenInv
  <2>5. CASE ~(nextTransferStepIndex <= LastStep)
    <3>1. writeSuccessful' = TRUE /\ processCallbacks' = processCallbacks + 1 /\ UNCHANGED write
      BY <1>4, <2>5 DEF TransferCallback, StartNextTransferStep
    <3>2. AwaitsProcessing'
      BY <2>1, <2>2, <3>1 DEF AwaitsProcessing, AwaitsTransfer
    <3>3. nextTransferStepIndex = LastStep + 1
      BY <2>3, <2>5 DEF LastStep
    <3>4. LastExecuted' = LastStep /\ LastExecuted = LastStep
      BY <1>1, <1>2, <2>1, <2>2, <2>3, <3>1, <3>3 DEF LastExecuted, LastStep, AwaitsTransfer
    <3>5. ChipInv'
      BY <1>2, <2>2, <3>4, SameChips DEF FineDelayInv
    <3>6. ProcessTypeOK'
      <4>1. processCallbacks' \in Nat
        BY <2>1, <3>1 DEF AwaitsTransfer
      <4>. QED BY <1>1, <1>2, <4>1 DEF ProcessTypeOK
    <3>7. FineDelayTypeOK'
      <4>1. nextTransferStepIndex' \in 0 .. LastStep + 2 /\ transferCallbacks' \in Nat
        BY <2>2, <2>3 DEF LastStep
      <4>2. writeSuccessful' \in BOOLEAN
        BY <3>1
      <4>. QED BY <1>1, <1>2, <2>2, <3>1, <4>1, <4>2 DEF FineDelayTypeOK, chipVars
    <3>. QED BY <1>1, <1>2, <1>3, <3>2, <3>5, <3>6, <3>7 DEF FineDelayInv, DelayTypesInv, TokenInv
  <2>. QED BY <2>4, <2>5
<1>5. CASE WriteStep
  <2>1. AwaitsAnswer
    BY <1>1, <1>5 DEF FineDelayInv, TokenInv, AwaitsTransfer, AwaitsProcessing,
                      WriteStep, ExecuteWrite, WriteSuccess, WriteFailure
  <2>2. write \in (0 .. LastStep) \X BOOLEAN /\ nextTransferStepIndex = write[1] + 1
    BY <1>1, <2>1 DEF AwaitsAnswer, FineDelayTypeOK
  <2>3. CASE ExecuteWrite
    <3>1. /\ write' = <<write[1], TRUE>>
          /\ UNCHANGED <<nextTransferStepIndex, writeSuccessful, transferCallbacks, processCallbacks>>
      BY <2>3 DEF ExecuteWrite, epicsVars, processVars
    <3>2. write' \in (0 .. LastStep) \X BOOLEAN /\ write'[1] = write[1] /\ write' # None
      BY <2>2, <3>1 DEF None
    <3>3. AwaitsAnswer'
      BY <2>1, <3>1, <3>2 DEF AwaitsAnswer
    <3>4. ChipInv'
      BY <1>1, <2>3, ExecuteChips DEF FineDelayInv
    <3>5. ProcessTypeOK'
      BY <1>1, <1>2, <3>1 DEF ProcessTypeOK
    <3>6. FineDelayTypeOK'
      <4>1. \E output \in BOOLEAN, high \in SUBSET Pins : SetPins(output, high)
        <5>1. write[1] \in 0 .. LastStep /\ TRUE \in BOOLEAN /\ direction \in BOOLEAN /\ pins \in SUBSET Pins
          BY <1>1, <2>2 DEF FineDelayTypeOK
        <5>2. PinsOf(write[1]) \in SUBSET Pins
          BY <5>1, PinsFacts
        <5>3. SetPins(TRUE, pins) \/ SetPins(direction, PinsOf(write[1]))
          BY <2>3 DEF ExecuteWrite
        <5>. QED BY <5>1, <5>2, <5>3
      <4>2. /\ direction' \in BOOLEAN /\ pins' \subseteq Pins
            /\ shiftRegister' \in Seq(BOOLEAN) /\ Len(shiftRegister') = 24
            /\ delays' \in [1 .. 2 -> SUBSET (0 .. 9)]
        BY <1>1, <4>1, ChipTypes
      <4>. QED BY <1>1, <1>2, <3>1, <3>2, <4>2 DEF FineDelayTypeOK
    <3>. QED BY <1>1, <1>2, <1>3, <3>3, <3>4, <3>5, <3>6 DEF FineDelayInv, DelayTypesInv, TokenInv
  <2>4. CASE WriteSuccess
    <3>1. /\ write[2] /\ write' = None /\ transferCallbacks' = 1
          /\ UNCHANGED <<nextTransferStepIndex, writeSuccessful, processCallbacks, chipVars>>
      BY <2>1, <2>4 DEF WriteSuccess, AwaitsAnswer, epicsVars, processVars
    <3>2. AwaitsTransfer'
      BY <2>1, <2>2, <3>1 DEF AwaitsAnswer, AwaitsTransfer, LastStep
    <3>3. LastExecuted = write[1] /\ LastExecuted' = write[1]
      <4>1. LastExecuted = write[1]
        BY <2>1, <3>1 DEF LastExecuted, AwaitsAnswer
      <4>2. LastExecuted' = nextTransferStepIndex - 1
        BY <3>1 DEF LastExecuted
      <4>. QED BY <2>2, <4>1, <4>2
    <3>4. ChipInv'
      BY <1>2, <3>1, <3>3, SameChips DEF FineDelayInv
    <3>5. ProcessTypeOK'
      BY <1>1, <1>2, <3>1 DEF ProcessTypeOK
    <3>6. FineDelayTypeOK'
      BY <1>1, <1>2, <3>1 DEF FineDelayTypeOK, chipVars
    <3>. QED BY <1>1, <1>2, <1>3, <3>2, <3>4, <3>5, <3>6 DEF FineDelayInv, DelayTypesInv, TokenInv
  <2>5. CASE WriteFailure
    <3>1. /\ write' = None /\ writeSuccessful' = FALSE /\ processCallbacks' = 1
          /\ UNCHANGED <<nextTransferStepIndex, transferCallbacks, chipVars>>
      BY <2>1, <2>5 DEF WriteFailure, AwaitsAnswer
    <3>2. AwaitsProcessing'
      BY <2>1, <3>1 DEF AwaitsAnswer, AwaitsProcessing
    <3>3. LastExecuted' = -1
      BY <1>1, <1>2, <2>1, <3>1 DEF LastExecuted, AwaitsAnswer
    <3>4. ChipInv'
      BY <3>1, <3>3, SameChips DEF FineDelayInv
    <3>5. ProcessTypeOK'
      BY <1>1, <1>2, <3>1 DEF ProcessTypeOK
    <3>6. FineDelayTypeOK'
      <4>1. writeSuccessful' \in BOOLEAN
        BY <3>1
      <4>. QED BY <1>1, <1>2, <3>1, <4>1 DEF FineDelayTypeOK, chipVars
    <3>. QED BY <1>1, <1>2, <1>3, <3>2, <3>4, <3>5, <3>6 DEF FineDelayInv, DelayTypesInv, TokenInv
  <2>. QED BY <1>5, <2>3, <2>4, <2>5 DEF WriteStep
<1>. QED BY <1>4, <1>5

LEMMA FineDelayInvNext ==
  FineDelayInv /\ [FineDelayNext]_<<epicsVars, fineDelayVars>> => FineDelayInv'
<1>. SUFFICES ASSUME FineDelayInv, [FineDelayNext]_<<epicsVars, fineDelayVars>> PROVE FineDelayInv'
  OBVIOUS
<1>1. CASE PutDelay \/ ScanOnceDelay \/ ProcessCallbackDelay
  BY <1>1, EpicsInv
<1>2. CASE TransferCallback \/ WriteStep
  BY <1>2, TransferInv
<1>3. CASE UNCHANGED <<epicsVars, fineDelayVars>>
  <2>1. UNCHANGED <<epicsVars, transferVars, chipVars>>
    BY <1>3 DEF fineDelayVars
  <2>2. DelayTypesInv'
    BY <2>1 DEF FineDelayInv, DelayTypesInv, ProcessTypeOK, FineDelayTypeOK,
                epicsVars, configVars, processVars, transferVars, chipVars
  <2>3. TokenInv' /\ DelayValueInv'
    BY <2>1 DEF FineDelayInv, TokenInv, DelayValueInv, AwaitsAnswer, AwaitsTransfer, AwaitsProcessing,
                epicsVars, processVars, transferVars
  <2>4. LastExecuted' = LastExecuted /\ UNCHANGED writeOutputValue
    BY <2>1 DEF LastExecuted, epicsVars, processVars, transferVars
  <2>5. ChipInv'
    BY <2>1, <2>4, SameChips DEF FineDelayInv
  <2>. QED BY <2>2, <2>3, <2>5 DEF FineDelayInv
<1>. QED BY <1>1, <1>2, <1>3 DEF FineDelayNext

-----------------------------------------------------------------------------
(* The theorems.                                                           *)

\* The invariant: an active record waits for exactly one thing, and the step of
\* the transfer that has been executed last determines the levels of the pins,
\* the bits at the end of the shift register and, after the latch clock, the
\* delays, wherever earlier transfers have failed.
THEOREM FineDelayInvariant == FineDelaySpec => []FineDelayInv
<1>1. FineDelayInv /\ [FineDelayNext]_<<epicsVars, fineDelayVars>> => FineDelayInv'
  BY FineDelayInvNext
<1>. QED BY <1>1, FineDelayInvInit, PTL DEF FineDelaySpec

\* The type invariants of the record and of its transfer; the counters of
\* callbacks never drop below zero.
THEOREM FineDelayTypes == FineDelaySpec => [](ProcessTypeOK /\ FineDelayTypeOK)
<1>1. FineDelayInv => ProcessTypeOK /\ FineDelayTypeOK
  BY DEF FineDelayInv, DelayTypesInv
<1>. QED BY <1>1, FineDelayInvariant, PTL

\* What the invariant says of a record that is at rest.
LEMMA OutputsHaveDelays ==
  ASSUME FineDelayInv
  PROVE  OutputsFollowRecord
<1>. SUFFICES ASSUME Quiet, ~alarm
              PROVE  /\ \A o \in 1 .. 2 : KeepsDelay(val[1], o) \/ delays[o] = DelayOf(val[1], o)
                     /\ direction /\ pins = (IF 31 \in BitsOf[val[1]] THEN {"DIS"} ELSE {})
  BY DEF OutputsFollowRecord
<1>1. ~pact /\ write = None /\ transferCallbacks = 0
  BY DEF Quiet, FineDelayInv, TokenInv
<1>2. val[1] = writeOutputValue
  BY <1>1 DEF Quiet, FineDelayInv, DelayValueInv
<1>3. LastExecuted = LastStep
  BY <1>1 DEF LastExecuted
<1>4. ChipsAfter(50)
  BY <1>3 DEF FineDelayInv, ChipInv, LastStep
<1>5. direction /\ pins = PinsOf(50) /\ \A o \in 1 .. 2 : Delivered(o)
  BY <1>4 DEF ChipsAfter, PinsInv
<1>6. pins = (IF 31 \in BitsOf[writeOutputValue] THEN {"DIS"} ELSE {})
  BY <1>5 DEF PinsOf
<1>. QED BY <1>2, <1>5, <1>6 DEF Delivered

\* A record that has been processed without an alarm has its value at the
\* outputs (startNextTransferStep, writeSuccess, processRecord).
THEOREM OutputsFollow == FineDelaySpec => []OutputsFollowRecord
BY OutputsHaveDelays, FineDelayInvariant, PTL

\* The action of WholeDelaysLatched.
WholeDelaysInStep ==
  \A o \in 1 .. 2 : delays'[o] # delays[o] =>
    delays'[o] = DelayOf(writeOutputValue, o) /\ ~KeepsDelay(writeOutputValue, o)

LEMMA WholeDelaysStep ==
  FineDelayInv /\ [FineDelayNext]_<<epicsVars, fineDelayVars>> => [WholeDelaysInStep]_delays
<1>. SUFFICES ASSUME FineDelayInv, [FineDelayNext]_<<epicsVars, fineDelayVars>>, delays' # delays
              PROVE  \A o \in 1 .. 2 : delays'[o] # delays[o] =>
                       delays'[o] = DelayOf(writeOutputValue, o) /\ ~KeepsDelay(writeOutputValue, o)
  BY DEF WholeDelaysInStep
<1>1. ExecuteWrite
  BY DEF FineDelayNext, PutDelay, ScanOnceDelay, ProcessCallbackDelay, TransferCallback,
         WriteStep, WriteSuccess, WriteFailure, fineDelayVars, chipVars
<1>. QED BY <1>1, ExecuteChips DEF FineDelayInv

\* No output ever gets anything but the delay in the value whose transfer is
\* under way (the rising latch clock of step 49 is the only step that loads one).
THEOREM WholeDelays == FineDelaySpec => WholeDelaysLatched
BY WholeDelaysStep, FineDelayInvariant, PTL DEF FineDelaySpec, WholeDelaysLatched, WholeDelaysInStep

-----------------------------------------------------------------------------
(* A record of any kind: what MCRecords puts together.                     *)

\* The record is of one kind for ever, and the invariant of that kind holds.
RecordsInv ==
  /\ TypeOK
  /\ kind = "fineDelay" => FineDelayInv
  /\ kind # "fineDelay" => ElementInv

LEMMA RecordsInvInit == Init => RecordsInv
<1>. SUFFICES ASSUME Init PROVE RecordsInv
  OBVIOUS
<1>1. ProcessInit /\ ElementInit /\ FineDelayInit
  BY DEF Init
<1>2. ProcessTypeOK /\ ElementTypeOK
  BY <1>1, TypesInit
<1>3. val \in [1 .. N -> Values] /\ alarm \in BOOLEAN
  BY <1>2 DEF ProcessTypeOK
<1>4. TypeOK
  BY <1>1, <1>2, <1>3, DelayTypesInit DEF TypeOK
<1>. QED BY <1>1, <1>3, <1>4, FineDelayInvInit, ElementInvInit DEF RecordsInv

LEMMA RecordsStep ==
  ASSUME RecordsInv, [Next]_vars
  PROVE  /\ kind = "fineDelay" => UNCHANGED elementVars /\ [FineDelayNext]_<<epicsVars, fineDelayVars>>
         /\ kind # "fineDelay" => UNCHANGED fineDelayVars /\ [ElementNext]_<<epicsVars, elementVars>>
<1>1. CASE UNCHANGED vars
  BY <1>1 DEF vars
<1>2. CASE Next
  BY <1>2 DEF Next
<1>. QED BY <1>1, <1>2

LEMMA RecordsInvNext == RecordsInv /\ [Next]_vars => RecordsInv'
<1>. SUFFICES ASSUME RecordsInv, [Next]_vars PROVE RecordsInv'
  OBVIOUS
<1>1. CASE kind = "fineDelay"
  <2>1. FineDelayInv /\ ElementTypeOK /\ UNCHANGED elementVars
    BY <1>1, RecordsStep DEF RecordsInv, TypeOK
  <2>2. FineDelayInv'
    BY <1>1, <2>1, RecordsStep, FineDelayInvNext
  <2>3. ElementTypeOK'
    BY <2>1 DEF ElementTypeOK, elementVars, supportVars, boundVars
  <2>4. kind' = "fineDelay" /\ ProcessTypeOK' /\ FineDelayTypeOK'
    BY <2>2 DEF FineDelayInv, DelayTypesInv
  <2>. QED BY <2>2, <2>3, <2>4 DEF RecordsInv, TypeOK
<1>2. CASE kind # "fineDelay"
  <2>1. ElementInv /\ FineDelayTypeOK /\ UNCHANGED fineDelayVars
    BY <1>2, RecordsStep DEF RecordsInv, TypeOK
  <2>2. ElementInv'
    BY <1>2, <2>1, RecordsStep, ElementInvNext
  <2>3. FineDelayTypeOK'
    BY <2>1 DEF FineDelayTypeOK, fineDelayVars, transferVars, chipVars
  <2>4. kind' # "fineDelay" /\ ProcessTypeOK' /\ ElementTypeOK'
    BY <2>2 DEF ElementInv, TypesInv
  <2>. QED BY <2>2, <2>3, <2>4 DEF RecordsInv, TypeOK
<1>. QED BY <1>1, <1>2

LEMMA RecordsInvariant == Spec => []RecordsInv
BY RecordsInvInit, RecordsInvNext, PTL DEF Spec

\* The variables of a record of any kind keep their types, those of the other
\* kinds, too, whatever fails, is called again or is executed late.  (The counter
\* of pending requests wraps, as in the code: that is not said to be excluded.)
THEOREM RecordTypes == Spec => []TypeOK
<1>1. RecordsInv => TypeOK
  BY DEF RecordsInv
<1>. QED BY <1>1, RecordsInvariant, PTL

\* Whatever its kind, a record that has come to rest without an alarm has its
\* value in the device or at the outputs (DeviceFollows, OutputsFollow).
THEOREM RecordsFollow == Spec => [](DeviceFollowsRecord /\ OutputsFollowRecord)
<1>1. ASSUME RecordsInv PROVE DeviceFollowsRecord /\ OutputsFollowRecord
  <2>1. CASE kind = "fineDelay"
    <3>1. DeviceFollowsRecord
      BY <2>1 DEF DeviceFollowsRecord
    <3>. QED BY <1>1, <2>1, <3>1, OutputsHaveDelays DEF RecordsInv
  <2>2. CASE kind # "fineDelay"
    <3>1. OutputsFollowRecord
      BY <2>2 DEF OutputsFollowRecord
    <3>. QED BY <1>1, <2>2, <3>1, DeviceHasValues DEF RecordsInv
  <2>. QED BY <2>1, <2>2
<1>. QED BY <1>1, RecordsInvariant, PTL

\* Whatever its kind, a record finishes with the outcome of its requests and no
\* output gets part of a delay (OutcomeIsReported, WholeDelays).
THEOREM RecordSteps == Spec => OutcomeReported /\ WholeDelaysLatched
<1>1. RecordsInv /\ [Next]_vars => [OutcomeOfStep]_<<pact, val, alarm>> /\ [WholeDelaysInStep]_delays
  <2>. SUFFICES ASSUME RecordsInv, [Next]_vars
                PROVE  OutcomeOfStep /\ [WholeDelaysInStep]_delays
    OBVIOUS
  <2>1. CASE kind = "fineDelay"
    <3>1. OutcomeOfStep
      BY <2>1 DEF OutcomeOfStep
    <3>2. FineDelayInv /\ [FineDelayNext]_<<epicsVars, fineDelayVars>>
      BY <2>1, RecordsStep DEF RecordsInv
    <3>. QED BY <3>1, <3>2, WholeDelaysStep
  <2>2. CASE kind # "fineDelay"
    <3>1. UNCHANGED delays
      BY <2>2, RecordsStep DEF fineDelayVars, chipVars
    <3>2. ElementInv /\ [ElementNext]_<<epicsVars, elementVars>>
      BY <2>2, RecordsStep DEF RecordsInv
    <3>. QED BY <3>1, <3>2, OutcomeStep
  <2>. QED BY <2>1, <2>2
<1>. QED BY <1>1, RecordsInvariant, PTL DEF Spec, OutcomeReported, OutcomeOfStep, WholeDelaysLatched, WholeDelaysInStep
=============================================================================
