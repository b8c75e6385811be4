----------------------------- MODULE FlashProofs -----------------------------
(***************************************************************************)
(* Lemmas about SpiFlash and JtagChain: what the outcomes of their         *)
(* operations do to a flash memory of any size.                            *)
(***************************************************************************)
EXTENDS SpiFlash, JtagChain, FiniteSetTheorems, SequenceTheorems, TLAPS

-----------------------------------------------------------------------------
(* Induction.                                                              *)

\* Induction on the natural numbers, for a set of them: if a number were missing,
\* the function that adds one would map the smaller members of the set to those
\* without zero, which are fewer.
LEMMA Induction ==
  ASSUME NEW A, 0 \in A, \A n \in Nat : n \in A => n + 1 \in A
  PROVE  \A n \in Nat : n \in A
<1>. SUFFICES ASSUME NEW m \in Nat, m \notin A PROVE FALSE
  OBVIOUS
<1>. DEFINE B == A \cap (0 .. m)
            f == [n \in B |-> n + 1]
<1>1. IsFiniteSet(B) /\ Cardinality(B) \in Nat
  <2>1. IsFiniteSet(0 .. m)
    BY FS_Interval
  <2>. QED BY <2>1, FS_Subset, FS_CardinalityType
<1>2. IsFiniteSet(B \ {0}) /\ Cardinality(B \ {0}) = Cardinality(B) - 1
  <2>1. 0 \in B
    OBVIOUS
  <2>. QED BY <1>1, <2>1, FS_RemoveElement
<1>3. f \in [B -> B \ {0}]
  <2>1. ASSUME NEW n \in B PROVE n + 1 \in B \ {0}
    OBVIOUS
  <2>. QED BY <2>1
<1>4. Cardinality(B \ {0}) < Cardinality(B)
  BY <1>1, <1>2
<1>5. PICK x, y \in B : x # y /\ f[x] = f[y]
  <2>. HIDE DEF f, B
  <2>. QED BY <1>1, <1>2, <1>3, <1>4, FS_PigeonHole
<1>. QED BY <1>5

-----------------------------------------------------------------------------
(* Arithmetic.                                                             *)

LEMMA Division ==
  ASSUME NEW m \in Nat \ {0}, NEW k \in Int, NEW r \in 0 .. m - 1
  PROVE  (k * m + r) \div m = k /\ (k * m + r) % m = r
  OBVIOUS

LEMMA Divided ==
  ASSUME NEW m \in Nat \ {0}, NEW a \in Nat
  PROVE  \E k \in Nat, r \in 0 .. m - 1 : a = k * m + r
<1>. DEFINE A == {x \in Nat : \E k \in Nat, r \in 0 .. m - 1 : x = k * m + r}
<1>1. 0 \in A
  <2>1. 0 = 0 * m + 0
    OBVIOUS
  <2>. QED BY <2>1
<1>2. ASSUME NEW x \in Nat, x \in A PROVE x + 1 \in A
  <2>1. PICK k \in Nat, r \in 0 .. m - 1 : x = k * m + r
    BY <1>2
  <2>2. CASE r < m - 1
    <3>1. x + 1 = k * m + (r + 1) /\ r + 1 \in 0 .. m - 1
      BY <2>1, <2>2
    <3>. QED BY <3>1
  <2>3. CASE r = m - 1
    <3>1. x + 1 = (k + 1) * m + 0 /\ k + 1 \in Nat /\ 0 \in 0 .. m - 1
      BY <2>1, <2>3
    <3>. HIDE DEF A
    <3>2. PICK j \in Nat, r0 \in 0 .. m - 1 : x + 1 = j * m + r0
      BY <3>1, Zenon
    <3>. QED BY <3>2 DEF A
  <2>. QED BY <2>2, <2>3
<1>3. a \in A
  <2>. HIDE DEF A
  <2>. QED BY <1>1, <1>2, Induction
<1>. QED BY <1>3

LEMMA ProductGrows ==
  ASSUME NEW m \in Nat, NEW a \in Nat, NEW b \in Nat, a <= b
  PROVE  a * m \in Nat /\ b * m \in Nat /\ a * m <= b * m
  OBVIOUS

LEMMA Sizes ==
  /\ PageSize \in Nat \ {0} /\ SectorSize \in Nat \ {0}
  /\ FlashSize \in Nat \ {0} /\ AddressBase \in Nat \ {0}
  /\ PrimaryStart \in Nat /\ PrimaryEnd \in Nat
  /\ PrimaryStart <= PrimaryEnd /\ PrimaryEnd + SectorSize <= FlashSize
  /\ FlashSize <= AddressBase * AddressBase * AddressBase
  /\ \E n \in Nat : FlashSize = n * SectorSize
  /\ \E n \in Nat : PrimaryStart = n * SectorSize
  /\ \E n \in Nat : PrimaryEnd = n * SectorSize
  /\ \E n \in Nat : SectorSize = n * PageSize
<1>1. /\ PageSize \in Nat \ {0} /\ SectorSize \in Nat \ {0} /\ FlashSize \in Nat \ {0} /\ AddressBase \in Nat \ {0}
      /\ PrimaryStart \in Nat /\ PrimaryEnd \in Nat
      /\ PrimaryStart <= PrimaryEnd /\ PrimaryEnd + SectorSize <= FlashSize
      /\ FlashSize <= AddressBase * AddressBase * AddressBase
  BY FlashAssumption
<1>2. \E n \in Nat : SectorSize = n * PageSize
  <2>1. PICK k \in Nat, r \in 0 .. PageSize - 1 : SectorSize = k * PageSize + r
    BY <1>1, Divided
  <2>2. SectorSize % PageSize = r
    BY <1>1, <2>1, Division
  <2>. QED BY <1>1, <2>1, <2>2, FlashAssumption
<1>3. ASSUME NEW a \in {FlashSize, PrimaryStart, PrimaryEnd} PROVE \E n \in Nat : a = n * SectorSize
  <2>1. a \in {n * SectorSize : n \in 0 .. FlashSize}
    BY FlashAssumption
  <2>. QED BY <1>1, <2>1
<1>. QED BY <1>1, <1>2, <1>3

\* The digits of an address are sent, and put together by the chip.
LEMMA AddressSent ==
  ASSUME NEW address \in 0 .. FlashSize, NEW received,
         received[2] = (address \div (AddressBase * AddressBase)) % AddressBase,
         received[3] = (address \div AddressBase) % AddressBase,
         received[4] = address % AddressBase
  PROVE  AddressIn(received) = IF address = FlashSize THEN 0 ELSE address
<1>. DEFINE B == AddressBase
            Square == B * B
<1>0. B \in Nat \ {0} /\ FlashSize \in Nat \ {0} /\ address \in Nat /\ FlashSize <= Square * B /\ Square \in Nat \ {0}
  BY Sizes
<1>1. PICK q \in Nat, r1 \in 0 .. B - 1 : address = q * B + r1
  <2>. HIDE DEF B
  <2>. QED BY <1>0, Divided
<1>2. PICK r3 \in Nat, r2 \in 0 .. B - 1 : q = r3 * B + r2
  <2>. HIDE DEF B
  <2>. QED BY <1>0, <1>1, Divided
<1>. HIDE DEF B
<1>3. r2 * B + r1 \in 0 .. Square - 1
  <2>1. r2 * B \in Nat /\ r2 * B <= (B - 1) * B
    BY <1>0, ProductGrows
  <2>2. (B - 1) * B = Square - B
    BY <1>0
  <2>. QED BY <1>0, <2>1, <2>2
<1>4. address = r3 * Square + (r2 * B + r1)
  BY <1>0, <1>1, <1>2
<1>. HIDE DEF Square
<1>5. address \div Square = r3 /\ address \div B = q /\ address % B = r1 /\ q % B = r2
  <2>1. address \div Square = r3
    BY <1>0, <1>3, <1>4, Division
  <2>2. address \div B = q /\ address % B = r1
    BY <1>0, <1>1, Division
  <2>3. q % B = r2
    BY <1>0, <1>2, Division
  <2>. QED BY <2>1, <2>2, <2>3
<1>6. r3 * Square <= B * Square
  BY <1>0, <1>3, <1>4
<1>7. r3 <= B
  <2>1. ASSUME r3 >= B + 1 PROVE FALSE
    <3>1. (B + 1) * Square <= r3 * Square
      BY <1>0, <2>1, ProductGrows
    <3>. QED BY <1>0, <1>6, <3>1
  <2>. QED BY <1>0, <2>1
<1>8. received[2] = r3 % B /\ received[3] = r2 /\ received[4] = r1
  BY <1>5 DEF B, Square
<1>9. AddressIn(received) = (((r3 % B) * B + r2) * B + r1) % FlashSize
  BY <1>8 DEF AddressIn, B
<1>10. CASE r3 < B
  <2>1. r3 % B = r3
    BY <1>0, <1>10
  <2>2. AddressIn(received) = address % FlashSize
    BY <1>1, <1>2, <1>9, <2>1
  <2>. QED BY <1>0, <2>2
<1>11. CASE r3 = B
  <2>1. r2 * B + r1 = 0 /\ address = FlashSize
    BY <1>0, <1>3, <1>4, <1>11
  <2>2. r2 = 0 /\ r1 = 0
    BY <1>0, <2>1
  <2>3. r3 % B = 0
    BY <1>0, <1>11
  <2>. QED BY <1>0, <1>9, <2>1, <2>2, <2>3
<1>. QED BY <1>0, <1>7, <1>10, <1>11

-----------------------------------------------------------------------------
(* The chip.                                                               *)

LEMMA ExecuteFacts ==
  ASSUME NEW memory, NEW received, Len(received) \in Nat
  PROVE  /\ \A enabled \in BOOLEAN : ~enabled \/ Len(received) = 0 => Execute(memory, enabled, received) = memory
         /\ Len(received) >= 1 /\ Head(received) = "BE" =>
              Execute(memory, TRUE, received) = [a \in DOMAIN memory |-> Erased]
         /\ Len(received) >= 1 /\ Head(received) = "SE" =>
              Execute(memory, TRUE, received) =
                IF Len(received) = 4 THEN SectorErased(memory, AddressIn(received)) ELSE memory
         /\ Len(received) >= 1 /\ Head(received) = "PP" =>
              Execute(memory, TRUE, received) =
                IF Len(received) > 4 THEN PageProgrammed(memory, received) ELSE memory
<1>2. ASSUME NEW enabled \in BOOLEAN, ~enabled \/ Len(received) = 0 PROVE Execute(memory, enabled, received) = memory
  BY <1>2 DEF Execute
<1>3. ASSUME Len(received) >= 1, Head(received) = "BE"
      PROVE  Execute(memory, TRUE, received) = [a \in DOMAIN memory |-> Erased]
  BY <1>3 DEF Execute
<1>4. ASSUME Len(received) >= 1, Head(received) = "SE"
      PROVE  Execute(memory, TRUE, received) =
               IF Len(received) = 4 THEN SectorErased(memory, AddressIn(received)) ELSE memory
  BY <1>4 DEF Execute
<1>5. ASSUME Len(received) >= 1, Head(received) = "PP"
      PROVE  Execute(memory, TRUE, received) =
               IF Len(received) > 4 THEN PageProgrammed(memory, received) ELSE memory
  BY <1>5 DEF Execute
<1>. QED BY <1>2, <1>3, <1>4, <1>5

\* What an operation leaves in the memory.
LEMMA OutcomeFacts ==
  ASSUME NEW memory, NEW S, NEW command \in Seq(S), NEW o \in Outcomes(memory, command)
  PROVE  /\ o.failed \in BOOLEAN /\ o.complete \in BOOLEAN
         /\ o.memory = memory \/ \E m \in 1 .. Len(command) : o.memory = Execute(memory, TRUE, SubSeq(command, 1, m))
         /\ o.complete => o.memory = Execute(memory, TRUE, command)
<1>1. PICK enabled \in BOOLEAN, failed \in BOOLEAN, n \in 0 .. Len(command) :
        o = [memory |-> Execute(memory, enabled, SubSeq(command, 1, n)), failed |-> failed,
             complete |-> enabled /\ n = Len(command)]
  BY DEF Outcomes
<1>2. /\ o.memory = Execute(memory, enabled, SubSeq(command, 1, n)) /\ o.failed = failed
      /\ o.complete = (enabled /\ n = Len(command))
  BY <1>1
<1>3. Len(SubSeq(command, 1, n)) = n
  OBVIOUS
<1>4. CASE ~enabled \/ n = 0
  <2>1. PICK received : received = SubSeq(command, 1, n) /\ Len(received) = n
    BY <1>3
  <2>2. Execute(memory, enabled, received) = memory
    <3>1. Len(received) \in Nat /\ (~enabled \/ Len(received) = 0)
      BY <1>4, <2>1
    <3>. QED BY <3>1, ExecuteFacts, Zenon
  <2>3. o.memory = memory
    BY <1>2, <2>1, <2>2
  <2>4. o.complete => Execute(memory, TRUE, command) = memory
    <3>1. o.complete => Len(command) = 0
      BY <1>2, <1>4
    <3>2. Len(command) \in Nat /\ TRUE \in BOOLEAN
      OBVIOUS
    <3>. QED BY <3>1, <3>2, ExecuteFacts, Zenon
  <2>. QED BY <1>2, <2>3, <2>4
<1>5. CASE enabled /\ n # 0
  <2>1. enabled = TRUE /\ n \in 1 .. Len(command)
    BY <1>5
  <2>2. SubSeq(command, 1, Len(command)) = command
    OBVIOUS
  <2>. QED BY <1>2, <2>1, <2>2
<1>. QED BY <1>4, <1>5

-----------------------------------------------------------------------------
(* Pages.                                                                  *)

LEMMA Joined ==
  ASSUME NEW S, NEW s \in Seq(S), NEW t \in Seq(S), NEW u, u = s \o t
  PROVE  /\ u \in Seq(S) /\ Len(u) = Len(s) + Len(t)
         /\ \A i \in 1 .. Len(s) : u[i] = s[i]
         /\ \A i \in 1 .. Len(t) : u[Len(s) + i] = t[i]
  BY ConcatProperties

LEMMA Multiple ==
  ASSUME NEW m \in Nat \ {0}, NEW k \in Int, NEW a, a = k * m
  PROVE  a % m = 0 /\ a \div m = k
<1>1. PICK r \in 0 .. m - 1 : r = 0
  OBVIOUS
<1>2. (k * m + r) \div m = k /\ (k * m + r) % m = r
  BY Division
<1>3. a = k * m + r
  BY <1>1
<1>. QED BY <1>1, <1>2, <1>3

IsMemory(memory) == memory = [a \in 0 .. FlashSize - 1 |-> memory[a]]

\* The memory has become another one by what the chip has received.
Programmed(memory, received, start, after) ==
  /\ after = [a \in DOMAIN memory |-> after[a]]
  /\ \A a \in DOMAIN memory :
       after[a] = IF a \in start .. start + Len(received) - 5
                    THEN ProgramByte(memory[a], received[a - start + 5]) ELSE memory[a]

LEMMA PageProgrammedFacts ==
  ASSUME NEW memory, NEW received, Len(received) \in 5 .. PageSize + 4,
         NEW address, address = AddressIn(received), NEW k \in Nat, address = k * PageSize,
         NEW after, after = PageProgrammed(memory, received)
  PROVE  Programmed(memory, received, address, after)
<1>. DEFINE Written(a) == \E i \in 5 .. Len(received) : a = address + ((address + i - 5) % PageSize)
            Sent(a) == received[5 + ((a - address) % PageSize)]
<1>0. PageSize \in Nat \ {0} /\ address \in Nat
  BY Sizes
<1>1. address - (address % PageSize) = address
  <2>1. address % PageSize = 0
    BY <1>0, k \in Int, Multiple, Zenon
  <2>. QED BY <1>0, <2>1
<1>2. after =
        [a \in DOMAIN memory |-> IF Written(a) THEN ProgramByte(memory[a], Sent(a)) ELSE memory[a]]
  BY <1>1 DEF PageProgrammed
<1>3. ASSUME NEW i \in 5 .. Len(received) PROVE (address + i - 5) % PageSize = i - 5
  <2>1. PICK r \in 0 .. PageSize - 1 : r = i - 5
    BY <1>0
  <2>2. (k * PageSize + r) % PageSize = r
    BY <1>0, k \in Int, Division, Zenon
  <2>3. address + i - 5 = k * PageSize + r
    BY <1>0, <2>1
  <2>. QED BY <2>1, <2>2, <2>3
<1>4. ASSUME NEW a PROVE Written(a) <=> a \in address .. address + Len(received) - 5
  <2>1. Written(a) <=> \E i \in 5 .. Len(received) : a = address + (i - 5)
    BY <1>3
  <2>2. ASSUME a \in address .. address + Len(received) - 5 PROVE \E i \in 5 .. Len(received) : a = address + (i - 5)
    <3>1. a - address + 5 \in 5 .. Len(received) /\ a = address + ((a - address + 5) - 5)
      BY <1>0, <2>2
    <3>. QED BY <3>1
  <2>. QED BY <1>0, <2>1, <2>2
<1>5. ASSUME NEW a, a \in address .. address + Len(received) - 5 PROVE Sent(a) = received[a - address + 5]
  <2>1. a - address \in 0 .. PageSize - 1
    BY <1>0, <1>5
  <2>2. (a - address) % PageSize = a - address
    BY <1>0, <2>1
  <2>3. 5 + (a - address) = a - address + 5
    BY <1>0, <1>5
  <2>. QED BY <2>2, <2>3
<1>. HIDE DEF Written, Sent
<1>. QED BY <1>2, <1>4, <1>5 DEF Programmed

\* The address that the chip puts together.
ChipAddress(address) == IF address = FlashSize THEN 0 ELSE address

\* Bytes from the start of a page have been programmed, all of them if the
\* command was complete.
PageOutcome(memory, data, start, o) ==
  /\ o.complete \in BOOLEAN
  /\ IsMemory(o.memory)
  /\ \A a \in 0 .. FlashSize - 1 :
       o.memory[a] = memory[a] \/ (/\ a \in start .. start + PageSize - 1
                                   /\ o.memory[a] = ProgramByte(memory[a], data[a - start + 1]))
  /\ o.complete => \A a \in 0 .. FlashSize - 1 :
       a \in start .. start + PageSize - 1 => o.memory[a] = ProgramByte(memory[a], data[a - start + 1])

LEMMA PageProgramFacts ==
  ASSUME NEW memory, IsMemory(memory),
         NEW T, NEW data \in [1 .. PageSize -> T],
         NEW address \in 0 .. FlashSize, NEW k \in Nat, address = k * PageSize,
         NEW o \in PageProgram(memory, data, address),
         NEW start, start = ChipAddress(address)
  PROVE  PageOutcome(memory, data, start, o)
<1>. DEFINE bytes == AddressBytes(address)
            command == <<"PP">> \o bytes \o data
            S == T \cup {"PP"} \cup Int
<1>0. PageSize \in Nat \ {0} /\ FlashSize \in Nat \ {0} /\ AddressBase \in Nat \ {0} /\ address \in Nat
  BY Sizes
<1>0a. DOMAIN memory = 0 .. FlashSize - 1
  BY DEF IsMemory
<1>1. bytes \in Seq(S) /\ Len(bytes) = 3 /\ bytes[1] = (address \div (AddressBase * AddressBase)) % AddressBase
      /\ bytes[2] = (address \div AddressBase) % AddressBase /\ bytes[3] = address % AddressBase
  <2>1. /\ (address \div (AddressBase * AddressBase)) % AddressBase \in Int
        /\ (address \div AddressBase) % AddressBase \in Int /\ address % AddressBase \in Int
    BY <1>0
  <2>. QED BY <2>1 DEF AddressBytes
<1>2. data \in Seq(S) /\ Len(data) = PageSize
  BY <1>0
<1>3. <<"PP">> \in Seq(S) /\ Len(<<"PP">>) = 1 /\ <<"PP">>[1] = "PP"
  OBVIOUS
<1>. HIDE DEF bytes, S, command
<1>4. /\ command \in Seq(S) /\ Len(command) = PageSize + 4
      /\ command[1] = "PP" /\ command[2] = bytes[1] /\ command[3] = bytes[2] /\ command[4] = bytes[3]
      /\ \A i \in 1 .. PageSize : command[4 + i] = data[i]
  <2>1. PICK prefix : prefix = <<"PP">>
    OBVIOUS
  <2>2. prefix \in Seq(S)
    BY <1>3, <2>1
  <2>2a. Len(prefix) = 1 /\ prefix[1] = "PP"
    BY <1>3, <2>1
  <2>2b. bytes \in Seq(S)
    BY <1>1
  <2>2c. data \in Seq(S)
    BY <1>2
  <2>3. PICK header : header = prefix \o bytes
    OBVIOUS
  <2>4. /\ header \in Seq(S) /\ Len(header) = Len(prefix) + Len(bytes)
        /\ \A i \in 1 .. Len(prefix) : header[i] = prefix[i]
        /\ \A i \in 1 .. Len(bytes) : header[Len(prefix) + i] = bytes[i]
    BY <2>2, <2>2b, <2>3, Joined
  <2>4a. header \in Seq(S)
    BY <2>4
  <2>5. header \in Seq(S) /\ Len(header) = 4
        /\ header[1] = "PP" /\ header[2] = bytes[1] /\ header[3] = bytes[2] /\ header[4] = bytes[3]
    <3>1. 1 \in 1 .. 3 /\ 2 \in 1 .. 3 /\ 3 \in 1 .. 3 /\ 1 \in 1 .. 1
      OBVIOUS
    <3>. QED BY <1>1, <2>2a, <2>4, <3>1
  <2>6. command = header \o data
    BY <2>1, <2>3 DEF command
  <2>7. /\ command \in Seq(S) /\ Len(command) = Len(header) + Len(data)
        /\ \A i \in 1 .. Len(header) : command[i] = header[i]
        /\ \A i \in 1 .. Len(data) : command[Len(header) + i] = data[i]
    BY <2>2c, <2>4a, <2>6, Joined
  <2>. QED BY <1>0, <1>2, <2>5, <2>7
<1>5. PageProgram(memory, data, address) = Outcomes(memory, command)
  <2>1. address % PageSize = 0
    BY <1>0, k \in Int, Multiple, Zenon
  <2>. QED BY <1>2, <2>1 DEF PageProgram, command, bytes
<1>6. \E j \in Nat : start = j * PageSize
  BY <1>0 DEF ChipAddress
<1>7. ASSUME NEW m \in 1 .. Len(command), NEW received, received = SubSeq(command, 1, m)
      PROVE  /\ Len(received) = m
             /\ \A i \in 1 .. m : received[i] = command[i]
             /\ Head(received) = "PP"
  BY <1>4, <1>7
\* What the memory is after the chip has received the first bytes of the command.
<1>8. ASSUME NEW m \in 1 .. Len(command), NEW after,
             after = Execute(memory, TRUE, SubSeq(command, 1, m))
      PROVE  /\ after = [a \in 0 .. FlashSize - 1 |-> after[a]]
             /\ \A a \in 0 .. FlashSize - 1 :
                  after[a] = IF m > 4 /\ a \in start .. start + m - 5
                               THEN ProgramByte(memory[a], data[a - start + 1]) ELSE memory[a]
  <2>1. PICK received : received = SubSeq(command, 1, m)
    OBVIOUS
  <2>2. Len(received) = m /\ Head(received) = "PP" /\ \A i \in 1 .. m : received[i] = command[i]
    BY <1>7, <2>1
  <2>3. after = IF m > 4 THEN PageProgrammed(memory, received) ELSE memory
    <3>1. Execute(memory, TRUE, received) =
            IF Len(received) > 4 THEN PageProgrammed(memory, received) ELSE memory
      <4>1. Len(received) \in Nat /\ Len(received) >= 1
        BY <2>2
      <4>. QED BY <2>2, <4>1, ExecuteFacts, Zenon
    <3>. QED BY <1>8, <2>1, <2>2, <3>1
  <2>4. CASE m > 4
    <3>1. after = PageProgrammed(memory, received)
      BY <2>3, <2>4
    <3>2. received[2] = bytes[1] /\ received[3] = bytes[2] /\ received[4] = bytes[3]
      BY <1>4, <2>2, <2>4
    <3>3. AddressIn(received) = start
      BY <1>1, <3>2, AddressSent DEF ChipAddress
    <3>4. PICK j \in Nat : start = j * PageSize
      BY <1>6
    <3>5. Len(received) \in 5 .. PageSize + 4
      BY <1>0, <1>4, <2>2, <2>4
    <3>5a. start = AddressIn(received)
      BY <3>3
    <3>5b. Programmed(memory, received, start, after)
      BY <3>1, <3>4, <3>5, <3>5a, PageProgrammedFacts
    <3>6. /\ after = [a \in DOMAIN memory |-> after[a]]
          /\ \A a \in DOMAIN memory :
               after[a] = IF a \in start .. start + m - 5
                            THEN ProgramByte(memory[a], received[a - start + 5]) ELSE memory[a]
      BY <2>2, <3>5b DEF Programmed
    <3>7. ASSUME NEW a, a \in start .. start + m - 5 PROVE received[a - start + 5] = data[a - start + 1]
      <4>1. start \in Nat
        BY <1>0 DEF ChipAddress
      <4>2. a - start + 5 \in 1 .. m /\ a - start + 1 \in 1 .. PageSize /\ a - start + 5 = 4 + (a - start + 1)
        <5>1. m \in Nat /\ m <= PageSize + 4
          BY <1>0, <1>4
        <5>. QED BY <1>0, <3>7, <4>1, <5>1
      <4>3. received[a - start + 5] = command[a - start + 5]
        BY <2>2, <4>2, Zenon
      <4>4. command[4 + (a - start + 1)] = data[a - start + 1]
        BY <1>4, <4>2, Zenon
      <4>. QED BY <4>2, <4>3, <4>4, Zenon
    <3>. QED BY <1>0a, <2>4, <3>6, <3>7
  <2>5. CASE ~(m > 4)
    <3>1. after = memory
      BY <2>3, <2>5
    <3>2. memory = [a \in 0 .. FlashSize - 1 |-> memory[a]]
      BY DEF IsMemory
    <3>. QED BY <2>5, <3>1, <3>2
  <2>. QED BY <2>4, <2>5
<1>9. /\ o.complete \in BOOLEAN
      /\ o.memory = memory \/ \E m \in 1 .. Len(command) : o.memory = Execute(memory, TRUE, SubSeq(command, 1, m))
      /\ o.complete => o.memory = Execute(memory, TRUE, command)
  <2>1. command \in Seq(S) /\ o \in Outcomes(memory, command)
    BY <1>4, <1>5
  <2>. QED BY <2>1, OutcomeFacts
<1>10. start \in Nat
  BY <1>0 DEF ChipAddress
<1>. DEFINE InPage(after) ==
              /\ after = [a \in 0 .. FlashSize - 1 |-> after[a]]
              /\ \A a \in 0 .. FlashSize - 1 :
                   after[a] = memory[a] \/ (/\ a \in start .. start + PageSize - 1
                                            /\ after[a] = ProgramByte(memory[a], data[a - start + 1]))
<1>11. InPage(o.memory)
  <2>1. CASE o.memory = memory
    BY <2>1 DEF IsMemory
  <2>2. ASSUME NEW m \in 1 .. Len(command), o.memory = Execute(memory, TRUE, SubSeq(command, 1, m))
        PROVE  InPage(o.memory)
    <3>1. /\ o.memory = [a \in 0 .. FlashSize - 1 |-> o.memory[a]]
          /\ \A a \in 0 .. FlashSize - 1 :
               o.memory[a] = IF m > 4 /\ a \in start .. start + m - 5
                               THEN ProgramByte(memory[a], data[a - start + 1]) ELSE memory[a]
      BY <1>8, <2>2
    <3>. QED BY <1>0, <1>4, <1>10, <3>1
  <2>. QED BY <1>9, <2>1, <2>2
<1>12. ASSUME o.complete, NEW a \in 0 .. FlashSize - 1, a \in start .. start + PageSize - 1
       PROVE  o.memory[a] = ProgramByte(memory[a], data[a - start + 1])
  <2>1. PICK m \in 1 .. Len(command) : m = PageSize + 4
    BY <1>0, <1>4
  <2>2. SubSeq(command, 1, m) = command
    BY <1>4, <2>1
  <2>3. o.memory[a] = IF m > 4 /\ a \in start .. start + m - 5
                        THEN ProgramByte(memory[a], data[a - start + 1]) ELSE memory[a]
    <3>1. o.memory = Execute(memory, TRUE, SubSeq(command, 1, m))
      BY <1>9, <1>12, <2>2
    <3>. QED BY <1>8, <3>1
  <2>. QED BY <1>0, <1>10, <1>12, <2>1, <2>3
<1>. QED BY <1>9, <1>11, <1>12 DEF PageOutcome, IsMemory

-----------------------------------------------------------------------------
(* Sectors.                                                                *)

\* What is in an area of the memory has been erased, all of it if the commands
\* were complete and there was no error.
AreaErased(memory, from, end, o) ==
  /\ o.failed \in BOOLEAN /\ o.complete \in BOOLEAN
  /\ IsMemory(o.memory)
  /\ \A a \in 0 .. FlashSize - 1 :
       o.memory[a] = memory[a] \/ (a \in from .. end - 1 /\ o.memory[a] = Erased)
  /\ o.complete /\ ~o.failed => \A a \in from .. end - 1 : o.memory[a] = Erased

LEMMA BulkEraseFacts ==
  ASSUME NEW memory, IsMemory(memory), NEW o \in BulkErase(memory)
  PROVE  AreaErased(memory, 0, FlashSize, o)
<1>1. PICK command : command = <<"BE">>
  OBVIOUS
<1>2. command \in Seq({"BE"}) /\ Len(command) \in Nat /\ Len(command) >= 1 /\ Head(command) = "BE"
  BY <1>1
<1>3. Execute(memory, TRUE, command) = [a \in 0 .. FlashSize - 1 |-> Erased]
  <2>1. Execute(memory, TRUE, command) = [a \in DOMAIN memory |-> Erased]
    BY <1>2, ExecuteFacts, Zenon
  <2>2. DOMAIN memory = 0 .. FlashSize - 1
    BY DEF IsMemory
  <2>. QED BY <2>1, <2>2
<1>4. /\ o.failed \in BOOLEAN /\ o.complete \in BOOLEAN
      /\ o.memory = memory \/ \E m \in 1 .. Len(command) : o.memory = Execute(memory, TRUE, SubSeq(command, 1, m))
      /\ o.complete => o.memory = Execute(memory, TRUE, command)
  <2>1. command \in Seq({"BE"}) /\ o \in Outcomes(memory, command)
    BY <1>1, <1>2 DEF BulkErase
  <2>. QED BY <2>1, OutcomeFacts
<1>5. o.memory = memory \/ o.memory = Execute(memory, TRUE, command)
  <2>1. ASSUME NEW m \in 1 .. Len(command) PROVE SubSeq(command, 1, m) = command
    <3>1. Len(command) = 1
      BY <1>1
    <3>2. SubSeq(command, 1, Len(command)) = command
      BY <1>2
    <3>. QED BY <3>1, <3>2
  <2>. QED BY <1>4, <2>1
<1>6. PICK erased : erased = [a \in 0 .. FlashSize - 1 |-> Erased]
  OBVIOUS
<1>7. IsMemory(erased) /\ \A a \in 0 .. FlashSize - 1 : erased[a] = Erased
  BY <1>6 DEF IsMemory
<1>. QED BY <1>3, <1>4, <1>5, <1>6, <1>7 DEF AreaErased

LEMMA InSector ==
  ASSUME NEW m \in Nat \ {0}, NEW k \in Nat, NEW a \in Nat
  PROVE  a \div m = k <=> a \in k * m .. k * m + m - 1
<1>1. ASSUME a \in k * m .. k * m + m - 1 PROVE a \div m = k
  <2>1. PICK r \in 0 .. m - 1 : r = a - k * m
    BY <1>1
  <2>2. (k * m + r) \div m = k
    BY k \in Int, Division, Zenon
  <2>. QED BY <1>1, <2>1, <2>2
<1>2. ASSUME a \div m = k PROVE a \in k * m .. k * m + m - 1
  <2>1. PICK j \in Nat, r \in 0 .. m - 1 : a = j * m + r
    BY Divided
  <2>2. (j * m + r) \div m = j
    BY j \in Int, Division, Zenon
  <2>. QED BY <1>2, <2>1, <2>2
<1>. QED BY <1>1, <1>2

LEMMA SectorEraseFacts ==
  ASSUME NEW memory, IsMemory(memory),
         NEW k \in Nat, NEW address, address = k * SectorSize, address + SectorSize <= FlashSize,
         NEW o \in SectorErase(memory, address)
  PROVE  AreaErased(memory, address, address + SectorSize, o)
<1>. DEFINE bytes == AddressBytes(address)
            command == <<"SE">> \o bytes
            S == {"SE"} \cup Int
<1>0. SectorSize \in Nat \ {0} /\ FlashSize \in Nat \ {0} /\ AddressBase \in Nat \ {0} /\ address \in Nat
  <2>1. SectorSize \in Nat \ {0} /\ FlashSize \in Nat \ {0} /\ AddressBase \in Nat \ {0}
    BY Sizes, Zenon
  <2>. QED BY <2>1
<1>1. bytes \in Seq(S) /\ Len(bytes) = 3 /\ bytes[1] = (address \div (AddressBase * AddressBase)) % AddressBase
      /\ bytes[2] = (address \div AddressBase) % AddressBase /\ bytes[3] = address % AddressBase
  <2>1. /\ (address \div (AddressBase * AddressBase)) % AddressBase \in Int
        /\ (address \div AddressBase) % AddressBase \in Int /\ address % AddressBase \in Int
    BY <1>0
  <2>. QED BY <2>1 DEF AddressBytes
<1>2. PICK prefix : prefix = <<"SE">>
  OBVIOUS
<1>. HIDE DEF bytes, S, command
<1>3. prefix \in Seq(S) /\ bytes \in Seq(S) /\ command = prefix \o bytes
  BY <1>1, <1>2 DEF S, command
<1>4. command \in Seq(S) /\ Len(command) = 4 /\ Head(command) = "SE"
      /\ command[2] = bytes[1] /\ command[3] = bytes[2] /\ command[4] = bytes[3]
  <2>1. /\ command \in Seq(S) /\ Len(command) = Len(prefix) + Len(bytes)
        /\ \A i \in 1 .. Len(prefix) : command[i] = prefix[i]
        /\ \A i \in 1 .. Len(bytes) : command[Len(prefix) + i] = bytes[i]
    BY <1>3, Joined
  <2>2. Len(prefix) = 1 /\ prefix[1] = "SE"
    BY <1>2
  <2>3. 1 \in 1 .. 3 /\ 2 \in 1 .. 3 /\ 3 \in 1 .. 3 /\ 1 \in 1 .. 1
    OBVIOUS
  <2>4. command[1] = "SE" /\ Len(command) = 4
    BY <1>1, <2>1, <2>2, <2>3
  <2>5. Head(command) = "SE"
    BY <2>1, <2>4
  <2>. QED BY <1>1, <2>1, <2>2, <2>3, <2>4, <2>5
<1>5. /\ o.failed \in BOOLEAN /\ o.complete \in BOOLEAN
      /\ o.memory = memory \/ \E m \in 1 .. Len(command) : o.memory = Execute(memory, TRUE, SubSeq(command, 1, m))
      /\ o.complete => o.memory = Execute(memory, TRUE, command)
  <2>1. command \in Seq(S) /\ o \in Outcomes(memory, command)
    BY <1>4 DEF SectorErase, command, bytes
  <2>. QED BY <2>1, OutcomeFacts
<1>6. AddressIn(command) = address
  <2>1. address \in 0 .. FlashSize /\ address # FlashSize
    BY <1>0
  <2>. QED BY <1>1, <1>4, <2>1, AddressSent
<1>7. Execute(memory, TRUE, command) = SectorErased(memory, address)
  <2>1. Len(command) \in Nat /\ Len(command) >= 1 /\ Len(command) = 4
    BY <1>4
  <2>2. Execute(memory, TRUE, command) =
          IF Len(command) = 4 THEN SectorErased(memory, AddressIn(command)) ELSE memory
    BY <1>4, <2>1, ExecuteFacts, Zenon
  <2>. QED BY <1>6, <2>1, <2>2
<1>8. ASSUME NEW m \in 1 .. Len(command), m # Len(command)
      PROVE  Execute(memory, TRUE, SubSeq(command, 1, m)) = memory
  <2>1. PICK received : received = SubSeq(command, 1, m)
    OBVIOUS
  <2>2. Len(received) \in Nat /\ Len(received) >= 1 /\ Len(received) # 4 /\ Head(received) = "SE"
    BY <1>4, <1>8, <2>1
  <2>3. Execute(memory, TRUE, received) = memory
    BY <2>2, ExecuteFacts, Zenon
  <2>. QED BY <2>1, <2>3
<1>9. o.memory = memory \/ o.memory = SectorErased(memory, address)
  <2>1. SubSeq(command, 1, Len(command)) = command
    BY <1>4
  <2>. QED BY <1>5, <1>7, <1>8, <2>1
<1>10. ASSUME NEW a \in Nat PROVE a \div SectorSize = address \div SectorSize <=> a \in address .. address + SectorSize - 1
  <2>1. address \div SectorSize = k
    BY <1>0, k \in Int, Multiple, Zenon
  <2>2. a \div SectorSize = k <=> a \in k * SectorSize .. k * SectorSize + SectorSize - 1
    BY <1>0, InSector, Zenon
  <2>. QED BY <2>1, <2>2
<1>11. /\ SectorErased(memory, address) = [a \in 0 .. FlashSize - 1 |-> SectorErased(memory, address)[a]]
       /\ \A a \in 0 .. FlashSize - 1 :
            SectorErased(memory, address)[a] = IF a \in address .. address + SectorSize - 1 THEN Erased ELSE memory[a]
  <2>1. SectorErased(memory, address) =
          [a \in 0 .. FlashSize - 1 |-> IF a \div SectorSize = address \div SectorSize THEN Erased ELSE memory[a]]
    BY DEF SectorErased, IsMemory
  <2>2. \A a \in 0 .. FlashSize - 1 : a \in Nat
    BY <1>0
  <2>. QED BY <1>10, <2>1, <2>2, Zenon
<1>12. IsMemory(o.memory)
  BY <1>9, <1>11 DEF IsMemory
<1>13. ASSUME NEW a \in 0 .. FlashSize - 1
       PROVE  o.memory[a] = memory[a] \/ (a \in address .. address + SectorSize - 1 /\ o.memory[a] = Erased)
  BY <1>9, <1>11
<1>14. ASSUME o.complete, NEW a \in address .. address + SectorSize - 1 PROVE o.memory[a] = Erased
  <2>1. a \in 0 .. FlashSize - 1
    BY <1>0
  <2>. QED BY <1>5, <1>7, <1>11, <1>14, <2>1
<1>15. PICK end : end = address + SectorSize
  OBVIOUS
<1>16. AreaErased(memory, address, end, o)
  <2>1. \A a \in 0 .. FlashSize - 1 :
          o.memory[a] = memory[a] \/ (a \in address .. end - 1 /\ o.memory[a] = Erased)
    BY <1>0, <1>13, <1>15
  <2>2. o.complete => \A a \in address .. end - 1 : o.memory[a] = Erased
    BY <1>0, <1>14, <1>15
  <2>3. o.failed \in BOOLEAN /\ o.complete \in BOOLEAN
    BY <1>5
  <2>. QED BY <1>12, <2>1, <2>2, <2>3 DEF AreaErased
<1>. QED BY <1>15, <1>16

\* The outcome of two erases, one after the other.
BothErases(b, x) == [memory |-> x.memory, failed |-> x.failed, complete |-> b.complete /\ x.complete]

LEMMA AreasErased ==
  ASSUME NEW memory, NEW from \in Nat, NEW middle \in Nat, NEW end \in Nat, from <= middle, middle <= end, end <= FlashSize,
         NEW b, AreaErased(memory, from, middle, b)
  PROVE  /\ b.failed => AreaErased(memory, from, end, b)
         /\ \A x : ~b.failed /\ AreaErased(b.memory, middle, end, x) => AreaErased(memory, from, end, BothErases(b, x))
<1>1. ASSUME b.failed PROVE AreaErased(memory, from, end, b)
  BY <1>1 DEF AreaErased
<1>2. ASSUME NEW x, ~b.failed, AreaErased(b.memory, middle, end, x) PROVE AreaErased(memory, from, end, BothErases(b, x))
  <2>0. PICK o : /\ o = BothErases(b, x) /\ o.memory = x.memory /\ o.failed = x.failed
                 /\ o.complete = (b.complete /\ x.complete)
    <3>1. b.complete \in BOOLEAN /\ x.complete \in BOOLEAN
      BY <1>2 DEF AreaErased
    <3>2. BothErases(b, x).memory = x.memory /\ BothErases(b, x).failed = x.failed
      BY DEF BothErases
    <3>3. BothErases(b, x).complete = (b.complete /\ x.complete)
      BY Zenon DEF BothErases
    <3>. QED BY <3>2, <3>3
  <2>1. o.failed \in BOOLEAN /\ o.complete \in BOOLEAN /\ IsMemory(o.memory)
    BY <1>2, <2>0 DEF AreaErased
  <2>2. ASSUME NEW a \in 0 .. FlashSize - 1
        PROVE  o.memory[a] = memory[a] \/ (a \in from .. end - 1 /\ o.memory[a] = Erased)
    BY <1>2, <2>0, Sizes DEF AreaErased
  <2>3. ASSUME o.complete, ~o.failed, NEW a \in from .. end - 1 PROVE o.memory[a] = Erased
    <3>1. a \in 0 .. FlashSize - 1
      BY Sizes
    <3>2. a \in from .. middle - 1 \/ a \in middle .. end - 1
      OBVIOUS
    <3>3. CASE a \in middle .. end - 1
      BY <1>2, <2>0, <2>3, <3>3 DEF AreaErased
    <3>4. CASE a \in from .. middle - 1
      <4>1. b.memory[a] = Erased
        BY <1>2, <2>0, <2>3, <3>4 DEF AreaErased
      <4>2. o.memory[a] = b.memory[a] \/ o.memory[a] = Erased
        BY <1>2, <2>0, <3>1 DEF AreaErased
      <4>. QED BY <4>1, <4>2
    <3>. QED BY <3>2, <3>3, <3>4
  <2>. QED BY <2>0, <2>1, <2>2, <2>3 DEF AreaErased
<1>. QED BY <1>1, <1>2

\* The outcomes of erasing sector k, after those of the sectors before.
SectorAfter(before, k) ==
  {o \in before : o.failed}
    \cup UNION {{BothErases(o, e) : e \in SectorErase(o.memory, PrimaryStart + k * SectorSize)} :
                  o \in {b \in before : ~b.failed}}

LEMMA PrimaryEraseFacts ==
  ASSUME NEW memory, IsMemory(memory), NEW o \in PrimaryErase(memory)
  PROVE  AreaErased(memory, PrimaryStart, PrimaryEnd + SectorSize, o)
<1>. DEFINE first == {[memory |-> memory, failed |-> FALSE, complete |-> TRUE]}
            r == CHOOSE g : g = [k \in 0 .. LastSector |-> SectorAfter(IF k = 0 THEN first ELSE g[k - 1], k)]
            Exists(m) == \E g : g = [k \in 0 .. m |-> SectorAfter(IF k = 0 THEN first ELSE g[k - 1], k)]
            A == {m \in Nat : Exists(m)}
<1>1. 0 \in A
  <2>. DEFINE g == [k \in 0 .. 0 |-> SectorAfter(first, 0)]
  <2>1. g = [k \in 0 .. 0 |-> SectorAfter(IF k = 0 THEN first ELSE g[k - 1], k)]
    OBVIOUS
  <2>. HIDE DEF g
  <2>. QED BY <2>1
<1>2. ASSUME NEW m \in Nat, m \in A PROVE m + 1 \in A
  <2>1. PICK g : g = [k \in 0 .. m |-> SectorAfter(IF k = 0 THEN first ELSE g[k - 1], k)]
    BY <1>2
  <2>. DEFINE h == [k \in 0 .. m + 1 |-> IF k <= m THEN g[k] ELSE SectorAfter(g[m], m + 1)]
  <2>. HIDE DEF first
  <2>2. ASSUME NEW k \in 0 .. m + 1 PROVE h[k] = SectorAfter(IF k = 0 THEN first ELSE h[k - 1], k)
    <3>1. CASE k = 0
      BY <2>1, <3>1
    <3>2. CASE k \in 1 .. m
      BY <2>1, <3>2
    <3>3. CASE k = m + 1
      BY <3>3
    <3>. QED BY <3>1, <3>2, <3>3
  <2>3. h = [k \in 0 .. m + 1 |-> h[k]]
    OBVIOUS
  <2>. HIDE DEF h
  <2>4. h = [k \in 0 .. m + 1 |-> SectorAfter(IF k = 0 THEN first ELSE h[k - 1], k)]
    BY <2>2, <2>3
  <2>. QED BY <2>4
<1>3. PICK s \in Nat, e \in Nat : PrimaryStart = s * SectorSize /\ PrimaryEnd = e * SectorSize /\ s <= e
  <2>1. PICK s \in Nat, e \in Nat : PrimaryStart = s * SectorSize /\ PrimaryEnd = e * SectorSize
    BY Sizes
  <2>2. ASSUME s > e PROVE FALSE
    <3>1. (e + 1) * SectorSize <= s * SectorSize
      BY <2>2, Sizes, ProductGrows
    <3>. QED BY <2>1, <3>1, Sizes
  <2>. QED BY <2>1, <2>2
<1>4. LastSector = e - s /\ LastSector \in Nat
  <2>1. PrimaryEnd - PrimaryStart = (e - s) * SectorSize
    BY <1>3, Sizes
  <2>2. (PrimaryEnd - PrimaryStart) \div SectorSize = e - s
    <3>1. PICK n \in Int, difference \in Int : n = e - s /\ difference = PrimaryEnd - PrimaryStart
      BY <1>3
    <3>2. difference = n * SectorSize
      BY <2>1, <3>1
    <3>3. SectorSize \in Nat \ {0}
      BY Sizes, Zenon
    <3>4. difference \div SectorSize = n
      BY <3>1, <3>2, <3>3, Multiple, Zenon
    <3>. QED BY <3>1, <3>4
  <2>. QED BY <1>3, <2>2 DEF LastSector
<1>5. r = [k \in 0 .. LastSector |-> SectorAfter(IF k = 0 THEN first ELSE r[k - 1], k)]
  <2>1. \A m \in Nat : m \in A
    <3>. HIDE DEF A
    <3>. QED BY <1>1, <1>2, Induction
  <2>2. LastSector \in A
    BY <1>4, <2>1
  <2>. QED BY <2>2
<1>6. o \in r[LastSector]
  BY DEF PrimaryErase, SectorAfter, BothErases
<1>. HIDE DEF r, first
<1>7. /\ r[0] = SectorAfter(first, 0)
      /\ \A k \in 1 .. LastSector : r[k] = SectorAfter(r[k - 1], k)
  <2>1. 0 \in 0 .. LastSector
    BY <1>4
  <2>2. ASSUME NEW k \in 1 .. LastSector PROVE k \in 0 .. LastSector /\ k # 0
    BY <1>4
  <2>. QED BY <1>5, <2>1, <2>2
\* Up to the end of a sector.
<1>. DEFINE EndOf(k) == PrimaryStart + (k + 1) * SectorSize
            Reached(k) == \A x \in r[k] : AreaErased(memory, PrimaryStart, EndOf(k), x)
<1>8. /\ \A k \in Nat : EndOf(k) \in Nat /\ PrimaryStart <= EndOf(k) /\ EndOf(k + 1) = EndOf(k) + SectorSize
                      /\ (k <= LastSector => EndOf(k) <= FlashSize)
      /\ EndOf(LastSector) = PrimaryEnd + SectorSize
  <2>1. EndOf(LastSector) = PrimaryEnd + SectorSize
    BY <1>3, <1>4, Sizes
  <2>2. ASSUME NEW k \in Nat PROVE EndOf(k) \in Nat /\ PrimaryStart <= EndOf(k) /\ EndOf(k + 1) = EndOf(k) + SectorSize
    BY Sizes
  <2>3. ASSUME NEW k \in Nat, k <= LastSector PROVE EndOf(k) <= FlashSize
    <3>1. (k + 1) * SectorSize <= (LastSector + 1) * SectorSize
      BY <1>4, <2>3, Sizes, ProductGrows
    <3>. QED BY <1>4, <2>1, <3>1, Sizes
  <2>. QED BY <2>1, <2>2, <2>3
\* A sector is erased after what is before.
<1>9. ASSUME NEW from \in Nat, NEW k \in Nat, k <= LastSector, from = PrimaryStart + k * SectorSize,
             NEW b, ~b.failed, IsMemory(b.memory), NEW x \in SectorErase(b.memory, from)
      PROVE  AreaErased(b.memory, from, EndOf(k), x)
  <2>1. from = (s + k) * SectorSize /\ s + k \in Nat /\ EndOf(k) = from + SectorSize
    BY <1>3, <1>9, Sizes
  <2>2. from + SectorSize <= FlashSize
    BY <1>8, <1>9, <2>1
  <2>3. AreaErased(b.memory, from, from + SectorSize, x)
    BY <1>9, <2>1, <2>2, SectorEraseFacts
  <2>. QED BY <2>1, <2>3
<1>10. Reached(0)
  <2>. SUFFICES ASSUME NEW x \in SectorAfter(first, 0) PROVE AreaErased(memory, PrimaryStart, EndOf(0), x)
    BY <1>7
  <2>1. PICK b : b = [memory |-> memory, failed |-> FALSE, complete |-> TRUE]
    OBVIOUS
  <2>2. ~b.failed /\ b.memory = memory /\ b.complete = TRUE
    BY <2>1
  <2>2a. PICK erase \in SectorErase(b.memory, PrimaryStart + 0 * SectorSize) : x = BothErases(b, erase)
    <3>1. \A c \in first : c = b
      BY <2>1 DEF first
    <3>2. (x \in first /\ x.failed) \/ \E c \in first : \E erase \in SectorErase(c.memory, PrimaryStart + 0 * SectorSize) : x = BothErases(c, erase)
      BY DEF SectorAfter
    <3>. QED BY <2>2, <3>1, <3>2
  <2>3. PICK from \in Nat : from = PrimaryStart + 0 * SectorSize /\ from = PrimaryStart
    BY Sizes
  <2>4. AreaErased(b.memory, from, EndOf(0), erase)
    <3>1. IsMemory(b.memory) /\ erase \in SectorErase(b.memory, from)
      BY <2>2, <2>2a, <2>3
    <3>2. 0 \in Nat /\ 0 <= LastSector
      BY <1>4
    <3>. HIDE DEF EndOf
    <3>. QED BY <1>9, <2>2, <2>3, <3>1, <3>2
  <2>5. AreaErased(b.memory, from, from, b)
    <3>1. b.failed = FALSE /\ b.complete = TRUE
      BY <2>1
    <3>2. IsMemory(b.memory)
      BY <2>2
    <3>3. \A a \in 0 .. FlashSize - 1 :
            b.memory[a] = b.memory[a] \/ (a \in from .. from - 1 /\ b.memory[a] = Erased)
      OBVIOUS
    <3>4. \A a \in from .. from - 1 : b.memory[a] = Erased
      BY <2>3
    <3>. QED BY <3>1, <3>2, <3>3, <3>4 DEF AreaErased
  <2>6. from <= EndOf(0) /\ EndOf(0) \in Nat /\ EndOf(0) <= FlashSize
    BY <1>4, <1>8, <2>3
  <2>. HIDE DEF EndOf
  <2>7. AreaErased(b.memory, from, EndOf(0), BothErases(b, erase))
    BY <2>2, <2>4, <2>5, <2>6, AreasErased
  <2>. QED BY <2>2, <2>2a, <2>3, <2>7
<1>11. ASSUME NEW k \in Nat, k + 1 <= LastSector, Reached(k) PROVE Reached(k + 1)
  <2>. SUFFICES ASSUME NEW x \in SectorAfter(r[k], k + 1) PROVE AreaErased(memory, PrimaryStart, EndOf(k + 1), x)
    BY <1>4, <1>7, <1>11
  <2>1. PICK b \in r[k] : \/ b.failed /\ x = b
                          \/ ~b.failed /\ \E erase \in SectorErase(b.memory, PrimaryStart + (k + 1) * SectorSize) :
                                            x = BothErases(b, erase)
    BY DEF SectorAfter
  <2>2. AreaErased(memory, PrimaryStart, EndOf(k), b)
    BY <1>11, <2>1
  <2>3. /\ EndOf(k) \in Nat /\ EndOf(k + 1) \in Nat /\ PrimaryStart \in Nat
        /\ PrimaryStart <= EndOf(k) /\ EndOf(k) <= EndOf(k + 1) /\ EndOf(k + 1) <= FlashSize
    <3>1. PrimaryStart \in Nat /\ SectorSize \in Nat
      BY Sizes, Zenon
    <3>2. k + 1 \in Nat
      OBVIOUS
    <3>. HIDE DEF EndOf
    <3>3. EndOf(k) \in Nat /\ PrimaryStart <= EndOf(k) /\ EndOf(k + 1) = EndOf(k) + SectorSize
      BY <1>8
    <3>4. EndOf(k + 1) \in Nat /\ EndOf(k + 1) <= FlashSize
      BY <1>8, <1>11, <3>2
    <3>. QED BY <3>1, <3>3, <3>4
  <2>4. CASE b.failed /\ x = b
    <3>. HIDE DEF EndOf
    <3>. QED BY <2>2, <2>3, <2>4, AreasErased
  <2>5. ASSUME ~b.failed, NEW erase \in SectorErase(b.memory, PrimaryStart + (k + 1) * SectorSize), x = BothErases(b, erase)
        PROVE  AreaErased(memory, PrimaryStart, EndOf(k + 1), x)
    <3>1. IsMemory(b.memory)
      BY <2>2 DEF AreaErased
    <3>2. AreaErased(b.memory, EndOf(k), EndOf(k + 1), erase)
      <4>1. PICK from \in Nat : from = EndOf(k) /\ from = PrimaryStart + (k + 1) * SectorSize
        BY <2>3
      <4>2. erase \in SectorErase(b.memory, from) /\ k + 1 \in Nat
        BY <2>5, <4>1
      <4>. HIDE DEF EndOf
      <4>. QED BY <1>9, <1>11, <2>5, <3>1, <4>1, <4>2
    <3>. HIDE DEF EndOf
    <3>3. AreaErased(memory, PrimaryStart, EndOf(k + 1), BothErases(b, erase))
      BY <2>2, <2>3, <2>5, <3>2, AreasErased
    <3>. QED BY <2>5, <3>3
  <2>. QED BY <2>1, <2>4, <2>5
<1>. DEFINE B == {k \in Nat : k <= LastSector => Reached(k)}
<1>12. 0 \in B
  BY <1>10
<1>13. ASSUME NEW k \in Nat, k \in B PROVE k + 1 \in B
  <2>. HIDE DEF Reached
  <2>. QED BY <1>4, <1>11, <1>13
<1>14. Reached(LastSector)
  <2>1. \A k \in Nat : k \in B
    <3>. HIDE DEF B
    <3>. QED BY <1>12, <1>13, Induction
  <2>2. LastSector \in B
    BY <1>4, <2>1
  <2>. HIDE DEF Reached
  <2>. QED BY <1>4, <2>2
<1>. QED BY <1>6, <1>8, <1>14

-----------------------------------------------------------------------------
(* Chains, and what is done with the pins.                                 *)

ChainFields ==
  {"tap", "tms", "driven", "fpga", "xcf", "pieces", "enabled", "address", "data",
   "unlocked", "pending", "out", "fpgairlen", "memory"}

IsChain(c) == c = [f \in ChainFields |-> c[f]]

\* The chain d is c, but for some fields.
Changes(c, d, fields) == IsChain(d) /\ \A f \in ChainFields \ fields : d[f] = c[f]

\* A number of clocks is one clock after the other until nothing changes any more.
LEMMA ClockedFacts ==
  ASSUME NEW c, NEW n \in Nat
  PROVE  \E r : /\ r[0] = c /\ \A k \in 1 .. Steady : r[k] = Clock(r[k - 1])
                /\ Clocked(c, n) =
                     IF ~c.driven THEN c
                     ELSE IF c.tap = "RTI" /\ ~c.tms /\ n > 1
                       THEN RunTest(r[IF n < Steady THEN n ELSE Steady])
                       ELSE r[IF n < Steady THEN n ELSE Steady]
<1>. DEFINE r == CHOOSE g : g = [k \in 0 .. Steady |-> IF k = 0 THEN c ELSE Clock(g[k - 1])]
            g0 == [k \in 0 .. 5 |-> IF k = 0 THEN c
                               ELSE IF k = 1 THEN Clock(c)
                               ELSE IF k = 2 THEN Clock(Clock(c))
                               ELSE IF k = 3 THEN Clock(Clock(Clock(c)))
                               ELSE IF k = 4 THEN Clock(Clock(Clock(Clock(c))))
                               ELSE Clock(Clock(Clock(Clock(Clock(c)))))]
<1>1. g0 = [k \in 0 .. Steady |-> IF k = 0 THEN c ELSE Clock(g0[k - 1])]
  <2>1. Steady = 5
    BY DEF Steady
  <2>2. ASSUME NEW k \in 0 .. 5 PROVE g0[k] = IF k = 0 THEN c ELSE Clock(g0[k - 1])
    <3>1. k \in {0, 1, 2, 3, 4, 5}
      OBVIOUS
    <3>. QED BY <3>1
  <2>. HIDE DEF g0
  <2>3. g0 = [k \in 0 .. 5 |-> g0[k]]
    BY DEF g0
  <2>. QED BY <2>1, <2>2, <2>3
<1>2. r = [k \in 0 .. Steady |-> IF k = 0 THEN c ELSE Clock(r[k - 1])]
  <2>. HIDE DEF g0
  <2>. QED BY <1>1
<1>3. Clocked(c, n) =
        IF ~c.driven THEN c
        ELSE IF c.tap = "RTI" /\ ~c.tms /\ n > 1
          THEN RunTest(r[IF n < Steady THEN n ELSE Steady])
          ELSE r[IF n < Steady THEN n ELSE Steady]
  BY DEF Clocked
<1>. HIDE DEF r
<1>4. r[0] = c /\ \A k \in 1 .. Steady : r[k] = Clock(r[k - 1])
  BY <1>2 DEF Steady
<1>. QED BY <1>3, <1>4

\* The chain d is what c becomes by the steps.
Runs(c, steps, d) ==
  \E r : /\ r[0] = c /\ r[Len(steps)] = d
         /\ \A i \in 1 .. Len(steps) : r[i] = Set(r[i - 1], steps[i])

\* A command does its steps one after the other.
LEMMA DoRuns ==
  ASSUME NEW c, NEW command, Len(Steps(c.fpgairlen, command)) \in Nat
  PROVE  Runs(c, Steps(c.fpgairlen, command), Do(c, command))
<1>. DEFINE steps == Steps(c.fpgairlen, command)
            r == CHOOSE g : g = [i \in 0 .. Len(steps) |-> IF i = 0 THEN c ELSE Set(g[i - 1], steps[i])]
            Exists(m) == \E g : g = [i \in 0 .. m |-> IF i = 0 THEN c ELSE Set(g[i - 1], steps[i])]
            A == {m \in Nat : Exists(m)}
<1>1. 0 \in A
  <2>1. [i \in 0 .. 0 |-> c] = [i \in 0 .. 0 |-> IF i = 0 THEN c ELSE Set([k \in 0 .. 0 |-> c][i - 1], steps[i])]
    OBVIOUS
  <2>. QED BY <2>1
<1>2. ASSUME NEW m \in Nat, m \in A PROVE m + 1 \in A
  <2>1. PICK g : g = [i \in 0 .. m |-> IF i = 0 THEN c ELSE Set(g[i - 1], steps[i])]
    BY <1>2
  <2>. DEFINE h == [i \in 0 .. m + 1 |-> IF i <= m THEN g[i] ELSE Set(g[m], steps[m + 1])]
  <2>2. ASSUME NEW i \in 0 .. m + 1 PROVE h[i] = IF i = 0 THEN c ELSE Set(h[i - 1], steps[i])
    <3>1. CASE i = 0
      BY <2>1, <3>1
    <3>2. CASE i \in 1 .. m
      BY <2>1, <3>2
    <3>3. CASE i = m + 1
      BY <3>3
    <3>. QED BY <3>1, <3>2, <3>3
  <2>3. h = [i \in 0 .. m + 1 |-> h[i]]
    OBVIOUS
  <2>. HIDE DEF h
  <2>4. h = [i \in 0 .. m + 1 |-> IF i = 0 THEN c ELSE Set(h[i - 1], steps[i])]
    BY <2>2, <2>3
  <2>. QED BY <2>4
<1>3. Len(steps) \in Nat
  OBVIOUS
<1>4. Exists(Len(steps))
  <2>1. \A m \in Nat : m \in A
    <3>. HIDE DEF A
    <3>. QED BY <1>1, <1>2, Induction
  <2>2. Len(steps) \in A
    BY <1>3, <2>1
  <2>. QED BY <2>2
<1>5. r = [i \in 0 .. Len(steps) |-> IF i = 0 THEN c ELSE Set(r[i - 1], steps[i])]
  BY <1>4
<1>6. Do(c, command) = r[Len(steps)]
  BY DEF Do
<1>. HIDE DEF r, steps
<1>7. r[0] = c /\ \A i \in 1 .. Len(steps) : r[i] = Set(r[i - 1], steps[i])
  BY <1>3, <1>5
<1>. QED BY <1>6, <1>7 DEF Runs, steps

\* A sequence of steps can be cut in two.
LEMMA RunsJoined ==
  ASSUME NEW c, NEW d, NEW S, NEW s \in Seq(S), NEW t \in Seq(S), Runs(c, s \o t, d)
  PROVE  \E m : Runs(c, s, m) /\ Runs(m, t, d)
<1>1. PICK r : /\ r[0] = c /\ r[Len(s \o t)] = d
               /\ \A i \in 1 .. Len(s \o t) : r[i] = Set(r[i - 1], (s \o t)[i])
  BY DEF Runs
<1>2. /\ Len(s) \in Nat /\ Len(t) \in Nat /\ Len(s \o t) = Len(s) + Len(t)
      /\ \A i \in 1 .. Len(s) : (s \o t)[i] = s[i]
      /\ \A i \in 1 .. Len(t) : (s \o t)[Len(s) + i] = t[i]
  BY ConcatProperties, LenProperties
<1>3. Runs(c, s, r[Len(s)])
  BY <1>1, <1>2 DEF Runs
<1>4. Runs(r[Len(s)], t, d)
  <2>. DEFINE q == [i \in 0 .. Len(t) |-> r[Len(s) + i]]
  <2>1. q[0] = r[Len(s)] /\ q[Len(t)] = d
    BY <1>1, <1>2
  <2>2. ASSUME NEW i \in 1 .. Len(t) PROVE q[i] = Set(q[i - 1], t[i])
    <3>1. Len(s) + i \in 1 .. Len(s \o t) /\ (Len(s) + i) - 1 = Len(s) + (i - 1)
      BY <1>2
    <3>2. r[Len(s) + i] = Set(r[Len(s) + (i - 1)], t[i])
      BY <1>1, <1>2, <3>1
    <3>. QED BY <1>2, <3>2
  <2>. HIDE DEF q
  <2>. QED BY <2>1, <2>2 DEF Runs
<1>. QED BY <1>3, <1>4

\* Up to three steps, written out.
LEMMA RunsThrough ==
  ASSUME NEW c, NEW d
  PROVE  /\ \A a : Runs(c, <<a>>, d) => d = Set(c, a)
         /\ \A a, b : Runs(c, <<a, b>>, d) => d = Set(Set(c, a), b)
         /\ \A a, b, x : Runs(c, <<a, b, x>>, d) => d = Set(Set(Set(c, a), b), x)
<1>1. ASSUME NEW a, Runs(c, <<a>>, d) PROVE d = Set(c, a)
  BY <1>1 DEF Runs
<1>2. ASSUME NEW a, NEW b, Runs(c, <<a, b>>, d) PROVE d = Set(Set(c, a), b)
  BY <1>2 DEF Runs
<1>3. ASSUME NEW a, NEW b, NEW x, Runs(c, <<a, b, x>>, d) PROVE d = Set(Set(Set(c, a), b), x)
  BY <1>3 DEF Runs
<1>. QED BY <1>1, <1>2, <1>3
DoAll(chains, command) == {Do(c, command) : c \in chains}

\* What commands make of chains, with the chains between them.
LEMMA AfterRuns ==
  ASSUME NEW chains, NEW commands, Len(commands) \in Nat, NEW d \in After(chains, commands)
  PROVE  \E r : /\ r[0] \in chains /\ r[Len(commands)] = d
                /\ \A i \in 1 .. Len(commands) : r[i] = Do(r[i - 1], commands[i])
<1>. DEFINE after == CHOOSE g : g = [i \in 0 .. Len(commands) |->
                                       IF i = 0 THEN chains ELSE DoAll(g[i - 1], commands[i])]
            Exists(m) == \E g : g = [i \in 0 .. m |->
                                       IF i = 0 THEN chains ELSE DoAll(g[i - 1], commands[i])]
            A == {m \in Nat : Exists(m)}
<1>1. 0 \in A
  <2>. DEFINE g == [i \in 0 .. 0 |-> chains]
  <2>1. g = [i \in 0 .. 0 |-> IF i = 0 THEN chains ELSE DoAll(g[i - 1], commands[i])]
    OBVIOUS
  <2>. HIDE DEF g
  <2>. QED BY <2>1
<1>2. ASSUME NEW m \in Nat, m \in A PROVE m + 1 \in A
  <2>1. PICK g : g = [i \in 0 .. m |-> IF i = 0 THEN chains ELSE DoAll(g[i - 1], commands[i])]
    BY <1>2
  <2>. DEFINE h == [i \in 0 .. m + 1 |-> IF i <= m THEN g[i] ELSE DoAll(g[m], commands[m + 1])]
  <2>2. ASSUME NEW i \in 0 .. m + 1
        PROVE  h[i] = IF i = 0 THEN chains ELSE DoAll(h[i - 1], commands[i])
    <3>1. CASE i = 0
      BY <2>1, <3>1
    <3>2. CASE i \in 1 .. m
      BY <2>1, <3>2
    <3>3. CASE i = m + 1
      BY <3>3
    <3>. QED BY <3>1, <3>2, <3>3
  <2>3. h = [i \in 0 .. m + 1 |-> h[i]]
    OBVIOUS
  <2>. HIDE DEF h
  <2>4. h = [i \in 0 .. m + 1 |-> IF i = 0 THEN chains ELSE DoAll(h[i - 1], commands[i])]
    BY <2>2, <2>3
  <2>. QED BY <2>4
<1>3. Exists(Len(commands))
  <2>1. \A m \in Nat : m \in A
    <3>. HIDE DEF A
    <3>. QED BY <1>1, <1>2, Induction
  <2>2. Len(commands) \in A
    BY <2>1
  <2>. QED BY <2>2
<1>4. after = [i \in 0 .. Len(commands) |-> IF i = 0 THEN chains ELSE DoAll(after[i - 1], commands[i])]
  BY <1>3
<1>5. After(chains, commands) = after[Len(commands)]
  BY DEF After, DoAll
<1>. HIDE DEF after
<1>6. after[0] = chains /\ \A i \in 1 .. Len(commands) : after[i] = DoAll(after[i - 1], commands[i])
  BY <1>4
<1>. DEFINE Reached(m) == \A x \in after[m] : \E r : /\ r[0] \in chains /\ r[m] = x
                                                  /\ \A i \in 1 .. m : r[i] = Do(r[i - 1], commands[i])
            B == {m \in Nat : m <= Len(commands) => Reached(m)}
<1>7. 0 \in B
  <2>1. ASSUME NEW x \in after[0]
        PROVE  \E r : /\ r[0] \in chains /\ r[0] = x
                      /\ \A i \in 1 .. 0 : r[i] = Do(r[i - 1], commands[i])
    <3>. DEFINE r == [i \in 0 .. 0 |-> x]
    <3>1. r[0] \in chains /\ r[0] = x
      BY <1>6, <2>1
    <3>2. \A i \in 1 .. 0 : r[i] = Do(r[i - 1], commands[i])
      OBVIOUS
    <3>. HIDE DEF r
    <3>. QED BY <3>1, <3>2
  <2>. QED BY <2>1
<1>8. ASSUME NEW m \in Nat, m \in B PROVE m + 1 \in B
  <2>. SUFFICES ASSUME m + 1 <= Len(commands), NEW x \in after[m + 1]
                PROVE  \E r : /\ r[0] \in chains /\ r[m + 1] = x
                              /\ \A i \in 1 .. m + 1 : r[i] = Do(r[i - 1], commands[i])
    OBVIOUS
  <2>1. PICK c \in after[m] : x = Do(c, commands[m + 1])
    BY <1>6 DEF DoAll
  <2>2. PICK q : /\ q[0] \in chains /\ q[m] = c
                 /\ \A i \in 1 .. m : q[i] = Do(q[i - 1], commands[i])
    BY <1>8, <2>1
  <2>. DEFINE r == [i \in 0 .. m + 1 |-> IF i <= m THEN q[i] ELSE x]
  <2>3. r[0] \in chains /\ r[m + 1] = x
    BY <2>2
  <2>4. ASSUME NEW i \in 1 .. m + 1 PROVE r[i] = Do(r[i - 1], commands[i])
    <3>1. CASE i \in 1 .. m
      BY <2>2, <3>1
    <3>2. CASE i = m + 1
      BY <2>1, <2>2, <3>2
    <3>. QED BY <3>1, <3>2
  <2>. HIDE DEF r
  <2>. QED BY <2>3, <2>4
<1>9. Reached(Len(commands))
  <2>1. \A m \in Nat : m \in B
    <3>. HIDE DEF B
    <3>. QED BY <1>7, <1>8, Induction
  <2>2. Len(commands) \in B
    BY <2>1
  <2>. QED BY <2>2
<1>. QED BY <1>5, <1>9

-----------------------------------------------------------------------------
(* Single steps.                                                           *)

\* What each kind of step changes.
LEMMA SetFacts ==
  ASSUME NEW c, IsChain(c)
  PROVE  /\ \A level : /\ Changes(c, Set(c, Tms(level)), {"tms"})
                       /\ Set(c, Tms(level)).tms = level
         /\ \A n : Set(c, Pulse(n)) = Clocked(c, n)
         /\ c.tap \in {"ShiftIR", "ShiftDR"} =>
              \A length, value :
                /\ Changes(c, Set(c, Shift(length, value)), {"pieces"})
                /\ Set(c, Shift(length, value)).pieces = Append(c.pieces, [length |-> length, value |-> value])
<1>1. ASSUME NEW level
      PROVE  Changes(c, Set(c, Tms(level)), {"tms"}) /\ Set(c, Tms(level)).tms = level
  <2>1. Set(c, Tms(level)) = [c EXCEPT !.tms = level]
    BY DEF Set, Tms
  <2>. QED BY <2>1 DEF Changes, IsChain, ChainFields
<1>2. ASSUME NEW n PROVE Set(c, Pulse(n)) = Clocked(c, n)
  BY DEF Set, Pulse
<1>3. ASSUME c.tap \in {"ShiftIR", "ShiftDR"}, NEW length, NEW value
      PROVE  /\ Changes(c, Set(c, Shift(length, value)), {"pieces"})
             /\ Set(c, Shift(length, value)).pieces = Append(c.pieces, [length |-> length, value |-> value])
  <2>1. Set(c, Shift(length, value)) = [c EXCEPT !.pieces = Append(c.pieces, [length |-> length, value |-> value])]
    BY <1>3 DEF Set, Shift, Shifted
  <2>. QED BY <2>1 DEF Changes, IsChain, ChainFields
<1>. QED BY <1>1, <1>2, <1>3

\* A clock that only moves the controllers on.
LEMMA ClockPlain ==
  ASSUME NEW c, IsChain(c), NEW tap, tap = (IF c.tms THEN OnOne[c.tap] ELSE OnZero[c.tap]),
         tap \notin {"TLR", "CaptureIR", "CaptureDR", "UpdateIR", "UpdateDR"}
  PROVE  Changes(c, Clock(c), {"tap"}) /\ Clock(c).tap = tap
<1>1. Clock(c) = [c EXCEPT !.tap = tap]
  BY DEF Clock, IsChain, ChainFields
<1>. QED BY <1>1 DEF Changes, IsChain, ChainFields

\* One or two clocks are just that; data is shifted without moving on.
LEMMA PulseFacts ==
  ASSUME NEW c, IsChain(c), c.driven
  PROVE  /\ Clocked(c, 0) = c
         /\ Clocked(c, 1) = Clock(c)
         /\ ~(c.tap = "RTI" /\ ~c.tms) => Clocked(c, 2) = Clock(Clock(c))
         /\ c.tap \in {"ShiftIR", "ShiftDR"} /\ ~c.tms => \A n \in Nat : Clocked(c, n) = c
<1>1. Clocked(c, 0) = c
  BY ClockedFacts DEF Steady
<1>2. Clocked(c, 1) = Clock(c)
  <2>1. PICK r : /\ r[0] = c /\ \A k \in 1 .. Steady : r[k] = Clock(r[k - 1])
                /\ Clocked(c, 1) =
                     IF ~c.driven THEN c
                     ELSE IF c.tap = "RTI" /\ ~c.tms /\ 1 > 1
                       THEN RunTest(r[IF 1 < Steady THEN 1 ELSE Steady])
                       ELSE r[IF 1 < Steady THEN 1 ELSE Steady]
    BY ClockedFacts
  <2>. QED BY <2>1 DEF Steady
<1>3. ASSUME ~(c.tap = "RTI" /\ ~c.tms) PROVE Clocked(c, 2) = Clock(Clock(c))
  <2>1. PICK r : /\ r[0] = c /\ \A k \in 1 .. Steady : r[k] = Clock(r[k - 1])
                /\ Clocked(c, 2) =
                     IF ~c.driven THEN c
                     ELSE IF c.tap = "RTI" /\ ~c.tms /\ 2 > 1
                       THEN RunTest(r[IF 2 < Steady THEN 2 ELSE Steady])
                       ELSE r[IF 2 < Steady THEN 2 ELSE Steady]
    BY ClockedFacts
  <2>2. r[1] = Clock(c) /\ r[2] = Clock(r[1])
    BY <2>1 DEF Steady
  <2>. QED BY <1>3, <2>1, <2>2 DEF Steady
<1>4. ASSUME c.tap \in {"ShiftIR", "ShiftDR"}, ~c.tms, NEW n \in Nat PROVE Clocked(c, n) = c
  <2>1. Clock(c) = c
    <3>1. [c EXCEPT !.tap = c.tap] = c
      BY DEF IsChain
    <3>2. OnZero[c.tap] = c.tap
      BY <1>4 DEF OnZero
    <3>. QED BY <1>4, <3>1, <3>2 DEF Clock
  <2>2. PICK r : /\ r[0] = c /\ \A k \in 1 .. Steady : r[k] = Clock(r[k - 1])
                /\ Clocked(c, n) =
                     IF ~c.driven THEN c
                     ELSE IF c.tap = "RTI" /\ ~c.tms /\ n > 1
                       THEN RunTest(r[IF n < Steady THEN n ELSE Steady])
                       ELSE r[IF n < Steady THEN n ELSE Steady]
    BY ClockedFacts
  <2>3. r[0] = c /\ r[1] = c /\ r[2] = c /\ r[3] = c /\ r[4] = c /\ r[5] = c
    BY <2>1, <2>2 DEF Steady
  <2>4. (IF n < Steady THEN n ELSE Steady) \in {0, 1, 2, 3, 4, 5}
    BY DEF Steady
  <2>. QED BY <1>4, <2>2, <2>3, <2>4
<1>. QED BY <1>1, <1>2, <1>3, <1>4
-----------------------------------------------------------------------------
(* Sequences of steps.                                                     *)

Moved(c, d) == Changes(c, d, {"tap", "tms", "pieces"})

\* Moving the controllers on leaves the memory's registers alone.
LEMMA MovedFacts ==
  ASSUME NEW c, NEW d
  PROVE  /\ \A e : Moved(c, d) /\ Moved(d, e) => Moved(c, e)
         /\ \A fields \in SUBSET {"tap", "tms", "pieces"} : Changes(c, d, fields) => Moved(c, d)
         /\ IsChain(c) => Moved(c, c)
         /\ Moved(c, d) => /\ IsChain(d) /\ d.driven = c.driven /\ d.fpgairlen = c.fpgairlen
                           /\ d.fpga = c.fpga /\ d.xcf = c.xcf /\ d.enabled = c.enabled /\ d.pending = c.pending
BY DEF Moved, Changes, ChainFields

\* The controllers wait where a command may begin.
Rests(c) == IsChain(c) /\ c.driven /\ c.tap \in {"RTI", "TLR"}

\* The controllers have moved from c0 to a state, with these pieces shifted in.
At(c0, c, tap, pieces) ==
  Moved(c0, c) /\ IsChain(c) /\ c.driven /\ c.tap = tap /\ c.pieces = pieces

High(c) == c.tms = TRUE
Low(c) == c.tms = FALSE

Plain == {"RTI", "SelectDR", "ShiftDR", "Exit1DR", "PauseDR", "Exit2DR",
          "SelectIR", "ShiftIR", "Exit1IR", "PauseIR", "Exit2IR"}

TmsLow == Tms(FALSE)
TmsHigh == Tms(TRUE)

\* Where the controllers are after TMS has been set.
LEMMA AtTms ==
  ASSUME NEW c0, NEW c, NEW d, NEW tap, NEW pieces, At(c0, c, tap, pieces)
  PROVE  /\ d = Set(c, TmsHigh) => At(c0, d, tap, pieces) /\ High(d)
         /\ d = Set(c, TmsLow) => At(c0, d, tap, pieces) /\ Low(d)
<1>1. ASSUME NEW level, d = Set(c, Tms(level)) PROVE At(c0, d, tap, pieces) /\ d.tms = level
  <2>1. Changes(c, d, {"tms"}) /\ d.tms = level
    BY <1>1, SetFacts DEF At
  <2>2. d.tap = c.tap /\ d.pieces = c.pieces
    BY <2>1 DEF Changes, ChainFields
  <2>. QED BY <2>1, <2>2, MovedFacts DEF At
<1>. QED BY <1>1 DEF High, Low, TmsHigh, TmsLow

\* The next state of the controllers, but for the states that do something.
LEMMA AtClock ==
  ASSUME NEW c0, NEW c, NEW tap, NEW pieces, NEW next \in Plain, At(c0, c, tap, pieces)
  PROVE  /\ High(c) /\ next = OnOne[tap] => At(c0, Clock(c), next, pieces) /\ High(Clock(c))
         /\ Low(c) /\ next = OnZero[tap] => At(c0, Clock(c), next, pieces) /\ Low(Clock(c))
<1>1. ASSUME next = (IF c.tms THEN OnOne[tap] ELSE OnZero[tap])
      PROVE  At(c0, Clock(c), next, pieces) /\ Clock(c).tms = c.tms
  <2>1. Changes(c, Clock(c), {"tap"}) /\ Clock(c).tap = next
    BY <1>1, ClockPlain DEF At, Plain
  <2>2. Clock(c).tms = c.tms /\ Clock(c).pieces = c.pieces
    BY <2>1 DEF Changes, ChainFields
  <2>. QED BY <2>1, <2>2, MovedFacts DEF At
<1>. QED BY <1>1 DEF High, Low

LEMMA AtPulse ==
  ASSUME NEW c0, NEW c, NEW d, NEW tap, NEW pieces, NEW next \in Plain,
         At(c0, c, tap, pieces), d = Set(c, Pulse(1))
  PROVE  /\ High(c) /\ next = OnOne[tap] => At(c0, d, next, pieces) /\ High(d)
         /\ Low(c) /\ next = OnZero[tap] => At(c0, d, next, pieces) /\ Low(d)
<1>1. d = Clock(c)
  BY SetFacts, PulseFacts DEF At
<1>. QED BY <1>1, AtClock

\* Two clocks without running the memory.
LEMMA AtTwoClocks ==
  ASSUME NEW c0, NEW c, NEW d, NEW tap, NEW pieces, At(c0, c, tap, pieces), d = Set(c, Pulse(2))
  PROVE  High(c) \/ tap # "RTI" => d = Clock(Clock(c))
BY SetFacts, PulseFacts DEF At, High

\* What is shifted in is put behind what has been.
LEMMA AtShift ==
  ASSUME NEW c0, NEW c, NEW d, NEW tap \in {"ShiftIR", "ShiftDR"}, NEW pieces, NEW length, NEW value,
         At(c0, c, tap, pieces), Low(c), d = Set(c, Shift(length, value))
  PROVE  At(c0, d, tap, Append(pieces, [length |-> length, value |-> value])) /\ Low(d)
<1>1. Changes(c, d, {"pieces"}) /\ d.pieces = Append(pieces, [length |-> length, value |-> value])
  BY SetFacts DEF At
<1>2. d.tap = c.tap /\ d.tms = c.tms
  BY <1>1 DEF Changes, ChainFields
<1>. QED BY <1>1, <1>2, MovedFacts DEF At, Low

LEMMA AtPulses ==
  ASSUME NEW c0, NEW c, NEW d, NEW tap \in {"ShiftIR", "ShiftDR"}, NEW pieces, NEW n \in Nat,
         At(c0, c, tap, pieces), Low(c), d = Set(c, Pulse(n))
  PROVE  At(c0, d, tap, pieces) /\ Low(d)
<1>1. d = c
  BY SetFacts, PulseFacts DEF At, Low
<1>. QED BY <1>1

\* From a place where a command may begin, TMS high leads to the selection.
LEMMA AtSelected ==
  ASSUME NEW c, Rests(c), NEW c1, NEW c2, NEW c3,
         c1 = Set(c, TmsLow), c2 = Set(c1, Pulse(1)), c3 = Set(c2, TmsHigh)
  PROVE  At(c, c3, "RTI", c.pieces) /\ High(c3)
<1>1. At(c, c, c.tap, c.pieces) /\ OnZero[c.tap] = "RTI" /\ "RTI" \in Plain
  BY MovedFacts DEF At, Rests, OnZero, Plain
<1>2. At(c, c1, c.tap, c.pieces) /\ Low(c1)
  BY <1>1, AtTms
<1>3. At(c, c2, "RTI", c.pieces)
  BY <1>1, <1>2, AtPulse
<1>. QED BY <1>3, AtTms

LEMMA SixSteps ==
  ASSUME NEW c, NEW d, NEW s1, NEW s2, NEW s3, NEW s4, NEW s5, NEW s6, Runs(c, <<s1, s2, s3, s4, s5, s6>>, d)
  PROVE  \E c1, c2, c3, c4, c5 :
           /\ c1 = Set(c, s1) /\ c2 = Set(c1, s2) /\ c3 = Set(c2, s3)
           /\ c4 = Set(c3, s4) /\ c5 = Set(c4, s5) /\ d = Set(c5, s6)
<1>1. PICK r : /\ r[0] = c /\ r[6] = d
               /\ \A i \in 1 .. 6 : r[i] = Set(r[i - 1], <<s1, s2, s3, s4, s5, s6>>[i])
  BY DEF Runs
<1>2. /\ r[1] = Set(c, s1) /\ r[2] = Set(r[1], s2) /\ r[3] = Set(r[2], s3)
      /\ r[4] = Set(r[3], s4) /\ r[5] = Set(r[4], s5) /\ d = Set(r[5], s6)
  BY <1>1
<1>. QED BY <1>2

\* The pins that take the controllers to an instruction or to data.
LEMMA SelectSteps ==
  ASSUME NEW c, NEW d
  PROVE  /\ Runs(c, TlrToSir, d) =>
              \E c1, c2, c3, c4, c5 :
                /\ c1 = Set(c, TmsLow) /\ c2 = Set(c1, Pulse(1)) /\ c3 = Set(c2, TmsHigh)
                /\ c4 = Set(c3, Pulse(2)) /\ c5 = Set(c4, TmsLow) /\ d = Set(c5, Pulse(2))
         /\ Runs(c, TlrToSdr, d) =>
              \E c1, c2, c3, c4, c5 :
                /\ c1 = Set(c, TmsLow) /\ c2 = Set(c1, Pulse(1)) /\ c3 = Set(c2, TmsHigh)
                /\ c4 = Set(c3, Pulse(1)) /\ c5 = Set(c4, TmsLow) /\ d = Set(c5, Pulse(2))
<1>1. /\ TlrToSir = <<TmsLow, Pulse(1), TmsHigh, Pulse(2), TmsLow, Pulse(2)>>
      /\ TlrToSdr = <<TmsLow, Pulse(1), TmsHigh, Pulse(1), TmsLow, Pulse(2)>>
  BY DEF TlrToSir, TlrToSdr, TmsLow, TmsHigh
<1>. QED BY <1>1, SixSteps

\* Capturing clears what has been shifted.
LEMMA ClockCapture ==
  ASSUME NEW c, IsChain(c), Low(c)
  PROVE  /\ c.tap = "SelectIR" =>
              /\ Changes(c, Clock(c), {"tap", "pieces"})
              /\ Clock(c).tap = "CaptureIR" /\ Clock(c).pieces = <<>> /\ Low(Clock(c))
         /\ c.tap = "SelectDR" =>
              /\ Changes(c, Clock(c), {"tap", "pieces", "out"})
              /\ Clock(c).tap = "CaptureDR" /\ Clock(c).pieces = <<>> /\ Low(Clock(c))
              /\ Clock(c).out = Capture(c)
<1>1. ASSUME c.tap = "SelectIR"
      PROVE  /\ Changes(c, Clock(c), {"tap", "pieces"})
             /\ Clock(c).tap = "CaptureIR" /\ Clock(c).pieces = <<>> /\ Low(Clock(c))
  <2>1. (IF c.tms THEN OnOne[c.tap] ELSE OnZero[c.tap]) = "CaptureIR"
    BY <1>1 DEF Low, OnZero
  <2>2. Clock(c) = [[c EXCEPT !.tap = "CaptureIR"] EXCEPT !.pieces = <<>>]
    BY <2>1 DEF Clock, IsChain, ChainFields
  <2>. QED BY <2>2 DEF Changes, IsChain, ChainFields, Low
<1>2. ASSUME c.tap = "SelectDR"
      PROVE  /\ Changes(c, Clock(c), {"tap", "pieces", "out"})
             /\ Clock(c).tap = "CaptureDR" /\ Clock(c).pieces = <<>> /\ Low(Clock(c))
             /\ Clock(c).out = Capture(c)
  <2>1. (IF c.tms THEN OnOne[c.tap] ELSE OnZero[c.tap]) = "CaptureDR"
    BY <1>2 DEF Low, OnZero
  <2>2. Clock(c) = [[c EXCEPT !.tap = "CaptureDR"] EXCEPT !.pieces = <<>>, !.out = Capture(c)]
    BY <2>1 DEF Clock, IsChain, ChainFields
  <2>. QED BY <2>2 DEF Changes, IsChain, ChainFields, Low
<1>. QED BY <1>1, <1>2

\* The steps before an instruction.
LEMMA ToSir ==
  ASSUME NEW c, Rests(c), NEW d, Runs(c, TlrToSir, d)
  PROVE  At(c, d, "ShiftIR", <<>>) /\ Low(d)
<1>1. PICK c1, c2, c3, c4, c5 :
        /\ c1 = Set(c, TmsLow) /\ c2 = Set(c1, Pulse(1)) /\ c3 = Set(c2, TmsHigh)
        /\ c4 = Set(c3, Pulse(2)) /\ c5 = Set(c4, TmsLow) /\ d = Set(c5, Pulse(2))
  BY SelectSteps
<1>2. At(c, c3, "RTI", c.pieces) /\ High(c3)
  BY <1>1, AtSelected
<1>3. At(c, c4, "SelectIR", c.pieces)
  <2>1. c4 = Clock(Clock(c3))
    BY <1>1, <1>2, AtTwoClocks
  <2>2. At(c, Clock(c3), "SelectDR", c.pieces) /\ High(Clock(c3))
    BY <1>2, AtClock DEF Plain, OnOne
  <2>. QED BY <2>1, <2>2, AtClock DEF Plain, OnOne
<1>4. At(c, c5, "SelectIR", c.pieces) /\ Low(c5)
  BY <1>1, <1>3, AtTms
<1>5. d = Clock(Clock(c5))
  BY <1>1, <1>4, "SelectIR" # "RTI", AtTwoClocks
<1>6. At(c, Clock(c5), "CaptureIR", <<>>) /\ Low(Clock(c5))
  <2>1. Changes(c5, Clock(c5), {"tap", "pieces"})
        /\ Clock(c5).tap = "CaptureIR" /\ Clock(c5).pieces = <<>> /\ Low(Clock(c5))
    BY <1>4, ClockCapture DEF At
  <2>2. Moved(c5, Clock(c5))
    BY <2>1, MovedFacts
  <2>. QED BY <1>4, <2>1, <2>2, MovedFacts DEF At
<1>. QED BY <1>5, <1>6, AtClock DEF Plain, OnZero

\* What a chain has after capturing data.
Captured(c) == [c EXCEPT !.out = Capture(c)]

\* Data is captured on the way to its register.
LEMMA ToShiftDr ==
  ASSUME NEW b, IsChain(b), NEW c, NEW pieces, At(b, c, "SelectDR", pieces), Low(c), NEW d, d = Set(c, Pulse(2))
  PROVE  At(Captured(b), d, "ShiftDR", <<>>) /\ Low(d)
<1>1. d = Clock(Clock(c))
  BY "SelectDR" # "RTI", AtTwoClocks
<1>2. Capture(c) = Capture(b)
  BY DEF At, Moved, Changes, ChainFields, Capture
<1>3. At(Captured(b), Clock(c), "CaptureDR", <<>>) /\ Low(Clock(c))
  <2>1. /\ Changes(c, Clock(c), {"tap", "pieces", "out"})
        /\ Clock(c).tap = "CaptureDR" /\ Clock(c).pieces = <<>> /\ Low(Clock(c))
        /\ Clock(c).out = Capture(b)
    BY <1>2, ClockCapture DEF At
  <2>2. Captured(b).out = Capture(b) /\ \A f \in ChainFields \ {"out"} : Captured(b)[f] = b[f]
    BY DEF Captured, IsChain, ChainFields
  <2>3. Moved(Captured(b), Clock(c))
    BY <2>1, <2>2 DEF At, Moved, Changes, ChainFields
  <2>4. IsChain(Clock(c)) /\ Clock(c).driven
    BY <2>1 DEF At, Changes, ChainFields
  <2>. QED BY <2>1, <2>3, <2>4 DEF At
<1>. QED BY <1>1, <1>3, AtClock DEF Plain, OnZero

\* The steps before data.
LEMMA ToSdr ==
  ASSUME NEW c, Rests(c), NEW d, Runs(c, TlrToSdr, d)
  PROVE  At(Captured(c), d, "ShiftDR", <<>>) /\ Low(d)
<1>1. PICK c1, c2, c3, c4, c5 :
        /\ c1 = Set(c, TmsLow) /\ c2 = Set(c1, Pulse(1)) /\ c3 = Set(c2, TmsHigh)
        /\ c4 = Set(c3, Pulse(1)) /\ c5 = Set(c4, TmsLow) /\ d = Set(c5, Pulse(2))
  BY SelectSteps
<1>2. At(c, c3, "RTI", c.pieces) /\ High(c3)
  BY <1>1, AtSelected
<1>3. At(c, c4, "SelectDR", c.pieces)
  BY <1>1, <1>2, AtPulse DEF Plain, OnOne
<1>4. At(c, c5, "SelectDR", c.pieces) /\ Low(c5)
  BY <1>1, <1>3, AtTms
<1>. QED BY <1>1, <1>4, ToShiftDr DEF Rests

LEMMA FewSteps ==
  ASSUME NEW c, NEW d
  PROVE  /\ \A s1, s2 : Runs(c, <<s1, s2>>, d) => \E c1 : c1 = Set(c, s1) /\ d = Set(c1, s2)
         /\ \A s1, s2, s3 : Runs(c, <<s1, s2, s3>>, d) =>
              \E c1, c2 : c1 = Set(c, s1) /\ c2 = Set(c1, s2) /\ d = Set(c2, s3)
<1>1. ASSUME NEW s1, NEW s2, Runs(c, <<s1, s2>>, d) PROVE \E c1 : c1 = Set(c, s1) /\ d = Set(c1, s2)
  <2>1. PICK r : r[0] = c /\ r[2] = d /\ \A i \in 1 .. 2 : r[i] = Set(r[i - 1], <<s1, s2>>[i])
    BY <1>1 DEF Runs
  <2>2. r[1] = Set(c, s1) /\ d = Set(r[1], s2)
    BY <2>1
  <2>. QED BY <2>2
<1>2. ASSUME NEW s1, NEW s2, NEW s3, Runs(c, <<s1, s2, s3>>, d)
      PROVE  \E c1, c2 : c1 = Set(c, s1) /\ c2 = Set(c1, s2) /\ d = Set(c2, s3)
  <2>1. PICK r : r[0] = c /\ r[3] = d /\ \A i \in 1 .. 3 : r[i] = Set(r[i - 1], <<s1, s2, s3>>[i])
    BY <1>2 DEF Runs
  <2>2. r[1] = Set(c, s1) /\ r[2] = Set(r[1], s2) /\ d = Set(r[2], s3)
    BY <2>1
  <2>. QED BY <2>2
<1>. QED BY <1>1, <1>2

Piece(length, value) == [length |-> length, value |-> value]
Shifting(length, value) == Sdi(length, value, FALSE)
ShiftingLast(length, value) == Sdi(length, value, TRUE)

LEMMA SdiSteps ==
  ASSUME NEW c, NEW d, NEW length, NEW value
  PROVE  /\ Runs(c, Shifting(length, value), d) =>
              \E c1 : c1 = Set(c, Shift(length, value)) /\ d = Set(c1, Pulse(length))
         /\ Runs(c, ShiftingLast(length, value), d) =>
              \E c1, c2, c3 :
                /\ c1 = Set(c, Shift(length, value)) /\ c2 = Set(c1, Pulse(length - 1))
                /\ c3 = Set(c2, TmsHigh) /\ d = Set(c3, Pulse(1))
<1>1. ASSUME NEW a, NEW x, NEW y, NEW z
      PROVE  \E S : <<a>> \in Seq(S) /\ <<x>> \in Seq(S) /\ <<x, y, z>> \in Seq(S)
  <2>. WITNESS {a, x, y, z}
  <2>1. a \in {a, x, y, z} /\ x \in {a, x, y, z} /\ y \in {a, x, y, z} /\ z \in {a, x, y, z}
    OBVIOUS
  <2>. QED BY <2>1
<1>2. ASSUME NEW a, NEW x, NEW y, NEW z, Runs(c, <<a>> \o <<x, y, z>>, d)
      PROVE  \E c1, c2, c3 : c1 = Set(c, a) /\ c2 = Set(c1, x) /\ c3 = Set(c2, y) /\ d = Set(c3, z)
  <2>1. PICK m : Runs(c, <<a>>, m) /\ Runs(m, <<x, y, z>>, d)
    <3>1. PICK S : <<a>> \in Seq(S) /\ <<x, y, z>> \in Seq(S)
      BY <1>1
    <3>. QED BY <1>2, <3>1, RunsJoined
  <2>2. PICK c2, c3 : c2 = Set(m, x) /\ c3 = Set(c2, y) /\ d = Set(c3, z)
    BY <2>1, FewSteps
  <2>3. m = Set(c, a)
    BY <2>1, RunsThrough
  <2>. QED BY <2>2, <2>3
<1>3. ASSUME NEW a, NEW x, Runs(c, <<a>> \o <<x>>, d)
      PROVE  \E c1 : c1 = Set(c, a) /\ d = Set(c1, x)
  <2>1. PICK m : Runs(c, <<a>>, m) /\ Runs(m, <<x>>, d)
    <3>1. PICK S : <<a>> \in Seq(S) /\ <<x>> \in Seq(S)
      BY <1>1
    <3>. QED BY <1>3, <3>1, RunsJoined
  <2>. QED BY <2>1, RunsThrough
<1>4. Shifting(length, value) = <<Shift(length, value)>> \o <<Pulse(length)>>
  BY DEF Shifting, Sdi
<1>5. ShiftingLast(length, value) = <<Shift(length, value)>> \o <<Pulse(length - 1), TmsHigh, Pulse(1)>>
  BY DEF ShiftingLast, Sdi, TmsHigh
<1>6. ASSUME Runs(c, Shifting(length, value), d)
      PROVE  \E c1 : c1 = Set(c, Shift(length, value)) /\ d = Set(c1, Pulse(length))
  <2>1. Runs(c, <<Shift(length, value)>> \o <<Pulse(length)>>, d)
    BY <1>4, <1>6
  <2>. QED BY <1>3, <2>1
<1>7. ASSUME Runs(c, ShiftingLast(length, value), d)
      PROVE  \E c1, c2, c3 :
                /\ c1 = Set(c, Shift(length, value)) /\ c2 = Set(c1, Pulse(length - 1))
                /\ c3 = Set(c2, TmsHigh) /\ d = Set(c3, Pulse(1))
  <2>1. Runs(c, <<Shift(length, value)>> \o <<Pulse(length - 1), TmsHigh, Pulse(1)>>, d)
    BY <1>5, <1>7
  <2>. QED BY <1>2, <2>1
<1>. QED BY <1>6, <1>7

\* A piece is shifted in, and the controllers stay.
LEMMA AtSdi ==
  ASSUME NEW b, NEW c, NEW d, NEW tap \in {"ShiftIR", "ShiftDR"}, NEW pieces, NEW length \in Nat, NEW value,
         At(b, c, tap, pieces), Low(c), Runs(c, Shifting(length, value), d)
  PROVE  At(b, d, tap, Append(pieces, Piece(length, value))) /\ Low(d)
<1>1. PICK c1 : c1 = Set(c, Shift(length, value)) /\ d = Set(c1, Pulse(length))
  BY SdiSteps
<1>2. At(b, c1, tap, Append(pieces, Piece(length, value))) /\ Low(c1)
  BY <1>1, AtShift DEF Piece
<1>. QED BY <1>1, <1>2, AtPulses

\* With the last bit of the last piece the controllers leave.
LEMMA AtSdiLast ==
  ASSUME NEW b, NEW c, NEW d, NEW tap \in {"ShiftIR", "ShiftDR"}, NEW pieces, NEW length \in Nat \ {0}, NEW value,
         At(b, c, tap, pieces), Low(c), Runs(c, ShiftingLast(length, value), d)
  PROVE  At(b, d, IF tap = "ShiftIR" THEN "Exit1IR" ELSE "Exit1DR", Append(pieces, Piece(length, value))) /\ High(d)
<1>1. PICK c1, c2, c3 :
        /\ c1 = Set(c, Shift(length, value)) /\ c2 = Set(c1, Pulse(length - 1))
        /\ c3 = Set(c2, TmsHigh) /\ d = Set(c3, Pulse(1))
  BY SdiSteps
<1>2. At(b, c1, tap, Append(pieces, Piece(length, value))) /\ Low(c1)
  BY <1>1, AtShift DEF Piece
<1>3. At(b, c2, tap, Append(pieces, Piece(length, value)))
  <2>1. length - 1 \in Nat
    OBVIOUS
  <2>. QED BY <1>1, <1>2, <2>1, AtPulses
<1>4. At(b, c3, tap, Append(pieces, Piece(length, value))) /\ High(c3)
  BY <1>1, <1>3, AtTms
<1>5. CASE tap = "ShiftIR"
  BY <1>1, <1>4, <1>5, AtPulse DEF Plain, OnOne
<1>6. CASE tap = "ShiftDR"
  BY <1>1, <1>4, <1>6, AtPulse DEF Plain, OnOne
<1>. QED BY <1>5, <1>6

\* What a chain becomes by an instruction, and by data that was shifted through
\* the bypassed FPGA.
Instructed(c, value) == [c EXCEPT !.fpga = "BYPASS", !.xcf = value, !.pending = TRUE]

Configuration == {"XSC_DATA_BTC", "XSC_DATA_SUCR", "XSC_DATA_CCB", "XSC_DATA_DONE"}

Received(c, value) ==
  CASE c.xcf = "ISC_ENABLE" -> [c EXCEPT !.enabled = value]
    [] c.xcf = "XSC_UNLOCK" -> [c EXCEPT !.unlocked = TRUE]
    [] c.xcf = "ISC_ADDRESS_SHIFT" -> [c EXCEPT !.address = value]
    [] c.xcf = "ISC_DATA_SHIFT" -> [c EXCEPT !.data = value]
    [] c.xcf \in Configuration -> [c EXCEPT !.data = <<>>]
    [] OTHER -> c

\* The chain d is c, but for the value of one field.
Becomes(c, d, f, v) == IsChain(d) /\ d[f] = v /\ \A g \in ChainFields : g # f => d[g] = c[g]

\* Each instruction has its own register for the data.
LEMMA ReceivedFacts ==
  ASSUME NEW c, IsChain(c), NEW value, NEW d, d = Received(c, value)
  PROVE  /\ c.xcf = "ISC_ENABLE" => Becomes(c, d, "enabled", value)
         /\ c.xcf = "XSC_UNLOCK" => Becomes(c, d, "unlocked", TRUE)
         /\ c.xcf = "ISC_ADDRESS_SHIFT" => Becomes(c, d, "address", value)
         /\ c.xcf = "ISC_DATA_SHIFT" => Becomes(c, d, "data", value)
         /\ c.xcf \in Configuration => Becomes(c, d, "data", <<>>)
         /\ c.xcf \notin {"ISC_ENABLE", "XSC_UNLOCK", "ISC_ADDRESS_SHIFT", "ISC_DATA_SHIFT"} \cup Configuration => d = c
<1>1. CASE c.xcf = "ISC_ENABLE"
  <2>1. d = [c EXCEPT !.enabled = value]
    BY <1>1 DEF Received, Configuration
  <2>. QED BY <1>1, <2>1 DEF Becomes, IsChain, ChainFields, Configuration
<1>2. CASE c.xcf = "XSC_UNLOCK"
  <2>1. d = [c EXCEPT !.unlocked = TRUE]
    BY <1>2 DEF Received, Configuration
  <2>. QED BY <1>2, <2>1 DEF Becomes, IsChain, ChainFields, Configuration
<1>3. CASE c.xcf = "ISC_ADDRESS_SHIFT"
  <2>1. d = [c EXCEPT !.address = value]
    BY <1>3 DEF Received, Configuration
  <2>. QED BY <1>3, <2>1 DEF Becomes, IsChain, ChainFields, Configuration
<1>4. CASE c.xcf = "ISC_DATA_SHIFT"
  <2>1. d = [c EXCEPT !.data = value]
    BY <1>4 DEF Received, Configuration
  <2>. QED BY <1>4, <2>1 DEF Becomes, IsChain, ChainFields, Configuration
<1>5. CASE c.xcf \in Configuration
  <2>1. c.xcf # "ISC_ENABLE" /\ c.xcf # "XSC_UNLOCK" /\ c.xcf # "ISC_ADDRESS_SHIFT" /\ c.xcf # "ISC_DATA_SHIFT"
    BY <1>5 DEF Configuration
  <2>2. d = [c EXCEPT !.data = <<>>]
    BY <1>5, <2>1 DEF Received
  <2>3. Becomes(c, d, "data", <<>>)
    BY <2>2 DEF Becomes, IsChain, ChainFields
  <2>. QED BY <1>5, <2>1, <2>3
<1>6. CASE c.xcf \notin {"ISC_ENABLE", "XSC_UNLOCK", "ISC_ADDRESS_SHIFT", "ISC_DATA_SHIFT"} \cup Configuration
  BY <1>6 DEF Received
<1>. QED BY <1>1, <1>2, <1>3, <1>4, <1>5, <1>6

\* An instruction has been shifted in behind the ones for the FPGA.
LEMMA AtUpdateIr ==
  ASSUME NEW b, IsChain(b), NEW c, NEW value, At(b, c, "Exit1IR", <<Piece(FpgaIrLen, "BYPASS"), Piece(XcfIrLen, value)>>),
         High(c)
  PROVE  /\ At(Instructed(b, value), Clock(c), "UpdateIR", <<Piece(FpgaIrLen, "BYPASS"), Piece(XcfIrLen, value)>>)
         /\ High(Clock(c))
<1>1. (IF c.tms THEN OnOne[c.tap] ELSE OnZero[c.tap]) = "UpdateIR"
  BY DEF At, High, OnOne
<1>2. PICK next : next = [c EXCEPT !.tap = "UpdateIR"]
  OBVIOUS
<1>3. Clock(c) = UpdateIr(next)
  BY <1>1, <1>2 DEF Clock, At, IsChain, ChainFields
<1>4. Changes(c, next, {"tap"}) /\ next.tap = "UpdateIR"
  BY <1>2 DEF At, Changes, IsChain, ChainFields
<1>5. /\ Fits(next.pieces, FpgaIrLen, XcfIrLen)
      /\ next.pieces[1].value = "BYPASS" /\ next.pieces[2].value = value
  BY <1>4 DEF At, Changes, ChainFields, Fits, Piece
<1>6. Clock(c) = [next EXCEPT !.fpga = "BYPASS", !.xcf = value, !.pending = TRUE]
  BY <1>3, <1>5 DEF UpdateIr
<1>7. /\ IsChain(Clock(c)) /\ Clock(c).fpga = "BYPASS" /\ Clock(c).xcf = value /\ Clock(c).pending = TRUE
      /\ Clock(c).tap = "UpdateIR"
      /\ \A f \in ChainFields \ {"fpga", "xcf", "pending", "tap"} : Clock(c)[f] = c[f]
  BY <1>4, <1>6 DEF Changes, IsChain, ChainFields
<1>8. /\ Instructed(b, value).fpga = "BYPASS" /\ Instructed(b, value).xcf = value /\ Instructed(b, value).pending = TRUE
      /\ \A f \in ChainFields \ {"fpga", "xcf", "pending"} : Instructed(b, value)[f] = b[f]
  BY DEF Instructed, IsChain, ChainFields
<1>9. Moved(Instructed(b, value), Clock(c))
  <2>1. \A f \in ChainFields \ {"tap", "tms", "pieces"} : c[f] = b[f]
    BY DEF At, Moved, Changes
  <2>2. \A f \in ChainFields \ {"tap", "tms", "pieces", "fpga", "xcf", "pending"} :
          Clock(c)[f] = Instructed(b, value)[f]
    BY <1>7, <1>8, <2>1
  <2>3. \A f \in {"fpga", "xcf", "pending"} : Clock(c)[f] = Instructed(b, value)[f]
    BY <1>7, <1>8
  <2>4. \A f \in ChainFields \ {"tap", "tms", "pieces"} : Clock(c)[f] = Instructed(b, value)[f]
    BY <2>2, <2>3
  <2>. QED BY <1>7, <2>4 DEF Moved, Changes
<1>10. Clock(c).driven = c.driven /\ Clock(c).pieces = c.pieces /\ Clock(c).tms = c.tms
  BY <1>7 DEF ChainFields
<1>11. c.driven /\ c.pieces = <<Piece(FpgaIrLen, "BYPASS"), Piece(XcfIrLen, value)>>
  BY DEF At
<1>12. High(Clock(c))
  BY <1>10 DEF High
<1>. QED BY <1>7, <1>9, <1>10, <1>11, <1>12 DEF At

\* Data has been shifted in behind the bit for the FPGA.
LEMMA AtUpdateDr ==
  ASSUME NEW b, IsChain(b), NEW c, NEW length, NEW value, At(b, c, "Exit1DR", <<Piece(1, 0), Piece(length, value)>>),
         High(c), b.fpga = "BYPASS"
  PROVE  /\ At(Received(b, value), Clock(c), "UpdateDR", <<Piece(1, 0), Piece(length, value)>>)
         /\ High(Clock(c))
<1>1. (IF c.tms THEN OnOne[c.tap] ELSE OnZero[c.tap]) = "UpdateDR"
  BY DEF At, High, OnOne
<1>2. PICK next : next = [c EXCEPT !.tap = "UpdateDR"]
  OBVIOUS
<1>3. Clock(c) = UpdateDr(next)
  BY <1>1, <1>2 DEF Clock, At, IsChain, ChainFields
<1>4. Changes(c, next, {"tap"}) /\ next.tap = "UpdateDR"
  BY <1>2 DEF At, Changes, IsChain, ChainFields
<1>5. /\ next.fpga = "BYPASS" /\ Len(next.pieces) = 2 /\ next.pieces[1].length = 1 /\ next.pieces[2].value = value
  BY <1>4 DEF At, Moved, Changes, ChainFields, Piece
<1>6. Clock(c) = Received(next, value)
  BY <1>3, <1>5 DEF UpdateDr, Received, Configuration
<1>7. next.xcf = b.xcf /\ Moved(b, next) /\ IsChain(next)
  BY <1>4 DEF At, Moved, Changes, ChainFields
<1>8. Moved(Received(b, value), Clock(c)) /\ IsChain(Clock(c)) /\ Changes(next, Clock(c), {"enabled", "unlocked", "address", "data"})
  <2>1. ASSUME NEW f \in {"enabled", "unlocked", "address", "data"}, NEW v,
               Becomes(b, Received(b, value), f, v), Becomes(next, Received(next, value), f, v)
        PROVE  Moved(Received(b, value), Clock(c)) /\ IsChain(Clock(c))
               /\ Changes(next, Clock(c), {"enabled", "unlocked", "address", "data"})
    <3>1. f \in ChainFields /\ f \notin {"tap", "tms", "pieces"}
      BY DEF ChainFields
    <3>. QED BY <1>6, <1>7, <2>1, <3>1 DEF Moved, Changes, Becomes
  <2>2. CASE b.xcf = "ISC_ENABLE"
    <3>1. Becomes(b, Received(b, value), "enabled", value)
      BY <2>2, ReceivedFacts
    <3>2. Becomes(next, Received(next, value), "enabled", value)
      BY <1>7, <2>2, ReceivedFacts
    <3>. QED BY <2>1, <3>1, <3>2
  <2>3. CASE b.xcf = "XSC_UNLOCK"
    <3>1. Becomes(b, Received(b, value), "unlocked", TRUE)
      BY <2>3, ReceivedFacts
    <3>2. Becomes(next, Received(next, value), "unlocked", TRUE)
      BY <1>7, <2>3, ReceivedFacts
    <3>. QED BY <2>1, <3>1, <3>2
  <2>4. CASE b.xcf = "ISC_ADDRESS_SHIFT"
    <3>1. Becomes(b, Received(b, value), "address", value)
      BY <2>4, ReceivedFacts
    <3>2. Becomes(next, Received(next, value), "address", value)
      BY <1>7, <2>4, ReceivedFacts
    <3>. QED BY <2>1, <3>1, <3>2
  <2>5. CASE b.xcf = "ISC_DATA_SHIFT"
    <3>1. Becomes(b, Received(b, value), "data", value)
      BY <2>5, ReceivedFacts
    <3>2. Becomes(next, Received(next, value), "data", value)
      BY <1>7, <2>5, ReceivedFacts
    <3>. QED BY <2>1, <3>1, <3>2
  <2>6. CASE b.xcf \in Configuration
    <3>1. Becomes(b, Received(b, value), "data", <<>>)
      BY <2>6, ReceivedFacts
    <3>2. Becomes(next, Received(next, value), "data", <<>>)
      BY <1>7, <2>6, ReceivedFacts
    <3>. QED BY <2>1, <3>1, <3>2
  <2>7. CASE b.xcf \notin {"ISC_ENABLE", "XSC_UNLOCK", "ISC_ADDRESS_SHIFT", "ISC_DATA_SHIFT"} \cup Configuration
    <3>1. Received(b, value) = b /\ Received(next, value) = next
      BY <1>7, <2>7, ReceivedFacts
    <3>2. Clock(c) = next
      BY <1>6, <3>1
    <3>3. Changes(next, next, {"enabled", "unlocked", "address", "data"})
      BY <1>7 DEF Changes
    <3>. QED BY <1>7, <3>1, <3>2, <3>3
  <2>. QED BY <2>2, <2>3, <2>4, <2>5, <2>6, <2>7
<1>9. Clock(c).driven /\ Clock(c).tap = "UpdateDR" /\ Clock(c).pieces = c.pieces /\ Clock(c).tms = c.tms
  BY <1>4, <1>8 DEF Changes, ChainFields, At
<1>. QED BY <1>8, <1>9 DEF At, High

-----------------------------------------------------------------------------
(* Sequences of steps that are joined.                                     *)

IsSteps(s) == \E S : s \in Seq(S)

LEMMA StepsJoined ==
  ASSUME NEW s, NEW t, IsSteps(s), IsSteps(t)
  PROVE  /\ IsSteps(s \o t)
         /\ \A c, d : Runs(c, s \o t, d) => \E m : Runs(c, s, m) /\ Runs(m, t, d)
<1>1. PICK S : s \in Seq(S) /\ t \in Seq(S)
  <2>1. PICK A, B : s \in Seq(A) /\ t \in Seq(B)
    BY DEF IsSteps
  <2>2. s \in Seq(A \cup B) /\ t \in Seq(A \cup B)
    BY <2>1
  <2>. QED BY <2>2
<1>2. s \o t \in Seq(S)
  BY <1>1
<1>. QED BY <1>1, <1>2, RunsJoined DEF IsSteps

LEMMA StepsTyped ==
  /\ IsSteps(TlrToSir) /\ IsSteps(TlrToSdr) /\ IsSteps(Ex1ToSdr) /\ IsSteps(Ex1ToRti) /\ IsSteps(<<>>)
  /\ \A length, value : IsSteps(Shifting(length, value)) /\ IsSteps(ShiftingLast(length, value))
<1>1. ASSUME NEW a, NEW b, NEW x, NEW y, NEW z, NEW u
      PROVE  IsSteps(<<a>>) /\ IsSteps(<<a, b>>) /\ IsSteps(<<a, b, x>>) /\ IsSteps(<<a, b, x, y, z, u>>)
  <2>. DEFINE S == {a, b, x, y, z, u}
  <2>1. a \in S /\ b \in S /\ x \in S /\ y \in S /\ z \in S /\ u \in S
    OBVIOUS
  <2>. HIDE DEF S
  <2>2. <<a>> \in Seq(S) /\ <<a, b>> \in Seq(S) /\ <<a, b, x>> \in Seq(S) /\ <<a, b, x, y, z, u>> \in Seq(S)
    BY <2>1
  <2>. QED BY <2>2 DEF IsSteps
<1>2. IsSteps(TlrToSir) /\ IsSteps(TlrToSdr) /\ IsSteps(Ex1ToSdr) /\ IsSteps(Ex1ToRti)
  BY <1>1 DEF TlrToSir, TlrToSdr, Ex1ToSdr, Ex1ToRti
<1>3. IsSteps(<<>>)
  <2>1. <<>> \in Seq({})
    OBVIOUS
  <2>. QED BY <2>1 DEF IsSteps
<1>4. ASSUME NEW length, NEW value PROVE IsSteps(Shifting(length, value)) /\ IsSteps(ShiftingLast(length, value))
  BY <1>1, StepsJoined DEF Shifting, ShiftingLast, Sdi
<1>. QED BY <1>2, <1>3, <1>4

LEMMA NoSteps ==
  ASSUME NEW c, NEW d, Runs(c, <<>>, d)
  PROVE  d = c
BY DEF Runs

LEMMA NothingJoined ==
  ASSUME NEW s, IsSteps(s)
  PROVE  s \o <<>> = s
BY DEF IsSteps

-----------------------------------------------------------------------------
(* The ends of commands.                                                   *)

\* From an exit state to Run-Test/Idle.
LEMMA EndSteps ==
  ASSUME NEW c, NEW d, Runs(c, Ex1ToRti, d)
  PROVE  \E c1, c2 : c1 = Set(c, Pulse(1)) /\ c2 = Set(c1, TmsLow) /\ d = Set(c2, Pulse(1))
<1>1. Ex1ToRti = <<Pulse(1), TmsLow, Pulse(1)>>
  BY DEF Ex1ToRti, TmsLow
<1>2. Runs(c, <<Pulse(1), TmsLow, Pulse(1)>>, d)
  BY <1>1
<1>. QED BY <1>2, FewSteps

\* An instruction ends in Run-Test/Idle.
LEMMA EndSir ==
  ASSUME NEW b, IsChain(b), NEW c, NEW d, NEW value,
         At(b, c, "Exit1IR", <<Piece(FpgaIrLen, "BYPASS"), Piece(XcfIrLen, value)>>), High(c), Runs(c, Ex1ToRti, d)
  PROVE  At(Instructed(b, value), d, "RTI", <<Piece(FpgaIrLen, "BYPASS"), Piece(XcfIrLen, value)>>) /\ Low(d)
<1>. DEFINE pieces == <<Piece(FpgaIrLen, "BYPASS"), Piece(XcfIrLen, value)>>
<1>1. PICK c1, c2 : c1 = Set(c, Pulse(1)) /\ c2 = Set(c1, TmsLow) /\ d = Set(c2, Pulse(1))
  BY EndSteps
<1>2. c1 = Clock(c)
  BY <1>1, SetFacts, PulseFacts DEF At
<1>3. At(Instructed(b, value), c1, "UpdateIR", pieces)
  BY <1>2, AtUpdateIr
<1>. HIDE DEF pieces
<1>4. At(Instructed(b, value), c2, "UpdateIR", pieces) /\ Low(c2)
  BY <1>1, <1>3, AtTms
<1>5. At(Instructed(b, value), d, "RTI", pieces) /\ Low(d)
  BY <1>1, <1>4, AtPulse DEF Plain, OnZero
<1>. QED BY <1>5 DEF pieces

\* The data that end a command reach a register, or they have no bit for the
\* FPGA.
LEMMA EndSdr ==
  ASSUME NEW b, IsChain(b), NEW c, NEW d, NEW pieces, NEW e,
         At(b, c, "Exit1DR", pieces), High(c), Runs(c, Ex1ToRti, d),
         At(e, Clock(c), "UpdateDR", pieces)
  PROVE  At(e, d, "RTI", pieces) /\ Low(d)
<1>1. PICK c1, c2 : c1 = Set(c, Pulse(1)) /\ c2 = Set(c1, TmsLow) /\ d = Set(c2, Pulse(1))
  BY EndSteps
<1>2. c1 = Clock(c)
  BY <1>1, SetFacts, PulseFacts DEF At
<1>3. At(e, c1, "UpdateDR", pieces)
  BY <1>2
<1>4. At(e, c2, "UpdateDR", pieces) /\ Low(c2)
  BY <1>1, <1>3, AtTms
<1>. QED BY <1>1, <1>4, AtPulse DEF Plain, OnZero

LEMMA AtUpdateDrAlone ==
  ASSUME NEW b, NEW c, NEW piece, At(b, c, "Exit1DR", <<piece>>), High(c)
  PROVE  At(b, Clock(c), "UpdateDR", <<piece>>)
<1>1. (IF c.tms THEN OnOne[c.tap] ELSE OnZero[c.tap]) = "UpdateDR"
  BY DEF At, High, OnOne
<1>2. PICK next : next = [c EXCEPT !.tap = "UpdateDR"]
  OBVIOUS
<1>3. Clock(c) = UpdateDr(next)
  BY <1>1, <1>2 DEF Clock, At, IsChain, ChainFields
<1>4. Changes(c, next, {"tap"}) /\ next.tap = "UpdateDR"
  BY <1>2 DEF At, Changes, IsChain, ChainFields
<1>5. next.pieces = <<piece>>
  BY <1>4 DEF At, Changes, ChainFields
<1>6. Clock(c) = next
  BY <1>3, <1>5 DEF UpdateDr
<1>7. Moved(b, next)
  BY <1>4, MovedFacts DEF At
<1>. QED BY <1>4, <1>5, <1>6, <1>7 DEF At, Changes, ChainFields

-----------------------------------------------------------------------------
(* Commands.                                                               *)

\* The controllers wait where a command may run the memory; but for them and
\* what was shifted the chain is b.
Waits(b, d) == Moved(b, d) /\ Rests(d) /\ d.tap = "RTI" /\ Low(d)

LEMMA AtWaits ==
  ASSUME NEW b, NEW d, NEW pieces, At(b, d, "RTI", pieces), Low(d)
  PROVE  Waits(b, d)
BY DEF At, Waits, Rests

LEMMA PinLengths ==
  /\ FpgaIrLen \in Nat \ {0} /\ XcfIrLen \in Nat \ {0} /\ BlockSize \in Nat \ {0}
  /\ FpgaIrLen \in Nat
BY JtagAssumption

LEMMA Appended ==
  ASSUME NEW x, NEW y
  PROVE  Append(<<>>, x) = <<x>> /\ Append(<<x>>, y) = <<x, y>>
<1>1. x \in {x, y} /\ y \in {x, y} /\ <<x>> \in Seq({x, y}) /\ <<x, y>> \in Seq({x, y}) /\ Len(<<x>>) = 1
  OBVIOUS
<1>2. PICK u : u = Append(<<x>>, y)
  OBVIOUS
<1>3. u \in Seq({x, y}) /\ Len(u) = 2 /\ u[1] = x /\ u[2] = y
  BY <1>1, <1>2, AppendProperties
<1>4. u = <<x, y>>
  <2>1. \A i \in 1 .. 2 : u[i] = <<x, y>>[i]
    BY <1>3
  <2>2. Len(<<x, y>>) = 2
    OBVIOUS
  <2>. QED BY <1>1, <1>3, <2>1, <2>2, SeqEqual
<1>5. Append(<<>>, x) = <<x>>
  OBVIOUS
<1>. QED BY <1>2, <1>4, <1>5

\* An instruction as a whole: the FPGA is bypassed, the memory has got the instruction.
LEMMA SirDone ==
  ASSUME NEW c, Rests(c), c.fpgairlen = FpgaIrLen, NEW value, NEW d, d = Do(c, Instruction(value))
  PROVE  Waits(Instructed(c, value), d)
<1>. DEFINE steps == TlrToSir \o Shifting(FpgaIrLen, "BYPASS") \o ShiftingLast(XcfIrLen, value) \o Ex1ToRti
<1>1. Steps(c.fpgairlen, Instruction(value)) = steps
  <2>1. Steps(c.fpgairlen, Instruction(value)) = Sir(FpgaIrLen, XcfIrLen, value, 0, TRUE)
    BY DEF Steps, Instruction
  <2>2. IsSteps(TlrToSir \o Shifting(FpgaIrLen, "BYPASS") \o ShiftingLast(XcfIrLen, value))
    BY StepsTyped, StepsJoined
  <2>3. Sir(FpgaIrLen, XcfIrLen, value, 0, TRUE) =
          TlrToSir \o Shifting(FpgaIrLen, "BYPASS") \o ShiftingLast(XcfIrLen, value) \o <<>> \o Ex1ToRti
    <3>1. FpgaIrLen > 0 /\ ~(0 > 0)
      BY PinLengths
    <3>. QED BY <3>1 DEF Sir, Shifting, ShiftingLast
  <2>. QED BY <2>1, <2>2, <2>3, NothingJoined
<1>2. Runs(c, steps, d)
  <2>1. IsSteps(steps)
    BY StepsTyped, StepsJoined
  <2>2. Len(steps) \in Nat
    BY <2>1 DEF IsSteps
  <2>. HIDE DEF steps
  <2>. QED BY <1>1, <2>2, DoRuns
<1>3. PICK c1, c2, c3 : /\ Runs(c, TlrToSir, c1) /\ Runs(c1, Shifting(FpgaIrLen, "BYPASS"), c2)
                        /\ Runs(c2, ShiftingLast(XcfIrLen, value), c3) /\ Runs(c3, Ex1ToRti, d)
  <2>1. /\ IsSteps(TlrToSir) /\ IsSteps(Shifting(FpgaIrLen, "BYPASS")) /\ IsSteps(ShiftingLast(XcfIrLen, value))
        /\ IsSteps(Ex1ToRti)
    BY StepsTyped
  <2>2. /\ IsSteps(TlrToSir \o Shifting(FpgaIrLen, "BYPASS"))
        /\ IsSteps(TlrToSir \o Shifting(FpgaIrLen, "BYPASS") \o ShiftingLast(XcfIrLen, value))
    BY <2>1, StepsJoined
  <2>3. PICK c3 : Runs(c, TlrToSir \o Shifting(FpgaIrLen, "BYPASS") \o ShiftingLast(XcfIrLen, value), c3)
                  /\ Runs(c3, Ex1ToRti, d)
    BY <1>2, <2>1, <2>2, StepsJoined
  <2>4. PICK c2 : Runs(c, TlrToSir \o Shifting(FpgaIrLen, "BYPASS"), c2)
                  /\ Runs(c2, ShiftingLast(XcfIrLen, value), c3)
    BY <2>1, <2>2, <2>3, StepsJoined
  <2>5. PICK c1 : Runs(c, TlrToSir, c1) /\ Runs(c1, Shifting(FpgaIrLen, "BYPASS"), c2)
    BY <2>1, <2>4, StepsJoined
  <2>. QED BY <2>3, <2>4, <2>5
<1>4. At(c, c1, "ShiftIR", <<>>) /\ Low(c1)
  BY <1>3, ToSir
<1>5. At(c, c2, "ShiftIR", <<Piece(FpgaIrLen, "BYPASS")>>) /\ Low(c2)
  <2>1. Append(<<>>, Piece(FpgaIrLen, "BYPASS")) = <<Piece(FpgaIrLen, "BYPASS")>>
    BY Appended
  <2>2. At(c, c2, "ShiftIR", Append(<<>>, Piece(FpgaIrLen, "BYPASS"))) /\ Low(c2)
    BY <1>3, <1>4, PinLengths, AtSdi
  <2>. QED BY <2>1, <2>2
<1>6. At(c, c3, "Exit1IR", <<Piece(FpgaIrLen, "BYPASS"), Piece(XcfIrLen, value)>>) /\ High(c3)
  <2>1. Append(<<Piece(FpgaIrLen, "BYPASS")>>, Piece(XcfIrLen, value)) = <<Piece(FpgaIrLen, "BYPASS"), Piece(XcfIrLen, value)>>
    BY Appended
  <2>. QED BY <1>3, <1>5, <2>1, PinLengths, AtSdiLast
<1>7. At(Instructed(c, value), d, "RTI", <<Piece(FpgaIrLen, "BYPASS"), Piece(XcfIrLen, value)>>) /\ Low(d)
  BY <1>3, <1>6, EndSir DEF Rests
<1>. QED BY <1>7, AtWaits

\* A value of so many bits is shifted in, through the FPGA.
LEMMA SdrDone ==
  ASSUME NEW c, Rests(c), c.fpga = "BYPASS", NEW length \in Nat \ {0}, NEW value, NEW d, d = Do(c, Data(length, value))
  PROVE  Waits(Received(Captured(c), value), d)
<1>. DEFINE steps == TlrToSdr \o Shifting(1, 0) \o ShiftingLast(length, value) \o Ex1ToRti
<1>1. Steps(c.fpgairlen, Data(length, value)) = steps
  <2>1. Steps(c.fpgairlen, Data(length, value)) = Sdr(1, length, value, 0, TRUE)
    BY DEF Steps, Data
  <2>2. IsSteps(TlrToSdr \o Shifting(1, 0) \o ShiftingLast(length, value))
    BY StepsTyped, StepsJoined
  <2>3. Sdr(1, length, value, 0, TRUE) =
          TlrToSdr \o Shifting(1, 0) \o ShiftingLast(length, value) \o <<>> \o Ex1ToRti
    <3>1. 1 > 0 /\ ~(0 > 0)
      OBVIOUS
    <3>. QED BY <3>1 DEF Sdr, Shifting, ShiftingLast
  <2>. QED BY <2>1, <2>2, <2>3, NothingJoined
<1>2. Runs(c, steps, d)
  <2>1. IsSteps(steps)
    BY StepsTyped, StepsJoined
  <2>2. Len(steps) \in Nat
    BY <2>1 DEF IsSteps
  <2>. HIDE DEF steps
  <2>. QED BY <1>1, <2>2, DoRuns
<1>3. PICK c1, c2, c3 : /\ Runs(c, TlrToSdr, c1) /\ Runs(c1, Shifting(1, 0), c2)
                        /\ Runs(c2, ShiftingLast(length, value), c3) /\ Runs(c3, Ex1ToRti, d)
  <2>1. /\ IsSteps(TlrToSdr) /\ IsSteps(Shifting(1, 0)) /\ IsSteps(ShiftingLast(length, value))
        /\ IsSteps(Ex1ToRti)
    BY StepsTyped
  <2>2. /\ IsSteps(TlrToSdr \o Shifting(1, 0))
        /\ IsSteps(TlrToSdr \o Shifting(1, 0) \o ShiftingLast(length, value))
    BY <2>1, StepsJoined
  <2>3. PICK c3 : Runs(c, TlrToSdr \o Shifting(1, 0) \o ShiftingLast(length, value), c3)
                  /\ Runs(c3, Ex1ToRti, d)
    BY <1>2, <2>1, <2>2, StepsJoined
  <2>4. PICK c2 : Runs(c, TlrToSdr \o Shifting(1, 0), c2) /\ Runs(c2, ShiftingLast(length, value), c3)
    BY <2>1, <2>2, <2>3, StepsJoined
  <2>5. PICK c1 : Runs(c, TlrToSdr, c1) /\ Runs(c1, Shifting(1, 0), c2)
    BY <2>1, <2>4, StepsJoined
  <2>. QED BY <2>3, <2>4, <2>5
<1>4. At(Captured(c), c1, "ShiftDR", <<>>) /\ Low(c1)
  BY <1>3, ToSdr
<1>5. At(Captured(c), c2, "ShiftDR", <<Piece(1, 0)>>) /\ Low(c2)
  <2>1. Append(<<>>, Piece(1, 0)) = <<Piece(1, 0)>>
    BY Appended
  <2>2. 1 \in Nat
    OBVIOUS
  <2>3. At(Captured(c), c2, "ShiftDR", Append(<<>>, Piece(1, 0))) /\ Low(c2)
    BY <1>3, <1>4, <2>2, AtSdi
  <2>. QED BY <2>1, <2>3
<1>6. At(Captured(c), c3, "Exit1DR", <<Piece(1, 0), Piece(length, value)>>) /\ High(c3)
  <2>1. Append(<<Piece(1, 0)>>, Piece(length, value)) = <<Piece(1, 0), Piece(length, value)>>
    BY Appended
  <2>. QED BY <1>3, <1>5, <2>1, AtSdiLast
<1>7. IsChain(Captured(c)) /\ Captured(c).fpga = "BYPASS"
  BY DEF Captured, Rests, IsChain, ChainFields
<1>8. At(Received(Captured(c), value), Clock(c3), "UpdateDR", <<Piece(1, 0), Piece(length, value)>>)
  BY <1>6, <1>7, AtUpdateDr
<1>9. At(Received(Captured(c), value), d, "RTI", <<Piece(1, 0), Piece(length, value)>>) /\ Low(d)
  <2>. DEFINE pieces == <<Piece(1, 0), Piece(length, value)>>
  <2>1. At(Captured(c), c3, "Exit1DR", pieces) /\ At(Received(Captured(c), value), Clock(c3), "UpdateDR", pieces)
    BY <1>6, <1>8
  <2>2. At(Received(Captured(c), value), d, "RTI", pieces) /\ Low(d)
    <3>. HIDE DEF pieces
    <3>. QED BY <1>3, <1>6, <1>7, <2>1, EndSdr
  <2>. QED BY <2>2
<1>. QED BY <1>9, AtWaits

\* All devices are read at once.
LEMMA AllSdrDone ==
  ASSUME NEW c, Rests(c), NEW length \in Nat \ {0}, NEW d, d = Do(c, AllData(length))
  PROVE  Waits(Captured(c), d)
<1>. DEFINE steps == TlrToSdr \o ShiftingLast(length, 0) \o Ex1ToRti
<1>1. Steps(c.fpgairlen, AllData(length)) = steps
  <2>1. Steps(c.fpgairlen, AllData(length)) = Sdr(0, length, 0, 0, TRUE)
    BY DEF Steps, AllData
  <2>2. IsSteps(TlrToSdr) /\ IsSteps(TlrToSdr \o ShiftingLast(length, 0))
    BY StepsTyped, StepsJoined
  <2>3. Sdr(0, length, 0, 0, TRUE) = TlrToSdr \o <<>> \o ShiftingLast(length, 0) \o <<>> \o Ex1ToRti
    <3>1. ~(0 > 0)
      OBVIOUS
    <3>. QED BY <3>1 DEF Sdr, ShiftingLast
  <2>. QED BY <2>1, <2>2, <2>3, NothingJoined
<1>2. Runs(c, steps, d)
  <2>1. IsSteps(steps)
    BY StepsTyped, StepsJoined
  <2>2. Len(steps) \in Nat
    BY <2>1 DEF IsSteps
  <2>. HIDE DEF steps
  <2>. QED BY <1>1, <2>2, DoRuns
<1>3. PICK c1, c2 : Runs(c, TlrToSdr, c1) /\ Runs(c1, ShiftingLast(length, 0), c2) /\ Runs(c2, Ex1ToRti, d)
  <2>1. /\ IsSteps(TlrToSdr) /\ IsSteps(ShiftingLast(length, 0)) /\ IsSteps(Ex1ToRti)
    BY StepsTyped
  <2>2. IsSteps(TlrToSdr \o ShiftingLast(length, 0))
    BY <2>1, StepsJoined
  <2>3. PICK c2 : Runs(c, TlrToSdr \o ShiftingLast(length, 0), c2) /\ Runs(c2, Ex1ToRti, d)
    BY <1>2, <2>1, <2>2, StepsJoined
  <2>4. PICK c1 : Runs(c, TlrToSdr, c1) /\ Runs(c1, ShiftingLast(length, 0), c2)
    BY <2>1, <2>2, <2>3, StepsJoined
  <2>. QED BY <2>3, <2>4
<1>4. At(Captured(c), c1, "ShiftDR", <<>>) /\ Low(c1)
  BY <1>3, ToSdr
<1>5. At(Captured(c), c2, "Exit1DR", <<Piece(length, 0)>>) /\ High(c2)
  <2>1. Append(<<>>, Piece(length, 0)) = <<Piece(length, 0)>>
    BY Appended
  <2>. QED BY <1>3, <1>4, <2>1, AtSdiLast
<1>6. IsChain(Captured(c))
  BY DEF Captured, Rests, IsChain, ChainFields
<1>7. At(Captured(c), Clock(c2), "UpdateDR", <<Piece(length, 0)>>)
  BY <1>5, AtUpdateDrAlone
<1>8. At(Captured(c), d, "RTI", <<Piece(length, 0)>>) /\ Low(d)
  BY <1>3, <1>5, <1>6, <1>7, EndSdr
<1>. QED BY <1>8, AtWaits

\* Clocks in Run-Test/Idle run the memory.
LEMMA IdleClocks ==
  ASSUME NEW c, NEW n \in Nat
  PROVE  Rests(c) /\ c.tap = "RTI" /\ Low(c) /\ n > 1 => Clocked(c, n) = RunTest(c)
<1>1. ASSUME Rests(c), c.tap = "RTI", Low(c) PROVE Clock(c) = c
  <2>1. [c EXCEPT !.tap = c.tap] = c
    BY <1>1 DEF Rests, IsChain
  <2>2. OnZero[c.tap] = c.tap
    BY <1>1 DEF OnZero
  <2>. QED BY <1>1, <2>1, <2>2 DEF Clock, Low
<1>2. PICK r : /\ r[0] = c /\ \A k \in 1 .. Steady : r[k] = Clock(r[k - 1])
               /\ Clocked(c, n) =
                    IF ~c.driven THEN c
                    ELSE IF c.tap = "RTI" /\ ~c.tms /\ n > 1
                      THEN RunTest(r[IF n < Steady THEN n ELSE Steady])
                      ELSE r[IF n < Steady THEN n ELSE Steady]
  BY ClockedFacts
<1>3. ASSUME Clock(c) = c PROVE r[IF n < Steady THEN n ELSE Steady] = c
  <2>1. r[0] = c /\ r[1] = c /\ r[2] = c /\ r[3] = c /\ r[4] = c /\ r[5] = c
    BY <1>2, <1>3 DEF Steady
  <2>2. (IF n < Steady THEN n ELSE Steady) \in {0, 1, 2, 3, 4, 5}
    BY DEF Steady
  <2>. QED BY <2>1, <2>2
<1>. QED BY <1>1, <1>2, <1>3 DEF Rests, Low

\* Clocks as a whole.
LEMMA ClocksDone ==
  ASSUME NEW c, Rests(c), c.tap = "RTI", Low(c), NEW n \in Nat, n > 1, NEW d, d = Do(c, Clocks(n))
  PROVE  d = RunTest(c)
<1>1. Steps(c.fpgairlen, Clocks(n)) = <<Pulse(n)>>
  BY DEF Steps, Clocks
<1>2. Runs(c, <<Pulse(n)>>, d)
  <2>1. Len(<<Pulse(n)>>) = 1
    OBVIOUS
  <2>. QED BY <1>1, <2>1, DoRuns
<1>3. d = Set(c, Pulse(n))
  BY <1>2, RunsThrough
<1>. QED BY <1>3, SetFacts, IdleClocks DEF Rests

\* What a chain becomes in Test-Logic-Reset.
Reset(c) == [c EXCEPT !.fpga = "IDCODE", !.xcf = "IDCODE", !.pending = FALSE]

LEMMA ResetFacts ==
  ASSUME NEW c, IsChain(c)
  PROVE  /\ IsChain(Reset(c)) /\ Reset(c).fpga = "IDCODE" /\ Reset(c).xcf = "IDCODE" /\ Reset(c).pending = FALSE
         /\ \A f \in ChainFields \ {"fpga", "xcf", "pending"} : Reset(c)[f] = c[f]
         /\ Reset(c).tap = c.tap /\ Reset(c).tms = c.tms /\ Reset(c).driven = c.driven
BY DEF Reset, IsChain, ChainFields

LEMMA ResetMoved ==
  ASSUME NEW b, IsChain(b), NEW c, IsChain(c), Moved(b, c)
  PROVE  Moved(Reset(b), Reset(c))
<1>1. ASSUME NEW f \in ChainFields \ {"tap", "tms", "pieces"} PROVE Reset(c)[f] = Reset(b)[f]
  <2>1. CASE f = "fpga" \/ f = "xcf" \/ f = "pending"
    BY <2>1, ResetFacts
  <2>2. CASE f \in ChainFields \ {"fpga", "xcf", "pending"}
    <3>1. c[f] = b[f]
      BY <1>1 DEF Moved, Changes
    <3>2. Reset(c)[f] = c[f] /\ Reset(b)[f] = b[f]
      BY <2>2, ResetFacts
    <3>. QED BY <3>1, <3>2
  <2>. QED BY <1>1, <2>1, <2>2
<1>. QED BY <1>1, ResetFacts DEF Moved, Changes

\* A reset of a chain that has been reset changes nothing more.
LEMMA ResetTwice ==
  ASSUME NEW c, IsChain(c)
  PROVE  Reset(Reset(c)) = Reset(c)
BY DEF Reset, IsChain, ChainFields

\* In Test-Logic-Reset, of the chain c0.
Off(c0, c) == Moved(Reset(c0), c) /\ c.driven /\ c.tap = "TLR" /\ High(c)

LEMMA ClockReset ==
  ASSUME NEW c0, IsChain(c0), NEW c, IsChain(c), High(c)
  PROVE  /\ Moved(c0, c) /\ c.driven /\ c.tap \in {"SelectIR", "TLR"} => Off(c0, Clock(c))
         /\ Off(c0, c) => Off(c0, Clock(c))
<1>1. ASSUME c.tap \in {"SelectIR", "TLR"}, c.driven
      PROVE  Moved(Reset(c), Clock(c)) /\ Clock(c).driven /\ Clock(c).tap = "TLR" /\ High(Clock(c))
  <2>1. (IF c.tms THEN OnOne[c.tap] ELSE OnZero[c.tap]) = "TLR"
    BY <1>1 DEF High, OnOne
  <2>2. PICK next : next = [c EXCEPT !.tap = "TLR"]
    OBVIOUS
  <2>3. next.tap = "TLR" /\ IsChain(next) /\ \A f \in ChainFields \ {"tap"} : next[f] = c[f]
    BY <2>2 DEF IsChain, ChainFields
  <2>4. Clock(c) = Reset(next)
    BY <2>1, <2>2, <2>3 DEF Clock, Reset
  <2>5. Clock(c).tap = "TLR" /\ Clock(c).tms = c.tms /\ Clock(c).driven = c.driven /\ IsChain(Clock(c))
    BY <2>3, <2>4, ResetFacts DEF ChainFields
  <2>6. Moved(Reset(c), Clock(c))
    <3>1. Moved(c, next)
      BY <2>3 DEF Moved, Changes
    <3>. QED BY <2>3, <2>4, <3>1, ResetMoved
  <2>. QED BY <1>1, <2>5, <2>6 DEF High
<1>2. ASSUME Moved(c0, c) \/ Moved(Reset(c0), c), c.driven, c.tap \in {"SelectIR", "TLR"} PROVE Off(c0, Clock(c))
  <2>1. Moved(Reset(c0), Reset(c))
    <3>1. CASE Moved(c0, c)
      BY <3>1, ResetMoved
    <3>2. CASE Moved(Reset(c0), c)
      <4>1. Moved(Reset(Reset(c0)), Reset(c))
        BY <3>2, ResetFacts, ResetMoved
      <4>. QED BY <4>1, ResetTwice
    <3>. QED BY <1>2, <3>1, <3>2
  <2>. QED BY <1>1, <1>2, <2>1, MovedFacts DEF Off
<1>. QED BY <1>2 DEF Off

\* A reset as a whole.
LEMMA TlrDone ==
  ASSUME NEW c, Rests(c), NEW d, d = Do(c, Command("TLR"))
  PROVE  Moved(Reset(c), d) /\ Rests(d)
<1>1. Steps(c.fpgairlen, Command("TLR")) = <<TmsHigh, Pulse(5)>>
  BY DEF Steps, Command, Tlr, TmsHigh
<1>2. PICK c1 : c1 = Set(c, TmsHigh) /\ d = Set(c1, Pulse(5))
  <2>1. Runs(c, <<TmsHigh, Pulse(5)>>, d)
    <3>1. Len(<<TmsHigh, Pulse(5)>>) = 2
      OBVIOUS
    <3>. QED BY <1>1, <3>1, DoRuns
  <2>. QED BY <2>1, FewSteps
<1>3. At(c, c1, c.tap, c.pieces) /\ High(c1)
  <2>1. At(c, c, c.tap, c.pieces)
    BY MovedFacts DEF At, Rests
  <2>. QED BY <1>2, <2>1, AtTms
<1>4. PICK r : r[0] = c1 /\ \A k \in 1 .. Steady : r[k] = Clock(r[k - 1]) /\ d = r[5]
  <2>1. d = Clocked(c1, 5)
    BY <1>2, <1>3, SetFacts DEF At
  <2>. QED BY <1>3, <2>1, ClockedFacts DEF Steady, At, High
<1>5. /\ r[1] = Clock(c1) /\ r[2] = Clock(r[1]) /\ r[3] = Clock(r[2]) /\ r[4] = Clock(r[3]) /\ r[5] = Clock(r[4])
      /\ d = r[5]
  BY <1>4 DEF Steady
<1>6. ASSUME NEW x, Off(c, x) PROVE Off(c, Clock(x))
  BY <1>6, ClockReset DEF Rests, Off, Moved, Changes
<1>7. Off(c, r[3])
  <2>1. CASE c.tap = "RTI"
    <3>1. At(c, r[1], "SelectDR", c.pieces) /\ High(r[1])
      BY <1>3, <1>5, <2>1, AtClock DEF Plain, OnOne
    <3>2. At(c, r[2], "SelectIR", c.pieces) /\ High(r[2])
      BY <1>5, <3>1, AtClock DEF Plain, OnOne
    <3>. QED BY <1>5, <3>2, ClockReset DEF At, Rests
  <2>2. CASE c.tap = "TLR"
    <3>1. Off(c, r[1])
      BY <1>3, <1>5, <2>2, ClockReset DEF At, Rests
    <3>. QED BY <1>5, <1>6, <3>1
  <2>. QED BY <2>1, <2>2 DEF Rests
<1>8. Off(c, d)
  BY <1>5, <1>6, <1>7
<1>. QED BY <1>8 DEF Off, Rests, Moved, Changes

\* The erase instruction is followed by its data without a visit to
\* Run-Test/Idle.
LEMMA EraseSelects ==
  ASSUME NEW b, IsChain(b), NEW c, NEW d, NEW value,
         At(b, c, "Exit1IR", <<Piece(FpgaIrLen, "BYPASS"), Piece(XcfIrLen, value)>>), High(c), Runs(c, Ex1ToSdr, d)
  PROVE  At(Captured(Instructed(b, value)), d, "ShiftDR", <<>>) /\ Low(d)
<1>. DEFINE pieces == <<Piece(FpgaIrLen, "BYPASS"), Piece(XcfIrLen, value)>>
<1>1. PICK c1, c2 : c1 = Set(c, Pulse(2)) /\ c2 = Set(c1, TmsLow) /\ d = Set(c2, Pulse(2))
  <2>1. Ex1ToSdr = <<Pulse(2), TmsLow, Pulse(2)>>
    BY DEF Ex1ToSdr, TmsLow
  <2>2. Runs(c, <<Pulse(2), TmsLow, Pulse(2)>>, d)
    BY <2>1
  <2>. QED BY <2>2, FewSteps
<1>2. c1 = Clock(Clock(c))
  BY <1>1, AtTwoClocks
<1>3. At(Instructed(b, value), Clock(c), "UpdateIR", pieces) /\ High(Clock(c))
  BY AtUpdateIr
<1>. HIDE DEF pieces
<1>4. At(Instructed(b, value), c1, "SelectDR", pieces)
  BY <1>2, <1>3, AtClock DEF Plain, OnOne
<1>5. At(Instructed(b, value), c2, "SelectDR", pieces) /\ Low(c2)
  BY <1>1, <1>4, AtTms
<1>6. IsChain(Instructed(b, value))
  BY DEF Instructed, IsChain, ChainFields
<1>. QED BY <1>1, <1>5, <1>6, ToShiftDr

\* The erase instruction as a whole.
LEMMA EraseDone ==
  ASSUME NEW c, Rests(c), c.fpgairlen = FpgaIrLen, NEW d, d = Do(c, Command("ISC_ERASE"))
  PROVE  Waits(Captured(Instructed(c, "ISC_ERASE")), d)
<1>. DEFINE steps == TlrToSir \o Shifting(FpgaIrLen, "BYPASS") \o ShiftingLast(XcfIrLen, "ISC_ERASE")
                       \o Ex1ToSdr \o Shifting(1, 0) \o ShiftingLast(24, 63) \o Ex1ToRti
<1>1. Steps(c.fpgairlen, Command("ISC_ERASE")) = steps
  <2>1. Steps(c.fpgairlen, Command("ISC_ERASE")) =
          Sir(FpgaIrLen, XcfIrLen, "ISC_ERASE", 0, FALSE) \o Ex1ToSdr \o Shifting(1, 0) \o ShiftingLast(24, 63) \o Ex1ToRti
    BY DEF Steps, Command, Shifting, ShiftingLast
  <2>2. IsSteps(TlrToSir \o Shifting(FpgaIrLen, "BYPASS") \o ShiftingLast(XcfIrLen, "ISC_ERASE"))
    BY StepsTyped, StepsJoined
  <2>3. Sir(FpgaIrLen, XcfIrLen, "ISC_ERASE", 0, FALSE) =
          TlrToSir \o Shifting(FpgaIrLen, "BYPASS") \o ShiftingLast(XcfIrLen, "ISC_ERASE") \o <<>> \o <<>>
    <3>1. FpgaIrLen > 0 /\ ~(0 > 0)
      BY PinLengths
    <3>. QED BY <3>1 DEF Sir, Shifting, ShiftingLast
  <2>. QED BY <2>1, <2>2, <2>3, NothingJoined
<1>. DEFINE s1 == TlrToSir
            s2 == Shifting(FpgaIrLen, "BYPASS")
            s3 == ShiftingLast(XcfIrLen, "ISC_ERASE")
            s4 == Ex1ToSdr
            s5 == Shifting(1, 0)
            s6 == ShiftingLast(24, 63)
            s7 == Ex1ToRti
<1>2. IsSteps(s1) /\ IsSteps(s2) /\ IsSteps(s3) /\ IsSteps(s4) /\ IsSteps(s5) /\ IsSteps(s6) /\ IsSteps(s7)
  BY StepsTyped
<1>3. /\ IsSteps(s1 \o s2) /\ IsSteps(s1 \o s2 \o s3) /\ IsSteps(s1 \o s2 \o s3 \o s4)
      /\ IsSteps(s1 \o s2 \o s3 \o s4 \o s5) /\ IsSteps(s1 \o s2 \o s3 \o s4 \o s5 \o s6)
      /\ IsSteps(s1 \o s2 \o s3 \o s4 \o s5 \o s6 \o s7)
  <2>. HIDE DEF s1, s2, s3, s4, s5, s6, s7
  <2>. QED BY <1>2, StepsJoined
<1>4. Runs(c, s1 \o s2 \o s3 \o s4 \o s5 \o s6 \o s7, d)
  <2>1. steps = s1 \o s2 \o s3 \o s4 \o s5 \o s6 \o s7
    OBVIOUS
  <2>2. Len(s1 \o s2 \o s3 \o s4 \o s5 \o s6 \o s7) \in Nat
    BY <1>3 DEF IsSteps
  <2>. HIDE DEF steps, s1, s2, s3, s4, s5, s6, s7
  <2>. QED BY <1>1, <2>1, <2>2, DoRuns
<1>5. PICK c1, c2, c3, c4, c5, c6 :
        /\ Runs(c, s1, c1) /\ Runs(c1, s2, c2) /\ Runs(c2, s3, c3) /\ Runs(c3, s4, c4)
        /\ Runs(c4, s5, c5) /\ Runs(c5, s6, c6) /\ Runs(c6, s7, d)
  <2>. HIDE DEF steps, s1, s2, s3, s4, s5, s6, s7
  <2>1. PICK c6 : Runs(c, s1 \o s2 \o s3 \o s4 \o s5 \o s6, c6) /\ Runs(c6, s7, d)
    BY <1>2, <1>3, <1>4, StepsJoined
  <2>2. PICK c5 : Runs(c, s1 \o s2 \o s3 \o s4 \o s5, c5) /\ Runs(c5, s6, c6)
    BY <1>2, <1>3, <2>1, StepsJoined
  <2>3. PICK c4 : Runs(c, s1 \o s2 \o s3 \o s4, c4) /\ Runs(c4, s5, c5)
    BY <1>2, <1>3, <2>2, StepsJoined
  <2>4. PICK c3 : Runs(c, s1 \o s2 \o s3, c3) /\ Runs(c3, s4, c4)
    BY <1>2, <1>3, <2>3, StepsJoined
  <2>5. PICK c2 : Runs(c, s1 \o s2, c2) /\ Runs(c2, s3, c3)
    BY <1>2, <1>3, <2>4, StepsJoined
  <2>6. PICK c1 : Runs(c, s1, c1) /\ Runs(c1, s2, c2)
    BY <1>2, <1>3, <2>5, StepsJoined
  <2>. QED BY <2>1, <2>2, <2>3, <2>4, <2>5, <2>6
<1>. HIDE DEF steps
<1>6. At(c, c1, "ShiftIR", <<>>) /\ Low(c1)
  BY <1>5, ToSir
<1>7. At(c, c2, "ShiftIR", <<Piece(FpgaIrLen, "BYPASS")>>) /\ Low(c2)
  <2>1. Append(<<>>, Piece(FpgaIrLen, "BYPASS")) = <<Piece(FpgaIrLen, "BYPASS")>>
    BY Appended
  <2>2. At(c, c2, "ShiftIR", Append(<<>>, Piece(FpgaIrLen, "BYPASS"))) /\ Low(c2)
    BY <1>5, <1>6, PinLengths, AtSdi
  <2>. QED BY <2>1, <2>2
<1>8. At(c, c3, "Exit1IR", <<Piece(FpgaIrLen, "BYPASS"), Piece(XcfIrLen, "ISC_ERASE")>>) /\ High(c3)
  <2>1. Append(<<Piece(FpgaIrLen, "BYPASS")>>, Piece(XcfIrLen, "ISC_ERASE")) = <<Piece(FpgaIrLen, "BYPASS"), Piece(XcfIrLen, "ISC_ERASE")>>
    BY Appended
  <2>. QED BY <1>5, <1>7, <2>1, PinLengths, AtSdiLast
<1>. DEFINE e == Captured(Instructed(c, "ISC_ERASE"))
<1>9. At(e, c4, "ShiftDR", <<>>) /\ Low(c4)
  BY <1>5, <1>8, EraseSelects DEF Rests
<1>10. IsChain(e) /\ e.fpga = "BYPASS" /\ e.xcf = "ISC_ERASE"
  BY DEF Captured, Instructed, Rests, IsChain, ChainFields
<1>. HIDE DEF e
<1>11. At(e, c5, "ShiftDR", <<Piece(1, 0)>>) /\ Low(c5)
  <2>1. Append(<<>>, Piece(1, 0)) = <<Piece(1, 0)>>
    BY Appended
  <2>2. 1 \in Nat
    OBVIOUS
  <2>3. At(e, c5, "ShiftDR", Append(<<>>, Piece(1, 0))) /\ Low(c5)
    BY <1>5, <1>9, <2>2, AtSdi
  <2>. QED BY <2>1, <2>3
<1>12. At(e, c6, "Exit1DR", <<Piece(1, 0), Piece(24, 63)>>) /\ High(c6)
  <2>1. Append(<<Piece(1, 0)>>, Piece(24, 63)) = <<Piece(1, 0), Piece(24, 63)>>
    BY Appended
  <2>2. 24 \in Nat \ {0} /\ Runs(c5, ShiftingLast(24, 63), c6)
    BY <1>5
  <2>3. "ShiftDR" \in {"ShiftIR", "ShiftDR"}
    OBVIOUS
  <2>4. At(e, c6, "Exit1DR", Append(<<Piece(1, 0)>>, Piece(24, 63))) /\ High(c6)
    BY <1>11, <2>2, <2>3, AtSdiLast
  <2>. QED BY <2>1, <2>4
<1>13. At(Received(e, 63), Clock(c6), "UpdateDR", <<Piece(1, 0), Piece(24, 63)>>)
  BY <1>10, <1>12, AtUpdateDr
<1>14. Received(e, 63) = e
  <2>1. e.xcf \notin {"ISC_ENABLE", "XSC_UNLOCK", "ISC_ADDRESS_SHIFT", "ISC_DATA_SHIFT"} \cup Configuration
    BY <1>10 DEF Configuration
  <2>. QED BY <1>10, <2>1, ReceivedFacts
<1>15. At(e, d, "RTI", <<Piece(1, 0), Piece(24, 63)>>) /\ Low(d)
  BY <1>5, <1>10, <1>12, <1>13, <1>14, EndSdr
<1>. QED BY <1>15, AtWaits DEF e

-----------------------------------------------------------------------------
(* What a command does to the flash memory.                                *)

\* What the memory keeps from one command to the next.
Kept == {"enabled", "address", "data", "unlocked", "memory"}

Keeps(c, d, fields) == \A f \in Kept \ fields : d[f] = c[f]

\* The instructions fit the chain.
Ready(c) == Rests(c) /\ c.fpgairlen = FpgaIrLen

Executing(c, value) == Ready(c) /\ c.tap = "RTI" /\ Low(c) /\ c.fpga = "BYPASS" /\ c.xcf = value

LEMMA WaitsFacts ==
  ASSUME NEW b, NEW d, Waits(b, d)
  PROVE  /\ Rests(d) /\ d.tap = "RTI" /\ Low(d)
         /\ Keeps(b, d, {}) /\ d.fpga = b.fpga /\ d.xcf = b.xcf /\ d.pending = b.pending
         /\ d.fpgairlen = b.fpgairlen /\ d.out = b.out
  BY DEF Waits, Moved, Changes, Keeps, Kept, ChainFields

\* After an instruction the memory can be given its data, or run.
LEMMA InstructionDone ==
  ASSUME NEW c, Ready(c), NEW value, NEW d, d = Do(c, Instruction(value))
  PROVE  Executing(d, value) /\ d.pending = TRUE /\ Keeps(c, d, {})
<1>1. Waits(Instructed(c, value), d)
  BY SirDone DEF Ready
<1>2. PICK b : b = Instructed(c, value)
  OBVIOUS
<1>3. b.fpga = "BYPASS" /\ b.xcf = value /\ b.pending = TRUE /\ b.fpgairlen = FpgaIrLen /\ Keeps(c, b, {})
  BY <1>2 DEF Instructed, Ready, Rests, IsChain, ChainFields, Keeps, Kept
<1>4. /\ Rests(d) /\ d.tap = "RTI" /\ Low(d)
      /\ Keeps(b, d, {}) /\ d.fpga = b.fpga /\ d.xcf = b.xcf /\ d.pending = b.pending
      /\ d.fpgairlen = b.fpgairlen
  BY <1>1, <1>2, WaitsFacts
<1>5. Keeps(c, d, {})
  BY <1>3, <1>4 DEF Keeps
<1>. QED BY <1>3, <1>4, <1>5 DEF Executing, Ready

LEMMA CapturedFacts ==
  ASSUME NEW c, IsChain(c), NEW b, b = Captured(c)
  PROVE  /\ IsChain(b) /\ Keeps(c, b, {}) /\ b.out = Capture(c)
         /\ b.fpga = c.fpga /\ b.xcf = c.xcf /\ b.pending = c.pending /\ b.fpgairlen = c.fpgairlen
  BY DEF Captured, IsChain, ChainFields, Keeps, Kept

LEMMA BecomesFacts ==
  ASSUME NEW c, NEW b, NEW d, NEW f \in Kept, NEW v, Becomes(b, c, f, v), Keeps(c, d, {}), NEW a, Keeps(a, b, {})
  PROVE  Keeps(a, d, {f}) /\ d[f] = v
  BY DEF Becomes, Keeps, Kept, ChainFields

Effect(c, d, value, x) ==
  /\ value = "ISC_ENABLE" => Keeps(c, d, {"enabled"}) /\ d.enabled = x
  /\ value = "XSC_UNLOCK" => Keeps(c, d, {"unlocked"}) /\ d.unlocked = TRUE
  /\ value = "ISC_ADDRESS_SHIFT" => Keeps(c, d, {"address"}) /\ d.address = x
  /\ value = "ISC_DATA_SHIFT" => Keeps(c, d, {"data"}) /\ d.data = x
  /\ value \in Configuration => Keeps(c, d, {"data"}) /\ d.data = <<>>
  /\ value \notin {"ISC_ENABLE", "XSC_UNLOCK", "ISC_ADDRESS_SHIFT", "ISC_DATA_SHIFT"} \cup Configuration => Keeps(c, d, {})

\* Data reaches the register of the instruction, and no other.
LEMMA DataDone ==
  ASSUME NEW c, NEW value, Executing(c, value), NEW length \in Nat \ {0}, NEW x, NEW d, d = Do(c, Data(length, x))
  PROVE  Executing(d, value) /\ d.pending = c.pending /\ d.out = Capture(c) /\ Effect(c, d, value, x)
<1>1. PICK b, e : b = Captured(c) /\ e = Received(b, x)
  OBVIOUS
<1>2. Waits(e, d)
  BY <1>1, SdrDone DEF Executing, Ready
<1>3. /\ IsChain(b) /\ Keeps(c, b, {}) /\ b.out = Capture(c)
      /\ b.fpga = c.fpga /\ b.xcf = c.xcf /\ b.pending = c.pending /\ b.fpgairlen = c.fpgairlen
  BY <1>1, CapturedFacts DEF Executing, Ready, Rests
<1>4. /\ Rests(d) /\ d.tap = "RTI" /\ Low(d)
      /\ Keeps(e, d, {}) /\ d.fpga = e.fpga /\ d.xcf = e.xcf /\ d.pending = e.pending
      /\ d.fpgairlen = e.fpgairlen /\ d.out = e.out
  BY <1>2, WaitsFacts
<1>5. b.xcf = value
  BY <1>3 DEF Executing
<1>6. value = "ISC_ENABLE" => Becomes(b, e, "enabled", x)
  BY <1>1, <1>3, <1>5, ReceivedFacts
<1>7. value = "XSC_UNLOCK" => Becomes(b, e, "unlocked", TRUE)
  BY <1>1, <1>3, <1>5, ReceivedFacts
<1>8. value = "ISC_ADDRESS_SHIFT" => Becomes(b, e, "address", x)
  BY <1>1, <1>3, <1>5, ReceivedFacts
<1>9. value = "ISC_DATA_SHIFT" => Becomes(b, e, "data", x)
  BY <1>1, <1>3, <1>5, ReceivedFacts
<1>10. value \in Configuration => Becomes(b, e, "data", <<>>)
  BY <1>1, <1>3, <1>5, ReceivedFacts
<1>11. value \notin {"ISC_ENABLE", "XSC_UNLOCK", "ISC_ADDRESS_SHIFT", "ISC_DATA_SHIFT"} \cup Configuration => e = b
  BY <1>1, <1>3, <1>5, ReceivedFacts
<1>12. ASSUME NEW f \in Kept, NEW v, Becomes(b, e, f, v)
       PROVE  /\ Keeps(c, d, {f}) /\ d[f] = v
              /\ e.fpga = b.fpga /\ e.xcf = b.xcf /\ e.pending = b.pending /\ e.fpgairlen = b.fpgairlen /\ e.out = b.out
  <2>1. Keeps(c, d, {f}) /\ d[f] = v
    BY <1>3, <1>4, <1>12, BecomesFacts
  <2>. QED BY <1>12, <2>1 DEF Becomes, Kept, ChainFields
<1>13. {"enabled", "unlocked", "address", "data"} \subseteq Kept
  BY DEF Kept
<1>14. Effect(c, d, value, x)
  <2>1. e = b => Keeps(c, d, {})
    BY <1>3, <1>4 DEF Keeps
  <2>2. value = "ISC_ENABLE" => Keeps(c, d, {"enabled"}) /\ d.enabled = x
    BY <1>6, <1>12, <1>13
  <2>3. value = "XSC_UNLOCK" => Keeps(c, d, {"unlocked"}) /\ d.unlocked = TRUE
    BY <1>7, <1>12, <1>13
  <2>4. value = "ISC_ADDRESS_SHIFT" => Keeps(c, d, {"address"}) /\ d.address = x
    BY <1>8, <1>12, <1>13
  <2>5. value = "ISC_DATA_SHIFT" => Keeps(c, d, {"data"}) /\ d.data = x
    BY <1>9, <1>12, <1>13
  <2>6. value \in Configuration => Keeps(c, d, {"data"}) /\ d.data = <<>>
    BY <1>10, <1>12, <1>13
  <2>. QED BY <1>11, <2>1, <2>2, <2>3, <2>4, <2>5, <2>6 DEF Effect
<1>15. e.fpga = b.fpga /\ e.xcf = b.xcf /\ e.pending = b.pending /\ e.fpgairlen = b.fpgairlen /\ e.out = b.out
  <2>1. e = b \/ \E f \in Kept : \E v : Becomes(b, e, f, v)
    BY <1>6, <1>7, <1>8, <1>9, <1>10, <1>11, <1>13
  <2>. QED BY <1>12, <2>1
<1>16. Executing(d, value)
  BY <1>3, <1>4, <1>5, <1>15 DEF Executing, Ready
<1>. QED BY <1>3, <1>4, <1>14, <1>15, <1>16

\* The memory after the data has been programmed at the address.
DataProgrammed(c, d) ==
  /\ d.memory = [a \in DOMAIN c.memory |->
                   IF a \in c.address .. c.address + Len(c.data) - 1
                     THEN ProgramByte(c.memory[a], c.data[a - c.address + 1])
                     ELSE c.memory[a]]
  /\ d.address = c.address + BlockSize /\ d.data = <<>>
  /\ Keeps(c, d, {"memory", "address", "data"})

MemoryErased(c, d) ==
  d.memory = [a \in DOMAIN c.memory |-> Erased] /\ Keeps(c, d, {"memory", "unlocked"})

\* There is nothing to run for most instructions, or in a disabled memory.
LEMMA RunTestSame ==
  ASSUME NEW c,
         \/ c.xcf \notin {"ISC_ERASE", "ISC_PROGRAM", "ISC_DISABLE"}
         \/ c.xcf = "ISC_PROGRAM" /\ c.data = <<>>
         \/ c.enabled = -1
  PROVE  RunTest(c) = c
  BY DEF RunTest

\* The memory runs its instruction once.
LEMMA RunTestRuns ==
  ASSUME NEW c, IsChain(c), c.pending, c.enabled # -1, NEW d, d = RunTest(c)
  PROVE  /\ c.xcf = "ISC_PROGRAM" /\ c.data # <<>> => DataProgrammed(c, d)
         /\ c.xcf = "ISC_ERASE" /\ c.unlocked => MemoryErased(c, d)
         /\ c.xcf = "ISC_DISABLE" => Keeps(c, d, {"enabled"}) /\ d.enabled = -1
<1>1. ASSUME c.xcf = "ISC_PROGRAM", c.data # <<>> PROVE DataProgrammed(c, d)
  BY <1>1 DEF RunTest, DataProgrammed, Keeps, Kept, IsChain, ChainFields
<1>2. ASSUME c.xcf = "ISC_ERASE", c.unlocked PROVE MemoryErased(c, d)
  BY <1>2 DEF RunTest, MemoryErased, Keeps, Kept, IsChain, ChainFields
<1>3. ASSUME c.xcf = "ISC_DISABLE" PROVE Keeps(c, d, {"enabled"}) /\ d.enabled = -1
  BY <1>3 DEF RunTest, Keeps, Kept, IsChain, ChainFields
<1>. QED BY <1>1, <1>2, <1>3

\* Running the memory leaves the controllers where they are.
LEMMA RunTestChain ==
  ASSUME NEW c, IsChain(c), NEW d, d = RunTest(c)
  PROVE  /\ IsChain(d) /\ d.tap = c.tap /\ d.tms = c.tms /\ d.driven = c.driven
         /\ d.fpga = c.fpga /\ d.xcf = c.xcf /\ d.fpgairlen = c.fpgairlen /\ d.out = c.out
<1>1. PICK m, a, x, u, e :
        \/ d = c
        \/ d = [c EXCEPT !.pending = FALSE, !.memory = m, !.unlocked = u]
        \/ d = [c EXCEPT !.pending = FALSE, !.memory = m, !.address = a, !.data = x]
        \/ d = [c EXCEPT !.pending = FALSE, !.enabled = e]
  <2>1. ASSUME ~c.pending \/ c.enabled = -1 PROVE d = c
    BY <2>1 DEF RunTest
  <2>. QED BY <2>1 DEF RunTest
<1>2. CASE d = c
  BY <1>2
<1>3. CASE d = [c EXCEPT !.pending = FALSE, !.memory = m, !.unlocked = u]
  BY <1>3 DEF IsChain, ChainFields
<1>4. CASE d = [c EXCEPT !.pending = FALSE, !.memory = m, !.address = a, !.data = x]
  BY <1>4 DEF IsChain, ChainFields
<1>5. CASE d = [c EXCEPT !.pending = FALSE, !.enabled = e]
  BY <1>5 DEF IsChain, ChainFields
<1>. QED BY <1>1, <1>2, <1>3, <1>4, <1>5

\* What clocks after an instruction do to the memory.
LEMMA ClocksRun ==
  ASSUME NEW c, NEW value, Executing(c, value), NEW n \in Nat, n > 1, NEW d, d = Do(c, Clocks(n))
  PROVE  /\ Executing(d, value)
         /\ \/ value \notin {"ISC_ERASE", "ISC_PROGRAM", "ISC_DISABLE"}
            \/ value = "ISC_PROGRAM" /\ c.data = <<>>
            => Keeps(c, d, {})
         /\ value = "ISC_PROGRAM" /\ c.data # <<>> /\ c.pending /\ c.enabled # -1 => DataProgrammed(c, d)
         /\ value = "ISC_ERASE" /\ c.unlocked /\ c.pending /\ c.enabled # -1 => MemoryErased(c, d)
         /\ value = "ISC_DISABLE" /\ c.pending => Keeps(c, d, {"enabled"}) /\ d.enabled = -1
<1>1. d = RunTest(c) /\ IsChain(c) /\ c.xcf = value
  BY ClocksDone DEF Executing, Ready, Rests
<1>2. Executing(d, value)
  BY <1>1, RunTestChain DEF Executing, Ready, Rests, Low
<1>3. d = c => Keeps(c, d, {})
  BY DEF Keeps
<1>4. c.enabled = -1 /\ d = c => Keeps(c, d, {"enabled"}) /\ d.enabled = -1
  BY DEF Keeps
<1>. QED BY <1>1, <1>2, <1>3, <1>4, RunTestSame, RunTestRuns

LEMMA EraseStarts ==
  ASSUME NEW c, Ready(c), NEW d, d = Do(c, Command("ISC_ERASE"))
  PROVE  Executing(d, "ISC_ERASE") /\ d.pending = TRUE /\ Keeps(c, d, {})
<1>1. PICK b, e : b = Instructed(c, "ISC_ERASE") /\ e = Captured(b)
  OBVIOUS
<1>2. Waits(e, d)
  BY <1>1, EraseDone DEF Ready
<1>3. /\ b.fpga = "BYPASS" /\ b.xcf = "ISC_ERASE" /\ b.pending = TRUE /\ b.fpgairlen = FpgaIrLen
      /\ Keeps(c, b, {}) /\ IsChain(b)
  BY <1>1 DEF Instructed, Ready, Rests, IsChain, ChainFields, Keeps, Kept
<1>4. /\ Keeps(b, e, {}) /\ e.fpga = b.fpga /\ e.xcf = b.xcf /\ e.pending = b.pending /\ e.fpgairlen = b.fpgairlen
  BY <1>1, <1>3, CapturedFacts
<1>5. /\ Rests(d) /\ d.tap = "RTI" /\ Low(d)
      /\ Keeps(e, d, {}) /\ d.fpga = e.fpga /\ d.xcf = e.xcf /\ d.pending = e.pending
      /\ d.fpgairlen = e.fpgairlen
  BY <1>2, WaitsFacts
<1>6. Keeps(c, d, {})
  BY <1>3, <1>4, <1>5 DEF Keeps
<1>. QED BY <1>3, <1>4, <1>5, <1>6 DEF Executing, Ready

LEMMA TlrReset ==
  ASSUME NEW c, Rests(c), NEW d, d = Do(c, Command("TLR"))
  PROVE  Rests(d) /\ d.fpga = "IDCODE" /\ d.xcf = "IDCODE" /\ Keeps(c, d, {}) /\ d.fpgairlen = c.fpgairlen
<1>1. Moved(Reset(c), d) /\ Rests(d)
  BY TlrDone
<1>2. IsChain(c)
  BY DEF Rests
<1>3. /\ Reset(c).fpga = "IDCODE" /\ Reset(c).xcf = "IDCODE" /\ Reset(c).fpgairlen = c.fpgairlen
      /\ Keeps(c, Reset(c), {})
  <2>1. \A f \in Kept \cup {"fpgairlen"} : f \in ChainFields \ {"fpga", "xcf", "pending"}
    BY DEF Kept, ChainFields
  <2>2. \A f \in Kept \cup {"fpgairlen"} : Reset(c)[f] = c[f]
    BY <1>2, <2>1, ResetFacts
  <2>3. Reset(c).fpga = "IDCODE" /\ Reset(c).xcf = "IDCODE"
    BY <1>2, ResetFacts
  <2>. QED BY <2>2, <2>3 DEF Keeps
<1>4. \A f \in {"fpga", "xcf", "fpgairlen"} \cup Kept : d[f] = Reset(c)[f]
  BY <1>1 DEF Moved, Changes, ChainFields, Kept
<1>5. Keeps(c, d, {})
  BY <1>3, <1>4 DEF Keeps
<1>. QED BY <1>1, <1>3, <1>4, <1>5

LEMMA AllDataRead ==
  ASSUME NEW c, Rests(c), NEW length \in Nat \ {0}, NEW d, d = Do(c, AllData(length))
  PROVE  Rests(d) /\ d.out = Capture(c) /\ Keeps(c, d, {})
<1>1. PICK b : b = Captured(c)
  OBVIOUS
<1>2. Waits(b, d)
  BY <1>1, AllSdrDone
<1>3. Keeps(c, b, {}) /\ b.out = Capture(c)
  BY <1>1, CapturedFacts DEF Rests
<1>4. Rests(d) /\ Keeps(b, d, {}) /\ d.out = b.out
  BY <1>2, WaitsFacts
<1>5. Keeps(c, d, {})
  BY <1>3, <1>4 DEF Keeps
<1>. QED BY <1>3, <1>4, <1>5

-----------------------------------------------------------------------------
(* Operations.                                                             *)

\* The commands take the chain c to d.
Leads(c, commands, d) ==
  \E r : /\ r[0] = c /\ r[Len(commands)] = d
         /\ \A i \in 1 .. Len(commands) : r[i] = Do(r[i - 1], commands[i])

\* Commands that are sent to some chains lead from one of them.
LEMMA AfterLeads ==
  ASSUME NEW chains, NEW commands, Len(commands) \in Nat, NEW d \in After(chains, commands)
  PROVE  \E c \in chains : Leads(c, commands, d)
  BY AfterRuns DEF Leads

\* Nothing is sent to a chain that was not recognized.
LEMMA IfValidLeads ==
  ASSUME NEW chains, NEW commands, Len(commands) \in Nat, NEW d \in AfterIfValid(chains, commands)
  PROVE  \/ d \in chains /\ ~Valid(d)
         \/ \E c \in chains : Valid(c) /\ Leads(c, commands, d)
<1>1. CASE d \in {c \in chains : ~Valid(c)}
  BY <1>1
<1>2. CASE d \in After({c \in chains : Valid(c)}, commands)
  <2>1. PICK c \in {e \in chains : Valid(e)} : Leads(c, commands, d)
    BY <1>2, AfterLeads
  <2>. QED BY <2>1
<1>. QED BY <1>1, <1>2 DEF AfterIfValid

\* The chain has been reset, and it may not have been recognized.
Recognized(c, d) == Rests(d) /\ Keeps(c, d, {}) /\ d.fpgairlen \in {0, FpgaIrLen}

\* The chain is recognized from the identities that are shifted out, or is not.
LEMMA Identified ==
  ASSUME NEW chains, \A c \in chains : Rests(c), NEW d \in Validate(chains)
  PROVE  \E c \in chains : Recognized(c, d)
<1>. DEFINE commands == <<Command("TLR"), AllData(96)>>
<1>1. PICK e \in After(chains, commands), known \in BOOLEAN :
        d = [e EXCEPT !.fpgairlen = IF known /\ e.out = <<FpgaId, XcfId>> THEN FpgaIrLen ELSE 0]
  BY DEF Validate
<1>2. Len(commands) = 2 /\ commands[1] = Command("TLR") /\ commands[2] = AllData(96)
  OBVIOUS
<1>. HIDE DEF commands
<1>3. PICK c \in chains : Leads(c, commands, e)
  <2>1. Len(commands) \in Nat
    BY <1>2
  <2>. QED BY <1>1, <2>1, AfterLeads
<1>4. PICK c1 : c1 = Do(c, Command("TLR")) /\ e = Do(c1, AllData(96))
  BY <1>2, <1>3 DEF Leads
<1>5. Rests(c1) /\ Keeps(c, c1, {})
  BY <1>3, <1>4, TlrReset
<1>6. Rests(e) /\ Keeps(c1, e, {})
  <2>1. 96 \in Nat \ {0}
    OBVIOUS
  <2>. QED BY <1>4, <1>5, <2>1, AllDataRead
<1>7. Keeps(c, e, {}) /\ Rests(e)
  BY <1>3, <1>5, <1>6 DEF Keeps
<1>8. Rests(d) /\ d.fpgairlen \in {0, FpgaIrLen} /\ Keeps(e, d, {})
  BY <1>1, <1>7 DEF Rests, IsChain, ChainFields, Keeps, Kept
<1>9. Keeps(c, d, {})
  BY <1>7, <1>8 DEF Keeps
<1>. QED BY <1>3, <1>8, <1>9 DEF Recognized

\* A chain that has been recognized is ready for commands.
LEMMA RecognizedReady ==
  ASSUME NEW c, NEW d, Recognized(c, d)
  PROVE  Valid(d) => Ready(d)
  BY DEF Recognized, Valid, Ready

\* An instruction and its data.
LEMMA Loaded ==
  ASSUME NEW c, Ready(c), NEW value, NEW length \in Nat \ {0}, NEW x,
         NEW e, e = Do(c, Instruction(value)), NEW d, d = Do(e, Data(length, x))
  PROVE  Executing(d, value) /\ d.pending = TRUE /\ Effect(c, d, value, x)
<1>1. Executing(e, value) /\ e.pending = TRUE /\ Keeps(c, e, {})
  BY InstructionDone
<1>2. Executing(d, value) /\ d.pending = e.pending /\ Effect(e, d, value, x)
  BY <1>1, DataDone
<1>3. \A fields : Keeps(e, d, fields) => Keeps(c, d, fields)
  BY <1>1 DEF Keeps
<1>4. Effect(c, d, value, x)
  BY <1>2, <1>3 DEF Effect
<1>. QED BY <1>1, <1>2, <1>4

\* Resetting the chain and recognizing it.
LEMMA ResetIdentified ==
  ASSUME NEW c, Rests(c), NEW d \in Validate(After({c}, <<Command("TLR")>>))
  PROVE  Recognized(c, d)
<1>. DEFINE commands == <<Command("TLR")>>
<1>1. Len(commands) = 1 /\ commands[1] = Command("TLR") /\ Len(commands) \in Nat
  OBVIOUS
<1>. HIDE DEF commands
<1>2. ASSUME NEW e \in After({c}, commands) PROVE Rests(e) /\ Keeps(c, e, {})
  <2>1. Leads(c, commands, e)
    BY <1>1, AfterLeads
  <2>2. e = Do(c, Command("TLR"))
    BY <1>1, <2>1 DEF Leads
  <2>. QED BY <2>2, TlrReset
<1>3. d \in Validate(After({c}, commands))
  BY DEF commands
<1>4. PICK e \in After({c}, commands) : Recognized(e, d)
  BY <1>2, <1>3, Identified
<1>. QED BY <1>2, <1>4 DEF Recognized, Keeps

\* A session for reading enables the memory if the chain is recognized.
LEMMA ReadStartFacts ==
  ASSUME NEW c, Rests(c), NEW d \in ReadStart(c)
  PROVE  /\ Rests(d) /\ d.fpgairlen \in {0, FpgaIrLen} /\ Keeps(c, d, {"enabled"})
         /\ Valid(d) => Ready(d) /\ d.enabled = 0
         /\ ~Valid(d) => d.enabled = c.enabled
<1>. DEFINE commands == <<Instruction("ISC_ENABLE"), Data(8, 0)>>
<1>1. Len(commands) = 2 /\ commands[1] = Instruction("ISC_ENABLE") /\ commands[2] = Data(8, 0) /\ Len(commands) \in Nat
  OBVIOUS
<1>2. d \in AfterIfValid(Validate(After({c}, <<Command("TLR")>>)), commands)
  BY DEF ReadStart
<1>. HIDE DEF commands
<1>3. \/ Recognized(c, d) /\ ~Valid(d)
      \/ \E b : Recognized(c, b) /\ Valid(b) /\ Leads(b, commands, d)
  BY <1>1, <1>2, IfValidLeads, ResetIdentified
<1>4. CASE Recognized(c, d) /\ ~Valid(d)
  BY <1>4 DEF Recognized, Keeps, Kept
<1>5. ASSUME NEW b, Recognized(c, b), Valid(b), Leads(b, commands, d)
      PROVE  Ready(d) /\ Valid(d) /\ d.enabled = 0 /\ Keeps(c, d, {"enabled"})
  <2>1. PICK e : e = Do(b, Instruction("ISC_ENABLE")) /\ d = Do(e, Data(8, 0))
    BY <1>1, <1>5 DEF Leads
  <2>2. Ready(b) /\ 8 \in Nat \ {0}
    BY <1>5, RecognizedReady
  <2>3. Executing(d, "ISC_ENABLE") /\ Effect(b, d, "ISC_ENABLE", 0)
    BY <2>1, <2>2, Loaded
  <2>4. Ready(d) /\ d.enabled = 0 /\ Keeps(b, d, {"enabled"})
    BY <2>3 DEF Executing, Effect
  <2>5. Valid(d)
    BY <1>5, <2>2, <2>4 DEF Valid, Ready
  <2>6. Keeps(c, d, {"enabled"})
    BY <1>5, <2>4 DEF Recognized, Keeps
  <2>. QED BY <2>4, <2>5, <2>6
<1>. QED BY <1>3, <1>4, <1>5 DEF Ready

\* A read leaves the contents of the memory from the address on.
LEMMA XcfReadFacts ==
  ASSUME NEW c, Ready(c), c.enabled # -1, NEW place \in Int, NEW size \in Nat \ {0}, NEW d \in XcfRead(c, place, size)
  PROVE  /\ Ready(d) /\ Keeps(c, d, {"address"})
         /\ d.out = [i \in 1 .. Cardinality(DOMAIN c.memory) - place |-> c.memory[place + i - 1]]
<1>. DEFINE commands == <<Instruction("ISC_ADDRESS_SHIFT"), Data(24, place), Clocks(15),
                          Instruction("XSC_READ"), Clocks(15), Data(8 * size, 0)>>
<1>1. /\ Len(commands) = 6 /\ Len(commands) \in Nat
      /\ commands[1] = Instruction("ISC_ADDRESS_SHIFT") /\ commands[2] = Data(24, place) /\ commands[3] = Clocks(15)
      /\ commands[4] = Instruction("XSC_READ") /\ commands[5] = Clocks(15) /\ commands[6] = Data(8 * size, 0)
  OBVIOUS
<1>2. d \in After({c}, commands)
  BY DEF XcfRead
<1>. HIDE DEF commands
<1>3. Leads(c, commands, d)
  BY <1>1, <1>2, AfterLeads
<1>4. PICK c1, c2, c3, c4, c5 :
        /\ c1 = Do(c, Instruction("ISC_ADDRESS_SHIFT")) /\ c2 = Do(c1, Data(24, place)) /\ c3 = Do(c2, Clocks(15))
        /\ c4 = Do(c3, Instruction("XSC_READ")) /\ c5 = Do(c4, Clocks(15)) /\ d = Do(c5, Data(8 * size, 0))
  BY <1>1, <1>3 DEF Leads
<1>5. 24 \in Nat \ {0} /\ 8 * size \in Nat \ {0} /\ 15 \in Nat /\ 15 > 1
  OBVIOUS
<1>6. Executing(c2, "ISC_ADDRESS_SHIFT") /\ Keeps(c, c2, {"address"}) /\ c2.address = place
  <2>1. Executing(c2, "ISC_ADDRESS_SHIFT") /\ Effect(c, c2, "ISC_ADDRESS_SHIFT", place)
    BY <1>4, <1>5, Loaded
  <2>. QED BY <2>1 DEF Effect
<1>7. Executing(c3, "ISC_ADDRESS_SHIFT") /\ Keeps(c2, c3, {})
  BY <1>4, <1>5, <1>6, ClocksRun
<1>8. Executing(c4, "XSC_READ") /\ Keeps(c3, c4, {})
  <2>1. Ready(c3)
    BY <1>7 DEF Executing
  <2>. QED BY <1>4, <2>1, InstructionDone
<1>9. Executing(c5, "XSC_READ") /\ Keeps(c4, c5, {})
  BY <1>4, <1>5, <1>8, ClocksRun
<1>10. Executing(d, "XSC_READ") /\ d.out = Capture(c5) /\ Keeps(c5, d, {})
  <2>1. Executing(d, "XSC_READ") /\ d.out = Capture(c5) /\ Effect(c5, d, "XSC_READ", 0)
    BY <1>4, <1>5, <1>9, DataDone
  <2>. QED BY <2>1 DEF Effect, Configuration
<1>11. Keeps(c, c5, {"address"}) /\ c5.address = place
  BY <1>6, <1>7, <1>8, <1>9 DEF Keeps, Kept
<1>12. c5.memory = c.memory /\ c5.enabled # -1
  BY <1>11 DEF Keeps, Kept
<1>13. Capture(c5) = [i \in 1 .. Cardinality(DOMAIN c5.memory) - c5.address |-> c5.memory[c5.address + i - 1]]
  BY <1>9, <1>12 DEF Capture, Executing
<1>14. Keeps(c, d, {"address"})
  BY <1>10, <1>11 DEF Keeps
<1>. QED BY <1>10, <1>11, <1>12, <1>13, <1>14 DEF Executing

\* The end of a session disables the memory.
LEMMA Disabled ==
  ASSUME NEW b, Ready(b), NEW n \in Nat, n > 1,
         NEW c1, c1 = Do(b, Instruction("ISC_DISABLE")), NEW c2, c2 = Do(c1, Clocks(n)),
         NEW d, d = Do(c2, Command("TLR"))
  PROVE  Ready(d) /\ Keeps(b, d, {"enabled"}) /\ d.enabled = -1
<1>1. Executing(c1, "ISC_DISABLE") /\ c1.pending = TRUE /\ Keeps(b, c1, {})
  BY InstructionDone
<1>2. Executing(c2, "ISC_DISABLE") /\ Keeps(c1, c2, {"enabled"}) /\ c2.enabled = -1
  BY <1>1, ClocksRun
<1>3. Rests(c2) /\ c2.fpgairlen = FpgaIrLen
  BY <1>2 DEF Executing, Ready
<1>4. Rests(d) /\ Keeps(c2, d, {}) /\ d.fpgairlen = FpgaIrLen
  BY <1>3, TlrReset
<1>5. Keeps(b, d, {"enabled"}) /\ d.enabled = c2.enabled
  BY <1>1, <1>2, <1>4 DEF Keeps, Kept
<1>. QED BY <1>2, <1>4, <1>5 DEF Ready

\* Reading the status changes nothing.
LEMMA StatusRead ==
  ASSUME NEW c, Ready(c), NEW e, e = Do(c, Instruction("XSC_OP_STATUS")), NEW d, d = Do(e, Data(8, 0))
  PROVE  Ready(d) /\ Keeps(c, d, {})
<1>1. 8 \in Nat \ {0}
  OBVIOUS
<1>2. Executing(d, "XSC_OP_STATUS") /\ Effect(c, d, "XSC_OP_STATUS", 0)
  BY <1>1, Loaded
<1>. QED BY <1>2 DEF Executing, Effect, Configuration

\* The end of a session for reading.
LEMMA ReadEndFacts ==
  ASSUME NEW c, Ready(c), NEW d \in ReadEnd(c)
  PROVE  Ready(d) /\ Keeps(c, d, {"enabled"}) /\ d.enabled = -1
<1>. DEFINE commands == <<Instruction("XSC_OP_STATUS"), Data(8, 0),
                          Instruction("ISC_DISABLE"), Clocks(15), Command("TLR")>>
<1>1. /\ Len(commands) = 5 /\ Len(commands) \in Nat
      /\ commands[1] = Instruction("XSC_OP_STATUS") /\ commands[2] = Data(8, 0)
      /\ commands[3] = Instruction("ISC_DISABLE") /\ commands[4] = Clocks(15) /\ commands[5] = Command("TLR")
  OBVIOUS
<1>2. d \in After({c}, commands)
  BY DEF ReadEnd
<1>. HIDE DEF commands
<1>3. Leads(c, commands, d)
  BY <1>1, <1>2, AfterLeads
<1>4. PICK c1, c2, c3, c4 :
        /\ c1 = Do(c, Instruction("XSC_OP_STATUS")) /\ c2 = Do(c1, Data(8, 0))
        /\ c3 = Do(c2, Instruction("ISC_DISABLE")) /\ c4 = Do(c3, Clocks(15)) /\ d = Do(c4, Command("TLR"))
  BY <1>1, <1>3 DEF Leads
<1>5. Ready(c2) /\ Keeps(c, c2, {})
  BY <1>4, StatusRead
<1>6. 15 \in Nat /\ 15 > 1
  OBVIOUS
<1>7. Ready(d) /\ Keeps(c2, d, {"enabled"}) /\ d.enabled = -1
  BY <1>4, <1>5, <1>6, Disabled
<1>8. Keeps(c, d, {"enabled"})
  BY <1>5, <1>7 DEF Keeps
<1>. QED BY <1>7, <1>8

\* The memory is enabled with a value.
LEMMA Enabled ==
  ASSUME NEW c, Ready(c), NEW x, NEW e, e = Do(c, Instruction("ISC_ENABLE")), NEW d, d = Do(e, Data(8, x))
  PROVE  Ready(d) /\ Keeps(c, d, {"enabled"}) /\ d.enabled = x
<1>1. 8 \in Nat \ {0}
  OBVIOUS
<1>2. Executing(d, "ISC_ENABLE") /\ Effect(c, d, "ISC_ENABLE", x)
  BY <1>1, Loaded
<1>. QED BY <1>2 DEF Executing, Effect

LEMMA IdcodeRead ==
  ASSUME NEW c, Ready(c), NEW e, e = Do(c, Instruction("IDCODE")), NEW d, d = Do(e, Data(32, 0))
  PROVE  Ready(d) /\ Keeps(c, d, {})
<1>1. 32 \in Nat \ {0}
  OBVIOUS
<1>2. Executing(d, "IDCODE") /\ Effect(c, d, "IDCODE", 0)
  BY <1>1, Loaded
<1>. QED BY <1>2 DEF Executing, Effect, Configuration

LEMMA MemoryUnlocked ==
  ASSUME NEW c, Ready(c), NEW e, e = Do(c, Instruction("XSC_UNLOCK")), NEW d, d = Do(e, Data(24, 63))
  PROVE  Ready(d) /\ Keeps(c, d, {"unlocked"}) /\ d.unlocked
<1>1. 24 \in Nat \ {0}
  OBVIOUS
<1>2. Executing(d, "XSC_UNLOCK") /\ Effect(c, d, "XSC_UNLOCK", 63)
  BY <1>1, Loaded
<1>. QED BY <1>2 DEF Executing, Effect

\* A register of the configuration is shifted in and programmed, which is not
\* about the memory.
LEMMA RegisterProgrammed ==
  ASSUME NEW c, Ready(c), NEW register \in Configuration, NEW length \in Nat \ {0}, NEW n \in Nat, n > 1,
         NEW c1, c1 = Do(c, Instruction(register)), NEW c2, c2 = Do(c1, Data(length, 0)),
         NEW c3, c3 = Do(c2, Instruction("ISC_PROGRAM")), NEW d, d = Do(c3, Clocks(n))
  PROVE  Ready(d) /\ Keeps(c, d, {"data"}) /\ d.data = <<>>
<1>1. Executing(c2, register) /\ Effect(c, c2, register, 0)
  BY Loaded
<1>2. Ready(c2) /\ Keeps(c, c2, {"data"}) /\ c2.data = <<>>
  BY <1>1 DEF Executing, Effect
<1>3. Executing(c3, "ISC_PROGRAM") /\ Keeps(c2, c3, {})
  BY <1>2, InstructionDone
<1>4. c3.data = <<>>
  BY <1>2, <1>3 DEF Keeps, Kept
<1>5. Executing(d, "ISC_PROGRAM") /\ Keeps(c3, d, {})
  BY <1>3, <1>4, ClocksRun
<1>6. Keeps(c, d, {"data"}) /\ d.data = c3.data
  BY <1>2, <1>3, <1>5 DEF Keeps, Kept
<1>. QED BY <1>4, <1>5, <1>6 DEF Executing

EraseClocks == 140000000

\* The commands of ProgStart, and the chains between them.
ProgSequence ==
  <<Instruction("ISC_ENABLE"), Data(8, 3), Instruction("IDCODE"), Data(32, 0), Command("TLR"),
    Instruction("ISC_ENABLE"), Data(8, 208), Instruction("XSC_UNLOCK"), Data(24, 63),
    Command("ISC_ERASE"), Clocks(EraseClocks), Instruction("IDCODE"), Data(32, 0),
    Instruction("ISC_ENABLE"), Data(8, 3), Instruction("XSC_DATA_BTC"), Data(32, 0),
    Instruction("ISC_PROGRAM"), Clocks(120), Instruction("BYPASS")>>

ProgRun(b, d, r) ==
  /\ r[0] = b /\ r[20] = d
  /\ r[1] = Do(r[0], Instruction("ISC_ENABLE")) /\ r[2] = Do(r[1], Data(8, 3))
  /\ r[3] = Do(r[2], Instruction("IDCODE")) /\ r[4] = Do(r[3], Data(32, 0))
  /\ r[5] = Do(r[4], Command("TLR"))
  /\ r[6] = Do(r[5], Instruction("ISC_ENABLE")) /\ r[7] = Do(r[6], Data(8, 208))
  /\ r[8] = Do(r[7], Instruction("XSC_UNLOCK")) /\ r[9] = Do(r[8], Data(24, 63))
  /\ r[10] = Do(r[9], Command("ISC_ERASE")) /\ r[11] = Do(r[10], Clocks(EraseClocks))
  /\ r[12] = Do(r[11], Instruction("IDCODE")) /\ r[13] = Do(r[12], Data(32, 0))
  /\ r[14] = Do(r[13], Instruction("ISC_ENABLE")) /\ r[15] = Do(r[14], Data(8, 3))
  /\ r[16] = Do(r[15], Instruction("XSC_DATA_BTC")) /\ r[17] = Do(r[16], Data(32, 0))
  /\ r[18] = Do(r[17], Instruction("ISC_PROGRAM")) /\ r[19] = Do(r[18], Clocks(120))
  /\ r[20] = Do(r[19], Instruction("BYPASS"))

\* The sequence of ProgStart, step by step.
LEMMA ProgCommands ==
  ASSUME NEW b, NEW d, Leads(b, ProgSequence, d)
  PROVE  \E r : ProgRun(b, d, r)
<1>1. PICK commands : commands = ProgSequence
  OBVIOUS
<1>2. /\ Len(commands) = 20
      /\ commands[1] = Instruction("ISC_ENABLE") /\ commands[2] = Data(8, 3)
      /\ commands[3] = Instruction("IDCODE") /\ commands[4] = Data(32, 0) /\ commands[5] = Command("TLR")
      /\ commands[6] = Instruction("ISC_ENABLE") /\ commands[7] = Data(8, 208)
      /\ commands[8] = Instruction("XSC_UNLOCK") /\ commands[9] = Data(24, 63)
      /\ commands[10] = Command("ISC_ERASE") /\ commands[11] = Clocks(EraseClocks)
      /\ commands[12] = Instruction("IDCODE") /\ commands[13] = Data(32, 0)
      /\ commands[14] = Instruction("ISC_ENABLE") /\ commands[15] = Data(8, 3)
      /\ commands[16] = Instruction("XSC_DATA_BTC") /\ commands[17] = Data(32, 0)
      /\ commands[18] = Instruction("ISC_PROGRAM") /\ commands[19] = Clocks(120)
      /\ commands[20] = Instruction("BYPASS")
  BY <1>1 DEF ProgSequence
<1>3. Leads(b, commands, d)
  BY <1>1
<1>4. PICK r : r[0] = b /\ r[20] = d /\ \A i \in 1 .. 20 : r[i] = Do(r[i - 1], commands[i])
  BY <1>2, <1>3 DEF Leads
<1>5. /\ r[1] = Do(r[0], commands[1]) /\ r[2] = Do(r[1], commands[2]) /\ r[3] = Do(r[2], commands[3])
      /\ r[4] = Do(r[3], commands[4]) /\ r[5] = Do(r[4], commands[5]) /\ r[6] = Do(r[5], commands[6])
      /\ r[7] = Do(r[6], commands[7]) /\ r[8] = Do(r[7], commands[8]) /\ r[9] = Do(r[8], commands[9])
      /\ r[10] = Do(r[9], commands[10])
  BY <1>4
<1>6. /\ r[11] = Do(r[10], commands[11]) /\ r[12] = Do(r[11], commands[12]) /\ r[13] = Do(r[12], commands[13])
      /\ r[14] = Do(r[13], commands[14]) /\ r[15] = Do(r[14], commands[15]) /\ r[16] = Do(r[15], commands[16])
      /\ r[17] = Do(r[16], commands[17]) /\ r[18] = Do(r[17], commands[18]) /\ r[19] = Do(r[18], commands[19])
      /\ r[20] = Do(r[19], commands[20])
  BY <1>4
<1>7. r[0] = b /\ r[20] = d
  BY <1>4
<1>8. /\ r[1] = Do(r[0], Instruction("ISC_ENABLE")) /\ r[2] = Do(r[1], Data(8, 3))
      /\ r[3] = Do(r[2], Instruction("IDCODE")) /\ r[4] = Do(r[3], Data(32, 0))
      /\ r[5] = Do(r[4], Command("TLR"))
      /\ r[6] = Do(r[5], Instruction("ISC_ENABLE")) /\ r[7] = Do(r[6], Data(8, 208))
      /\ r[8] = Do(r[7], Instruction("XSC_UNLOCK")) /\ r[9] = Do(r[8], Data(24, 63))
      /\ r[10] = Do(r[9], Command("ISC_ERASE"))
  BY <1>2, <1>5, Zenon
<1>9. /\ r[11] = Do(r[10], Clocks(EraseClocks))
      /\ r[12] = Do(r[11], Instruction("IDCODE")) /\ r[13] = Do(r[12], Data(32, 0))
      /\ r[14] = Do(r[13], Instruction("ISC_ENABLE")) /\ r[15] = Do(r[14], Data(8, 3))
      /\ r[16] = Do(r[15], Instruction("XSC_DATA_BTC")) /\ r[17] = Do(r[16], Data(32, 0))
      /\ r[18] = Do(r[17], Instruction("ISC_PROGRAM")) /\ r[19] = Do(r[18], Clocks(120))
      /\ r[20] = Do(r[19], Instruction("BYPASS"))
  BY <1>2, <1>6, Zenon
<1>. QED BY <1>7, <1>8, <1>9 DEF ProgRun

\* The memory is enabled with the value that permits it, unlocked and erased.
LEMMA ProgStartFacts ==
  ASSUME NEW c, Rests(c), NEW d \in ProgStart(c)
  PROVE  /\ Rests(d) /\ d.fpgairlen \in {0, FpgaIrLen}
         /\ ~Valid(d) => Keeps(c, d, {})
         /\ Valid(d) => Ready(d) /\ d.enabled = 3 /\ d.memory = [a \in DOMAIN c.memory |-> Erased]
<1>1. Len(ProgSequence) \in Nat
  BY DEF ProgSequence
<1>2. d \in AfterIfValid(Validate({c}), ProgSequence)
  BY DEF ProgStart, ProgSequence, EraseClocks
<1>3. \A b \in Validate({c}) : Recognized(c, b)
  BY Identified
<1>4. \/ Recognized(c, d) /\ ~Valid(d)
      \/ \E b : Recognized(c, b) /\ Valid(b) /\ Leads(b, ProgSequence, d)
  BY <1>1, <1>2, <1>3, IfValidLeads
<1>5. CASE Recognized(c, d) /\ ~Valid(d)
  BY <1>5 DEF Recognized
<1>6. ASSUME NEW b, Recognized(c, b), Valid(b), Leads(b, ProgSequence, d)
      PROVE  Ready(d) /\ Valid(d) /\ d.enabled = 3 /\ d.memory = [a \in DOMAIN c.memory |-> Erased]
  <2>1. PICK r : ProgRun(b, d, r)
    BY <1>6, ProgCommands
  <2>2. Ready(b)
    BY <1>6, RecognizedReady
  <2>3. Ready(r[2]) /\ Keeps(b, r[2], {"enabled"})
    BY <2>1, <2>2, Enabled DEF ProgRun
  <2>4. Ready(r[4]) /\ Keeps(r[2], r[4], {})
    BY <2>1, <2>3, IdcodeRead DEF ProgRun
  <2>5. Ready(r[5]) /\ Keeps(r[4], r[5], {})
    BY <2>1, <2>4, TlrReset DEF ProgRun, Ready
  <2>6. r[5].memory = c.memory
    BY <1>6, <2>3, <2>4, <2>5 DEF Keeps, Kept, Recognized
  <2>7. Ready(r[11]) /\ r[11].memory = [a \in DOMAIN r[5].memory |-> Erased]
    <3>1. Ready(r[7]) /\ Keeps(r[5], r[7], {"enabled"}) /\ r[7].enabled = 208
      BY <2>1, <2>5, Enabled DEF ProgRun
    <3>2. Ready(r[9]) /\ Keeps(r[7], r[9], {"unlocked"}) /\ r[9].unlocked
      <4>1. r[8] = Do(r[7], Instruction("XSC_UNLOCK")) /\ r[9] = Do(r[8], Data(24, 63))
        BY <2>1 DEF ProgRun
      <4>2. Ready(r[9]) /\ Keeps(r[7], r[9], {"unlocked"})
        BY <3>1, <4>1, MemoryUnlocked
      <4>3. r[9].unlocked
        BY <3>1, <4>1, MemoryUnlocked
      <4>. QED BY <4>2, <4>3
    <3>3. Executing(r[10], "ISC_ERASE") /\ r[10].pending = TRUE /\ Keeps(r[9], r[10], {})
      BY <2>1, <3>2, EraseStarts DEF ProgRun
    <3>4. r[10].memory = r[5].memory /\ r[10].enabled = 208 /\ r[10].unlocked
      BY <3>1, <3>2, <3>3 DEF Keeps, Kept
    <3>5. EraseClocks \in Nat /\ EraseClocks > 1
      BY DEF EraseClocks
    <3>6. r[11] = Do(r[10], Clocks(EraseClocks))
      BY <2>1 DEF ProgRun
    <3>7. Executing(r[11], "ISC_ERASE") /\ MemoryErased(r[10], r[11])
      <4>1. r[10].enabled # -1 /\ r[10].unlocked /\ r[10].pending
        BY <3>3, <3>4
      <4>. QED BY <3>3, <3>5, <3>6, <4>1, ClocksRun
    <3>. QED BY <3>4, <3>7 DEF Executing, MemoryErased
  <2>8. Ready(r[13]) /\ Keeps(r[11], r[13], {})
    BY <2>1, <2>7, IdcodeRead DEF ProgRun
  <2>9. Ready(r[15]) /\ Keeps(r[13], r[15], {"enabled"}) /\ r[15].enabled = 3
    BY <2>1, <2>8, Enabled DEF ProgRun
  <2>10. Ready(r[19]) /\ Keeps(r[15], r[19], {"data"})
    <3>1. "XSC_DATA_BTC" \in Configuration /\ 32 \in Nat \ {0} /\ 120 \in Nat /\ 120 > 1
      BY DEF Configuration
    <3>. QED BY <2>1, <2>9, <3>1, RegisterProgrammed DEF ProgRun
  <2>11. Ready(r[20]) /\ Keeps(r[19], r[20], {})
    <3>1. Executing(r[20], "BYPASS") /\ Keeps(r[19], r[20], {})
      BY <2>1, <2>10, InstructionDone DEF ProgRun
    <3>. QED BY <3>1 DEF Executing
  <2>12. r[20].memory = r[11].memory /\ r[20].enabled = 3
    BY <2>8, <2>9, <2>10, <2>11 DEF Keeps, Kept
  <2>13. d = r[20] /\ d.fpgairlen = FpgaIrLen /\ Valid(b) /\ FpgaIrLen # 0
    BY <2>1, <2>11, PinLengths, <1>6 DEF Ready, ProgRun
  <2>. QED BY <2>6, <2>7, <2>11, <2>12, <2>13 DEF Valid
<1>. QED BY <1>4, <1>5, <1>6 DEF Ready

\* Sequences of two, four and six members.
Two(u, a, b) == Len(u) = 2 /\ u[1] = a /\ u[2] = b
Four(u, a, b, x, y) == Len(u) = 4 /\ u[1] = a /\ u[2] = b /\ u[3] = x /\ u[4] = y
Six(u, a, b, g, h, x, y) ==
  Len(u) = 6 /\ u[1] = a /\ u[2] = b /\ u[3] = g /\ u[4] = h /\ u[5] = x /\ u[6] = y

LEMMA TwoSteps ==
  ASSUME NEW a, NEW b, NEW u, u = <<a, b>>
  PROVE  IsSteps(u) /\ Two(u, a, b)
<1>1. u \in Seq({a, b}) /\ Len(u) = 2 /\ u[1] = a /\ u[2] = b
  OBVIOUS
<1>. QED BY <1>1 DEF IsSteps, Two

\* Two more.
LEMMA TwoMoreJoined ==
  ASSUME NEW u, IsSteps(u), NEW t, IsSteps(t), NEW x, NEW y, Two(t, x, y), NEW v, v = u \o t
  PROVE  /\ IsSteps(v)
         /\ \A a, b : Two(u, a, b) => Four(v, a, b, x, y)
         /\ \A a, b, g, h : Four(u, a, b, g, h) => Six(v, a, b, g, h, x, y)
<1>1. PICK S : u \in Seq(S) /\ t \in Seq(S)
  <2>1. PICK A, B : u \in Seq(A) /\ t \in Seq(B)
    BY DEF IsSteps
  <2>2. u \in Seq(A \cup B) /\ t \in Seq(A \cup B)
    BY <2>1
  <2>. QED BY <2>2
<1>2. /\ v \in Seq(S) /\ Len(v) = Len(u) + Len(t)
      /\ \A i \in 1 .. Len(u) : v[i] = u[i]
      /\ \A i \in 1 .. Len(t) : v[Len(u) + i] = t[i]
  BY <1>1, Joined
<1>3. ASSUME NEW a, NEW b, Two(u, a, b) PROVE Four(v, a, b, x, y)
  <2>1. Len(v) = 4 /\ v[1] = u[1] /\ v[2] = u[2] /\ v[2 + 1] = t[1] /\ v[2 + 2] = t[2]
    BY <1>2, <1>3 DEF Two
  <2>. QED BY <1>3, <2>1 DEF Two, Four
<1>4. ASSUME NEW a, NEW b, NEW g, NEW h, Four(u, a, b, g, h) PROVE Six(v, a, b, g, h, x, y)
  <2>1. /\ Len(v) = 6 /\ v[1] = u[1] /\ v[2] = u[2] /\ v[3] = u[3] /\ v[4] = u[4]
        /\ v[4 + 1] = t[1] /\ v[4 + 2] = t[2]
    BY <1>2, <1>4 DEF Two, Four
  <2>. QED BY <1>4, <2>1 DEF Two, Four, Six
<1>. QED BY <1>2, <1>3, <1>4 DEF IsSteps

-----------------------------------------------------------------------------
(* Programming a page.                                                     *)

Block(bytes, n) == SubSeq(bytes, n * BlockSize + 1, (n + 1) * BlockSize)

BlockCommands(bytes, place, n) ==
  <<Instruction("ISC_DATA_SHIFT"), Data(8 * BlockSize, Block(bytes, n))>>
    \o Addressed(place, n) \o <<Instruction("ISC_PROGRAM"), Clocks(1000)>>

\* The place where the next block goes.
NextPlace(c, place, n) == IF n = 0 THEN place ELSE c.address

\* A block of a page is loaded, with its address if it is the first one.
LEMMA BlockLoaded ==
  ASSUME NEW c, Ready(c), NEW bytes, NEW place, NEW n \in Nat, NEW d, Leads(c, BlockCommands(bytes, place, n), d)
  PROVE  \E e, f : /\ Ready(e) /\ Keeps(c, e, {"data", "address"})
                   /\ e.data = Block(bytes, n) /\ e.address = NextPlace(c, place, n)
                   /\ f = Do(e, Instruction("ISC_PROGRAM")) /\ d = Do(f, Clocks(1000))
<1>1. 8 * BlockSize \in Nat \ {0} /\ 24 \in Nat \ {0}
  BY PinLengths
<1>2. PICK a, b, x, y :
        /\ a = Instruction("ISC_DATA_SHIFT") /\ b = Data(8 * BlockSize, Block(bytes, n))
        /\ x = Instruction("ISC_PROGRAM") /\ y = Clocks(1000)
  OBVIOUS
<1>3. PICK s, t, u, v : s = <<a, b>> /\ t = <<x, y>> /\ u = s \o Addressed(place, n) /\ v = u \o t
  OBVIOUS
<1>4. Leads(c, v, d)
  <2>1. v = BlockCommands(bytes, place, n)
    BY <1>2, <1>3 DEF BlockCommands
  <2>. QED BY <2>1
<1>5. ASSUME NEW c1, NEW c2, c1 = Do(c, Instruction("ISC_DATA_SHIFT")), c2 = Do(c1, Data(8 * BlockSize, Block(bytes, n)))
      PROVE  Ready(c2) /\ Keeps(c, c2, {"data"}) /\ c2.data = Block(bytes, n)
  <2>1. Executing(c2, "ISC_DATA_SHIFT") /\ Effect(c, c2, "ISC_DATA_SHIFT", Block(bytes, n))
    BY <1>1, <1>5, Loaded
  <2>. QED BY <2>1 DEF Executing, Effect
<1>6. CASE n = 0
  <2>1. PICK g, h, w : g = Instruction("ISC_ADDRESS_SHIFT") /\ h = Data(24, place) /\ w = <<g, h>> /\ u = s \o w
    BY <1>3, <1>6 DEF Addressed
  <2>2. IsSteps(u) /\ Four(u, a, b, g, h)
    BY <1>3, <2>1, TwoSteps, TwoMoreJoined
  <2>3. Six(v, a, b, g, h, x, y)
    BY <1>3, <2>2, TwoSteps, TwoMoreJoined
  <2>4. PICK c1, c2, c3, c4, c5 :
          /\ c1 = Do(c, v[1]) /\ c2 = Do(c1, v[2]) /\ c3 = Do(c2, v[3])
          /\ c4 = Do(c3, v[4]) /\ c5 = Do(c4, v[5]) /\ d = Do(c5, v[6])
    BY <1>4, <2>3 DEF Leads, Six
  <2>5. Ready(c2) /\ Keeps(c, c2, {"data"}) /\ c2.data = Block(bytes, n)
    BY <1>2, <1>5, <2>3, <2>4 DEF Six
  <2>6. Ready(c4) /\ Keeps(c2, c4, {"address"}) /\ c4.address = place
    <3>1. Executing(c4, "ISC_ADDRESS_SHIFT") /\ Effect(c2, c4, "ISC_ADDRESS_SHIFT", place)
      <4>1. c3 = Do(c2, Instruction("ISC_ADDRESS_SHIFT")) /\ c4 = Do(c3, Data(24, place))
        BY <2>1, <2>3, <2>4 DEF Six
      <4>. QED BY <1>1, <2>5, <4>1, Loaded
    <3>. QED BY <3>1 DEF Executing, Effect
  <2>7. Keeps(c, c4, {"data", "address"}) /\ c4.data = Block(bytes, n) /\ c4.address = NextPlace(c, place, n)
    BY <1>6, <2>5, <2>6 DEF Keeps, Kept, NextPlace
  <2>. QED BY <1>2, <2>3, <2>4, <2>6, <2>7 DEF Six
<1>7. CASE n # 0
  <2>1. IsSteps(u) /\ Two(u, a, b)
    <3>1. u = s \o <<>>
      BY <1>3, <1>7 DEF Addressed
    <3>2. u = s
      BY <1>3, <3>1, TwoSteps, NothingJoined
    <3>. QED BY <1>3, <3>2, TwoSteps
  <2>2. Four(v, a, b, x, y)
    BY <1>3, <2>1, TwoSteps, TwoMoreJoined
  <2>3. PICK c1, c2, c3 : c1 = Do(c, v[1]) /\ c2 = Do(c1, v[2]) /\ c3 = Do(c2, v[3]) /\ d = Do(c3, v[4])
    BY <1>4, <2>2 DEF Leads, Four
  <2>4. Ready(c2) /\ Keeps(c, c2, {"data"}) /\ c2.data = Block(bytes, n)
    BY <1>2, <1>5, <2>2, <2>3 DEF Four
  <2>5. Keeps(c, c2, {"data", "address"}) /\ c2.address = NextPlace(c, place, n)
    BY <1>7, <2>4 DEF Keeps, Kept, NextPlace
  <2>. QED BY <1>2, <2>2, <2>3, <2>4, <2>5 DEF Four
<1>. QED BY <1>6, <1>7

\* The memory after bytes have been programmed from the place on.
WithBytes(memory, bytes, place, count) ==
  [a \in DOMAIN memory |->
     IF a \in place .. place + count - 1 THEN ProgramByte(memory[a], bytes[a - place + 1]) ELSE memory[a]]

\* The block n of a page begins after k bytes.
Starts(n, k) == k = n * BlockSize /\ k + BlockSize <= PageSize

IsPage(bytes) == bytes = [i \in 1 .. PageSize |-> bytes[i]]

\* The bytes of a block.
LEMMA BlockFacts ==
  ASSUME NEW bytes, IsPage(bytes), NEW n \in Nat, NEW k \in Nat, Starts(n, k)
  PROVE  /\ Len(Block(bytes, n)) = BlockSize /\ Block(bytes, n) # <<>>
         /\ \A i \in 1 .. BlockSize : Block(bytes, n)[i] = bytes[k + i]
<1>. DEFINE S == {bytes[i] : i \in 1 .. PageSize}
<1>0. PICK b : b = Block(bytes, n)
  OBVIOUS
<1>1. k \in Nat /\ BlockSize \in Nat \ {0} /\ PageSize \in Nat \ {0}
  BY PinLengths, Sizes
<1>2. n * BlockSize + 1 = k + 1 /\ (n + 1) * BlockSize = k + BlockSize /\ k + BlockSize <= PageSize
  BY <1>1 DEF Starts
<1>3. b = SubSeq(bytes, k + 1, k + BlockSize)
  BY <1>0, <1>2 DEF Block
<1>4. \A i \in k + 1 .. k + BlockSize : bytes[i] \in S
  BY <1>1, <1>2
<1>. HIDE DEF S
<1>5. k + 1 \in Int /\ k + BlockSize \in Int /\ k + 1 <= k + BlockSize
      /\ (k + BlockSize) - (k + 1) + 1 = BlockSize
  BY <1>1
<1>6. /\ b \in Seq(S) /\ Len(b) = BlockSize
      /\ \A i \in 1 .. BlockSize : b[i] = bytes[(k + 1) + i - 1]
  <2>1. PICK from \in Int, to \in Int : from = k + 1 /\ to = k + BlockSize
    BY <1>5
  <2>2. /\ SubSeq(bytes, from, to) \in Seq(S)
        /\ Len(SubSeq(bytes, from, to)) = IF from <= to THEN to - from + 1 ELSE 0
        /\ \A i \in 1 .. to - from + 1 : SubSeq(bytes, from, to)[i] = bytes[from + i - 1]
    <3>1. \A i \in from .. to : bytes[i] \in S
      BY <1>4, <2>1
    <3>. QED BY <3>1, SubSeqProperties
  <2>3. from <= to /\ to - from + 1 = BlockSize /\ b = SubSeq(bytes, from, to)
    BY <1>3, <1>5, <2>1
  <2>. QED BY <2>1, <2>2, <2>3
<1>7. \A i \in 1 .. BlockSize : (k + 1) + i - 1 = k + i
  BY <1>1
<1>. QED BY <1>0, <1>1, <1>6, <1>7

\* A block is programmed where the last one has ended.
LEMMA BlockDone ==
  ASSUME NEW c, Ready(c), c.enabled # -1, NEW bytes, IsPage(bytes), NEW place, NEW n \in Nat,
         NEW k \in Nat, Starts(n, k),
         NEW at \in Int, at = NextPlace(c, place, n),
         NEW d, Leads(c, BlockCommands(bytes, place, n), d)
  PROVE  /\ Ready(d) /\ Keeps(c, d, {"memory", "address", "data"}) /\ d.address = at + BlockSize
         /\ d.memory = [a \in DOMAIN c.memory |->
                          IF a \in at .. at + BlockSize - 1
                            THEN ProgramByte(c.memory[a], bytes[k + (a - at + 1)]) ELSE c.memory[a]]
<1>1. PICK e, f : /\ Ready(e) /\ Keeps(c, e, {"data", "address"})
                  /\ e.data = Block(bytes, n) /\ e.address = at
                  /\ f = Do(e, Instruction("ISC_PROGRAM")) /\ d = Do(f, Clocks(1000))
  BY BlockLoaded
<1>2. PICK b : b = Block(bytes, n)
  OBVIOUS
<1>3. b # <<>> /\ Len(b) = BlockSize /\ \A i \in 1 .. BlockSize : b[i] = bytes[k + i]
  <2>1. /\ Len(Block(bytes, n)) = BlockSize /\ Block(bytes, n) # <<>>
        /\ \A i \in 1 .. BlockSize : Block(bytes, n)[i] = bytes[k + i]
    BY BlockFacts
  <2>. QED BY <1>2, <2>1
<1>4. Executing(f, "ISC_PROGRAM") /\ f.pending = TRUE /\ Keeps(e, f, {})
  <2>1. Ready(e) /\ f = Do(e, Instruction("ISC_PROGRAM"))
    BY <1>1
  <2>. QED BY <2>1, InstructionDone
<1>5. f.data = b /\ f.enabled = c.enabled /\ f.address = at /\ f.memory = c.memory
  BY <1>1, <1>2, <1>4 DEF Keeps, Kept
<1>6. 1000 \in Nat /\ 1000 > 1
  OBVIOUS
<1>7. Executing(d, "ISC_PROGRAM") /\ DataProgrammed(f, d)
  BY <1>1, <1>3, <1>4, <1>5, <1>6, ClocksRun
<1>8. /\ d.memory = [a \in DOMAIN f.memory |->
                   IF a \in f.address .. f.address + Len(f.data) - 1
                     THEN ProgramByte(f.memory[a], f.data[a - f.address + 1])
                     ELSE f.memory[a]]
      /\ d.address = f.address + BlockSize /\ Keeps(f, d, {"memory", "address", "data"})
  BY <1>7 DEF DataProgrammed
<1>9. d.memory = [a \in DOMAIN c.memory |->
                    IF a \in at .. at + BlockSize - 1 THEN ProgramByte(c.memory[a], b[a - at + 1]) ELSE c.memory[a]]
  BY <1>3, <1>5, <1>8
<1>10. \A a : a \in at .. at + BlockSize - 1 => b[a - at + 1] = bytes[k + (a - at + 1)]
  <2>. SUFFICES ASSUME NEW a \in at .. at + BlockSize - 1 PROVE b[a - at + 1] = bytes[k + (a - at + 1)]
    OBVIOUS
  <2>1. a - at + 1 \in 1 .. BlockSize
    BY PinLengths
  <2>. QED BY <1>3, <2>1
<1>11. d.memory = [a \in DOMAIN c.memory |->
                     IF a \in at .. at + BlockSize - 1
                       THEN ProgramByte(c.memory[a], bytes[k + (a - at + 1)]) ELSE c.memory[a]]
  BY <1>9, <1>10
<1>12. Keeps(c, d, {"memory", "address", "data"})
  BY <1>1, <1>4, <1>8 DEF Keeps
<1>. QED BY <1>5, <1>7, <1>8, <1>11, <1>12 DEF Executing

\* The chains after each of the blocks.
BlockSets(c, bytes, place, n, g) ==
  /\ g[0] = {c} /\ XcfWrite(c, bytes, place) = g[n]
  /\ \A m \in 1 .. n : g[m] = After(g[m - 1], BlockCommands(bytes, place, m - 1))

\* The chains after each block, as a function.
LEMMA WriteSets ==
  ASSUME NEW c, NEW bytes, NEW place, NEW N \in Nat, Len(bytes) \div BlockSize = N
  PROVE  \E g : BlockSets(c, bytes, place, N, g)
<1>. DEFINE after == CHOOSE g : g = [m \in 0 .. N |-> IF m = 0 THEN {c} ELSE After(g[m - 1], BlockCommands(bytes, place, m - 1))]
            Exists(n) == \E g : g = [m \in 0 .. n |-> IF m = 0 THEN {c} ELSE After(g[m - 1], BlockCommands(bytes, place, m - 1))]
            A == {n \in Nat : Exists(n)}
<1>1. 0 \in A
  <2>. DEFINE g == [m \in 0 .. 0 |-> {c}]
  <2>1. g = [m \in 0 .. 0 |-> IF m = 0 THEN {c} ELSE After(g[m - 1], BlockCommands(bytes, place, m - 1))]
    OBVIOUS
  <2>. HIDE DEF g
  <2>. QED BY <2>1
<1>2. ASSUME NEW n \in Nat, n \in A PROVE n + 1 \in A
  <2>1. PICK g : g = [m \in 0 .. n |-> IF m = 0 THEN {c} ELSE After(g[m - 1], BlockCommands(bytes, place, m - 1))]
    BY <1>2
  <2>. DEFINE h == [m \in 0 .. n + 1 |-> IF m <= n THEN g[m] ELSE After(g[n], BlockCommands(bytes, place, n))]
  <2>2. ASSUME NEW m \in 0 .. n + 1
        PROVE  h[m] = IF m = 0 THEN {c} ELSE After(h[m - 1], BlockCommands(bytes, place, m - 1))
    <3>1. CASE m = 0
      BY <2>1, <3>1
    <3>2. CASE m \in 1 .. n
      <4>1. m <= n /\ m - 1 <= n /\ m - 1 \in 0 .. n + 1 /\ m # 0 /\ m \in 0 .. n
        BY <3>2
      <4>2. h[m] = g[m] /\ h[m - 1] = g[m - 1]
        BY <4>1
      <4>3. g[m] = After(g[m - 1], BlockCommands(bytes, place, m - 1))
        BY <2>1, <4>1
      <4>. QED BY <4>1, <4>2, <4>3
    <3>3. CASE m = n + 1
      <4>1. m - 1 = n /\ ~(m <= n) /\ m # 0 /\ n <= n /\ n \in 0 .. n + 1
        BY <3>3
      <4>2. h[m] = After(g[n], BlockCommands(bytes, place, n)) /\ h[n] = g[n]
        BY <4>1
      <4>. QED BY <4>1, <4>2
    <3>. QED BY <3>1, <3>2, <3>3
  <2>3. h = [m \in 0 .. n + 1 |-> h[m]]
    OBVIOUS
  <2>. HIDE DEF h
  <2>4. h = [m \in 0 .. n + 1 |-> IF m = 0 THEN {c} ELSE After(h[m - 1], BlockCommands(bytes, place, m - 1))]
    BY <2>2, <2>3
  <2>. QED BY <2>4
<1>3. Exists(N)
  <2>1. \A n \in Nat : n \in A
    <3>. HIDE DEF A
    <3>. QED BY <1>1, <1>2, Induction
  <2>2. N \in A
    BY <2>1
  <2>. QED BY <2>2
<1>4. after = [m \in 0 .. N |-> IF m = 0 THEN {c} ELSE After(after[m - 1], BlockCommands(bytes, place, m - 1))]
  BY <1>3
<1>5. XcfWrite(c, bytes, place) = after[N]
  BY DEF XcfWrite, BlockCommands, Block
<1>. HIDE DEF after
<1>6. after[0] = {c}
  BY <1>4
<1>7. ASSUME NEW m \in 1 .. N PROVE after[m] = After(after[m - 1], BlockCommands(bytes, place, m - 1))
  <2>1. m \in 0 .. N /\ m # 0
    OBVIOUS
  <2>. QED BY <1>4, <2>1
<1>. QED BY <1>5, <1>6, <1>7 DEF BlockSets

\* The bytes after the first k are programmed from a place on.
ProgrammedNext(memory, bytes, at, k, count) ==
  [a \in DOMAIN memory |->
     IF a \in at .. at + count - 1 THEN ProgramByte(memory[a], bytes[k + (a - at + 1)]) ELSE memory[a]]

\* Programming on from where one has stopped is programming all of it.
LEMMA ProgrammedOn ==
  ASSUME NEW memory, NEW bytes, NEW place \in Int, NEW k \in Nat, NEW n \in Nat,
         NEW m, m = WithBytes(memory, bytes, place, k), NEW at, at = place + k
  PROVE  ProgrammedNext(m, bytes, at, k, n) = WithBytes(memory, bytes, place, k + n)
<1>1. /\ DOMAIN m = DOMAIN memory
      /\ \A a \in DOMAIN memory :
           m[a] = IF a \in place .. place + k - 1 THEN ProgramByte(memory[a], bytes[a - place + 1]) ELSE memory[a]
  BY DEF WithBytes
<1>2. ASSUME NEW a \in DOMAIN memory
      PROVE  (IF a \in at .. at + n - 1 THEN ProgramByte(m[a], bytes[k + (a - at + 1)]) ELSE m[a])
               = IF a \in place .. place + (k + n) - 1 THEN ProgramByte(memory[a], bytes[a - place + 1]) ELSE memory[a]
  <2>1. CASE a \in at .. at + n - 1
    <3>1. a \notin place .. place + k - 1 /\ a \in place .. place + (k + n) - 1 /\ k + (a - at + 1) = a - place + 1
      BY <2>1
    <3>. QED BY <1>1, <2>1, <3>1
  <2>2. CASE a \notin at .. at + n - 1
    <3>1. a \in place .. place + k - 1 <=> a \in place .. place + (k + n) - 1
      BY <2>2
    <3>. QED BY <1>1, <2>2, <3>1
  <2>. QED BY <2>1, <2>2
<1>. QED BY <1>1, <1>2 DEF WithBytes, ProgrammedNext

\* The chain d is what c becomes by the first n blocks.
Written(c, bytes, place, n, d) ==
  /\ Ready(d) /\ Keeps(c, d, {"memory", "address", "data"})
  /\ n # 0 => d.address = place + n * BlockSize
  /\ d.memory = WithBytes(c.memory, bytes, place, n * BlockSize)

\* One block more.
LEMMA BlockWritten ==
  ASSUME NEW c, c.enabled # -1, NEW bytes, IsPage(bytes), NEW place \in Int, NEW n \in Nat,
         n * BlockSize + BlockSize <= PageSize,
         NEW d, Written(c, bytes, place, n, d), NEW e, Leads(d, BlockCommands(bytes, place, n), e)
  PROVE  Written(c, bytes, place, n + 1, e)
<1>0. n * BlockSize \in Nat /\ BlockSize \in Nat /\ (n + 1) * BlockSize = n * BlockSize + BlockSize
  BY PinLengths
<1>1. PICK k \in Nat, at \in Int : k = n * BlockSize /\ at = place + k
  BY <1>0
<1>2. /\ Ready(d) /\ Keeps(c, d, {"memory", "address", "data"}) /\ (n # 0 => d.address = at)
      /\ d.memory = WithBytes(c.memory, bytes, place, k)
  BY <1>1 DEF Written
<1>3. at = NextPlace(d, place, n)
  <2>1. n = 0 => k = 0
    BY <1>1, PinLengths
  <2>. QED BY <1>1, <1>2, <2>1 DEF NextPlace
<1>4. d.enabled # -1
  BY <1>2 DEF Keeps, Kept
<1>5. /\ Ready(e) /\ Keeps(d, e, {"memory", "address", "data"}) /\ e.address = at + BlockSize
      /\ e.memory = ProgrammedNext(d.memory, bytes, at, k, BlockSize)
  <2>1. Starts(n, k)
    BY <1>1 DEF Starts
  <2>. QED BY <1>1, <1>2, <1>3, <1>4, <2>1, BlockDone DEF ProgrammedNext
<1>6. e.memory = WithBytes(c.memory, bytes, place, k + BlockSize)
  BY <1>0, <1>1, <1>2, <1>5, ProgrammedOn
<1>7. e.address = place + (n + 1) * BlockSize
  BY <1>0, <1>1, <1>5
<1>8. e.memory = WithBytes(c.memory, bytes, place, (n + 1) * BlockSize)
  BY <1>0, <1>1, <1>6
<1>9. Keeps(c, e, {"memory", "address", "data"})
  BY <1>2, <1>5 DEF Keeps
<1>. QED BY <1>5, <1>7, <1>8, <1>9 DEF Written

\* A page is programmed as a whole.
LEMMA XcfWriteFacts ==
  ASSUME NEW c, Ready(c), c.enabled # -1, IsMemory(c.memory), NEW bytes, IsPage(bytes), NEW place \in Int,
         PageSize % BlockSize = 0, NEW d \in XcfWrite(c, bytes, place)
  PROVE  /\ Ready(d) /\ Keeps(c, d, {"memory", "address", "data"})
         /\ d.memory = WithBytes(c.memory, bytes, place, PageSize)
<1>0. BlockSize \in Nat \ {0} /\ PageSize \in Nat \ {0}
  BY PinLengths, Sizes
<1>1. PICK N \in Nat : PageSize = N * BlockSize /\ PageSize \div BlockSize = N
  <2>1. PICK k \in Nat, r \in 0 .. BlockSize - 1 : PageSize = k * BlockSize + r
    BY <1>0, Divided
  <2>2. PageSize % BlockSize = r /\ PageSize \div BlockSize = k
    BY <1>0, <2>1, Division
  <2>. QED BY <1>0, <2>1, <2>2
<1>2. Len(bytes) = PageSize
  BY <1>0 DEF IsPage
<1>3. PICK g : /\ g[0] = {c} /\ XcfWrite(c, bytes, place) = g[N]
               /\ \A m \in 1 .. N : g[m] = After(g[m - 1], BlockCommands(bytes, place, m - 1))
  <2>1. Len(bytes) \div BlockSize = N
    BY <1>1, <1>2
  <2>2. PICK g : BlockSets(c, bytes, place, N, g)
    BY <2>1, WriteSets
  <2>. QED BY <2>2 DEF BlockSets
<1>. DEFINE A == {n \in Nat : n <= N => \A e \in g[n] : Written(c, bytes, place, n, e)}
<1>4. 0 \in A
  <2>1. Written(c, bytes, place, 0, c)
    <3>1. 0 * BlockSize = 0 /\ c.memory = [a \in DOMAIN c.memory |-> c.memory[a]]
      <4>1. 0 * BlockSize = 0
        BY <1>0
      <4>2. c.memory = [a \in DOMAIN c.memory |-> c.memory[a]]
        BY DEF IsMemory
      <4>. QED BY <4>1, <4>2
    <3>2. \A a : a \notin place .. place + 0 - 1
      OBVIOUS
    <3>3. c.memory = WithBytes(c.memory, bytes, place, 0 * BlockSize)
      BY <3>1, <3>2 DEF WithBytes
    <3>. QED BY <3>3 DEF Written, Keeps
  <2>. QED BY <1>3, <2>1
<1>5. ASSUME NEW n \in Nat, n \in A PROVE n + 1 \in A
  <2>. SUFFICES ASSUME n + 1 <= N, NEW e \in g[n + 1] PROVE Written(c, bytes, place, n + 1, e)
    OBVIOUS
  <2>1. e \in After(g[n], BlockCommands(bytes, place, n))
    <3>1. n + 1 \in 1 .. N /\ (n + 1) - 1 = n
      OBVIOUS
    <3>. QED BY <1>3, <3>1
  <2>2. Len(BlockCommands(bytes, place, n)) \in Nat
    BY DEF BlockCommands, Addressed
  <2>3. PICK b \in g[n] : Leads(b, BlockCommands(bytes, place, n), e)
    BY <2>1, <2>2, AfterLeads
  <2>4. Written(c, bytes, place, n, b)
    BY <1>5, <2>3
  <2>5. n * BlockSize + BlockSize <= PageSize
    <3>1. (n + 1) * BlockSize <= N * BlockSize
      BY <1>0, ProductGrows
    <3>. QED BY <1>0, <1>1, <3>1
  <2>. QED BY <2>3, <2>4, <2>5, BlockWritten
<1>6. N \in A
  <2>. HIDE DEF A
  <2>. QED BY <1>4, <1>5, Induction
<1>7. Written(c, bytes, place, N, d)
  BY <1>3, <1>6
<1>. QED BY <1>1, <1>7 DEF Written

-----------------------------------------------------------------------------
(* The end of programming.                                                 *)

\* A sequence of commands can be cut in two.
LEMMA LeadsJoined ==
  ASSUME NEW s, NEW t, IsSteps(s), IsSteps(t), NEW c, NEW d, Leads(c, s \o t, d)
  PROVE  IsSteps(s \o t) /\ \E m : Leads(c, s, m) /\ Leads(m, t, d)
<1>1. PICK S : s \in Seq(S) /\ t \in Seq(S)
  <2>1. PICK A, B : s \in Seq(A) /\ t \in Seq(B)
    BY DEF IsSteps
  <2>2. s \in Seq(A \cup B) /\ t \in Seq(A \cup B)
    BY <2>1
  <2>. QED BY <2>2
<1>2. PICK r : /\ r[0] = c /\ r[Len(s \o t)] = d
               /\ \A i \in 1 .. Len(s \o t) : r[i] = Do(r[i - 1], (s \o t)[i])
  BY DEF Leads
<1>3. /\ Len(s) \in Nat /\ Len(t) \in Nat /\ Len(s \o t) = Len(s) + Len(t) /\ s \o t \in Seq(S)
      /\ \A i \in 1 .. Len(s) : (s \o t)[i] = s[i]
      /\ \A i \in 1 .. Len(t) : (s \o t)[Len(s) + i] = t[i]
  BY <1>1, ConcatProperties, LenProperties
<1>4. Leads(c, s, r[Len(s)])
  BY <1>2, <1>3 DEF Leads
<1>5. Leads(r[Len(s)], t, d)
  <2>. DEFINE q == [i \in 0 .. Len(t) |-> r[Len(s) + i]]
  <2>1. q[0] = r[Len(s)] /\ q[Len(t)] = d
    BY <1>2, <1>3
  <2>2. ASSUME NEW i \in 1 .. Len(t) PROVE q[i] = Do(q[i - 1], t[i])
    <3>1. Len(s) + i \in 1 .. Len(s \o t) /\ (Len(s) + i) - 1 = Len(s) + (i - 1)
      BY <1>3
    <3>2. r[Len(s) + i] = Do(r[Len(s) + (i - 1)], t[i])
      BY <1>2, <1>3, <3>1
    <3>. QED BY <1>3, <3>2
  <2>. HIDE DEF q
  <2>. QED BY <2>1, <2>2 DEF Leads
<1>. QED BY <1>3, <1>4, <1>5 DEF IsSteps

\* The commands that shift a register in and program it.
RegisterSequence(register, length) ==
  <<Instruction(register), Data(length, 0), Instruction("ISC_PROGRAM"), Clocks(60)>>

StatusSequence == <<Instruction("XSC_OP_STATUS"), Data(8, 0)>>

DisableSequence == <<Instruction("ISC_DISABLE"), Clocks(50), Command("TLR")>>

LEMMA EndTyped ==
  /\ IsSteps(StatusSequence) /\ IsSteps(DisableSequence)
  /\ \A register, length : IsSteps(RegisterSequence(register, length))
<1>1. ASSUME NEW a, NEW b PROVE IsSteps(<<a, b>>)
  <2>1. <<a, b>> \in Seq({a, b})
    OBVIOUS
  <2>. QED BY <2>1 DEF IsSteps
<1>2. ASSUME NEW a, NEW b, NEW x PROVE IsSteps(<<a, b, x>>)
  <2>1. <<a, b, x>> \in Seq({a, b, x})
    OBVIOUS
  <2>. QED BY <2>1 DEF IsSteps
<1>3. ASSUME NEW a, NEW b, NEW x, NEW y PROVE IsSteps(<<a, b, x, y>>)
  <2>1. <<a, b, x, y>> \in Seq({a, b, x, y})
    OBVIOUS
  <2>. QED BY <2>1 DEF IsSteps
<1>. QED BY <1>1, <1>2, <1>3 DEF StatusSequence, DisableSequence, RegisterSequence

\* A configuration register is programmed; the memory stays as it is.
LEMMA RegisterLeads ==
  ASSUME NEW c, Ready(c), NEW register \in Configuration, NEW length \in Nat \ {0},
         NEW d, Leads(c, RegisterSequence(register, length), d)
  PROVE  Ready(d) /\ Keeps(c, d, {"data"})
<1>1. PICK s : s = RegisterSequence(register, length)
  OBVIOUS
<1>2. /\ Len(s) = 4 /\ s[1] = Instruction(register) /\ s[2] = Data(length, 0)
      /\ s[3] = Instruction("ISC_PROGRAM") /\ s[4] = Clocks(60)
  BY <1>1 DEF RegisterSequence
<1>3. Leads(c, s, d)
  BY <1>1
<1>4. PICK c1, c2, c3 :
        /\ c1 = Do(c, Instruction(register)) /\ c2 = Do(c1, Data(length, 0))
        /\ c3 = Do(c2, Instruction("ISC_PROGRAM")) /\ d = Do(c3, Clocks(60))
  BY <1>2, <1>3 DEF Leads
<1>5. 60 \in Nat /\ 60 > 1
  OBVIOUS
<1>. QED BY <1>4, <1>5, RegisterProgrammed

LEMMA StatusLeads ==
  ASSUME NEW c, Ready(c), NEW d, Leads(c, StatusSequence, d)
  PROVE  Ready(d) /\ Keeps(c, d, {})
<1>1. PICK s : s = StatusSequence
  OBVIOUS
<1>2. Len(s) = 2 /\ s[1] = Instruction("XSC_OP_STATUS") /\ s[2] = Data(8, 0)
  BY <1>1 DEF StatusSequence
<1>3. Leads(c, s, d)
  BY <1>1
<1>4. PICK e : e = Do(c, Instruction("XSC_OP_STATUS")) /\ d = Do(e, Data(8, 0))
  BY <1>2, <1>3 DEF Leads
<1>. QED BY <1>4, StatusRead

LEMMA DisableLeads ==
  ASSUME NEW c, Ready(c), NEW d, Leads(c, DisableSequence, d)
  PROVE  Ready(d) /\ Keeps(c, d, {"enabled"}) /\ d.enabled = -1
<1>1. PICK s : s = DisableSequence
  OBVIOUS
<1>2. Len(s) = 3 /\ s[1] = Instruction("ISC_DISABLE") /\ s[2] = Clocks(50) /\ s[3] = Command("TLR")
  BY <1>1 DEF DisableSequence
<1>3. Leads(c, s, d)
  BY <1>1
<1>4. PICK c1, c2 : c1 = Do(c, Instruction("ISC_DISABLE")) /\ c2 = Do(c1, Clocks(50)) /\ d = Do(c2, Command("TLR"))
  BY <1>2, <1>3 DEF Leads
<1>5. 50 \in Nat /\ 50 > 1
  OBVIOUS
<1>. QED BY <1>4, <1>5, Disabled

\* The configuration of the memory is programmed, and the memory disabled.
LEMMA ProgEndFacts ==
  ASSUME NEW chains, \A c \in chains : Ready(c), NEW d \in ProgEnd(chains)
  PROVE  \E c \in chains : Ready(d) /\ Keeps(c, d, {"data", "enabled"}) /\ d.enabled = -1
<1>1. PICK s1, s2, s3, s4 :
        /\ s1 = StatusSequence \o RegisterSequence("XSC_DATA_SUCR", 16)
        /\ s2 = s1 \o RegisterSequence("XSC_DATA_CCB", 16)
        /\ s3 = s2 \o RegisterSequence("XSC_DATA_DONE", 8)
        /\ s4 = s3 \o DisableSequence
  OBVIOUS
<1>2. d \in After(chains, s4)
  BY <1>1 DEF ProgEnd, StatusSequence, RegisterSequence, DisableSequence
<1>3. IsSteps(s1) /\ IsSteps(s2) /\ IsSteps(s3) /\ IsSteps(s4)
  <2>1. \A s, t : IsSteps(s) /\ IsSteps(t) => IsSteps(s \o t)
    BY StepsJoined
  <2>. QED BY <1>1, <2>1, EndTyped
<1>4. PICK c \in chains : Leads(c, s4, d)
  <2>1. Len(s4) \in Nat
    BY <1>3, LenProperties DEF IsSteps
  <2>. QED BY <1>2, <2>1, AfterLeads
<1>5. PICK c4 : Leads(c, s3, c4) /\ Leads(c4, DisableSequence, d)
  BY <1>1, <1>3, <1>4, EndTyped, LeadsJoined
<1>6. PICK c3 : Leads(c, s2, c3) /\ Leads(c3, RegisterSequence("XSC_DATA_DONE", 8), c4)
  BY <1>1, <1>3, <1>5, EndTyped, LeadsJoined
<1>7. PICK c2 : Leads(c, s1, c2) /\ Leads(c2, RegisterSequence("XSC_DATA_CCB", 16), c3)
  BY <1>1, <1>3, <1>6, EndTyped, LeadsJoined
<1>8. PICK c1 : Leads(c, StatusSequence, c1) /\ Leads(c1, RegisterSequence("XSC_DATA_SUCR", 16), c2)
  BY <1>1, <1>7, EndTyped, LeadsJoined
<1>9. {"XSC_DATA_SUCR", "XSC_DATA_CCB", "XSC_DATA_DONE"} \subseteq Configuration /\ 16 \in Nat \ {0} /\ 8 \in Nat \ {0}
  BY DEF Configuration
<1>10. Ready(c1) /\ Keeps(c, c1, {})
  BY <1>8, StatusLeads
<1>11. Ready(c2) /\ Keeps(c1, c2, {"data"})
  BY <1>8, <1>9, <1>10, RegisterLeads
<1>12. Ready(c3) /\ Keeps(c2, c3, {"data"})
  BY <1>7, <1>9, <1>11, RegisterLeads
<1>13. Ready(c4) /\ Keeps(c3, c4, {"data"})
  BY <1>6, <1>9, <1>12, RegisterLeads
<1>14. Ready(d) /\ Keeps(c4, d, {"enabled"}) /\ d.enabled = -1
  BY <1>5, <1>13, DisableLeads
<1>15. Keeps(c, d, {"data", "enabled"})
  BY <1>10, <1>11, <1>12, <1>13, <1>14 DEF Keeps
<1>. QED BY <1>4, <1>14, <1>15

\* What makes the FPGA load leaves the memory as it is.
LEMMA ConfFacts ==
  ASSUME NEW chains, \A c \in chains : Rests(c), NEW d \in Conf(chains)
  PROVE  \E c \in chains : Recognized(c, d)
<1>. DEFINE commands == <<Instruction("XSC_CONFIG"), Command("TLR")>>
<1>1. Len(commands) = 2 /\ commands[1] = Instruction("XSC_CONFIG") /\ commands[2] = Command("TLR") /\ Len(commands) \in Nat
  OBVIOUS
<1>2. d \in AfterIfValid(Validate(chains), commands)
  BY DEF Conf
<1>. HIDE DEF commands
<1>3. \A b \in Validate(chains) : \E c \in chains : Recognized(c, b)
  BY Identified
<1>4. \/ \E c \in chains : Recognized(c, d)
      \/ \E b \in Validate(chains) : Valid(b) /\ Leads(b, commands, d)
  BY <1>1, <1>2, <1>3, IfValidLeads
<1>5. ASSUME NEW b \in Validate(chains), Valid(b), Leads(b, commands, d) PROVE \E c \in chains : Recognized(c, d)
  <2>1. PICK c \in chains : Recognized(c, b)
    BY <1>3
  <2>2. PICK e : e = Do(b, Instruction("XSC_CONFIG")) /\ d = Do(e, Command("TLR"))
    BY <1>1, <1>5 DEF Leads
  <2>3. Ready(b)
    BY <1>5, <2>1, RecognizedReady
  <2>4. Executing(e, "XSC_CONFIG") /\ Keeps(b, e, {})
    BY <2>2, <2>3, InstructionDone
  <2>5. Rests(d) /\ Keeps(e, d, {}) /\ d.fpgairlen = e.fpgairlen
    BY <2>2, <2>4, TlrReset DEF Executing, Ready
  <2>6. Keeps(c, d, {}) /\ d.fpgairlen = FpgaIrLen
    BY <2>1, <2>4, <2>5 DEF Recognized, Keeps, Executing, Ready
  <2>. QED BY <2>1, <2>5, <2>6 DEF Recognized
<1>. QED BY <1>4, <1>5
=============================================================================
