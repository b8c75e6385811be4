------------------------- MODULE KernelDriverProofs -------------------------
(***************************************************************************)
(* Proofs about KernelDriver, for every number of processes, every size of *)
(* the flash memory and its pages, and all kinds of boards.                *)
(***************************************************************************)
EXTENDS MCKernelDriver, FlashProofs

USE DEF DEVICE_EEPROM, DEVICE_FLASH, DEVICE_FPGA, DEVICE_EV

-----------------------------------------------------------------------------
(* The files of a board.                                                   *)

EvFiles == {p \in Processes : files[p].minor = DEVICE_EV}

FileType == [minor : -1 .. DEVICE_EV, mode : Modes, session : 0 .. MaxOpens, pos : 0 .. FlashSize]

ControlTypes ==
  /\ devtype \in DevTypes
  /\ access_mode \in Modes
  /\ access_device \in DEVICE_EEPROM .. DEVICE_EV
  /\ files \in [Processes -> FileType]
  /\ opens \in 0 .. MaxOpens
  /\ refcount_ev \in 0 .. opens
  /\ interrupted \in 0 .. MaxInterrupted
  /\ irqHandler \in BOOLEAN
  /\ lockedOut \in BOOLEAN

\* What access_device and access_mode say is true of every open file.
OwnDevice ==
  \A p \in OpenFiles :
    /\ files[p].minor = access_device
    /\ access_device # DEVICE_EV => access_mode = files[p].mode
    /\ access_device \in {DEVICE_EEPROM, DEVICE_FPGA} => devtype \in PLX

\* The registers count the open files, and keep those whose release was
\* interrupted.
References ==
  /\ refcount_ev >= Cardinality(EvFiles)
  /\ interrupted = 0 => refcount_ev = Cardinality(EvFiles)
  /\ irqHandler => refcount_ev > 0
  /\ access_device = DEVICE_EV => refcount_ev > 0

\* A device that is not open is closed, but for a release that was interrupted
\* and an open of the FPGA that failed.
ClosedAgain ==
  /\ lockedOut => access_device = DEVICE_FPGA /\ OpenFiles = {}
  /\ interrupted = 0 /\ OpenFiles = {} /\ ~lockedOut => access_device = 0

FilesInv == ControlTypes /\ OwnDevice /\ OneMinorOpen /\ References /\ ClosedAgain

controlVars == <<devtype, accessVars, eventVars, files, opens, interrupted>>

LEMMA ClosedFacts ==
  /\ Closed \in FileType
  /\ Closed.minor = -1 /\ Closed.pos = 0
  BY DriverAssumption, FlashAssumption DEF Closed, FileType, Modes

LEMMA EvFilesFinite ==
  /\ IsFiniteSet(EvFiles) /\ Cardinality(EvFiles) \in Nat
  /\ IsFiniteSet(EvFiles') /\ Cardinality(EvFiles') \in Nat
  BY DriverAssumption, FS_Subset, FS_CardinalityType DEF EvFiles

LEMMA FilesInitInv == Init => FilesInv
<1>. SUFFICES ASSUME Init PROVE FilesInv
  OBVIOUS
<1>1. ControlTypes
  <2>1. files \in [Processes -> FileType]
    BY ClosedFacts DEF Init
  <2>2. irqHandler \in BOOLEAN
    BY DEF Init
  <2>3. lockedOut \in BOOLEAN
    BY Zenon DEF Init
  <2>. QED BY <2>1, <2>2, <2>3, DriverAssumption DEF Init, ControlTypes, Modes
<1>2. OpenFiles = {} /\ EvFiles = {}
  BY ClosedFacts DEF Init, OpenFiles, EvFiles
<1>3. References
  BY <1>2, FS_EmptySet DEF Init, References
<1>4. ClosedAgain
  BY DEF Init, ClosedAgain
<1>. QED BY <1>1, <1>2, <1>3, <1>4 DEF FilesInv, OwnDevice, OneMinorOpen

LEMMA LockType ==
  ASSUME ControlTypes, lockedOut' = lockedOut \/ lockedOut' = FALSE \/ lockedOut' = TRUE
  PROVE  lockedOut' \in BOOLEAN
  BY Zenon DEF ControlTypes

\* Nothing is open when a device other than the registers may be opened.
LEMMA NothingOpen ==
  ASSUME EepromAlone, FilesInv, NEW p \in Processes, NEW minor \in DEVICE_EEPROM .. DEVICE_EV, Opening(p, minor),
         minor # DEVICE_EV
  PROVE  OpenFiles = {} /\ access_device = 0 /\ EvFiles = {} /\ lockedOut = FALSE
<1>1. access_device = 0
  BY DEF Opening, Allowed, FilesInv, ControlTypes
<1>2. ASSUME NEW q \in OpenFiles PROVE FALSE
  BY <1>1, <1>2 DEF FilesInv, OwnDevice, Opening, OpenFiles
<1>3. EvFiles = {}
  BY <1>2, ClosedFacts DEF OpenFiles, EvFiles
<1>4. lockedOut = FALSE
  BY <1>1 DEF FilesInv, ControlTypes, ClosedAgain
<1>. QED BY <1>1, <1>2, <1>3, <1>4

\* A device other than the registers is opened.
LEMMA ToolOpenedInv ==
  ASSUME EepromAlone, FilesInv, NEW p \in Processes, NEW minor \in DEVICE_EEPROM .. DEVICE_EV, NEW mode \in Modes,
         Opening(p, minor), minor # DEVICE_EV, minor \in {DEVICE_EEPROM, DEVICE_FPGA} => devtype \in PLX,
         Opened(p, minor, mode), UNCHANGED eventVars
  PROVE  FilesInv'
<1>. DEFINE file == [minor |-> minor, mode |-> mode, session |-> opens + 1, pos |-> 0]
<1>1. /\ access_mode' = mode /\ access_device' = minor /\ files' = [files EXCEPT ![p] = file]
      /\ opens' = opens + 1 /\ opens < MaxOpens
      /\ devtype' = devtype /\ interrupted' = interrupted
      /\ refcount_ev' = refcount_ev /\ irqHandler' = irqHandler /\ lockedOut' = lockedOut
  BY DEF Opening, Opened, eventVars
<1>2. OpenFiles = {} /\ EvFiles = {} /\ lockedOut = FALSE
  BY NothingOpen
<1>3. file \in FileType /\ file # Closed
  BY <1>1, ClosedFacts, DriverAssumption, FlashAssumption DEF FileType, FilesInv, ControlTypes
<1>. HIDE DEF file
<1>4. ControlTypes'
  BY <1>1, <1>3, DriverAssumption DEF FilesInv, ControlTypes
<1>5. OpenFiles' = {p}
  BY <1>1, <1>2, <1>3 DEF OpenFiles, FilesInv, ControlTypes
<1>6. files'[p] = file
  BY <1>1 DEF FilesInv, ControlTypes
<1>7. OwnDevice' /\ OneMinorOpen'
  BY <1>1, <1>5, <1>6 DEF OwnDevice, OneMinorOpen, file
<1>8. EvFiles' = {}
  BY <1>1, <1>2, <1>6 DEF EvFiles, FilesInv, ControlTypes, file
<1>9. References'
  BY <1>1, <1>2, <1>8 DEF References, FilesInv
<1>10. ClosedAgain'
  BY <1>1, <1>2, <1>5 DEF ClosedAgain
<1>. QED BY <1>4, <1>7, <1>9, <1>10 DEF FilesInv

\* An open of another device than the registers fails, and leaves none open, or a
\* device that the board does not have.
LEMMA ToolRefusedInv ==
  ASSUME EepromAlone, FilesInv, NEW p \in Processes, NEW minor \in DEVICE_EEPROM .. DEVICE_EV,
         Opening(p, minor), minor # DEVICE_EV, UNCHANGED <<files, eventVars>>,
         access_mode' \in Modes,
         \/ access_device' = 0 /\ lockedOut' = lockedOut
         \/ access_device' = DEVICE_FPGA /\ lockedOut' = TRUE
  PROVE  FilesInv'
<1>1. /\ opens' = opens + 1 /\ opens < MaxOpens
      /\ devtype' = devtype /\ interrupted' = interrupted /\ files' = files
      /\ refcount_ev' = refcount_ev /\ irqHandler' = irqHandler
  BY DEF Opening, eventVars
<1>2. OpenFiles' = {} /\ EvFiles' = EvFiles /\ lockedOut = FALSE
  BY <1>1, NothingOpen DEF OpenFiles, EvFiles
<1>3. ControlTypes'
  <2>1. lockedOut' \in BOOLEAN
    BY LockType DEF FilesInv
  <2>2. irqHandler' \in BOOLEAN
    BY <1>1 DEF FilesInv, ControlTypes
  <2>. QED BY <1>1, <2>1, <2>2, DriverAssumption DEF FilesInv, ControlTypes
<1>4. References'
  BY <1>1, <1>2 DEF References, FilesInv
<1>. QED BY <1>1, <1>2, <1>3, <1>4 DEF FilesInv, OwnDevice, OneMinorOpen, ClosedAgain

LEMMA OpenEvInv ==
  ASSUME EepromAlone, FilesInv, NEW p \in Processes, NEW mode \in Modes, OpenEv(p, mode)
  PROVE  FilesInv'
<1>. DEFINE file == [minor |-> DEVICE_EV, mode |-> mode, session |-> opens + 1, pos |-> 0]
<1>1. /\ access_mode' = mode /\ access_device' = DEVICE_EV /\ files' = [files EXCEPT ![p] = file]
      /\ opens' = opens + 1 /\ opens < MaxOpens /\ files[p] = Closed
      /\ devtype' = devtype /\ interrupted' = interrupted
      /\ refcount_ev' = refcount_ev + 1 /\ irqHandler' \in BOOLEAN
      /\ lockedOut' = FALSE
  BY DEF OpenEv, Opening, Allowed, Opened, FilesInv, ControlTypes, ClosedAgain
<1>2. ASSUME NEW q \in OpenFiles PROVE files[q].minor = DEVICE_EV
  <2>1. files[q].minor = access_device
    BY DEF FilesInv, OwnDevice
  <2>2. EepromAlone => files[q].minor # DEVICE_EEPROM
    BY <1>2 DEF OpenEv, Opening, OpenFiles
  <2>. QED BY <2>1, <2>2 DEF OpenEv, Opening, Allowed, FilesInv, ControlTypes
<1>3. file \in FileType /\ file # Closed /\ file.minor = DEVICE_EV
  BY <1>1, ClosedFacts, DriverAssumption, FlashAssumption DEF FileType, FilesInv, ControlTypes
<1>. HIDE DEF file
<1>4. ControlTypes'
  <2>1. lockedOut' \in BOOLEAN
    BY <1>1, LockType DEF FilesInv
  <2>2. irqHandler' \in BOOLEAN
    BY <1>1
  <2>3. access_mode' \in Modes /\ files' \in [Processes -> FileType] /\ devtype' \in DevTypes
    BY <1>1, <1>3 DEF FilesInv, ControlTypes
  <2>4. /\ opens' \in 0 .. MaxOpens /\ refcount_ev' \in 0 .. opens' /\ interrupted' \in 0 .. MaxInterrupted
        /\ access_device' \in DEVICE_EEPROM .. DEVICE_EV
    BY <1>1, DriverAssumption DEF FilesInv, ControlTypes
  <2>. QED BY <2>1, <2>2, <2>3, <2>4 DEF ControlTypes
<1>5. files'[p] = file /\ \A q \in Processes \ {p} : files'[q] = files[q]
  BY <1>1 DEF FilesInv, ControlTypes
<1>6. p \in OpenFiles'
  BY <1>3, <1>5 DEF OpenFiles
<1>7. ASSUME NEW q \in OpenFiles' PROVE files'[q].minor = DEVICE_EV
  <2>1. CASE q = p
    BY <1>3, <1>5, <2>1
  <2>2. CASE q # p
    BY <1>2, <1>5, <2>2 DEF OpenFiles
  <2>. QED BY <2>1, <2>2
<1>8. OwnDevice' /\ OneMinorOpen'
  BY <1>1, <1>7 DEF OwnDevice, OneMinorOpen
<1>9. EvFiles' = EvFiles \cup {p} /\ p \notin EvFiles
  BY <1>1, <1>3, <1>5, ClosedFacts DEF EvFiles
<1>10. Cardinality(EvFiles') = Cardinality(EvFiles) + 1
  BY <1>9, EvFilesFinite, FS_AddElement
<1>11. References'
  BY <1>1, <1>10, EvFilesFinite DEF References, FilesInv, ControlTypes
<1>12. ClosedAgain'
  BY <1>1, <1>6 DEF ClosedAgain
<1>. QED BY <1>4, <1>8, <1>11, <1>12 DEF FilesInv

\* An open file moves on, and nothing else changes about the files.
LEMMA MovedOnInv ==
  ASSUME FilesInv, NEW p \in OpenFiles, NEW pos \in 0 .. FlashSize,
         files' = [files EXCEPT ![p].pos = pos],
         UNCHANGED <<devtype, accessVars, eventVars, opens, interrupted>>
  PROVE  FilesInv'
<1>1. p \in Processes /\ files \in [Processes -> FileType]
  BY DEF OpenFiles, FilesInv, ControlTypes
<1>2. files' \in [Processes -> FileType]
  BY <1>1 DEF FileType
<1>3. \A q \in Processes : files'[q].minor = files[q].minor /\ files'[q].mode = files[q].mode
  BY <1>1 DEF FileType
<1>4. \A q \in Processes \ {p} : files'[q] = files[q]
  BY <1>1
<1>5. files[p].minor # -1
  BY DEF FilesInv, OwnDevice, ControlTypes
<1>6. files'[p] # Closed
  BY <1>1, <1>3, <1>5, ClosedFacts
<1>7. OpenFiles' = OpenFiles /\ EvFiles' = EvFiles
  BY <1>1, <1>3, <1>4, <1>6 DEF OpenFiles, EvFiles
<1>8. ControlTypes'
  BY <1>2 DEF FilesInv, ControlTypes, accessVars, eventVars
<1>9. OwnDevice' /\ OneMinorOpen'
  <2>1. \A q \in OpenFiles' : q \in OpenFiles /\ q \in Processes
    BY <1>7 DEF OpenFiles
  <2>. QED BY <1>3, <2>1 DEF FilesInv, OwnDevice, OneMinorOpen, accessVars
<1>10. References'
  BY <1>7 DEF FilesInv, References, accessVars, eventVars
<1>11. ClosedAgain'
  BY <1>7 DEF FilesInv, ClosedAgain, accessVars
<1>. QED BY <1>8, <1>9, <1>10, <1>11 DEF FilesInv

\* What closing a file does to the open files.
LEMMA ClosedFile ==
  ASSUME FilesInv, NEW p \in OpenFiles, files' = [files EXCEPT ![p] = Closed]
  PROVE  /\ files' \in [Processes -> FileType]
         /\ OpenFiles' = OpenFiles \ {p}
         /\ \A q \in OpenFiles' : q \in OpenFiles /\ files'[q] = files[q]
         /\ EvFiles' = EvFiles \ {p}
         /\ Cardinality(EvFiles') = IF access_device = DEVICE_EV THEN Cardinality(EvFiles) - 1
                                                                 ELSE Cardinality(EvFiles)
         /\ access_device = DEVICE_EV => Cardinality(EvFiles) >= 1
<1>1. p \in Processes /\ files \in [Processes -> FileType]
  BY DEF OpenFiles, FilesInv, ControlTypes
<1>2. files' \in [Processes -> FileType]
  BY <1>1, ClosedFacts
<1>3. OpenFiles' = OpenFiles \ {p}
  BY <1>1 DEF OpenFiles
<1>4. \A q \in OpenFiles' : q \in OpenFiles /\ files'[q] = files[q]
  BY <1>1, <1>3 DEF OpenFiles
<1>5. EvFiles' = EvFiles \ {p}
  BY <1>1, ClosedFacts DEF EvFiles
<1>6. p \in EvFiles <=> access_device = DEVICE_EV
  BY <1>1 DEF FilesInv, OwnDevice, EvFiles
<1>7. Cardinality(EvFiles') = IF access_device = DEVICE_EV THEN Cardinality(EvFiles) - 1
                                                           ELSE Cardinality(EvFiles)
  <2>1. Cardinality(EvFiles') = IF p \in EvFiles THEN Cardinality(EvFiles) - 1 ELSE Cardinality(EvFiles)
    BY <1>5, EvFilesFinite, FS_RemoveElement
  <2>. QED BY <1>6, <2>1
<1>8. access_device = DEVICE_EV => Cardinality(EvFiles) >= 1
  BY <1>7, EvFilesFinite
<1>. QED BY <1>2, <1>3, <1>4, <1>5, <1>7, <1>8

\* Another device than the registers is released: it is closed if the board has it.
LEMMA ToolReleasedInv ==
  ASSUME FilesInv, NEW p \in Processes, NEW device \in {DEVICE_EEPROM, DEVICE_FLASH, DEVICE_FPGA},
         Releasing(p, device), UNCHANGED eventVars,
         device = DEVICE_FLASH \/ devtype \in PLX => NoneOpen
  PROVE  FilesInv'
<1>1. /\ p \in OpenFiles /\ access_device = device /\ device # DEVICE_EV
      /\ files' = [files EXCEPT ![p] = Closed]
      /\ devtype' = devtype /\ opens' = opens /\ interrupted' = interrupted
      /\ refcount_ev' = refcount_ev /\ irqHandler' = irqHandler
  BY DEF Releasing, OpenFiles, boundVars, eventVars
<1>2. access_mode' = "O_RDONLY" /\ access_device' = 0 /\ lockedOut' = FALSE
  BY <1>1 DEF NoneOpen, FilesInv, ControlTypes, OwnDevice, ClosedAgain
<1>3. OpenFiles' = {}
  <2>1. OpenFiles = {p}
    BY <1>1 DEF FilesInv, OneMinorOpen, OwnDevice
  <2>. QED BY <1>1, <2>1, ClosedFile
<1>4. ControlTypes'
  <2>1. files' \in [Processes -> FileType]
    BY <1>1, ClosedFile
  <2>2. irqHandler' \in BOOLEAN
    BY <1>1, <1>2 DEF FilesInv, ControlTypes
  <2>3. lockedOut' \in BOOLEAN
    BY <1>1, <1>2, LockType DEF FilesInv
  <2>. QED BY <1>1, <1>2, <2>1, <2>2, <2>3 DEF FilesInv, ControlTypes, Modes
<1>5. References'
  <2>1. Cardinality(EvFiles') = Cardinality(EvFiles)
    BY <1>1, ClosedFile
  <2>. QED BY <1>1, <1>2, <2>1 DEF FilesInv, References
<1>6. OwnDevice' /\ OneMinorOpen' /\ ClosedAgain'
  BY <1>2, <1>3 DEF OwnDevice, OneMinorOpen, ClosedAgain
<1>. QED BY <1>4, <1>5, <1>6 DEF FilesInv

LEMMA ReleaseEvInv ==
  ASSUME FilesInv, NEW p \in Processes, ReleaseEv(p)
  PROVE  FilesInv'
<1>1. /\ p \in OpenFiles /\ access_device = DEVICE_EV /\ refcount_ev \in Nat
      /\ files' = [files EXCEPT ![p] = Closed]
      /\ devtype' = devtype /\ opens' = opens /\ interrupted' = interrupted
      /\ refcount_ev > 0 /\ refcount_ev' = refcount_ev - 1
      /\ lockedOut' = FALSE
  BY DEF ReleaseEv, NoneOpen, accessVars, Releasing, OpenFiles, boundVars, FilesInv, References, ControlTypes,
         ClosedAgain
<1>2. IF refcount_ev' = 0 THEN irqHandler' = FALSE /\ access_mode' = "O_RDONLY" /\ access_device' = 0
                          ELSE irqHandler' = irqHandler /\ access_mode' = access_mode /\ access_device' = access_device
  BY DEF ReleaseEv, NoneOpen, accessVars
<1>3. /\ Cardinality(EvFiles') = Cardinality(EvFiles) - 1 /\ Cardinality(EvFiles) >= 1
      /\ Cardinality(EvFiles) \in Nat /\ Cardinality(EvFiles') \in Nat
  BY <1>1, ClosedFile, EvFilesFinite
<1>4. ControlTypes'
  <2>1. files' \in [Processes -> FileType]
    BY <1>1, ClosedFile
  <2>2. irqHandler' \in BOOLEAN
    BY <1>1, <1>2 DEF FilesInv, ControlTypes
  <2>3. lockedOut' \in BOOLEAN
    BY <1>1, <1>2, LockType DEF FilesInv
  <2>. QED BY <1>1, <1>2, <2>1, <2>2, <2>3 DEF FilesInv, ControlTypes, Modes
<1>5. References'
  BY <1>1, <1>2, <1>3 DEF FilesInv, References
<1>6. \A q \in OpenFiles' : q \in OpenFiles /\ files'[q] = files[q] /\ files'[q].minor = DEVICE_EV
  BY <1>1, ClosedFile DEF FilesInv, OwnDevice
\* The last reference is that of no open file.
<1>7. ASSUME refcount_ev' = 0 PROVE OpenFiles' = {}
  <2>1. Cardinality(EvFiles') = 0
    BY <1>5, <1>7, <1>3 DEF References
  <2>2. EvFiles' = {}
    BY <2>1, EvFilesFinite, FS_EmptySet
  <2>. QED BY <1>6, <2>2 DEF EvFiles, OpenFiles
<1>8. OwnDevice'
  BY <1>1, <1>2, <1>6, <1>7 DEF OwnDevice
<1>9. OneMinorOpen'
  BY <1>6 DEF OneMinorOpen
<1>10. ClosedAgain'
  <2>1. ASSUME OpenFiles' = {}, interrupted' = 0 PROVE access_device' = 0
    <3>1. EvFiles' = {}
      BY <2>1, ClosedFacts DEF EvFiles, OpenFiles
    <3>2. Cardinality(EvFiles') = 0
      BY <3>1, FS_EmptySet
    <3>. QED BY <1>2, <1>5, <2>1, <3>2 DEF References
  <2>. QED BY <1>1, <2>1 DEF ClosedAgain
<1>. QED BY <1>4, <1>5, <1>8, <1>9, <1>10 DEF FilesInv

LEMMA ReleaseInterruptedInv ==
  ASSUME FilesInv, NEW p \in Processes, ReleaseInterrupted(p)
  PROVE  FilesInv'
<1>1. /\ p \in OpenFiles
      /\ files' = [files EXCEPT ![p] = Closed]
      /\ devtype' = devtype /\ opens' = opens
      /\ interrupted' = interrupted + 1 /\ interrupted < MaxInterrupted
      /\ UNCHANGED <<access_mode, access_device, refcount_ev, irqHandler>>
      /\ lockedOut' = FALSE
  BY DEF ReleaseInterrupted, OpenFiles, accessVars, eventVars, FilesInv, ControlTypes, ClosedAgain
<1>2. ControlTypes' /\ interrupted' # 0
  <2>1. files' \in [Processes -> FileType]
    BY <1>1, ClosedFile
  <2>2. irqHandler' \in BOOLEAN
    BY <1>1 DEF FilesInv, ControlTypes
  <2>3. lockedOut' \in BOOLEAN
    BY <1>1, LockType DEF FilesInv
  <2>. QED BY <1>1, <2>1, <2>2, <2>3, DriverAssumption DEF FilesInv, ControlTypes
<1>3. References'
  <2>1. Cardinality(EvFiles') <= Cardinality(EvFiles)
    <3>1. Cardinality(EvFiles') = Cardinality(EvFiles) \/ Cardinality(EvFiles') = Cardinality(EvFiles) - 1
      BY <1>1, ClosedFile
    <3>. QED BY <3>1, EvFilesFinite
  <2>. QED BY <1>1, <1>2, <2>1, EvFilesFinite DEF FilesInv, References, ControlTypes
<1>4. OwnDevice' /\ OneMinorOpen'
  <2>1. \A q \in OpenFiles' : q \in OpenFiles /\ files'[q] = files[q]
    BY <1>1, ClosedFile
  <2>2. OwnDevice'
    BY <1>1, <2>1 DEF FilesInv, OwnDevice
  <2>3. OneMinorOpen'
    BY <2>1 DEF FilesInv, OneMinorOpen
  <2>. QED BY <2>2, <2>3
<1>5. ClosedAgain'
  BY <1>1, <1>2 DEF ClosedAgain
<1>. QED BY <1>2, <1>3, <1>4, <1>5 DEF FilesInv

LEMMA RebindInv ==
  ASSUME FilesInv, Rebind
  PROVE  FilesInv'
<1>1. /\ access_mode' = "O_RDONLY" /\ access_device' = 0 /\ OpenFiles = {}
      /\ lockedOut' = FALSE
      /\ UNCHANGED <<devtype, files, opens, interrupted, refcount_ev, irqHandler>>
  BY DEF Rebind, OpenFiles, eventVars, boundVars
<1>2. OpenFiles' = {} /\ EvFiles' = EvFiles
  BY <1>1 DEF OpenFiles, EvFiles
<1>3. ControlTypes'
  <2>1. irqHandler' \in BOOLEAN
    BY <1>1 DEF FilesInv, ControlTypes
  <2>2. lockedOut' \in BOOLEAN
    BY <1>1, LockType DEF FilesInv
  <2>. QED BY <1>1, <2>1, <2>2 DEF FilesInv, ControlTypes, Modes
<1>4. References'
  BY <1>1, <1>2 DEF FilesInv, References
<1>. QED BY <1>1, <1>2, <1>3, <1>4 DEF FilesInv, OwnDevice, OneMinorOpen, ClosedAgain

-----------------------------------------------------------------------------
(* The flash memory.                                                       *)

AreaEnd == IF devtype = "ECP3" THEN PrimaryEnd + SectorSize ELSE FlashSize

\* The image fits into an area of whole pages.
LEMMA AreaFacts ==
  /\ Base \in Nat /\ AreaEnd \in Nat /\ MaxImage \in Nat
  /\ Base + MaxImage <= AreaEnd /\ Base + PageSize <= AreaEnd /\ AreaEnd <= FlashSize
  /\ \E b \in Nat : Base = b * PageSize
  /\ \E m \in Nat : AreaEnd = Base + m * PageSize
<1>1. PICK z \in Nat : SectorSize = z * PageSize
  BY Sizes, Zenon
<1>2. PICK f \in Nat, s \in Nat, e \in Nat :
        FlashSize = f * SectorSize /\ PrimaryStart = s * SectorSize /\ PrimaryEnd = e * SectorSize
  BY Sizes, Zenon
<1>3. /\ PageSize \in Nat \ {0} /\ SectorSize \in Nat \ {0} /\ FlashSize \in Nat \ {0}
      /\ PrimaryStart \in Nat /\ PrimaryEnd \in Nat
      /\ PrimaryStart <= PrimaryEnd /\ PrimaryEnd + SectorSize <= FlashSize
  BY Sizes, Zenon
<1>4. MaxImage \in Nat /\ PrimaryStart + MaxImage <= PrimaryEnd + SectorSize
  BY DriverAssumption
<1>5. PageSize <= SectorSize
  <2>1. z # 0
    BY <1>1, <1>3
  <2>2. 1 * PageSize <= z * PageSize
    BY <1>3, <2>1, ProductGrows
  <2>. QED BY <1>1, <1>3, <2>2
<1>6. /\ Base \in Nat /\ AreaEnd \in Nat /\ MaxImage \in Nat
      /\ Base + MaxImage <= AreaEnd /\ Base + PageSize <= AreaEnd /\ AreaEnd <= FlashSize
  BY <1>3, <1>4, <1>5 DEF Base, AreaEnd
<1>7. \E b \in Nat : Base = b * PageSize
  <2>1. PrimaryStart = (s * z) * PageSize /\ s * z \in Nat /\ 0 = 0 * PageSize
    BY <1>1, <1>2, <1>3
  <2>. QED BY <2>1 DEF Base
<1>8. \E m \in Nat : AreaEnd = Base + m * PageSize
  <2>1. FlashSize = (f * z) * PageSize /\ f * z \in Nat
    BY <1>1, <1>2, <1>3
  <2>2. PrimaryStart = (s * z) * PageSize /\ PrimaryEnd + SectorSize = ((e + 1) * z) * PageSize
    BY <1>1, <1>2, <1>3
  <2>3. s <= e
    <3>1. ASSUME s > e PROVE FALSE
      <4>1. (e + 1) * SectorSize <= s * SectorSize
        BY <1>3, <3>1, ProductGrows
      <4>. QED BY <1>2, <1>3, <4>1
    <3>. QED BY <3>1
  <2>4. PICK m \in Nat : m = (e + 1 - s) * z
    BY <2>3
  <2>5. PrimaryEnd + SectorSize = PrimaryStart + m * PageSize
    BY <1>3, <2>2, <2>4
  <2>6. CASE devtype = "ECP3"
    BY <2>5, <2>6 DEF AreaEnd, Base
  <2>7. CASE devtype # "ECP3"
    BY <1>3, <2>1, <2>7 DEF AreaEnd, Base
  <2>. QED BY <2>6, <2>7
<1>. QED BY <1>6, <1>7, <1>8

\* A position is in its page.
LEMMA PageOfFacts ==
  ASSUME NEW pos \in Nat, NEW page, page = PageOf(pos)
  PROVE  /\ page \in Nat /\ page <= pos /\ pos < page + PageSize
         /\ \A k \in Nat : k * PageSize <= pos /\ pos < k * PageSize + PageSize => page = k * PageSize
<1>1. PageSize \in Nat \ {0}
  BY Sizes, Zenon
<1>2. PICK k \in Nat, r \in 0 .. PageSize - 1 : pos = k * PageSize + r
  BY <1>1, Divided
<1>3. ASSUME NEW j \in Nat, NEW q \in 0 .. PageSize - 1, pos = j * PageSize + q PROVE page = j * PageSize
  <2>1. (j * PageSize + q) % PageSize = q
    BY <1>1, j \in Int, Division, Zenon
  <2>2. pos % PageSize = q
    BY <1>3, <2>1
  <2>3. j * PageSize \in Nat
    BY <1>1
  <2>. QED BY <1>1, <1>3, <2>2, <2>3 DEF PageOf
<1>4. page = k * PageSize
  BY <1>2, <1>3
<1>5. page \in Nat /\ page <= pos /\ pos < page + PageSize
  <2>1. k * PageSize \in Nat
    BY <1>1, <1>2
  <2>. QED BY <1>1, <1>2, <1>4, <2>1
<1>6. ASSUME NEW j \in Nat, j * PageSize <= pos, pos < j * PageSize + PageSize PROVE page = j * PageSize
  <2>1. PICK q \in 0 .. PageSize - 1 : q = pos - j * PageSize
    BY <1>1, <1>6
  <2>2. pos = j * PageSize + q
    BY <1>1, <2>1
  <2>. QED BY <1>3, <2>2
<1>. QED BY <1>5, <1>6

\* What ProgramPage makes of the page at the position of the buffer.
PageWritten(data) ==
  \E complete \in BOOLEAN :
    /\ PageOutcome(flash, data, ChipAddress(Base + xcf_data_pos), [memory |-> flash', complete |-> complete])
    /\ incomplete' = IF complete THEN incomplete ELSE incomplete \cup {xcf_data_pos}

\* The buffer is about a page of the area, or only has bytes that program nothing.
InArea(data) ==
  Base + xcf_data_pos + PageSize <= AreaEnd \/ \A i \in 1 .. PageSize : data[i] = Erased

ErasedFrom(pos) == \A a \in Base + pos .. AreaEnd - 1 : flash[a] = Erased

\* Only bytes of the page change; if the area has been erased they get those of
\* the buffer, all of them unless the page is incomplete.
PageFrom(start, data) ==
  /\ IsMemory(flash')
  /\ \A a \in 0 .. FlashSize - 1 :
       flash'[a] = flash[a] \/ (/\ a \in start .. start + (PageSize - 1) /\ a < AreaEnd
                                /\ flash'[a] = ProgramByte(flash[a], data[a - start + 1]))
  /\ erased => \A a \in 0 .. FlashSize - 1 :
       flash'[a] = flash[a] \/ (/\ a \in start .. start + (PageSize - 1) /\ a < AreaEnd
                                /\ flash[a] = Erased /\ flash'[a] = data[a - start + 1])
  /\ incomplete \subseteq incomplete' /\ incomplete' \subseteq incomplete \cup {xcf_data_pos}
  /\ erased /\ xcf_data_pos \notin incomplete' =>
       \A a \in start .. start + (PageSize - 1) : a < AreaEnd => flash'[a] = data[a - start + 1]

LEMMA PageWrittenFacts ==
  ASSUME NEW data, xcf_data_pos \in Nat, Base + xcf_data_pos <= AreaEnd,
         IsMemory(flash), erased => ErasedFrom(xcf_data_pos), InArea(data), PageWritten(data),
         NEW start, start = Base + xcf_data_pos
  PROVE  PageFrom(start, data)
<1>0. /\ start \in Nat /\ PageSize \in Nat \ {0} /\ FlashSize \in Nat \ {0} /\ AreaEnd \in Nat /\ AreaEnd <= FlashSize
      /\ start <= AreaEnd
  <2>1. PageSize \in Nat \ {0} /\ FlashSize \in Nat \ {0}
    BY Sizes, Zenon
  <2>. QED BY <2>1, AreaFacts
<1>1. PICK complete \in BOOLEAN :
        /\ PageOutcome(flash, data, ChipAddress(start), [memory |-> flash', complete |-> complete])
        /\ incomplete' = IF complete THEN incomplete ELSE incomplete \cup {xcf_data_pos}
  BY DEF PageWritten
<1>2. /\ incomplete \subseteq incomplete' /\ incomplete' \subseteq incomplete \cup {xcf_data_pos}
      /\ xcf_data_pos \notin incomplete' => complete
  BY <1>1
<1>3. PICK chip : chip = ChipAddress(start)
  OBVIOUS
<1>4. /\ IsMemory(flash')
      /\ \A a \in 0 .. FlashSize - 1 :
           flash'[a] = flash[a] \/ (/\ a \in chip .. chip + PageSize - 1
                                    /\ flash'[a] = ProgramByte(flash[a], data[a - chip + 1]))
      /\ complete => \A a \in 0 .. FlashSize - 1 :
           a \in chip .. chip + PageSize - 1 => flash'[a] = ProgramByte(flash[a], data[a - chip + 1])
  BY <1>1, <1>3 DEF PageOutcome
<1>5. CASE start + PageSize <= AreaEnd
  <2>1. chip = start
    BY <1>0, <1>3, <1>5 DEF ChipAddress
  <2>2. ASSUME NEW a \in start .. start + (PageSize - 1)
        PROVE  a \in 0 .. FlashSize - 1 /\ a < AreaEnd /\ a \in start .. AreaEnd - 1
    BY <1>0, <1>5
  <2>3. ASSUME erased, NEW a \in start .. start + (PageSize - 1)
        PROVE  flash[a] = Erased /\ ProgramByte(flash[a], data[a - start + 1]) = data[a - start + 1]
    <3>1. flash[a] = Erased
      BY <2>2, <2>3 DEF ErasedFrom
    <3>. QED BY <3>1 DEF ProgramByte
  <2>4. start .. start + (PageSize - 1) = chip .. chip + PageSize - 1
    BY <1>0, <2>1
  <2>5. \A a \in 0 .. FlashSize - 1 :
          flash'[a] = flash[a] \/ (/\ a \in start .. start + (PageSize - 1) /\ a < AreaEnd
                                   /\ flash'[a] = ProgramByte(flash[a], data[a - start + 1]))
    BY <1>4, <2>1, <2>2, <2>4
  <2>6. erased => \A a \in 0 .. FlashSize - 1 :
          flash'[a] = flash[a] \/ (/\ a \in start .. start + (PageSize - 1) /\ a < AreaEnd
                                   /\ flash[a] = Erased /\ flash'[a] = data[a - start + 1])
    BY <2>3, <2>5
  <2>7. ASSUME erased, xcf_data_pos \notin incomplete', NEW a \in start .. start + (PageSize - 1)
        PROVE  flash'[a] = data[a - start + 1]
    BY <1>2, <1>4, <2>1, <2>2, <2>3, <2>4, <2>7
  <2>. QED BY <1>2, <1>4, <2>5, <2>6, <2>7 DEF PageFrom
<1>6. CASE ~(start + PageSize <= AreaEnd)
  <2>1. ASSUME NEW i \in 1 .. PageSize PROVE data[i] = Erased
    BY <1>6 DEF InArea
  <2>2. chip \in Nat
    BY <1>0, <1>3 DEF ChipAddress
  <2>3. ASSUME NEW a \in 0 .. FlashSize - 1 PROVE flash'[a] = flash[a]
    <3>1. ASSUME a \in chip .. chip + PageSize - 1, flash'[a] = ProgramByte(flash[a], data[a - chip + 1])
          PROVE  flash'[a] = flash[a]
      <4>1. a - chip + 1 \in 1 .. PageSize
        BY <1>0, <2>2, <3>1
      <4>2. data[a - chip + 1] = Erased
        BY <2>1, <4>1
      <4>. QED BY <3>1, <4>2 DEF ProgramByte
    <3>. QED BY <1>4, <3>1
  <2>4. ASSUME erased, NEW a \in start .. start + (PageSize - 1), a < AreaEnd PROVE flash'[a] = data[a - start + 1]
    <3>1. a \in 0 .. FlashSize - 1 /\ a \in start .. AreaEnd - 1 /\ a - start + 1 \in 1 .. PageSize
      BY <1>0, <2>4
    <3>2. flash[a] = Erased
      BY <2>4, <3>1 DEF ErasedFrom
    <3>. QED BY <2>1, <2>3, <3>1, <3>2
  <2>. QED BY <1>2, <1>4, <2>3, <2>4 DEF PageFrom
<1>. QED BY <1>5, <1>6

Writing(p) ==
  /\ p \in OpenFiles /\ devtype # "V5_PCIE"
  /\ files[p].minor = DEVICE_FLASH /\ files[p].mode = "O_WRONLY"

\* A byte of the image is in the flash memory, or its page is incomplete.
HoldsByte(session, i) ==
  flash[Base + i] = Byte(session, i) \/ (flash[Base + i] = Erased /\ PageOf(i) \in incomplete)

\* The buffer has the bytes of the page that are not in the flash memory yet; if
\* the area has been erased the bytes before are there, unless a page is
\* incomplete, and the rest of the area is erased.
SessionOf(p) ==
  /\ image = NoImage
  /\ xcf_data \in [1 .. PageSize -> Bytes]
  /\ \E k \in Nat : xcf_data_pos = k * PageSize
  /\ xcf_data_pos <= files[p].pos /\ files[p].pos < xcf_data_pos + PageSize /\ files[p].pos <= MaxImage
  /\ \A i \in xcf_data_pos .. files[p].pos - 1 : xcf_data[i - xcf_data_pos + 1] = Byte(files[p].session, i)
  /\ InArea(xcf_data)
  /\ erased => ErasedFrom(xcf_data_pos)
  /\ erased => \A i \in 0 .. xcf_data_pos - 1 : HoldsByte(files[p].session, i)

FlashTypes ==
  /\ flash \in [0 .. FlashSize - 1 -> Bytes]
  /\ erased \in BOOLEAN
  /\ incomplete \subseteq 0 .. FlashSize
  /\ image \in [session : 0 .. MaxOpens, length : 0 .. MaxImage]

LEMMA ByteFacts ==
  /\ {Erased, Zero, Old, Garbled} \subseteq Bytes
  /\ \A s \in 0 .. MaxOpens, i \in 0 .. MaxImage : Byte(s, i) \in Bytes
<1>1. MaxImage \in Nat /\ MaxOpens \in Nat
  BY DriverAssumption
<1>2. ASSUME NEW s \in 0 .. MaxOpens, NEW i \in 0 .. MaxImage PROVE Byte(s, i) \in 0 .. Byte(MaxOpens, MaxImage)
  <2>1. s * (MaxImage + 1) \in Nat /\ s * (MaxImage + 1) <= MaxOpens * (MaxImage + 1)
    BY <1>1, ProductGrows
  <2>. QED BY <1>1, <2>1 DEF Byte
<1>3. Byte(MaxOpens, MaxImage) \in Nat
  BY <1>1 DEF Byte
<1>4. {Erased, Zero, Old, Garbled} \subseteq Bytes
  BY <1>3 DEF Bytes, Erased, Zero, Old, Garbled
<1>5. ASSUME NEW b \in 0 .. Byte(MaxOpens, MaxImage) PROVE b \in Bytes
  BY <1>3, <1>5 DEF Bytes, Garbled
<1>. QED BY <1>2, <1>4, <1>5

LEMMA SessionPosition ==
  ASSUME FilesInv, NEW p \in OpenFiles, Writing(p), SessionOf(p)
  PROVE  /\ xcf_data_pos \in Nat /\ files[p].pos \in Nat /\ files[p].session \in 0 .. MaxOpens
         /\ Base + xcf_data_pos \in 0 .. FlashSize /\ Base + xcf_data_pos <= AreaEnd
         /\ \E k \in Nat : Base + xcf_data_pos = k * PageSize
         /\ xcf_data_pos < MaxImage => Base + xcf_data_pos + PageSize <= AreaEnd
<1>1. PageSize \in Nat \ {0} /\ FlashSize \in Nat \ {0}
  BY Sizes, Zenon
<1>2. PICK k \in Nat, b \in Nat, m \in Nat :
        xcf_data_pos = k * PageSize /\ Base = b * PageSize /\ AreaEnd = Base + m * PageSize
  BY AreaFacts DEF SessionOf
<1>3. xcf_data_pos \in Nat
  BY <1>1, <1>2
<1>4. files[p].pos \in Nat /\ files[p].session \in 0 .. MaxOpens
  BY DEF FilesInv, ControlTypes, FileType, OpenFiles
<1>5. xcf_data_pos <= MaxImage
  BY <1>3, <1>4, AreaFacts DEF SessionOf
<1>6. Base + xcf_data_pos \in 0 .. FlashSize /\ Base + xcf_data_pos <= AreaEnd
  BY <1>1, <1>3, <1>5, AreaFacts
<1>7. \E j \in Nat : Base + xcf_data_pos = j * PageSize
  <2>1. Base + xcf_data_pos = (b + k) * PageSize
    BY <1>1, <1>2
  <2>. QED BY <2>1
<1>8. ASSUME xcf_data_pos < MaxImage PROVE Base + xcf_data_pos + PageSize <= AreaEnd
  <2>1. xcf_data_pos < m * PageSize
    BY <1>1, <1>2, <1>3, <1>8, AreaFacts
  <2>2. k < m
    <3>1. ASSUME m <= k PROVE FALSE
      <4>1. m * PageSize <= k * PageSize
        BY <1>1, <3>1, ProductGrows
      <4>. QED BY <1>1, <1>2, <2>1, <4>1
    <3>. QED BY <3>1
  <2>3. (k + 1) * PageSize <= m * PageSize
    BY <1>1, <2>2, ProductGrows
  <2>. QED BY <1>1, <1>2, <1>3, <2>3, AreaFacts
<1>. QED BY <1>3, <1>4, <1>6, <1>7, <1>8

\* What has been programmed of a page is as it should be.
LEMMA ImageSoFar ==
  ASSUME FilesInv, NEW p \in OpenFiles, Writing(p), SessionOf(p), devtype' = devtype,
         NEW session, session = files[p].session,
         NEW data, NEW end \in Nat, end <= xcf_data_pos + PageSize, end <= MaxImage,
         \A i \in xcf_data_pos .. end - 1 : data[i - xcf_data_pos + 1] = Byte(session, i),
         NEW start, start = Base + xcf_data_pos, PageFrom(start, data),
         erased, NEW i \in 0 .. end - 1
  PROVE  HoldsByte(session, i)'
<1>1. xcf_data_pos \in Nat /\ Base \in Nat /\ PageSize \in Nat \ {0} /\ FlashSize \in Nat \ {0}
  <2>1. PageSize \in Nat \ {0} /\ FlashSize \in Nat \ {0}
    BY Sizes, Zenon
  <2>. QED BY <2>1, SessionPosition, AreaFacts
<1>2. Base + i \in 0 .. FlashSize - 1 /\ Base + i < AreaEnd
  BY <1>1, AreaFacts
<1>3. SUFFICES flash'[Base + i] = Byte(session, i) \/ (flash'[Base + i] = Erased /\ PageOf(i) \in incomplete')
  BY DEF HoldsByte, Base
<1>4. CASE i < xcf_data_pos
  <2>1. flash[Base + i] = Byte(session, i) \/ (flash[Base + i] = Erased /\ PageOf(i) \in incomplete)
    BY <1>1, <1>4 DEF SessionOf, HoldsByte
  <2>2. Base + i \notin start .. start + (PageSize - 1)
    BY <1>1, <1>4
  <2>3. flash'[Base + i] = flash[Base + i] /\ incomplete \subseteq incomplete'
    BY <1>2, <2>2 DEF PageFrom
  <2>. QED BY <2>1, <2>3
<1>5. CASE i >= xcf_data_pos
  <2>1. Base + i \in start .. start + (PageSize - 1)
    BY <1>1, <1>5
  <2>2. (Base + i) - start + 1 = i - xcf_data_pos + 1 /\ i \in xcf_data_pos .. end - 1
    BY <1>1, <1>5
  <2>3. data[(Base + i) - start + 1] = Byte(session, i)
    BY <2>2
  <2>4. CASE xcf_data_pos \notin incomplete'
    BY <1>2, <2>1, <2>3, <2>4 DEF PageFrom
  <2>5. CASE xcf_data_pos \in incomplete'
    <3>1. flash[Base + i] = Erased
      BY <1>1, <1>2, <1>5, AreaFacts DEF SessionOf, ErasedFrom
    <3>2. flash'[Base + i] = Erased \/ flash'[Base + i] = Byte(session, i)
      BY <1>2, <2>3, <3>1 DEF PageFrom
    <3>3. PageOf(i) = xcf_data_pos
      <4>1. PICK k \in Nat : xcf_data_pos = k * PageSize
        BY DEF SessionOf
      <4>2. k * PageSize <= i /\ i < k * PageSize + PageSize /\ i \in Nat
        BY <1>1, <1>5, <4>1
      <4>. QED BY <4>1, <4>2, PageOfFacts
    <3>. QED BY <2>5, <3>2, <3>3
  <2>. QED BY <2>4, <2>5
<1>. QED BY <1>1, <1>4, <1>5

\* Only bytes of the area change, after an erase that was executed completely only
\* from or to the erased state.
OnlyArea == \A a \in 0 .. FlashSize - 1 :
  flash'[a] = flash[a] \/ (Base <= a /\ a < AreaEnd /\ (erased => flash[a] = Erased \/ flash'[a] = Erased))

LEMMA PageFromFacts ==
  ASSUME NEW start \in Nat, start >= Base, NEW data \in [1 .. PageSize -> Bytes], PageFrom(start, data),
         flash \in [0 .. FlashSize - 1 -> Bytes]
  PROVE  OnlyArea /\ flash' \in [0 .. FlashSize - 1 -> Bytes]
<1>1. PageSize \in Nat \ {0} /\ FlashSize \in Nat \ {0}
  BY Sizes, Zenon
<1>2. ASSUME NEW a \in 0 .. FlashSize - 1
      PROVE  \/ flash'[a] = flash[a]
             \/ a \in start .. start + (PageSize - 1) /\ a < AreaEnd /\ flash'[a] = ProgramByte(flash[a], data[a - start + 1])
  BY DEF PageFrom
<1>3. OnlyArea
  <2>1. ASSUME NEW a \in 0 .. FlashSize - 1, flash'[a] # flash[a] PROVE Base <= a /\ a < AreaEnd
    BY <1>1, <1>2, <2>1, AreaFacts
  <2>2. ASSUME NEW a \in 0 .. FlashSize - 1, flash'[a] # flash[a], erased PROVE flash[a] = Erased
    BY <2>2 DEF PageFrom
  <2>. QED BY <2>1, <2>2 DEF OnlyArea
<1>4. ASSUME NEW a \in 0 .. FlashSize - 1 PROVE flash'[a] \in Bytes
  <2>1. CASE flash'[a] = flash[a]
    BY <2>1
  <2>2. CASE a \in start .. start + (PageSize - 1) /\ flash'[a] = ProgramByte(flash[a], data[a - start + 1])
    <3>1. a - start + 1 \in 1 .. PageSize
      BY <1>1, <2>2
    <3>2. data[a - start + 1] \in Bytes /\ flash[a] \in Bytes /\ Garbled \in Bytes
      BY <3>1, ByteFacts
    <3>. QED BY <2>2, <3>2 DEF ProgramByte
  <2>. QED BY <1>2, <2>1, <2>2
<1>. QED BY <1>3, <1>4 DEF PageFrom, IsMemory

\* Bytes are put into the buffer, and a page is programmed when it is full.
LEMMA WriteSession ==
  ASSUME FilesInv, FlashTypes, NEW p \in OpenFiles, Writing(p), SessionOf(p), Write(p),
         \A data \in [1 .. PageSize -> Bytes] : InArea(data) /\ ProgramPage(data) => PageWritten(data)
  PROVE  FilesInv' /\ FlashTypes' /\ SessionOf(p)' /\ Writing(p)' /\ OnlyArea /\ image' = image
<1>0. PICK pos, session, at, start :
        pos = files[p].pos /\ session = files[p].session /\ at = xcf_data_pos /\ start = Base + at
  OBVIOUS
<1>1. /\ PageSize \in Nat \ {0} /\ FlashSize \in Nat \ {0} /\ MaxImage \in Nat
      /\ at \in Nat /\ pos \in Nat /\ at <= pos /\ pos < at + PageSize /\ pos <= MaxImage
  <2>1. PageSize \in Nat \ {0} /\ FlashSize \in Nat \ {0}
    BY Sizes, Zenon
  <2>2. xcf_data_pos \in Nat /\ files[p].pos \in Nat /\ MaxImage \in Nat
    BY SessionPosition, AreaFacts
  <2>3. xcf_data_pos <= files[p].pos /\ files[p].pos < xcf_data_pos + PageSize /\ files[p].pos <= MaxImage
    BY DEF SessionOf
  <2>. QED BY <1>0, <2>1, <2>2, <2>3
<1>2. /\ Base \in Nat /\ AreaEnd \in Nat /\ AreaEnd <= FlashSize /\ Base + MaxImage <= AreaEnd
      /\ start \in Nat /\ start <= AreaEnd /\ start >= Base
  <2>1. Base \in Nat /\ AreaEnd \in Nat /\ AreaEnd <= FlashSize /\ Base + MaxImage <= AreaEnd
    BY AreaFacts
  <2>2. start <= AreaEnd /\ start = Base + at
    BY <1>0, SessionPosition
  <2>. QED BY <1>1, <2>1, <2>2
<1>3. session \in 0 .. MaxOpens /\ p \in Processes
  BY <1>0, SessionPosition DEF OpenFiles
<1>4. /\ xcf_data \in [1 .. PageSize -> Bytes]
      /\ \A i \in at .. pos - 1 : xcf_data[i - at + 1] = Byte(session, i)
  BY <1>0 DEF SessionOf
<1>5. pos % PageSize = pos - at
  <2>1. PICK k \in Nat : at = k * PageSize
    BY <1>0 DEF SessionOf
  <2>2. PICK r \in 0 .. PageSize - 1 : r = pos - at
    BY <1>1
  <2>3. (k * PageSize + r) % PageSize = r
    BY <1>1, k \in Int, Division, Zenon
  <2>4. pos = k * PageSize + r
    BY <1>1, <2>1, <2>2
  <2>. QED BY <2>2, <2>3, <2>4
<1>. DEFINE Filled(n) == [i \in 1 .. PageSize |->
                            IF i \in pos - at + 1 .. pos - at + n
                              THEN Byte(session, pos + i - (pos - at) - 1) ELSE xcf_data[i]]
            Step(n) ==
              /\ files' = [files EXCEPT ![p].pos = pos + n]
              /\ IF pos + n - at = PageSize
                   THEN /\ ProgramPage(Filled(n))
                        /\ xcf_data' = [i \in 1 .. PageSize |-> Erased]
                        /\ xcf_data_pos' = pos + n
                   ELSE /\ xcf_data' = Filled(n)
                        /\ UNCHANGED <<xcf_data_pos, flash, incomplete, chain>>
<1>6. PICK n : (\E count \in 1 .. PageSize + 1 : n = BytesTo(count, pos, at)) /\ pos + n <= MaxImage /\ Step(n)
  BY <1>0, <1>5 DEF Write
<1>7. n \in Nat /\ n >= 1 /\ pos + n <= at + PageSize /\ pos + n <= MaxImage
  <2>1. PICK count \in Nat : count >= 1 /\ n = BytesTo(count, pos, at)
    BY <1>1, <1>6
  <2>2. pos + n <= MaxImage
    BY <1>6
  <2>. QED BY <1>1, <2>1, <2>2 DEF BytesTo, SmallerOf
<1>. HIDE DEF Filled
<1>8. /\ UNCHANGED <<devtype, access_mode, access_device, lockedOut, refcount_ev, irqHandler, opens, interrupted>>
      /\ image' = image /\ erased' = erased
  BY DEF Write, accessVars, eventVars, boundVars
<1>9. Filled(n) \in [1 .. PageSize -> Bytes]
  <2>. SUFFICES ASSUME NEW i \in 1 .. PageSize PROVE Filled(n)[i] \in Bytes
    BY DEF Filled
  <2>1. CASE i \in pos - at + 1 .. pos - at + n
    <3>1. pos + i - (pos - at) - 1 \in 0 .. MaxImage
      BY <1>1, <1>7, <2>1
    <3>2. Byte(session, pos + i - (pos - at) - 1) \in Bytes
      BY <1>3, <3>1, ByteFacts
    <3>. QED BY <2>1, <3>2 DEF Filled
  <2>2. CASE i \notin pos - at + 1 .. pos - at + n
    BY <1>4, <2>2 DEF Filled
  <2>. QED BY <2>1, <2>2
<1>10. ASSUME NEW i \in at .. (pos + n) - 1 PROVE Filled(n)[i - at + 1] = Byte(session, i)
  <2>1. i - at + 1 \in 1 .. PageSize /\ i \in Nat
    BY <1>1, <1>7
  <2>2. CASE i < pos
    <3>1. i \in at .. pos - 1 /\ i - at + 1 \notin pos - at + 1 .. pos - at + n
      BY <1>1, <1>7, <2>2
    <3>. QED BY <1>4, <2>1, <3>1 DEF Filled
  <2>3. CASE i >= pos
    <3>1. i - at + 1 \in pos - at + 1 .. pos - at + n
      BY <1>1, <1>7, <2>3
    <3>2. pos + (i - at + 1) - (pos - at) - 1 = i
      BY <1>1, <1>7
    <3>. QED BY <2>1, <3>1, <3>2 DEF Filled
  <2>. QED BY <1>1, <2>1, <2>2, <2>3
<1>11. start + PageSize <= AreaEnd
  <2>1. at < MaxImage
    BY <1>1, <1>7
  <2>. QED BY <1>0, <2>1, SessionPosition
<1>12. files' = [files EXCEPT ![p].pos = pos + n]
  BY <1>6
<1>13. FilesInv'
  <2>1. pos + n \in 0 .. FlashSize
    BY <1>1, <1>2, <1>7
  <2>. QED BY <1>12, <1>8, <2>1, MovedOnInv DEF accessVars, eventVars
<1>14. files'[p].pos = pos + n /\ files'[p].session = session /\ Writing(p)'
  <2>1. files \in [Processes -> FileType] /\ files' \in [Processes -> FileType]
    BY <1>13 DEF FilesInv, ControlTypes
  <2>2. files'[p] = [files[p] EXCEPT !.pos = pos + n]
    BY <1>3, <1>12, <2>1
  <2>3. files[p] \in FileType
    BY <1>3, <2>1
  <2>4. /\ files'[p].pos = pos + n /\ files'[p].session = files[p].session
        /\ files'[p].minor = files[p].minor /\ files'[p].mode = files[p].mode
    BY <2>2, <2>3 DEF FileType
  <2>5. files'[p] # Closed
    <3>1. files'[p].minor = 1
      BY <2>4 DEF Writing, DEVICE_FLASH
    <3>. QED BY <3>1, ClosedFacts
  <2>6. p \in OpenFiles'
    BY <1>3, <2>5 DEF OpenFiles
  <2>7. Writing(p)'
    BY <1>8, <2>4, <2>6 DEF Writing
  <2>. QED BY <1>0, <2>4, <2>7
<1>15. devtype' = devtype /\ Base' = Base /\ AreaEnd' = AreaEnd
  BY <1>8 DEF Base, AreaEnd
<1>16. CASE pos + n - at = PageSize
  <2>1. ProgramPage(Filled(n)) /\ xcf_data' = [i \in 1 .. PageSize |-> Erased] /\ xcf_data_pos' = pos + n
    BY <1>6, <1>16
  <2>2. pos + n = at + PageSize
    BY <1>1, <1>7, <1>16
  <2>3. InArea(Filled(n))
    BY <1>0, <1>11 DEF InArea
  <2>4. PageWritten(Filled(n))
    BY <1>9, <2>1, <2>3
  <2>5. PageFrom(start, Filled(n))
    <3>1. IsMemory(flash) /\ (erased => ErasedFrom(xcf_data_pos))
      BY DEF FlashTypes, IsMemory, SessionOf
    <3>2. xcf_data_pos \in Nat /\ Base + xcf_data_pos <= AreaEnd
      BY <1>0, <1>1, <1>2
    <3>. QED BY <1>0, <2>3, <2>4, <3>1, <3>2, PageWrittenFacts
  <2>6. OnlyArea /\ flash' \in [0 .. FlashSize - 1 -> Bytes]
    BY <1>2, <1>9, <2>5, PageFromFacts DEF FlashTypes
  <2>7. FlashTypes'
    <3>1. incomplete' \subseteq incomplete \cup {xcf_data_pos} /\ xcf_data_pos \in 0 .. FlashSize
      BY <1>0, <1>1, <1>2, <2>5 DEF PageFrom
    <3>. QED BY <1>8, <2>6, <3>1 DEF FlashTypes
  <2>8. \E k \in Nat : xcf_data_pos' = k * PageSize
    <3>1. PICK k \in Nat : at = k * PageSize
      BY <1>0 DEF SessionOf
    <3>2. at + PageSize = (k + 1) * PageSize
      BY <1>1, <3>1
    <3>. QED BY <2>1, <2>2, <3>2
  <2>9. xcf_data' \in [1 .. PageSize -> Bytes] /\ InArea(xcf_data)'
    <3>1. Erased \in Bytes
      BY ByteFacts
    <3>. QED BY <2>1, <3>1 DEF InArea
  <2>10. ASSUME erased PROVE ErasedFrom(xcf_data_pos)'
    <3>. SUFFICES ASSUME NEW a \in Base + (pos + n) .. AreaEnd - 1 PROVE flash'[a] = Erased
      BY <1>15, <2>1 DEF ErasedFrom
    <3>1. /\ a \in 0 .. FlashSize - 1 /\ a \in Base + at .. AreaEnd - 1
          /\ a \notin start .. start + (PageSize - 1)
      <4>1. start = Base + at
        BY <1>0
      <4>. QED BY <1>1, <1>2, <2>2, <4>1
    <3>2. flash[a] = Erased
      BY <1>0, <2>10, <3>1 DEF SessionOf, ErasedFrom
    <3>. QED BY <2>5, <3>1, <3>2 DEF PageFrom
  <2>11. ASSUME erased, NEW i \in 0 .. (pos + n) - 1 PROVE HoldsByte(session, i)'
    <3>1. pos + n \in Nat /\ pos + n <= xcf_data_pos + PageSize
      BY <1>0, <1>1, <1>7
    <3>2. \A j \in xcf_data_pos .. (pos + n) - 1 : Filled(n)[j - xcf_data_pos + 1] = Byte(files[p].session, j)
      BY <1>0, <1>10
    <3>3. PICK end \in Nat : end = pos + n
      BY <3>1
    <3>. QED BY <1>0, <1>7, <1>8, <2>5, <2>11, <3>1, <3>2, <3>3, ImageSoFar
  <2>12. SessionOf(p)'
    <3>1. /\ xcf_data_pos' <= files'[p].pos /\ files'[p].pos < xcf_data_pos' + PageSize /\ files'[p].pos <= MaxImage
          /\ xcf_data_pos' .. files'[p].pos - 1 = {}
      BY <1>1, <1>7, <1>14, <2>1
    <3>2. erased' => \A i \in 0 .. xcf_data_pos' - 1 : HoldsByte(files[p].session, i)'
      BY <1>8, <1>14, <2>1, <2>11 DEF HoldsByte
    <3>3. image' = NoImage'
      BY <1>8 DEF SessionOf, NoImage
    <3>4. \A i \in xcf_data_pos' .. files'[p].pos - 1 :
            xcf_data'[i - xcf_data_pos' + 1] = Byte(files'[p].session, i)
      BY <3>1
    <3>. QED BY <1>8, <2>8, <2>9, <2>10, <3>1, <3>2, <3>3, <3>4 DEF SessionOf
  <2>. QED BY <1>8, <1>13, <1>14, <2>6, <2>7, <2>12
<1>17. CASE pos + n - at # PageSize
  <2>1. /\ xcf_data' = Filled(n)
        /\ xcf_data_pos' = xcf_data_pos /\ flash' = flash /\ incomplete' = incomplete
    BY <1>6, <1>17
  <2>2. pos + n < at + PageSize
    BY <1>1, <1>7, <1>17
  <2>3. FlashTypes' /\ OnlyArea
    BY <1>8, <2>1 DEF FlashTypes, OnlyArea
  <2>4. InArea(xcf_data)'
    BY <1>0, <1>11, <1>15, <2>1 DEF InArea
  <2>5. erased => ErasedFrom(xcf_data_pos)'
    BY <1>15, <2>1 DEF ErasedFrom, SessionOf
  <2>6. SessionOf(p)'
    <3>1. at <= pos + n /\ pos + n < at + PageSize /\ pos + n <= MaxImage
      BY <1>1, <1>7, <2>2
    <3>2. xcf_data_pos' = at /\ files'[p].pos = pos + n /\ files'[p].session = session /\ files[p].session = session
      BY <1>0, <1>14, <2>1
    <3>3. \A i \in xcf_data_pos' .. files'[p].pos - 1 :
            xcf_data'[i - xcf_data_pos' + 1] = Byte(files'[p].session, i)
      BY <1>10, <2>1, <3>2
    <3>4. erased' => \A i \in 0 .. xcf_data_pos' - 1 : HoldsByte(files[p].session, i)'
      BY <1>8, <1>15, <2>1, <3>2 DEF SessionOf, HoldsByte
    <3>5. (\E k \in Nat : xcf_data_pos' = k * PageSize) /\ xcf_data' \in [1 .. PageSize -> Bytes]
      BY <1>9, <2>1 DEF SessionOf
    <3>6. image' = NoImage'
      BY <1>8 DEF SessionOf, NoImage
    <3>. QED BY <1>8, <2>4, <2>5, <3>1, <3>2, <3>3, <3>4, <3>5, <3>6 DEF SessionOf
  <2>. QED BY <1>8, <1>13, <1>14, <2>3, <2>6
<1>. QED BY <1>16, <1>17

FlashInv ==
  /\ FlashTypes
  /\ GoldenImageKept
  /\ FlashHoldsImage
  /\ \A p \in OpenFiles : Writing(p) => SessionOf(p)

\* What the SPI controller makes of a page is what the session expects.
LEMMA ChipProgramsPage ==
  ASSUME FilesInv, FlashTypes, NEW p \in OpenFiles, Writing(p), SessionOf(p), devtype # "V2P_9030",
         NEW data \in [1 .. PageSize -> Bytes], ProgramPage(data)
  PROVE  PageWritten(data)
<1>1. PICK page \in PageProgram(flash, data, Base + xcf_data_pos) :
        /\ flash' = page.memory
        /\ incomplete' = IF page.complete THEN incomplete ELSE incomplete \cup {xcf_data_pos}
  BY DEF ProgramPage
<1>2. PICK place \in 0 .. FlashSize, k \in Nat : place = Base + xcf_data_pos /\ place = k * PageSize
  <2>1. PICK place \in 0 .. FlashSize : place = Base + xcf_data_pos
    BY SessionPosition
  <2>2. PICK k \in Nat : place = k * PageSize
    BY <2>1, SessionPosition
  <2>. QED BY <2>1, <2>2
<1>3. PICK start : start = ChipAddress(place)
  OBVIOUS
<1>4. PageOutcome(flash, data, start, page)
  <2>1. IsMemory(flash)
    BY DEF IsMemory, FlashTypes
  <2>. QED BY <1>1, <1>2, <1>3, <2>1, PageProgramFacts
<1>5. PageOutcome(flash, data, start, [memory |-> flash', complete |-> page.complete]) /\ page.complete \in BOOLEAN
  BY <1>1, <1>4 DEF PageOutcome
<1>. QED BY <1>1, <1>2, <1>3, <1>5 DEF PageWritten

\* The flush of the last page makes the image complete.
LEMMA SessionClosed ==
  ASSUME FilesInv, FlashTypes, NEW p \in OpenFiles, Writing(p), SessionOf(p), devtype' = devtype,
         erased' = erased, PageWritten(xcf_data), ImageWritten(p)
  PROVE  FlashTypes' /\ FlashHoldsImage' /\ OnlyArea
<1>1. PICK start, end : start = Base + xcf_data_pos /\ end = files[p].pos
  OBVIOUS
<1>2. /\ xcf_data_pos \in Nat /\ start \in Nat /\ start >= Base /\ end \in Nat /\ Base + xcf_data_pos <= AreaEnd
      /\ files[p].session \in 0 .. MaxOpens
  BY <1>1, SessionPosition, AreaFacts
<1>3. /\ end <= xcf_data_pos + PageSize /\ end <= MaxImage
      /\ \A i \in xcf_data_pos .. end - 1 : xcf_data[i - xcf_data_pos + 1] = Byte(files[p].session, i)
      /\ xcf_data \in [1 .. PageSize -> Bytes] /\ InArea(xcf_data) /\ (erased => ErasedFrom(xcf_data_pos))
  <2>1. PageSize \in Nat \ {0}
    BY Sizes, Zenon
  <2>2. end < xcf_data_pos + PageSize /\ end <= MaxImage
    BY <1>1 DEF SessionOf
  <2>3. end <= xcf_data_pos + PageSize /\ end <= MaxImage
    BY <1>2, <2>1, <2>2
  <2>. QED BY <1>1, <2>3 DEF SessionOf
<1>4. PageFrom(start, xcf_data)
  <2>1. IsMemory(flash)
    BY DEF IsMemory, FlashTypes
  <2>. QED BY <1>1, <1>2, <1>3, <2>1, PageWrittenFacts
<1>5. OnlyArea /\ flash' \in [0 .. FlashSize - 1 -> Bytes]
  BY <1>2, <1>3, <1>4, PageFromFacts DEF FlashTypes
<1>6. image' = [session |-> files[p].session, length |-> end]
  BY <1>1 DEF ImageWritten
<1>7. image' \in [session : 0 .. MaxOpens, length : 0 .. MaxImage]
  <2>1. end \in 0 .. MaxImage
    BY <1>2, <1>3, DriverAssumption
  <2>. QED BY <1>2, <1>6, <2>1
<1>8. FlashTypes'
  <2>1. incomplete' \subseteq incomplete \cup {xcf_data_pos} /\ xcf_data_pos \in 0 .. FlashSize
    BY <1>4, SessionPosition, AreaFacts, Sizes DEF PageFrom
  <2>. QED BY <1>5, <1>7, <2>1 DEF FlashTypes
<1>9. FlashHoldsImage'
  <2>1. image'.length = end /\ image'.session = files[p].session /\ Base' = Base
    BY <1>6 DEF Base
  <2>2. PICK session : session = files[p].session
    OBVIOUS
  <2>3. ASSUME erased, NEW i \in 0 .. end - 1 PROVE HoldsByte(session, i)'
    BY <1>1, <1>2, <1>3, <1>4, <2>2, <2>3, ImageSoFar
  <2>. QED BY <2>1, <2>2, <2>3 DEF FlashHoldsImage, HoldsByte
<1>. QED BY <1>5, <1>8, <1>9

\* The area has been erased, and a session begins unless that failed.
LEMMA SessionBegun ==
  ASSUME FilesInv, FlashTypes, NEW p \in Processes, FilesInv', Opening(p, DEVICE_FLASH),
         NEW erase, AreaErased(flash, Base, AreaEnd, erase), flash' = erase.memory, OpenToWrite(p, erase.failed, erase.complete)
  PROVE  FlashTypes' /\ FlashHoldsImage' /\ OnlyArea /\ \A q \in OpenFiles' : Writing(q)' => SessionOf(q)'
<1>2. /\ devtype' = devtype /\ xcf_data_pos' = 0 /\ image' = NoImage
      /\ erased' = (erase.complete /\ ~erase.failed) /\ incomplete' = {} /\ Opening(p, DEVICE_FLASH)
  BY DEF Opening, OpenToWrite
<1>3. AreaErased(flash, Base, AreaEnd, erase) /\ flash' = erase.memory
  OBVIOUS
<1>4. /\ FlashSize \in Nat \ {0} /\ PageSize \in Nat \ {0}
      /\ Base \in Nat /\ AreaEnd \in Nat /\ AreaEnd <= FlashSize /\ Base + PageSize <= AreaEnd
  <2>1. FlashSize \in Nat \ {0} /\ PageSize \in Nat \ {0}
    BY Sizes, Zenon
  <2>. QED BY <2>1, AreaFacts
<1>5. OnlyArea /\ flash' \in [0 .. FlashSize - 1 -> Bytes]
  <2>1. ASSUME NEW a \in 0 .. FlashSize - 1
        PROVE  flash'[a] = flash[a] \/ (Base <= a /\ a < AreaEnd /\ flash'[a] = Erased)
    <3>1. flash'[a] = flash[a] \/ (a \in Base .. AreaEnd - 1 /\ flash'[a] = Erased)
      BY <1>3 DEF AreaErased
    <3>. QED BY <1>4, <3>1
  <2>2. IsMemory(flash')
    BY <1>3 DEF AreaErased
  <2>3. Erased \in Bytes
    BY ByteFacts
  <2>4. ASSUME NEW a \in 0 .. FlashSize - 1 PROVE flash'[a] \in Bytes
    BY <2>1, <2>3 DEF FlashTypes
  <2>5. flash' \in [0 .. FlashSize - 1 -> Bytes]
    BY <2>2, <2>4 DEF IsMemory
  <2>. QED BY <2>1, <2>5 DEF OnlyArea
<1>6. image' \in [session : 0 .. MaxOpens, length : 0 .. MaxImage] /\ image'.length = 0
  BY <1>2, DriverAssumption DEF NoImage
<1>7. FlashTypes'
  <2>1. erased' \in BOOLEAN
    BY <1>2
  <2>. QED BY <1>2, <1>5, <1>6, <2>1 DEF FlashTypes
<1>8. FlashHoldsImage'
  <2>1. 0 .. image'.length - 1 = {}
    BY <1>6
  <2>. QED BY <2>1 DEF FlashHoldsImage
<1>9. ASSUME NEW q \in OpenFiles', Writing(q)' PROVE SessionOf(q)'
  <2>1. ~erase.failed
    <3>1. ASSUME erase.failed PROVE access_device' = 0
      BY <3>1 DEF OpenToWrite, NoneOpen
    <3>2. access_device' = 1
      BY <1>9 DEF FilesInv, OwnDevice, Writing, DEVICE_FLASH
    <3>. QED BY <3>1, <3>2
  <2>2. xcf_data' = FreshBuffer /\ Opened(p, DEVICE_FLASH, "O_WRONLY")
    BY <2>1 DEF OpenToWrite
  <2>3. files'[q].pos = 0
    <3>1. CASE q = p
      BY <2>2, <3>1 DEF Opened, FilesInv, ControlTypes
    <3>2. CASE q # p
      <4>1. files'[q] = files[q] /\ q \in Processes
        BY <2>2, <3>2 DEF Opened, FilesInv, ControlTypes, OpenFiles
      <4>2. q \in OpenFiles
        BY <4>1 DEF OpenFiles, Closed
      <4>3. files[q].minor = 1
        BY <1>9, <4>1 DEF Writing, DEVICE_FLASH
      <4>4. access_device = 1
        BY <4>2, <4>3 DEF FilesInv, OwnDevice
      <4>. QED BY <1>2, <4>4 DEF Opening, Allowed, DEVICE_EV
    <3>. QED BY <3>1, <3>2
  <2>4. Base' = Base /\ AreaEnd' = AreaEnd
    BY <1>2 DEF Base, AreaEnd
  <2>5. xcf_data' \in [1 .. PageSize -> Bytes]
    BY <2>2, ByteFacts DEF FreshBuffer
  <2>6. InArea(xcf_data)'
    <3>1. Base + 0 + PageSize <= AreaEnd
      BY <1>4
    <3>. QED BY <1>2, <2>4, <3>1 DEF InArea
  <2>7. ASSUME erased' PROVE ErasedFrom(xcf_data_pos)'
    <3>1. \A a \in Base .. AreaEnd - 1 : flash'[a] = Erased
      BY <1>2, <1>3, <2>7 DEF AreaErased
    <3>2. Base + 0 = Base
      BY <1>4
    <3>. QED BY <1>2, <2>4, <3>1, <3>2 DEF ErasedFrom
  <2>8. \E k \in Nat : xcf_data_pos' = k * PageSize
    <3>1. 0 = 0 * PageSize
      BY <1>4
    <3>. QED BY <1>2, <3>1
  <2>9. /\ xcf_data_pos' <= files'[q].pos /\ files'[q].pos < xcf_data_pos' + PageSize /\ files'[q].pos <= MaxImage
        /\ xcf_data_pos' .. files'[q].pos - 1 = {} /\ 0 .. xcf_data_pos' - 1 = {}
    BY <1>2, <1>4, <2>3, AreaFacts
  <2>10. image' = NoImage'
    BY <1>2 DEF NoImage
  <2>. QED BY <2>5, <2>6, <2>7, <2>8, <2>9, <2>10 DEF SessionOf
<1>. QED BY <1>5, <1>7, <1>8, <1>9

\* A session for writing begins on a board without JTAG chain: what is to be written is erased.
LEMMA SessionOpened ==
  ASSUME FilesInv, FlashTypes, NEW p \in Processes, OpenFlashToWrite(p), FilesInv'
  PROVE  FlashTypes' /\ FlashHoldsImage' /\ OnlyArea /\ \A q \in OpenFiles' : Writing(q)' => SessionOf(q)'
<1>1. PICK erase \in IF devtype = "ECP3" THEN PrimaryErase(flash) ELSE BulkErase(flash) :
        OpenToWrite(p, erase.failed, erase.complete) /\ flash' = erase.memory
  BY DEF OpenFlashToWrite
<1>2. Opening(p, DEVICE_FLASH)
  BY DEF OpenFlashToWrite
<1>3. AreaErased(flash, Base, AreaEnd, erase)
  <2>1. IsMemory(flash)
    BY DEF IsMemory, FlashTypes
  <2>. QED BY <1>1, <2>1, BulkEraseFacts, PrimaryEraseFacts DEF Base, AreaEnd
<1>. QED BY <1>1, <1>2, <1>3, SessionBegun

-----------------------------------------------------------------------------
(* The steps of the files.                                                 *)

PositionType == xcf_data_pos \in -1 .. FlashSize

\* Nothing turns a board into another one.
LEMMA DevtypeKept == [Next]_vars => devtype' = devtype
<1>. SUFFICES ASSUME [Next]_vars PROVE devtype' = devtype
  OBVIOUS
<1>1. ASSUME NEW p, NEW minor, Opening(p, minor) \/ Releasing(p, minor) PROVE devtype' = devtype
  BY <1>1 DEF Opening, Releasing
<1>2. ASSUME NEW p, Open(p) PROVE devtype' = devtype
  BY <1>1, <1>2 DEF Open, OpenUnsupported, OpenEeprom, OpenFpga, OpenFlashToMap, OpenEv, OpenXcfToRead, OpenFlashToRead,
     OpenXcfToWrite, OpenFlashToWrite
<1>3. ASSUME NEW p, Release(p) PROVE devtype' = devtype
  BY <1>1, <1>3 DEF Release, ReleaseEeprom, ReleaseFpga, ReleaseXcfRead, ReleaseXcfWritten, ReleaseFlash, ReleaseEv,
     ReleaseInterrupted
<1>4. ASSUME NEW p, Read(p) \/ Write(p) PROVE devtype' = devtype
  BY <1>4 DEF Read, Write
<1>. QED BY <1>2, <1>3, <1>4 DEF Next, Rebind, vars

\* An opened file, when the devices that share a semaphore are not in use.
LEMMA OpenInv ==
  ASSUME EepromAlone, FilesInv, NEW p \in Processes, Open(p)
  PROVE  FilesInv'
<1>0. {"O_RDONLY", "O_WRONLY"} \subseteq Modes
  BY DEF Modes
<1>1. ASSUME NEW mode \in Modes, NEW minor \in {DEVICE_EEPROM, DEVICE_FPGA}, OpenUnsupported(p, minor, mode)
      PROVE  FilesInv'
  <2>1. /\ Opening(p, minor) /\ UNCHANGED <<files, eventVars>>
        /\ access_mode' \in Modes /\ access_device' = minor /\ minor # DEVICE_EV
        /\ minor \in DEVICE_EEPROM .. DEVICE_EV
    BY <1>1 DEF OpenUnsupported
  <2>2. lockedOut' = (lockedOut \/ minor = DEVICE_FPGA)
    BY <1>1 DEF OpenUnsupported
  <2>3. lockedOut = FALSE
    BY <2>1, NothingOpen
  <2>4. CASE minor = DEVICE_EEPROM
    BY <2>1, <2>2, <2>3, <2>4, ToolRefusedInv
  <2>5. CASE minor = DEVICE_FPGA
    <3>1. lockedOut' = TRUE
      BY <2>2, <2>5
    <3>. QED BY <2>1, <2>5, <3>1, ToolRefusedInv
  <2>. QED BY <2>4, <2>5
<1>2. ASSUME NEW mode \in Modes, OpenEeprom(p, mode) PROVE FilesInv'
  <2>1. Opening(p, DEVICE_EEPROM) /\ devtype \in PLX /\ UNCHANGED eventVars
    BY <1>2 DEF OpenEeprom
  <2>2. CASE Opened(p, DEVICE_EEPROM, mode)
    BY <2>1, <2>2, ToolOpenedInv
  <2>3. CASE NoneOpen /\ UNCHANGED files
    BY <1>0, <2>1, <2>3, ToolRefusedInv DEF NoneOpen
  <2>. QED BY <1>2, <2>2, <2>3 DEF OpenEeprom
<1>3. ASSUME NEW mode \in Modes, OpenFpga(p, mode) PROVE FilesInv'
  <2>1. Opening(p, DEVICE_FPGA) /\ devtype \in PLX /\ UNCHANGED eventVars
    BY <1>3 DEF OpenFpga
  <2>2. CASE Opened(p, DEVICE_FPGA, mode)
    BY <2>1, <2>2, ToolOpenedInv
  <2>3. CASE NoneOpen /\ UNCHANGED files
    BY <1>0, <2>1, <2>3, ToolRefusedInv DEF NoneOpen
  <2>. QED BY <1>3, <2>2, <2>3 DEF OpenFpga
<1>4. ASSUME NEW mode \in Modes, OpenFlashToMap(p, mode) PROVE FilesInv'
  BY <1>4, ToolOpenedInv DEF OpenFlashToMap
<1>5. ASSUME NEW mode \in Modes, OpenEv(p, mode) PROVE FilesInv'
  BY <1>5, OpenEvInv
<1>6. ASSUME OpenXcfToRead(p) PROVE FilesInv'
  <2>1. Opening(p, DEVICE_FLASH) /\ UNCHANGED eventVars
    BY <1>6 DEF OpenXcfToRead
  <2>2. CASE Opened(p, DEVICE_FLASH, "O_RDONLY")
    BY <1>0, <2>1, <2>2, ToolOpenedInv
  <2>3. CASE NoneOpen /\ UNCHANGED files
    BY <1>0, <2>1, <2>3, ToolRefusedInv DEF NoneOpen
  <2>4. Opened(p, DEVICE_FLASH, "O_RDONLY") \/ (NoneOpen /\ UNCHANGED files)
    BY <1>6 DEF OpenXcfToRead
  <2>. QED BY <2>2, <2>3, <2>4
<1>7. ASSUME OpenFlashToRead(p) PROVE FilesInv'
  BY <1>0, <1>7, ToolOpenedInv DEF OpenFlashToRead
<1>8. ASSUME NEW failed, NEW complete, Opening(p, DEVICE_FLASH), OpenToWrite(p, failed, complete) PROVE FilesInv'
  <2>1. CASE failed
    BY <1>0, <1>8, <2>1, ToolRefusedInv DEF OpenToWrite, NoneOpen
  <2>2. CASE ~failed
    BY <1>0, <1>8, <2>2, ToolOpenedInv DEF OpenToWrite
  <2>. QED BY <2>1, <2>2
<1>9. ASSUME OpenXcfToWrite(p) PROVE FilesInv'
  BY <1>8, <1>9 DEF OpenXcfToWrite
<1>10. ASSUME OpenFlashToWrite(p) PROVE FilesInv'
  BY <1>8, <1>10 DEF OpenFlashToWrite
<1>. QED BY <1>1, <1>2, <1>3, <1>4, <1>5, <1>6, <1>7, <1>9, <1>10 DEF Open

LEMMA ReleaseInv ==
  ASSUME FilesInv, NEW p \in Processes, Release(p)
  PROVE  FilesInv'
<1>1. ASSUME ReleaseEeprom(p) PROVE FilesInv'
  BY <1>1, ToolReleasedInv DEF ReleaseEeprom
<1>2. ASSUME ReleaseFpga(p) PROVE FilesInv'
  BY <1>2, ToolReleasedInv DEF ReleaseFpga
<1>3. ASSUME Releasing(p, DEVICE_FLASH), FlashReleased PROVE FilesInv'
  BY <1>3, ToolReleasedInv DEF FlashReleased
<1>4. ASSUME ReleaseXcfRead(p) \/ ReleaseXcfWritten(p) \/ ReleaseFlash(p) PROVE FilesInv'
  BY <1>3, <1>4 DEF ReleaseXcfRead, ReleaseXcfWritten, ReleaseFlash
<1>5. ASSUME ReleaseEv(p) PROVE FilesInv'
  BY <1>5, ReleaseEvInv
<1>6. ASSUME ReleaseInterrupted(p) PROVE FilesInv'
  BY <1>6, ReleaseInterruptedInv
<1>. QED BY <1>1, <1>2, <1>4, <1>5, <1>6 DEF Release

\* How far a read gets.
LEMMA ReadFacts ==
  ASSUME FilesInv, NEW p \in Processes, Read(p)
  PROVE  /\ p \in OpenFiles /\ files[p].mode = "O_RDONLY" /\ access_device = DEVICE_FLASH
         /\ xcf_data_pos' \in 0 .. FlashSize
         /\ \E pos \in 0 .. FlashSize : files' = [files EXCEPT ![p].pos = pos]
<1>1. PICK pos, page : pos = files[p].pos /\ page = PageOf(pos)
  OBVIOUS
<1>2. pos \in Nat /\ PageSize \in Nat \ {0} /\ FlashSize \in Nat \ {0} /\ Base \in Nat
  <2>1. files[p] \in FileType
    BY DEF FilesInv, ControlTypes
  <2>2. PageSize \in Nat \ {0} /\ FlashSize \in Nat \ {0}
    BY Sizes, Zenon
  <2>. QED BY <1>1, <2>1, <2>2, AreaFacts DEF FileType
<1>3. page \in Nat /\ page <= pos /\ pos < page + PageSize
  BY <1>1, <1>2, PageOfFacts
<1>4. Base + page + PageSize <= FlashSize
  BY <1>1 DEF Read
<1>5. PICK n :
        (\E count \in 1 .. PageSize : n = BytesTo(count, pos, page)) /\ xcf_data_pos' = page /\ files' = [files EXCEPT ![p].pos = pos + n]
  BY <1>1 DEF Read
<1>6. pos + n \in 0 .. FlashSize /\ page \in 0 .. FlashSize
  <2>1. PICK count \in Nat : count >= 1 /\ n = BytesTo(count, pos, page)
    BY <1>2, <1>5
  <2>. QED BY <1>2, <1>3, <1>4, <2>1 DEF BytesTo, SmallerOf
<1>7. p \in OpenFiles /\ files[p].mode = "O_RDONLY" /\ access_device = DEVICE_FLASH
  BY DEF Read, FlashFile, OpenFiles
<1>. QED BY <1>5, <1>6, <1>7

\* How far a write gets.
LEMMA WriteFacts ==
  ASSUME FilesInv, PositionType, NEW p \in Processes, Write(p)
  PROVE  /\ p \in OpenFiles /\ files[p].mode = "O_WRONLY" /\ access_device = DEVICE_FLASH /\ devtype # "V5_PCIE"
         /\ xcf_data_pos' \in -1 .. FlashSize
         /\ \E pos \in 0 .. FlashSize : files' = [files EXCEPT ![p].pos = pos]
<1>1. PICK pos, at : pos = files[p].pos /\ at = xcf_data_pos
  OBVIOUS
<1>2. /\ pos \in Nat /\ PageSize \in Nat \ {0} /\ FlashSize \in Nat \ {0} /\ MaxImage \in Nat /\ MaxImage <= FlashSize
      /\ at \in -1 .. FlashSize
  <2>1. files[p] \in FileType
    BY DEF FilesInv, ControlTypes
  <2>2. PageSize \in Nat \ {0} /\ FlashSize \in Nat \ {0}
    BY Sizes, Zenon
  <2>3. MaxImage \in Nat /\ MaxImage <= FlashSize
    BY <2>2, AreaFacts
  <2>. QED BY <1>1, <2>1, <2>2, <2>3 DEF FileType, PositionType
<1>3. PICK n :
        /\ \E count \in 1 .. PageSize + 1 : n = BytesTo(count, pos, at)
        /\ pos + n <= MaxImage /\ files' = [files EXCEPT ![p].pos = pos + n]
        /\ xcf_data_pos' = pos + n \/ xcf_data_pos' = at
  BY <1>1 DEF Write
<1>4. pos + n \in 0 .. FlashSize
  <2>1. PICK count \in Nat : count >= 1 /\ n = BytesTo(count, pos, at)
    BY <1>2, <1>3
  <2>2. pos + n <= MaxImage
    BY <1>3
  <2>. QED BY <1>2, <2>1, <2>2 DEF BytesTo, SmallerOf
<1>5. /\ p \in OpenFiles /\ files[p].mode = "O_WRONLY" /\ access_device = DEVICE_FLASH /\ devtype # "V5_PCIE"
  BY DEF Write, FlashFile, OpenFiles
<1>6. xcf_data_pos' \in -1 .. FlashSize
  BY <1>2, <1>3, <1>4
<1>. QED BY <1>3, <1>4, <1>5, <1>6

\* Every step keeps what the shared variables know of the open files.
LEMMA FilesStep ==
  ASSUME EepromAlone, FilesInv, PositionType, [Next]_vars
  PROVE  FilesInv'
<1>1. CASE UNCHANGED vars
  <2>1. UNCHANGED <<devtype, access_mode, access_device, lockedOut, refcount_ev, irqHandler, files, opens, interrupted>>
    BY <1>1 DEF vars, accessVars, eventVars, boundVars
  <2>2. OpenFiles' = OpenFiles /\ EvFiles' = EvFiles
    BY <2>1 DEF OpenFiles, EvFiles
  <2>3. ControlTypes' /\ OwnDevice' /\ OneMinorOpen' /\ References' /\ ClosedAgain'
    <3>1. ControlTypes'
      BY <2>1 DEF FilesInv, ControlTypes
    <3>. QED BY <2>1, <2>2, <3>1 DEF FilesInv, OwnDevice, OneMinorOpen, References, ClosedAgain
  <2>. QED BY <2>3 DEF FilesInv
<1>2. CASE Rebind
  BY <1>2, RebindInv
<1>3. ASSUME NEW p \in Processes, Open(p) PROVE FilesInv'
  BY <1>3, OpenInv
<1>4. ASSUME NEW p \in Processes, Read(p) PROVE FilesInv'
  <2>1. UNCHANGED <<devtype, accessVars, eventVars, opens, interrupted>>
    BY <1>4 DEF Read, boundVars
  <2>. QED BY <1>4, <2>1, ReadFacts, MovedOnInv
<1>5. ASSUME NEW p \in Processes, Write(p) PROVE FilesInv'
  <2>1. UNCHANGED <<devtype, accessVars, eventVars, opens, interrupted>>
    BY <1>5 DEF Write, boundVars
  <2>. QED BY <1>5, <2>1, WriteFacts, MovedOnInv
<1>6. ASSUME NEW p \in Processes, Release(p) PROVE FilesInv'
  BY <1>6, ReleaseInv
<1>. QED BY <1>1, <1>2, <1>3, <1>4, <1>5, <1>6 DEF Next

\* The position of the buffer stays in the memory.
LEMMA PositionStep ==
  ASSUME FilesInv, PositionType, [Next]_vars
  PROVE  PositionType'
<1>0. {-1, 0, xcf_data_pos} \subseteq -1 .. FlashSize
  BY Sizes DEF PositionType
<1>1. ASSUME xcf_data_pos' \in {-1, 0, xcf_data_pos} PROVE PositionType'
  BY <1>0, <1>1 DEF PositionType
<1>2. ASSUME NEW p \in Processes, Open(p) PROVE xcf_data_pos' \in {-1, 0, xcf_data_pos}
  BY <1>2 DEF Open, OpenUnsupported, OpenEeprom, OpenFpga, OpenFlashToMap, OpenEv, OpenXcfToRead, OpenFlashToRead,
     OpenXcfToWrite, OpenFlashToWrite, OpenToWrite, bufferVars, NoPosition
<1>3. ASSUME NEW p \in Processes, Release(p) PROVE xcf_data_pos' = xcf_data_pos
  BY <1>3 DEF Release, ReleaseEeprom, ReleaseFpga, ReleaseXcfRead, ReleaseXcfWritten, ReleaseFlash, ReleaseEv,
     ReleaseInterrupted, FlashReleased, bufferVars
<1>4. ASSUME NEW p \in Processes, Read(p) PROVE PositionType'
  <2>1. xcf_data_pos' \in 0 .. FlashSize
    BY <1>4, ReadFacts
  <2>. QED BY <2>1 DEF PositionType
<1>5. ASSUME NEW p \in Processes, Write(p) PROVE PositionType'
  BY <1>5, WriteFacts DEF PositionType
<1>6. CASE Rebind
  BY <1>1, <1>6 DEF Rebind
<1>7. CASE UNCHANGED vars
  BY <1>1, <1>7 DEF vars, bufferVars
<1>. QED BY <1>1, <1>2, <1>3, <1>4, <1>5, <1>6, <1>7 DEF Next

\* The session of the only file that is open.
LEMMA OneSession ==
  ASSUME FilesInv, NEW p \in OpenFiles, access_device = DEVICE_FLASH
  PROVE  /\ OpenFiles = {p} /\ files[p].minor = DEVICE_FLASH /\ files[p].mode = access_mode
<1>1. \A q \in OpenFiles : files[q].minor = DEVICE_FLASH /\ files[q].mode = access_mode
  BY DEF FilesInv, OwnDevice
<1>. QED BY <1>1 DEF FilesInv, OneMinorOpen

-----------------------------------------------------------------------------
(* The JTAG chain between the operations of the files.                     *)

AtRest(c) ==
  /\ IsChain(c) /\ c.tap \in {"RTI", "TLR"} /\ c.fpgairlen \in {0, FpgaIrLen} /\ c.enabled \in -1 .. 255

\* What opening and releasing the pins leaves alone.
SameChain(c, d) == AtRest(d) /\ Keeps(c, d, {}) /\ d.fpgairlen = c.fpgairlen

\* Opening the pins keeps the chain.
LEMMA PinsOpened ==
  ASSUME NEW c, AtRest(c), NEW n \in Nat, n > 0 => c.driven, NEW d, d = JtagOpen(c, n)
  PROVE  SameChain(c, d) /\ d.driven
<1>1. CASE n = 0
  BY <1>1 DEF AtRest, IsChain, ChainFields, JtagOpen, SameChain, Keeps, Kept
<1>2. CASE n # 0
  BY <1>2 DEF AtRest, JtagOpen, SameChain, Keeps, Kept
<1>. QED BY <1>1, <1>2

\* Releasing the pins keeps the chain, and drives them on while others use them.
LEMMA PinsReleased ==
  ASSUME NEW c, AtRest(c), NEW n \in Nat, NEW d, d = JtagRelease(c, n)
  PROVE  SameChain(c, d) /\ (n > 1 => d = c)
<1>1. CASE n <= 1
  <2>1. d = [c EXCEPT !.driven = FALSE, !.tms = FALSE]
    BY <1>1 DEF JtagRelease
  <2>2. SameChain(c, d)
    BY <2>1 DEF AtRest, IsChain, ChainFields, SameChain, Keeps, Kept
  <2>. QED BY <1>1, <2>2
<1>2. CASE n > 1
  BY <1>2 DEF AtRest, JtagRelease, SameChain, Keeps, Kept
<1>. QED BY <1>1, <1>2

LEMMA FlashAttached ==
  ASSUME AtRest(chain), NEW d, d = ChainWithFlash
  PROVE  AtRest(d) /\ d.memory = flash /\ d.driven = chain.driven /\ d.enabled = chain.enabled /\ d.fpgairlen = chain.fpgairlen
  BY DEF AtRest, IsChain, ChainFields, ChainWithFlash

LEMMA FlashDetached ==
  ASSUME NEW c, AtRest(c), NEW d, d = WithoutFlash(c)
  PROVE  AtRest(d) /\ d.driven = c.driven /\ d.enabled = c.enabled /\ d.fpgairlen = c.fpgairlen
  BY DEF AtRest, IsChain, ChainFields, WithoutFlash

ChainInv ==
  /\ AtRest(chain)
  /\ jtag_refcount \in 0 .. opens
  /\ jtag_refcount > 0 => chain.driven
  /\ OpenFiles # {} /\ UsesJtag =>
       /\ jtag_refcount > 0
       /\ access_device = DEVICE_FLASH => chain.enabled # -1 /\ chain.fpgairlen = FpgaIrLen

\* The flash memory can be reached while a file of it is open.
LEMMA XcfReady ==
  ASSUME ChainInv, NEW p \in OpenFiles, devtype = "V2P_9030", access_device = DEVICE_FLASH, NEW c, c = ChainWithFlash
  PROVE  Ready(c) /\ c.enabled # -1 /\ c.memory = flash /\ c.driven /\ jtag_refcount > 0
<1>1. jtag_refcount > 0 /\ chain.driven /\ chain.enabled # -1 /\ chain.fpgairlen = FpgaIrLen
  BY DEF ChainInv, UsesJtag
<1>2. AtRest(c) /\ c.memory = flash /\ c.driven = chain.driven /\ c.enabled = chain.enabled /\ c.fpgairlen = chain.fpgairlen
  BY FlashAttached DEF ChainInv
<1>. QED BY <1>1, <1>2 DEF AtRest, Ready, Rests

\* The flash memory can be reached when its file is opened.
LEMMA XcfOpened ==
  ASSUME ChainInv, FilesInv, NEW c, c = JtagOpen(ChainWithFlash, jtag_refcount)
  PROVE  Rests(c) /\ c.memory = flash /\ c.enabled = chain.enabled
<1>1. PICK b : b = ChainWithFlash
  OBVIOUS
<1>2. AtRest(b) /\ b.memory = flash /\ b.driven = chain.driven /\ b.enabled = chain.enabled
  BY <1>1, FlashAttached DEF ChainInv
<1>3. jtag_refcount \in Nat /\ (jtag_refcount > 0 => b.driven)
  BY <1>2 DEF ChainInv, FilesInv, ControlTypes
<1>4. SameChain(b, c) /\ c.driven
  BY <1>1, <1>2, <1>3, PinsOpened
<1>. QED BY <1>2, <1>4 DEF SameChain, AtRest, Rests, Keeps, Kept

LEMMA ChainInitInv == Init => ChainInv
<1>. SUFFICES ASSUME Init PROVE ChainInv
  OBVIOUS
<1>1. OpenFiles = {}
  BY DEF Init, OpenFiles
<1>2. AtRest(chain)
  BY DEF Init, IdleChain, AtRest, IsChain, ChainFields
<1>. QED BY <1>1, <1>2 DEF Init, ChainInv

\* Nothing happens at the pins, and the next state does not need them.
LEMMA PinsNotUsed ==
  ASSUME FilesInv, ChainInv, UNCHANGED jtagVars, opens' \in {opens, opens + 1}, UsesJtag' => OpenFiles # {} /\ UsesJtag /\ UNCHANGED access_device
  PROVE  ChainInv'
<1>1. jtag_refcount' = jtag_refcount /\ chain' = chain
  BY DEF jtagVars
<1>2. jtag_refcount' \in 0 .. opens'
  BY <1>1 DEF ChainInv, FilesInv, ControlTypes
<1>. QED BY <1>1, <1>2 DEF ChainInv

BufferType == xcf_data = NoBuffer \/ xcf_data \in [1 .. PageSize -> Bytes]

\* A page is written to the flash memory of a V2P board.
LEMMA XcfWritten ==
  ASSUME ChainInv, NEW p \in OpenFiles, devtype = "V2P_9030", access_device = DEVICE_FLASH,
         IsMemory(flash), NEW bytes, IsPage(bytes), NEW place \in Int, NEW d \in XcfWrite(ChainWithFlash, bytes, place)
  PROVE  /\ Ready(d) /\ d.enabled = chain.enabled /\ d.driven
         /\ d.memory = WithBytes(flash, bytes, place, PageSize)
<1>1. PICK c : c = ChainWithFlash
  OBVIOUS
<1>2. Ready(c) /\ c.enabled # -1 /\ c.memory = flash
  BY <1>1, XcfReady
<1>2a. c.enabled = chain.enabled
  BY <1>1, FlashAttached DEF ChainInv
<1>3. PageSize % BlockSize = 0 /\ IsMemory(c.memory) /\ d \in XcfWrite(c, bytes, place)
  BY <1>1, <1>2, DriverAssumption
<1>4. /\ Ready(d) /\ Keeps(c, d, {"memory", "address", "data"})
      /\ d.memory = WithBytes(c.memory, bytes, place, PageSize)
  BY <1>2, <1>3, XcfWriteFacts
<1>. QED BY <1>2, <1>2a, <1>4 DEF Ready, Rests, Keeps, Kept

\* What a session ends with that has written.
LEMMA XcfClosed ==
  ASSUME ChainInv, NEW p \in OpenFiles, devtype = "V2P_9030", access_device = DEVICE_FLASH, opens \in Nat,
         IsMemory(flash), NEW bytes, IsPage(bytes), NEW place \in Int,
         NEW c \in Conf({JtagOpen(JtagRelease(d, jtag_refcount), JtagReleased) :
                           d \in ProgEnd(XcfWrite(ChainWithFlash, bytes, place))})
  PROVE  /\ AtRest(c) /\ c.driven /\ c.memory = WithBytes(flash, bytes, place, PageSize)
<1>0. jtag_refcount \in Nat /\ jtag_refcount > 0 /\ JtagReleased \in Nat /\ JtagReleased = jtag_refcount - 1
  <2>1. jtag_refcount > 0
    BY DEF ChainInv, UsesJtag
  <2>. QED BY <2>1 DEF ChainInv, JtagReleased
<1>1. PICK written : written = XcfWrite(ChainWithFlash, bytes, place)
  OBVIOUS
<1>2. ASSUME NEW d \in written PROVE Ready(d) /\ d.memory = WithBytes(flash, bytes, place, PageSize)
  BY <1>1, XcfWritten
<1>3. PICK ended : ended = ProgEnd(written)
  OBVIOUS
<1>4. ASSUME NEW d \in ended PROVE Ready(d) /\ d.enabled = -1 /\ d.memory = WithBytes(flash, bytes, place, PageSize)
  <2>1. PICK e \in written : Ready(d) /\ Keeps(e, d, {"data", "enabled"}) /\ d.enabled = -1
    BY <1>2, <1>3, ProgEndFacts
  <2>. QED BY <1>2, <2>1 DEF Keeps, Kept
<1>5. PICK opened : opened = {JtagOpen(JtagRelease(d, jtag_refcount), JtagReleased) : d \in ended}
  OBVIOUS
<1>6. ASSUME NEW b \in opened
      PROVE  Rests(b) /\ b.enabled = -1 /\ b.memory = WithBytes(flash, bytes, place, PageSize)
  <2>0. PICK d \in ended : b = JtagOpen(JtagRelease(d, jtag_refcount), JtagReleased)
    BY <1>5
  <2>1. PICK e : e = JtagRelease(d, jtag_refcount) /\ b = JtagOpen(e, JtagReleased)
    BY <2>0
  <2>2. AtRest(d) /\ d.driven
    BY <1>4, <2>0 DEF Ready, Rests, AtRest
  <2>3. SameChain(d, e) /\ (jtag_refcount > 1 => e = d)
    BY <1>0, <2>1, <2>2, PinsReleased
  <2>4. AtRest(e) /\ (JtagReleased > 0 => e.driven)
    BY <1>0, <2>2, <2>3 DEF SameChain
  <2>5. SameChain(e, b) /\ b.driven
    BY <1>0, <2>1, <2>4, PinsOpened
  <2>6. b.enabled = d.enabled /\ b.memory = d.memory
    BY <2>3, <2>5 DEF SameChain, Keeps, Kept
  <2>. QED BY <1>4, <2>0, <2>5, <2>6 DEF SameChain, AtRest, Rests
<1>7. c \in Conf(opened)
  BY <1>1, <1>3, <1>5
<1>8. PICK b \in opened : Recognized(b, c)
  BY <1>6, <1>7, ConfFacts
<1>9. c.enabled = b.enabled /\ c.memory = b.memory
  BY <1>8 DEF Recognized, Keeps, Kept
<1>. QED BY <1>6, <1>8, <1>9 DEF Recognized, Rests, AtRest

\* The pins stay open only if the FPGA is loaded.
LEMMA OpenFpgaChain ==
  ASSUME FilesInv, ChainInv, NEW p \in Processes, NEW mode \in Modes, OpenFpga(p, mode)
  PROVE  ChainInv'
<1>0. /\ AtRest(chain) /\ jtag_refcount \in Nat /\ jtag_refcount <= opens /\ (jtag_refcount > 0 => chain.driven)
      /\ opens' = opens + 1 /\ opens \in Nat
  BY DEF ChainInv, OpenFpga, Opening, FilesInv, ControlTypes
<1>1. PICK opened : opened = JtagOpen(chain, jtag_refcount)
  OBVIOUS
<1>2. SameChain(chain, opened) /\ opened.driven
  BY <1>0, <1>1, PinsOpened
<1>3. CASE JtagUsed /\ ~UsesJtag'
  <2>1. jtag_refcount' = jtag_refcount /\ chain' = JtagRelease(opened, jtag_refcount + 1)
    BY <1>1, <1>3 DEF JtagUsed
  <2>2. PICK next : next = JtagRelease(opened, jtag_refcount + 1)
    OBVIOUS
  <2>3. SameChain(opened, next) /\ (jtag_refcount + 1 > 1 => next = opened)
    <3>1. AtRest(opened) /\ jtag_refcount + 1 \in Nat
      BY <1>0, <1>2 DEF SameChain
    <3>. QED BY <2>2, <3>1, PinsReleased
  <2>4. AtRest(chain') /\ (jtag_refcount' > 0 => chain'.driven) /\ jtag_refcount' \in 0 .. opens'
    BY <1>0, <1>2, <2>1, <2>2, <2>3 DEF SameChain
  <2>. QED BY <1>3, <2>4 DEF ChainInv
<1>4. CASE jtag_refcount' = jtag_refcount + 1 /\ chain' = opened /\ access_device' = DEVICE_FPGA
  BY <1>0, <1>2, <1>4 DEF ChainInv, SameChain
<1>5. \/ JtagUsed /\ ~UsesJtag'
      \/ jtag_refcount' = jtag_refcount + 1 /\ chain' = opened /\ access_device' = DEVICE_FPGA
      \/ UNCHANGED jtagVars /\ ~UsesJtag'
  <2>0. CASE NoneOpen /\ UNCHANGED jtagVars
    BY <2>0 DEF NoneOpen, UsesJtag
  <2>1. CASE NoneOpen /\ JtagUsed
    BY <2>1 DEF NoneOpen, UsesJtag
  <2>2. CASE Opened(p, DEVICE_FPGA, mode)
    <3>1. access_device' = DEVICE_FPGA /\ access_mode' = mode /\ devtype' = devtype
      BY <2>2 DEF Opened, OpenFpga, Opening
    <3>2. CASE jtag_refcount' = jtag_refcount + 1 /\ chain' = JtagOpen(chain, jtag_refcount)
      BY <1>1, <3>1, <3>2
    <3>3. CASE (mode = "O_RDONLY" \/ devtype = "V5_9056") /\ JtagUsed
      BY <3>1, <3>3 DEF UsesJtag
    <3>. QED BY <2>2, <3>2, <3>3 DEF OpenFpga, Opened, NoneOpen
  <2>. QED BY <2>0, <2>1, <2>2 DEF OpenFpga
<1>6. CASE UNCHANGED jtagVars /\ ~UsesJtag'
  BY <1>0, <1>6 DEF ChainInv, jtagVars
<1>. QED BY <1>3, <1>4, <1>5, <1>6

\* If the chain is not recognized the open fails and gives the pins back.
LEMMA OpenXcfToReadChain ==
  ASSUME FilesInv, ChainInv, NEW p \in Processes, OpenXcfToRead(p)
  PROVE  ChainInv'
<1>0. /\ jtag_refcount \in Nat /\ jtag_refcount <= opens /\ opens' = opens + 1 /\ opens \in Nat /\ chain.enabled \in -1 .. 255
      /\ (jtag_refcount > 0 => chain.driven)
  BY DEF ChainInv, AtRest, OpenXcfToRead, Opening, FilesInv, ControlTypes
<1>1. PICK opened : opened = JtagOpen(ChainWithFlash, jtag_refcount)
  OBVIOUS
<1>2. Rests(opened) /\ opened.enabled = chain.enabled
  BY <1>1, XcfOpened
<1>3. PICK started \in ReadStart(opened) :
        IF Valid(started)
          THEN /\ access_device' = DEVICE_FLASH /\ jtag_refcount' = jtag_refcount + 1 /\ chain' = WithoutFlash(started)
          ELSE /\ access_device' = 0 /\ jtag_refcount' = jtag_refcount
               /\ chain' = WithoutFlash(JtagRelease(started, jtag_refcount + 1))
  BY <1>1 DEF OpenXcfToRead, Opened, NoneOpen
<1>4. /\ Rests(started) /\ started.fpgairlen \in {0, FpgaIrLen}
      /\ Valid(started) => Ready(started) /\ started.enabled = 0
      /\ ~Valid(started) => started.enabled = chain.enabled
  BY <1>2, ReadStartFacts
<1>5. started.enabled \in -1 .. 255 /\ AtRest(started)
  BY <1>0, <1>4 DEF Rests, AtRest
<1>6. CASE Valid(started)
  <2>1. AtRest(chain') /\ chain'.driven /\ chain'.enabled = started.enabled /\ chain'.fpgairlen = started.fpgairlen
    BY <1>3, <1>5, <1>6, <1>4, FlashDetached DEF Rests
  <2>2. chain'.enabled # -1 /\ chain'.fpgairlen = FpgaIrLen
    BY <1>4, <1>6, <2>1 DEF Ready
  <2>3. jtag_refcount' \in 0 .. opens' /\ jtag_refcount' > 0
    BY <1>0, <1>3, <1>6
  <2>. QED BY <2>1, <2>2, <2>3 DEF ChainInv
<1>7. CASE ~Valid(started)
  <2>1. PICK closed : closed = JtagRelease(started, jtag_refcount + 1)
    OBVIOUS
  <2>2. SameChain(started, closed) /\ (jtag_refcount + 1 > 1 => closed = started)
    <3>1. jtag_refcount + 1 \in Nat
      BY <1>0
    <3>. QED BY <1>5, <2>1, <3>1, PinsReleased
  <2>3. AtRest(chain') /\ chain'.driven = closed.driven
    BY <1>3, <1>7, <2>1, <2>2, FlashDetached DEF SameChain
  <2>4. jtag_refcount' > 0 => chain'.driven
    BY <1>0, <1>3, <1>4, <1>7, <2>2, <2>3 DEF Rests
  <2>5. ~UsesJtag' /\ jtag_refcount' \in 0 .. opens'
    BY <1>0, <1>3, <1>7 DEF UsesJtag
  <2>. QED BY <2>3, <2>4, <2>5 DEF ChainInv
<1>. QED BY <1>6, <1>7

LEMMA OpenXcfToWriteChain ==
  ASSUME FilesInv, ChainInv, NEW p \in Processes, OpenXcfToWrite(p)
  PROVE  ChainInv'
<1>0. /\ jtag_refcount \in Nat /\ jtag_refcount <= opens /\ opens' = opens + 1 /\ opens \in Nat /\ chain.enabled \in -1 .. 255
      /\ jtag_refcount' = jtag_refcount + 1
  BY DEF ChainInv, AtRest, OpenXcfToWrite, Opening, FilesInv, ControlTypes
<1>1. PICK opened : opened = JtagOpen(ChainWithFlash, jtag_refcount)
  OBVIOUS
<1>2. Rests(opened) /\ opened.enabled = chain.enabled
  BY <1>1, XcfOpened
<1>3. PICK started \in ProgStart(opened) : OpenToWrite(p, ~Valid(started), TRUE) /\ chain' = WithoutFlash(started)
  BY <1>1 DEF OpenXcfToWrite
<1>4. /\ Rests(started) /\ started.fpgairlen \in {0, FpgaIrLen}
      /\ ~Valid(started) => Keeps(opened, started, {})
      /\ Valid(started) => Ready(started) /\ started.enabled = 3
  BY <1>2, ProgStartFacts
<1>5. started.enabled \in -1 .. 255 /\ AtRest(started) /\ started.driven
  BY <1>0, <1>2, <1>4 DEF Rests, AtRest, Keeps, Kept
<1>6. AtRest(chain') /\ chain'.driven /\ chain'.enabled = started.enabled /\ chain'.fpgairlen = started.fpgairlen
  BY <1>3, <1>5, FlashDetached
<1>7. UsesJtag' => Valid(started)
  BY <1>3 DEF OpenToWrite, NoneOpen, UsesJtag
<1>8. Valid(started) => chain'.enabled # -1 /\ chain'.fpgairlen = FpgaIrLen
  BY <1>4, <1>6 DEF Ready
<1>9. jtag_refcount' \in 0 .. opens' /\ jtag_refcount' > 0
  BY <1>0
<1>. QED BY <1>6, <1>7, <1>8, <1>9 DEF ChainInv

\* The chain after a page has been read or written.
LEMMA PageChain ==
  ASSUME ChainInv, NEW p \in OpenFiles, devtype = "V2P_9030", access_device = DEVICE_FLASH,
         NEW d, Ready(d), d.enabled = chain.enabled, d.driven, chain' = WithoutFlash(d),
         UNCHANGED <<devtype, access_mode, access_device, opens, jtag_refcount>>
  PROVE  ChainInv'
<1>1. AtRest(d) /\ d.fpgairlen = FpgaIrLen
  BY DEF Ready, Rests, AtRest, ChainInv
<1>2. AtRest(chain') /\ chain'.driven /\ chain'.enabled = chain.enabled /\ chain'.fpgairlen = FpgaIrLen
  BY <1>1, FlashDetached
<1>3. jtag_refcount > 0 /\ chain.enabled # -1
  BY DEF ChainInv, UsesJtag
<1>. QED BY <1>2, <1>3 DEF ChainInv

\* A page that is read leaves the chain ready for the next command.
LEMMA ReadChain ==
  ASSUME FilesInv, ChainInv, NEW p \in Processes, Read(p)
  PROVE  ChainInv'
<1>1. /\ p \in OpenFiles /\ access_device = DEVICE_FLASH
      /\ UNCHANGED <<devtype, access_mode, access_device, opens, jtag_refcount>>
  BY DEF Read, FlashFile, OpenFiles, accessVars, boundVars
<1>2. PICK page : \E read \in PageRead(page) : chain' = read.chain /\ page = PageOf(files[p].pos)
  BY DEF Read
<1>3. CASE chain' = chain
  <2>1. UsesJtag' => OpenFiles # {} /\ UsesJtag /\ UNCHANGED access_device
    BY <1>1 DEF UsesJtag
  <2>. QED BY <1>1, <1>3, <2>1, PinsNotUsed DEF jtagVars
<1>4. CASE devtype = "V2P_9030" /\ \E c \in XcfRead(ChainWithFlash, page, PageSize) : chain' = WithoutFlash(c)
  <2>1. PICK b : b = ChainWithFlash
    OBVIOUS
  <2>2. PICK c \in XcfRead(b, page, PageSize) : chain' = WithoutFlash(c)
    BY <1>4, <2>1
  <2>3. Ready(b) /\ b.enabled # -1
    BY <1>1, <1>4, <2>1, XcfReady
  <2>4. b.enabled = chain.enabled
    BY <2>1, FlashAttached DEF ChainInv
  <2>5. page \in Int /\ PageSize \in Nat \ {0}
    <3>1. PageSize \in Nat \ {0}
      BY Sizes, Zenon
    <3>2. files[p].pos \in Int
      BY <1>1 DEF FilesInv, ControlTypes, FileType, OpenFiles
    <3>. QED BY <1>2, <3>1, <3>2 DEF PageOf
  <2>6. Ready(c) /\ Keeps(b, c, {"address"})
    BY <2>2, <2>3, <2>5, XcfReadFacts
  <2>7. c.enabled = chain.enabled /\ c.driven
    BY <2>4, <2>6 DEF Keeps, Kept, Ready, Rests
  <2>. QED BY <1>1, <1>4, <2>2, <2>6, <2>7, PageChain
<1>. QED BY <1>2, <1>3, <1>4 DEF PageRead

\* What ProgramPage does to the chain.
LEMMA ProgramChain ==
  ASSUME FilesInv, PositionType, ChainInv, FlashTypes, NEW p \in OpenFiles, access_device = DEVICE_FLASH,
         UNCHANGED <<devtype, access_mode, access_device, opens, jtag_refcount>>,
         NEW bytes, IsPage(bytes), ProgramPage(bytes)
  PROVE  ChainInv'
<1>1. CASE devtype = "V2P_9030"
  <2>1. PICK c \in XcfWrite(ChainWithFlash, bytes, xcf_data_pos) : chain' = WithoutFlash(c)
    BY <1>1 DEF ProgramPage
  <2>2. IsMemory(flash) /\ xcf_data_pos \in Int
    BY DEF FlashTypes, IsMemory, PositionType
  <2>3. Ready(c) /\ c.enabled = chain.enabled /\ c.driven
    BY <1>1, <2>1, <2>2, XcfWritten
  <2>. QED BY <1>1, <2>1, <2>3, PageChain
<1>2. CASE devtype # "V2P_9030"
  <2>1. chain' = chain
    BY <1>2 DEF ProgramPage
  <2>2. UsesJtag' => OpenFiles # {} /\ UsesJtag /\ UNCHANGED access_device
    BY DEF UsesJtag
  <2>. QED BY <2>1, <2>2, PinsNotUsed DEF jtagVars
<1>. QED BY <1>1, <1>2

LEMMA BufferIsPage ==
  ASSUME BufferType, xcf_data # NoBuffer
  PROVE  IsPage(xcf_data)
  BY DEF BufferType, IsPage

\* A page that is programmed leaves the chain ready for the next command.
LEMMA WriteChain ==
  ASSUME FilesInv, PositionType, ChainInv, FlashTypes, NEW p \in Processes, Write(p)
  PROVE  ChainInv'
<1>1. /\ p \in OpenFiles /\ access_device = DEVICE_FLASH
      /\ UNCHANGED <<devtype, access_mode, access_device, opens, jtag_refcount>>
  BY DEF Write, FlashFile, OpenFiles, accessVars, boundVars
<1>2. chain' = chain \/ \E bytes : IsPage(bytes) /\ ProgramPage(bytes)
  BY DEF Write, IsPage
<1>3. CASE chain' = chain
  <2>1. UsesJtag' => OpenFiles # {} /\ UsesJtag /\ UNCHANGED access_device
    BY <1>1 DEF UsesJtag
  <2>. QED BY <1>1, <1>3, <2>1, PinsNotUsed DEF jtagVars
<1>4. ASSUME NEW bytes, IsPage(bytes), ProgramPage(bytes) PROVE ChainInv'
  BY <1>1, <1>4, ProgramChain
<1>. QED BY <1>2, <1>3, <1>4

LEMMA ReleaseFpgaChain ==
  ASSUME FilesInv, ChainInv, NEW p \in Processes, ReleaseFpga(p)
  PROVE  ChainInv'
<1>0. /\ AtRest(chain) /\ jtag_refcount \in Nat /\ jtag_refcount <= opens /\ (jtag_refcount > 0 => chain.driven)
      /\ opens' = opens /\ opens \in Nat /\ devtype' = devtype
  BY DEF ChainInv, ReleaseFpga, Releasing, FilesInv, ControlTypes, boundVars
<1>1. ~UsesJtag'
  <2>1. CASE devtype \in PLX
    <3>1. access_device' = 0
      BY <2>1 DEF ReleaseFpga, NoneOpen
    <3>. QED BY <3>1 DEF UsesJtag
  <2>2. CASE devtype \notin PLX
    BY <1>0, <2>2 DEF UsesJtag, PLX
  <2>. QED BY <2>1, <2>2
<1>2. CASE jtag_refcount' = JtagReleased /\ chain' = JtagRelease(chain, jtag_refcount)
  <2>1. PICK next : next = JtagRelease(chain, jtag_refcount)
    OBVIOUS
  <2>2. SameChain(chain, next) /\ (jtag_refcount > 1 => next = chain)
    BY <1>0, <2>1, PinsReleased
  <2>3. jtag_refcount' \in 0 .. opens' /\ (jtag_refcount' > 0 => chain'.driven)
    BY <1>0, <1>2, <2>1, <2>2 DEF JtagReleased
  <2>. QED BY <1>1, <1>2, <2>1, <2>2, <2>3 DEF ChainInv, SameChain
<1>3. CASE UNCHANGED jtagVars
  BY <1>0, <1>1, <1>3, PinsNotUsed
<1>. QED BY <1>2, <1>3 DEF ReleaseFpga

LEMMA ReleaseXcfReadChain ==
  ASSUME FilesInv, ChainInv, NEW p \in Processes, ReleaseXcfRead(p)
  PROVE  ChainInv'
<1>1. /\ p \in OpenFiles /\ access_device = DEVICE_FLASH /\ devtype = "V2P_9030" /\ access_device' = 0
      /\ opens' = opens /\ jtag_refcount' = jtag_refcount
  BY DEF ReleaseXcfRead, Releasing, OpenFiles, FlashReleased, NoneOpen, boundVars
<1>2. PICK b : b = ChainWithFlash
  OBVIOUS
<1>3. PICK c \in ReadEnd(b) : chain' = WithoutFlash(c)
  BY <1>2 DEF ReleaseXcfRead
<1>4. Ready(b)
  BY <1>1, <1>2, XcfReady
<1>5. Ready(c) /\ c.enabled = -1
  BY <1>3, <1>4, ReadEndFacts
<1>6. AtRest(c) /\ c.driven
  BY <1>5 DEF Ready, Rests, AtRest
<1>7. AtRest(chain') /\ chain'.driven
  BY <1>3, <1>6, FlashDetached
<1>8. ~UsesJtag'
  BY <1>1 DEF UsesJtag
<1>. QED BY <1>1, <1>7, <1>8 DEF ChainInv

\* The last page, the end of programming and the load of the FPGA, then the pins are given back.
LEMMA ReleaseXcfWrittenChain ==
  ASSUME FilesInv, PositionType, BufferType, ChainInv, FlashTypes, NEW p \in Processes, ReleaseXcfWritten(p)
  PROVE  ChainInv'
<1>1. /\ p \in OpenFiles /\ access_device = DEVICE_FLASH /\ devtype = "V2P_9030" /\ access_device' = 0
      /\ opens' = opens /\ jtag_refcount' = JtagReleased /\ opens \in Nat /\ IsPage(xcf_data)
  BY BufferIsPage DEF ReleaseXcfWritten, Releasing, OpenFiles, FlashReleased, NoneOpen, boundVars, FilesInv, ControlTypes
<1>2. PICK c \in Conf({JtagOpen(JtagRelease(d, jtag_refcount), JtagReleased) :
                         d \in ProgEnd(XcfWrite(ChainWithFlash, xcf_data, xcf_data_pos))}) :
        chain' = WithoutFlash(JtagRelease(c, JtagReleased + 1))
  BY DEF ReleaseXcfWritten
<1>3. IsMemory(flash) /\ xcf_data_pos \in Int
  BY DEF FlashTypes, IsMemory, PositionType
<1>4. AtRest(c) /\ c.driven
  BY <1>1, <1>2, <1>3, XcfClosed
<1>5. PICK closed : closed = JtagRelease(c, JtagReleased + 1)
  OBVIOUS
<1>6. JtagReleased \in Nat /\ JtagReleased <= opens
  BY <1>1 DEF ChainInv, JtagReleased
<1>7. SameChain(c, closed) /\ (JtagReleased + 1 > 1 => closed = c)
  <2>1. JtagReleased + 1 \in Nat
    BY <1>6
  <2>. QED BY <1>4, <1>5, <2>1, PinsReleased
<1>8. AtRest(chain') /\ chain'.driven = closed.driven
  BY <1>2, <1>5, <1>7, FlashDetached DEF SameChain
<1>9. jtag_refcount' \in 0 .. opens' /\ (jtag_refcount' > 0 => chain'.driven)
  BY <1>1, <1>4, <1>6, <1>7, <1>8
<1>10. ~UsesJtag'
  BY <1>1 DEF UsesJtag
<1>. QED BY <1>8, <1>9, <1>10 DEF ChainInv

LEMMA ReleaseFlashChain ==
  ASSUME FilesInv, ChainInv, NEW p \in Processes, ReleaseFlash(p)
  PROVE  ChainInv'
<1>1. devtype # "V2P_9030" /\ devtype' = devtype /\ opens' = opens /\ jtag_refcount' = jtag_refcount
  BY DEF ReleaseFlash, Releasing, boundVars
<1>2. chain' = chain
  BY <1>1 DEF ReleaseFlash, ProgramPage
<1>3. ~UsesJtag'
  BY <1>1 DEF UsesJtag
<1>. QED BY <1>1, <1>2, <1>3, PinsNotUsed DEF jtagVars

LEMMA OpenChain ==
  ASSUME FilesInv, ChainInv, NEW p \in Processes, Open(p)
  PROVE  ChainInv'
<1>1. ASSUME NEW minor, Opening(p, minor) PROVE opens' = opens + 1 /\ devtype' = devtype
  BY <1>1 DEF Opening
<1>2. ASSUME NEW mode \in Modes, NEW minor \in {DEVICE_EEPROM, DEVICE_FPGA}, OpenUnsupported(p, minor, mode)
      PROVE  ChainInv'
  <2>1. ~UsesJtag'
    BY <1>1, <1>2 DEF OpenUnsupported, UsesJtag, PLX
  <2>. QED BY <1>1, <1>2, <2>1, PinsNotUsed DEF OpenUnsupported
<1>3. ASSUME NEW mode \in Modes, OpenEeprom(p, mode) PROVE ChainInv'
  <2>1. ~UsesJtag'
    BY <1>3 DEF OpenEeprom, Opened, NoneOpen, UsesJtag
  <2>. QED BY <1>1, <1>3, <2>1, PinsNotUsed DEF OpenEeprom
<1>4. ASSUME NEW mode \in Modes, OpenFpga(p, mode) PROVE ChainInv'
  BY <1>4, OpenFpgaChain
<1>5. ASSUME NEW mode \in Modes, OpenFlashToMap(p, mode) PROVE ChainInv'
  <2>1. ~UsesJtag'
    BY <1>1, <1>5 DEF OpenFlashToMap, UsesJtag
  <2>. QED BY <1>1, <1>5, <2>1, PinsNotUsed DEF OpenFlashToMap
<1>6. ASSUME NEW mode \in Modes, OpenEv(p, mode) PROVE ChainInv'
  <2>1. ~UsesJtag'
    BY <1>6 DEF OpenEv, Opened, UsesJtag
  <2>. QED BY <1>1, <1>6, <2>1, PinsNotUsed DEF OpenEv
<1>7. ASSUME OpenFlashToRead(p) \/ OpenFlashToWrite(p) PROVE ChainInv'
  <2>1. ~UsesJtag'
    BY <1>1, <1>7 DEF OpenFlashToRead, OpenFlashToWrite, UsesJtag
  <2>. QED BY <1>1, <1>7, <2>1, PinsNotUsed DEF OpenFlashToRead, OpenFlashToWrite
<1>8. ASSUME OpenXcfToRead(p) PROVE ChainInv'
  BY <1>8, OpenXcfToReadChain
<1>9. ASSUME OpenXcfToWrite(p) PROVE ChainInv'
  BY <1>9, OpenXcfToWriteChain
<1>. QED BY <1>2, <1>3, <1>4, <1>5, <1>6, <1>7, <1>8, <1>9 DEF Open

LEMMA ReleaseChain ==
  ASSUME FilesInv, PositionType, BufferType, ChainInv, FlashTypes, NEW p \in Processes, Release(p)
  PROVE  ChainInv'
<1>1. ASSUME ReleaseEeprom(p) PROVE ChainInv'
  <2>1. opens' = opens /\ devtype' = devtype /\ UNCHANGED jtagVars
    BY <1>1 DEF ReleaseEeprom, Releasing, boundVars
  <2>2. ~UsesJtag'
    BY <1>1, <2>1 DEF ReleaseEeprom, NoneOpen, UsesJtag, PLX
  <2>. QED BY <2>1, <2>2, PinsNotUsed
<1>2. ASSUME ReleaseEv(p) PROVE ChainInv'
  <2>1. opens' = opens /\ UNCHANGED jtagVars
    BY <1>2 DEF ReleaseEv, Releasing, boundVars
  <2>2. ~UsesJtag'
    <3>1. access_device = DEVICE_EV /\ (access_device' = 0 \/ access_device' = access_device)
      BY <1>2 DEF ReleaseEv, Releasing, NoneOpen, accessVars
    <3>. QED BY <3>1 DEF UsesJtag
  <2>. QED BY <2>1, <2>2, PinsNotUsed
<1>3. ASSUME ReleaseInterrupted(p) PROVE ChainInv'
  <2>1. opens' = opens /\ UNCHANGED <<jtagVars, devtype, access_mode, access_device>> /\ OpenFiles # {}
    BY <1>3 DEF ReleaseInterrupted, accessVars, OpenFiles
  <2>2. UsesJtag' => OpenFiles # {} /\ UsesJtag /\ UNCHANGED access_device
    BY <2>1 DEF UsesJtag
  <2>. QED BY <2>1, <2>2, PinsNotUsed
<1>. QED BY <1>1, <1>2, <1>3, ReleaseFpgaChain, ReleaseXcfReadChain, ReleaseXcfWrittenChain, ReleaseFlashChain DEF Release

\* Every step keeps the chain ready for the files that are open.
LEMMA ChainStep ==
  ASSUME FilesInv, PositionType, BufferType, ChainInv, FlashTypes, [Next]_vars
  PROVE  ChainInv'
<1>1. CASE UNCHANGED vars
  <2>1. UNCHANGED <<devtype, access_mode, access_device, jtagVars, opens, files>>
    BY <1>1 DEF vars, accessVars, boundVars
  <2>2. UsesJtag' => UsesJtag /\ UNCHANGED access_device
    BY <2>1 DEF UsesJtag
  <2>3. OpenFiles' = OpenFiles
    BY <2>1 DEF OpenFiles
  <2>. QED BY <2>1, <2>2, <2>3 DEF ChainInv, jtagVars
<1>2. CASE Rebind
  <2>1. chain' = chain /\ jtag_refcount' = 0 /\ ~UsesJtag' /\ opens' = opens
    BY <1>2 DEF Rebind, NoneOpen, UsesJtag, boundVars
  <2>. QED BY <2>1 DEF ChainInv, FilesInv, ControlTypes
<1>. QED BY <1>1, <1>2, OpenChain, ReadChain, WriteChain, ReleaseChain DEF Next

-----------------------------------------------------------------------------
(* The buffers.                                                            *)

Buffered ==
  /\ BufferType
  /\ eeprom_data \in BOOLEAN
  /\ fpga_conf_data \in BOOLEAN
  /\ OpenFiles # {} =>
       /\ access_device = DEVICE_FLASH /\ devtype # "V5_PCIE" => xcf_data # NoBuffer
       /\ access_device = DEVICE_FPGA => fpga_conf_data
       /\ access_device = DEVICE_EEPROM => eeprom_data

LEMMA PageNotEmpty ==
  ASSUME NEW data \in [1 .. PageSize -> Bytes]
  PROVE  data # NoBuffer
<1>1. PageSize \in Nat \ {0}
  BY Sizes, Zenon
<1>2. 1 \in DOMAIN data
  BY <1>1
<1>3. DOMAIN NoBuffer = {}
  BY DEF NoBuffer
<1>. QED BY <1>2, <1>3

LEMMA FreshBufferFacts == FreshBuffer \in [1 .. PageSize -> Bytes]
  BY ByteFacts DEF FreshBuffer

\* A page of the flash memory of a V2P board.
PageHeld(data, page) == data = [i \in 1 .. PageSize |-> flash[page + i - 1]]

\* A page that is read through the chain is what is in the memory.
LEMMA XcfPageRead ==
  ASSUME ChainInv, FlashTypes, NEW p \in OpenFiles, devtype = "V2P_9030", access_device = DEVICE_FLASH,
         NEW page \in Nat, page + PageSize <= FlashSize,
         NEW c \in XcfRead(ChainWithFlash, page, PageSize), NEW data, data = SubSeq(c.out, 1, PageSize)
  PROVE  PageHeld(data, page) /\ data \in [1 .. PageSize -> Bytes]
<1>1. PICK b : b = ChainWithFlash
  OBVIOUS
<1>2. Ready(b) /\ b.enabled # -1 /\ b.memory = flash
  BY <1>1, XcfReady
<1>3. PageSize \in Nat \ {0} /\ FlashSize \in Nat \ {0}
  BY Sizes, Zenon
<1>4. c.out = [i \in 1 .. Cardinality(DOMAIN b.memory) - page |-> b.memory[page + i - 1]]
  <2>1. c \in XcfRead(b, page, PageSize) /\ page \in Int
    BY <1>1
  <2>. QED BY <1>2, <1>3, <2>1, XcfReadFacts
<1>5. Cardinality(DOMAIN flash) = FlashSize
  <2>1. DOMAIN flash = 0 .. FlashSize - 1
    BY DEF FlashTypes
  <2>2. Cardinality(0 .. FlashSize - 1) = FlashSize
    BY <1>3, FS_Interval
  <2>. QED BY <2>1, <2>2
<1>6. PICK rest \in Nat : rest = FlashSize - page /\ rest >= PageSize
  BY <1>3
<1>7. c.out = [i \in 1 .. rest |-> flash[page + i - 1]]
  BY <1>2, <1>4, <1>5, <1>6
<1>8. PICK out : out = c.out
  OBVIOUS
<1>9. data = [i \in 1 .. PageSize |-> out[i]]
  <2>1. Len(out) = rest
    BY <1>7, <1>8
  <2>. QED BY <1>3, <1>6, <1>8, <2>1
<1>10. \A i \in 1 .. PageSize : data[i] = flash[page + i - 1]
  BY <1>3, <1>6, <1>7, <1>8, <1>9
<1>11. PageHeld(data, page)
  BY <1>9, <1>10 DEF PageHeld
<1>12. \A i \in 1 .. PageSize : flash[page + i - 1] \in Bytes
  <2>1. \A i \in 1 .. PageSize : page + i - 1 \in 0 .. FlashSize - 1
    BY <1>3
  <2>. QED BY <2>1 DEF FlashTypes
<1>. QED BY <1>11, <1>12 DEF PageHeld

\* When another device than the registers is released, nothing is open any more.
LEMMA ToolClosed ==
  ASSUME FilesInv, NEW p \in Processes, NEW device \in {DEVICE_EEPROM, DEVICE_FLASH, DEVICE_FPGA}, Releasing(p, device)
  PROVE  p \in OpenFiles /\ OpenFiles' = {}
<1>1. p \in OpenFiles /\ access_device = device /\ device # DEVICE_EV /\ files' = [files EXCEPT ![p] = Closed]
  BY DEF Releasing, OpenFiles
<1>2. OpenFiles = {p}
  BY <1>1 DEF FilesInv, OneMinorOpen, OwnDevice
<1>. QED BY <1>1, <1>2, ClosedFile

\* The buffers of the open files are kept.
LEMMA BuffersKept ==
  ASSUME Buffered, UNCHANGED <<devtype, eeprom_data, fpga_conf_data, xcf_data>>,
         \/ OpenFiles' = {}
         \/ access_device' = DEVICE_EV
         \/ access_device' = DEVICE_FLASH /\ devtype = "V5_PCIE"
         \/ OpenFiles # {} /\ access_device' = access_device
  PROVE  Buffered'
  BY DEF Buffered, BufferType, NoBuffer

\* Nothing is open, and the buffers are what they may be.
LEMMA BuffersFreed ==
  ASSUME OpenFiles' = {}, BufferType', eeprom_data' \in BOOLEAN, fpga_conf_data' \in BOOLEAN
  PROVE  Buffered'
  BY DEF Buffered

LEMMA BufferFreed == xcf_data' = NoBuffer => BufferType'
  BY DEF BufferType, NoBuffer

LEMMA OpenBuffered ==
  ASSUME EepromAlone, FilesInv, FilesInv', Buffered, NEW p \in Processes, Open(p)
  PROVE  Buffered'
<1>0. BufferType /\ eeprom_data \in BOOLEAN /\ fpga_conf_data \in BOOLEAN
  BY DEF Buffered
<1>1. xcf_data' = FreshBuffer => BufferType' /\ xcf_data' # NoBuffer'
  <2>. SUFFICES ASSUME xcf_data' = FreshBuffer PROVE BufferType' /\ xcf_data' # NoBuffer'
    OBVIOUS
  <2>1. xcf_data' \in [1 .. PageSize -> Bytes]
    BY FreshBufferFacts
  <2>2. xcf_data' # NoBuffer
    BY <2>1, PageNotEmpty
  <2>. QED BY <2>1, <2>2 DEF BufferType, NoBuffer
<1>2. ASSUME NEW minor, Opening(p, minor) PROVE devtype' = devtype
  BY <1>2 DEF Opening
<1>3. ASSUME NEW minor \in {DEVICE_EEPROM, DEVICE_FLASH, DEVICE_FPGA}, Opening(p, minor), UNCHANGED files
      PROVE  OpenFiles' = {}
  <2>1. minor \in DEVICE_EEPROM .. DEVICE_EV /\ minor # DEVICE_EV
    OBVIOUS
  <2>2. OpenFiles = {}
    BY <1>3, <2>1, NothingOpen
  <2>. QED BY <1>3, <2>2 DEF OpenFiles, Closed
<1>4. ASSUME NEW mode \in Modes, NEW minor \in {DEVICE_EEPROM, DEVICE_FPGA}, OpenUnsupported(p, minor, mode)
      PROVE  Buffered'
  <2>1. OpenFiles' = {}
    BY <1>3, <1>4 DEF OpenUnsupported
  <2>. QED BY <1>2, <1>4, <2>1, BuffersKept DEF OpenUnsupported, bufferVars
<1>5. ASSUME NEW mode \in Modes, OpenEeprom(p, mode) PROVE Buffered'
  <2>1. Opening(p, DEVICE_EEPROM) /\ fpga_conf_data' = fpga_conf_data /\ xcf_data' = xcf_data
    BY <1>5 DEF OpenEeprom
  <2>2. BufferType'
    BY <1>0, <2>1 DEF BufferType, NoBuffer
  <2>3. CASE access_device' = DEVICE_EEPROM /\ eeprom_data' = TRUE
    BY <1>0, <2>1, <2>2, <2>3 DEF Buffered
  <2>4. CASE UNCHANGED files /\ eeprom_data' = FALSE
    BY <1>0, <1>3, <2>1, <2>2, <2>4, BuffersFreed
  <2>. QED BY <1>5, <2>3, <2>4 DEF OpenEeprom, Opened
<1>6. ASSUME NEW mode \in Modes, OpenFpga(p, mode) PROVE Buffered'
  <2>1. Opening(p, DEVICE_FPGA) /\ eeprom_data' = eeprom_data /\ xcf_data' = xcf_data
    BY <1>6 DEF OpenFpga
  <2>2. BufferType'
    BY <1>0, <2>1 DEF BufferType, NoBuffer
  <2>3. CASE access_device' = DEVICE_FPGA /\ fpga_conf_data' = TRUE
    BY <1>0, <2>1, <2>2, <2>3 DEF Buffered
  <2>4. CASE UNCHANGED files /\ fpga_conf_data' = FALSE
    BY <1>0, <1>3, <2>1, <2>2, <2>4, BuffersFreed
  <2>. QED BY <1>6, <2>3, <2>4 DEF OpenFpga, Opened
<1>7. ASSUME NEW mode \in Modes, OpenFlashToMap(p, mode) PROVE Buffered'
  BY <1>2, <1>7, BuffersKept DEF OpenFlashToMap, Opened, bufferVars
<1>8. ASSUME NEW mode \in Modes, OpenEv(p, mode) PROVE Buffered'
  BY <1>2, <1>8, BuffersKept DEF OpenEv, Opened, bufferVars
<1>9. ASSUME access_device' = DEVICE_FLASH, xcf_data' = FreshBuffer, UNCHANGED <<eeprom_data, fpga_conf_data>>
      PROVE  Buffered'
  BY <1>0, <1>1, <1>9 DEF Buffered
<1>10. ASSUME Opening(p, DEVICE_FLASH), UNCHANGED files, xcf_data' = NoBuffer, UNCHANGED <<eeprom_data, fpga_conf_data>>
       PROVE  Buffered'
  BY <1>0, <1>3, <1>10, BufferFreed, BuffersFreed
<1>11. ASSUME OpenFlashToRead(p) PROVE Buffered'
  BY <1>9, <1>11 DEF OpenFlashToRead, Opened
<1>12. ASSUME OpenXcfToRead(p) PROVE Buffered'
  <2>1. \/ access_device' = DEVICE_FLASH /\ xcf_data' = FreshBuffer
        \/ UNCHANGED files /\ xcf_data' = NoBuffer
    BY <1>12 DEF OpenXcfToRead, Opened
  <2>2. Opening(p, DEVICE_FLASH) /\ UNCHANGED <<eeprom_data, fpga_conf_data>>
    BY <1>12 DEF OpenXcfToRead
  <2>. QED BY <1>9, <1>10, <2>1, <2>2
<1>13. ASSUME NEW failed, NEW complete, Opening(p, DEVICE_FLASH), OpenToWrite(p, failed, complete) PROVE Buffered'
  BY <1>9, <1>10, <1>13 DEF OpenToWrite, Opened
<1>14. ASSUME OpenXcfToWrite(p) \/ OpenFlashToWrite(p) PROVE Buffered'
  BY <1>13, <1>14 DEF OpenXcfToWrite, OpenFlashToWrite
<1>. QED BY <1>4, <1>5, <1>6, <1>7, <1>8, <1>11, <1>12, <1>14 DEF Open

LEMMA ReleaseBuffered ==
  ASSUME FilesInv, FilesInv', Buffered, NEW p \in Processes, Release(p)
  PROVE  Buffered'
<1>0. BufferType /\ eeprom_data \in BOOLEAN /\ fpga_conf_data \in BOOLEAN
  BY DEF Buffered
<1>1. ASSUME ReleaseEeprom(p) PROVE Buffered'
  <2>1. OpenFiles' = {}
    BY <1>1, ToolClosed DEF ReleaseEeprom
  <2>2. eeprom_data' \in {eeprom_data, FALSE} /\ fpga_conf_data' = fpga_conf_data /\ xcf_data' = xcf_data
    BY <1>1 DEF ReleaseEeprom
  <2>3. BufferType'
    BY <1>0, <2>2 DEF BufferType, NoBuffer
  <2>. QED BY <1>0, <2>1, <2>2, <2>3, BuffersFreed
<1>2. ASSUME ReleaseFpga(p) PROVE Buffered'
  <2>1. OpenFiles' = {}
    BY <1>2, ToolClosed DEF ReleaseFpga
  <2>2. fpga_conf_data' \in {fpga_conf_data, FALSE} /\ eeprom_data' = eeprom_data /\ xcf_data' = xcf_data
    BY <1>2 DEF ReleaseFpga
  <2>3. BufferType'
    BY <1>0, <2>2 DEF BufferType, NoBuffer
  <2>. QED BY <1>0, <2>1, <2>2, <2>3, BuffersFreed
<1>3. ASSUME ReleaseXcfRead(p) \/ ReleaseXcfWritten(p) \/ ReleaseFlash(p) PROVE Buffered'
  <2>1. Releasing(p, DEVICE_FLASH) /\ FlashReleased
    BY <1>3 DEF ReleaseXcfRead, ReleaseXcfWritten, ReleaseFlash
  <2>2. OpenFiles' = {}
    BY <2>1, ToolClosed
  <2>3. xcf_data' = NoBuffer /\ UNCHANGED <<eeprom_data, fpga_conf_data>>
    BY <2>1 DEF FlashReleased
  <2>. QED BY <1>0, <2>2, <2>3, BufferFreed, BuffersFreed
<1>4. ASSUME ReleaseEv(p) PROVE Buffered'
  <2>1. /\ p \in OpenFiles /\ access_device = DEVICE_EV /\ devtype' = devtype
        /\ files' = [files EXCEPT ![p] = Closed] /\ UNCHANGED <<eeprom_data, fpga_conf_data, xcf_data>>
    BY <1>4 DEF ReleaseEv, Releasing, OpenFiles, bufferVars
  <2>2. ASSUME NEW q \in OpenFiles' PROVE access_device' = DEVICE_EV
    <3>1. q \in OpenFiles /\ files'[q] = files[q]
      BY <2>1, ClosedFile
    <3>2. files[q].minor = DEVICE_EV
      BY <2>1, <3>1 DEF FilesInv, OwnDevice
    <3>. QED BY <3>1, <3>2 DEF FilesInv, OwnDevice
  <2>. QED BY <2>1, <2>2, BuffersKept
<1>5. ASSUME ReleaseInterrupted(p) PROVE Buffered'
  BY <1>5, BuffersKept DEF ReleaseInterrupted, OpenFiles, accessVars, bufferVars
<1>. QED BY <1>1, <1>2, <1>3, <1>4, <1>5 DEF Release

\* A fast read is sent an address, too.
LEMMA FastReadAddress ==
  ASSUME NEW place \in 0 .. FlashSize, NEW received, received = <<"FAST_READ">> \o AddressBytes(place)
  PROVE  AddressIn(received) \in Int
<1>1. PICK prefix, bytes : prefix = <<"FAST_READ">> /\ bytes = AddressBytes(place)
  OBVIOUS
<1>2. PICK S : S = {"FAST_READ", bytes[1], bytes[2], bytes[3]}
  OBVIOUS
<1>3. Len(bytes) = 3 /\ bytes \in Seq(S) /\ prefix \in Seq(S) /\ Len(prefix) = 1
  BY <1>1, <1>2 DEF AddressBytes
<1>4. \A i \in 1 .. 3 : received[1 + i] = bytes[i]
  BY <1>1, <1>3, Joined
<1>5. /\ received[2] = (place \div (AddressBase * AddressBase)) % AddressBase
      /\ received[3] = (place \div AddressBase) % AddressBase
      /\ received[4] = place % AddressBase
  <2>1. received[2] = bytes[1] /\ received[3] = bytes[2] /\ received[4] = bytes[3]
    <3>1. 1 \in 1 .. 3 /\ 2 \in 1 .. 3 /\ 3 \in 1 .. 3 /\ 1 + 1 = 2 /\ 1 + 2 = 3 /\ 1 + 3 = 4
      OBVIOUS
    <3>. QED BY <1>4, <3>1
  <2>. QED BY <1>1, <2>1 DEF AddressBytes
<1>6. AddressIn(received) = IF place = FlashSize THEN 0 ELSE place
  BY <1>5, AddressSent
<1>. QED BY <1>6

\* The page that a read needs is in the buffer.
LEMMA ReadPage ==
  ASSUME FilesInv, ChainInv, FlashTypes, Buffered, NEW p \in Processes, Read(p), NEW pos, pos = files[p].pos,
         NEW page, page = PageOf(pos)
  PROVE  /\ pos \in Nat /\ page \in Nat /\ page <= pos /\ pos < page + PageSize
         /\ Base + page + PageSize <= FlashSize
         /\ xcf_data' \in [1 .. PageSize -> Bytes]
         /\ xcf_data_pos' = page
         /\ devtype = "V2P_9030" /\ page # xcf_data_pos => PageHeld(xcf_data', page)
         /\ page = xcf_data_pos => xcf_data' = xcf_data
         /\ \E n \in 1 .. PageSize : /\ pos + n <= page + PageSize
              /\ returned' = [pos |-> pos, data |-> SubSeq(xcf_data', pos - page + 1, pos - page + n)]
<1>0. PageSize \in Nat \ {0} /\ FlashSize \in Nat \ {0}
  BY Sizes, Zenon
<1>1. /\ p \in OpenFiles /\ access_device = DEVICE_FLASH /\ xcf_data # NoBuffer /\ files[p] \in FileType
  BY DEF Read, FlashFile, OpenFiles, FilesInv, ControlTypes
<1>2. pos \in Nat
  BY <1>0, <1>1 DEF FileType
<1>3. page \in Nat /\ page <= pos /\ pos < page + PageSize
  BY <1>2, PageOfFacts
<1>4. Base + page + PageSize <= FlashSize
  BY DEF Read
<1>5. PICK count \in 1 .. PageSize, read \in PageRead(page) :
        /\ xcf_data' = read.data /\ xcf_data_pos' = page
        /\ returned' = [pos |-> pos, data |-> SubSeq(read.data, pos - page + 1, pos - page + BytesTo(count, pos, page))]
  BY DEF Read
<1>6. PICK n : n = BytesTo(count, pos, page)
  OBVIOUS
<1>7. n \in 1 .. PageSize /\ pos + n <= page + PageSize
  BY <1>0, <1>2, <1>3, <1>6 DEF BytesTo, SmallerOf
<1>8. xcf_data \in [1 .. PageSize -> Bytes]
  BY <1>1 DEF Buffered, BufferType
<1>9. CASE page = xcf_data_pos
  <2>1. read.data = xcf_data
    BY <1>5, <1>9 DEF PageRead
  <2>. QED BY <1>2, <1>3, <1>4, <1>5, <1>6, <1>7, <1>8, <1>9, <2>1
<1>10. CASE page # xcf_data_pos /\ devtype = "V2P_9030"
  <2>1. PICK c \in XcfRead(ChainWithFlash, page, PageSize) : read.data = SubSeq(c.out, 1, PageSize)
    BY <1>5, <1>10 DEF PageRead
  <2>2. page + PageSize <= FlashSize
    BY <1>4, <1>10, <1>3, <1>0 DEF Base
  <2>3. PageHeld(read.data, page) /\ read.data \in [1 .. PageSize -> Bytes]
    BY <1>1, <1>3, <1>10, <2>1, <2>2, XcfPageRead
  <2>4. PageHeld(xcf_data', page) /\ xcf_data' \in [1 .. PageSize -> Bytes]
    BY <1>5, <2>3
  <2>. QED BY <1>2, <1>3, <1>4, <1>5, <1>6, <1>7, <1>10, <2>4
<1>11. CASE page # xcf_data_pos /\ devtype # "V2P_9030"
  <2>1. PICK from, m : read.data = [i \in DOMAIN xcf_data |-> IF i <= m THEN flash[(from + i - 1) % FlashSize] ELSE xcf_data[i]]
                       /\ from \in Int
    <3>1. read.data \in FastRead(flash, xcf_data, Base + page)
      BY <1>5, <1>11 DEF PageRead
    <3>2. PICK from : from = AddressIn(<<"FAST_READ">> \o AddressBytes(Base + page))
      OBVIOUS
    <3>3. PICK m : read.data = [i \in DOMAIN xcf_data |-> IF i <= m THEN flash[(from + i - 1) % FlashSize] ELSE xcf_data[i]]
      BY <3>1, <3>2 DEF FastRead
    <3>4. from \in Int
      <4>1. PICK place \in 0 .. FlashSize : place = Base + page
        BY <1>0, <1>3, <1>4, AreaFacts
      <4>2. PICK received : received = <<"FAST_READ">> \o AddressBytes(place)
        OBVIOUS
      <4>. QED BY <3>2, <4>1, <4>2, FastReadAddress
    <3>. QED BY <3>3, <3>4
  <2>2. ASSUME NEW i \in 1 .. PageSize PROVE flash[(from + i - 1) % FlashSize] \in Bytes
    <3>1. (from + i - 1) % FlashSize \in 0 .. FlashSize - 1
      BY <1>0, <2>1
    <3>. QED BY <3>1 DEF FlashTypes
  <2>3. read.data \in [1 .. PageSize -> Bytes]
    BY <1>8, <2>1, <2>2
  <2>. QED BY <1>2, <1>3, <1>4, <1>5, <1>6, <1>7, <1>11, <2>3
<1>. QED BY <1>9, <1>10, <1>11

LEMMA WriteBuffered ==
  ASSUME FilesInv, PositionType, Buffered, NEW p \in Processes, Write(p)
  PROVE  Buffered'
<1>0. PageSize \in Nat \ {0} /\ MaxImage \in Nat
  BY Sizes, DriverAssumption
<1>1. /\ p \in OpenFiles /\ access_device = DEVICE_FLASH /\ devtype # "V5_PCIE" /\ files[p] \in FileType
      /\ xcf_data \in [1 .. PageSize -> Bytes]
  BY DEF Write, FlashFile, OpenFiles, FilesInv, ControlTypes, Buffered, BufferType
<1>2. PICK pos, session, start : pos = files[p].pos /\ session = files[p].session /\ start = pos % PageSize
  OBVIOUS
<1>3. pos \in Nat /\ session \in 0 .. MaxOpens /\ start \in Nat
  BY <1>0, <1>1, <1>2 DEF FileType
<1>. DEFINE Filled(n) == [i \in 1 .. PageSize |->
                            IF i \in start + 1 .. start + n THEN Byte(session, pos + i - start - 1) ELSE xcf_data[i]]
<1>4. PICK n : /\ \E count \in 1 .. PageSize + 1 : n = BytesTo(count, pos, xcf_data_pos)
               /\ pos + n <= MaxImage
               /\ xcf_data' = Filled(n) \/ xcf_data' = [i \in 1 .. PageSize |-> Erased]
  BY <1>2 DEF Write
<1>4a. n \in Int
  <2>1. PICK count \in Nat : n = BytesTo(count, pos, xcf_data_pos)
    BY <1>0, <1>4
  <2>2. xcf_data_pos \in Int
    BY DEF PositionType
  <2>. QED BY <1>0, <1>3, <2>1, <2>2 DEF BytesTo, SmallerOf
<1>5. Filled(n) \in [1 .. PageSize -> Bytes]
  <2>1. ASSUME NEW i \in 1 .. PageSize, i \in start + 1 .. start + n PROVE Byte(session, pos + i - start - 1) \in Bytes
    <3>1. pos + i - start - 1 \in 0 .. MaxImage
      BY <1>0, <1>3, <1>4, <1>4a, <2>1
    <3>. QED BY <1>3, <3>1, ByteFacts
  <2>. QED BY <1>1, <2>1
<1>. HIDE DEF Filled
<1>6. xcf_data' = [i \in 1 .. PageSize |-> Erased] => xcf_data' \in [1 .. PageSize -> Bytes]
  BY ByteFacts
<1>7. xcf_data' \in [1 .. PageSize -> Bytes] /\ xcf_data' # NoBuffer
  <2>1. xcf_data' \in [1 .. PageSize -> Bytes]
    BY <1>4, <1>5, <1>6
  <2>. QED BY <2>1, PageNotEmpty
<1>8. UNCHANGED <<access_device, eeprom_data, fpga_conf_data>>
  BY DEF Write, accessVars
<1>9. xcf_data' # NoBuffer' /\ BufferType'
  BY <1>7 DEF NoBuffer, BufferType
<1>. QED BY <1>1, <1>8, <1>9 DEF Buffered

\* Every open file keeps its buffer.
LEMMA BufferedStep ==
  ASSUME EepromAlone, FilesInv, PositionType, Buffered, ChainInv, FlashTypes, [Next]_vars
  PROVE  Buffered'
<1>0. FilesInv'
  BY FilesStep
<1>1. CASE UNCHANGED vars
  <2>1. UNCHANGED <<devtype, access_device, eeprom_data, fpga_conf_data, xcf_data, files>>
    BY <1>1 DEF vars, accessVars, bufferVars
  <2>2. OpenFiles' = OpenFiles
    BY <2>1 DEF OpenFiles
  <2>. QED BY <2>1, <2>2, BuffersKept
<1>2. CASE Rebind
  <2>1. OpenFiles' = {} /\ eeprom_data' = FALSE /\ fpga_conf_data' = FALSE /\ xcf_data' = NoBuffer
    BY <1>2 DEF Rebind, OpenFiles, Closed
  <2>. QED BY <2>1, BufferFreed, BuffersFreed
<1>3. ASSUME NEW p \in Processes, Read(p) PROVE Buffered'
  <2>1. xcf_data' \in [1 .. PageSize -> Bytes]
    <3>1. PICK pos, page : pos = files[p].pos /\ page = PageOf(pos)
      OBVIOUS
    <3>. QED BY <1>3, <3>1, ReadPage
  <2>2. xcf_data' # NoBuffer
    BY <2>1, PageNotEmpty
  <2>3. access_device = DEVICE_FLASH /\ UNCHANGED <<access_device, eeprom_data, fpga_conf_data>>
    BY <1>3 DEF Read, FlashFile, accessVars
  <2>. QED BY <2>1, <2>2, <2>3 DEF Buffered, BufferType, NoBuffer
<1>. QED BY <1>0, <1>1, <1>2, <1>3, OpenBuffered, WriteBuffered, ReleaseBuffered DEF Next

-----------------------------------------------------------------------------
(* Reading.                                                                *)

\* While a file of a V2P board's flash memory is open for reading, the buffer is
\* what is in the memory at its position, unless it has none.
ReadSession ==
  devtype = "V2P_9030" /\ OpenFiles # {} /\ access_device = DEVICE_FLASH /\ access_mode = "O_RDONLY" =>
    xcf_data_pos = NoPosition \/ PageHeld(xcf_data, xcf_data_pos)

\* A read returns what the buffer has, which is what is in the memory.
LEMMA ReadReturns ==
  ASSUME FilesInv, ChainInv, FlashTypes, Buffered, ReadSession, NEW p \in Processes, Read(p)
  PROVE  ReadSession' /\ ReadsReturnFlash'
<1>1. PICK pos, page : pos = files[p].pos /\ page = PageOf(pos)
  OBVIOUS
<1>2. UNCHANGED <<devtype, flash>>
  BY DEF Read, flashVars
<1>. SUFFICES ASSUME devtype = "V2P_9030" PROVE ReadSession' /\ ReadsReturnFlash'
  BY <1>2 DEF ReadSession, ReadsReturnFlash
<1>3. PageSize \in Nat \ {0}
  BY Sizes, Zenon
<1>4. /\ pos \in Nat /\ page \in Nat /\ page <= pos /\ pos < page + PageSize
      /\ xcf_data' \in [1 .. PageSize -> Bytes] /\ xcf_data_pos' = page
      /\ page # xcf_data_pos => PageHeld(xcf_data', page)
      /\ page = xcf_data_pos => xcf_data' = xcf_data
  BY <1>1, ReadPage
<1>5. PageHeld(xcf_data', page)
  <2>1. CASE page = xcf_data_pos
    <3>1. p \in OpenFiles /\ access_device = DEVICE_FLASH /\ files[p].mode = "O_RDONLY"
      BY DEF Read, FlashFile, OpenFiles
    <3>2. access_mode = "O_RDONLY"
      BY <3>1, OneSession
    <3>3. PageHeld(xcf_data, xcf_data_pos)
      BY <1>4, <2>1, <3>1, <3>2 DEF ReadSession, NoPosition
    <3>. QED BY <1>4, <2>1, <3>3
  <2>. QED BY <1>4, <2>1
<1>6. ReadSession'
  BY <1>2, <1>4, <1>5 DEF ReadSession, PageHeld
<1>7. PICK n \in 1 .. PageSize : /\ pos + n <= page + PageSize
         /\ returned' = [pos |-> pos, data |-> SubSeq(xcf_data', pos - page + 1, pos - page + n)]
  BY <1>1, ReadPage
<1>8. PICK from \in Nat, to \in Nat : from = pos - page + 1 /\ to = pos - page + n
  <2>1. pos - page + 1 \in Nat /\ pos - page + n \in Nat
    BY <1>3, <1>4, <1>7
  <2>. QED BY <2>1
<1>8a. PICK data : data = xcf_data'
  OBVIOUS
<1>9. /\ data \in Seq(Bytes) /\ Len(data) = PageSize /\ from >= 1 /\ to <= PageSize /\ to + 1 >= from
      /\ data \in [1 .. PageSize -> Bytes]
  <2>1. data \in [1 .. PageSize -> Bytes]
    BY <1>4, <1>8a
  <2>2. data \in Seq(Bytes) /\ Len(data) = PageSize
    BY <1>3, <2>1
  <2>3. from >= 1 /\ to <= PageSize /\ to + 1 >= from
    BY <1>3, <1>4, <1>7, <1>8
  <2>. QED BY <2>1, <2>2, <2>3
<1>10. PICK piece : piece = SubSeq(data, from, to)
  OBVIOUS
<1>11. Len(piece) = n /\ \A i \in 1 .. n : piece[i] = data[from + i - 1]
  <2>1. Len(piece) = to - from + 1 /\ \A i \in 1 .. to - from + 1 : piece[i] = data[from + i - 1]
    BY <1>9, <1>10, <1>3
  <2>2. to - from + 1 = n
    BY <1>3, <1>4, <1>7, <1>8
  <2>. QED BY <2>1, <2>2
<1>12. DOMAIN piece = 1 .. n
  BY <1>9, <1>10, <1>11
<1>13. ASSUME NEW i \in 1 .. n PROVE piece[i] = flash[pos + i - 1]
  <2>1. from + i - 1 \in 1 .. PageSize /\ page + (from + i - 1) - 1 = pos + i - 1
    BY <1>3, <1>4, <1>7, <1>8
  <2>2. data[from + i - 1] = flash[page + (from + i - 1) - 1]
    BY <1>5, <1>8a, <2>1 DEF PageHeld
  <2>. QED BY <1>11, <2>1, <2>2
<1>14. returned'.data = piece /\ returned'.pos = pos
  BY <1>7, <1>8, <1>8a, <1>10
<1>15. ReadsReturnFlash'
  <2>1. Base' = 0
    BY <1>2 DEF Base
  <2>2. \A i \in 1 .. n : Base' + pos + i - 1 = pos + i - 1
    BY <1>4, <2>1
  <2>. QED BY <1>2, <1>12, <1>13, <1>14, <2>2 DEF ReadsReturnFlash
<1>. QED BY <1>6, <1>15

LEMMA NothingReturned == returned' = NoRead => ReadsReturnFlash'
  BY DEF ReadsReturnFlash, NoRead

LEMMA SessionKept ==
  ASSUME ReadSession, UNCHANGED <<devtype, xcf_data, xcf_data_pos, flash, access_device, access_mode>>,
         OpenFiles' # {} => OpenFiles # {}
  PROVE  ReadSession'
  BY DEF ReadSession, PageHeld, NoPosition

\* There is nothing to say if nobody reads, or the buffer has no position.
LEMMA NoReadSession ==
  ASSUME \/ devtype' # "V2P_9030" \/ OpenFiles' = {} \/ access_device' # DEVICE_FLASH
         \/ access_mode' # "O_RDONLY" \/ xcf_data_pos' = NoPosition
  PROVE  ReadSession'
  BY DEF ReadSession, NoPosition

LEMMA OpenReadSession ==
  ASSUME EepromAlone, FilesInv, NEW p \in Processes, Open(p)
  PROVE  ReadSession' /\ returned' = NoRead
<1>1. ASSUME NEW minor, Opening(p, minor) PROVE devtype' = devtype /\ returned' = NoRead
  BY <1>1 DEF Opening
<1>2. ASSUME NEW mode \in Modes, NEW minor \in {DEVICE_EEPROM, DEVICE_FPGA}, OpenUnsupported(p, minor, mode)
      PROVE  ReadSession' /\ returned' = NoRead
  BY <1>1, <1>2, NoReadSession DEF OpenUnsupported
<1>3. ASSUME NEW mode \in Modes, OpenEeprom(p, mode) PROVE ReadSession' /\ returned' = NoRead
  BY <1>1, <1>3, NoReadSession DEF OpenEeprom, Opened, NoneOpen
<1>4. ASSUME NEW mode \in Modes, OpenFpga(p, mode) PROVE ReadSession' /\ returned' = NoRead
  BY <1>1, <1>4, NoReadSession DEF OpenFpga, Opened, NoneOpen
<1>5. ASSUME NEW mode \in Modes, OpenFlashToMap(p, mode) PROVE ReadSession' /\ returned' = NoRead
  BY <1>1, <1>5, NoReadSession DEF OpenFlashToMap
<1>6. ASSUME NEW mode \in Modes, OpenEv(p, mode) PROVE ReadSession' /\ returned' = NoRead
  BY <1>1, <1>6, NoReadSession DEF OpenEv, Opened
<1>7. ASSUME OpenFlashToRead(p) \/ OpenFlashToWrite(p) PROVE ReadSession' /\ returned' = NoRead
  BY <1>1, <1>7, NoReadSession DEF OpenFlashToRead, OpenFlashToWrite
<1>8. ASSUME OpenXcfToRead(p) PROVE ReadSession' /\ returned' = NoRead
  <2>1. xcf_data_pos' = NoPosition \/ access_device' = 0
    BY <1>8 DEF OpenXcfToRead, NoneOpen
  <2>. QED BY <1>1, <1>8, <2>1, NoReadSession DEF OpenXcfToRead
<1>9. ASSUME OpenXcfToWrite(p) PROVE ReadSession' /\ returned' = NoRead
  <2>1. access_mode' = "O_WRONLY" \/ access_device' = 0
    BY <1>9 DEF OpenXcfToWrite, OpenToWrite, Opened, NoneOpen
  <2>. QED BY <1>1, <1>9, <2>1, NoReadSession DEF OpenXcfToWrite
<1>. QED BY <1>2, <1>3, <1>4, <1>5, <1>6, <1>7, <1>8, <1>9 DEF Open

LEMMA ReleaseReadSession ==
  ASSUME FilesInv, ReadSession, NEW p \in Processes, Release(p)
  PROVE  ReadSession' /\ returned' = NoRead
<1>1. ASSUME NEW device \in {DEVICE_EEPROM, DEVICE_FLASH, DEVICE_FPGA}, Releasing(p, device)
      PROVE  ReadSession' /\ returned' = NoRead
  <2>1. OpenFiles' = {}
    BY <1>1, ToolClosed
  <2>. QED BY <1>1, <2>1, NoReadSession DEF Releasing
<1>2. ASSUME ReleaseEv(p) PROVE ReadSession' /\ returned' = NoRead
  <2>1. access_device' # DEVICE_FLASH
    BY <1>2 DEF ReleaseEv, Releasing, NoneOpen, accessVars
  <2>. QED BY <1>2, <2>1, NoReadSession DEF ReleaseEv, Releasing
<1>3. ASSUME ReleaseInterrupted(p) PROVE ReadSession' /\ returned' = NoRead
  <2>1. OpenFiles # {} /\ returned' = NoRead
        /\ UNCHANGED <<devtype, xcf_data, xcf_data_pos, flash, access_device, access_mode>>
    BY <1>3 DEF ReleaseInterrupted, OpenFiles, bufferVars, flashVars, accessVars
  <2>. QED BY <2>1, SessionKept
<1>. QED BY <1>1, <1>2, <1>3 DEF Release, ReleaseEeprom, ReleaseFpga, ReleaseXcfRead, ReleaseXcfWritten, ReleaseFlash

\* The buffer of a file that is read stays true to the memory.
LEMMA ReadSessionStep ==
  ASSUME EepromAlone, FilesInv, ChainInv, FlashTypes, Buffered, ReadSession, ReadsReturnFlash, [Next]_vars
  PROVE  ReadSession' /\ ReadsReturnFlash'
<1>1. CASE UNCHANGED vars
  <2>1. UNCHANGED <<devtype, xcf_data, xcf_data_pos, flash, access_device, access_mode, files, returned>>
    BY <1>1 DEF vars, accessVars, bufferVars, flashVars
  <2>2. OpenFiles' = OpenFiles /\ Base' = Base
    BY <2>1 DEF OpenFiles, Base
  <2>3. ReadSession'
    BY <2>1, <2>2, SessionKept
  <2>. QED BY <2>1, <2>2, <2>3 DEF ReadsReturnFlash
<1>2. CASE Rebind
  <2>1. access_device' = 0 /\ returned' = NoRead
    BY <1>2 DEF Rebind, NoneOpen
  <2>. QED BY <2>1, NothingReturned, NoReadSession
<1>3. ASSUME NEW p \in Processes, Write(p) PROVE ReadSession' /\ ReadsReturnFlash'
  <2>1. /\ p \in OpenFiles /\ access_device = DEVICE_FLASH /\ files[p].mode = "O_WRONLY"
        /\ returned' = NoRead /\ access_mode' = access_mode
    BY <1>3 DEF Write, FlashFile, OpenFiles, accessVars
  <2>2. access_mode = "O_WRONLY"
    BY <2>1, OneSession
  <2>. QED BY <2>1, <2>2, NothingReturned, NoReadSession
<1>. QED BY <1>1, <1>2, <1>3, OpenReadSession, ReleaseReadSession, ReadReturns, NothingReturned DEF Next

-----------------------------------------------------------------------------
(* Writing to a V2P board.                                                 *)

\* A page that is programmed through the chain is what the session expects.
LEMMA XcfProgrammed ==
  ASSUME FilesInv, FlashTypes, NEW p \in OpenFiles, Writing(p), SessionOf(p), devtype = "V2P_9030",
         NEW data, InArea(data), flash' = WithBytes(flash, data, xcf_data_pos, PageSize), incomplete' = incomplete
  PROVE  PageWritten(data)
<1>1. PageSize \in Nat \ {0} /\ FlashSize \in Nat \ {0}
  BY Sizes, Zenon
<1>2. Base = 0 /\ AreaEnd = FlashSize
  BY DEF Base, AreaEnd
<1>3. PICK place \in 0 .. FlashSize : place = xcf_data_pos /\ place = Base + xcf_data_pos
  <2>1. xcf_data_pos \in Nat /\ Base + xcf_data_pos \in 0 .. FlashSize
    BY SessionPosition
  <2>2. Base + xcf_data_pos = xcf_data_pos
    BY <1>2, <2>1
  <2>. QED BY <2>1, <2>2
<1>4. DOMAIN flash = 0 .. FlashSize - 1
  BY DEF FlashTypes
<1>5. /\ IsMemory(flash')
      /\ \A a \in 0 .. FlashSize - 1 :
           flash'[a] = IF a \in place .. place + PageSize - 1 THEN ProgramByte(flash[a], data[a - place + 1]) ELSE flash[a]
  BY <1>3, <1>4 DEF IsMemory, WithBytes
<1>6. PICK start : start = ChipAddress(place)
  OBVIOUS
<1>7. PICK o : o = [memory |-> flash', complete |-> TRUE]
  OBVIOUS
<1>8. PageOutcome(flash, data, start, o)
  <2>1. CASE place # FlashSize
    <3>1. start = place
      BY <1>6, <2>1 DEF ChipAddress
    <3>. QED BY <1>5, <1>7, <3>1 DEF PageOutcome
  <2>2. CASE place = FlashSize
    <3>1. start = 0
      BY <1>6, <2>2 DEF ChipAddress
    <3>2. \A i \in 1 .. PageSize : data[i] = Erased
      BY <1>1, <1>2, <1>3, <2>2 DEF InArea
    <3>3. ASSUME NEW a \in 0 .. FlashSize - 1 PROVE flash'[a] = flash[a]
      BY <1>1, <1>5, <2>2
    <3>4. ASSUME NEW a \in start .. start + PageSize - 1 PROVE ProgramByte(flash[a], data[a - start + 1]) = flash[a]
      <4>1. a - start + 1 \in 1 .. PageSize
        BY <1>1, <3>1
      <4>. QED BY <3>2, <4>1 DEF ProgramByte
    <3>. QED BY <1>5, <1>7, <3>3, <3>4 DEF PageOutcome
  <2>. QED BY <2>1, <2>2
<1>. QED BY <1>3, <1>6, <1>7, <1>8 DEF PageWritten

\* What the chain makes of a page is what the session expects.
LEMMA XcfProgramsPage ==
  ASSUME FilesInv, FlashTypes, ChainInv, NEW p \in OpenFiles, Writing(p), SessionOf(p), devtype = "V2P_9030",
         NEW data \in [1 .. PageSize -> Bytes], InArea(data), ProgramPage(data)
  PROVE  PageWritten(data)
<1>1. access_device = DEVICE_FLASH
  BY DEF FilesInv, OwnDevice, Writing
<1>2. PICK c \in XcfWrite(ChainWithFlash, data, xcf_data_pos) : flash' = c.memory /\ incomplete' = incomplete
  BY DEF ProgramPage
<1>3. IsMemory(flash) /\ IsPage(data) /\ xcf_data_pos \in Int
  <2>1. xcf_data_pos \in Nat
    BY SessionPosition
  <2>. QED BY <2>1 DEF FlashTypes, IsMemory, IsPage
<1>4. c.memory = WithBytes(flash, data, xcf_data_pos, PageSize)
  BY <1>1, <1>2, <1>3, XcfWritten
<1>. QED BY <1>2, <1>4, XcfProgrammed

\* Starting to program a V2P board erases all of its flash memory.
LEMMA XcfErased ==
  ASSUME FilesInv, FlashTypes, ChainInv, devtype = "V2P_9030",
         NEW started \in ProgStart(JtagOpen(ChainWithFlash, jtag_refcount)),
         NEW erase, erase = [memory |-> started.memory, failed |-> ~Valid(started), complete |-> TRUE]
  PROVE  AreaErased(flash, Base, AreaEnd, erase)
<1>1. PICK opened : opened = JtagOpen(ChainWithFlash, jtag_refcount)
  OBVIOUS
<1>2. Rests(opened) /\ opened.memory = flash
  BY <1>1, XcfOpened
<1>3. /\ ~Valid(started) => Keeps(opened, started, {})
      /\ Valid(started) => started.memory = [a \in DOMAIN opened.memory |-> Erased]
  <2>1. started \in ProgStart(opened)
    BY <1>1
  <2>. QED BY <1>2, <2>1, ProgStartFacts
<1>4. Base = 0 /\ AreaEnd = FlashSize
  BY DEF Base, AreaEnd
<1>5. PICK failed \in BOOLEAN : failed = ~Valid(started)
  OBVIOUS
<1>6. erase.memory = started.memory /\ erase.failed = failed /\ erase.complete = TRUE
  BY <1>5
<1>7. CASE failed
  <2>1. started.memory = flash
    BY <1>2, <1>3, <1>5, <1>7 DEF Keeps, Kept
  <2>2. IsMemory(flash)
    BY DEF FlashTypes, IsMemory
  <2>. QED BY <1>6, <1>7, <2>1, <2>2 DEF AreaErased
<1>8. CASE ~failed
  <2>1. started.memory = [a \in 0 .. FlashSize - 1 |-> Erased]
    BY <1>2, <1>3, <1>5, <1>8 DEF FlashTypes
  <2>2. IsMemory(started.memory)
    BY <2>1 DEF IsMemory
  <2>. QED BY <1>4, <1>6, <1>8, <2>1, <2>2 DEF AreaErased
<1>. QED BY <1>7, <1>8

\* A session for writing begins on a V2P board: all of the memory is erased.
LEMMA SessionOpenedXcf ==
  ASSUME FilesInv, FlashTypes, ChainInv, NEW p \in Processes, OpenXcfToWrite(p), FilesInv'
  PROVE  FlashTypes' /\ FlashHoldsImage' /\ OnlyArea /\ \A q \in OpenFiles' : Writing(q)' => SessionOf(q)'
<1>1. PICK started \in ProgStart(JtagOpen(ChainWithFlash, jtag_refcount)) :
        OpenToWrite(p, ~Valid(started), TRUE) /\ flash' = started.memory
  BY DEF OpenXcfToWrite
<1>2. PICK erase : erase = [memory |-> started.memory, failed |-> ~Valid(started), complete |-> TRUE]
  OBVIOUS
<1>3. devtype = "V2P_9030" /\ Opening(p, DEVICE_FLASH)
  BY DEF OpenXcfToWrite
<1>4. AreaErased(flash, Base, AreaEnd, erase)
  BY <1>2, <1>3, XcfErased
<1>5. flash' = erase.memory /\ OpenToWrite(p, erase.failed, erase.complete)
  BY <1>1, <1>2
<1>. QED BY <1>3, <1>4, <1>5, SessionBegun

-----------------------------------------------------------------------------
(* The steps of the flash memory.                                          *)

\* The next state has no session, and the memory is as it was.
LEMMA NoSession ==
  ASSUME FilesInv, FilesInv', FlashInv, UNCHANGED <<devtype, flash, image, erased, incomplete>>,
         \/ access_device' # DEVICE_FLASH \/ access_mode' = "O_RDONLY" \/ devtype = "V5_PCIE" \/ OpenFiles' = {}
  PROVE  FlashInv' /\ OnlyArea
<1>1. ASSUME NEW q \in OpenFiles', Writing(q)' PROVE FALSE
  <2>1. files'[q].minor = 1 /\ files'[q].mode = "O_WRONLY" /\ devtype # "V5_PCIE"
    BY <1>1 DEF Writing
  <2>2. access_device' = 1 /\ access_mode' = "O_WRONLY"
    BY <2>1 DEF FilesInv, OwnDevice
  <2>. QED BY <1>1, <2>1, <2>2
<1>2. Base' = Base
  BY DEF Base
<1>3. FlashTypes' /\ GoldenImageKept' /\ FlashHoldsImage'
  BY <1>2 DEF FlashInv, FlashTypes, GoldenImageKept, FlashHoldsImage
<1>. QED BY <1>1, <1>3 DEF FlashInv, OnlyArea

\* The golden image is outside of the area that changes.
LEMMA GoldenStep ==
  ASSUME FlashInv, OnlyArea, FlashTypes', devtype' = devtype
  PROVE  GoldenImageKept'
<1>. SUFFICES ASSUME devtype = "ECP3", NEW a \in 0 .. FlashSize - 1, a < PrimaryStart \/ a >= PrimaryEnd + SectorSize
              PROVE  flash'[a] = Old
  BY DEF GoldenImageKept, FlashTypes
<1>1. flash[a] = Old
  BY DEF FlashInv, FlashTypes, GoldenImageKept
<1>2. ~(Base <= a /\ a < AreaEnd)
  BY Sizes DEF Base, AreaEnd
<1>. QED BY <1>1, <1>2 DEF OnlyArea

LEMMA OpenFlashStep ==
  ASSUME FilesInv, FilesInv', FlashInv, ChainInv, NEW p \in Processes, Open(p), devtype' = devtype
  PROVE  FlashInv' /\ OnlyArea
<1>1. devtype' = devtype
  OBVIOUS
<1>2. ASSUME NEW mode \in Modes, NEW minor \in {DEVICE_EEPROM, DEVICE_FPGA}, OpenUnsupported(p, minor, mode)
      PROVE  FlashInv' /\ OnlyArea
  BY <1>1, <1>2, NoSession DEF OpenUnsupported, flashVars
<1>3. ASSUME NEW mode \in Modes, OpenEeprom(p, mode) PROVE FlashInv' /\ OnlyArea
  BY <1>1, <1>3, NoSession DEF OpenEeprom, Opened, NoneOpen, flashVars
<1>4. ASSUME NEW mode \in Modes, OpenFpga(p, mode) PROVE FlashInv' /\ OnlyArea
  BY <1>1, <1>4, NoSession DEF OpenFpga, Opened, NoneOpen, flashVars
<1>5. ASSUME NEW mode \in Modes, OpenFlashToMap(p, mode) PROVE FlashInv' /\ OnlyArea
  BY <1>1, <1>5, NoSession DEF OpenFlashToMap, flashVars
<1>6. ASSUME NEW mode \in Modes, OpenEv(p, mode) PROVE FlashInv' /\ OnlyArea
  BY <1>1, <1>6, NoSession DEF OpenEv, Opened, flashVars
<1>7. ASSUME OpenFlashToRead(p) PROVE FlashInv' /\ OnlyArea
  BY <1>1, <1>7, NoSession DEF OpenFlashToRead, Opened, flashVars
<1>8. ASSUME OpenFlashToWrite(p) PROVE FlashInv' /\ OnlyArea
  <2>1. FlashTypes' /\ FlashHoldsImage' /\ OnlyArea /\ \A q \in OpenFiles' : Writing(q)' => SessionOf(q)'
    BY <1>8, SessionOpened DEF FlashInv
  <2>. QED BY <1>1, <2>1, GoldenStep DEF FlashInv
<1>9. ASSUME OpenXcfToRead(p) PROVE FlashInv' /\ OnlyArea
  <2>1. access_mode' = "O_RDONLY" /\ UNCHANGED <<flash, image, erased, incomplete>>
    BY <1>9 DEF OpenXcfToRead, Opened, NoneOpen, flashVars
  <2>. QED BY <1>1, <2>1, NoSession
<1>10. ASSUME OpenXcfToWrite(p) PROVE FlashInv' /\ OnlyArea
  <2>1. FlashTypes' /\ FlashHoldsImage' /\ OnlyArea /\ \A q \in OpenFiles' : Writing(q)' => SessionOf(q)'
    BY <1>10, SessionOpenedXcf DEF FlashInv
  <2>. QED BY <1>1, <2>1, GoldenStep DEF FlashInv
<1>. QED BY <1>2, <1>3, <1>4, <1>5, <1>6, <1>7, <1>8, <1>9, <1>10 DEF Open

\* What is left of the session is programmed when the file is closed.
LEMMA ReleaseXcfSession ==
  ASSUME FilesInv, FlashInv, ChainInv, NEW p \in OpenFiles, ReleaseXcfWritten(p)
  PROVE  FlashInv' /\ OnlyArea
<1>1. /\ access_device = DEVICE_FLASH /\ devtype = "V2P_9030" /\ devtype' = devtype /\ access_mode = "O_WRONLY"
      /\ incomplete' = incomplete /\ erased' = erased /\ OpenFiles' = {}
  <2>1. Releasing(p, DEVICE_FLASH)
    BY DEF ReleaseXcfWritten
  <2>2. OpenFiles' = {}
    BY <2>1, ToolClosed DEF OpenFiles
  <2>. QED BY <2>1, <2>2 DEF ReleaseXcfWritten, Releasing
<1>2. Writing(p) /\ SessionOf(p)
  BY <1>1, OneSession DEF Writing, FlashInv
<1>3. PICK c \in Conf({JtagOpen(JtagRelease(d, jtag_refcount), JtagReleased) :
                         d \in ProgEnd(XcfWrite(ChainWithFlash, xcf_data, xcf_data_pos))}) : flash' = c.memory
  BY DEF ReleaseXcfWritten
<1>4. /\ FlashTypes /\ IsMemory(flash) /\ xcf_data_pos \in Int /\ opens \in Nat /\ IsPage(xcf_data) /\ InArea(xcf_data)
  <2>1. xcf_data_pos \in Nat
    BY <1>2, SessionPosition
  <2>. QED BY <1>2, <2>1 DEF FlashInv, FlashTypes, IsMemory, FilesInv, ControlTypes, SessionOf, IsPage
<1>5. flash' = WithBytes(flash, xcf_data, xcf_data_pos, PageSize)
  BY <1>1, <1>3, <1>4, XcfClosed
<1>6. PageWritten(xcf_data)
  BY <1>1, <1>2, <1>4, <1>5, XcfProgrammed
<1>7. ImageWritten(p)
  BY <1>1 DEF ReleaseXcfWritten, ImageWritten
<1>8. FlashTypes' /\ FlashHoldsImage' /\ OnlyArea
  BY <1>1, <1>2, <1>4, <1>6, <1>7, SessionClosed
<1>. QED BY <1>1, <1>8, GoldenStep DEF FlashInv

LEMMA ReleaseFlashStep ==
  ASSUME FilesInv, FilesInv', FlashInv, ChainInv, NEW p \in Processes, Release(p)
  PROVE  FlashInv' /\ OnlyArea
<1>0. p \in OpenFiles
  <2>1. ASSUME NEW device, Releasing(p, device) PROVE files[p] # Closed
    BY <2>1 DEF Releasing
  <2>. QED BY <2>1 DEF Release, ReleaseEeprom, ReleaseFpga, ReleaseXcfRead, ReleaseXcfWritten, ReleaseFlash, ReleaseEv,
         ReleaseInterrupted, OpenFiles
<1>1. ASSUME ReleaseEeprom(p) PROVE FlashInv' /\ OnlyArea
  BY <1>1, NoSession DEF ReleaseEeprom, Releasing, NoneOpen, accessVars, flashVars
<1>2. ASSUME ReleaseFpga(p) PROVE FlashInv' /\ OnlyArea
  BY <1>2, NoSession DEF ReleaseFpga, Releasing, NoneOpen, accessVars, flashVars
<1>3. ASSUME ReleaseEv(p) PROVE FlashInv' /\ OnlyArea
  <2>1. /\ access_device = DEVICE_EV /\ UNCHANGED <<devtype, flash, image, erased, incomplete>>
        /\ (NoneOpen \/ UNCHANGED accessVars)
    BY <1>3 DEF ReleaseEv, Releasing, flashVars
  <2>2. access_device' # DEVICE_FLASH
    BY <2>1 DEF NoneOpen, accessVars
  <2>. QED BY <2>1, <2>2, NoSession
<1>4. ASSUME ReleaseInterrupted(p) PROVE FlashInv' /\ OnlyArea
  <2>1. /\ UNCHANGED <<devtype, access_mode, access_device, flash, image, erased, incomplete>>
        /\ files' = [files EXCEPT ![p] = Closed]
    BY <1>4 DEF ReleaseInterrupted, accessVars, flashVars
  <2>2. CASE access_device = DEVICE_FLASH
    <3>1. OpenFiles' = {}
      BY <1>0, <2>1, <2>2, OneSession, ClosedFile
    <3>. QED BY <2>1, <3>1, NoSession
  <2>3. CASE access_device # DEVICE_FLASH
    BY <2>1, <2>3, NoSession
  <2>. QED BY <2>2, <2>3
<1>5. ASSUME ReleaseFlash(p) PROVE FlashInv' /\ OnlyArea
  <2>1. /\ access_device = DEVICE_FLASH /\ devtype' = devtype /\ devtype # "V2P_9030"
        /\ files' = [files EXCEPT ![p] = Closed] /\ access_device' = 0
    BY <1>5 DEF ReleaseFlash, Releasing, FlashReleased, NoneOpen
  <2>2. OpenFiles' = {}
    BY <1>0, <2>1, OneSession, ClosedFile
  <2>3. CASE access_mode = "O_WRONLY" /\ devtype # "V5_PCIE"
    <3>1. ProgramPage(xcf_data) /\ ImageWritten(p) /\ erased' = erased
      BY <1>5, <2>3 DEF ReleaseFlash
    <3>2. Writing(p) /\ SessionOf(p)
      BY <1>0, <2>1, <2>3, OneSession DEF Writing, FlashInv
    <3>3. PageWritten(xcf_data)
      BY <1>0, <2>1, <3>1, <3>2, ChipProgramsPage DEF SessionOf, FlashInv
    <3>4. FlashTypes' /\ FlashHoldsImage' /\ OnlyArea
      BY <1>0, <2>1, <3>1, <3>2, <3>3, SessionClosed DEF FlashInv
    <3>. QED BY <2>1, <2>2, <3>4, GoldenStep DEF FlashInv
  <2>4. CASE ~(access_mode = "O_WRONLY" /\ devtype # "V5_PCIE")
    <3>1. UNCHANGED <<flash, image, erased, incomplete>>
      BY <1>5, <2>4 DEF ReleaseFlash, flashVars
    <3>. QED BY <2>1, <2>2, <3>1, NoSession
  <2>. QED BY <2>3, <2>4
<1>6. ASSUME ReleaseXcfRead(p) PROVE FlashInv' /\ OnlyArea
  BY <1>6, NoSession DEF ReleaseXcfRead, Releasing, FlashReleased, NoneOpen, flashVars
<1>. QED BY <1>0, <1>1, <1>2, <1>3, <1>4, <1>5, <1>6, ReleaseXcfSession DEF Release

\* Every step keeps the image and changes only what it may.
LEMMA FlashStep ==
  ASSUME EepromAlone, FilesInv, PositionType, FlashInv, ChainInv, [Next]_vars
  PROVE  FlashInv' /\ OnlyArea /\ devtype' = devtype
<1>0. FilesInv'
  BY FilesStep
<1>1. CASE UNCHANGED vars
  <2>1. UNCHANGED <<devtype, flash, image, erased, incomplete, files, xcf_data, xcf_data_pos>>
    BY <1>1 DEF vars, flashVars, bufferVars
  <2>2. Base' = Base /\ AreaEnd' = AreaEnd /\ OpenFiles' = OpenFiles
    BY <2>1 DEF Base, AreaEnd, OpenFiles
  <2>3. FlashTypes' /\ GoldenImageKept' /\ FlashHoldsImage'
    BY <2>1, <2>2 DEF FlashInv, FlashTypes, GoldenImageKept, FlashHoldsImage
  <2>4. ASSUME NEW q \in OpenFiles', Writing(q)' PROVE SessionOf(q)'
    <3>1. q \in OpenFiles /\ Writing(q)
      BY <2>1, <2>2, <2>4 DEF Writing
    <3>2. SessionOf(q)
      BY <3>1 DEF FlashInv
    <3>. QED BY <2>1, <2>2, <3>2 DEF SessionOf, InArea, ErasedFrom, HoldsByte, NoImage
  <2>. QED BY <2>1, <2>3, <2>4 DEF FlashInv, OnlyArea
<1>2. CASE Rebind
  <2>1. UNCHANGED <<devtype, flash, image, erased, incomplete>> /\ access_device' = 0
    BY <1>2 DEF Rebind, NoneOpen, flashVars
  <2>. QED BY <1>0, <2>1, NoSession
<1>3. ASSUME NEW p \in Processes, Open(p) PROVE FlashInv' /\ OnlyArea /\ devtype' = devtype
  <2>1. devtype' = devtype
    BY DevtypeKept
  <2>. QED BY <1>0, <1>3, <2>1, OpenFlashStep
<1>4. ASSUME NEW p \in Processes, Read(p) PROVE FlashInv' /\ OnlyArea /\ devtype' = devtype
  <2>1. UNCHANGED <<devtype, flash, image, erased, incomplete, access_mode>>
    BY <1>4 DEF Read, flashVars, accessVars
  <2>2. access_mode = "O_RDONLY"
    BY <1>4, ReadFacts, OneSession
  <2>. QED BY <1>0, <2>1, <2>2, NoSession
<1>5. ASSUME NEW p \in Processes, Write(p) PROVE FlashInv' /\ OnlyArea /\ devtype' = devtype
  <2>0. devtype' = devtype
    BY <1>5 DEF Write
  <2>1. p \in OpenFiles /\ Writing(p) /\ OpenFiles = {p}
    BY <1>5, WriteFacts, OneSession DEF Writing
  <2>2. SessionOf(p) /\ FlashTypes
    BY <2>1 DEF FlashInv
  <2>3. \A data \in [1 .. PageSize -> Bytes] : InArea(data) /\ ProgramPage(data) => PageWritten(data)
    <3>1. CASE devtype = "V2P_9030"
      BY <2>1, <2>2, <3>1, XcfProgramsPage
    <3>2. CASE devtype # "V2P_9030"
      BY <2>1, <2>2, <3>2, ChipProgramsPage
    <3>. QED BY <3>1, <3>2
  <2>4. FlashTypes' /\ SessionOf(p)' /\ OnlyArea /\ image' = image
    BY <1>5, <2>1, <2>2, <2>3, WriteSession
  <2>5. GoldenImageKept'
    BY <2>0, <2>4, GoldenStep
  <2>6. image' = NoImage
    BY <2>2, <2>4 DEF SessionOf
  <2>7. FlashHoldsImage'
    <3>1. 0 .. image'.length - 1 = {}
      BY <2>6 DEF NoImage
    <3>. QED BY <3>1 DEF FlashHoldsImage
  <2>8. \A q \in OpenFiles' : q = p
    <3>1. \A q \in Processes \ {p} : files'[q] = files[q]
      BY <1>5, WriteFacts DEF FilesInv, ControlTypes
    <3>. QED BY <2>1, <3>1 DEF OpenFiles
  <2>. QED BY <2>0, <2>4, <2>5, <2>7, <2>8 DEF FlashInv
<1>6. ASSUME NEW p \in Processes, Release(p) PROVE FlashInv' /\ OnlyArea /\ devtype' = devtype
  <2>1. devtype' = devtype
    BY DevtypeKept
  <2>. QED BY <1>0, <1>6, <2>1, ReleaseFlashStep
<1>. QED BY <1>1, <1>2, <1>3, <1>4, <1>5, <1>6 DEF Next

-----------------------------------------------------------------------------
(* Theorems.                                                               *)

DriverInv == FilesInv /\ PositionType /\ FlashInv /\ ChainInv /\ Buffered /\ ReadSession /\ ReadsReturnFlash

LEMMA DriverInitInv == Init => DriverInv
<1>. SUFFICES ASSUME Init PROVE DriverInv
  OBVIOUS
<1>1. FilesInv
  BY FilesInitInv
<1>2. PositionType
  BY Sizes DEF Init, PositionType
<1>3. FlashTypes
  <2>1. flash \in [0 .. FlashSize - 1 -> Bytes]
    BY ByteFacts DEF Init
  <2>2. image \in [session : 0 .. MaxOpens, length : 0 .. MaxImage]
    BY DriverAssumption DEF Init, NoImage
  <2>. QED BY <2>1, <2>2 DEF Init, FlashTypes
<1>4. GoldenImageKept
  BY DEF Init, GoldenImageKept
<1>5. FlashHoldsImage
  BY DEF Init, FlashHoldsImage
<1>6. OpenFiles = {}
  BY DEF Init, OpenFiles
<1>7. Buffered /\ ReadSession
  BY <1>6 DEF Init, Buffered, BufferType, NoBuffer, ReadSession
<1>8. ReadsReturnFlash
  BY DEF Init, ReadsReturnFlash, NoRead
<1>. QED BY <1>1, <1>2, <1>3, <1>4, <1>5, <1>6, <1>7, <1>8, ChainInitInv DEF DriverInv, FlashInv

\* Every step keeps the invariant of the driver.
LEMMA DriverStep ==
  ASSUME EepromAlone, DriverInv, [Next]_vars
  PROVE  DriverInv' /\ OnlyArea
<1>1. FilesInv /\ PositionType /\ FlashInv /\ FlashTypes /\ ChainInv /\ Buffered /\ BufferType /\ ReadSession /\ ReadsReturnFlash
  BY DEF DriverInv, FlashInv, Buffered
<1>2. FilesInv' /\ PositionType'
  BY <1>1, FilesStep, PositionStep
<1>3. FlashInv' /\ OnlyArea
  BY <1>1, FlashStep
<1>4. ChainInv' /\ Buffered'
  BY <1>1, ChainStep, BufferedStep
<1>5. ReadSession' /\ ReadsReturnFlash'
  BY <1>1, ReadSessionStep
<1>. QED BY <1>2, <1>3, <1>4, <1>5 DEF DriverInv

\* "Only one minor device is allowed open at a time", but for the registers, as
\* long as nobody opens anything while the EEPROM of the board is open.
THEOREM OneMinorOpenHolds == ASSUME EepromAlone PROVE Spec => []OneMinorOpen
<1>1. DriverInv /\ [Next]_vars => DriverInv'
  BY DriverStep
<1>2. DriverInv => OneMinorOpen
  BY DEF DriverInv, FilesInv
<1>. QED BY <1>1, <1>2, DriverInitInv, PTL DEF Spec

\* If no release was interrupted, the references to the registers are those of
\* the open files, the interrupt handler goes with the last of them, and, when
\* all files are closed, access_device is that of no device, so that ev_open
\* denies none, with one exception: an open of the FPGA that the board does not
\* have leaves access_device at the FPGA, and ev_open denies every minor device
\* until the board is bound anew (ev_open, ev_release).
THEOREM ReleasedWhenClosedHolds == ASSUME EepromAlone PROVE Spec => []ReleasedWhenClosed
<1>1. DriverInv /\ [Next]_vars => DriverInv'
  BY DriverStep
<1>2. DriverInv => ReleasedWhenClosed
  <2>. SUFFICES ASSUME DriverInv PROVE ReleasedWhenClosed
    OBVIOUS
  <2>1. EvFiles = {p \in OpenFiles : files[p].minor = DEVICE_EV}
    BY ClosedFacts DEF EvFiles, OpenFiles
  <2>. QED BY <2>1 DEF DriverInv, FilesInv, References, ClosedAgain, ReleasedWhenClosed
<1>. QED BY <1>1, <1>2, DriverInitInv, PTL DEF Spec

\* No byte outside of the sectors of the primary image of an ECP3 board ever
\* changes, whatever is written, fails or is interrupted (ev_open, ev_release).
THEOREM GoldenImageKeptHolds == ASSUME EepromAlone PROVE Spec => []GoldenImageKept
<1>1. DriverInv /\ [Next]_vars => DriverInv'
  BY DriverStep
<1>2. DriverInv => GoldenImageKept
  BY DEF DriverInv, FlashInv
<1>. QED BY <1>1, <1>2, DriverInitInv, PTL DEF Spec

\* Every operation of an open file finds the device, the mode, the buffer and the
\* JTAG pins that the file was opened with, also after failed opens and releases
\* that were interrupted (ev_open, ev_release, jtag_9030_open).
THEOREM OperationsReachTheirDeviceHolds == ASSUME EepromAlone PROVE Spec => []OperationsReachTheirDevice
<1>1. DriverInv /\ [Next]_vars => DriverInv'
  BY DriverStep
<1>2. DriverInv => OperationsReachTheirDevice
  <2>. SUFFICES ASSUME DriverInv, NEW p \in OpenFiles
                PROVE  /\ access_device = files[p].minor
                       /\ access_device # DEVICE_EV => access_mode = files[p].mode
                       /\ access_device = DEVICE_FLASH /\ devtype # "V5_PCIE" => xcf_data # NoBuffer
                       /\ access_device = DEVICE_FPGA => fpga_conf_data
                       /\ access_device = DEVICE_EEPROM => eeprom_data
                       /\ UsesJtag => jtag_refcount > 0 /\ chain.driven
                       /\ UsesJtag /\ access_device = DEVICE_FLASH => chain.enabled # -1
    BY DEF OperationsReachTheirDevice
  <2>1. access_device = files[p].minor /\ (access_device # DEVICE_EV => access_mode = files[p].mode)
    BY DEF DriverInv, FilesInv, OwnDevice
  <2>2. /\ access_device = DEVICE_FLASH /\ devtype # "V5_PCIE" => xcf_data # NoBuffer
        /\ access_device = DEVICE_FPGA => fpga_conf_data
        /\ access_device = DEVICE_EEPROM => eeprom_data
    BY DEF DriverInv, Buffered
  <2>3. UsesJtag => jtag_refcount > 0 /\ chain.driven /\ (access_device = DEVICE_FLASH => chain.enabled # -1)
    BY DEF DriverInv, ChainInv
  <2>. QED BY <2>1, <2>2, <2>3
<1>. QED BY <1>1, <1>2, DriverInitInv, PTL DEF Spec

\* The image of a session that has been closed is in the flash memory, however it
\* was cut into writes and whether an SPI controller or the JTAG chain programs
\* it, until the flash memory is opened for writing again.  The bytes that a
\* program command that was cut short has not programmed are the only ones that
\* may be missing; they are erased, and the command says nothing about the other
\* pages.  The erase has to be executed completely (ev_write, ev_release,
\* flash_pageprogram).
THEOREM FlashHoldsImageHolds == ASSUME EepromAlone PROVE Spec => []FlashHoldsImage
<1>1. DriverInv /\ [Next]_vars => DriverInv'
  BY DriverStep
<1>2. DriverInv => FlashHoldsImage
  BY DEF DriverInv, FlashInv
<1>. QED BY <1>1, <1>2, DriverInitInv, PTL DEF Spec

\* After an erase that was executed completely a byte that is programmed has been
\* erased before, on every kind of board, also after a page that could not be
\* programmed (ev_open, ev_write, ev_release).
THEOREM OnlyErasedProgrammedHolds == ASSUME EepromAlone PROVE Spec => OnlyErasedProgrammed
<1>1. DriverInv /\ [Next]_vars => DriverInv'
  BY DriverStep
<1>2. DriverInv /\ [Next]_vars =>
        [\A a \in DOMAIN flash : erased => flash'[a] \in {flash[a], Erased} \/ flash[a] = Erased]_flash
  <2>. SUFFICES ASSUME DriverInv, [Next]_vars, erased, NEW a \in DOMAIN flash
                PROVE  flash'[a] \in {flash[a], Erased} \/ flash[a] = Erased
    OBVIOUS
  <2>1. OnlyArea /\ a \in 0 .. FlashSize - 1
    BY DriverStep DEF DriverInv, FlashInv, FlashTypes
  <2>. QED BY <2>1 DEF OnlyArea
<1>. QED BY <1>1, <1>2, DriverInitInv, PTL DEF Spec, OnlyErasedProgrammed

\* On a V2P board a read returns what is in the flash memory, and nothing that an
\* earlier session has left in the buffer or its position (ev_read).
THEOREM ReadsReturnFlashHolds == ASSUME EepromAlone PROVE Spec => []ReadsReturnFlash
<1>1. DriverInv /\ [Next]_vars => DriverInv'
  BY DriverStep
<1>2. DriverInv => ReadsReturnFlash
  BY DEF DriverInv
<1>. QED BY <1>1, <1>2, DriverInitInv, PTL DEF Spec

\* The invariant implies the types.
LEMMA DriverTypes == DriverInv => TypeOK
<1>. SUFFICES ASSUME DriverInv PROVE TypeOK
  OBVIOUS
<1>1. /\ devtype \in DevTypes /\ access_mode \in Modes /\ access_device \in DEVICE_EEPROM .. DEVICE_EV
      /\ refcount_ev \in 0 .. MaxOpens /\ opens \in 0 .. MaxOpens /\ interrupted \in 0 .. MaxInterrupted
  BY DriverAssumption DEF DriverInv, FilesInv, ControlTypes
<1>2. irqHandler \in BOOLEAN
  BY DEF DriverInv, FilesInv, ControlTypes
<1>3. files \in [Processes -> [minor : -1 .. DEVICE_EV, mode : Modes, session : 0 .. MaxOpens, pos : 0 .. FlashSize]]
  BY DEF DriverInv, FilesInv, ControlTypes, FileType
<1>4. chain.tap \in DOMAIN OnZero /\ chain.enabled \in -1 .. 255
  BY DEF DriverInv, ChainInv, AtRest, OnZero
<1>5. jtag_refcount \in 0 .. MaxOpens
  BY <1>1, DriverAssumption DEF DriverInv, ChainInv
<1>6. eeprom_data \in BOOLEAN /\ fpga_conf_data \in BOOLEAN
  BY DEF DriverInv, Buffered
<1>7. xcf_data = NoBuffer \/ xcf_data \in [1 .. PageSize -> Bytes]
  BY DEF DriverInv, Buffered, BufferType
<1>8. xcf_data_pos \in -1 .. FlashSize
  BY DEF DriverInv, PositionType
<1>9. flash \in [0 .. FlashSize - 1 -> Bytes] /\ image \in [session : 0 .. MaxOpens, length : 0 .. MaxImage]
  BY DEF DriverInv, FlashInv, FlashTypes
<1>10. erased \in BOOLEAN /\ incomplete \subseteq 0 .. FlashSize
  BY DEF DriverInv, FlashInv, FlashTypes
<1>11. lockedOut \in BOOLEAN
  BY DEF DriverInv, FilesInv, ControlTypes
<1>. QED BY <1>1, <1>2, <1>3, <1>4, <1>5, <1>6, <1>7, <1>8, <1>9, <1>10, <1>11, Zenon DEF TypeOK

-----------------------------------------------------------------------------
(* Boards and slots.                                                       *)

\* A slot that is in use belongs to a board, whose address no slot before it has.
SlotOf(b, s) == SlotAt(address[b], s) /\ subsys_id[s] /\ mapped[s] /\ registered[s]

PluggedDiffer ==
  \A b, c \in Boards : address[b] # NoAddress /\ address[b] = address[c] => b = c

BoundHaveSlots == \A b \in bound : address[b] # NoAddress /\ \E s \in Slots : SlotOf(b, s)

UsedHaveBoards == \A s \in Slots : subsys_id[s] => \E b \in bound : SlotOf(b, s)

SlotsInv == SlotsTypeOK /\ PluggedDiffer /\ BoundHaveSlots /\ UsedHaveBoards

\* Two slots cannot both be the first one with an address.
LEMMA SlotAtUnique ==
  ASSUME NEW a, NEW s \in Slots, NEW t \in Slots, SlotAt(a, s), SlotAt(a, t)
  PROVE  s = t
  BY DEF SlotAt, First, Slots

LEMMA SlotsInitInv == SlotsInit => SlotsInv
  BY DEF SlotsInit, SlotsInv, SlotsTypeOK, PluggedDiffer, BoundHaveSlots, UsedHaveBoards

\* A slot keeps its board if nothing changes about either and no slot before it
\* gets the address.
LEMMA SlotOfKept ==
  ASSUME NEW b \in Boards, NEW s \in Slots, SlotOf(b, s),
         address'[b] = address[b], BAR_start'[s] = BAR_start[s],
         subsys_id'[s] = subsys_id[s], mapped'[s] = mapped[s], registered'[s] = registered[s],
         \A t \in Slots : BAR_start'[t] = BAR_start[t] \/ BAR_start'[t] # address[b]
  PROVE  SlotOf(b, s)'
  <1>1. BAR_start'[s] = address'[b]
    BY DEF SlotOf, SlotAt, First
  <1>2. \A t \in Slots : BAR_start'[t] = address'[b] => s <= t
    BY DEF SlotOf, SlotAt, First
  <1>3. s \in {t \in Slots : BAR_start'[t] = address'[b]}
    BY <1>1
  <1> QED
    BY <1>2, <1>3 DEF SlotOf, SlotAt, First

LEMMA PlugInv ==
  ASSUME SlotsInv, NEW b \in Boards, NEW a \in Addresses, Plug(b, a)
  PROVE  SlotsInv'
  <1> USE DEF SlotsInv
  <1>1. SlotsTypeOK'
    BY DEF Plug, slotVars, SlotsTypeOK
  <1>2. PluggedDiffer'
    BY DEF Plug, PluggedDiffer, SlotsTypeOK
  <1>3. b \notin bound
    BY DEF Plug, BoundHaveSlots
  <1>4. ASSUME NEW c \in bound PROVE c \in Boards /\ address'[c] = address[c]
    BY <1>3 DEF Plug, SlotsTypeOK
  <1>5. ASSUME NEW c \in bound, NEW s \in Slots, SlotOf(c, s) PROVE SlotOf(c, s)'
    BY <1>4, <1>5, SlotOfKept DEF Plug, slotVars
  <1>6. BoundHaveSlots'
    BY <1>4, <1>5 DEF Plug, BoundHaveSlots
  <1>7. UsedHaveBoards'
    BY <1>5 DEF Plug, slotVars, UsedHaveBoards
  <1> QED
    BY <1>1, <1>2, <1>6, <1>7

LEMMA UnplugInv ==
  ASSUME SlotsInv, NEW b \in Boards, Unplug(b)
  PROVE  SlotsInv'
  <1> USE DEF SlotsInv
  <1>1. SlotsTypeOK'
    BY DEF Unplug, slotVars, SlotsTypeOK
  <1>2. PluggedDiffer'
    BY DEF Unplug, PluggedDiffer, SlotsTypeOK
  <1>4. ASSUME NEW c \in bound PROVE c \in Boards /\ address'[c] = address[c]
    BY DEF Unplug, SlotsTypeOK
  <1>5. ASSUME NEW c \in bound, NEW s \in Slots, SlotOf(c, s) PROVE SlotOf(c, s)'
    BY <1>4, <1>5, SlotOfKept DEF Unplug, slotVars
  <1>6. BoundHaveSlots'
    BY <1>4, <1>5 DEF Unplug, BoundHaveSlots
  <1>7. UsedHaveBoards'
    BY <1>5 DEF Unplug, slotVars, UsedHaveBoards
  <1> QED
    BY <1>1, <1>2, <1>6, <1>7

LEMMA ProbeFailsInv ==
  ASSUME SlotsInv, NEW b \in Boards, NEW s \in Slots, ProbeFails(b, s)
  PROVE  SlotsInv'
  <1> USE DEF SlotsInv
  <1>1. SlotsTypeOK'
    BY DEF ProbeFails, Probing, SlotsTypeOK
  <1>2. PluggedDiffer'
    BY DEF ProbeFails, Probing, PluggedDiffer
  <1>3. ~subsys_id[s]
    BY DEF ProbeFails, Probing, FreeSlot, First
  <1>5. ASSUME NEW c \in bound, NEW t \in Slots, SlotOf(c, t) PROVE SlotOf(c, t)'
    <2>1. t # s /\ c \in Boards
      BY <1>3, <1>5 DEF SlotOf, SlotsTypeOK
    <2>2. registered'[t] = registered[t]
      BY <2>1 DEF ProbeFails, Probing, SlotsTypeOK
    <2> QED
      BY <1>5, <2>1, <2>2, SlotOfKept DEF ProbeFails, Probing
  <1>6. BoundHaveSlots'
    BY <1>5 DEF ProbeFails, Probing, BoundHaveSlots
  <1>7. UsedHaveBoards'
    BY <1>5 DEF ProbeFails, Probing, UsedHaveBoards
  <1> QED
    BY <1>1, <1>2, <1>6, <1>7

LEMMA ProbeInv ==
  ASSUME SlotsInv, NEW b \in Boards, NEW s \in Slots, Probe(b, s)
  PROVE  SlotsInv'
  <1> USE DEF SlotsInv
  <1>a. /\ address' = address /\ address[b] # NoAddress /\ b \notin bound
        /\ bound' = bound \cup {b}
        /\ ~subsys_id[s] /\ \A t \in Slots : ~subsys_id[t] => s <= t
    BY DEF Probe, Probing, FreeSlot, First
  <1>b. /\ subsys_id' = [subsys_id EXCEPT ![s] = TRUE]
        /\ BAR_start' = [BAR_start EXCEPT ![s] = address[b]]
        /\ mapped' = [mapped EXCEPT ![s] = TRUE]
        /\ registered' = [registered EXCEPT ![s] = TRUE]
    BY DEF Probe, Probing
  <1>1. SlotsTypeOK'
    BY <1>a, <1>b DEF SlotsTypeOK
  <1>2. PluggedDiffer'
    BY <1>a DEF PluggedDiffer
  <1>3. ASSUME NEW c \in bound PROVE c \in Boards /\ address[c] # address[b]
    BY <1>a DEF SlotsTypeOK, PluggedDiffer
  \* The slots before this one are in use by other boards.
  <1>4. ASSUME NEW t \in Slots, BAR_start'[t] = address[b] PROVE s <= t
    <2>1. CASE t = s
      BY <2>1 DEF Slots
    <2>2. CASE t # s
      <3>1. BAR_start[t] = address[b]
        BY <1>4, <1>b, <2>2 DEF SlotsTypeOK
      <3>2. CASE subsys_id[t]
        BY <3>1, <3>2, <1>3 DEF UsedHaveBoards, SlotOf, SlotAt, First
      <3> QED
        BY <3>2, <1>a
    <2> QED
      BY <2>1, <2>2
  <1>5. SlotOf(b, s)'
    <2>1. subsys_id'[s] /\ mapped'[s] /\ registered'[s] /\ BAR_start'[s] = address'[b]
      BY <1>a, <1>b DEF SlotsTypeOK
    <2> QED
      BY <2>1, <1>4, <1>a DEF SlotOf, SlotAt, First
  <1>6. ASSUME NEW c \in bound, NEW t \in Slots, SlotOf(c, t) PROVE SlotOf(c, t)'
    <2>1. t # s /\ c \in Boards /\ address[c] # address[b]
      BY <1>3, <1>6, <1>a DEF SlotOf
    <2>2. /\ BAR_start'[t] = BAR_start[t] /\ subsys_id'[t] = subsys_id[t]
          /\ mapped'[t] = mapped[t] /\ registered'[t] = registered[t]
      BY <1>b, <2>1 DEF SlotsTypeOK
    <2>3. \A u \in Slots : BAR_start'[u] = BAR_start[u] \/ BAR_start'[u] # address[c]
      BY <1>b, <2>1 DEF SlotsTypeOK
    <2> QED
      BY <1>6, <1>a, <2>1, <2>2, <2>3, SlotOfKept
  <1>7. BoundHaveSlots'
    BY <1>a, <1>5, <1>6 DEF BoundHaveSlots
  <1>8. UsedHaveBoards'
    <2> SUFFICES ASSUME NEW t \in Slots, subsys_id'[t] PROVE \E c \in bound' : SlotOf(c, t)'
      BY DEF UsedHaveBoards
    <2>1. CASE t = s
      BY <1>5, <1>a, <2>1
    <2>2. CASE t # s
      <3>1. subsys_id[t]
        BY <1>b, <2>2 DEF SlotsTypeOK
      <3> QED
        BY <3>1, <1>6, <1>a DEF UsedHaveBoards
    <2> QED
      BY <2>1, <2>2
  <1> QED
    BY <1>1, <1>2, <1>7, <1>8

LEMMA RemoveInv ==
  ASSUME SlotsInv, NEW b \in Boards, NEW s \in Slots, Remove(b, s)
  PROVE  SlotsInv'
  <1> USE DEF SlotsInv
  <1>a. /\ address' = address /\ BAR_start' = BAR_start /\ bound' = bound \ {b}
        /\ subsys_id' = [subsys_id EXCEPT ![s] = FALSE]
        /\ mapped' = [mapped EXCEPT ![s] = FALSE]
        /\ registered' = [registered EXCEPT ![s] = FALSE]
        /\ SlotAt(address[b], s)
    BY DEF Remove
  <1>1. SlotsTypeOK'
    BY <1>a DEF SlotsTypeOK
  <1>2. PluggedDiffer'
    BY <1>a DEF PluggedDiffer
  <1>3. ASSUME NEW c \in bound', NEW t \in Slots, SlotOf(c, t) PROVE SlotOf(c, t)'
    <2>1. c \in Boards /\ c # b /\ address[c] # address[b]
      BY <1>a DEF SlotsTypeOK, BoundHaveSlots, PluggedDiffer
    <2>2. t # s
      BY <2>1, <1>3, <1>a DEF SlotOf, SlotAt, First
    <2>3. subsys_id'[t] = subsys_id[t] /\ mapped'[t] = mapped[t] /\ registered'[t] = registered[t]
      BY <1>a, <2>2 DEF SlotsTypeOK
    <2> QED
      BY <1>3, <1>a, <2>1, <2>3, SlotOfKept
  <1>4. BoundHaveSlots'
    BY <1>a, <1>3 DEF BoundHaveSlots
  <1>5. UsedHaveBoards'
    <2> SUFFICES ASSUME NEW t \in Slots, subsys_id'[t] PROVE \E c \in bound' : SlotOf(c, t)'
      BY DEF UsedHaveBoards
    <2>1. t # s /\ subsys_id[t]
      BY <1>a DEF SlotsTypeOK
    <2>2. PICK c \in bound : SlotOf(c, t)
      BY <2>1 DEF UsedHaveBoards
    <2>3. c # b
      BY <2>1, <2>2, <1>a, SlotAtUnique DEF SlotOf
    <2> QED
      BY <2>2, <2>3, <1>a, <1>3
  <1> QED
    BY <1>1, <1>2, <1>4, <1>5

LEMMA SlotsStepInv == SlotsInv /\ [SlotsNext]_slotsVars => SlotsInv'
  <1> SUFFICES ASSUME SlotsInv, [SlotsNext]_slotsVars PROVE SlotsInv'
    OBVIOUS
  <1>1. CASE UNCHANGED slotsVars
    BY <1>1 DEF slotsVars, slotVars, SlotsInv, SlotsTypeOK, PluggedDiffer, BoundHaveSlots,
                UsedHaveBoards, SlotOf, SlotAt, First
  <1>2. ASSUME NEW b \in Boards, NEW a \in Addresses, Plug(b, a) PROVE SlotsInv'
    BY <1>2, PlugInv
  <1>3. ASSUME NEW b \in Boards, Unplug(b) PROVE SlotsInv'
    BY <1>3, UnplugInv
  <1>4. ASSUME NEW b \in Boards, NEW s \in Slots, Probe(b, s) PROVE SlotsInv'
    BY <1>4, ProbeInv
  <1>5. ASSUME NEW b \in Boards, NEW s \in Slots, ProbeFails(b, s) PROVE SlotsInv'
    BY <1>5, ProbeFailsInv
  <1>6. ASSUME NEW b \in Boards, NEW s \in Slots, Remove(b, s) PROVE SlotsInv'
    BY <1>6, RemoveInv
  <1> QED
    BY <1>1, <1>2, <1>3, <1>4, <1>5, <1>6 DEF SlotsNext

LEMMA SlotsInvMatches == SlotsInv => SlotsMatchBoards
  <1> SUFFICES ASSUME SlotsInv PROVE SlotsMatchBoards
    OBVIOUS
  <1>1. ASSUME NEW s \in Slots, subsys_id[s]
        PROVE  \E b \in bound : address[b] = BAR_start[s] /\ SlotAt(address[b], s)
    BY <1>1 DEF SlotsInv, UsedHaveBoards, SlotOf, SlotAt, First
  <1>2. ASSUME NEW b \in bound
        PROVE  \E s \in Slots : SlotAt(address[b], s) /\ subsys_id[s] /\ mapped[s] /\ registered[s]
    BY DEF SlotsInv, BoundHaveSlots, SlotOf
  <1> QED
    BY <1>1, <1>2 DEF SlotsMatchBoards

\* The fields of the slots and the addresses of the boards have their types.
THEOREM SlotsTypeOKHolds == SlotsSpec => []SlotsTypeOK
  <1>1. SlotsInv => SlotsTypeOK
    BY DEF SlotsInv
  <1> QED
    BY <1>1, SlotsInitInv, SlotsStepInv, PTL DEF SlotsSpec

\* However many boards come and go, and whichever of them cannot be enabled:
\* remove finds the slot that probe has used for the board, and no slot that is
\* in use is without a board.
THEOREM SlotsMatchBoardsHolds == SlotsSpec => []SlotsMatchBoards
  BY SlotsInitInv, SlotsStepInv, SlotsInvMatches, PTL DEF SlotsSpec

\* What the files of the first board and the slots of all boards share has its
\* types, in particular the references to the JTAG pins never leave their range.
THEOREM TypesOKHolds == ASSUME EepromAlone PROVE MCSpec => []TypesOK
  <1>1. MCInit => DriverInv /\ SlotsInv
    BY DriverInitInv, SlotsInitInv DEF MCInit
  <1>2. [MCNext]_<<vars, slotsVars>> => [Next]_vars /\ [SlotsNext]_slotsVars
    BY DEF MCNext
  <1>3. DriverInv /\ SlotsInv /\ [MCNext]_<<vars, slotsVars>> => (DriverInv /\ SlotsInv)'
    BY <1>2, DriverStep, SlotsStepInv
  <1>4. DriverInv /\ SlotsInv => TypesOK
    BY DriverTypes DEF TypesOK, SlotsInv
  <1> QED
    BY <1>1, <1>3, <1>4, PTL DEF MCSpec
=============================================================================
