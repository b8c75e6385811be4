---------------------------- MODULE KernelDriver ----------------------------
(***************************************************************************)
(* The character device of the mrf-pci kernel driver: what open, release,  *)
(* read and write do to the state that the files of a board share.  Four   *)
(* minor devices belong to a board; each operation finds out from          *)
(* access_device, not from its file, which of them it is about.  All of    *)
(* them hold the semaphore from the beginning to the end, so that each is  *)
(* one step; an open that is denied, and an operation whose wait for the   *)
(* semaphore is interrupted, change nothing, except that a release which   *)
(* is interrupted closes the file without telling the driver.              *)
(*                                                                         *)
(* The contents of the EEPROM and the FPGA are left out, and so is what    *)
(* loads the FPGA through the JTAG pins; the flash memory is modelled byte *)
(* by byte, since pages, image and sectors have different boundaries.  It  *)
(* is reached through SpiFlash, on a V2P board through JtagChain.  Files   *)
(* are read and written from the start to the end, as dd does.  What the   *)
(* interrupt handler does is in MmapMemoryAccess.                          *)
(***************************************************************************)
EXTENDS SpiFlash, JtagChain

CONSTANTS
  Processes,
  DevTypes,       \* the kinds of boards
  EepromAlone,    \* nobody opens anything while the EEPROM of a board is open
  MaxImage,       \* bound on the bytes that are written to the flash memory
  MaxOpens,       \* bound on the files that are opened
  MaxInterrupted  \* bound on the releases that are interrupted

DEVICE_EEPROM == 0
DEVICE_FLASH == 1
DEVICE_FPGA == 2
DEVICE_EV == 3

\* dd and cat open a file to read or to write, and MrfMmapMemoryAccess.cpp opens
\* the registers to do both.  A flash memory that is opened to do both is not
\* modelled, except where it is mapped.
Modes == {"O_RDONLY", "O_WRONLY", "O_RDWR"}
PLX == {"V2P_9030", "V5_9056"}

ASSUME DriverAssumption ==
  /\ DevTypes \subseteq PLX \cup {"V5_PCIE", "ECP3", "K7_PCIE"}
  /\ EepromAlone \in BOOLEAN
  /\ IsFiniteSet(Processes)
  /\ {MaxImage, MaxOpens, MaxInterrupted} \subseteq Nat
  \* The image fits into the sectors that are erased, and a page into blocks.
  /\ PrimaryStart + MaxImage <= PrimaryEnd + SectorSize
  /\ PageSize % BlockSize = 0

VARIABLES
  devtype,         \* never changes
  access_mode,
  access_device,
  refcount_ev,
  jtag_refcount,
  eeprom_data,     \* the buffer is allocated
  fpga_conf_data,  \* the buffer is allocated
  xcf_data,        \* the buffer, <<>> if it is not allocated
  xcf_data_pos,
  chain,           \* the JTAG chain, without the contents of the flash memory
  irqHandler,      \* the interrupt handler is registered
  files,           \* what each process has open
  flash,
  image,           \* what the last session has written, if it has been closed
  erased,          \* the erase before that session was executed completely
  incomplete,      \* the pages that were not programmed completely in that session
  lockedOut,       \* an open of the FPGA has failed since the driver found the board
  returned,        \* what the last step has returned, if it was a read
  opens,           \* files opened so far
  interrupted      \* releases interrupted so far

accessVars == <<access_mode, access_device, lockedOut>>
jtagVars == <<jtag_refcount, chain>>
eventVars == <<refcount_ev, irqHandler>>
bufferVars == <<eeprom_data, fpga_conf_data, xcf_data, xcf_data_pos>>
flashVars == <<flash, image, erased, incomplete>>
boundVars == <<opens, interrupted>>
vars == <<devtype, accessVars, jtagVars, eventVars, bufferVars, files, flashVars, returned, boundVars>>

\* Contents of the flash memory; byte i of the image of session s is Byte(s, i).
Zero == -2
Old == -3
Byte(session, i) == session * (MaxImage + 1) + i
Bytes == Garbled .. Byte(MaxOpens, MaxImage)

NoBuffer == <<>>
NoImage == [session |-> 0, length |-> 0]
NoRead == [pos |-> 0, data |-> <<>>]
Closed == [minor |-> -1, mode |-> "O_RDONLY", session |-> 0, pos |-> 0]

TypeOK ==
  /\ devtype \in DevTypes
  /\ access_mode \in Modes
  /\ access_device \in DEVICE_EEPROM .. DEVICE_EV
  /\ refcount_ev \in 0 .. MaxOpens
  /\ jtag_refcount \in 0 .. MaxOpens
  /\ eeprom_data \in BOOLEAN /\ fpga_conf_data \in BOOLEAN /\ irqHandler \in BOOLEAN
  /\ chain.tap \in DOMAIN OnZero /\ chain.enabled \in -1 .. 255
  /\ xcf_data = NoBuffer \/ xcf_data \in [1 .. PageSize -> Bytes]
  /\ xcf_data_pos \in -1 .. FlashSize
  /\ files \in [Processes -> [minor : -1 .. DEVICE_EV, mode : Modes,
                              session : 0 .. MaxOpens, pos : 0 .. FlashSize]]
  /\ flash \in [0 .. FlashSize - 1 -> Bytes]
  /\ image \in [session : 0 .. MaxOpens, length : 0 .. MaxImage]
  /\ erased \in BOOLEAN /\ lockedOut \in BOOLEAN
  /\ incomplete \subseteq 0 .. FlashSize
  /\ opens \in 0 .. MaxOpens
  /\ interrupted \in 0 .. MaxInterrupted

\* pci_evr_probe and pci_evg_probe.
Init ==
  /\ devtype \in DevTypes
  /\ access_mode = "O_RDONLY"   \* 0
  /\ access_device = 0
  /\ refcount_ev = 0
  /\ jtag_refcount = 0
  /\ chain = IdleChain
  /\ eeprom_data = FALSE
  /\ fpga_conf_data = FALSE
  /\ xcf_data = NoBuffer
  /\ xcf_data_pos = -1
  /\ irqHandler = FALSE
  /\ files = [p \in Processes |-> Closed]
  /\ flash = [a \in 0 .. FlashSize - 1 |-> Old]
  /\ image = NoImage
  /\ erased = FALSE
  /\ incomplete = {}
  /\ lockedOut = FALSE
  /\ returned = NoRead
  /\ opens = 0
  /\ interrupted = 0

-----------------------------------------------------------------------------
(* ev_open.                                                                *)

\* Faulty variant, for testing OperationsReachTheirDevice: only another device
\* than the registers keeps the registers from being opened.
AllowedWithRegisters(minor) == ~(access_device > 0 /\ access_device < DEVICE_EV)

Allowed(minor) ==
  /\ ~(access_device > 0 /\ access_device < DEVICE_EV)
  /\ ~(access_device = DEVICE_EV /\ minor # DEVICE_EV)

Opening(p, minor) ==
  /\ files[p] = Closed
  /\ EepromAlone => \A q \in Processes : files[q].minor # DEVICE_EEPROM
  /\ opens < MaxOpens
  /\ Allowed(minor)
  /\ opens' = opens + 1
  /\ returned' = NoRead
  /\ UNCHANGED <<devtype, interrupted>>

Opened(p, minor, mode) ==
  /\ access_mode' = mode
  /\ access_device' = minor
  /\ UNCHANGED lockedOut
  /\ files' = [files EXCEPT ![p] = [minor |-> minor, mode |-> mode, session |-> opens + 1, pos |-> 0]]

NoneOpen ==
  /\ access_mode' = "O_RDONLY"
  /\ access_device' = 0
  /\ UNCHANGED lockedOut

\* -ENXIO leaves the two fields as they are set by then: no minor device can be
\* opened after the FPGA, until the board is bound anew.
OpenUnsupported(p, minor, mode) ==
  /\ devtype \notin PLX
  /\ Opening(p, minor)
  /\ access_mode' = mode
  /\ access_device' = minor
  /\ lockedOut' = (lockedOut \/ minor = DEVICE_FPGA)
  /\ UNCHANGED <<jtagVars, eventVars, bufferVars, files, flashVars>>

OpenEeprom(p, mode) ==
  /\ devtype \in PLX
  /\ Opening(p, DEVICE_EEPROM)
  /\ \/ Opened(p, DEVICE_EEPROM, mode) /\ eeprom_data' = TRUE
     \/ mode = "O_RDONLY" /\ NoneOpen /\ eeprom_data' = FALSE /\ UNCHANGED files
  /\ UNCHANGED <<jtagVars, eventVars, fpga_conf_data, xcf_data, xcf_data_pos, flashVars>>

\* The pins are opened and released.
JtagUsed ==
  /\ chain' = JtagRelease(JtagOpen(chain, jtag_refcount), jtag_refcount + 1)
  /\ UNCHANGED jtag_refcount

\* The JTAG pins are released at once if the status is read or if the load of
\* the FPGA cannot be initialized; on a V5_9056 board that has no error code if
\* the FPGA does not get ready.  It cannot be opened to read and write.
OpenFpga(p, mode) ==
  /\ devtype \in PLX
  /\ Opening(p, DEVICE_FPGA)
  /\ \/ /\ Opened(p, DEVICE_FPGA, mode)
        /\ fpga_conf_data' = TRUE
        /\ \/ /\ mode = "O_WRONLY"
              /\ jtag_refcount' = jtag_refcount + 1
              /\ chain' = JtagOpen(chain, jtag_refcount)
           \/ mode = "O_RDONLY" /\ JtagUsed
           \/ mode = "O_WRONLY" /\ devtype = "V5_9056" /\ JtagUsed
     \/ /\ NoneOpen
        /\ fpga_conf_data' = FALSE
        /\ IF mode = "O_RDWR" THEN UNCHANGED jtagVars ELSE JtagUsed
        /\ UNCHANGED files
  /\ UNCHANGED <<eventVars, eeprom_data, xcf_data, xcf_data_pos, flashVars>>

\* Faulty variant, for testing GoldenImageKept: all boards are written from 0.
BaseOfAll == 0

\* ECP3 boards keep the golden image outside of the sectors that are erased.
Base == IF devtype = "ECP3" THEN PrimaryStart ELSE 0

FreshBuffer == [i \in 1 .. PageSize |-> IF devtype = "V2P_9030" THEN Erased ELSE Zero]

ChainWithFlash == [chain EXCEPT !.memory = flash]
WithoutFlash(c) == [c EXCEPT !.memory = <<>>, !.out = <<>>, !.pieces = <<>>]

\* Faulty variant, for testing ReadsReturnFlash: the position stays that of the
\* last session.
PositionKept == xcf_data_pos

\* Not a position: the first read has to fill the buffer.
NoPosition == -1

\* On a V2P board reading has to be started, which fails if the devices of the
\* chain are not recognized.
OpenXcfToRead(p) ==
  /\ devtype = "V2P_9030"
  /\ Opening(p, DEVICE_FLASH)
  /\ \E started \in ReadStart(JtagOpen(ChainWithFlash, jtag_refcount)) :
       IF Valid(started)
         THEN /\ Opened(p, DEVICE_FLASH, "O_RDONLY")
              /\ xcf_data' = FreshBuffer
              /\ xcf_data_pos' = NoPosition
              /\ jtag_refcount' = jtag_refcount + 1
              /\ chain' = WithoutFlash(started)
         ELSE /\ NoneOpen
              /\ xcf_data' = NoBuffer
              /\ xcf_data_pos' = 0
              /\ chain' = WithoutFlash(JtagRelease(started, jtag_refcount + 1))
              /\ UNCHANGED <<jtag_refcount, files>>
  /\ UNCHANGED <<eventVars, eeprom_data, fpga_conf_data, flashVars>>

\* The position stays that of the last session.
OpenFlashToRead(p) ==
  /\ devtype \notin {"V2P_9030", "V5_PCIE"}
  /\ Opening(p, DEVICE_FLASH)
  /\ Opened(p, DEVICE_FLASH, "O_RDONLY")
  /\ xcf_data' = FreshBuffer
  /\ UNCHANGED <<xcf_data_pos, jtagVars, eventVars, eeprom_data, fpga_conf_data, flashVars>>

OpenToWrite(p, failed, complete) ==
  /\ xcf_data_pos' = 0
  /\ image' = NoImage
  /\ erased' = (complete /\ ~failed)
  /\ incomplete' = {}
  /\ IF failed THEN NoneOpen /\ xcf_data' = NoBuffer /\ UNCHANGED files
               ELSE Opened(p, DEVICE_FLASH, "O_WRONLY") /\ xcf_data' = FreshBuffer
  /\ UNCHANGED <<eventVars, eeprom_data, fpga_conf_data>>

\* If programming cannot be started the pins are not released.
OpenXcfToWrite(p) ==
  /\ devtype = "V2P_9030"
  /\ Opening(p, DEVICE_FLASH)
  /\ \E started \in ProgStart(JtagOpen(ChainWithFlash, jtag_refcount)) :
       /\ OpenToWrite(p, ~Valid(started), TRUE)
       /\ flash' = started.memory
       /\ chain' = WithoutFlash(started)
  /\ jtag_refcount' = jtag_refcount + 1

OpenFlashToWrite(p) ==
  /\ devtype \notin {"V2P_9030", "V5_PCIE"}
  /\ Opening(p, DEVICE_FLASH)
  /\ \E erase \in IF devtype = "ECP3" THEN PrimaryErase(flash) ELSE BulkErase(flash) :
       OpenToWrite(p, erase.failed, erase.complete) /\ flash' = erase.memory
  /\ UNCHANGED jtagVars

\* The flash memory of a V5_PCIE board is mapped, and neither read nor written.
OpenFlashToMap(p, mode) ==
  /\ devtype = "V5_PCIE"
  /\ Opening(p, DEVICE_FLASH)
  /\ Opened(p, DEVICE_FLASH, mode)
  /\ UNCHANGED <<jtagVars, eventVars, bufferVars, flashVars>>

\* A failure to register the handler is ignored.
OpenEv(p, mode) ==
  /\ Opening(p, DEVICE_EV)
  /\ Opened(p, DEVICE_EV, mode)
  /\ refcount_ev' = refcount_ev + 1
  /\ IF refcount_ev = 0 THEN irqHandler' \in BOOLEAN ELSE UNCHANGED irqHandler
  /\ UNCHANGED <<jtagVars, bufferVars, flashVars>>

-----------------------------------------------------------------------------
(* ev_read and ev_write of the flash memory.                               *)

PageOf(pos) == pos - (pos % PageSize)
BytesTo(count, pos, start) == SmallerOf(count, start + PageSize - pos)

\* What the step needs; without a buffer the kernel would stop.
FlashFile(p) ==
  /\ files[p] # Closed
  /\ access_device = DEVICE_FLASH /\ devtype # "V5_PCIE"
  /\ xcf_data # NoBuffer

\* The buffer and the chain after the page has been read; a failure of
\* flash_fastread is ignored.
PageRead(page) ==
  IF page = xcf_data_pos THEN {[data |-> xcf_data, chain |-> chain]}
  ELSE IF devtype = "V2P_9030"
    THEN {[data |-> SubSeq(c.out, 1, PageSize), chain |-> WithoutFlash(c)] :
            c \in XcfRead(ChainWithFlash, page, PageSize)}
    ELSE {[data |-> buffer, chain |-> chain] : buffer \in FastRead(flash, xcf_data, Base + page)}

Read(p) ==
  /\ FlashFile(p) /\ files[p].mode = "O_RDONLY"
  /\ LET pos == files[p].pos
         page == PageOf(pos)
     IN  /\ Base + page + PageSize <= FlashSize
         /\ \E count \in 1 .. PageSize, read \in PageRead(page) :
              LET n == BytesTo(count, pos, page)
              IN  /\ xcf_data' = read.data
                  /\ chain' = read.chain
                  /\ xcf_data_pos' = page
                  /\ files' = [files EXCEPT ![p].pos = pos + n]
                  /\ returned' = [pos |-> pos, data |-> SubSeq(read.data, pos - page + 1, pos - page + n)]
  /\ UNCHANGED <<devtype, accessVars, jtag_refcount, eventVars, eeprom_data, fpga_conf_data, flashVars, boundVars>>

\* An error of flash_pageprogram is ignored; jtag_9030_XCF_write knows none.
ProgramPage(data) ==
  \/ /\ devtype = "V2P_9030"
     /\ \E c \in XcfWrite(ChainWithFlash, data, xcf_data_pos) :
          flash' = c.memory /\ chain' = WithoutFlash(c)
     /\ UNCHANGED incomplete
  \/ /\ devtype # "V2P_9030"
     /\ \E page \in PageProgram(flash, data, Base + xcf_data_pos) :
          /\ flash' = page.memory
          /\ incomplete' = IF page.complete THEN incomplete ELSE incomplete \cup {xcf_data_pos}
     /\ UNCHANGED chain

Write(p) ==
  /\ FlashFile(p) /\ files[p].mode = "O_WRONLY"
  /\ LET pos == files[p].pos
         start == pos % PageSize
     IN  \E count \in 1 .. PageSize + 1 :
           LET n == BytesTo(count, pos, xcf_data_pos)
               data == [i \in 1 .. PageSize |->
                          IF i \in start + 1 .. start + n THEN Byte(files[p].session, pos + i - start - 1)
                          ELSE xcf_data[i]]
           IN  /\ pos >= xcf_data_pos
               /\ pos + n <= MaxImage
               /\ files' = [files EXCEPT ![p].pos = pos + n]
               /\ IF pos + n - xcf_data_pos = PageSize
                    THEN /\ ProgramPage(data)
                         /\ xcf_data' = [i \in 1 .. PageSize |-> Erased]
                         /\ xcf_data_pos' = pos + n
                    ELSE /\ xcf_data' = data
                         /\ UNCHANGED <<xcf_data_pos, flash, incomplete, chain>>
  /\ returned' = NoRead
  /\ UNCHANGED <<devtype, accessVars, jtag_refcount, eventVars, eeprom_data, fpga_conf_data, image, erased, boundVars>>

-----------------------------------------------------------------------------
(* ev_release.                                                             *)

Releasing(p, device) ==
  /\ files[p] # Closed
  /\ access_device = device
  /\ files' = [files EXCEPT ![p] = Closed]
  /\ returned' = NoRead
  /\ UNCHANGED <<devtype, boundVars>>

\* Faulty variant, for testing TypeOK: the counter is not stopped at 0.
JtagReleasedAlways == jtag_refcount - 1

JtagReleased == IF jtag_refcount > 0 THEN jtag_refcount - 1 ELSE 0

ReleaseEeprom(p) ==
  /\ Releasing(p, DEVICE_EEPROM)
  /\ IF devtype \in PLX THEN NoneOpen /\ eeprom_data' = FALSE
                        ELSE UNCHANGED <<accessVars, eeprom_data>>
  /\ UNCHANGED <<jtagVars, eventVars, fpga_conf_data, xcf_data, xcf_data_pos, flashVars>>

ReleaseFpga(p) ==
  /\ Releasing(p, DEVICE_FPGA)
  /\ IF devtype \in PLX THEN NoneOpen /\ fpga_conf_data' = FALSE
                        ELSE UNCHANGED <<accessVars, fpga_conf_data>>
  /\ IF devtype \in PLX /\ access_mode = "O_WRONLY"
       THEN jtag_refcount' = JtagReleased /\ chain' = JtagRelease(chain, jtag_refcount)
       ELSE UNCHANGED jtagVars
  /\ UNCHANGED <<eventVars, eeprom_data, xcf_data, xcf_data_pos, flashVars>>

FlashReleased ==
  /\ xcf_data' = NoBuffer
  /\ NoneOpen
  /\ UNCHANGED <<eventVars, eeprom_data, fpga_conf_data, xcf_data_pos>>

ImageWritten(p) == image' = [session |-> files[p].session, length |-> files[p].pos]

\* The pins are not released.
ReleaseXcfRead(p) ==
  /\ devtype = "V2P_9030" /\ access_mode = "O_RDONLY"
  /\ Releasing(p, DEVICE_FLASH)
  /\ FlashReleased
  /\ \E c \in ReadEnd(ChainWithFlash) : chain' = WithoutFlash(c)
  /\ UNCHANGED <<jtag_refcount, flashVars>>

\* The buffer is flushed, and the FPGA is told to load what has been written.
ReleaseXcfWritten(p) ==
  /\ devtype = "V2P_9030" /\ access_mode = "O_WRONLY"
  /\ xcf_data # NoBuffer
  /\ Releasing(p, DEVICE_FLASH)
  /\ FlashReleased
  /\ LET ended == ProgEnd(XcfWrite(ChainWithFlash, xcf_data, xcf_data_pos))
     IN  \E c \in Conf({JtagOpen(JtagRelease(d, jtag_refcount), JtagReleased) : d \in ended}) :
           /\ flash' = c.memory
           /\ chain' = WithoutFlash(JtagRelease(c, JtagReleased + 1))
  /\ ImageWritten(p)
  /\ jtag_refcount' = JtagReleased
  /\ UNCHANGED <<erased, incomplete>>

\* A session that has written flushes the buffer.
ReleaseFlash(p) ==
  /\ devtype # "V2P_9030"
  /\ Releasing(p, DEVICE_FLASH)
  /\ FlashReleased
  /\ IF access_mode = "O_WRONLY" /\ devtype # "V5_PCIE"
       THEN xcf_data # NoBuffer /\ ProgramPage(xcf_data) /\ ImageWritten(p) /\ UNCHANGED erased
       ELSE UNCHANGED <<flashVars, chain>>
  /\ UNCHANGED jtag_refcount

\* Faulty variant, for testing ReleasedWhenClosed: the last reference does not
\* close the device.
ReleaseEvKeeping(p) ==
  /\ Releasing(p, DEVICE_EV)
  /\ refcount_ev' = IF refcount_ev > 0 THEN refcount_ev - 1 ELSE 0
  /\ irqHandler' = (irqHandler /\ refcount_ev' > 0)
  /\ UNCHANGED <<accessVars, jtagVars, bufferVars, flashVars>>

ReleaseEv(p) ==
  /\ Releasing(p, DEVICE_EV)
  /\ refcount_ev' = IF refcount_ev > 0 THEN refcount_ev - 1 ELSE 0
  /\ IF refcount_ev' = 0 THEN irqHandler' = FALSE /\ NoneOpen
                         ELSE UNCHANGED <<irqHandler, accessVars>>
  /\ UNCHANGED <<jtagVars, bufferVars, flashVars>>

\* Another process holds the semaphore, and a signal arrives.
ReleaseInterrupted(p) ==
  /\ files[p] # Closed
  /\ Processes \ {p} # {}
  /\ interrupted < MaxInterrupted
  /\ interrupted' = interrupted + 1
  /\ files' = [files EXCEPT ![p] = Closed]
  /\ returned' = NoRead
  /\ UNCHANGED <<devtype, accessVars, jtagVars, eventVars, bufferVars, flashVars, opens>>

-----------------------------------------------------------------------------
Open(p) ==
  \/ \E mode \in Modes :
       \/ \E minor \in {DEVICE_EEPROM, DEVICE_FPGA} : OpenUnsupported(p, minor, mode)
       \/ OpenEeprom(p, mode)
       \/ OpenFpga(p, mode)
       \/ OpenFlashToMap(p, mode)
       \/ OpenEv(p, mode)
  \/ OpenXcfToRead(p) \/ OpenFlashToRead(p)
  \/ OpenXcfToWrite(p) \/ OpenFlashToWrite(p)

Release(p) ==
  \/ ReleaseEeprom(p)
  \/ ReleaseFpga(p)
  \/ ReleaseXcfRead(p) \/ ReleaseXcfWritten(p) \/ ReleaseFlash(p)
  \/ ReleaseEv(p)
  \/ ReleaseInterrupted(p)

\* pci_evr_remove and pci_evr_probe, while no file is open: the buffers, the
\* references to the registers and the interrupt handler are kept.
Rebind ==
  /\ \A p \in Processes : files[p] = Closed
  /\ access_mode' = "O_RDONLY"
  /\ access_device' = 0
  /\ eeprom_data' = FALSE
  /\ fpga_conf_data' = FALSE
  /\ xcf_data' = NoBuffer
  /\ xcf_data_pos' = -1
  /\ jtag_refcount' = 0
  /\ lockedOut' = FALSE
  /\ returned' = NoRead
  /\ UNCHANGED <<devtype, eventVars, chain, files, flashVars, boundVars>>

Next == Rebind \/ \E p \in Processes : Open(p) \/ Read(p) \/ Write(p) \/ Release(p)

Spec == Init /\ [][Next]_vars

-----------------------------------------------------------------------------
(* Properties.                                                             *)

OpenFiles == {p \in Processes : files[p] # Closed}

\* "Only one minor device is allowed open at a time", and only the registers may
\* be open more than once (struct mrf_dev in pci_mrfev.h, ev_open).
OneMinorOpen ==
  \A p, q \in OpenFiles : p # q => files[p].minor = DEVICE_EV /\ files[q].minor = DEVICE_EV

UsesJtag ==
  /\ devtype = "V2P_9030"
  /\ \/ access_device = DEVICE_FLASH
     \/ access_device = DEVICE_FPGA /\ access_mode = "O_WRONLY"

\* Every operation of an open file acts on the minor device it was opened for
\* and finds its buffer and, on a V2P board, the JTAG pins driven and the flash
\* memory enabled, whatever other processes open, close or fail to open in
\* between and even after a release was interrupted.
OperationsReachTheirDevice ==
  \A p \in OpenFiles :
    /\ access_device = files[p].minor
    /\ access_device # DEVICE_EV => access_mode = files[p].mode
    /\ access_device = DEVICE_FLASH /\ devtype # "V5_PCIE" => xcf_data # NoBuffer
    /\ access_device = DEVICE_FPGA => fpga_conf_data
    /\ access_device = DEVICE_EEPROM => eeprom_data
    /\ UsesJtag => jtag_refcount > 0 /\ chain.driven
    /\ UsesJtag /\ access_device = DEVICE_FLASH => chain.enabled # -1

\* After a session has been closed its image is in the flash memory, however the
\* writes were cut into pieces, until the flash memory is opened for writing
\* again.  A page whose program command was cut short lacks its last bytes and
\* has no others, and the remaining pages are not affected.  This needs an erase
\* that was executed completely.  The caller is told neither that a page is
\* incomplete, since ev_write and ev_release ignore flash_pageprogram, nor that
\* the erase was cut short, since spi_slave_select ignores spi_wait_tmt.
FlashHoldsImage ==
  erased =>
    \A i \in 0 .. image.length - 1 :
      \/ flash[Base + i] = Byte(image.session, i)
      \/ flash[Base + i] = Erased /\ PageOf(i) \in incomplete

\* The golden image of an ECP3 board survives whatever happens while the
\* primary image is erased and written, the last flush included, which programs
\* the page after the end of an image that fills its pages.
GoldenImageKept ==
  devtype = "ECP3" =>
    \A a \in DOMAIN flash : a < PrimaryStart \/ a >= PrimaryEnd + SectorSize => flash[a] = Old

\* After an erase that was executed completely, a byte that is programmed has been
\* erased before, also after pages that could not be programmed: no page is
\* written twice.  If the erase was cut short the pages are programmed all the
\* same, since it has returned success.
OnlyErasedProgrammed ==
  [][\A a \in DOMAIN flash : erased => flash'[a] \in {flash[a], Erased} \/ flash[a] = Erased]_flash

\* A read of the flash memory of a V2P board returns what is there, and never
\* what is left in the buffer or its position by an earlier session.
ReadsReturnFlash ==
  devtype = "V2P_9030" =>
    \A i \in DOMAIN returned.data : returned.data[i] = flash[Base + returned.pos + i - 1]

\* If no release was interrupted, the references to the registers are those of
\* the open files, the handler is released with the last of them, and when all
\* files are closed a minor device can be opened, unless somebody has tried to
\* open the FPGA of a board that has none: ev_open has then left access_device
\* set, and denies every minor device although no file is open.
ReleasedWhenClosed ==
  interrupted = 0 =>
    /\ refcount_ev = Cardinality({p \in OpenFiles : files[p].minor = DEVICE_EV})
    /\ irqHandler => refcount_ev > 0
    /\ OpenFiles = {} => access_device = IF lockedOut THEN DEVICE_FPGA ELSE 0
=============================================================================
