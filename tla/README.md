# A TLA+ model of the MRF device support

The device support talks to timing devices (event generators and receivers) of
Micro-Research Finland, either over UDP/IP or through memory mapped by a kernel
driver, and makes their registers available as EPICS records.  This directory
holds TLA+ modules that model its core, from the kernel driver to the records,
configurations that check them with TLC, and proofs checked by TLAPS.  Paths are relative to the
repository; `PROJECT.json` maps every definition to the lines it models.

## 1. Inventory

From the device to the records; "state" is what the component keeps between
calls.

| component | state | operations | correct when |
|---|---|---|---|
| UDP/IP client `MrfUdpIpClient` | queue of new requests, sets of sent requests sorted by first and last transmission, requests to retransmit, map from packet reference to request, congestion window, counter of timeouts | `queueReadRequest`, `queueWriteRequest`; send thread (expire, detect losses, transmit, retransmit, call back); receive thread (match a reply, call back) | each request is answered once; none is forgotten; nothing is sent after its success or timeout; only real timeouts count towards "offline" |
| UDP/IP memory access `MrfUdpIpMemoryAccess` | per 32-bit read: which words have been received, and whether it has failed | 16-bit accesses are passed on, 32-bit accesses are made of two requests | a 32-bit read has read the high word after the low word; the low word is written after the high word; a read's callback is called once (it is not if the second request cannot be queued, section 3) |
| memory-mapped access `MrfMmapMemoryAccess` | request queue, device and signal descriptors, listeners, shutdown flag | the accesses queue a request; the I/O thread opens the device, executes requests, handles interrupts, recovers from errors | every request is answered; no interrupt is missed, reset unreported or left disabled |
| operation queue `MrfConsistent(Asynchronous)MemoryAccess` | entries per byte, bytes in use, callbacks by id | `write…`, `update…`, callbacks of the delegate, `operationFinished` | operations that share a byte exclude each other; updates are atomic; nobody waits for ever (the first two need a delegate that calls back once, which the UDP/IP access does not always do, section 3) |
| blocking memory access `MrfMemoryAccess` | none | start an access and wait for its callback | returns once the callback is called |
| memory cache `MrfMemoryCache` | values by address | read, from the device if there is no value | readers agree on the first value cached |
| device registry | devices and caches by name | register, look up | filled once, before the IOC runs |
| input and output records | PACT, value or error of the access under way | process (twice per access) | one access per processing, and its own answer |
| interrupt records `MrfInterruptRecord` | queue of interrupt flags, I/O Intr mode | listener, `getInterruptInfo`, `processRecord` | each queued interrupt is processed |
| waveform and string records | number of pending requests, elements written | process; one access per element | the record completes once, after the last answer |
| fine delay record | position in a transfer of 51 writes | process; one write per step | a transfer is complete or reported as failed; no half delay is latched |
| kernel driver, files of a board (`mrfcommon.c`) | which minor device is open and how, references to the registers, buffers and the position in the flash memory | open, read, write, release of EEPROM, flash memory, FPGA and registers | one minor device is open at a time; an operation acts on the device its file was opened for; an image written is in the flash memory (if the commands were executed completely, which the writer is not told, section 3) |
| kernel driver, boards (`mrfevr.c`, `mrfevg.c`) | array of slots | probe, remove | a slot belongs to one board, which finds it again |
| kernel driver, flash memory (`flash.c`, `jtag.c`) | what the chips hold; the number of users of the JTAG pins | erase, program, read, by commands to the chips | only erased bytes are programmed; the chain is in the state the next command expects |
| the rest | - | address parsing, conversions, iocsh commands, registrars, error output, array subroutines | sequential, no state over time |

**Interaction.**  A record processes by calling the operation queue of its
device with a callback and sets PACT.  The operation queue passes requests to
its delegate, the UDP/IP or the memory-mapped access, with wrapping callbacks;
these call the record's callback and then start the operations that waited.
All callbacks run in the threads of the delegate (the send and the receive
thread, or the I/O thread), never with a mutex held; a delegate that refuses a
request at once calls back within the call itself.  A record's callback asks EPICS
to process the record a second time.  Interrupts go the other way: driver,
signal, I/O thread, listener, queue of the record, EPICS scan list.  The memory-mapped
access opens the minor device of the registers; the other three are for
utilities that update firmware, and all four share the state of the board.

**What is hard.**  Three kinds of threads meet in the queues and none of them
waits for another.  Replies are lost, late, repeated and overtake each other
while requests are retransmitted and time out.  Callbacks re-enter the code
that called them.  Interrupts race with register accesses that change the
enable bits they depend on.  Every access, ioctl and send may fail half way.
The files of a board share one state, so that what one process opens, fails to open or closes
changes what the operations of another one mean.  And layers rely on more than the ones below them
give: a callback that may come twice, a command that may be cut short and be reported as done.
The hazards in `PROJECT.json` list these by line, with the properties that
would notice.

## 2. Modules

| module | models | proofs |
|---|---|---|
| `ConsistentMemoryAccess` | the operation queue | `ConsistentMemoryAccessProofs` |
| `AtomicRegisters` | what it promises, implemented by it | (refinement proved there) |
| `UdpIpClient` | the UDP/IP client with its two threads, its callers and the network | `UdpIpClientProofs` |
| `RequestCallbacks` | what the client promises to those who queue requests: implemented by `UdpIpClient`, relied on by `UdpIpMemoryAccess` | (`KeepsPromise` and `UsesPromise` in the proofs of these) |
| `MmapMemoryAccess` | the I/O thread, its users, the driver and the device | `InterruptRecordProofs` |
| `InterruptRecord` | extends it by a listener, its record and EPICS: the composition | `InterruptRecordProofs` |
| `UdpIpMemoryAccess` | 32-bit accesses made of requests of the client, of which it knows the promise | `MemoryCacheProofs` |
| `MemoryCache` | extends it by the blocking access and the cache: the composition | `MemoryCacheProofs` |
| `RecordProcessing` | what EPICS and all records have in common: PACT, put, scan, process callbacks | (in the next two) |
| `ElementRecords` | extends it by the records that make one request for each element: output, input, waveform and string records | `ElementRecordsProofs` |
| `FineDelayRecord` | extends it by the fine delay record, its transfer and the shift register | `FineDelayRecordProofs` |
| `FlashBytes` | a byte of a flash memory | `FlashProofs` |
| `SpiFlash` | `flash.c` and the memory it talks to | `FlashProofs` |
| `JtagChain` | `jtag.c`, the TAP controllers of FPGA and flash memory, and the latter's instructions | `FlashProofs` |
| `KernelDriver` | extends both by the files of a board | `KernelDriverProofs` |
| `DeviceSlots` | probe and remove | `KernelDriverProofs` |
| `MC...` | instances for TLC; `MCRecords` and `MCKernelDriver` put together the modules above | (`MCRecords` in `FineDelayRecordProofs`) |

In each module the variables bear the names of the members they stand for;
additional ones say where a thread is, what the device holds and, where a
property needs it, what has happened.  An action is the code between two
points at which another thread can be noticed: a section under the mutex, one
access to the device, one call of a callback.  Definitions that begin like
another one and are called faulty variants are not part of the specifications:
each is a bug one could have made, with which the property named in its comment
fails.

### ConsistentMemoryAccess

An operation is one call of `writeUInt16`, `writeUInt32`, `updateUInt16` or
`updateUInt32`; `pc[op]` says where it is, since at any time at most one thread
works on it (but for further calls of its callback, below).  `Submit` takes the mutex, `Accept` queues the operation or marks
its bytes (`canRunOperation`, `markRunOperation`), `RunSubmitted` calls the
delegate (`runOperation`), `RejectSubmitted` is the delegate failing at once.
`PerformRead`, `PerformWrite`, `Succeed` and `Fail` are the delegate: it
executes a request at one moment between its start and its callback; a failed write may have been executed.  `OperationFinished`
unmarks the bytes and selects waiting operations byte by byte; the list it
builds is then worked off by `RunNext`, `RejectNext` (whose nested
`operationFinished` runs first, see `nested`) and `ThrowNext`; `Notify` calls
the caller's callback.

* `prepareNextOperations` iterates over an unordered multimap: any choice of
  one runnable operation per byte is allowed (`Selections`).
* `removeOperationInfo` gets a reference into the entry it erases.  What the id
  of the freed entry reads as afterwards is the constant `FreedIds`: "intact" or
  "garbage" (assumed to be no id in use).
* `runOperation` looks into the callback maps without the mutex.  The outcomes
  of a lookup while another thread changes the map are `RacyLookups`.
* Registers are sets of operations per byte ("who made this value up"), which
  is all that atomicity depends on.
* Callbacks of callers do not throw.  Reads bypass the queue and are left out.

The UDP/IP access is a harder delegate: it may call the callback of a request once more, when a retransmission that
failed is reported besides the answer, and a write may reach the device after its failure has been reported.  The
wrapping callbacks have no guard against that.  Each further call is an element of `Repeats` with a position
`pc[call]` of its own, since it may come on another thread while the operation is being worked on; it goes through the
same actions as the first call.  `RepeatFailure` and `RepeatSuccess` are the calls: a request succeeds at most once, and its failure
may be reported before or after that.  `ReadLate` and `WriteLate` are the device.

What this does to the queue is serious.  The second `operationFinished` unmarks the operation's bytes, which another operation may
hold by then, so that two operations access them at once; a read that is answered after its failure was reported goes on to compute
and write, unprotected.  **`MutualExclusion` and `UpdateAtomic` therefore do not hold with the UDP/IP access** on the
bytes of an operation to which this happens (`Disturbed`, `Exposed`), and as stated they exempt these bytes.  What they say is that
the damage ends there: all other bytes stay protected, also where an operation touches both.  `ImplementsAtomicRegisters` is about the operations
to which nothing of this can happen (`Steady`), on registers that no other operation touches (`SafeBytes`), with
the other operations in the same queue.  With the memory-mapped access these are all operations.

* Stale entries of the queue ("garbage") and a delegate that is not steady are not modelled together
  (`CombinationAssumption`).

### UdpIpClient

The send thread holds the mutex from `checkSentRequests` (`ExpireQueued`,
`ExpireSent`, `RemoveAnswered`, `DetectLoss`, in this order) through the sending
(`DropRetransmission`, `Retransmit`, `SendNew`, `SendNewAgain`, `SendNewError`,
`FailNew`) to `Idle`, calls the collected callbacks one by one (`CallBack`) and
sleeps in `select` until `WakeUp`.  The receive thread handles a reply to the
last packet of a request (`ReceiveLast`) or an earlier one (`ReceiveEarlier`)
and calls back (`DeliverReply`).  `QueueRequest` are the callers.

What the callers see of this is `RequestCallbacks`: a request is queued, it is answered, once, and a
retransmission of it that fails is reported, at most once, before or after the answer.
The callback is the same for all of these.  `ImplementsCallbacks` says that the client implements
this, liveness included, with `Unanswered` and `Reported` for the abstract variables: the call that
matters is the one of the callback, not the reply or the timeout that causes it.
A retransmission that fails calls the callback only if the request still has it; what has been answered in the
meantime is reported to nobody.

* A packet is its reference number.  References and times of transmission are
  both handed out in order, so that references stand for the times by which
  the sets are sorted.  They are not bounded here; the wrap at 2^32 is not modelled.
* A reply to any packet ever sent may arrive at any time, any number of times
  or never.  This includes loss, delay, reordering and duplication.
* Durations are abstracted: whatever a clock decides may happen whenever the code
  looks at the clock.
* The congestion window, its reset and its recovery are modelled with the
  code's integers, since how many requests may be sent depends on them.
* `retransmitRequests` is a list; its order only decides which of several
  retransmissions comes first, and any order is allowed.
* The destructor is not modelled.

### MmapMemoryAccess and InterruptRecord

`ioThread` is the position in the loop of `runIoThread`: `Open`, then
`ReadSignal` or `NoSignal`, then an interrupt (`ReadRegisters`, `WriteBack`,
`NotifyListeners`, `EnableInterrupt`) or a request (`Execute`, `Callback`) or
`Sleep`.  `ReadSignalFails`, `ExecuteFails`, `HandleFails` and a failing `Sleep`
close a descriptor.  `Shutdown` may come at any time, and `Finish` answers what is
left.  `Interrupt` is the driver: it disables the line and sends a signal with the
descriptor it was armed for; a signal that is pending already is not sent twice.

The users are updates of the interrupt enable register, in two steps as the
operation queue makes them (the second is queued in the callback of the first), and
accesses to other registers, of which only the passage through the queue is
modelled.

`InterruptRecord` replaces `NotifyListeners` by the listener in its three parts
(under the mutex, `Announce`, `Return`) and adds the record.  EPICS is external:
`recordThread` is whoever holds the record's lock, `onScanList` and
`scanRequests` are its I/O Intr scan list, and `getInterruptInfo` is called
before the record is on that list.

* The sleep of at most five seconds in `select` is the same as looping.
* Opening, mapping and arming the device is one step; so is reading a signal.
* The registration of the SIGBUS handler, adding and removing listeners and the
  check of addresses are left out.

### UdpIpMemoryAccess and MemoryCache

An operation is one call of `readUInt32` or `writeUInt32`; a request is the
operation and the word.  `ReadUInt32`, `QueueHighWord` and `WriteUInt32` are the
caller.  `receiveThread` and `sendThread` say what the callback called by each of
the client's threads is about to do once it has released the mutex of
`UInt32ReadShared`: queue another word (`QueueWord`), `ReportSuccess`
or `ReportFailure`.

Queuing a request may throw (`QueueThrows`): there is no memory for it, or `wakeUp` fails when it is in the queue already,
in which case it is sent all the same.  What becomes of that depends on the place: `readUInt32` and
`writeUInt32` pass the exception on to their caller if it is about the first request; if the high word of a read cannot be queued,
`readUInt32` calls the callback itself (`FailReading`); if it cannot be queued again, the client discards the exception
(`QueueAgainThrows`); for the low word of a write the callback is told (`QueueLowThrows`).  `thrown` are the requests to which this has happened,
bounded by `MaxThrown`.

The client is an instance of `RequestCallbacks`: a request is open until it is
answered by a reply (`ReplyToRead`, `ReplyToWrite`, `ReplyWithStatus`) or by a failure
(`RequestFails`), and a retransmission of it that fails may be reported besides, before or after
that, which is a failure to whoever is called.  `MaxReported` bounds these reports.  The
device executes packets of a request any number of times (`Execute`), those of a write
also after it has been answered.

`MemoryCache` adds threads that call `MrfMemoryCache::readUInt32`: `LookUp`,
`StartReading` and `GetResult` (the blocking access of `MrfMemoryAccess`, which waits for
its callback unless the call has thrown), `Emplace`.

* The register that is read counts its changes, so that the values of two words can be
  compared; the high word a read has collected is a set, since the code
  combines the words it receives by OR.
* All replies to a request are dropped after the first one that the client accepts.
  The client ignores replies to earlier packets of a write, which is one way to lose a reply.
* Of the writes, the model keeps which words the device has executed.

### RecordProcessing, ElementRecords and FineDelayRecord

A record is one state machine: processing it with PACT unset makes the requests (`Start...`),
processing it with PACT set completes (`Complete...`).  `Put`, `Scan`, `ScanOnce` and
`ProcessCallback` are EPICS, which holds the record's lock during each; `Execute`,
`Answer` and `AnswerAgain` are the memory access, with the callbacks of the device support as
operators (`OutputCallback`, `WaveformOutCallback`, ...).

* A request may fail in the call that makes it, and before or after it was executed.
  `disturbances` bounds what the client does beyond that: it may call a callback twice,
  once for the answer and once before or after that, for a retransmission that failed (`RequestCallbacks`), and executes a request after it was
  answered.  Every property but `Settles` and `TypeOK` speaks of behaviours without these; `Settles` does not:
  a record comes to rest in spite of them.
* `pendingRequests` counts modulo `CounterModulus`, which stands for 2^32: a callback that is called twice can make it
  wrap, which is modelled and which only `Settles` faces.
* A string is an array of pieces; verification, the cache of written elements (`changedElementsOnly`)
  and reading of the initial value are options.
* The fine delay record writes the output register in 51 steps.  The model has all of them, the shift
  register and the latches of both delay chips, so that `TransferOrder` is compared with what
  the chips make of it (`DelayPositions`, external).  A write is answered once.

### KernelDriver, SpiFlash, JtagChain and DeviceSlots

`Open...`, `Read`, `Write`, `Release...` are the operations of the character device; each holds
the semaphore of the board all the time and is one step.  What an operation of a file does
is decided by `access_device` and `access_mode`, which all files share.
`ReleaseInterrupted` is a release whose wait for the semaphore is interrupted: the kernel
closes the file anyway.

* `SpiFlash` gives for each function of `flash.c` the set of its outcomes.  A command consists of
  bytes; the memory executes what it has got when it is deselected.  A command may be cut short after any byte, the write
  enable command before it, too, and the function may return an error or not: `spi_slave_select` ignores that the last byte
  was not sent in time (`flash.c:59`) and deselects the memory, and the status that is read afterwards says that it is not busy.  An outcome is the memory, whether
  the function has failed, and whether the command was complete, which the driver does not know.
* `erased` and `incomplete` record what no variable of the driver does: whether the erase before a session was complete, and
  which pages were not.  `lockedOut` says that an open of the FPGA has failed for want of one.
* `JtagChain` gives for each function of `jtag.c` the chain after it, clock by clock for TMS
  and as one command for the shifting of a register whose bits are all the same to the model.  The
  contents of the memory are put into the chain for the time of a step (`ChainWithFlash`).
* Loading the FPGA through JTAG is left out.  The only reader and writer of the flash memory is a process that reads
  or writes from start to end, as `dd` does; nobody opens it for both, except where it is mapped.  (In the code such an open
  neither erases nor starts anything: on a V2P board it does not open the JTAG pins either, which a read then finds undriven.)
* An operation for which the driver no longer waits is finished in the memory when the next command arrives.  A byte that
  is still being sent when the memory has been selected anew is not modelled.
* `DeviceSlots` is the array of devices of `mrfevr.c` or of `mrfevg.c`, which have the same code; boards come,
  cannot be enabled, and come back with other addresses.  Boards come and go only while no file
  is open (`Rebind` is what a removal and a probe change for the files of the next one).

## 3. Runs

Every passing run has a faulty variant of the model for each of its
properties.

| run | question | instance | states |
|---|---|---|---|
| `queue` | Is every operation that is called back once atomic, and do all waiting operations start? | a 32-bit update, two 16-bit writes of its halves, one of which may be called back once more and be executed late; benign undefined behaviour | 73,635 |
| `queue_undefined` | Which bytes lose their protection when an update is called back once more or executed late, and do racing lookups cost any? | the same operations; a further call for each of the update's requests, its write late; lookups found or missing | 1,137,552 |
| `queue_freed_id` | Can garbage in a freed id make `operationFinished` throw? | two updates, two writes | violation |
| `client` | Are requests called back as promised, watched until then, and not sent too late? | one read, two writes, 4 packets | 957,885 |
| `client_called_twice` | Is a callback called at most once? | as `client` | violation |
| `interrupts` | Is no interrupt missed or stuck, and every request answered? | two flags, one update, one access, one record | 555,576 |
| `interrupt_enable_bit` | The same for firmware with the driver's bit in the enable register | an update that sets a flag | violation |
| `words` | Are 32-bit accesses made of their words in the right order, and reads called back as often as they should? | one read, one write, one change, two replies under way, one request whose queuing throws | 7,082,311 |
| `cache` | Do concurrent readers get the same value, and does each return? | two readers of one register, one change, one reply under way, one request whose queuing throws | 1,112,898 |
| `records` | Does a record of each kind complete once, with the right alarm, and does the device follow it? | two elements of two values, two puts or scans, one request called back twice or executed late | 694,982 |
| `driver` | Do the files of a board reach their device, and does the flash memory hold what was written? | two processes, three openings, a board of each kind, a memory of four pages of two bytes; three boards in two slots | 1,393,114 |
| `driver_minors` | Is only one minor device open at a time, as the driver says? | as `driver`, others may open while the EEPROM is open | violation |

**Bounds, and why they are enough.**

* Operations: a 32-bit update overlaps both writes, the writes do not overlap each
  other, so that a finishing update releases two operations at once and a
  finishing write may or may not release an update.  This is the smallest instance in which an operation waits for
  bytes held by two others.  A second update, in `queue_freed_id`, keeps the queue occupied meanwhile.  One further call of a callback is enough
  to unmark bytes that another operation has got; in `queue_undefined` the read and the write of the update each have one, so
  that a disturbed update can be under way while another operation, which it let in, is called back.
* Requests and packets: with four packets a request is sent up to three times
  while the others are under way.  `MaxRefs` reserves a packet for each request
  that was not sent, so that the bound never prevents a first
  transmission; it only ends retransmissions.  The limits of the
  code (3 losses, a window of 4, 2 timeouts) are lowered to 2, 1 and 0 so that
  three requests exceed them.
* Interrupts: two sources, one of interest to the record; the initial registers are
  arbitrary, since the device keeps them when the program restarts.  The queue
  holds 2 instead of 1024 elements so that it overflows.  `MaxScanRequests`
  drops scan requests beyond 2: a second one already makes no difference to a record that
  asks for the next by itself.
* Words: two replies under way are enough for one to be late or repeated while
  others are accepted, and one change of the register to give the words of a read different values.  In `cache` there is one at a time,
  since there the two readers are what overtakes each other.  `MaxReported` bounds the retransmissions that fail, `MaxThrown` the
  requests whose queuing throws: one leaves its operation in each of the positions it can be in.
  Replies arrive in the order they were sent (`InOrder`).  Without that, the high word
  may be older than the low word: the "slim chance" that a comment of `receivedLow`
  (`src/mrfApp/mrfUdpIpSrc/MrfUdpIpMemoryAccess.cpp`) concedes.
* The device gets the same descriptor number each time it is opened, as it does
  when no other thread opens files.  With two numbers a signal for the closed
  one can be pending while that for the new one is dropped, and
  `InterruptsWatched` fails.
* Records: with two elements one can fail or be left out while the other one is written; two puts
  are one while the record is active and one to find what is left.  The two values of a
  fine delay differ in every function of the bits: delays, latch-enable and disable.  `CounterModulus`
  is larger than any number of callbacks, so that a counter that has wrapped does not come back to zero, as it
  does not with 2^32.
* Driver: an image of up to four bytes ends before, at and after a page, and the flush after a full page
  reaches the sector behind it; on an ECP3 board there are sectors of the golden image on both sides.  Three
  openings are two sessions that write, or one that fails, and one that reads what they have left.
  `EepromAlone` keeps the processes from opening anything while the EEPROM is open, which the driver does
  not (`driver_minors`); all properties of `driver` depend on that.

Deadlock is not checked: all callers may be done, and the I/O thread stops after
a shutdown.

**Fairness.**

* Operation queue: threads inside of the code keep running, each call of a callback for itself (`Step`), and the delegate
  answers each request, which `RequestsAnswered` shows for the memory-mapped access and `ImplementsCallbacks` for the requests of the
  UDP/IP access; the exception is a read whose second request for the high word cannot be queued (below).  Nobody has to submit an operation, and nothing is
  called or executed once more by fairness.
* Client: the send thread keeps running and the receive thread finishes its callback.  Strong fairness for `ExpireSent` says
  that the request timeout of a sent request passes in the end, and for `SendNew` that
  the socket is writable now and then (the thread waits for that after
  EAGAIN).  No packet has to be answered, and no loss has to be noticed.
* Memory-mapped access: the I/O thread keeps running, listeners return, the device
  interrupts when its line is enabled and a flag is set.  Properties that need
  errors or interrupts to cease say so in their premise.
* Record: whoever holds the record's lock releases it; a scan request is
  executed in the end, although other processing may take the lock again and again
  (strong fairness).
* Records: the callback threads of EPICS keep running, and each request is answered in the end.  Nobody
  has to put or scan; nothing is answered twice by fairness.
* Driver: none; a process may keep a file open as long as it wants.
* Cache: the readers and the client's threads keep running, and requests are answered as long as there are
  any, which is the fairness of `RequestCallbacks`.  `client` shows it from the fairness of the client above.  A reply
  counts as an answer, and so does a failure: no packet has to be answered by the device.

**What the violations show** is in the findings of `PROJECT.json`, with the
comment of the code each one contradicts.

**Other divergences** and flaws, which the models have and no run is about:

* "Other write or update operations to the same register are blocked until this process has finished"
  (`MrfConsistentAsynchronousMemoryAccess.h:191`) is not so over UDP/IP: when the failed retransmission of a request
  is reported besides its answer, the callbacks (`:400-477`) finish the operation twice, or write after it has been finished, and the bytes are
  no longer protected (section 2).  The same is true if the request has timed out and a packet of its write reaches the device afterwards.  A 16-bit access is passed on to the client, whose callback is called twice then (`client_called_twice`).
* `readUInt32` of the UDP/IP access says of a high word that cannot be queued that "we do not throw but call the failure method on the callback
  shared data object instead" (`MrfUdpIpMemoryAccess.cpp:345`), but it calls the failure method of the callback itself (`:357`, `:365`).  The shared state does
  not learn of that, and a failure of the low word's request calls the callback again (as does the complete read, if the request had been
  queued before the exception).  `ReadCalledOnce` allows two calls in this case.
* If the high word is to be read again and that cannot be queued, the exception leaves `receivedLow` (`MrfUdpIpMemoryAccess.cpp:160`)
  and is discarded by the client: unless the request was queued all the same, the callback of the read is never called, and a thread that waits for it waits for ever.
  `ReadersReturn` exempts this case.
* A command to the flash memory that was not sent completely is taken for done, since `spi_slave_select` ignores the time-out of
  `spi_wait_tmt` (`flash.c:59`), and every result of `flash_pageprogram` is ignored (`mrfcommon.c:431`, `:450`, `:467`, `:802`, `:830`, `:859`).  Writing and closing
  return success although pages are missing.  After an erase that was cut short pages are programmed over what was there before, and the image is
  neither the new nor the old one.  Nobody but a reader who compares the memory with the image can tell, so that there is no property of the kind "if
  the writer saw no error the image is there": `FlashHoldsImage` and `OnlyErasedProgrammed` say what is left of it, in terms of what the memory
  has received (`erased`, `incomplete`).
* `ev_open` sets `access_device` before it finds that the board has no FPGA that can be opened (`mrfcommon.c:97`, `:318-322`), and does
  not reset it.  From then on every open is denied (`:84`), though no file is open, until the board is probed again.  `ReleasedWhenClosed`
  says that this is the only way to get there without an interrupted release.
* The client tells from `sendTime` whether a request is sent for the first time, which it is not if
  a late reply has made it empty again: a request can then be in
  `requestsByFirstTransmission` twice (`MrfUdpIpClient.cpp:687`).
* A request that has been answered stays in that set until its timeout, and may then be counted as a timeout
  (`MrfUdpIpClient.cpp:303`); three of these make the client take the peer for offline.
* A record whose SCAN is changed to I/O Intr while an interrupt is in its queue is not processed
  for it, since the request came before the record was on the scan list (`MrfInterruptRecord.cpp:298`), nor for later
  ones: processing is requested for an empty queue only.
* On boards other than V2P, opening the flash memory for reading keeps the position of the last session
  (`mrfcommon.c:181`): if that was in the first page, the first read returns zeros.
* The comment of the fine delay record says that the output register is reset after every
  write (`MrfLongoutFineDelayShiftRegisterRecord.cpp:246`), which is not so after a transfer that fails.
* A callback that is called after the transfer of a fine delay has failed goes on with the transfer.

## 4. Proofs

All proofs hold for every value of the constants that satisfies the modules' named
assumptions: any set of operations and flags (finite or infinite), any finite set of requests of the client.

**Operation queue** (`ConsistentMemoryAccessProofs`).  Mutual exclusion is not
inductive: it depends on the marks of bytes, on the queue and on the lists of selected
operations.  The invariant adds that holders of bytes are disjoint, also in the lists of
threads that have not started them yet (`HoldersDisjoint`), that their bytes are
marked (`HoldersMarked`), both except for bytes that are exposed, that entries in the queue belong to operations and bytes as submitted
(`EntriesSound`), that lists hold selected operations, each once
(`ListsSound`, `ListsUnique`), that nothing refers to a finished operation
(`FinishedForgotten`), and that a further call comes only after the request has been made and called back
(`AnswersFollow`).  The last one is what confines the damage: a second `operationFinished` unmarks bytes of an operation
that has become `Disturbed` with the call, hence exposed ones.  The invariant holds whatever the undefined behaviours do (with
garbage ids only if the delegate is steady), hence
so do `MutualExclusion`, `UpdateAtomic` and the safety part of the refinement
(`QueueIsAtomic`): every step of the queue is a step of `AtomicRegisters` or a
stutter, for the operations and registers named in section 2.  What these theorems do not say is that an operation over UDP/IP
is atomic: one that is called back once more is not.

`NoLostWakeup` and `FinishedDoesNotThrow` do depend on the undefined behaviours and are proved
where these are benign, also with callbacks that are called once more, together with `NoStrandedMark`, that no byte stays marked (`BenignInv`, which adds that the entries of a waiting
operation are complete and those of any other are gone).  Together with
`queue_freed_id`, this says that the two undefined behaviours are the only cause of an
exception there.

**UDP/IP client** (`UdpIpClientProofs`).  All of the safety properties of `client` hold for any number of requests
and packets and any limits, with one assumption: `MaxRefs` has a reference for each request (`Budget` is the
part of it that is left, and bounds `nextRef`).  They are proved from one invariant, `ClientInv`, which says for each
request by itself (`RequestInv`) that nothing has happened to it while it is new (`NewInv`), that it is watched
(`WatchedInv`) and awaited (`AwaitedInv`), that its callback is in one of the three places from which it is called,
or has been called once (`OnceInv`), and that a request that has succeeded or timed out is flagged as soon as it could be
transmitted again (`AnsweredInv`).  `CalledTwiceOnlyIfSendFailed` is not inductive without the latter two: the callback moves
from the request to a list of the send thread or to the receive thread, and from there to the call, and only the
flag tells the send thread that it has gone.  Since a step is about one request, each of them is shown to
keep everything the invariant says of the others (`Kept`), the timeout callbacks it passes on aside
(`NoticesKept`); what is left is the invariant of its own request.

`KeepsPromise` is the safety part of `ImplementsCallbacks`: every step of the client is a step of `RequestCallbacks` or a
stutter, and the number of calls made to a callback is the one the promise allows.  It follows from the same invariant: by
`OnceInv` a callback is in one place at a time, the request is answered when it is called from the last one, and
a call besides is that of the one retransmission that failed (`CallNoticed`, `ReplyNoticed`).

**Memory-mapped access and record** (`InterruptRecordProofs`).
`FlagsReported` and `InterruptsWatched` follow from the types, step by step;
the latter under the two assumptions whose violation is discussed above, one descriptor number and the driver's
enable bit in a register of its own.  `NothingLeftBehind` needs `RequestInv`: no
request is queued after the shutdown once the I/O thread has taken the last one,
and what it is executing belongs to a waiting user.  `QueueStaysWatched` needs `JoinInv`: the
record is not on its scan list while it is being put there, which is why
a request for processing in between is lost, and why the property speaks of a record
that is on the list.

**32-bit accesses and cache** (`MemoryCacheProofs`).  That a read calls back once is not
inductive: two threads report, and what each has yet to do is decided earlier, under the
mutex.  `OnceInv` says that a thread that is about to report has made
`UInt32ReadShared` complete or failed, and is then the only one to report, next to `readUInt32` itself, which reports only if
queuing the high word has thrown.  For
`ReadConsistent`, `WordsInv` adds that replies carry values in the order in which the device
had them, and that after the low word has been received only later values can
follow; this is where the order of replies is needed, which the theorem
assumes.  For `WrittenInOrder`, `WritesInv` says of each reply and each step to come which
words have been written because of it; it needs no order of replies.

The client of these modules is allowed what `RequestCallbacks` allows, and relies on being called as it says: a request
is queued once.  `UsesPromise` proves that it is, so that the steps of the accesses and of the client they
assume are steps of `RequestCallbacks` or stutters, as those of `UdpIpClient` are, and nothing is assumed of the client that it
was not shown to do.  A request is queued from a callback, and callbacks may be called twice:
`QueueInv` says (`QueuedOnce`) that only one of these calls can be about to queue a word, and only while the word has not been queued.
The same promise bounds the calls to the callback of a write, which has no shared state to tell a
second call: `WriteCallsBounded`, from the exact count in `CallsInv` (`CallsCounted`), says that it is
called once more only for a request whose failed retransmission was reported besides the answer, or
for the low word if it was queued by a call that threw.

**Records that request elements** (`ElementRecordsProofs`).  When a record comes to rest its alarm speaks of the last
processing, while the registers show what any of the earlier ones has done.  `ElementInv` relates the two: only the latest
request for an element may be unanswered, and only while the record is active (`OthersOver`, `IdleInv`); what the
latest one has done is in the register (`RequestInv`); the counter is the number of pending requests, and `successful`
says whether one of this processing has failed (`PiecesInv`); an element that is taken for written
really has been (`WaveformOutInv`); and the value of the record is the one that was requested, unless the record is
still to be processed for it (`ValueInv`).  All of this holds until a callback is called twice, after which the counter may
be anything modulo `CounterModulus`; the types are a separate invariant that holds even then.
The assumption on `CounterModulus` is that the counter can hold the number of elements.

**Fine delay record** (`FineDelayRecordProofs`).  `OutputsFollowRecord` is about a device that is only written to, 51 times for
one value.  `FineDelayInv` says that an active record waits for exactly one thing, an answer, the
next step or its processing (`TokenInv`), and that the last step that was executed determines the levels of all pins
(`PinsInv`), the bits that are in the shift register (`RegisterInv`) and from the latch on the delays (`ChipsAfter`).  A
transfer that fails leaves the pins at any step; since the first steps of the next one set all of them, and the latch clock
rises only after 24 bits have been shifted in, these levels do not matter.

**Records of any kind** (`FineDelayRecordProofs`).  The kind of a record never changes, and one kind leaves the variables of the other
alone.  `RecordsInv` puts the two invariants together; with it `RecordTypes`, `RecordsFollow` and `RecordSteps`
state the safety properties of `records` for the specification that TLC checks, `MCRecords`: the types, that the device
and the outputs follow a record at rest without an alarm, and that a record finishes with the outcome of its requests and no output
gets half a delay.

**Flash memory** (`FlashProofs`).  Lemmas on what the outcomes of `PageProgram`, `BulkErase`, `PrimaryErase` and `FastRead` do to a
memory, for all sizes that satisfy the assumptions of `SpiFlash`: which addresses the commands get (three bytes of
an address), that a page program changes only its page and only by programming, and that a sector erase that failed
leaves other sectors alone.  The library's induction theorem cannot be used, since it takes an operator; `Induction`
states it for a set of numbers instead, and the functions that are defined by recursion (sectors, bytes, blocks, clocks) are
shown to have their values with it.

**JTAG chain** (`FlashProofs`).  What each function of `jtag.c` makes of a chain, for all lengths of the instruction registers and
all sizes of pages and blocks.  The lemmas climb from clocks to operations.
*Clocks*: `At(b, c, tap, pieces)` says that chain `c` is `b`, but for the controllers, which are in state
`tap`, and for what has been shifted in since the capture; each step of a command takes one such description to the next
(`AtTms`, `AtClock`, `AtShift`, ...).
*Commands*: an instruction finds the memory with every piece where it belongs, the FPGA bypassed, and ends in
Run-Test/Idle (`SirDone`); data reaches the register of the instruction and no other (`SdrDone`, `DataDone`); clocks run the
memory once (`ClocksRun`).
*Operations*: `Leads(c, commands, d)` joins commands; of the results, `Ready` is what the next command relies on, and `Keeps` names the
registers of the memory that have changed.  `XcfReadFacts`, `ProgStartFacts`, `XcfWriteFacts` (the bytes of a page are
programmed block by block, the address given only once) and `ProgEndFacts` are what the driver's proofs use.

**Files of a board** (`KernelDriverProofs`).  `EepromAlone` is a hypothesis of every theorem here: the run `driver_minors` shows that
they fail without it.  The properties of `driver` about files and memory are proved, for all kinds of boards, from one
invariant, `DriverInv`.

* `FilesInv` says what the two shared variables know of the open files: `access_device` is the device of every
  file that is open and `access_mode` its mode if it is exclusive (`OwnDevice`), references count the files of the registers (`References`), and
  if none is open nothing is denied (`ClosedAgain`), except after a release that was interrupted and after
  an open of an FPGA that the board has not: then no file is open, `access_device` stays that of the FPGA, and all are denied.
* `ChainInv` says that between two operations the chain is where a command may begin, that the pins are driven while
  anyone has a reference to them, and that the memory is enabled and has been recognized while a file of it is
  open.  `jtag_refcount` is not the number of open files: a release that was interrupted leaves one too many.
* `Buffered` says that whoever has a device open has its buffer.
* `SessionOf` is what makes `FlashHoldsImage` inductive: while a file is open for writing, the buffer holds the bytes from
  `xcf_data_pos` to the file's position, the ones before are in the flash memory or in a page that is incomplete and has
  erased bytes in their place, and, if the erase was complete, the rest of
  the area is erased (so that the next page can be programmed, `OnlyErasedProgrammed`, and the flush of a page that is not full
  writes what leaves erased bytes as they are).  The SPI controller and the chain meet in one fact about a page, `PageWritten`
  (`ChipProgramsPage`, `XcfProgramsPage`).  `GoldenImageKept` follows from what a step may change (`OnlyArea`).
* `ReadSession` is the same for reading a V2P board: the buffer is what the memory has at its position, or has no position.

**Boards and slots** (`KernelDriverProofs`).  `SlotsMatchBoards` alone says nothing about the boards to come.
The invariant adds that the slot in use of a board is the first one with its address (`SlotOf`), for each
board that is bound and each slot in use (`BoundHaveSlots`, `UsedHaveBoards`), and that the addresses of boards
that are plugged in differ: a slot that is free may keep the address of an earlier board, also of one that comes
back, but probe takes the first free slot, so that none before it is found instead.

**Only model-checked**: all liveness properties, which the prover cannot do, including the fair parts of the two
refinements (`ImplementsAtomicRegisters`, `ImplementsCallbacks`).  The safety properties of the passing runs are all proved.

## 5. Not modelled, not claimed

* The destructors, and listeners that are removed: devices are created once and live
  as long as the IOC.
* In `UdpIpClient`, requests that cannot be queued for lack of memory and a `wakeUp` that throws (`UdpIpMemoryAccess` has both).
* Numbers: the comparison of references modulo 2^32, the reordering multiplier
  (`std::max` where the comment means a minimum, `MrfUdpIpClient.cpp:875`), round-trip times, and masks and shifts of
  record values.  They have no behaviour over time and are a matter of unit tests.
* That a late write is not executed after a newer one of the same register: neither the client nor
  the protocol prevents it.  The models have it (`WriteLate`, `Execute`), and the properties of the operation queue exempt the bytes of
  such a write.  Within one 32-bit write `WrittenInOrder` holds.
* Operations submitted for ever: nothing in the operation queue orders
  them, and a 32-bit operation can be overtaken for ever by 16-bit operations on its halves.
* Loading the FPGA on PLX 9056 boards (`jtag_9056.c`) and the EEPROM (`eeprom*.c`): fixed sequences of
  bits on pins.  One thing to know: `jtag_9056_init_load_fpga` returns 0 if the FPGA does not get ready.
* In the driver, an `ev_assign_irq` that fails is ignored (modelled), removal of a board while a file is open, and
  the flash memory opened for reading and writing, which is neither erased before it is programmed nor made ready (both left out).
* Parsing and formatting, the registry, registrars and iocsh commands, the EPICS databases and the
  simulator; `PROJECT.json` gives the reason for each.
