-------------------------- MODULE MmapMemoryAccess --------------------------
(***************************************************************************)
(* MrfMmapMemoryAccess: a device is accessed through memory that its       *)
(* kernel driver maps.  A single I/O thread opens the device, executes the *)
(* queued requests and handles the interrupts, of which the driver informs *)
(* it by a SIGIO that it reads from a signal file-descriptor.  When an     *)
(* access, an ioctl or select fails, the device is closed and opened again *)
(* in the next iteration of the thread's loop.                             *)
(*                                                                         *)
(* Of the registers, only the two for interrupts are modelled: the flags   *)
(* at 0x08, which are reset by writing ones, and the enable register at    *)
(* 0x0c.  Other requests only pass through the queue.  Updates of the      *)
(* enable register come from MrfConsistentAsynchronousMemoryAccess, which  *)
(* runs one at a time: a read, and a write that is queued in its callback. *)
(*                                                                         *)
(* select returns after five seconds at the latest, so that being in it is *)
(* not told from being about to loop.                                      *)
(***************************************************************************)
EXTENDS Integers, Sequences

CONSTANTS
  Flags,        \* the interrupt sources, bits of both registers
  Updates,      \* updates of the enable register,
  FlagOf,       \*   the bit that each of them changes,
  Enables,      \*   and those that set it
  Accesses,     \* accesses to other registers
  NoRequest,    \* not a request
  FdNumbers,    \* numbers that open may give to the device
  NoFd,         \* -1
  LineInEnableRegister \* the driver's own enable bit is in the register at 0x0c
                       \* (firmware before 0x000A), or else elsewhere

ASSUME MmapAssumption ==
  /\ FlagOf \in [Updates -> Flags] /\ Enables \subseteq Updates
  /\ NoRequest \notin Updates \cup Accesses
  /\ Updates \cap Accesses = {}
  /\ NoFd \notin FdNumbers
  /\ LineInEnableRegister \in BOOLEAN

Requests == Updates \cup Accesses

VARIABLES
  \* The device and its driver.
  interruptFlags,   \* register at 0x08: the flags that are set
  interruptEnable,  \* register at 0x0c: the flags that are enabled
  line,             \* the driver has the interrupt line enabled
  sigio,            \* file descriptor in the pending SIGIO, NoFd if none is
  \* The memory access.
  ioQueue,          \* requests waiting for the I/O thread
  shutdown,
  ioThread,         \* position of the I/O thread
  request,          \* the request it has just executed
  flagsRead,        \* flags of the interrupt it is handling
  signalFd,         \* the signal file-descriptor is open
  deviceFd,         \* NoFd if the device is closed
  \* The users of the memory access.
  pending,          \* pending[r]: what r waits for, "nothing", "read" or "write"
  value             \* what the current update has read or is going to write

deviceVars == <<interruptFlags, interruptEnable, line, sigio>>
userVars == <<ioQueue, pending, value>>
fdVars == <<signalFd, deviceFd>>
mmapVars == <<deviceVars, userVars, fdVars, shutdown, ioThread, request, flagsRead>>

Positions ==
  {"loop",       \* at the beginning of the loop
   "signal",     \* about to read the signal file-descriptor
   "interrupt",  \* has an interrupt to handle
   "writeBack",  \* has read the flags
   "notify",     \* about to call the listeners
   "enable",     \* about to enable the interrupt again
   "request",    \* has no interrupt to handle
   "callback",   \* about to call the callback of the request
   "finished"}

EnableValues == [flags : SUBSET Flags, line : BOOLEAN]

MmapTypeOK ==
  /\ interruptFlags \in SUBSET Flags
  /\ interruptEnable \in SUBSET Flags
  /\ line \in BOOLEAN
  /\ sigio \in FdNumbers \cup {NoFd}
  /\ ioQueue \in Seq(Requests)
  /\ shutdown \in BOOLEAN
  /\ ioThread \in Positions
  /\ request \in Requests \cup {NoRequest}
  /\ flagsRead \in SUBSET Flags
  /\ signalFd \in BOOLEAN
  /\ deviceFd \in FdNumbers \cup {NoFd}
  /\ pending \in [Requests -> {"nothing", "read", "write"}]
  /\ value \in EnableValues

\* The device keeps its registers when the program is started again.
MmapInit ==
  /\ interruptFlags \in SUBSET Flags
  /\ interruptEnable \in SUBSET Flags
  /\ line = FALSE
  /\ sigio = NoFd
  /\ ioQueue = <<>>
  /\ shutdown = FALSE
  /\ ioThread = "loop"
  /\ request = NoRequest
  /\ flagsRead = {}
  /\ signalFd = FALSE
  /\ deviceFd = NoFd
  /\ pending = [r \in Requests |-> "nothing"]
  /\ value = [flags |-> {}, line |-> FALSE]

-----------------------------------------------------------------------------
(* The device and its driver.                                              *)

RaiseFlag(f) ==
  /\ f \notin interruptFlags
  /\ interruptFlags' = interruptFlags \cup {f}
  /\ UNCHANGED <<interruptEnable, line, sigio, userVars, fdVars, shutdown, ioThread,
                 request, flagsRead>>

\* ev_interrupt: the line is disabled and SIGIO is sent to the owner of the
\* descriptor, where it is lost if a SIGIO is still pending.
Interrupt ==
  /\ deviceFd # NoFd
  /\ line
  /\ interruptFlags \cap interruptEnable # {}
  /\ line' = FALSE
  /\ sigio' = IF sigio = NoFd THEN deviceFd ELSE sigio
  /\ UNCHANGED <<interruptFlags, interruptEnable, userVars, fdVars, shutdown, ioThread,
                 request, flagsRead>>

-----------------------------------------------------------------------------
(* The users.                                                              *)

\* Faulty variant, for testing NothingLeftBehind: shutdown is not looked at.
QueueUnchecked(r, what) ==
  /\ ioQueue' = Append(ioQueue, r)
  /\ pending' = [pending EXCEPT ![r] = what]

\* queueIoRequest: after the shutdown the request fails at once.
QueueIoRequest(r, what) ==
  IF shutdown
    THEN /\ pending' = [pending EXCEPT ![r] = "nothing"]
         /\ UNCHANGED ioQueue
    ELSE /\ ioQueue' = Append(ioQueue, r)
         /\ pending' = [pending EXCEPT ![r] = what]

Submit(r) ==
  /\ pending[r] = "nothing"
  /\ r \in Updates => \A u \in Updates : pending[u] = "nothing"
  /\ QueueIoRequest(r, "read")
  /\ UNCHANGED <<deviceVars, fdVars, value, shutdown, ioThread, request, flagsRead>>

\* The destructor.
Shutdown ==
  /\ shutdown' = TRUE
  /\ UNCHANGED <<deviceVars, userVars, fdVars, ioThread, request, flagsRead>>

-----------------------------------------------------------------------------
(* The I/O thread: opening and closing the device.                         *)

\* Closing the last descriptor makes the driver disable the line.
CloseDevice ==
  /\ deviceFd' = NoFd
  /\ line' = FALSE
  /\ ioThread' = "loop"

\* The signal file-descriptor and the device are opened if they are not open,
\* which may fail; opening the device ends with enableInterrupt.
Open ==
  /\ ioThread = "loop"
  /\ signalFd' \in BOOLEAN /\ (signalFd => signalFd')
  /\ IF deviceFd = NoFd /\ signalFd'
       THEN deviceFd' \in FdNumbers \cup {NoFd} /\ line' = (deviceFd' # NoFd)
       ELSE UNCHANGED <<deviceFd, line>>
  /\ ioThread' = "signal"
  /\ UNCHANGED <<interruptFlags, interruptEnable, sigio, userVars, shutdown, request,
                 flagsRead>>

NoSignal ==
  /\ ioThread = "signal"
  /\ signalFd => sigio = NoFd
  /\ ioThread' = "request"
  /\ UNCHANGED <<deviceVars, userVars, fdVars, shutdown, request, flagsRead>>

\* The signal is consumed, also when it is not for the device's descriptor.
ReadSignal ==
  /\ ioThread = "signal"
  /\ signalFd /\ sigio # NoFd
  /\ ioThread' = IF sigio = deviceFd THEN "interrupt" ELSE "request"
  /\ sigio' = NoFd
  /\ UNCHANGED <<interruptFlags, interruptEnable, line, userVars, fdVars, shutdown,
                 request, flagsRead>>

ReadSignalFails ==
  /\ ioThread = "signal"
  /\ signalFd
  /\ signalFd' = FALSE
  /\ ioThread' = "request"
  /\ UNCHANGED <<deviceVars, userVars, deviceFd, shutdown, request, flagsRead>>

\* The end of the thread: what is left in the queue fails.
Finish ==
  /\ ioThread \in {"interrupt", "request"}
  /\ shutdown
  /\ deviceFd' = NoFd /\ line' = FALSE
  /\ signalFd' = FALSE
  /\ ioQueue' = <<>>
  /\ pending' = [r \in Requests |-> "nothing"]
  /\ ioThread' = "finished"
  /\ UNCHANGED <<interruptFlags, interruptEnable, sigio, value, shutdown, request,
                 flagsRead>>

-----------------------------------------------------------------------------
(* The I/O thread: requests.                                               *)

Taken(r) ==
  /\ ioThread = "request"
  /\ ~shutdown
  /\ ioQueue # <<>> /\ r = Head(ioQueue)
  /\ ioQueue' = Tail(ioQueue)

\* The value of an update is changed between reading and writing.
Changed(u, v) ==
  [v EXCEPT !.flags = IF u \in Enables THEN @ \cup {FlagOf[u]} ELSE @ \ {FlagOf[u]}]

EnableRegister == [flags |-> interruptEnable, line |-> LineInEnableRegister /\ line]

Execute(r) ==
  /\ Taken(r)
  /\ deviceFd # NoFd
  /\ IF r \in Updates /\ pending[r] = "read" THEN value' = Changed(r, EnableRegister)
     ELSE UNCHANGED value
  /\ IF r \in Updates /\ pending[r] = "write"
       THEN /\ interruptEnable' = value.flags
            /\ line' = IF LineInEnableRegister THEN value.line ELSE line
       ELSE UNCHANGED <<interruptEnable, line>>
  /\ request' = r
  /\ ioThread' = "callback"
  /\ UNCHANGED <<interruptFlags, sigio, fdVars, pending, shutdown, flagsRead>>

\* Faulty variant, for testing RequestsAnswered: the callback is not called.
ExecuteForgotten(r) ==
  /\ Taken(r)
  /\ CloseDevice
  /\ UNCHANGED <<interruptFlags, interruptEnable, sigio, pending, value, signalFd, shutdown,
                 request, flagsRead>>

\* The device is not open, or the access causes a SIGBUS.
ExecuteFails(r) ==
  /\ Taken(r)
  /\ pending' = [pending EXCEPT ![r] = "nothing"]
  /\ CloseDevice
  /\ UNCHANGED <<interruptFlags, interruptEnable, sigio, value, signalFd, shutdown,
                 request, flagsRead>>

\* The callback of the read of an update queues its write.
Callback ==
  /\ ioThread = "callback"
  /\ IF request \in Updates /\ pending[request] = "read"
       THEN QueueIoRequest(request, "write")
       ELSE /\ pending' = [pending EXCEPT ![request] = "nothing"]
            /\ UNCHANGED ioQueue
  /\ request' = NoRequest
  /\ ioThread' = "loop"
  /\ UNCHANGED <<deviceVars, value, fdVars, shutdown, flagsRead>>

\* There is nothing to do: the thread sleeps in select, which may fail.
Sleep ==
  /\ ioThread = "request"
  /\ ~shutdown
  /\ ioQueue = <<>>
  /\ \/ ioThread' = "loop" /\ UNCHANGED <<deviceFd, line>>
     \/ CloseDevice
  /\ UNCHANGED <<interruptFlags, interruptEnable, sigio, userVars, signalFd, shutdown,
                 request, flagsRead>>

-----------------------------------------------------------------------------
(* The I/O thread: interrupts.                                             *)

ReadRegisters ==
  /\ ioThread = "interrupt"
  /\ ~shutdown
  /\ flagsRead' = interruptFlags
  /\ ioThread' = "writeBack"
  /\ UNCHANGED <<deviceVars, userVars, fdVars, shutdown, request>>

\* Faulty variant, for testing FlagsReported: all flags are reset.
FlagsAfterResetAll == {}

\* Flags are reset by writing ones: the value just read is written.
FlagsAfterWriteBack == interruptFlags \ flagsRead

\* Faulty variant, for testing FlagsHandled: only handled after a report.
AfterSpuriousInterruptLoop == "loop"

\* The interrupt is enabled again, also when there is nothing to report.
AfterSpuriousInterrupt == "enable"

\* Only flags that are enabled are reported.
WriteBack ==
  /\ ioThread = "writeBack"
  /\ interruptFlags' = FlagsAfterWriteBack
  /\ flagsRead' = flagsRead \cap interruptEnable
  /\ ioThread' = IF flagsRead' = {} THEN AfterSpuriousInterrupt ELSE "notify"
  /\ UNCHANGED <<interruptEnable, line, sigio, userVars, fdVars, shutdown, request>>

NotifyListeners ==
  /\ ioThread = "notify"
  /\ flagsRead' = {}
  /\ ioThread' = "enable"
  /\ UNCHANGED <<deviceVars, userVars, fdVars, shutdown, request>>

\* Faulty variant, for testing InterruptsWatched: the line stays disabled.
LineLeft == line

LineEnabled == TRUE

EnableInterrupt ==
  /\ ioThread = "enable"
  /\ line' = LineEnabled
  /\ ioThread' = "loop"
  /\ UNCHANGED <<interruptFlags, interruptEnable, sigio, userVars, fdVars, shutdown,
                 request, flagsRead>>

\* A register cannot be accessed or the interrupt cannot be enabled.
HandleFails ==
  /\ ioThread \in {"interrupt", "writeBack", "enable"}
  /\ ioThread = "interrupt" => ~shutdown
  /\ flagsRead' = {}
  /\ CloseDevice
  /\ UNCHANGED <<interruptFlags, interruptEnable, sigio, userVars, signalFd, shutdown,
                 request>>

-----------------------------------------------------------------------------
IoThread ==
  \/ Open \/ NoSignal \/ ReadSignal \/ ReadSignalFails \/ Finish
  \/ \E r \in Requests : Execute(r) \/ ExecuteFails(r)
  \/ Callback \/ Sleep
  \/ ReadRegisters \/ WriteBack \/ EnableInterrupt \/ HandleFails

Environment ==
  \/ Interrupt \/ Shutdown
  \/ \E f \in Flags : RaiseFlag(f)
  \/ \E r \in Requests : Submit(r)

MmapNext == IoThread \/ NotifyListeners \/ Environment

MmapSpec == MmapInit /\ [][MmapNext]_mmapVars

(***************************************************************************)
(* The I/O thread keeps running, the listeners return and the device       *)
(* interrupts as soon as it may.                                           *)
(***************************************************************************)
MmapFairness ==
  /\ WF_mmapVars(IoThread)
  /\ WF_mmapVars(NotifyListeners)
  /\ WF_mmapVars(Interrupt)

-----------------------------------------------------------------------------
(* Properties.                                                             *)

(***************************************************************************)
(* While the device is open, no interrupt is missed for good: the line is  *)
(* enabled, or the signal that was sent when the driver disabled it is     *)
(* pending, or the I/O thread is handling the interrupt, after which "we   *)
(* have to reenable interrupts".                                           *)
(***************************************************************************)
Handling == ioThread \in {"interrupt", "writeBack", "notify", "enable"}

InterruptsWatched ==
  deviceFd # NoFd => line \/ sigio = deviceFd \/ Handling

(***************************************************************************)
(* A flag that is enabled is only reset together with its report to the    *)
(* listeners: "there is no risk of missing an interrupt that occurs        *)
(* between reading and writing".                                           *)
(***************************************************************************)
FlagsReported ==
  [][(interruptFlags \ interruptFlags') \cap interruptEnable \subseteq flagsRead']_mmapVars

(***************************************************************************)
(* A request is in the queue, once, exactly as long as its user waits for  *)
(* it, unless the I/O thread is executing it: a shutdown leaves nobody     *)
(* behind, as                                                              *)
(* "no requests are added after setting the shutdown flag".                *)
(***************************************************************************)
Queued(r) == \E i \in 1 .. Len(ioQueue) : ioQueue[i] = r

NothingLeftBehind ==
  /\ \A i, j \in 1 .. Len(ioQueue) : ioQueue[i] = ioQueue[j] => i = j
  /\ \A r \in Requests : Queued(r) <=> pending[r] # "nothing" /\ request # r
  /\ ioThread = "finished" => \A r \in Requests : pending[r] = "nothing"

(***************************************************************************)
(* If there are no more errors that close the device or the signal file-   *)
(* descriptor, a flag that is set and enabled is handled in the end, also  *)
(* when it was set before or while the device was closed.                  *)
(***************************************************************************)
StaysOpen == <>[]((signalFd /\ deviceFd # NoFd) \/ shutdown)

FlagsHandled ==
  StaysOpen => \A f \in Flags : []<>(f \notin interruptFlags \cap interruptEnable \/ shutdown)

(***************************************************************************)
(* Every request is answered, if there are no more errors or the device    *)
(* stays closed, and if interrupts cease: they are handled before          *)
(* requests, so that requests may starve otherwise.                        *)
(***************************************************************************)
StaysClosed == <>[](deviceFd = NoFd)
InterruptsCease == <>[][interruptFlags' \subseteq interruptFlags]_interruptFlags

RequestsAnswered ==
  (StaysOpen \/ StaysClosed) /\ InterruptsCease
    => \A r \in Requests : []<>(pending[r] = "nothing")
=============================================================================
