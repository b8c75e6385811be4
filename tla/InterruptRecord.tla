--------------------------- MODULE InterruptRecord ---------------------------
(***************************************************************************)
(* MrfInterruptRecord: a listener of MmapMemoryAccess, called by the I/O   *)
(* thread, puts the flags of an interrupt into a queue and asks EPICS to   *)
(* process the record, which takes one element from the queue each time.   *)
(*                                                                         *)
(* EPICS is external: it holds the record's lock while it processes the    *)
(* record and while it changes its SCAN.  When SCAN becomes I/O Intr, it   *)
(* asks for the interrupt info first and then puts the record on the scan  *)
(* list.  A scan request makes a callback thread process the records that  *)
(* are on this list, so that it is lost when there are none.               *)
(***************************************************************************)
EXTENDS MmapMemoryAccess

CONSTANTS
  interruptFlagsMask,   \* the flags the record is sensitive to
  MaxQueue,             \* 1024 in the code
  MaxScanRequests       \* bound on the requests EPICS has queued

ASSUME RecordAssumption ==
  /\ interruptFlagsMask \subseteq Flags
  /\ MaxQueue \in Nat \ {0}
  /\ MaxScanRequests \in Nat \ {0}

VARIABLES
  interruptFlagsQueue,   \* interrupts that have not been processed
  interruptModeEnabled,
  listener,              \* position of the listener
  recordThread,          \* position of the thread that holds the record's lock
  onScanList,            \* EPICS has put the record on the scan list
  scanRequests           \* requests to process that list

queueVars == <<interruptFlagsQueue, interruptModeEnabled>>
scanVars == <<onScanList, scanRequests>>
recordVars == <<queueVars, listener, recordThread, scanVars>>
vars == <<mmapVars, recordVars>>

RecordTypeOK ==
  /\ interruptFlagsQueue \in Seq((SUBSET interruptFlagsMask) \ {{}})
  /\ Len(interruptFlagsQueue) <= MaxQueue
  /\ interruptModeEnabled \in BOOLEAN
  /\ listener \in {"waiting", "request", "returned"}
  /\ recordThread \in {"idle",      \* nobody has the lock
                       "request",   \* getInterruptInfo, after the mutex
                       "join",      \* about to put the record on the list
                       "again"}     \* processRecord, after the mutex
  /\ onScanList \in BOOLEAN
  /\ scanRequests \in 0 .. MaxScanRequests

TypeOK == MmapTypeOK /\ RecordTypeOK

Init ==
  /\ MmapInit
  /\ interruptFlagsQueue = <<>>
  /\ interruptModeEnabled = FALSE
  /\ listener = "waiting"
  /\ recordThread = "idle"
  /\ onScanList = FALSE
  /\ scanRequests = 0

\* scanIoRequest, which drops the request if there are too many already.
ScanIoRequest ==
  scanRequests' = IF onScanList /\ scanRequests < MaxScanRequests THEN scanRequests + 1
                  ELSE scanRequests

-----------------------------------------------------------------------------
(* The listener, in the I/O thread.                                        *)

Latest(n) ==
  IF Len(interruptFlagsQueue) <= n THEN interruptFlagsQueue
  ELSE SubSeq(interruptFlagsQueue, Len(interruptFlagsQueue) - n + 1, Len(interruptFlagsQueue))

\* Faulty variant, for testing TypeOK: room is made for one element too few.
KeptTooMany == IF interruptModeEnabled THEN Latest(MaxQueue) ELSE <<>>

\* The elements that are kept when one is added.
Kept == IF interruptModeEnabled THEN Latest(MaxQueue - 1) ELSE <<>>

\* Only the first element is announced.
Announced == interruptModeEnabled /\ interruptFlagsQueue = <<>>

Listen ==
  /\ ioThread = "notify" /\ listener = "waiting"
  /\ LET flags == flagsRead \cap interruptFlagsMask
     IN  IF flags = {}
           THEN listener' = "returned" /\ UNCHANGED interruptFlagsQueue
           ELSE /\ listener' = IF Announced THEN "request" ELSE "returned"
                /\ interruptFlagsQueue' = Append(Kept, flags)
  /\ UNCHANGED <<mmapVars, interruptModeEnabled, recordThread, scanVars>>

Announce ==
  /\ listener = "request"
  /\ listener' = "returned"
  /\ ScanIoRequest
  /\ UNCHANGED <<mmapVars, queueVars, recordThread, onScanList>>

Return ==
  /\ listener = "returned"
  /\ NotifyListeners
  /\ listener' = "waiting"
  /\ UNCHANGED <<queueVars, recordThread, scanVars>>

-----------------------------------------------------------------------------
(* The record.                                                             *)

\* getInterruptInfo, when SCAN becomes I/O Intr.
EnableInterruptMode ==
  /\ recordThread = "idle" /\ ~onScanList
  /\ interruptModeEnabled' = TRUE
  /\ recordThread' = IF interruptFlagsQueue # <<>> THEN "request" ELSE "join"
  /\ UNCHANGED <<mmapVars, interruptFlagsQueue, listener, scanVars>>

RequestProcessing ==
  /\ recordThread = "request"
  /\ recordThread' = "join"
  /\ ScanIoRequest
  /\ UNCHANGED <<mmapVars, queueVars, listener, onScanList>>

JoinScanList ==
  /\ recordThread = "join"
  /\ onScanList' = TRUE
  /\ recordThread' = "idle"
  /\ UNCHANGED <<mmapVars, queueVars, listener, scanRequests>>

\* getInterruptInfo, when SCAN is changed from I/O Intr to something else.
DisableInterruptMode ==
  /\ recordThread = "idle" /\ onScanList
  /\ interruptModeEnabled' = FALSE
  /\ onScanList' = FALSE
  /\ UNCHANGED <<mmapVars, interruptFlagsQueue, listener, recordThread, scanRequests>>

\* Faulty variant, for testing QueueStaysWatched: nothing is asked for again.
ProcessOne ==
  /\ interruptFlagsQueue' = IF interruptFlagsQueue = <<>> THEN <<>>
                            ELSE Tail(interruptFlagsQueue)
  /\ recordThread' = "idle"

\* Faulty variant, for testing QueueServed: the element stays in the queue.
ProcessFront ==
  /\ recordThread' = IF interruptFlagsQueue # <<>> /\ interruptModeEnabled THEN "again"
                     ELSE "idle"
  /\ UNCHANGED interruptFlagsQueue

ProcessRecord ==
  /\ interruptFlagsQueue' = IF interruptFlagsQueue = <<>> THEN <<>>
                            ELSE Tail(interruptFlagsQueue)
  /\ recordThread' = IF interruptFlagsQueue' # <<>> /\ interruptModeEnabled THEN "again"
                     ELSE "idle"

ScanAgain ==
  /\ recordThread = "again"
  /\ recordThread' = "idle"
  /\ ScanIoRequest
  /\ UNCHANGED <<mmapVars, queueVars, listener, onScanList>>

\* A callback thread executes a scan request.
ScanCallback ==
  /\ recordThread = "idle"
  /\ scanRequests > 0
  /\ scanRequests' = scanRequests - 1
  /\ IF onScanList THEN ProcessRecord ELSE UNCHANGED <<interruptFlagsQueue, recordThread>>
  /\ UNCHANGED <<mmapVars, interruptModeEnabled, listener, onScanList>>

\* The record is processed for another reason, such as PINI or a link.
Process ==
  /\ recordThread = "idle"
  /\ ProcessRecord
  /\ UNCHANGED <<mmapVars, interruptModeEnabled, listener, scanVars>>

-----------------------------------------------------------------------------
Listener == Listen \/ Announce \/ Return
RecordThread == RequestProcessing \/ JoinScanList \/ ScanAgain

Next ==
  \/ IoThread /\ UNCHANGED recordVars
  \/ Environment /\ UNCHANGED recordVars
  \/ Listener \/ RecordThread
  \/ EnableInterruptMode \/ DisableInterruptMode \/ ScanCallback \/ Process

Spec == Init /\ [][Next]_vars

(***************************************************************************)
(* As in MmapMemoryAccess; EPICS executes the scan requests, gets the lock *)
(* in the end, and finishes what it does with the record.                  *)
(***************************************************************************)
Fairness ==
  /\ WF_vars(IoThread /\ UNCHANGED recordVars)
  /\ WF_vars(Interrupt /\ UNCHANGED recordVars)
  /\ WF_vars(Listener)
  /\ WF_vars(RecordThread)
  /\ SF_vars(ScanCallback)

FairSpec == Spec /\ Fairness

-----------------------------------------------------------------------------
(* Properties.                                                             *)

(***************************************************************************)
(* In I/O Intr mode an interrupt in the queue is going to be processed:    *)
(* "when the queue is not empty, the interrupt handler will not trigger a  *)
(* processing", so that somebody else has to, or "the record would never   *)
(* be processed".  This fails when SCAN becomes I/O Intr with an interrupt *)
(* in the queue, as processing is requested before the record is on the    *)
(* scan list.                                                              *)
(***************************************************************************)
QueueWatched ==
  interruptModeEnabled /\ interruptFlagsQueue # <<>> =>
    \/ scanRequests > 0
    \/ listener = "request"
    \/ recordThread # "idle"

(***************************************************************************)
(* While the record is on the scan list, a queue that is empty or going to *)
(* be processed never gets stuck: the listener, which announces the first  *)
(* interrupt after it has released the mutex, and processRecord, which     *)
(* asks for the next one after it has released it, do not miss each other. *)
(***************************************************************************)
QueueStaysWatched == [][onScanList /\ QueueWatched /\ onScanList' => QueueWatched']_vars

(***************************************************************************)
(* If so, all interrupts reported to the record are processed in the end:  *)
(* its queue is empty or an element is taken from it, again and again.     *)
(***************************************************************************)
QueueServed ==
  <>[]QueueWatched =>
    \/ []<>(interruptFlagsQueue = <<>> \/ ~interruptModeEnabled)
    \/ []<><<Len(interruptFlagsQueue') < Len(interruptFlagsQueue)>>_vars
=============================================================================
