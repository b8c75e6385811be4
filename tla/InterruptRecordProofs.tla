------------------------ MODULE InterruptRecordProofs ------------------------
(***************************************************************************)
(* Theorems about MmapMemoryAccess and InterruptRecord, for every set of   *)
(* interrupt sources and requests and every size of the queue.             *)
(***************************************************************************)
EXTENDS InterruptRecord, TLAPS

-----------------------------------------------------------------------------
(* Facts about queues.                                                     *)

\* Append puts an element behind those of the sequence.
LEMMA AppendFacts ==
  ASSUME NEW S, NEW s \in Seq(S), NEW e \in S
  PROVE  /\ Append(s, e) \in Seq(S)
         /\ Len(Append(s, e)) = Len(s) + 1
         /\ \A i \in 1 .. Len(s) : Append(s, e)[i] = s[i]
         /\ Append(s, e)[Len(s) + 1] = e
  OBVIOUS

\* Tail moves the elements one place.
LEMMA TailFacts ==
  ASSUME NEW S, NEW s \in Seq(S), s # <<>>
  PROVE  /\ Tail(s) \in Seq(S)
         /\ Len(s) \in Nat \ {0}
         /\ Len(Tail(s)) = Len(s) - 1
         /\ \A i \in 1 .. Len(Tail(s)) : Tail(s)[i] = s[i + 1]
         /\ Head(s) = s[1]
         /\ Head(s) \in S
  OBVIOUS

\* The queue of interrupts stays a queue when the oldest ones are dropped, and
\* has room for one more.
LEMMA KeptFacts ==
  ASSUME NEW S, interruptFlagsQueue \in Seq(S), Len(interruptFlagsQueue) <= MaxQueue
  PROVE  /\ Kept \in Seq(S)
         /\ Len(Kept) <= MaxQueue - 1
<1> DEFINE q == interruptFlagsQueue
           n == MaxQueue - 1
<1>1. MaxQueue \in Nat \ {0}
  BY RecordAssumption
<1>2. CASE ~interruptModeEnabled
  BY <1>1, <1>2 DEF Kept
<1>3. CASE interruptModeEnabled /\ Len(q) <= n
  BY <1>1, <1>3 DEF Kept, Latest
<1>4. CASE interruptModeEnabled /\ ~(Len(q) <= n)
  <2>1. Len(q) = MaxQueue
    BY <1>1, <1>4
  <2>2. Kept = SubSeq(q, 2, Len(q))
    BY <1>1, <1>4, <2>1 DEF Kept, Latest
  <2>3. SubSeq(q, 2, Len(q)) = Tail(q)
    BY <1>1, <2>1
  <2>. QED BY <1>1, <2>1, <2>2, <2>3, TailFacts
<1>. QED BY <1>2, <1>3, <1>4

-----------------------------------------------------------------------------
(* Type correctness.                                                       *)

LEMMA InitTypeOK == Init => TypeOK
<1> SUFFICES ASSUME Init PROVE TypeOK
  OBVIOUS
<1>1. MmapTypeOK
  <2> USE DEF Init, MmapInit
  <2>1. ioQueue \in Seq(Requests)
    OBVIOUS
  <2>2. pending \in [Requests -> {"nothing", "read", "write"}]
    OBVIOUS
  <2>3. value \in EnableValues
    BY DEF EnableValues
  <2>4. ioThread \in Positions
    BY DEF Positions
  <2>. QED BY <2>1, <2>2, <2>3, <2>4 DEF MmapTypeOK
<1>2. RecordTypeOK
  <2>1. interruptFlagsQueue \in Seq((SUBSET interruptFlagsMask) \ {{}}) /\ Len(interruptFlagsQueue) = 0
    BY DEF Init
  <2>2. Len(interruptFlagsQueue) <= MaxQueue /\ scanRequests \in 0 .. MaxScanRequests
    BY <2>1, RecordAssumption DEF Init
  <2>. QED BY <2>1, <2>2 DEF Init, RecordTypeOK
<1>. QED BY <1>1, <1>2 DEF TypeOK

LEMMA IoThreadType ==
  ASSUME MmapTypeOK, IoThread
  PROVE  MmapTypeOK'
<1> USE DEF MmapTypeOK, Positions, EnableValues, deviceVars, userVars, fdVars
<1>1. CASE Open
  <2>1. signalFd' \in BOOLEAN /\ deviceFd' \in FdNumbers \cup {NoFd} /\ line' \in BOOLEAN
    BY <1>1 DEF Open
  <2>. QED BY <1>1, <2>1 DEF Open
<1>2. CASE NoSignal \/ ReadSignal \/ ReadSignalFails
  BY <1>2, MmapAssumption DEF NoSignal, ReadSignal, ReadSignalFails
<1>3. CASE Finish
  <2>1. pending' \in [Requests -> {"nothing", "read", "write"}]
    BY <1>3 DEF Finish
  <2>2. ioQueue' \in Seq(Requests)
    BY <1>3 DEF Finish
  <2>. QED BY <1>3, <2>1, <2>2 DEF Finish
<1>4. ASSUME NEW r \in Requests, Execute(r) PROVE MmapTypeOK'
  <2>1. ioQueue' \in Seq(Requests)
    BY <1>4, TailFacts DEF Execute, Taken
  <2>2. value' \in EnableValues
    <3>1. EnableRegister \in EnableValues
      BY DEF EnableRegister
    <3>2. ASSUME NEW u \in Updates PROVE Changed(u, EnableRegister) \in EnableValues
      <4>1. FlagOf[u] \in Flags
        BY MmapAssumption
      <4>. QED BY <3>1, <4>1 DEF Changed
    <3>. QED BY <1>4, <3>2 DEF Execute
  <2>3. interruptEnable' \in SUBSET Flags /\ line' \in BOOLEAN
    BY <1>4 DEF Execute
  <2>. QED BY <1>4, <2>1, <2>2, <2>3 DEF Execute
<1>5. ASSUME NEW r \in Requests, ExecuteFails(r) PROVE MmapTypeOK'
  BY <1>5, TailFacts DEF ExecuteFails, Taken, CloseDevice
<1>6. CASE Callback
  BY SMTT(30), <1>6, AppendFacts DEF Callback, QueueIoRequest, Requests
<1>7. CASE Sleep
  BY <1>7 DEF Sleep, CloseDevice
<1>8. CASE ReadRegisters \/ WriteBack
  BY <1>8 DEF ReadRegisters, WriteBack, FlagsAfterWriteBack, AfterSpuriousInterrupt
<1>9. CASE EnableInterrupt \/ HandleFails
  BY <1>9 DEF EnableInterrupt, LineEnabled, HandleFails, CloseDevice
<1>. QED BY <1>1, <1>2, <1>3, <1>4, <1>5, <1>6, <1>7, <1>8, <1>9 DEF IoThread

LEMMA EnvironmentType ==
  ASSUME MmapTypeOK, Environment
  PROVE  MmapTypeOK'
<1> USE DEF MmapTypeOK, Positions, EnableValues, deviceVars, userVars, fdVars
<1>1. CASE Interrupt \/ Shutdown
  BY <1>1 DEF Interrupt, Shutdown
<1>2. ASSUME NEW f \in Flags, RaiseFlag(f) PROVE MmapTypeOK'
  BY <1>2 DEF RaiseFlag
<1>3. ASSUME NEW r \in Requests, Submit(r) PROVE MmapTypeOK'
  BY <1>3, AppendFacts DEF Submit, QueueIoRequest
<1>. QED BY <1>1, <1>2, <1>3 DEF Environment

LEMMA NotifyType == MmapTypeOK /\ NotifyListeners => MmapTypeOK'
  BY DEF MmapTypeOK, Positions, NotifyListeners, deviceVars, userVars, fdVars

LEMMA MmapStutterType == MmapTypeOK /\ UNCHANGED mmapVars => MmapTypeOK'
  BY DEF MmapTypeOK, mmapVars, deviceVars, userVars, fdVars

LEMMA RecordStutterType == RecordTypeOK /\ UNCHANGED recordVars => RecordTypeOK'
  BY DEF RecordTypeOK, recordVars, queueVars, scanVars

\* Asking for processing keeps the number of requests in its range.
LEMMA ScanIoRequestType ==
  ASSUME RecordTypeOK, ScanIoRequest
  PROVE  scanRequests' \in 0 .. MaxScanRequests
  BY RecordAssumption DEF RecordTypeOK, ScanIoRequest

LEMMA ListenerType ==
  ASSUME TypeOK, Listener
  PROVE  TypeOK'
<1> USE DEF TypeOK, queueVars, scanVars
<1>1. CASE Listen
  <2> DEFINE S == (SUBSET interruptFlagsMask) \ {{}}
             flags == flagsRead \cap interruptFlagsMask
  <2>1. CASE flags = {}
    BY <1>1, <2>1, MmapStutterType DEF Listen, RecordTypeOK
  <2>2. CASE flags # {}
    <3>1. Kept \in Seq(S) /\ Len(Kept) <= MaxQueue - 1
      <4>1. interruptFlagsQueue \in Seq(S) /\ Len(interruptFlagsQueue) <= MaxQueue
        BY DEF RecordTypeOK
      <4> HIDE DEF S
      <4>. QED BY <4>1, KeptFacts
    <3>2. flags \in S
      BY <2>2
    <3>3. Append(Kept, flags) \in Seq(S) /\ Len(Append(Kept, flags)) = Len(Kept) + 1
      BY <3>1, <3>2, AppendFacts
    <3>4. interruptFlagsQueue' = Append(Kept, flags)
      BY <1>1, <2>2 DEF Listen
    <3>5. Len(interruptFlagsQueue') <= MaxQueue
      BY <3>1, <3>3, <3>4, RecordAssumption
    <3>. QED BY <1>1, <3>3, <3>4, <3>5, MmapStutterType DEF Listen, RecordTypeOK
  <2>. QED BY <2>1, <2>2
<1>2. CASE Announce
  BY <1>2, MmapStutterType, ScanIoRequestType DEF Announce, RecordTypeOK
<1>3. CASE Return
  BY <1>3, NotifyType DEF Return, RecordTypeOK
<1>. QED BY <1>1, <1>2, <1>3 DEF Listener

LEMMA ProcessRecordType ==
  ASSUME RecordTypeOK, ProcessRecord
  PROVE  /\ interruptFlagsQueue' \in Seq((SUBSET interruptFlagsMask) \ {{}})
         /\ Len(interruptFlagsQueue') <= MaxQueue
         /\ recordThread' \in {"idle", "again"}
<1>1. CASE interruptFlagsQueue = <<>>
  BY <1>1 DEF RecordTypeOK, ProcessRecord
<1>2. CASE interruptFlagsQueue # <<>>
  BY <1>2, TailFacts, RecordAssumption DEF RecordTypeOK, ProcessRecord
<1>. QED BY <1>1, <1>2

LEMMA RecordType ==
  ASSUME TypeOK,
         RecordThread \/ EnableInterruptMode \/ DisableInterruptMode \/ ScanCallback
           \/ Process
  PROVE  TypeOK'
<1> USE DEF TypeOK, queueVars, scanVars
<1>1. CASE RequestProcessing \/ ScanAgain
  BY <1>1, MmapStutterType, ScanIoRequestType
     DEF RequestProcessing, ScanAgain, RecordTypeOK
<1>2. CASE JoinScanList \/ EnableInterruptMode \/ DisableInterruptMode
  BY <1>2, MmapStutterType
     DEF JoinScanList, EnableInterruptMode, DisableInterruptMode, RecordTypeOK
<1>3. CASE ScanCallback
  <2>1. scanRequests' \in 0 .. MaxScanRequests
    BY <1>3, RecordAssumption DEF ScanCallback, RecordTypeOK
  <2>2. CASE onScanList
    BY <1>3, <2>1, <2>2, MmapStutterType, ProcessRecordType DEF ScanCallback, RecordTypeOK
  <2>3. CASE ~onScanList
    BY <1>3, <2>1, <2>3, MmapStutterType DEF ScanCallback, RecordTypeOK
  <2>. QED BY <2>2, <2>3
<1>4. CASE Process
  BY <1>4, MmapStutterType, ProcessRecordType DEF Process, RecordTypeOK
<1>. QED BY <1>1, <1>2, <1>3, <1>4 DEF RecordThread

LEMMA NextTypeOK == TypeOK /\ [Next]_vars => TypeOK'
<1> SUFFICES ASSUME TypeOK, [Next]_vars PROVE TypeOK'
  OBVIOUS
<1>1. CASE (IoThread \/ Environment) /\ UNCHANGED recordVars
  BY <1>1, IoThreadType, EnvironmentType, RecordStutterType DEF TypeOK
<1>2. CASE Listener
  BY <1>2, ListenerType
<1>3. CASE RecordThread \/ EnableInterruptMode \/ DisableInterruptMode \/ ScanCallback
             \/ Process
  BY <1>3, RecordType
<1>4. CASE UNCHANGED vars
  BY <1>4, MmapStutterType, RecordStutterType DEF TypeOK, vars
<1>. QED BY <1>1, <1>2, <1>3, <1>4 DEF Next

(***************************************************************************)
(* Every variable keeps its type; in particular, the queue of interrupts   *)
(* never holds more than MaxQueue elements, and none without a flag.       *)
(***************************************************************************)
THEOREM TypeCorrect == Spec => []TypeOK
  BY InitTypeOK, NextTypeOK, PTL DEF Spec

-----------------------------------------------------------------------------
(* Interrupts of the device.                                               *)

\* The flags that are reset were read before, and those that are enabled are
\* kept for the listeners.
LEMMA StepReports ==
  ASSUME TypeOK, [Next]_vars
  PROVE  (interruptFlags \ interruptFlags') \cap interruptEnable \subseteq flagsRead'
<1> USE DEF deviceVars, mmapVars, vars
<1>1. CASE WriteBack
  BY <1>1 DEF WriteBack, FlagsAfterWriteBack
<1>2. CASE IoThread /\ ~WriteBack
  BY <1>2 DEF IoThread, Open, NoSignal, ReadSignal, ReadSignalFails, Finish, Execute,
              ExecuteFails, Callback, Sleep, ReadRegisters, EnableInterrupt, HandleFails
<1>3. CASE Environment
  BY <1>3 DEF Environment, Interrupt, Shutdown, RaiseFlag, Submit
<1>4. CASE Listener
  BY <1>4 DEF Listener, Listen, Announce, Return, NotifyListeners
<1>5. CASE RecordThread \/ EnableInterruptMode \/ DisableInterruptMode \/ ScanCallback
             \/ Process
  BY <1>5 DEF RecordThread, RequestProcessing, JoinScanList, ScanAgain, EnableInterruptMode,
              DisableInterruptMode, ScanCallback, Process
<1>6. CASE UNCHANGED vars
  BY <1>6
<1>. QED BY <1>1, <1>2, <1>3, <1>4, <1>5, <1>6 DEF Next

(***************************************************************************)
(* No flag that is enabled is reset without being reported, whatever the   *)
(* device does between the read and the write of its flag register.        *)
(***************************************************************************)
THEOREM FlagsReportedHolds == Spec => FlagsReported
<1>1. TypeOK /\ [Next]_vars
        => [(interruptFlags \ interruptFlags') \cap interruptEnable \subseteq flagsRead']_mmapVars
  BY StepReports
<1>. QED BY <1>1, TypeCorrect, PTL DEF Spec, FlagsReported

\* The line is enabled, or its signal is under way or being handled.
LEMMA StepWatched ==
  ASSUME NEW fd, FdNumbers = {fd}, ~LineInEnableRegister,
         TypeOK, InterruptsWatched, [Next]_vars
  PROVE  InterruptsWatched'
<1> USE MmapAssumption DEF TypeOK, MmapTypeOK, InterruptsWatched, Handling, fdVars, deviceVars,
                           mmapVars, vars
<1>1. CASE Open
  BY <1>1 DEF Open
<1>2. CASE NoSignal \/ ReadSignal \/ ReadSignalFails
  BY <1>2 DEF NoSignal, ReadSignal, ReadSignalFails
<1>3. CASE Finish \/ Sleep \/ HandleFails
  BY <1>3 DEF Finish, Sleep, HandleFails, CloseDevice
<1>4. ASSUME NEW r \in Requests, Execute(r) PROVE InterruptsWatched'
  BY <1>4 DEF Execute, Taken
<1>5. ASSUME NEW r \in Requests, ExecuteFails(r) PROVE InterruptsWatched'
  BY <1>5 DEF ExecuteFails, CloseDevice
<1>6. CASE Callback
  BY <1>6 DEF Callback
<1>7. CASE ReadRegisters \/ WriteBack
  BY <1>7 DEF ReadRegisters, WriteBack, AfterSpuriousInterrupt
<1>8. CASE EnableInterrupt
  BY <1>8 DEF EnableInterrupt, LineEnabled
<1>9. CASE Interrupt
  BY <1>9 DEF Interrupt
<1>10. CASE Environment /\ ~Interrupt
  BY <1>10 DEF Environment, Shutdown, RaiseFlag, Submit
<1>11. CASE Listener
  BY <1>11 DEF Listener, Listen, Announce, Return, NotifyListeners
<1>12. CASE RecordThread \/ EnableInterruptMode \/ DisableInterruptMode \/ ScanCallback
              \/ Process
  BY <1>12 DEF RecordThread, RequestProcessing, JoinScanList, ScanAgain,
               EnableInterruptMode, DisableInterruptMode, ScanCallback, Process
<1>13. CASE UNCHANGED vars
  BY <1>13
<1>. QED BY <1>1, <1>2, <1>3, <1>4, <1>5, <1>6, <1>7, <1>8, <1>9, <1>10, <1>11, <1>12, <1>13
     DEF Next, IoThread

(***************************************************************************)
(* While the device is open no interrupt is missed for good, if the device *)
(* always gets the same descriptor and the driver's enable bit is not in   *)
(* the register that updates write.  Neither assumption can be dropped.    *)
(***************************************************************************)
THEOREM InterruptsWatchedHolds ==
  ASSUME NEW CONSTANT fd, FdNumbers = {fd}, ~LineInEnableRegister
  PROVE  Spec => []InterruptsWatched
<1>1. Init => InterruptsWatched
  BY DEF Init, MmapInit, InterruptsWatched
<1>2. TypeOK /\ InterruptsWatched /\ [Next]_vars => InterruptsWatched'
  BY StepWatched
<1>. QED BY <1>1, <1>2, TypeCorrect, PTL DEF Spec

-----------------------------------------------------------------------------
(* Requests.                                                               *)

\* What NothingLeftBehind needs to be inductive: a request is being executed
\* until its callback is called, and the thread stops only after a shutdown.
RequestInv ==
  /\ request # NoRequest <=> ioThread = "callback"
  /\ request # NoRequest => pending[request] # "nothing"
  /\ ioThread = "finished" => shutdown

LeftBehindInv == TypeOK /\ RequestInv /\ NothingLeftBehind

QueuedOnce == \A i, j \in 1 .. Len(ioQueue) : ioQueue[i] = ioQueue[j] => i = j

\* A request that is not in the queue is added to it.
LEMMA Enqueue ==
  ASSUME MmapTypeOK, QueuedOnce, NEW r \in Requests, ~Queued(r),
         ioQueue' = Append(ioQueue, r)
  PROVE  QueuedOnce' /\ \A s \in Requests : Queued(s)' <=> Queued(s) \/ s = r
<1>1. ioQueue \in Seq(Requests) /\ Len(ioQueue) \in Nat
  BY DEF MmapTypeOK
<1>2. /\ Len(ioQueue') = Len(ioQueue) + 1
      /\ \A i \in 1 .. Len(ioQueue) : ioQueue'[i] = ioQueue[i]
      /\ ioQueue'[Len(ioQueue) + 1] = r
  BY <1>1, AppendFacts
<1>3. \A i \in 1 .. Len(ioQueue') : i \in 1 .. Len(ioQueue) \/ i = Len(ioQueue) + 1
  BY <1>1, <1>2
<1>4. QueuedOnce'
  BY <1>1, <1>2, <1>3 DEF QueuedOnce, Queued
<1>5. ASSUME NEW s \in Requests PROVE Queued(s)' <=> Queued(s) \/ s = r
  <2>1. ASSUME Queued(s)' PROVE Queued(s) \/ s = r
    BY <2>1, <1>2, <1>3 DEF Queued
  <2>2. ASSUME Queued(s) PROVE Queued(s)'
    <3>1. PICK i \in 1 .. Len(ioQueue) : ioQueue[i] = s
      BY <2>2 DEF Queued
    <3>2. i \in 1 .. Len(ioQueue') /\ ioQueue'[i] = s
      BY <3>1, <1>1, <1>2
    <3>. QED BY <3>2 DEF Queued
  <2>3. ASSUME s = r PROVE Queued(s)'
    <3>1. Len(ioQueue) + 1 \in 1 .. Len(ioQueue')
      BY <1>1, <1>2
    <3>. QED BY <2>3, <3>1, <1>2 DEF Queued
  <2>. QED BY <2>1, <2>2, <2>3
<1>. QED BY <1>4, <1>5

\* The first request is taken from the queue.
LEMMA Dequeue ==
  ASSUME MmapTypeOK, QueuedOnce, NEW r, Taken(r)
  PROVE  /\ r \in Requests
         /\ Queued(r)
         /\ QueuedOnce'
         /\ \A s \in Requests : Queued(s)' <=> Queued(s) /\ s # r
<1>1. ioQueue \in Seq(Requests) /\ ioQueue # <<>>
  BY DEF MmapTypeOK, Taken
<1>2. /\ Len(ioQueue) \in Nat \ {0}
      /\ Len(ioQueue') = Len(ioQueue) - 1
      /\ \A i \in 1 .. Len(ioQueue') : ioQueue'[i] = ioQueue[i + 1]
      /\ r = ioQueue[1] /\ r \in Requests
  BY <1>1, TailFacts DEF Taken
<1>3. \A i \in 1 .. Len(ioQueue') : i + 1 \in 1 .. Len(ioQueue) /\ i + 1 # 1
  BY <1>2
<1>4. Queued(r)
  BY <1>2 DEF Queued
<1>5. QueuedOnce'
  <2> SUFFICES ASSUME NEW i \in 1 .. Len(ioQueue'), NEW j \in 1 .. Len(ioQueue'),
                      ioQueue'[i] = ioQueue'[j]
               PROVE  i = j
    BY DEF QueuedOnce
  <2>1. i + 1 = j + 1
    BY <1>2, <1>3 DEF QueuedOnce
  <2>. QED BY <2>1
<1>6. ASSUME NEW s \in Requests PROVE Queued(s)' <=> Queued(s) /\ s # r
  <2>1. ASSUME Queued(s)' PROVE Queued(s) /\ s # r
    <3>1. PICK i \in 1 .. Len(ioQueue') : ioQueue'[i] = s
      BY <2>1 DEF Queued
    <3>2. ioQueue[i + 1] = s
      BY <3>1, <1>2
    <3>3. s # r
      BY <3>1, <3>2, <1>2, <1>3 DEF QueuedOnce
    <3>. QED BY <3>1, <3>2, <3>3, <1>3 DEF Queued
  <2>2. ASSUME Queued(s), s # r PROVE Queued(s)'
    <3>1. PICK i \in 1 .. Len(ioQueue) : ioQueue[i] = s
      BY <2>2 DEF Queued
    <3>2. i - 1 \in 1 .. Len(ioQueue')
      BY <3>1, <2>2, <1>2
    <3>3. ioQueue'[i - 1] = s
      BY <3>1, <3>2, <1>2
    <3>. QED BY <3>2, <3>3 DEF Queued
  <2>. QED BY <2>1, <2>2
<1>. QED BY <1>2, <1>4, <1>5, <1>6

\* Steps that do not touch the queue, or what users and the I/O thread know
\* about requests.
LEMMA SameRequests ==
  ASSUME LeftBehindInv, UNCHANGED <<ioQueue, pending, request>>, shutdown => shutdown',
         \/ ioThread' = ioThread
         \/ ioThread # "callback" /\ ioThread' # "callback" /\ ioThread' # "finished"
  PROVE  RequestInv' /\ NothingLeftBehind'
  BY DEF LeftBehindInv, RequestInv, NothingLeftBehind, Queued

LEMMA StepRequests == LeftBehindInv /\ [Next]_vars => RequestInv' /\ NothingLeftBehind'
<1> SUFFICES ASSUME LeftBehindInv, [Next]_vars PROVE RequestInv' /\ NothingLeftBehind'
  OBVIOUS
<1>a. /\ TypeOK /\ MmapTypeOK /\ RequestInv /\ QueuedOnce
      /\ pending \in [Requests -> {"nothing", "read", "write"}]
      /\ request \in Requests \cup {NoRequest} /\ shutdown \in BOOLEAN
      /\ \A r \in Requests : Queued(r) <=> pending[r] # "nothing" /\ request # r
      /\ ioThread = "finished" => \A r \in Requests : pending[r] = "nothing"
  BY DEF LeftBehindInv, NothingLeftBehind, TypeOK, MmapTypeOK, QueuedOnce
<1>b. NoRequest \notin Requests
  BY MmapAssumption DEF Requests
<1> USE DEF deviceVars, userVars, fdVars, mmapVars, vars
<1>1. CASE Open \/ NoSignal \/ ReadSignal \/ ReadSignalFails \/ Sleep
  BY <1>1, SameRequests DEF Open, NoSignal, ReadSignal, ReadSignalFails, Sleep, CloseDevice
<1>2. CASE ReadRegisters \/ WriteBack \/ EnableInterrupt \/ HandleFails
  BY <1>2, SameRequests DEF ReadRegisters, WriteBack, AfterSpuriousInterrupt,
                            EnableInterrupt, HandleFails, CloseDevice
<1>3. CASE Finish
  <2>1. /\ ioQueue' = <<>> /\ pending' = [r \in Requests |-> "nothing"]
        /\ ioThread' = "finished" /\ shutdown' /\ request' = NoRequest
    BY <1>3, <1>a DEF Finish, RequestInv
  <2>2. \A r \in Requests : pending'[r] = "nothing" /\ ~Queued(r)'
    BY <2>1 DEF Queued
  <2>3. QueuedOnce'
    BY <2>1 DEF QueuedOnce
  <2>. QED BY <2>1, <2>2, <2>3 DEF RequestInv, NothingLeftBehind, QueuedOnce
<1>4. ASSUME NEW r \in Requests, Execute(r) PROVE RequestInv' /\ NothingLeftBehind'
  <2>1. /\ Taken(r) /\ request = NoRequest
        /\ request' = r /\ ioThread' = "callback" /\ pending' = pending
    BY <1>4, <1>a DEF Execute, Taken, RequestInv
  <2>2. /\ Queued(r) /\ QueuedOnce'
        /\ \A s \in Requests : Queued(s)' <=> Queued(s) /\ s # r
    BY <2>1, <1>a, Dequeue
  <2>. QED BY <2>1, <2>2, <1>a, <1>b DEF RequestInv, NothingLeftBehind, QueuedOnce
<1>5. ASSUME NEW r \in Requests, ExecuteFails(r) PROVE RequestInv' /\ NothingLeftBehind'
  <2>1. /\ Taken(r) /\ request = NoRequest
        /\ request' = NoRequest /\ ioThread' = "loop"
        /\ pending' = [pending EXCEPT ![r] = "nothing"]
    BY <1>5, <1>a DEF ExecuteFails, CloseDevice, Taken, RequestInv
  <2>2. /\ QueuedOnce'
        /\ \A s \in Requests : Queued(s)' <=> Queued(s) /\ s # r
    BY <2>1, <1>a, Dequeue
  <2>. QED BY <2>1, <2>2, <1>a, <1>b DEF RequestInv, NothingLeftBehind, QueuedOnce
<1>6. CASE Callback
  <2>1. /\ request \in Requests /\ request' = NoRequest /\ ioThread' = "loop"
        /\ shutdown' = shutdown
    BY <1>6, <1>a DEF Callback, RequestInv
  <2>2. CASE pending' = [pending EXCEPT ![request] = "nothing"] /\ ioQueue' = ioQueue
    BY <2>1, <2>2, <1>a, <1>b DEF RequestInv, NothingLeftBehind, QueuedOnce, Queued
  <2>3. CASE pending' = [pending EXCEPT ![request] = "write"]
             /\ ioQueue' = Append(ioQueue, request)
    <3>1. QueuedOnce' /\ \A s \in Requests : Queued(s)' <=> Queued(s) \/ s = request
      BY <2>1, <2>3, <1>a, Enqueue
    <3>. QED BY <2>1, <2>3, <3>1, <1>a, <1>b DEF RequestInv, NothingLeftBehind, QueuedOnce
  <2>. QED BY <2>2, <2>3, <1>6 DEF Callback, QueueIoRequest
<1>7. ASSUME NEW r \in Requests, Submit(r) PROVE RequestInv' /\ NothingLeftBehind'
  <2>1. /\ pending[r] = "nothing" /\ ~Queued(r)
        /\ UNCHANGED <<request, ioThread, shutdown>>
    BY <1>7, <1>a DEF Submit
  <2>2. CASE shutdown
    <3>1. pending' = pending /\ ioQueue' = ioQueue
      BY <1>7, <2>1, <2>2, <1>a DEF Submit, QueueIoRequest
    <3>. QED BY <2>1, <3>1, SameRequests
  <2>3. CASE ~shutdown
    <3>1. pending' = [pending EXCEPT ![r] = "read"] /\ ioQueue' = Append(ioQueue, r)
      BY <1>7, <2>3 DEF Submit, QueueIoRequest
    <3>2. QueuedOnce' /\ \A s \in Requests : Queued(s)' <=> Queued(s) \/ s = r
      BY <2>1, <3>1, <1>a, Enqueue
    <3>3. request # r /\ ioThread # "finished"
      BY <2>1, <2>3, <1>a, <1>b DEF RequestInv
    <3>. QED BY <2>1, <3>1, <3>2, <3>3, <1>a, <1>b
             DEF RequestInv, NothingLeftBehind, QueuedOnce
  <2>. QED BY <2>2, <2>3
<1>8. CASE Interrupt \/ Shutdown \/ \E f \in Flags : RaiseFlag(f)
  BY <1>8, SameRequests DEF Interrupt, Shutdown, RaiseFlag
<1>9. CASE Listener
  BY <1>9, SameRequests DEF Listener, Listen, Announce, Return, NotifyListeners
<1>10. CASE RecordThread \/ EnableInterruptMode \/ DisableInterruptMode \/ ScanCallback
              \/ Process
  BY <1>10, SameRequests DEF RecordThread, RequestProcessing, JoinScanList, ScanAgain,
                             EnableInterruptMode, DisableInterruptMode, ScanCallback, Process
<1>11. CASE UNCHANGED vars
  BY <1>11, SameRequests
<1>. QED BY <1>1, <1>2, <1>3, <1>4, <1>5, <1>6, <1>7, <1>8, <1>9, <1>10, <1>11
     DEF Next, IoThread, Environment

(***************************************************************************)
(* A request is in the queue exactly as long as its user waits and it is   *)
(* not being executed, and a shutdown at any time answers all of them.     *)
(***************************************************************************)
THEOREM NothingLeftBehindHolds == Spec => []NothingLeftBehind
<1>1. Init => LeftBehindInv
  BY InitTypeOK DEF Init, MmapInit, LeftBehindInv, RequestInv, NothingLeftBehind, Queued
<1>2. LeftBehindInv /\ [Next]_vars => LeftBehindInv'
  BY NextTypeOK, StepRequests DEF LeftBehindInv
<1>3. LeftBehindInv => NothingLeftBehind
  BY DEF LeftBehindInv
<1>. QED BY <1>1, <1>2, <1>3, PTL DEF Spec

-----------------------------------------------------------------------------
(* The queue of interrupts.                                                *)

\* The record is not on the scan list while it is put there.
JoinInv == recordThread \in {"request", "join"} => ~onScanList

LEMMA StepJoin == TypeOK /\ JoinInv /\ [Next]_vars => JoinInv'
<1> SUFFICES ASSUME TypeOK, JoinInv, [Next]_vars PROVE JoinInv'
  OBVIOUS
<1> USE DEF TypeOK, RecordTypeOK, JoinInv, recordVars, queueVars, scanVars, vars
<1>1. CASE (IoThread \/ Environment) /\ UNCHANGED recordVars
  BY <1>1
<1>2. CASE Listener
  BY <1>2 DEF Listener, Listen, Announce, Return
<1>3. CASE RecordThread
  BY <1>3 DEF RecordThread, RequestProcessing, JoinScanList, ScanAgain
<1>4. CASE EnableInterruptMode \/ DisableInterruptMode
  BY <1>4 DEF EnableInterruptMode, DisableInterruptMode
<1>5. CASE ScanCallback
  BY <1>5 DEF ScanCallback, ProcessRecord
<1>6. CASE Process
  BY <1>6 DEF Process, ProcessRecord
<1>7. CASE UNCHANGED vars
  BY <1>7
<1>. QED BY <1>1, <1>2, <1>3, <1>4, <1>5, <1>6, <1>7 DEF Next

\* A request of a record on the scan list is pending afterwards.
LEMMA ScanRequested ==
  ASSUME RecordTypeOK, onScanList, ScanIoRequest
  PROVE  scanRequests' > 0
  BY RecordAssumption DEF RecordTypeOK, ScanIoRequest

LEMMA StepStaysWatched ==
  ASSUME TypeOK, JoinInv, [Next]_vars, onScanList, QueueWatched, onScanList'
  PROVE  QueueWatched'
<1>a. RecordTypeOK /\ recordThread \notin {"request", "join"}
  BY DEF TypeOK, JoinInv
<1> USE DEF QueueWatched, recordVars, queueVars, scanVars, vars
<1>1. CASE (IoThread \/ Environment) /\ UNCHANGED recordVars
  BY <1>1
<1>2. CASE Listen
  <2>1. CASE interruptModeEnabled /\ interruptFlagsQueue = <<>>
    BY <1>2, <2>1 DEF Listen, Announced
  <2>2. CASE interruptModeEnabled /\ interruptFlagsQueue # <<>>
    BY <1>2, <2>2 DEF Listen, Announced
  <2>3. CASE ~interruptModeEnabled
    BY <1>2, <2>3 DEF Listen
  <2>. QED BY <2>1, <2>2, <2>3
<1>3. CASE Announce
  BY <1>3, <1>a, ScanRequested DEF Announce
<1>4. CASE Return
  BY <1>4 DEF Return
<1>5. CASE ScanAgain
  BY <1>5, <1>a, ScanRequested DEF ScanAgain
<1>6. CASE RequestProcessing \/ JoinScanList \/ EnableInterruptMode \/ DisableInterruptMode
  BY <1>6, <1>a DEF RequestProcessing, JoinScanList, EnableInterruptMode, DisableInterruptMode
<1>7. CASE ScanCallback \/ Process
  BY <1>7 DEF ScanCallback, Process, ProcessRecord
<1>8. CASE UNCHANGED vars
  BY <1>8
<1>. QED BY <1>1, <1>2, <1>3, <1>4, <1>5, <1>6, <1>7, <1>8
     DEF Next, Listener, RecordThread

(***************************************************************************)
(* While the record is on the scan list its queue does not get stuck: the  *)
(* listener and the record do not both leave it to the other to ask for    *)
(* processing.                                                             *)
(***************************************************************************)
THEOREM QueueStaysWatchedHolds == Spec => QueueStaysWatched
<1>1. Init => JoinInv
  BY DEF Init, JoinInv
<1>2. TypeOK /\ JoinInv /\ [Next]_vars
        => [onScanList /\ QueueWatched /\ onScanList' => QueueWatched']_vars
  BY StepStaysWatched
<1>. QED BY <1>1, <1>2, StepJoin, TypeCorrect, PTL DEF Spec, QueueStaysWatched
=============================================================================
