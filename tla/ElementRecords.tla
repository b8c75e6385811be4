--------------------------- MODULE ElementRecords ---------------------------
(***************************************************************************)
(* The device supports that read or write each element of the record once: *)
(* MrfOutputRecord and MrfInputRecord, which have one element and process  *)
(* the record in every callback, and MrfWaveformOutRecord,                 *)
(* MrfWaveformInRecord and MrfStringinRecord, whose elements are the       *)
(* 16-bit or 32-bit pieces of a string, which count the callbacks and      *)
(* process the record in the last one.                                     *)
(*                                                                         *)
(* The memory access below them is external.  Requests for one element are *)
(* executed in the order they are made, each after the callback of the one *)
(* before.  A request may fail before or after the device has executed it, *)
(* and fail at once, in the thread that makes it.  What the UDP/IP client  *)
(* does beyond that is bounded and noted in disturbances: it may call a    *)
(* callback twice, once for the answer and once, before or after that, to  *)
(* report a failed retransmission (RequestCallbacks), and a request that   *)
(* has failed may still be on its way to the device.  A register may also  *)
(* refuse a value, which is what verification is for.                      *)
(***************************************************************************)
EXTENDS RecordProcessing

CONSTANTS
  CounterModulus,  \* 2^32 in the code: pendingWriteRequests is a uint32_t
  MaxDisturbances, \* bound on the requests that are answered again or executed late
  MaxChanges       \* bound on the changes of the device made by others

ASSUME ElementAssumption ==
  /\ CounterModulus \in Nat /\ CounterModulus > N
  /\ MaxDisturbances \in Nat
  /\ MaxChanges \in Nat

VARIABLES
  changedElementsOnly,   \* option of the record address, never changes
  device,                \* the registers of the elements
  requests,              \* for each element those that may still have effects, oldest first
  successful,            \* writeSuccessful, readSuccessful
  pendingRequests,       \* pendingWriteRequests, pendingReadRequests
  lastValueWritten,      \* writeRequestValue of an output record
  lastValueWrittenValid,
  lastReply,             \* writeReplyValue, readValue, lastValueRead
  disturbances,          \* how often a request was answered again or executed late
  refused,               \* a register has refused a value
  changes                \* changes made by others so far

supportVars == <<successful, pendingRequests, lastValueWritten, lastValueWrittenValid, lastReply>>
boundVars == <<disturbances, refused, changes>>
elementVars == <<changedElementsOnly, device, requests, supportVars, boundVars>>

Request ==
  [value : Values,                          \* to be written
   seen : Values,                           \* read, or read back after a write
   executed : BOOLEAN,
   answer : {"none", "success", "failure"}, \* the first answer
   current : BOOLEAN]                       \* made by the latest processing

ElementTypeOK ==
  /\ changedElementsOnly \in BOOLEAN
  /\ device \in [1 .. N -> Values]
  /\ requests \in [1 .. N -> Seq(Request)]
  /\ successful \in BOOLEAN
  /\ pendingRequests \in 0 .. CounterModulus - 1
  /\ lastValueWritten \in [1 .. N -> Values]
  /\ lastValueWrittenValid \in [1 .. N -> BOOLEAN]
  /\ lastReply \in [1 .. N -> Values]
  /\ disturbances \in 0 .. MaxDisturbances
  /\ refused \in BOOLEAN
  /\ changes \in 0 .. MaxChanges

\* If reading the initial value is asked for and succeeds, an output record
\* starts with the value of the device and without an alarm.
InitializeOutput(valid) ==
  /\ alarm = ~valid
  /\ val = IF valid THEN device ELSE [e \in 1 .. N |-> Zero]
  /\ lastValueWritten = val
  /\ lastValueWrittenValid = [e \in 1 .. N |-> FALSE]

\* A waveform takes all elements from the device or none.
InitializeWaveformOut(valid) ==
  /\ alarm = ~valid
  /\ val = IF valid THEN device ELSE [e \in 1 .. N |-> Zero]
  /\ lastValueWritten = val
  /\ lastValueWrittenValid = [e \in 1 .. N |-> valid]

InitializeInput ==
  /\ alarm = TRUE
  /\ val = [e \in 1 .. N |-> Zero]
  /\ lastValueWritten = val
  /\ lastValueWrittenValid = [e \in 1 .. N |-> FALSE]

ElementInit ==
  /\ device \in [1 .. N -> Values]
  /\ \/ kind \in {"output", "fineDelay"} /\ \E valid \in BOOLEAN : InitializeOutput(valid)
     \/ kind = "waveformOut" /\ \E valid \in BOOLEAN : InitializeWaveformOut(valid)
     \/ kind \notin OutputKinds /\ InitializeInput
  /\ changedElementsOnly \in (IF kind = "waveformOut" THEN BOOLEAN ELSE {FALSE})
  /\ requests = [e \in 1 .. N |-> <<>>]
  /\ successful = FALSE
  /\ pendingRequests = 0
  /\ lastReply = val
  /\ disturbances = 0
  /\ refused = FALSE
  /\ changes = 0

-----------------------------------------------------------------------------
(* Processing starts: processPrepare, or the second half of processRecord. *)

\* The elements that are written.
ToWrite(value) ==
  {e \in 1 .. N :
     \/ ~changedElementsOnly
     \/ ~lastValueWrittenValid[e]
     \/ lastValueWritten[e] # value[e]}

\* A request that can be neither executed nor answered any more.
Over(r) == r.answer # "none" /\ disturbances = MaxDisturbances

\* The requests for an element that are kept when it is processed again.
Earlier(e) ==
  LET kept == IF requests[e] # <<>> /\ Over(Head(requests[e])) THEN Tail(requests[e]) ELSE requests[e]
  IN  [i \in 1 .. Len(kept) |-> [kept[i] EXCEPT !.current = FALSE]]

NewRequest(value, failed) ==
  [value |-> value, seen |-> value, executed |-> FALSE,
   answer |-> IF failed THEN "failure" ELSE "none", current |-> TRUE]

\* The requests for the elements in atOnce fail in the call that makes them.
RequestsMade(elements, value, atOnce) ==
  [e \in 1 .. N |-> IF e \in elements THEN Append(Earlier(e), NewRequest(value[e], e \in atOnce))
                                     ELSE Earlier(e)]

\* A request that fails at once has its callback ask for the record to be
\* processed again.
StartScalar(value, callbacks, scans) ==
  \E atOnce \in SUBSET {1} :
    /\ requests' = RequestsMade({1}, value, atOnce)
    /\ Active(value, callbacks + Cardinality(atOnce), scans)
    /\ successful' = (successful /\ atOnce = {})
    /\ UNCHANGED <<pendingRequests, lastValueWrittenValid, lastReply>>

StartOutput(value, callbacks, scans) ==
  /\ kind = "output"
  /\ lastValueWritten' = value
  /\ StartScalar(value, callbacks, scans)

StartInput(callbacks, scans) ==
  /\ kind = "input"
  /\ UNCHANGED lastValueWritten
  /\ StartScalar(val, callbacks, scans)

\* Faulty variant, for testing Settles: requests that fail at once count as
\* pending, as if their callbacks were still to come.
StartElementsCountingAll(toRequest, value, callbacks, scans) ==
  \E atOnce \in SUBSET toRequest :
    /\ requests' = RequestsMade(toRequest, value, atOnce)
    /\ successful' = (atOnce = {})
    /\ pendingRequests' = Cardinality(toRequest)
    /\ IF toRequest = {}
         THEN Finished(value, FALSE, callbacks, scans)
         ELSE Active(value, callbacks, scans)
    /\ UNCHANGED lastReply

\* The mutex keeps other threads' callbacks out until all requests have been
\* made; those that fail at once are counted, too.
StartElements(toRequest, value, callbacks, scans) ==
  \E atOnce \in SUBSET toRequest :
    /\ requests' = RequestsMade(toRequest, value, atOnce)
    /\ successful' = (atOnce = {})
    /\ pendingRequests' = Cardinality(toRequest \ atOnce)
    /\ IF toRequest = atOnce
         THEN Finished(value, atOnce # {}, callbacks, scans)
         ELSE Active(value, callbacks, scans)
    /\ UNCHANGED lastReply

\* Faulty variant, for testing DeviceFollowsRecord: an element counts as written
\* until its request has failed.
StartWaveformOutKeeping(value, callbacks, scans) ==
  /\ kind = "waveformOut"
  /\ lastValueWritten' = value
  /\ UNCHANGED lastValueWrittenValid
  /\ StartElements(ToWrite(value), value, callbacks, scans)

StartWaveformOut(value, callbacks, scans) ==
  LET toWrite == ToWrite(value)
  IN  /\ kind = "waveformOut"
      /\ lastValueWritten' = value
      /\ lastValueWrittenValid' = [e \in 1 .. N |-> lastValueWrittenValid[e] /\ e \notin toWrite]
      /\ StartElements(toWrite, value, callbacks, scans)

StartWaveformIn(callbacks, scans) ==
  /\ kind = "waveformIn"
  /\ UNCHANGED <<lastValueWritten, lastValueWrittenValid>>
  /\ StartElements(1 .. N, val, callbacks, scans)

StartStringin(callbacks, scans) ==
  /\ kind = "stringin"
  /\ UNCHANGED <<lastValueWritten, lastValueWrittenValid>>
  /\ StartElements(1 .. N, val, callbacks, scans)

Start(value, callbacks, scans) ==
  \/ StartOutput(value, callbacks, scans)
  \/ StartInput(callbacks, scans)
  \/ StartWaveformOut(value, callbacks, scans)
  \/ StartWaveformIn(callbacks, scans)
  \/ StartStringin(callbacks, scans)

-----------------------------------------------------------------------------
(* Processing completes: processComplete, or the first half of             *)
(* processRecord.                                                          *)

VerifyFailed == verify /\ lastReply[1] # lastValueWritten[1]

CompleteOutput ==
  /\ kind = "output"
  /\ Finished(val, ~successful \/ VerifyFailed, -1, 0)

CompleteInput ==
  /\ kind = "input"
  /\ Finished(IF successful THEN [val EXCEPT ![1] = lastReply[1]] ELSE val, ~successful, -1, 0)

CompleteWaveformOut ==
  /\ kind = "waveformOut"
  /\ Finished(val, ~successful, -1, 0)

CompleteWaveformIn ==
  /\ kind = "waveformIn"
  /\ Finished(IF successful THEN lastReply ELSE val, ~successful, -1, 0)

\* The end of the string is set to zero, which no piece of it can hide.
CompleteStringin ==
  /\ kind = "stringin"
  /\ Finished(IF successful THEN lastReply ELSE val, ~successful, -1, 0)

Complete ==
  \/ CompleteOutput \/ CompleteInput
  \/ CompleteWaveformOut \/ CompleteWaveformIn \/ CompleteStringin

-----------------------------------------------------------------------------
(* EPICS.                                                                  *)

Put ==
  /\ kind \in OutputKinds
  /\ made < MaxRequests
  /\ made' = made + 1
  /\ \E e \in Elements, v \in Values :
       LET value == [val EXCEPT ![e] = v]
       IN  IF pact THEN PutWhileActive(value) /\ UNCHANGED <<requests, supportVars>>
           ELSE Start(value, 0, 0)
  /\ UNCHANGED <<configVars, changedElementsOnly, device, boundVars>>

\* A periodic scan, PINI or a link.
Scan ==
  /\ ~pact /\ made < MaxRequests
  /\ made' = made + 1
  /\ Start(val, 0, 0)
  /\ UNCHANGED <<configVars, changedElementsOnly, device, boundVars>>

ScanOnce ==
  /\ scanOnce > 0
  /\ IF pact
       THEN /\ scanOnce' = scanOnce - 1
            /\ UNCHANGED <<val, pact, rpro, alarm, processCallbacks, requests, supportVars>>
       ELSE Start(val, 0, -1)
  /\ UNCHANGED <<configVars, made, changedElementsOnly, device, boundVars>>

ProcessCallback ==
  /\ processCallbacks > 0
  /\ IF pact THEN Complete /\ UNCHANGED <<requests, supportVars>>
             ELSE Start(val, -1, 0)
  /\ UNCHANGED <<configVars, made, changedElementsOnly, device, boundVars>>

-----------------------------------------------------------------------------
(* The memory access and the device.                                       *)

\* The memory access answers a request before it starts the next one for the
\* same registers.
Started(e, i) == \A j \in 1 .. i - 1 : requests[e][j].answer # "none"

\* The device executes request i for the element.
Execute(e, i) ==
  LET r == requests[e][i]
  IN  /\ ~r.executed /\ Started(e, i)
      /\ IF r.answer = "none" THEN UNCHANGED disturbances
         ELSE /\ r.answer = "failure" /\ disturbances < MaxDisturbances
              /\ disturbances' = disturbances + 1
      /\ \/ /\ kind \in OutputKinds
            /\ device' = [device EXCEPT ![e] = r.value]
            /\ requests' = [requests EXCEPT ![e][i] = [r EXCEPT !.executed = TRUE, !.seen = r.value]]
            /\ UNCHANGED refused
         \/ /\ kind \in OutputKinds => r.value # device[e]
            /\ refused' = (kind \in OutputKinds)
            /\ requests' = [requests EXCEPT ![e][i] = [r EXCEPT !.executed = TRUE, !.seen = device[e]]]
            /\ UNCHANGED device
  /\ UNCHANGED <<epicsVars, changedElementsOnly, supportVars, changes>>

\* A callback of a record with one element has the record processed.
ScalarCallback(e, r, success) ==
  /\ successful' = success
  /\ lastReply' = IF success THEN [lastReply EXCEPT ![e] = r.seen] ELSE lastReply
  /\ processCallbacks' = processCallbacks + 1
  /\ UNCHANGED <<pendingRequests, lastValueWritten, lastValueWrittenValid>>

OutputCallback(e, r, success) == kind = "output" /\ ScalarCallback(e, r, success)

InputCallback(e, r, success) == kind = "input" /\ ScalarCallback(e, r, success)

\* Faulty variant, for testing TypeOK: the counter is signed.
CountDownSigned ==
  /\ pendingRequests' = pendingRequests - 1
  /\ processCallbacks' = IF pendingRequests' = 0 THEN processCallbacks + 1 ELSE processCallbacks

\* The counter wraps around if there are more callbacks than requests.
CountDown ==
  /\ pendingRequests' = (pendingRequests - 1) % CounterModulus
  /\ processCallbacks' = IF pendingRequests' = 0 THEN processCallbacks + 1 ELSE processCallbacks

Verified(e, r) == ~verify \/ lastValueWritten[e] = r.seen

\* Faulty variant, for testing OutcomeReported: the last callback decides.
WaveformOutCallbackLast(e, r, success) ==
  /\ kind = "waveformOut"
  /\ successful' = (success /\ Verified(e, r))
  /\ lastValueWrittenValid' = [lastValueWrittenValid EXCEPT ![e] = @ \/ (success /\ Verified(e, r))]
  /\ CountDown
  /\ UNCHANGED <<lastValueWritten, lastReply>>

WaveformOutCallback(e, r, success) ==
  /\ kind = "waveformOut"
  /\ successful' = (successful /\ success /\ Verified(e, r))
  /\ lastValueWrittenValid' = [lastValueWrittenValid EXCEPT ![e] = @ \/ (success /\ Verified(e, r))]
  /\ CountDown
  /\ UNCHANGED <<lastValueWritten, lastReply>>

\* What is read of an element or a piece of a string, in the device's byte order.
PieceRead(e, r, success) ==
  /\ successful' = (successful /\ success)
  /\ lastReply' = IF success THEN [lastReply EXCEPT ![e] = r.seen] ELSE lastReply
  /\ CountDown
  /\ UNCHANGED <<lastValueWritten, lastValueWrittenValid>>

WaveformInCallback(e, r, success) == kind = "waveformIn" /\ PieceRead(e, r, success)

StringinCallback(e, r, success) == kind = "stringin" /\ PieceRead(e, r, success)

Callback(e, r, success) ==
  /\ success => r.executed
  /\ \/ OutputCallback(e, r, success) \/ InputCallback(e, r, success)
     \/ WaveformOutCallback(e, r, success)
     \/ WaveformInCallback(e, r, success) \/ StringinCallback(e, r, success)
  /\ UNCHANGED <<configVars, val, pact, rpro, alarm, scanOnce, made,
                 changedElementsOnly, device, refused, changes>>

Answer(e, i) ==
  /\ requests[e][i].answer = "none" /\ Started(e, i)
  /\ \E success \in BOOLEAN :
       /\ Callback(e, requests[e][i], success)
       /\ requests' = [requests EXCEPT ![e][i].answer = IF success THEN "success" ELSE "failure"]
  /\ UNCHANGED disturbances

\* One of the two calls is the report of a retransmission that has failed.
AnswerAgain(e, i) ==
  /\ requests[e][i].answer # "none" /\ disturbances < MaxDisturbances
  /\ disturbances' = disturbances + 1
  /\ \E success \in BOOLEAN :
       /\ success => requests[e][i].answer = "failure"
       /\ Callback(e, requests[e][i], success)
  /\ UNCHANGED requests

\* Somebody else changes the device that an input record reads.
ChangeDevice ==
  /\ kind \notin OutputKinds
  /\ changes < MaxChanges
  /\ changes' = changes + 1
  /\ \E e \in Elements, v \in Values : device' = [device EXCEPT ![e] = v]
  /\ UNCHANGED <<epicsVars, changedElementsOnly, requests, supportVars, disturbances, refused>>

-----------------------------------------------------------------------------
Epics == Put \/ Scan \/ ScanOnce \/ ProcessCallback

AnswerAny == \E e \in 1 .. N : \E i \in 1 .. Len(requests[e]) : Answer(e, i)

ElementNext ==
  \/ Epics
  \/ \E e \in 1 .. N : \E i \in 1 .. Len(requests[e]) : Execute(e, i) \/ AnswerAgain(e, i)
  \/ AnswerAny
  \/ ChangeDevice

\* One record of these kinds by itself.
ElementSpec ==
  /\ ProcessInit /\ kind # "fineDelay" /\ ElementInit
  /\ [][ElementNext]_<<epicsVars, elementVars>>

-----------------------------------------------------------------------------
(* Properties.                                                             *)

\* No request has been answered again or executed after its answer.
Undisturbed == disturbances = 0

Fulfilled(r) ==
  /\ r.answer = "success"
  /\ kind \in OutputKinds /\ verify => r.seen = r.value

\* The processing of a record finishes when all of its requests have been
\* answered and not before; it raises the alarm exactly if one of them failed or
\* (with verify) read back another value, whichever came first or last, and an
\* input record without an alarm has the values that were read.
OutcomeReported ==
  [][pact /\ ~pact' /\ kind # "fineDelay" /\ Undisturbed =>
       /\ \A e \in 1 .. N : \A i \in 1 .. Len(requests[e]) :
            requests[e][i].current => requests[e][i].answer # "none"
       /\ alarm' = (\E e \in 1 .. N : \E i \in 1 .. Len(requests[e]) :
                      requests[e][i].current /\ ~Fulfilled(requests[e][i]))
       /\ kind \notin OutputKinds /\ ~alarm' =>
            \A e \in 1 .. N : \A i \in 1 .. Len(requests[e]) :
              requests[e][i].current => val'[e] = requests[e][i].seen]_<<pact, val, alarm>>

\* When everything has been processed and there is no alarm, the device has the
\* value of the record: an element that is skipped because it has not changed
\* was really written, whatever failed before (executed or not), and a value put
\* while requests were under way has been written as well.  Without verify a
\* register that refuses values goes unnoticed.
DeviceFollowsRecord ==
  kind \in {"output", "waveformOut"} /\ Quiet /\ ~alarm /\ Undisturbed /\ (verify \/ ~refused) =>
    \A e \in Elements : device[e] = val[e]

=============================================================================
