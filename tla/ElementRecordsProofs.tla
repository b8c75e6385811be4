------------------------ MODULE ElementRecordsProofs ------------------------
(***************************************************************************)
(* Theorems about ElementRecords, for arrays of any length, any values and *)
(* any bounds.                                                             *)
(***************************************************************************)
EXTENDS ElementRecords, FiniteSetTheorems, SequenceTheorems, TLAPS

-----------------------------------------------------------------------------
(* The invariant.                                                          *)

TypesInv ==
  /\ ProcessTypeOK /\ ElementTypeOK
  /\ kind # "fineDelay"
  /\ verify => kind \in OutputKinds

Latest(e) == requests[e][Len(requests[e])]
Pending(e) == requests[e] # <<>> /\ Latest(e).answer = "none"
Current(e) == requests[e] # <<>> /\ Latest(e).current
Writable == verify \/ ~refused

\* All requests but the last one for each element are over.
OthersOver ==
  \A e \in 1 .. N : \A i \in 1 .. Len(requests[e]) - 1 :
    requests[e][i].answer # "none" /\ ~requests[e][i].current

\* A record that is not active waits for nothing.
IdleInv == ~pact => /\ ~rpro /\ processCallbacks = 0
                    /\ \A e \in 1 .. N : ~Pending(e)

\* What the requests of the latest processing have done.
RequestInv(e) ==
  /\ Pending(e) => Current(e)
  /\ Current(e) /\ Latest(e).answer = "success" => Latest(e).executed
  /\ kind \in OutputKinds /\ Current(e) =>
       /\ Latest(e).value = lastValueWritten[e]
       /\ Latest(e).executed => Latest(e).seen = device[e] /\ (refused \/ Latest(e).seen = Latest(e).value)

ScalarInv ==
  /\ \A e \in 2 .. N : requests[e] = <<>>
  /\ pact => /\ Current(1)
             /\ processCallbacks = IF Pending(1) THEN 0 ELSE 1
             /\ ~Pending(1) => /\ successful = (Latest(1).answer = "success")
                               /\ successful => lastReply[1] = Latest(1).seen

OutputInv == ~pact /\ ~alarm /\ Writable => device[1] = lastValueWritten[1]

PiecesInv ==
  pact =>
    /\ pendingRequests = Cardinality({e \in 1 .. N : Pending(e)})
    /\ processCallbacks = IF pendingRequests = 0 THEN 1 ELSE 0
    /\ successful = (\A e \in 1 .. N : Current(e) /\ ~Pending(e) => Fulfilled(Latest(e)))

WaveformOutInv ==
  /\ \A e \in 1 .. N : lastValueWrittenValid[e] =>
       ~Pending(e) /\ (Writable => device[e] = lastValueWritten[e])
  /\ pact /\ successful => \A e \in 1 .. N : lastValueWrittenValid[e] \/ Pending(e)
  /\ ~pact /\ ~alarm => \A e \in 1 .. N : lastValueWrittenValid[e]

InputPiecesInv ==
  pact => \A e \in 1 .. N : Current(e) /\ (Latest(e).answer = "success" => lastReply[e] = Latest(e).seen)

ValueInv ==
  kind \in OutputKinds /\ (IF pact THEN ~rpro ELSE scanOnce = 0) =>
    \A e \in Elements : val[e] = lastValueWritten[e]

UndisturbedInv ==
  /\ OthersOver /\ IdleInv /\ ValueInv
  /\ \A e \in 1 .. N : RequestInv(e)
  /\ kind \in ScalarKinds => ScalarInv
  /\ kind = "output" => OutputInv
  /\ kind \notin ScalarKinds => PiecesInv
  /\ kind = "waveformOut" => WaveformOutInv
  /\ kind \notin ScalarKinds \cup OutputKinds => InputPiecesInv

ElementInv == TypesInv /\ (Undisturbed => UndisturbedInv)

-----------------------------------------------------------------------------
(* The requests that are made.                                             *)

LEMMA ElementsOfRecord == 1 \in 1 .. N /\ IsFiniteSet(1 .. N) /\ Cardinality(1 .. N) = N
<1>1. N \in Nat \ {0}
  BY RecordAssumption
<1>2. IsFiniteSet(1 .. N) /\ Cardinality(1 .. N) = IF 1 > N THEN 0 ELSE N - 1 + 1
  BY <1>1, FS_Interval
<1>. QED BY <1>1, <1>2

LEMMA FewElements ==
  ASSUME NEW S \in SUBSET (1 .. N)
  PROVE  IsFiniteSet(S) /\ Cardinality(S) \in 0 .. CounterModulus - 1
<1>1. IsFiniteSet(S) /\ Cardinality(S) <= N
  BY ElementsOfRecord, FS_Subset
<1>2. Cardinality(S) \in Nat
  BY <1>1, FS_CardinalityType
<1>. QED BY <1>1, <1>2, ElementAssumption, RecordAssumption

\* What is kept of the requests for an element: all but the first one at most,
\* and none of them is current any more.
LEMMA EarlierFacts ==
  ASSUME ElementTypeOK, NEW e \in 1 .. N
  PROVE  /\ Earlier(e) \in Seq(Request)
         /\ \E d \in {0, 1} :
              /\ Len(Earlier(e)) = Len(requests[e]) - d
              /\ \A i \in 1 .. Len(Earlier(e)) :
                   /\ i + d \in 1 .. Len(requests[e])
                   /\ Earlier(e)[i] = [requests[e][i + d] EXCEPT !.current = FALSE]
<1> DEFINE q == requests[e]
           dropped == q # <<>> /\ Over(Head(q))
           kept == IF dropped THEN Tail(q) ELSE q
           d == IF dropped THEN 1 ELSE 0
<1>1. q \in Seq(Request) /\ Len(q) \in Nat
  BY DEF ElementTypeOK
<1>2. /\ kept \in Seq(Request) /\ Len(kept) = Len(q) - d
      /\ \A i \in 1 .. Len(kept) : i + d \in 1 .. Len(q) /\ kept[i] = q[i + d]
  <2>1. CASE dropped
    BY <1>1, <2>1, HeadTailProperties
  <2>2. CASE ~dropped
    BY <1>1, <2>2
  <2>. QED BY <2>1, <2>2
<1>3. Earlier(e) = [i \in 1 .. Len(kept) |-> [kept[i] EXCEPT !.current = FALSE]]
  BY DEF Earlier
<1>. HIDE DEF kept
<1>4. Len(kept) \in Nat
  BY <1>2
<1>5. \A i \in 1 .. Len(kept) : kept[i] \in Request /\ [kept[i] EXCEPT !.current = FALSE] \in Request
  <2>1. \A r \in Request : [r EXCEPT !.current = FALSE] \in Request
    BY DEF Request
  <2>2. \A i \in 1 .. Len(kept) : kept[i] \in Request
    BY <1>2, ElementOfSeq
  <2>. QED BY <2>1, <2>2
<1>6. /\ Earlier(e) \in Seq(Request) /\ Len(Earlier(e)) = Len(kept)
      /\ \A i \in 1 .. Len(kept) : Earlier(e)[i] = [kept[i] EXCEPT !.current = FALSE]
  <2>1. Earlier(e) \in Seq(Request)
    BY <1>3, <1>4, <1>5, IsASeq
  <2>2. DOMAIN Earlier(e) = 1 .. Len(kept)
    BY <1>3
  <2>3. Len(Earlier(e)) = Len(kept)
    BY <1>4, <2>1, <2>2, LenProperties
  <2>. QED BY <1>3, <2>1, <2>3
<1>7. d \in {0, 1}
  OBVIOUS
<1>. HIDE DEF d
<1>. QED BY <1>2, <1>6, <1>7

LEMMA NewRequestType ==
  ASSUME NEW value \in Values, NEW failed \in BOOLEAN
  PROVE  NewRequest(value, failed) \in Request
<1>1. (IF failed THEN "failure" ELSE "none") \in {"none", "success", "failure"}
  OBVIOUS
<1>. QED BY <1>1 DEF NewRequest, Request

LEMMA AppendRequest ==
  ASSUME NEW s \in Seq(Request), NEW r \in Request
  PROVE  /\ Append(s, r) \in Seq(Request)
         /\ Append(s, r) # <<>>
         /\ Len(Append(s, r)) = Len(s) + 1
         /\ \A i \in 1 .. Len(s) : Append(s, r)[i] = s[i]
         /\ Append(s, r)[Len(s) + 1] = r
<1>1. /\ Append(s, r) \in Seq(Request) /\ Len(Append(s, r)) = Len(s) + 1
      /\ \A i \in 1 .. Len(s) : Append(s, r)[i] = s[i]
      /\ Append(s, r)[Len(s) + 1] = r
  BY AppendProperties
<1>2. Len(s) \in Nat
  OBVIOUS
<1>. QED BY <1>1, <1>2, EmptySeq

LEMMA MadeType ==
  ASSUME ElementTypeOK, NEW toRequest \in SUBSET (1 .. N), NEW atOnce \in SUBSET toRequest,
         NEW value \in [1 .. N -> Values],
         requests' = RequestsMade(toRequest, value, atOnce)
  PROVE  requests' \in [1 .. N -> Seq(Request)]
<1>1. ASSUME NEW e \in 1 .. N
      PROVE  /\ Earlier(e) \in Seq(Request)
             /\ Append(Earlier(e), NewRequest(value[e], e \in atOnce)) \in Seq(Request)
  <2>1. Earlier(e) \in Seq(Request)
    BY EarlierFacts
  <2>2. (e \in atOnce) \in BOOLEAN /\ value[e] \in Values
    OBVIOUS
  <2>3. NewRequest(value[e], e \in atOnce) \in Request
    BY <2>2, NewRequestType
  <2>. QED BY <2>1, <2>3, AppendRequest
<1>. QED BY <1>1 DEF RequestsMade

-----------------------------------------------------------------------------
(* Type correctness.                                                       *)

\* Processing that starts with this value and uses up this many process
\* callbacks and scans that are requested.
Starting(value, callbacks, scans) ==
  /\ value \in [1 .. N -> Values]
  /\ callbacks \in {-1, 0} /\ processCallbacks + callbacks \in Nat
  /\ scans \in {-1, 0} /\ scanOnce + scans \in Nat
  /\ Start(value, callbacks, scans)
  /\ made' \in 0 .. MaxRequests
  /\ UNCHANGED <<configVars, changedElementsOnly, device, boundVars>>

LEMMA StartScalarTypes ==
  ASSUME TypesInv, NEW value, NEW callbacks, NEW scans, Starting(value, callbacks, scans),
         lastValueWritten' \in [1 .. N -> Values], StartScalar(value, callbacks, scans)
  PROVE  TypesInv'
<1>. USE DEF TypesInv
<1>1. PICK atOnce \in SUBSET {1} :
        /\ requests' = RequestsMade({1}, value, atOnce)
        /\ Active(value, callbacks + Cardinality(atOnce), scans)
        /\ successful' = (successful /\ atOnce = {})
        /\ UNCHANGED <<pendingRequests, lastValueWrittenValid, lastReply>>
  BY DEF StartScalar
<1>2. Cardinality(atOnce) \in Nat
  BY FewElements, ElementsOfRecord
<1>3. requests' \in [1 .. N -> Seq(Request)]
  BY <1>1, MadeType, ElementsOfRecord DEF Starting
<1>4. processCallbacks' \in Nat
  <2>1. processCallbacks' = processCallbacks + (callbacks + Cardinality(atOnce))
    BY <1>1 DEF Active
  <2>. QED BY <1>2, <2>1 DEF Starting, ProcessTypeOK
<1>5. ProcessTypeOK'
  BY <1>1, <1>4 DEF Starting, Active, ProcessTypeOK, configVars
<1>6. successful' \in BOOLEAN
  BY <1>1
<1>7. ElementTypeOK'
  BY <1>1, <1>3, <1>6 DEF Starting, ElementTypeOK, boundVars
<1>. QED BY <1>5, <1>7 DEF Starting, configVars

LEMMA StartElementsTypes ==
  ASSUME TypesInv, NEW value, NEW callbacks, NEW scans, Starting(value, callbacks, scans),
         NEW toRequest \in SUBSET (1 .. N), StartElements(toRequest, value, callbacks, scans),
         lastValueWritten' \in [1 .. N -> Values], lastValueWrittenValid' \in [1 .. N -> BOOLEAN]
  PROVE  TypesInv'
<1>. USE DEF TypesInv
<1>1. PICK atOnce \in SUBSET toRequest :
        /\ requests' = RequestsMade(toRequest, value, atOnce)
        /\ successful' = (atOnce = {})
        /\ pendingRequests' = Cardinality(toRequest \ atOnce)
        /\ IF toRequest = atOnce
             THEN Finished(value, atOnce # {}, callbacks, scans)
             ELSE Active(value, callbacks, scans)
        /\ UNCHANGED lastReply
  BY DEF StartElements
<1>2. pendingRequests' \in 0 .. CounterModulus - 1
  BY <1>1, FewElements
<1>3. requests' \in [1 .. N -> Seq(Request)]
  BY <1>1, MadeType DEF Starting
<1>4. successful' \in BOOLEAN /\ (atOnce # {}) \in BOOLEAN
  BY <1>1
<1>5. ProcessTypeOK'
  <2>1. CASE toRequest = atOnce
    <3>1. /\ val' = value /\ ~pact' /\ ~rpro' /\ processCallbacks' = processCallbacks + callbacks
          /\ scanOnce' = scanOnce + scans + (IF rpro THEN 1 ELSE 0)
          /\ pact' \in BOOLEAN /\ rpro' \in BOOLEAN
      BY <1>1, <2>1 DEF Finished
    <3>2. alarm' \in BOOLEAN
      BY <1>1, <1>4, <2>1 DEF Finished
    <3>3. scanOnce' \in Nat
      BY <3>1 DEF Starting, ProcessTypeOK
    <3>. QED BY <3>1, <3>2, <3>3 DEF Starting, ProcessTypeOK, configVars
  <2>2. CASE toRequest # atOnce
    BY <1>1, <2>2 DEF Starting, Active, ProcessTypeOK, configVars
  <2>. QED BY <2>1, <2>2
<1>6. ElementTypeOK'
  BY <1>1, <1>2, <1>3, <1>4 DEF Starting, ElementTypeOK, boundVars
<1>. QED BY <1>5, <1>6 DEF Starting, configVars

LEMMA StartTypes ==
  ASSUME TypesInv, NEW value, NEW callbacks, NEW scans, Starting(value, callbacks, scans)
  PROVE  TypesInv'
<1>. USE DEF TypesInv
<1>1. CASE StartOutput(value, callbacks, scans)
  BY <1>1, StartScalarTypes DEF StartOutput, Starting
<1>2. CASE StartInput(callbacks, scans)
  <2>1. value = val \/ val \in [1 .. N -> Values]
    BY DEF ProcessTypeOK
  <2>2. Starting(val, callbacks, scans)
    BY <1>2, <2>1 DEF Starting, Start
  <2>. QED BY <1>2, <2>2, StartScalarTypes DEF StartInput, ElementTypeOK
<1>3. CASE StartWaveformOut(value, callbacks, scans)
  <2>1. ToWrite(value) \in SUBSET (1 .. N)
    BY DEF ToWrite
  <2>2. lastValueWrittenValid' \in [1 .. N -> BOOLEAN]
    BY <1>3 DEF StartWaveformOut, ElementTypeOK
  <2>3. lastValueWritten' = value /\ StartElements(ToWrite(value), value, callbacks, scans)
    BY <1>3 DEF StartWaveformOut
  <2>. QED BY <2>1, <2>2, <2>3, StartElementsTypes DEF Starting
<1>4. CASE StartWaveformIn(callbacks, scans) \/ StartStringin(callbacks, scans)
  <2>1. val \in [1 .. N -> Values]
    BY DEF ProcessTypeOK
  <2>2. Starting(val, callbacks, scans)
    BY <1>4, <2>1 DEF Starting, Start
  <2>3. StartElements(1 .. N, val, callbacks, scans) /\ UNCHANGED <<lastValueWritten, lastValueWrittenValid>>
    BY <1>4 DEF StartWaveformIn, StartStringin
  <2>. QED BY <2>2, <2>3, StartElementsTypes DEF ElementTypeOK
<1>. QED BY <1>1, <1>2, <1>3, <1>4 DEF Starting, Start

\* The four steps of EPICS that process the record, or find it active.
LEMMA EpicsSteps ==
  ASSUME TypesInv, Epics
  PROVE  \/ ~pact /\ \E value \in [1 .. N -> Values] :
              \/ Put /\ Starting(value, 0, 0)
              \/ Scan /\ Starting(value, 0, 0) /\ value = val
              \/ ScanOnce /\ Starting(value, 0, -1) /\ value = val
              \/ ProcessCallback /\ Starting(value, -1, 0) /\ value = val
         \/ pact /\ (Put \/ ScanOnce \/ ProcessCallback)
<1>1. /\ val \in [1 .. N -> Values] /\ processCallbacks \in Nat /\ scanOnce \in Nat
      /\ made \in 0 .. MaxRequests /\ MaxRequests \in Nat
  BY RecordAssumption DEF TypesInv, ProcessTypeOK
<1>2. CASE Put /\ ~pact
  <2>1. PICK e \in Elements, v \in Values : Start([val EXCEPT ![e] = v], 0, 0)
    BY <1>2 DEF Put
  <2>2. [val EXCEPT ![e] = v] \in [1 .. N -> Values]
    BY <1>1
  <2>3. Starting([val EXCEPT ![e] = v], 0, 0)
    BY <1>1, <1>2, <2>1, <2>2 DEF Starting, Put
  <2>. QED BY <1>2, <2>2, <2>3
<1>3. CASE Scan /\ ~pact
  <2>1. Starting(val, 0, 0)
    BY <1>1, <1>3 DEF Starting, Scan
  <2>. QED BY <1>1, <1>3, <2>1
<1>4. CASE ScanOnce /\ ~pact
  <2>1. Starting(val, 0, -1)
    BY <1>1, <1>4 DEF Starting, ScanOnce
  <2>. QED BY <1>1, <1>4, <2>1
<1>5. CASE ProcessCallback /\ ~pact
  <2>1. Starting(val, -1, 0)
    BY <1>1, <1>5 DEF Starting, ProcessCallback
  <2>. QED BY <1>1, <1>5, <2>1
<1>. QED BY <1>2, <1>3, <1>4, <1>5 DEF Epics, Scan

LEMMA CompleteTypes ==
  ASSUME TypesInv, processCallbacks > 0, Complete, UNCHANGED <<configVars, made, elementVars>>
  PROVE  TypesInv'
<1>. USE DEF TypesInv
<1>1. \E value \in [1 .. N -> Values], failed \in BOOLEAN : Finished(value, failed, -1, 0)
  <2>1. val \in [1 .. N -> Values] /\ lastReply \in [1 .. N -> Values]
    BY DEF ProcessTypeOK, ElementTypeOK
  <2>2. [val EXCEPT ![1] = lastReply[1]] \in [1 .. N -> Values]
    BY <2>1, ElementsOfRecord
  <2>3. (~successful) \in BOOLEAN /\ (~successful \/ VerifyFailed) \in BOOLEAN
    OBVIOUS
  <2>4. CASE CompleteOutput
    BY <2>1, <2>3, <2>4 DEF CompleteOutput
  <2>5. CASE CompleteInput
    <3> DEFINE read == IF successful THEN [val EXCEPT ![1] = lastReply[1]] ELSE val
    <3>1. read \in [1 .. N -> Values]
      BY <2>1, <2>2
    <3>2. Finished(read, ~successful, -1, 0)
      BY <2>5 DEF CompleteInput
    <3>. HIDE DEF read
    <3>. QED BY <3>1, <3>2, <2>3
  <2>6. CASE CompleteWaveformOut
    BY <2>1, <2>3, <2>6 DEF CompleteWaveformOut
  <2>7. CASE CompleteWaveformIn \/ CompleteStringin
    <3> DEFINE read == IF successful THEN lastReply ELSE val
    <3>1. read \in [1 .. N -> Values]
      BY <2>1
    <3>2. Finished(read, ~successful, -1, 0)
      BY <2>7 DEF CompleteWaveformIn, CompleteStringin
    <3>. HIDE DEF read
    <3>. QED BY <3>1, <3>2, <2>3
  <2>. QED BY <2>4, <2>5, <2>6, <2>7 DEF Complete
<1>2. PICK value \in [1 .. N -> Values] : \E failed \in BOOLEAN : Finished(value, failed, -1, 0)
  BY <1>1
<1>3. /\ val' = value /\ pact' \in BOOLEAN /\ rpro' \in BOOLEAN
      /\ processCallbacks' = processCallbacks + (-1)
      /\ scanOnce' = scanOnce + 0 + (IF rpro THEN 1 ELSE 0)
  BY <1>2 DEF Finished
<1>4. alarm' \in BOOLEAN
  BY <1>2 DEF Finished
<1>5. processCallbacks' \in Nat /\ scanOnce' \in Nat
  BY <1>3 DEF ProcessTypeOK
<1>6. ProcessTypeOK'
  BY <1>3, <1>4, <1>5 DEF ProcessTypeOK, configVars
<1>7. ElementTypeOK'
  BY DEF ElementTypeOK, elementVars, supportVars, boundVars
<1>. QED BY <1>6, <1>7 DEF configVars

\* One request is changed.
LEMMA ChangedRequest ==
  ASSUME ElementTypeOK, NEW e \in 1 .. N, NEW i \in 1 .. Len(requests[e]), NEW r \in Request,
         requests' = [requests EXCEPT ![e][i] = r]
  PROVE  /\ requests[e][i] \in Request /\ requests[e] # <<>>
         /\ requests' \in [1 .. N -> Seq(Request)]
         /\ \A f \in (1 .. N) \ {e} : requests'[f] = requests[f]
         /\ Len(requests'[e]) = Len(requests[e]) /\ requests'[e] # <<>>
         /\ requests'[e][i] = r
         /\ \A j \in (1 .. Len(requests[e])) \ {i} : requests'[e][j] = requests[e][j]
<1> DEFINE q == requests[e]
           changed == [q EXCEPT ![i] = r]
<1>1. requests \in [1 .. N -> Seq(Request)]
  BY DEF ElementTypeOK
<1>2. q \in Seq(Request) /\ Len(q) \in Nat
  BY <1>1
<1>3. q[i] \in Request /\ q # <<>>
  BY <1>2, ElementOfSeq, EmptySeq
<1>4. /\ changed \in Seq(Request) /\ Len(changed) = Len(q)
      /\ \A j \in 1 .. Len(q) : changed[j] = IF j = i THEN r ELSE q[j]
  BY <1>2, ExceptSeq
<1>5. changed # <<>>
  BY <1>2, <1>4, EmptySeq
<1>6. requests' = [requests EXCEPT ![e] = changed]
  BY <1>1
<1>. HIDE DEF changed
<1>7. requests' \in [1 .. N -> Seq(Request)] /\ requests'[e] = changed
  BY <1>1, <1>4, <1>6
<1>8. \A f \in (1 .. N) \ {e} : requests'[f] = requests[f]
  BY <1>1, <1>6
<1>. QED BY <1>3, <1>4, <1>5, <1>7, <1>8

LEMMA ExecuteTypes ==
  ASSUME TypesInv, NEW e \in 1 .. N, NEW i \in 1 .. Len(requests[e]), Execute(e, i)
  PROVE  TypesInv' /\ [requests[e][i] EXCEPT !.executed = TRUE, !.seen = device'[e]] \in Request
<1>. USE DEF TypesInv
<1> DEFINE r == requests[e][i]
<1>1. r \in Request
  BY ElementOfSeq DEF ElementTypeOK
<1>2. disturbances' \in 0 .. MaxDisturbances /\ refused' \in BOOLEAN
  <2>1. disturbances' \in 0 .. MaxDisturbances
    BY ElementAssumption DEF Execute, ElementTypeOK
  <2>2. (kind \in OutputKinds) \in BOOLEAN
    OBVIOUS
  <2>3. refused' = refused \/ refused' = (kind \in OutputKinds)
    BY DEF Execute
  <2>. QED BY <2>1, <2>2, <2>3 DEF ElementTypeOK
<1>3. device' \in [1 .. N -> Values]
  BY <1>1 DEF Execute, ElementTypeOK, Request
<1>4. requests' = [requests EXCEPT ![e][i] = [r EXCEPT !.executed = TRUE, !.seen = device'[e]]]
  BY DEF Execute, ElementTypeOK
<1>. HIDE DEF r
<1>5. [r EXCEPT !.executed = TRUE, !.seen = device'[e]] \in Request
  BY <1>1, <1>3 DEF Request
<1>6. requests' \in [1 .. N -> Seq(Request)]
  BY <1>4, <1>5, ChangedRequest
<1>7. ElementTypeOK' /\ UNCHANGED epicsVars
  BY <1>2, <1>3, <1>6 DEF Execute, ElementTypeOK, supportVars
<1>. QED BY <1>5, <1>7 DEF r, ProcessTypeOK, epicsVars, configVars, processVars

LEMMA CountDownTypes ==
  ASSUME TypesInv, CountDown
  PROVE  pendingRequests' \in 0 .. CounterModulus - 1 /\ processCallbacks' \in Nat
<1>1. CounterModulus \in Nat \ {0} /\ pendingRequests \in Int /\ processCallbacks \in Nat
  BY RecordAssumption, ElementAssumption DEF TypesInv, ElementTypeOK, ProcessTypeOK
<1>2. (pendingRequests - 1) % CounterModulus \in 0 .. CounterModulus - 1
  BY <1>1
<1>. QED BY <1>1, <1>2 DEF CountDown

LEMMA CallbackTypes ==
  ASSUME TypesInv, NEW e \in 1 .. N, NEW i \in 1 .. Len(requests[e]), NEW success \in BOOLEAN,
         Callback(e, requests[e][i], success),
         requests' \in [1 .. N -> Seq(Request)], disturbances' \in 0 .. MaxDisturbances
  PROVE  TypesInv'
<1>. USE DEF TypesInv
<1> DEFINE r == requests[e][i]
<1>1. r \in Request /\ r.seen \in Values
  <2>1. r \in Request
    BY ElementOfSeq DEF ElementTypeOK
  <2>2. \A s \in Request : s.seen \in Values
    BY DEF Request
  <2>. QED BY <2>1, <2>2
<1>. HIDE DEF r
<1>2. /\ successful' \in BOOLEAN
      /\ lastReply' \in [1 .. N -> Values]
      /\ lastValueWritten' \in [1 .. N -> Values]
      /\ lastValueWrittenValid' \in [1 .. N -> BOOLEAN]
      /\ pendingRequests' \in 0 .. CounterModulus - 1
      /\ processCallbacks' \in Nat
  <2>1. [lastReply EXCEPT ![e] = r.seen] \in [1 .. N -> Values]
    BY <1>1 DEF ElementTypeOK
  <2>2. CASE ScalarCallback(e, r, success)
    BY <2>1, <2>2 DEF ScalarCallback, ElementTypeOK, ProcessTypeOK
  <2>3. CASE WaveformOutCallback(e, r, success)
    <3>1. pendingRequests' \in 0 .. CounterModulus - 1 /\ processCallbacks' \in Nat
      BY <2>3, CountDownTypes DEF WaveformOutCallback
    <3>2. successful' \in BOOLEAN
      BY <2>3 DEF WaveformOutCallback
    <3>3. lastValueWrittenValid' \in [1 .. N -> BOOLEAN]
      <4>1. (lastValueWrittenValid[e] \/ (success /\ Verified(e, r))) \in BOOLEAN
        OBVIOUS
      <4>2. lastValueWrittenValid' = [lastValueWrittenValid EXCEPT ![e] = lastValueWrittenValid[e] \/ (success /\ Verified(e, r))]
        BY <2>3 DEF WaveformOutCallback
      <4>. QED BY <4>1, <4>2 DEF ElementTypeOK
    <3>4. UNCHANGED <<lastValueWritten, lastReply>>
      BY <2>3 DEF WaveformOutCallback
    <3>. QED BY <3>1, <3>2, <3>3, <3>4 DEF ElementTypeOK
  <2>4. CASE PieceRead(e, r, success)
    <3>1. pendingRequests' \in 0 .. CounterModulus - 1 /\ processCallbacks' \in Nat
      BY <2>4, CountDownTypes DEF PieceRead
    <3>. QED BY <2>1, <2>4, <3>1 DEF PieceRead, ElementTypeOK
  <2>. QED BY <2>2, <2>3, <2>4 DEF r, Callback, OutputCallback, InputCallback, WaveformInCallback, StringinCallback
<1>3. UNCHANGED <<configVars, val, pact, rpro, alarm, scanOnce, made, changedElementsOnly, device, refused, changes>>
  BY DEF r, Callback
<1>4. ElementTypeOK'
  BY <1>2, <1>3 DEF ElementTypeOK
<1>. QED BY <1>2, <1>3, <1>4 DEF ProcessTypeOK, configVars

\* What Answer and AnswerAgain have in common with the callback they call.
LEMMA AnswerTypes ==
  ASSUME TypesInv, NEW e \in 1 .. N, NEW i \in 1 .. Len(requests[e]), Answer(e, i)
  PROVE  TypesInv' /\ \E success \in BOOLEAN :
           /\ Callback(e, requests[e][i], success)
           /\ requests' = [requests EXCEPT ![e][i] =
                             [requests[e][i] EXCEPT !.answer = IF success THEN "success" ELSE "failure"]]
           /\ [requests[e][i] EXCEPT !.answer = IF success THEN "success" ELSE "failure"] \in Request
<1>1. PICK success \in BOOLEAN :
        /\ Callback(e, requests[e][i], success)
        /\ requests' = [requests EXCEPT ![e][i].answer = IF success THEN "success" ELSE "failure"]
  BY DEF Answer
<1> DEFINE r == requests[e][i]
           a == IF success THEN "success" ELSE "failure"
<1>2. r \in Request /\ a \in {"none", "success", "failure"}
  BY ElementOfSeq DEF TypesInv, ElementTypeOK
<1>3. requests' = [requests EXCEPT ![e][i] = [r EXCEPT !.answer = a]]
  BY <1>1
<1>4. [r EXCEPT !.answer = a] \in Request
  <2>. HIDE DEF r, a
  <2>. QED BY <1>2 DEF Request
<1>5. requests' \in [1 .. N -> Seq(Request)]
  BY <1>3, <1>4, ChangedRequest DEF TypesInv
<1>6. disturbances' \in 0 .. MaxDisturbances
  BY DEF Answer, TypesInv, ElementTypeOK
<1>7. TypesInv'
  BY <1>1, <1>5, <1>6, CallbackTypes
<1>. QED BY <1>1, <1>3, <1>4, <1>7

LEMMA AnswerAgainTypes ==
  ASSUME TypesInv, NEW e \in 1 .. N, NEW i \in 1 .. Len(requests[e]), AnswerAgain(e, i)
  PROVE  TypesInv'
<1>1. PICK success \in BOOLEAN : Callback(e, requests[e][i], success)
  BY DEF AnswerAgain
<1>2. requests' \in [1 .. N -> Seq(Request)] /\ disturbances' \in 0 .. MaxDisturbances
  BY ElementAssumption DEF AnswerAgain, TypesInv, ElementTypeOK
<1>. QED BY <1>1, <1>2, CallbackTypes

\* The record that Init describes is of any kind.
LEMMA TypesInit ==
  ASSUME ProcessInit, ElementInit
  PROVE  ProcessTypeOK /\ ElementTypeOK /\ (verify => kind \in OutputKinds)
<1>1. kind \in AllKinds /\ verify \in BOOLEAN /\ (verify => kind \in OutputKinds)
  BY KindsAssumption DEF ProcessInit, OutputKinds
<1>2. /\ alarm \in BOOLEAN /\ val \in [1 .. N -> Values] /\ lastValueWritten \in [1 .. N -> Values]
      /\ lastValueWrittenValid \in [1 .. N -> BOOLEAN]
  <2>1. device \in [1 .. N -> Values] /\ [e \in 1 .. N |-> Zero] \in [1 .. N -> Values]
    BY RecordAssumption DEF ElementInit
  <2>2. CASE \E valid \in BOOLEAN : InitializeOutput(valid) \/ InitializeWaveformOut(valid)
    BY <2>1, <2>2 DEF InitializeOutput, InitializeWaveformOut
  <2>3. CASE InitializeInput
    BY <2>1, <2>3 DEF InitializeInput
  <2>. QED BY <2>2, <2>3 DEF ElementInit
<1>3. requests \in [1 .. N -> Seq(Request)]
  BY EmptySeq DEF ElementInit
<1>4. ElementTypeOK
  <2>1. changedElementsOnly \in BOOLEAN
    BY DEF ElementInit
  <2>2. pendingRequests \in 0 .. CounterModulus - 1
    BY ElementAssumption, RecordAssumption DEF ElementInit
  <2>3. disturbances \in 0 .. MaxDisturbances /\ changes \in 0 .. MaxChanges
    BY ElementAssumption DEF ElementInit
  <2>4. device \in [1 .. N -> Values] /\ lastReply \in [1 .. N -> Values]
    BY <1>2 DEF ElementInit
  <2>5. successful \in BOOLEAN /\ refused \in BOOLEAN
    BY DEF ElementInit
  <2>. QED BY <1>2, <1>3, <2>1, <2>2, <2>3, <2>4, <2>5 DEF ElementTypeOK
<1>5. ProcessTypeOK
  <2>1. pact \in BOOLEAN /\ rpro \in BOOLEAN
    BY DEF ProcessInit
  <2>2. processCallbacks \in Nat /\ scanOnce \in Nat /\ made \in 0 .. MaxRequests
    BY RecordAssumption DEF ProcessInit
  <2>. QED BY <1>1, <1>2, <2>1, <2>2 DEF ProcessTypeOK
<1>. QED BY <1>1, <1>4, <1>5

LEMMA TypesInvInit == ProcessInit /\ kind # "fineDelay" /\ ElementInit => TypesInv
BY TypesInit DEF TypesInv

LEMMA TypesInvNext == TypesInv /\ [ElementNext]_<<epicsVars, elementVars>> => TypesInv'
<1>. SUFFICES ASSUME TypesInv, [ElementNext]_<<epicsVars, elementVars>> PROVE TypesInv'
  OBVIOUS
<1>1. CASE Epics
  <2>1. CASE ~pact
    BY <1>1, <2>1, EpicsSteps, StartTypes
  <2>2. CASE pact /\ ProcessCallback
    BY <2>2, CompleteTypes DEF ProcessCallback, elementVars
  <2>3. CASE pact /\ Put
    <3>1. PICK e \in Elements, v \in Values : PutWhileActive([val EXCEPT ![e] = v])
      BY <2>3 DEF Put
    <3>2. val' \in [1 .. N -> Values] /\ rpro'
      BY <3>1 DEF PutWhileActive, TypesInv, ProcessTypeOK
    <3>3. UNCHANGED <<pact, alarm, processCallbacks, scanOnce, configVars, elementVars>>
      BY <2>3, <3>1 DEF Put, PutWhileActive, elementVars
    <3>4. made' \in 0 .. MaxRequests /\ rpro' \in BOOLEAN
      BY <2>3, <3>1, RecordAssumption DEF Put, PutWhileActive, TypesInv, ProcessTypeOK
    <3>. QED BY <3>2, <3>3, <3>4 DEF TypesInv, ProcessTypeOK, ElementTypeOK, configVars, elementVars, supportVars, boundVars
  <2>4. CASE pact /\ ScanOnce
    <3>1. UNCHANGED <<val, pact, rpro, alarm, processCallbacks, configVars, made, elementVars>> /\ scanOnce' \in Nat
      BY <2>4 DEF ScanOnce, elementVars, TypesInv, ProcessTypeOK
    <3>. QED BY <3>1 DEF TypesInv, ProcessTypeOK, ElementTypeOK, configVars, elementVars, supportVars, boundVars
  <2>. QED BY <1>1, <2>1, <2>2, <2>3, <2>4 DEF Epics, Scan
<1>2. CASE \E e \in 1 .. N : \E i \in 1 .. Len(requests[e]) : Execute(e, i)
  BY <1>2, ExecuteTypes
<1>3. CASE \E e \in 1 .. N : \E i \in 1 .. Len(requests[e]) : AnswerAgain(e, i)
  BY <1>3, AnswerAgainTypes
<1>4. CASE AnswerAny
  BY <1>4, AnswerTypes DEF AnswerAny
<1>5. CASE ChangeDevice
  <2>1. device' \in [1 .. N -> Values] /\ changes' \in 0 .. MaxChanges
    <3>1. device' \in [1 .. N -> Values]
      BY <1>5 DEF ChangeDevice, TypesInv, ElementTypeOK
    <3>2. changes' \in 0 .. MaxChanges
      BY <1>5, ElementAssumption DEF ChangeDevice, TypesInv, ElementTypeOK
    <3>. QED BY <3>1, <3>2
  <2>. QED BY <1>5, <2>1 DEF ChangeDevice, TypesInv, ProcessTypeOK, ElementTypeOK, epicsVars, configVars, processVars, supportVars
<1>6. CASE UNCHANGED <<epicsVars, elementVars>>
  BY <1>6 DEF TypesInv, ProcessTypeOK, ElementTypeOK, epicsVars, configVars, processVars, elementVars, supportVars, boundVars
<1>. QED BY <1>1, <1>2, <1>3, <1>4, <1>5, <1>6 DEF ElementNext

(* Every variable keeps its type, however often callbacks are called       *)
(* again.  The counter of pending requests wraps, as it does in the code,  *)
(* and may do so after a repeated callback.                                *)
THEOREM ElementTypes == ElementSpec => [](ProcessTypeOK /\ ElementTypeOK)
<1>1. TypesInv => ProcessTypeOK /\ ElementTypeOK
  BY DEF TypesInv
<1>. QED BY <1>1, TypesInvInit, TypesInvNext, PTL DEF ElementSpec
-----------------------------------------------------------------------------
(* How steps change what the invariant says about the requests.            *)

\* After all requests have been answered, those that are made are the only
\* pending and the only current ones.
LEMMA MadeFacts ==
  ASSUME TypesInv, OthersOver, \A e \in 1 .. N : ~Pending(e),
         NEW toRequest \in SUBSET (1 .. N), NEW atOnce \in SUBSET toRequest,
         NEW value \in [1 .. N -> Values],
         requests' = RequestsMade(toRequest, value, atOnce)
  PROVE  /\ OthersOver'
         /\ \A e \in 1 .. N :
              /\ Pending(e)' <=> e \in toRequest \ atOnce
              /\ Current(e)' <=> e \in toRequest
              /\ e \in toRequest => Latest(e)' = NewRequest(value[e], e \in atOnce)
              /\ e \notin toRequest /\ requests[e] = <<>> => requests'[e] = <<>>
<1>1. ASSUME NEW e \in 1 .. N
      PROVE  /\ \A i \in 1 .. Len(requests'[e]) - 1 :
                  requests'[e][i].answer # "none" /\ ~requests'[e][i].current
             /\ Pending(e)' <=> e \in toRequest \ atOnce
             /\ Current(e)' <=> e \in toRequest
             /\ e \in toRequest => Latest(e)' = NewRequest(value[e], e \in atOnce)
             /\ e \notin toRequest /\ requests[e] = <<>> => requests'[e] = <<>>
  <2>1. /\ requests[e] \in Seq(Request) /\ Len(requests[e]) \in Nat
        /\ \A i \in 1 .. Len(requests[e]) : requests[e][i] \in Request
    BY ElementOfSeq DEF TypesInv, ElementTypeOK
  <2>2. \A i \in 1 .. Len(requests[e]) : requests[e][i].answer # "none"
    <3>. SUFFICES ASSUME NEW i \in 1 .. Len(requests[e]) PROVE requests[e][i].answer # "none"
      OBVIOUS
    <3>1. CASE i = Len(requests[e])
      <4>1. requests[e] # <<>>
        BY <2>1, <3>1, EmptySeq
      <4>. QED BY <3>1, <4>1 DEF Pending, Latest
    <3>2. CASE i # Len(requests[e])
      BY <2>1, <3>2 DEF OthersOver
    <3>. QED BY <3>1, <3>2
  <2>3. PICK d \in {0, 1} :
          /\ Len(Earlier(e)) = Len(requests[e]) - d
          /\ \A i \in 1 .. Len(Earlier(e)) :
               /\ i + d \in 1 .. Len(requests[e])
               /\ Earlier(e)[i] = [requests[e][i + d] EXCEPT !.current = FALSE]
    BY EarlierFacts DEF TypesInv
  <2>4. Earlier(e) \in Seq(Request) /\ Len(Earlier(e)) \in Nat
    BY EarlierFacts DEF TypesInv
  <2>5. \A i \in 1 .. Len(Earlier(e)) : Earlier(e)[i].answer # "none" /\ ~Earlier(e)[i].current
    <3>1. \A q \in Request : [q EXCEPT !.current = FALSE].answer = q.answer /\ ~[q EXCEPT !.current = FALSE].current
      BY DEF Request
    <3>2. ASSUME NEW i \in 1 .. Len(Earlier(e))
          PROVE  Earlier(e)[i].answer # "none" /\ ~Earlier(e)[i].current
      <4>1. i + d \in 1 .. Len(requests[e]) /\ Earlier(e)[i] = [requests[e][i + d] EXCEPT !.current = FALSE]
        BY <2>3
      <4>2. requests[e][i + d] \in Request /\ requests[e][i + d].answer # "none"
        BY <2>1, <2>2, <4>1
      <4>. QED BY <3>1, <4>1, <4>2
    <3>. QED BY <3>2
  <2>6. CASE e \in toRequest
    <3> DEFINE r == NewRequest(value[e], e \in atOnce)
    <3>1. (e \in atOnce) \in BOOLEAN /\ value[e] \in Values
      OBVIOUS
    <3>2. r \in Request
      BY <3>1, NewRequestType
    <3>3. r.current /\ (r.answer = "none" <=> e \notin atOnce)
      BY DEF NewRequest
    <3>4. requests'[e] = Append(Earlier(e), r)
      BY <2>6 DEF RequestsMade
    <3>. HIDE DEF r
    <3>5. /\ requests'[e] # <<>>
          /\ Len(requests'[e]) = Len(Earlier(e)) + 1
          /\ \A i \in 1 .. Len(Earlier(e)) : requests'[e][i] = Earlier(e)[i]
          /\ requests'[e][Len(requests'[e])] = r
      BY <2>4, <3>2, <3>4, AppendRequest
    <3>6. Latest(e)' = r
      BY <3>5 DEF Latest
    <3>7. Pending(e)' <=> e \in toRequest \ atOnce
      BY <2>6, <3>3, <3>5, <3>6 DEF Pending
    <3>8. Current(e)'
      BY <3>3, <3>5, <3>6 DEF Current
    <3>9. Len(requests'[e]) - 1 = Len(Earlier(e))
      BY <2>4, <3>5
    <3>. QED BY <2>5, <2>6, <3>5, <3>6, <3>7, <3>8, <3>9 DEF r
  <2>7. CASE e \notin toRequest
    <3>1. requests'[e] = Earlier(e)
      BY <2>7 DEF RequestsMade
    <3>2. Earlier(e) # <<>> => Len(Earlier(e)) \in 1 .. Len(Earlier(e))
      BY <2>4, EmptySeq
    <3>3. ~Pending(e)' /\ ~Current(e)'
      BY <2>5, <3>1, <3>2 DEF Pending, Current, Latest
    <3>4. requests[e] = <<>> => Earlier(e) = <<>>
      <4>1. Len(Earlier(e)) = 0 => Earlier(e) = <<>>
        BY <2>4, EmptySeq
      <4>2. requests[e] = <<>> => Len(requests[e]) = 0
        BY EmptySeq
      <4>. QED BY <2>3, <2>4, <4>1, <4>2
    <3>5. \A i \in 1 .. Len(requests'[e]) - 1 : i \in 1 .. Len(Earlier(e))
      BY <2>4, <3>1
    <3>. QED BY <2>5, <2>7, <3>1, <3>3, <3>4, <3>5
  <2>. QED BY <2>6, <2>7
<1>2. OthersOver'
  BY <1>1 DEF OthersOver
<1>. QED BY <1>1, <1>2

\* A request that has not been answered is the latest one for its element.
LEMMA LatestChanged ==
  ASSUME TypesInv, OthersOver, NEW e \in 1 .. N, NEW i \in 1 .. Len(requests[e]),
         requests[e][i].answer = "none",
         NEW r \in Request, r.current = requests[e][i].current,
         requests' = [requests EXCEPT ![e][i] = r]
  PROVE  /\ requests[e][i] = Latest(e) /\ Pending(e)
         /\ OthersOver'
         /\ Latest(e)' = r /\ (Pending(e)' <=> r.answer = "none") /\ (Current(e)' <=> Current(e))
         /\ \A f \in (1 .. N) \ {e} :
              /\ requests'[f] = requests[f] /\ Latest(f)' = Latest(f)
              /\ Pending(f)' <=> Pending(f)
              /\ Current(f)' <=> Current(f)
<1>0. ElementTypeOK
  BY DEF TypesInv
<1>1. /\ requests[e][i] \in Request /\ requests[e] # <<>>
      /\ requests' \in [1 .. N -> Seq(Request)]
      /\ \A f \in (1 .. N) \ {e} : requests'[f] = requests[f]
      /\ Len(requests'[e]) = Len(requests[e]) /\ requests'[e] # <<>>
      /\ requests'[e][i] = r
      /\ \A j \in (1 .. Len(requests[e])) \ {i} : requests'[e][j] = requests[e][j]
  BY <1>0, ChangedRequest
<1>2. Len(requests[e]) \in Nat
  BY DEF TypesInv, ElementTypeOK
<1>3. i = Len(requests[e])
  BY <1>2 DEF OthersOver
<1>4. requests[e][i] = Latest(e) /\ Pending(e)
  BY <1>1, <1>3 DEF Latest, Pending
<1>5. Latest(e)' = r
  BY <1>1, <1>3 DEF Latest
<1>6. (Pending(e)' <=> r.answer = "none") /\ (Current(e)' <=> Current(e))
  BY <1>1, <1>4, <1>5 DEF Pending, Current
<1>7. \A f \in (1 .. N) \ {e} :
        /\ requests'[f] = requests[f] /\ Latest(f)' = Latest(f)
        /\ Pending(f)' <=> Pending(f)
        /\ Current(f)' <=> Current(f)
  BY <1>1 DEF Latest, Pending, Current
<1>8. OthersOver'
  <2>. SUFFICES ASSUME NEW f \in 1 .. N, NEW j \in 1 .. Len(requests'[f]) - 1
                PROVE  requests'[f][j].answer # "none" /\ ~requests'[f][j].current
    BY DEF OthersOver
  <2>1. CASE f = e
    <3>1. j \in 1 .. Len(requests[e]) - 1 /\ j \in (1 .. Len(requests[e])) \ {i}
      BY <1>1, <1>2, <1>3, <2>1
    <3>. QED BY <1>1, <2>1, <3>1 DEF OthersOver
  <2>2. CASE f # e
    BY <1>1, <2>2 DEF OthersOver
  <2>. QED BY <2>1, <2>2
<1>. QED BY <1>4, <1>5, <1>6, <1>7, <1>8

\* Steps that change no request leave what is said about them alone.
LEMMA SameRequests ==
  ASSUME UNCHANGED requests
  PROVE  /\ OthersOver' <=> OthersOver
         /\ \A e \in 1 .. N :
              /\ requests'[e] = requests[e] /\ Latest(e)' = Latest(e)
              /\ Pending(e)' <=> Pending(e)
              /\ Current(e)' <=> Current(e)
<1>1. OthersOver' <=> OthersOver
  BY DEF OthersOver
<1>2. ASSUME NEW e \in 1 .. N
      PROVE  /\ requests'[e] = requests[e] /\ Latest(e)' = Latest(e)
             /\ Pending(e)' <=> Pending(e)
             /\ Current(e)' <=> Current(e)
  BY DEF Latest, Pending, Current
<1>. QED BY <1>1, <1>2
-----------------------------------------------------------------------------
(* Each step preserves the invariant as long as nothing is disturbed.      *)

\* What the kinds of records have in common when processing starts.
LEMMA StartCommon ==
  ASSUME ElementInv, Undisturbed, ~pact,
         NEW value, NEW callbacks, NEW scans, Starting(value, callbacks, scans),
         NEW toRequest \in SUBSET (1 .. N), NEW atOnce \in SUBSET toRequest,
         requests' = RequestsMade(toRequest, value, atOnce),
         val' = value, kind \in OutputKinds => lastValueWritten' = value
  PROVE  /\ callbacks = 0 /\ processCallbacks = 0 /\ ~rpro
         /\ OthersOver' /\ ValueInv'
         /\ \A e \in 1 .. N : RequestInv(e)'
         /\ \A e \in 1 .. N :
              /\ Pending(e)' <=> e \in toRequest \ atOnce
              /\ Current(e)' <=> e \in toRequest
              /\ e \in toRequest => Latest(e)' = NewRequest(value[e], e \in atOnce)
              /\ e \notin toRequest /\ requests[e] = <<>> => requests'[e] = <<>>
<1>1. /\ TypesInv /\ OthersOver /\ ~rpro /\ processCallbacks = 0
      /\ \A e \in 1 .. N : ~Pending(e)
  BY DEF ElementInv, UndisturbedInv, IdleInv
<1>2. callbacks = 0
  BY <1>1 DEF Starting
<1>3. value \in [1 .. N -> Values]
  BY DEF Starting
<1>4. /\ OthersOver'
      /\ \A e \in 1 .. N :
           /\ Pending(e)' <=> e \in toRequest \ atOnce
           /\ Current(e)' <=> e \in toRequest
           /\ e \in toRequest => Latest(e)' = NewRequest(value[e], e \in atOnce)
           /\ e \notin toRequest /\ requests[e] = <<>> => requests'[e] = <<>>
  BY <1>1, <1>3, MadeFacts
<1>5. UNCHANGED kind
  BY DEF Starting, configVars
<1>6. ValueInv'
  <2>1. \A e \in Elements' : val'[e] = lastValueWritten'[e] \/ kind \notin OutputKinds
    OBVIOUS
  <2>. QED BY <1>5, <2>1 DEF ValueInv
<1>7. ASSUME NEW e \in 1 .. N PROVE RequestInv(e)'
  <2>1. CASE e \in toRequest
    <3>1. /\ Latest(e)'.value = value[e] /\ ~Latest(e)'.executed /\ Latest(e)'.answer # "success"
      <4>1. Latest(e)' = NewRequest(value[e], e \in atOnce)
        BY <1>4, <2>1
      <4>. QED BY <4>1 DEF NewRequest
    <3>2. Current(e)'
      BY <1>4, <2>1
    <3>. QED BY <1>5, <3>1, <3>2 DEF RequestInv
  <2>2. CASE e \notin toRequest
    BY <1>4, <2>2 DEF RequestInv
  <2>. QED BY <2>1, <2>2
<1>. QED BY <1>1, <1>2, <1>4, <1>6, <1>7

LEMMA StartScalarInv ==
  ASSUME ElementInv, Undisturbed, ~pact,
         NEW value, NEW callbacks, NEW scans, Starting(value, callbacks, scans),
         kind \in ScalarKinds \ {"fineDelay"}, kind \in OutputKinds => lastValueWritten' = value,
         StartScalar(value, callbacks, scans)
  PROVE  UndisturbedInv'
<1>1. PICK atOnce \in SUBSET {1} :
        /\ requests' = RequestsMade({1}, value, atOnce)
        /\ Active(value, callbacks + Cardinality(atOnce), scans)
        /\ successful' = (successful /\ atOnce = {})
        /\ UNCHANGED <<pendingRequests, lastValueWrittenValid, lastReply>>
  BY DEF StartScalar
<1>2. val' = value /\ pact' /\ {1} \in SUBSET (1 .. N) /\ UNCHANGED kind
  BY <1>1, ElementsOfRecord DEF Active, Starting, configVars
<1>3. /\ callbacks = 0 /\ processCallbacks = 0 /\ ~rpro
      /\ OthersOver' /\ ValueInv'
      /\ \A e \in 1 .. N : RequestInv(e)'
      /\ \A e \in 1 .. N :
           /\ Pending(e)' <=> e \in {1} \ atOnce
           /\ Current(e)' <=> e \in {1}
           /\ e \in {1} => Latest(e)' = NewRequest(value[e], e \in atOnce)
           /\ e \notin {1} /\ requests[e] = <<>> => requests'[e] = <<>>
  <2>1. PICK toRequest \in SUBSET (1 .. N) : toRequest = {1}
    BY <1>2
  <2>2. atOnce \in SUBSET toRequest /\ requests' = RequestsMade(toRequest, value, atOnce)
    BY <1>1, <2>1
  <2>3. /\ callbacks = 0 /\ processCallbacks = 0 /\ ~rpro
        /\ OthersOver' /\ ValueInv'
        /\ \A e \in 1 .. N : RequestInv(e)'
        /\ \A e \in 1 .. N :
             /\ Pending(e)' <=> e \in toRequest \ atOnce
             /\ Current(e)' <=> e \in toRequest
             /\ e \in toRequest => Latest(e)' = NewRequest(value[e], e \in atOnce)
             /\ e \notin toRequest /\ requests[e] = <<>> => requests'[e] = <<>>
    BY <1>2, <2>2, StartCommon
  <2>. QED BY <2>1, <2>3
<1>4. IdleInv' /\ (kind = "output" => OutputInv)' /\ (kind \notin ScalarKinds => PiecesInv)'
      /\ (kind = "waveformOut" => WaveformOutInv)'
      /\ (kind \notin ScalarKinds \cup OutputKinds => InputPiecesInv)'
  BY <1>2 DEF IdleInv, OutputInv, ScalarKinds
<1>5. ScalarInv'
  <2>1. \A e \in 2 .. N : requests'[e] = <<>>
    <3>. SUFFICES ASSUME NEW e \in 2 .. N PROVE requests'[e] = <<>>
      OBVIOUS
    <3>1. e \in 1 .. N /\ e # 1
      BY RecordAssumption
    <3>2. requests[e] = <<>>
      BY DEF ElementInv, UndisturbedInv, ScalarInv
    <3>. QED BY <1>3, <3>1, <3>2
  <2>2. Current(1)' /\ (Pending(1)' <=> atOnce = {})
    BY <1>3, ElementsOfRecord
  <2>3. processCallbacks' = IF atOnce = {} THEN 0 ELSE 1
    <3>1. atOnce = {} \/ atOnce = {1}
      OBVIOUS
    <3>2. Cardinality({}) = 0 /\ Cardinality({1}) = 1
      BY FS_EmptySet, FS_Singleton
    <3>3. processCallbacks' = 0 + (0 + Cardinality(atOnce))
      BY <1>1, <1>3 DEF Active
    <3>4. CASE atOnce = {}
      BY <3>2, <3>3, <3>4
    <3>5. CASE atOnce = {1}
      BY <3>2, <3>3, <3>5
    <3>. QED BY <3>1, <3>4, <3>5
  <2>4. atOnce # {} => ~successful' /\ Latest(1)'.answer = "failure"
    <3>1. ASSUME atOnce # {} PROVE 1 \in atOnce
      BY <3>1
    <3>2. Latest(1)' = NewRequest(value[1], 1 \in atOnce)
      BY <1>3, ElementsOfRecord
    <3>3. NewRequest(value[1], TRUE).answer = "failure"
      BY DEF NewRequest
    <3>4. atOnce # {} => ~successful'
      BY <1>1
    <3>5. ASSUME atOnce # {} PROVE Latest(1)'.answer = "failure"
      <4>1. (1 \in atOnce) = TRUE
        BY <3>1, <3>5
      <4>. QED BY <3>2, <3>3, <4>1
    <3>. QED BY <3>4, <3>5
  <2>5. processCallbacks' = IF Pending(1)' THEN 0 ELSE 1
    BY <2>2, <2>3
  <2>6. ~Pending(1)' => /\ successful' = (Latest(1)'.answer = "success")
                        /\ successful' => lastReply'[1] = Latest(1)'.seen
    <3>. SUFFICES ASSUME ~Pending(1)' PROVE ~successful' /\ Latest(1)'.answer # "success" /\ successful' \in BOOLEAN
      OBVIOUS
    <3>. QED BY <1>1, <2>2, <2>4
  <2>. QED BY <2>1, <2>2, <2>5, <2>6 DEF ScalarInv
<1>. QED BY <1>3, <1>4, <1>5 DEF UndisturbedInv

\* The conditions on the outcome that are common to waveforms and strings.
LEMMA StartElementsInv ==
  ASSUME ElementInv, Undisturbed, ~pact,
         NEW value, NEW callbacks, NEW scans, Starting(value, callbacks, scans),
         kind \notin ScalarKinds, kind \in OutputKinds => lastValueWritten' = value,
         NEW toRequest \in SUBSET (1 .. N), StartElements(toRequest, value, callbacks, scans)
  PROVE  /\ OthersOver' /\ IdleInv' /\ ValueInv' /\ PiecesInv'
         /\ \A e \in 1 .. N : RequestInv(e)'
         /\ \A e \in 1 .. N : Current(e)' <=> e \in toRequest
         /\ \A e \in 1 .. N : Current(e)' => Latest(e)'.answer # "success"
         /\ \A e \in 1 .. N : e \notin toRequest => ~Pending(e)'
         /\ successful' /\ pact' => \A e \in toRequest : Pending(e)'
         /\ ~pact' /\ ~alarm' => toRequest = {}
<1>1. PICK atOnce \in SUBSET toRequest :
        /\ requests' = RequestsMade(toRequest, value, atOnce)
        /\ successful' = (atOnce = {})
        /\ pendingRequests' = Cardinality(toRequest \ atOnce)
        /\ IF toRequest = atOnce
             THEN Finished(value, atOnce # {}, callbacks, scans)
             ELSE Active(value, callbacks, scans)
        /\ UNCHANGED lastReply
  BY DEF StartElements
<1>2. val' = value /\ (pact' <=> toRequest # atOnce)
  BY <1>1 DEF Active, Finished
<1>3. /\ callbacks = 0 /\ processCallbacks = 0 /\ ~rpro
      /\ OthersOver' /\ ValueInv'
      /\ \A e \in 1 .. N : RequestInv(e)'
      /\ \A e \in 1 .. N :
           /\ Pending(e)' <=> e \in toRequest \ atOnce
           /\ Current(e)' <=> e \in toRequest
           /\ e \in toRequest => Latest(e)' = NewRequest(value[e], e \in atOnce)
           /\ e \notin toRequest /\ requests[e] = <<>> => requests'[e] = <<>>
  BY <1>1, <1>2, StartCommon
<1>4. processCallbacks' = 0
  BY <1>1, <1>3 DEF Active, Finished
<1>5. IdleInv'
  <2>. SUFFICES ASSUME ~pact' PROVE ~rpro' /\ processCallbacks' = 0 /\ \A e \in 1 .. N : ~Pending(e)'
    BY DEF IdleInv
  <2>1. toRequest = atOnce
    BY <1>2
  <2>2. ~rpro'
    BY <1>1, <2>1 DEF Finished
  <2>. QED BY <1>3, <1>4, <2>1, <2>2
<1>6. ASSUME NEW e \in toRequest
      PROVE  /\ Latest(e)'.answer = IF e \in atOnce THEN "failure" ELSE "none"
             /\ e \in 1 .. N
  BY <1>3 DEF NewRequest
<1>7. \A e \in 1 .. N : Current(e)' => Latest(e)'.answer # "success"
  BY <1>3, <1>6
<1>8. PiecesInv'
  <2>. SUFFICES ASSUME pact'
                PROVE  /\ pendingRequests' = Cardinality({e \in 1 .. N : Pending(e)'})
                       /\ processCallbacks' = IF pendingRequests' = 0 THEN 1 ELSE 0
                       /\ successful' = (\A e \in 1 .. N : Current(e)' /\ ~Pending(e)' => Fulfilled(Latest(e))')
    BY DEF PiecesInv
  <2>1. {e \in 1 .. N : Pending(e)'} = toRequest \ atOnce
    BY <1>3
  <2>2. Cardinality(toRequest \ atOnce) # 0
    <3>1. IsFiniteSet(toRequest \ atOnce)
      BY FewElements
    <3>2. toRequest \ atOnce # {}
      BY <1>2
    <3>. QED BY <3>1, <3>2, FS_EmptySet
  <2>3. (\A e \in 1 .. N : Current(e)' /\ ~Pending(e)' => Fulfilled(Latest(e))') <=> atOnce = {}
    <3>1. CASE atOnce = {}
      BY <1>3, <3>1
    <3>2. CASE atOnce # {}
      <4>1. PICK e \in atOnce : TRUE
        BY <3>2
      <4>2. e \in 1 .. N /\ Current(e)' /\ ~Pending(e)' /\ Latest(e)'.answer = "failure"
        BY <1>3, <1>6, <4>1
      <4>3. ~Fulfilled(Latest(e))'
        BY <4>2 DEF Fulfilled
      <4>. QED BY <3>2, <4>2, <4>3
    <3>. QED BY <3>1, <3>2
  <2>. QED BY <1>1, <1>4, <2>1, <2>2, <2>3
<1>9. \A e \in 1 .. N : e \notin toRequest => ~Pending(e)'
  BY <1>3
<1>10. successful' /\ pact' => \A e \in toRequest : Pending(e)'
  BY <1>1, <1>3
<1>11. ~pact' /\ ~alarm' => toRequest = {}
  BY <1>1, <1>2 DEF Finished
<1>. QED BY <1>3, <1>5, <1>7, <1>8, <1>9, <1>10, <1>11

LEMMA StartInv ==
  ASSUME ElementInv, Undisturbed, ~pact,
         NEW value, NEW callbacks, NEW scans, Starting(value, callbacks, scans)
  PROVE  UndisturbedInv'
<1>1. UNCHANGED <<kind, verify, device, refused>> /\ value \in [1 .. N -> Values]
  BY DEF Starting, configVars, boundVars
<1>2. CASE StartOutput(value, callbacks, scans)
  <2>1. kind \in ScalarKinds \ {"fineDelay"} /\ lastValueWritten' = value /\ StartScalar(value, callbacks, scans)
    BY <1>2 DEF StartOutput, ScalarKinds
  <2>. QED BY <2>1, StartScalarInv
<1>3. CASE StartInput(callbacks, scans)
  <2>1. kind \in ScalarKinds \ {"fineDelay"} /\ kind \notin OutputKinds /\ StartScalar(val, callbacks, scans)
    BY <1>3 DEF StartInput, ScalarKinds, OutputKinds
  <2>2. Starting(val, callbacks, scans)
    BY <1>3 DEF Starting, Start, ElementInv, TypesInv, ProcessTypeOK
  <2>. QED BY <2>1, <2>2, StartScalarInv
<1>4. CASE StartWaveformOut(value, callbacks, scans)
  <2>1. /\ kind = "waveformOut" /\ kind \notin ScalarKinds /\ kind \in OutputKinds
        /\ lastValueWritten' = value
        /\ lastValueWrittenValid' = [e \in 1 .. N |-> lastValueWrittenValid[e] /\ e \notin ToWrite(value)]
        /\ StartElements(ToWrite(value), value, callbacks, scans)
        /\ ToWrite(value) \in SUBSET (1 .. N)
    BY <1>4 DEF StartWaveformOut, ScalarKinds, OutputKinds, ToWrite
  <2>2. /\ OthersOver' /\ IdleInv' /\ ValueInv' /\ PiecesInv'
        /\ \A e \in 1 .. N : RequestInv(e)'
        /\ \A e \in 1 .. N : e \notin ToWrite(value) => ~Pending(e)'
        /\ successful' /\ pact' => \A e \in ToWrite(value) : Pending(e)'
        /\ ~pact' /\ ~alarm' => ToWrite(value) = {}
    BY <2>1, StartElementsInv
  <2>3. \A e \in 1 .. N : lastValueWrittenValid'[e] <=> e \notin ToWrite(value)
    BY <2>1 DEF ToWrite
  <2>4. WaveformOutInv
    BY <2>1 DEF ElementInv, UndisturbedInv
  <2>5. ASSUME NEW e \in 1 .. N, lastValueWrittenValid'[e]
        PROVE  ~Pending(e)' /\ (Writable' => device'[e] = lastValueWritten'[e])
    <3>1. e \notin ToWrite(value)
      BY <2>3, <2>5
    <3>2. lastValueWrittenValid[e] /\ lastValueWritten[e] = value[e]
      BY <3>1 DEF ToWrite
    <3>3. Writable' => Writable
      BY <1>1 DEF Writable
    <3>. QED BY <1>1, <2>1, <2>2, <2>4, <3>1, <3>2, <3>3 DEF WaveformOutInv
  <2>6. pact' /\ successful' => \A e \in 1 .. N : lastValueWrittenValid'[e] \/ Pending(e)'
    BY <2>2, <2>3
  <2>7. ~pact' /\ ~alarm' => \A e \in 1 .. N : lastValueWrittenValid'[e]
    BY <2>2, <2>3
  <2>8. WaveformOutInv'
    BY <2>5, <2>6, <2>7 DEF WaveformOutInv
  <2>. QED BY <1>1, <2>1, <2>2, <2>8 DEF UndisturbedInv
<1>5. CASE StartWaveformIn(callbacks, scans) \/ StartStringin(callbacks, scans)
  <2>1. /\ kind \in {"waveformIn", "stringin"} /\ kind \notin ScalarKinds /\ kind \notin OutputKinds
        /\ StartElements(1 .. N, val, callbacks, scans)
    BY <1>5 DEF StartWaveformIn, StartStringin, ScalarKinds, OutputKinds
  <2>2. Starting(val, callbacks, scans)
    BY <1>5 DEF Starting, Start, ElementInv, TypesInv, ProcessTypeOK
  <2>3. /\ OthersOver' /\ IdleInv' /\ ValueInv' /\ PiecesInv'
        /\ \A e \in 1 .. N : RequestInv(e)'
        /\ \A e \in 1 .. N : Current(e)' <=> e \in 1 .. N
        /\ \A e \in 1 .. N : Current(e)' => Latest(e)'.answer # "success"
    <3>1. PICK all \in SUBSET (1 .. N) : all = 1 .. N
      OBVIOUS
    <3>2. StartElements(all, val, callbacks, scans)
      BY <2>1, <3>1
    <3>3. /\ OthersOver' /\ IdleInv' /\ ValueInv' /\ PiecesInv'
          /\ \A e \in 1 .. N : RequestInv(e)'
          /\ \A e \in 1 .. N : Current(e)' <=> e \in all
          /\ \A e \in 1 .. N : Current(e)' => Latest(e)'.answer # "success"
      BY <2>1, <2>2, <3>2, StartElementsInv
    <3>. QED BY <3>1, <3>3
  <2>4. InputPiecesInv'
    BY <2>3 DEF InputPiecesInv
  <2>. QED BY <1>1, <2>1, <2>3, <2>4 DEF UndisturbedInv
<1>. QED BY <1>2, <1>3, <1>4, <1>5 DEF Starting, Start

LEMMA ExecuteInv ==
  ASSUME ElementInv, Undisturbed, Undisturbed',
         NEW e \in 1 .. N, NEW i \in 1 .. Len(requests[e]), Execute(e, i)
  PROVE  UndisturbedInv'
<1> DEFINE r == requests[e][i]
           done == [r EXCEPT !.executed = TRUE, !.seen = device'[e]]
<1>1. TypesInv /\ UndisturbedInv /\ r \in Request /\ done \in Request
  BY ExecuteTypes, ElementOfSeq DEF ElementInv, TypesInv, ElementTypeOK
<1>2. r.answer = "none"
  BY DEF Execute, Undisturbed
<1>3. requests' = [requests EXCEPT ![e][i] = done]
  BY DEF Execute, ElementInv, TypesInv, ElementTypeOK
<1>4. UNCHANGED <<epicsVars, supportVars>>
  BY DEF Execute
<1>5. UNCHANGED <<kind, verify, val, pact, rpro, alarm, processCallbacks, scanOnce>>
  BY <1>4 DEF epicsVars, configVars, processVars
<1>6. UNCHANGED <<successful, pendingRequests, lastValueWritten, lastValueWrittenValid, lastReply>>
  BY <1>4 DEF supportVars
<1>7. /\ \A f \in (1 .. N) \ {e} : device'[f] = device[f]
      /\ kind \in OutputKinds => (refused => refused') /\ (refused' \/ device'[e] = r.value)
  <2>1. device \in [1 .. N -> Values]
    BY <1>1 DEF TypesInv, ElementTypeOK
  <2>2. \/ device' = [device EXCEPT ![e] = r.value] /\ UNCHANGED refused
        \/ UNCHANGED device /\ refused' = (kind \in OutputKinds)
    BY DEF Execute
  <2>3. CASE device' = [device EXCEPT ![e] = r.value] /\ UNCHANGED refused
    BY <2>1, <2>3
  <2>4. CASE UNCHANGED device /\ refused' = (kind \in OutputKinds)
    BY <2>4
  <2>. QED BY <2>2, <2>3, <2>4
<1>8. /\ done.executed /\ done.seen = device'[e] /\ done.answer = r.answer
      /\ done.value = r.value /\ done.current = r.current
  <2>. HIDE DEF r
  <2>. QED BY <1>1 DEF Request
<1>. HIDE DEF r, done
<1>9. /\ r = Latest(e) /\ Pending(e)
      /\ OthersOver'
      /\ Latest(e)' = done /\ (Pending(e)' <=> done.answer = "none") /\ (Current(e)' <=> Current(e))
      /\ \A f \in (1 .. N) \ {e} :
           /\ requests'[f] = requests[f] /\ Latest(f)' = Latest(f)
           /\ Pending(f)' <=> Pending(f)
           /\ Current(f)' <=> Current(f)
  <2>1. OthersOver
    BY <1>1 DEF UndisturbedInv
  <2>. QED BY <1>1, <1>2, <1>3, <1>8, <2>1, LatestChanged DEF r
<1>10. \A f \in 1 .. N : (Pending(f)' <=> Pending(f)) /\ (Current(f)' <=> Current(f))
  BY <1>2, <1>8, <1>9
<1>11. pact /\ IdleInv'
  BY <1>1, <1>5, <1>9 DEF UndisturbedInv, IdleInv
<1>12. ValueInv'
  BY <1>1, <1>5, <1>6 DEF UndisturbedInv, ValueInv, Elements
<1>13. ASSUME NEW f \in 1 .. N PROVE RequestInv(f)'
  <2>1. RequestInv(f)
    BY <1>1 DEF UndisturbedInv
  <2>2. CASE f = e
    BY <1>2, <1>5, <1>6, <1>7, <1>8, <1>9, <1>10, <2>1, <2>2 DEF RequestInv
  <2>3. CASE f # e
    BY <1>5, <1>6, <1>7, <1>9, <2>1, <2>3 DEF RequestInv
  <2>. QED BY <2>2, <2>3
<1>14. ASSUME kind \in ScalarKinds PROVE ScalarInv'
  <2>1. ScalarInv /\ e = 1
    <3>1. ScalarInv
      BY <1>1, <1>14 DEF UndisturbedInv
    <3>2. requests[e] # <<>>
      BY <1>9 DEF Pending
    <3>. QED BY <3>1, <3>2, RecordAssumption DEF ScalarInv
  <2>2. \A f \in 2 .. N : requests'[f] = <<>>
    <3>1. \A f \in 2 .. N : f \in (1 .. N) \ {e}
      BY <2>1, RecordAssumption
    <3>. QED BY <1>9, <2>1, <3>1 DEF ScalarInv
  <2>3. Pending(1)' /\ Pending(1) /\ (Current(1)' <=> Current(1))
    BY <1>9, <1>10, <2>1
  <2>4. Current(1)' /\ processCallbacks' = 0
    BY <1>5, <1>11, <2>1, <2>3 DEF ScalarInv
  <2>. QED BY <2>2, <2>3, <2>4 DEF ScalarInv
<1>15. ASSUME kind \notin ScalarKinds PROVE PiecesInv'
  <2>1. PiecesInv
    BY <1>1, <1>15 DEF UndisturbedInv
  <2>2. {f \in 1 .. N : Pending(f)'} = {f \in 1 .. N : Pending(f)}
    BY <1>10
  <2>3. \A f \in 1 .. N : Current(f)' /\ ~Pending(f)' => (Fulfilled(Latest(f))' <=> Fulfilled(Latest(f)))
    BY <1>5, <1>9, <1>10 DEF Fulfilled
  <2>4. (\A f \in 1 .. N : Current(f)' /\ ~Pending(f)' => Fulfilled(Latest(f))')
        <=> (\A f \in 1 .. N : Current(f) /\ ~Pending(f) => Fulfilled(Latest(f)))
    BY <1>10, <2>3
  <2>. QED BY <1>5, <1>6, <2>1, <2>2, <2>4 DEF PiecesInv
<1>16. ASSUME kind = "waveformOut" PROVE WaveformOutInv'
  <2>1. WaveformOutInv /\ (Writable' => Writable)
    BY <1>1, <1>5, <1>7, <1>16 DEF UndisturbedInv, Writable, OutputKinds
  <2>2. ~lastValueWrittenValid[e]
    BY <1>9, <2>1 DEF WaveformOutInv
  <2>. QED BY <1>5, <1>6, <1>7, <1>10, <1>11, <2>1, <2>2 DEF WaveformOutInv
<1>17. ASSUME kind \notin ScalarKinds \cup OutputKinds PROVE InputPiecesInv'
  <2>1. InputPiecesInv
    BY <1>1, <1>17 DEF UndisturbedInv
  <2>. QED BY <1>2, <1>6, <1>8, <1>9, <1>10, <1>11, <2>1 DEF InputPiecesInv
<1>18. OutputInv'
  BY <1>5, <1>11 DEF OutputInv
<1>. QED BY <1>5, <1>9, <1>11, <1>12, <1>13, <1>14, <1>15, <1>16, <1>17, <1>18 DEF UndisturbedInv

\* What the callback of the last request for an element does to the record.
LEMMA AnswerInv ==
  ASSUME ElementInv, Undisturbed, Undisturbed',
         NEW e \in 1 .. N, NEW i \in 1 .. Len(requests[e]), Answer(e, i)
  PROVE  UndisturbedInv'
<1>1. PICK success \in BOOLEAN :
        /\ Callback(e, requests[e][i], success)
        /\ requests' = [requests EXCEPT ![e][i] =
                          [requests[e][i] EXCEPT !.answer = IF success THEN "success" ELSE "failure"]]
        /\ [requests[e][i] EXCEPT !.answer = IF success THEN "success" ELSE "failure"] \in Request
  BY AnswerTypes DEF ElementInv
<1> DEFINE r == requests[e][i]
           done == [r EXCEPT !.answer = IF success THEN "success" ELSE "failure"]
<1>2. TypesInv /\ UndisturbedInv /\ r \in Request /\ done \in Request /\ r.answer = "none"
  BY <1>1, ElementOfSeq DEF ElementInv, TypesInv, ElementTypeOK, Answer
<1>3. /\ UNCHANGED <<configVars, val, pact, rpro, alarm, scanOnce, made, changedElementsOnly, device, refused, changes>>
      /\ success => r.executed
      /\ \/ OutputCallback(e, r, success) \/ InputCallback(e, r, success)
         \/ WaveformOutCallback(e, r, success)
         \/ WaveformInCallback(e, r, success) \/ StringinCallback(e, r, success)
  BY <1>1 DEF Callback
<1>4. UNCHANGED <<kind, verify, val, pact, rpro, alarm, scanOnce, device, refused>>
  BY <1>3 DEF configVars
<1>5. /\ done.executed = r.executed /\ done.seen = r.seen /\ done.value = r.value /\ done.current = r.current
      /\ done.answer = IF success THEN "success" ELSE "failure"
  <2>. HIDE DEF r
  <2>. QED BY <1>2 DEF Request
<1>. HIDE DEF r, done
<1>6. /\ r = Latest(e) /\ Pending(e)
      /\ OthersOver'
      /\ Latest(e)' = done /\ (Pending(e)' <=> done.answer = "none") /\ (Current(e)' <=> Current(e))
      /\ \A f \in (1 .. N) \ {e} :
           /\ requests'[f] = requests[f] /\ Latest(f)' = Latest(f)
           /\ Pending(f)' <=> Pending(f)
           /\ Current(f)' <=> Current(f)
  <2>1. OthersOver
    BY <1>2 DEF UndisturbedInv
  <2>2. done.current = requests[e][i].current /\ requests[e][i].answer = "none"
    BY <1>2, <1>5 DEF r
  <2>3. requests' = [requests EXCEPT ![e][i] = done]
    BY <1>1 DEF done, r
  <2>. QED BY <1>2, <2>1, <2>2, <2>3, LatestChanged DEF r
<1>7. ~Pending(e)' /\ Current(e)' /\ Current(e)
  BY <1>2, <1>5, <1>6 DEF UndisturbedInv, RequestInv
<1>8. \A f \in 1 .. N : (Pending(f)' <=> Pending(f) /\ f # e) /\ (Current(f)' <=> Current(f))
  BY <1>6, <1>7
<1>9. pact /\ IdleInv'
  BY <1>2, <1>4, <1>6 DEF UndisturbedInv, IdleInv
<1>10. UNCHANGED lastValueWritten
  BY <1>3 DEF OutputCallback, InputCallback, ScalarCallback, WaveformOutCallback, WaveformInCallback,
              StringinCallback, PieceRead
<1>11. ValueInv'
  BY <1>2, <1>4, <1>10 DEF UndisturbedInv, ValueInv, Elements
<1>12. ASSUME NEW f \in 1 .. N PROVE RequestInv(f)'
  <2>1. RequestInv(f)
    BY <1>2 DEF UndisturbedInv
  <2>2. CASE f = e
    BY <1>3, <1>4, <1>5, <1>6, <1>7, <1>10, <2>1, <2>2 DEF RequestInv
  <2>3. CASE f # e
    BY <1>4, <1>6, <1>10, <2>1, <2>3 DEF RequestInv
  <2>. QED BY <2>2, <2>3
<1>13. ASSUME kind \in ScalarKinds PROVE ScalarInv'
  <2>1. ScalarInv /\ e = 1
    <3>1. ScalarInv
      BY <1>2, <1>13 DEF UndisturbedInv
    <3>2. requests[e] # <<>>
      BY <1>6 DEF Pending
    <3>. QED BY <3>1, <3>2, RecordAssumption DEF ScalarInv
  <2>2. \A f \in 2 .. N : requests'[f] = <<>>
    <3>1. \A f \in 2 .. N : f \in (1 .. N) \ {e}
      BY <2>1, RecordAssumption
    <3>. QED BY <1>6, <2>1, <3>1 DEF ScalarInv
  <2>3. ScalarCallback(e, r, success)
    BY <1>3, <1>13 DEF ScalarKinds, OutputCallback, InputCallback, WaveformOutCallback,
                       WaveformInCallback, StringinCallback
  <2>4. processCallbacks' = 1
    BY <1>6, <1>9, <2>1, <2>3 DEF ScalarInv, ScalarCallback
  <2>5. successful' = (Latest(1)'.answer = "success")
    <3>1. (done.answer = "success") = success
      BY <1>5
    <3>. QED BY <1>6, <2>1, <2>3, <3>1 DEF ScalarCallback
  <2>6. successful' => lastReply'[1] = Latest(1)'.seen
    BY <1>2, <1>5, <1>6, <2>1, <2>3 DEF ScalarCallback, TypesInv, ElementTypeOK
  <2>. QED BY <1>7, <2>1, <2>2, <2>4, <2>5, <2>6 DEF ScalarInv
<1>14. ASSUME kind \notin ScalarKinds
       PROVE  /\ WaveformOutCallback(e, r, success) \/ (PieceRead(e, r, success) /\ kind \notin OutputKinds)
              /\ PiecesInv'
  <2>1. WaveformOutCallback(e, r, success) \/ (PieceRead(e, r, success) /\ kind \notin OutputKinds)
    BY <1>3, <1>14 DEF ScalarKinds, OutputKinds, OutputCallback, InputCallback, WaveformInCallback, StringinCallback
  <2>2. PiecesInv
    BY <1>2, <1>14 DEF UndisturbedInv
  <2> DEFINE P == {f \in 1 .. N : Pending(f)}
  <2>3. IsFiniteSet(P) /\ Cardinality(P) \in 0 .. CounterModulus - 1 /\ e \in P
    <3>1. P \in SUBSET (1 .. N)
      OBVIOUS
    <3>. QED BY <1>6, <3>1, FewElements
  <2>4. {f \in 1 .. N : Pending(f)'} = P \ {e}
    BY <1>8
  <2>5. Cardinality(P \ {e}) = Cardinality(P) - 1 /\ Cardinality(P \ {e}) \in Nat
    BY <2>3, FS_RemoveElement, FS_CardinalityType
  <2>6. CountDown
    BY <2>1 DEF WaveformOutCallback, PieceRead
  <2>7. pendingRequests = Cardinality(P)
    BY <1>9, <2>2 DEF PiecesInv
  <2>. HIDE DEF P
  <2>8. pendingRequests' = Cardinality(P \ {e})
    <3>1. pendingRequests - 1 \in 0 .. CounterModulus - 1 /\ CounterModulus \in Nat \ {0}
      BY <2>3, <2>5, <2>7, RecordAssumption, ElementAssumption
    <3>2. (pendingRequests - 1) % CounterModulus = pendingRequests - 1
      BY <3>1
    <3>. QED BY <2>5, <2>6, <2>7, <3>2 DEF CountDown
  <2>9. processCallbacks' = IF pendingRequests' = 0 THEN 1 ELSE 0
    <3>1. processCallbacks = 0
      BY <1>9, <2>2, <2>3, <2>5, <2>7 DEF PiecesInv
    <3>. QED BY <2>6, <3>1 DEF CountDown
  <2>10. successful' <=> successful /\ Fulfilled(Latest(e))'
    <3>1. Fulfilled(Latest(e))' <=> success /\ (kind \in OutputKinds /\ verify => r.seen = r.value)
      BY <1>4, <1>5, <1>6 DEF Fulfilled
    <3>2. kind \in OutputKinds => r.value = lastValueWritten[e]
      BY <1>2, <1>6, <1>7 DEF UndisturbedInv, RequestInv
    <3>3. CASE WaveformOutCallback(e, r, success)
      <4>1. kind \in OutputKinds /\ (successful' <=> successful /\ success /\ Verified(e, r))
        BY <3>3 DEF WaveformOutCallback, OutputKinds
      <4>2. Verified(e, r) <=> (verify => r.seen = r.value)
        BY <3>2, <4>1 DEF Verified
      <4>. QED BY <3>1, <4>1, <4>2
    <3>4. CASE PieceRead(e, r, success) /\ kind \notin OutputKinds
      <4>1. successful' <=> successful /\ success
        BY <3>4 DEF PieceRead
      <4>. QED BY <3>1, <3>4, <4>1
    <3>. QED BY <2>1, <3>3, <3>4
  <2>11. \A f \in (1 .. N) \ {e} : Fulfilled(Latest(f))' <=> Fulfilled(Latest(f))
    BY <1>4, <1>6 DEF Fulfilled
  <2>12. (\A f \in 1 .. N : Current(f)' /\ ~Pending(f)' => Fulfilled(Latest(f))')
         <=> (\A f \in 1 .. N : Current(f) /\ ~Pending(f) => Fulfilled(Latest(f))) /\ Fulfilled(Latest(e))'
    BY <1>6, <1>7, <1>8, <2>11
  <2>13. successful = (\A f \in 1 .. N : Current(f) /\ ~Pending(f) => Fulfilled(Latest(f)))
    BY <1>9, <2>2 DEF PiecesInv
  <2>14. successful' \in BOOLEAN
    BY AnswerTypes DEF ElementInv, TypesInv, ElementTypeOK
  <2>15. successful' = (\A f \in 1 .. N : Current(f)' /\ ~Pending(f)' => Fulfilled(Latest(f))')
    BY <2>10, <2>12, <2>13, <2>14
  <2>. QED BY <2>1, <2>4, <2>8, <2>9, <2>15 DEF PiecesInv
<1>15. ASSUME kind = "waveformOut" PROVE WaveformOutInv'
  <2>1. WaveformOutInv /\ (Writable' <=> Writable) /\ kind \in OutputKinds
    BY <1>2, <1>4, <1>15 DEF UndisturbedInv, Writable, OutputKinds
  <2>2. /\ successful' = (successful /\ success /\ Verified(e, r))
        /\ lastValueWrittenValid' = [lastValueWrittenValid EXCEPT ![e] = @ \/ (success /\ Verified(e, r))]
    BY <1>3, <1>15 DEF OutputCallback, InputCallback, WaveformOutCallback, WaveformInCallback, StringinCallback
  <2>3. ~lastValueWrittenValid[e]
    BY <1>6, <2>1 DEF WaveformOutInv
  <2>4. /\ \A f \in (1 .. N) \ {e} : lastValueWrittenValid'[f] = lastValueWrittenValid[f]
        /\ lastValueWrittenValid'[e] <=> success /\ Verified(e, r)
    <3>1. lastValueWrittenValid \in [1 .. N -> BOOLEAN]
      BY <1>2 DEF TypesInv, ElementTypeOK
    <3>. QED BY <2>2, <2>3, <3>1
  <2>5. ASSUME success, Verified(e, r), Writable PROVE device[e] = lastValueWritten[e]
    <3>1. /\ r.value = lastValueWritten[e]
          /\ r.seen = device[e] /\ (refused \/ r.seen = r.value)
      BY <1>2, <1>3, <1>6, <1>7, <2>1, <2>5 DEF UndisturbedInv, RequestInv
    <3>. QED BY <2>5, <3>1 DEF Verified, Writable
  <2>6. ASSUME NEW f \in 1 .. N, lastValueWrittenValid'[f]
        PROVE  ~Pending(f)' /\ (Writable' => device'[f] = lastValueWritten'[f])
    <3>1. CASE f = e
      BY <1>4, <1>7, <1>10, <2>1, <2>4, <2>5, <2>6, <3>1
    <3>2. CASE f # e
      BY <1>4, <1>8, <1>10, <2>1, <2>4, <2>6, <3>2 DEF WaveformOutInv
    <3>. QED BY <3>1, <3>2
  <2>7. ASSUME successful', NEW f \in 1 .. N PROVE lastValueWrittenValid'[f] \/ Pending(f)'
    <3>1. successful /\ success /\ Verified(e, r)
      BY <2>2, <2>7
    <3>. QED BY <1>8, <1>9, <2>1, <2>4, <3>1 DEF WaveformOutInv
  <2>. QED BY <1>4, <1>9, <2>6, <2>7 DEF WaveformOutInv
<1>16. ASSUME kind \notin ScalarKinds \cup OutputKinds PROVE InputPiecesInv'
  <2>1. InputPiecesInv
    BY <1>2, <1>16 DEF UndisturbedInv
  <2>2. PieceRead(e, r, success)
    BY <1>14, <1>16 DEF WaveformOutCallback, OutputKinds
  <2>3. /\ \A f \in (1 .. N) \ {e} : lastReply'[f] = lastReply[f]
        /\ success => lastReply'[e] = r.seen
    BY <1>2, <2>2 DEF PieceRead, TypesInv, ElementTypeOK
  <2>. QED BY <1>5, <1>6, <1>8, <1>9, <2>1, <2>3 DEF InputPiecesInv
<1>17. OutputInv'
  BY <1>4, <1>9 DEF OutputInv
<1>. QED BY <1>4, <1>6, <1>9, <1>11, <1>12, <1>13, <1>14, <1>15, <1>16, <1>17 DEF UndisturbedInv

\* The requests have all been answered when processing is completed.
LEMMA CompleteFacts ==
  ASSUME TypesInv, UndisturbedInv, pact, processCallbacks > 0
  PROVE  processCallbacks = 1 /\ \A e \in 1 .. N : ~Pending(e)
<1>1. CASE kind \in ScalarKinds
  <2>1. ScalarInv
    BY <1>1 DEF UndisturbedInv
  <2>2. \A e \in 1 .. N : e = 1 \/ e \in 2 .. N
    BY RecordAssumption
  <2>. QED BY <2>1, <2>2 DEF ScalarInv, Pending
<1>2. CASE kind \notin ScalarKinds
  <2>1. /\ processCallbacks = 1
        /\ Cardinality({e \in 1 .. N : Pending(e)}) = 0
    BY <1>2 DEF UndisturbedInv, PiecesInv
  <2>2. IsFiniteSet({e \in 1 .. N : Pending(e)})
    <3>1. {e \in 1 .. N : Pending(e)} \in SUBSET (1 .. N)
      OBVIOUS
    <3>. QED BY <3>1, FewElements
  <2>. QED BY <2>1, <2>2, FS_EmptySet
<1>. QED BY <1>1, <1>2

LEMMA CompleteInv ==
  ASSUME ElementInv, Undisturbed, pact, processCallbacks > 0, Complete,
         UNCHANGED <<configVars, made, elementVars>>
  PROVE  UndisturbedInv'
<1>1. TypesInv /\ UndisturbedInv /\ processCallbacks = 1 /\ \A e \in 1 .. N : ~Pending(e)
  BY CompleteFacts DEF ElementInv
<1>2. /\ UNCHANGED <<kind, verify, device, requests, refused>>
      /\ UNCHANGED <<successful, pendingRequests, lastValueWritten, lastValueWrittenValid, lastReply>>
  BY DEF configVars, elementVars, supportVars, boundVars
<1>3. /\ ~pact' /\ ~rpro' /\ processCallbacks' = processCallbacks + (-1)
      /\ scanOnce' = scanOnce + 0 + (IF rpro THEN 1 ELSE 0)
  BY DEF Complete, CompleteOutput, CompleteInput, CompleteWaveformOut, CompleteWaveformIn, CompleteStringin, Finished
<1>4. /\ OthersOver'
      /\ \A e \in 1 .. N :
           /\ requests'[e] = requests[e] /\ Latest(e)' = Latest(e)
           /\ Pending(e)' <=> Pending(e)
           /\ Current(e)' <=> Current(e)
  BY <1>1, <1>2, SameRequests DEF UndisturbedInv
<1>5. IdleInv'
  BY <1>1, <1>3, <1>4 DEF IdleInv
<1>6. ValueInv'
  <2>. SUFFICES ASSUME kind \in OutputKinds, scanOnce' = 0, NEW e \in Elements
                PROVE  val'[e] = lastValueWritten'[e]
    BY <1>2, <1>3 DEF ValueInv, Elements
  <2>1. val' = val
    BY DEF Complete, CompleteOutput, CompleteInput, CompleteWaveformOut, CompleteWaveformIn, CompleteStringin,
           Finished, OutputKinds
  <2>2. ~rpro
    BY <1>1, <1>3 DEF TypesInv, ProcessTypeOK
  <2>. QED BY <1>1, <1>2, <2>1, <2>2 DEF UndisturbedInv, ValueInv
<1>7. ASSUME NEW e \in 1 .. N PROVE RequestInv(e)'
  BY <1>1, <1>2, <1>4 DEF UndisturbedInv, RequestInv
<1>8. ASSUME kind \in ScalarKinds PROVE ScalarInv'
  <2>1. \A e \in 2 .. N : requests'[e] = <<>>
    BY <1>1, <1>2, <1>8 DEF UndisturbedInv, ScalarInv
  <2>. QED BY <1>3, <2>1 DEF ScalarInv
<1>9. ASSUME kind = "output" PROVE OutputInv'
  <2>. SUFFICES ASSUME ~alarm', Writable PROVE device[1] = lastValueWritten[1]
    BY <1>2 DEF OutputInv, Writable
  <2>1. successful /\ ~VerifyFailed
    BY <1>9 DEF Complete, CompleteOutput, CompleteInput, CompleteWaveformOut, CompleteWaveformIn, CompleteStringin, Finished
  <2>2. ScalarInv /\ RequestInv(1) /\ kind \in OutputKinds
    BY <1>1, <1>9, ElementsOfRecord DEF UndisturbedInv, ScalarKinds, OutputKinds
  <2>3. /\ Current(1) /\ Latest(1).answer = "success" /\ lastReply[1] = Latest(1).seen
    BY <1>1, <2>1, <2>2, ElementsOfRecord DEF ScalarInv
  <2>4. /\ Latest(1).value = lastValueWritten[1]
        /\ Latest(1).seen = device[1] /\ (refused \/ Latest(1).seen = Latest(1).value)
    BY <2>2, <2>3 DEF RequestInv
  <2>. QED BY <2>1, <2>3, <2>4 DEF VerifyFailed, Writable
<1>10. ASSUME kind = "waveformOut" PROVE WaveformOutInv'
  <2>1. WaveformOutInv /\ (Writable' <=> Writable)
    BY <1>1, <1>2, <1>10 DEF UndisturbedInv, Writable
  <2>2. ~alarm' => successful
    BY <1>10 DEF Complete, CompleteOutput, CompleteInput, CompleteWaveformOut, CompleteWaveformIn, CompleteStringin, Finished
  <2>. QED BY <1>1, <1>2, <1>3, <1>4, <2>1, <2>2 DEF WaveformOutInv
<1>11. PiecesInv' /\ InputPiecesInv'
  BY <1>3 DEF PiecesInv, InputPiecesInv
<1>. QED BY <1>2, <1>4, <1>5, <1>6, <1>7, <1>8, <1>9, <1>10, <1>11 DEF UndisturbedInv

\* Steps that neither process the record nor have to do with its requests.
LEMMA SameOutcome ==
  ASSUME UndisturbedInv,
         UNCHANGED <<kind, verify, requests, refused, pact, alarm, processCallbacks>>,
         UNCHANGED <<successful, pendingRequests, lastValueWritten, lastValueWrittenValid, lastReply>>,
         UNCHANGED device \/ kind \notin OutputKinds,
         ~pact => UNCHANGED rpro, ValueInv'
  PROVE  UndisturbedInv'
<1>1. /\ OthersOver'
      /\ \A e \in 1 .. N :
           /\ requests'[e] = requests[e] /\ Latest(e)' = Latest(e)
           /\ Pending(e)' <=> Pending(e)
           /\ Current(e)' <=> Current(e)
  BY SameRequests DEF UndisturbedInv
<1>2. ASSUME NEW e \in 1 .. N PROVE RequestInv(e)'
  BY <1>1 DEF UndisturbedInv, RequestInv
<1>3. IdleInv'
  BY <1>1 DEF UndisturbedInv, IdleInv
<1>4. kind = "output" => OutputInv'
  BY DEF UndisturbedInv, OutputInv, Writable, OutputKinds
<1>5. kind \in ScalarKinds => ScalarInv'
  BY <1>1, ElementsOfRecord DEF UndisturbedInv, ScalarInv
<1>6. kind \notin ScalarKinds => PiecesInv'
  <2>1. {e \in 1 .. N : Pending(e)'} = {e \in 1 .. N : Pending(e)}
    BY <1>1
  <2>2. \A e \in 1 .. N : Fulfilled(Latest(e))' <=> Fulfilled(Latest(e))
    BY <1>1 DEF Fulfilled
  <2>3. (\A e \in 1 .. N : Current(e)' /\ ~Pending(e)' => Fulfilled(Latest(e))')
        <=> (\A e \in 1 .. N : Current(e) /\ ~Pending(e) => Fulfilled(Latest(e)))
    BY <1>1, <2>2
  <2>. QED BY <2>1, <2>3 DEF UndisturbedInv, PiecesInv
<1>7. kind = "waveformOut" => WaveformOutInv'
  BY <1>1 DEF UndisturbedInv, WaveformOutInv, Writable, OutputKinds
<1>8. kind \notin ScalarKinds \cup OutputKinds => InputPiecesInv'
  BY <1>1 DEF UndisturbedInv, InputPiecesInv
<1>. QED BY <1>1, <1>2, <1>3, <1>4, <1>5, <1>6, <1>7, <1>8 DEF UndisturbedInv

\* A value that is put and a scan that is asked for while the record is active.
LEMMA BusyInv ==
  ASSUME ElementInv, Undisturbed, pact, Put \/ ScanOnce
  PROVE  UndisturbedInv'
<1>1. UNCHANGED <<configVars, requests, supportVars, device, pact, alarm, processCallbacks, boundVars>>
  BY DEF Put, ScanOnce, PutWhileActive
<1>2. /\ UNCHANGED <<kind, verify, device, requests, refused, pact, alarm, processCallbacks>>
      /\ UNCHANGED <<successful, pendingRequests, lastValueWritten, lastValueWrittenValid, lastReply>>
  BY <1>1 DEF configVars, supportVars, boundVars
<1>3. rpro' \/ UNCHANGED <<val, rpro>>
  BY DEF Put, ScanOnce, PutWhileActive
<1>4. UndisturbedInv
  BY DEF ElementInv
<1>5. ValueInv'
  <2>1. CASE rpro'
    BY <1>2, <2>1 DEF ValueInv
  <2>2. CASE UNCHANGED <<val, rpro>>
    BY <1>2, <1>4, <2>2 DEF UndisturbedInv, ValueInv, Elements
  <2>. QED BY <1>3, <2>1, <2>2
<1>. QED BY <1>2, <1>4, <1>5, SameOutcome

\* What the device does by itself does not concern the requests of an input record.
LEMMA ChangeDeviceInv ==
  ASSUME ElementInv, Undisturbed, ChangeDevice
  PROVE  UndisturbedInv'
<1>1. kind \notin OutputKinds /\ UNCHANGED <<epicsVars, requests, supportVars, refused>>
  BY DEF ChangeDevice
<1>2. /\ UNCHANGED <<kind, verify, requests, refused, val, pact, rpro, alarm, processCallbacks, scanOnce>>
      /\ UNCHANGED <<successful, pendingRequests, lastValueWritten, lastValueWrittenValid, lastReply>>
  BY <1>1 DEF epicsVars, configVars, processVars, supportVars
<1>3. UndisturbedInv
  BY DEF ElementInv
<1>4. ValueInv'
  BY <1>1, <1>2 DEF ValueInv
<1>. QED BY <1>1, <1>2, <1>3, <1>4, SameOutcome

LEMMA ElementInvInit == ProcessInit /\ kind # "fineDelay" /\ ElementInit => ElementInv
<1>. SUFFICES ASSUME ProcessInit, kind # "fineDelay", ElementInit PROVE ElementInv
  OBVIOUS
<1>1. TypesInv
  BY TypesInvInit
<1>2. /\ ~pact /\ ~rpro /\ processCallbacks = 0
      /\ \A e \in 1 .. N : requests[e] = <<>>
  BY DEF ProcessInit, ElementInit
<1>3. \A e \in 1 .. N : ~Pending(e) /\ ~Current(e)
  BY <1>2 DEF Pending, Current
<1>4. OthersOver
  <2>1. \A e \in 1 .. N : Len(requests[e]) = 0
    BY <1>2, EmptySeq
  <2>. QED BY <2>1 DEF OthersOver
<1>5. IdleInv /\ PiecesInv /\ InputPiecesInv /\ \A e \in 1 .. N : RequestInv(e)
  BY <1>2, <1>3 DEF IdleInv, PiecesInv, InputPiecesInv, RequestInv
<1>6. ScalarInv
  <2>1. \A e \in 2 .. N : e \in 1 .. N
    BY RecordAssumption
  <2>. QED BY <1>2, <2>1 DEF ScalarInv
<1>7. lastValueWritten = val
  BY DEF ElementInit, InitializeOutput, InitializeWaveformOut, InitializeInput
<1>8. ValueInv
  BY <1>7 DEF ValueInv
<1>9. kind = "output" => OutputInv
  BY <1>7 DEF ElementInit, InitializeOutput, OutputInv, OutputKinds
<1>10. ASSUME kind = "waveformOut" PROVE WaveformOutInv
  <2>1. PICK valid \in BOOLEAN : InitializeWaveformOut(valid)
    BY <1>10 DEF ElementInit, OutputKinds
  <2>2. /\ alarm = ~valid /\ (valid => lastValueWritten = device)
        /\ \A e \in 1 .. N : lastValueWrittenValid[e] = valid
    BY <2>1 DEF InitializeWaveformOut
  <2>. QED BY <1>2, <1>3, <2>2 DEF WaveformOutInv
<1>. QED BY <1>1, <1>4, <1>5, <1>6, <1>8, <1>9, <1>10 DEF ElementInv, UndisturbedInv

\* Disturbances are never taken back.
LEMMA StillUndisturbed ==
  ASSUME TypesInv, [ElementNext]_<<epicsVars, elementVars>>, Undisturbed'
  PROVE  Undisturbed /\ UNCHANGED disturbances
<1>1. disturbances \in Nat
  BY ElementAssumption DEF TypesInv, ElementTypeOK
<1>2. CASE Epics
  BY <1>2 DEF Epics, Put, Scan, ScanOnce, ProcessCallback, boundVars, Undisturbed
<1>3. CASE \E e \in 1 .. N : \E i \in 1 .. Len(requests[e]) : Execute(e, i) \/ AnswerAgain(e, i)
  BY <1>1, <1>3 DEF Execute, AnswerAgain, Undisturbed
<1>4. CASE AnswerAny \/ ChangeDevice
  BY <1>4 DEF AnswerAny, Answer, ChangeDevice, Undisturbed
<1>5. CASE UNCHANGED <<epicsVars, elementVars>>
  BY <1>5 DEF elementVars, boundVars, Undisturbed
<1>. QED BY <1>2, <1>3, <1>4, <1>5 DEF ElementNext

LEMMA ElementInvNext == ElementInv /\ [ElementNext]_<<epicsVars, elementVars>> => ElementInv'
<1>. SUFFICES ASSUME ElementInv, [ElementNext]_<<epicsVars, elementVars>> PROVE ElementInv'
  OBVIOUS
<1>1. TypesInv'
  BY TypesInvNext DEF ElementInv
<1>2. ASSUME Undisturbed' PROVE UndisturbedInv'
  <2>1. TypesInv /\ Undisturbed /\ UndisturbedInv /\ UNCHANGED disturbances
    BY <1>2, StillUndisturbed DEF ElementInv
  <2>2. CASE Epics
    <3>1. CASE ~pact
      BY <2>1, <2>2, <3>1, EpicsSteps, StartInv
    <3>2. CASE pact /\ ProcessCallback
      BY <2>1, <3>2, CompleteInv DEF ProcessCallback, elementVars
    <3>3. CASE pact /\ (Put \/ ScanOnce)
      BY <2>1, <3>3, BusyInv
    <3>. QED BY <2>2, <3>1, <3>2, <3>3 DEF Epics, Scan
  <2>3. CASE \E e \in 1 .. N : \E i \in 1 .. Len(requests[e]) : Execute(e, i)
    BY <1>2, <2>1, <2>3, ExecuteInv
  <2>4. CASE \E e \in 1 .. N : \E i \in 1 .. Len(requests[e]) : AnswerAgain(e, i)
    BY <2>1, <2>4 DEF AnswerAgain, Undisturbed
  <2>5. CASE AnswerAny
    BY <1>2, <2>1, <2>5, AnswerInv DEF AnswerAny
  <2>6. CASE ChangeDevice
    BY <2>1, <2>6, ChangeDeviceInv
  <2>7. CASE UNCHANGED <<epicsVars, elementVars>>
    <3>1. /\ UNCHANGED <<kind, verify, val, pact, rpro, alarm, processCallbacks, scanOnce>>
          /\ UNCHANGED <<device, requests, refused>>
          /\ UNCHANGED <<successful, pendingRequests, lastValueWritten, lastValueWrittenValid, lastReply>>
      BY <2>7 DEF epicsVars, configVars, processVars, elementVars, supportVars, boundVars
    <3>2. ValueInv'
      BY <2>1, <3>1 DEF UndisturbedInv, ValueInv, Elements
    <3>. QED BY <2>1, <3>1, <3>2, SameOutcome
  <2>. QED BY <2>2, <2>3, <2>4, <2>5, <2>6, <2>7 DEF ElementNext
<1>. QED BY <1>1, <1>2 DEF ElementInv

\* The invariant: at most the latest request for an element can be without an
\* answer or be one that the record is waiting for, the counter counts those, and
\* while nothing has been disturbed an element that is cached as written has been.
THEOREM ElementInvariant == ElementSpec => []ElementInv
BY ElementInvInit, ElementInvNext, PTL DEF ElementSpec

-----------------------------------------------------------------------------
(* What the invariant is for.                                              *)

\* What the invariant says of a record that is at rest.
LEMMA DeviceHasValues == ElementInv => DeviceFollowsRecord
<1>. SUFFICES ASSUME ElementInv, kind \in {"output", "waveformOut"}, Quiet, ~alarm, Undisturbed, Writable,
                     NEW e \in Elements
              PROVE  device[e] = val[e]
  BY DEF DeviceFollowsRecord, Writable
<1>1. UndisturbedInv /\ ~pact /\ scanOnce = 0 /\ kind \in OutputKinds
  BY DEF ElementInv, Quiet, OutputKinds
<1>2. val[e] = lastValueWritten[e]
  BY <1>1 DEF UndisturbedInv, ValueInv
<1>3. CASE kind = "output"
  BY <1>1, <1>2, <1>3 DEF UndisturbedInv, OutputInv, Elements, ScalarKinds
<1>4. CASE kind = "waveformOut"
  BY <1>1, <1>2, <1>4 DEF UndisturbedInv, WaveformOutInv, Elements, ScalarKinds
<1>. QED BY <1>3, <1>4

(* When everything has been processed and there is no alarm, the device    *)
(* has the value of the record, for outputs and waveforms of any length:   *)
(* an element that was skipped because it had not changed was really       *)
(* written (lastValueWrittenValid), and a value put while the record was   *)
(* active has been written, too.                                           *)
THEOREM DeviceFollows == ElementSpec => []DeviceFollowsRecord
BY DeviceHasValues, ElementInvariant, PTL

\* Only the callback that completes the processing makes the record inactive.
LEMMA FinishingStep ==
  ASSUME [ElementNext]_<<epicsVars, elementVars>>, pact, ~pact'
  PROVE  Complete /\ processCallbacks > 0 /\ UNCHANGED <<configVars, made, elementVars>>
<1>1. CASE Epics
  <2>1. ~Put /\ ~Scan /\ ~ScanOnce
    BY DEF Put, Scan, ScanOnce, PutWhileActive
  <2>. QED BY <1>1, <2>1 DEF Epics, ProcessCallback, elementVars
<1>2. CASE \E e \in 1 .. N : \E i \in 1 .. Len(requests[e]) : Execute(e, i) \/ AnswerAgain(e, i)
  <2>1. PICK e \in 1 .. N : \E i \in 1 .. Len(requests[e]) : Execute(e, i) \/ AnswerAgain(e, i)
    BY <1>2
  <2>2. PICK i \in 1 .. Len(requests[e]) : Execute(e, i) \/ AnswerAgain(e, i)
    BY <2>1
  <2>3. CASE Execute(e, i)
    BY <2>3 DEF Execute, epicsVars, processVars
  <2>4. CASE AnswerAgain(e, i)
    <3>1. UNCHANGED pact
      BY <2>4 DEF AnswerAgain, Callback
    <3>. QED BY <3>1
  <2>. QED BY <2>2, <2>3, <2>4
<1>3. CASE AnswerAny \/ ChangeDevice
  BY <1>3 DEF AnswerAny, Answer, Callback, ChangeDevice, epicsVars, processVars
<1>4. CASE UNCHANGED <<epicsVars, elementVars>>
  BY <1>4 DEF epicsVars, processVars
<1>. QED BY <1>1, <1>2, <1>3, <1>4 DEF ElementNext

\* When the requests have all been answered, those of the latest processing are
\* the latest ones.
LEMMA CurrentRequests ==
  ASSUME TypesInv, OthersOver, \A e \in 1 .. N : ~Pending(e)
  PROVE  /\ \A e \in 1 .. N : \A i \in 1 .. Len(requests[e]) :
              /\ requests[e][i].answer # "none"
              /\ requests[e][i].current => Current(e) /\ requests[e][i] = Latest(e)
         /\ \A e \in 1 .. N : Current(e) => \E i \in 1 .. Len(requests[e]) :
              requests[e][i].current /\ requests[e][i] = Latest(e)
<1>1. ASSUME NEW e \in 1 .. N, NEW i \in 1 .. Len(requests[e])
      PROVE  /\ requests[e][i].answer # "none"
             /\ requests[e][i].current => Current(e) /\ requests[e][i] = Latest(e)
  <2>1. requests[e] \in Seq(Request) /\ Len(requests[e]) \in Nat
    BY DEF TypesInv, ElementTypeOK
  <2>2. requests[e] # <<>>
    BY <2>1, EmptySeq
  <2>3. CASE i = Len(requests[e])
    BY <2>2, <2>3 DEF Pending, Current, Latest
  <2>4. CASE i # Len(requests[e])
    BY <2>1, <2>4 DEF OthersOver
  <2>. QED BY <2>3, <2>4
<1>2. ASSUME NEW e \in 1 .. N, Current(e)
      PROVE  \E i \in 1 .. Len(requests[e]) : requests[e][i].current /\ requests[e][i] = Latest(e)
  <2>1. requests[e] \in Seq(Request) /\ Len(requests[e]) \in Nat /\ requests[e] # <<>>
    BY <1>2 DEF TypesInv, ElementTypeOK, Current
  <2>2. Len(requests[e]) \in 1 .. Len(requests[e])
    BY <2>1, EmptySeq
  <2>. QED BY <1>2, <2>2 DEF Current, Latest
<1>. QED BY <1>1, <1>2

\* What processComplete makes of the answers.
LEMMA CompleteOutcome ==
  ASSUME TypesInv, UndisturbedInv, pact, processCallbacks > 0, Complete,
         \A e \in 1 .. N : ~Pending(e)
  PROVE  /\ alarm' <=> \E e \in 1 .. N : Current(e) /\ ~Fulfilled(Latest(e))
         /\ kind \notin OutputKinds /\ ~alarm' =>
              \A e \in 1 .. N : Current(e) => val'[e] = Latest(e).seen
<1>1. CASE kind \in ScalarKinds
  <2>1. /\ Current(1) /\ successful = (Latest(1).answer = "success")
        /\ successful => lastReply[1] = Latest(1).seen
    BY <1>1, ElementsOfRecord DEF UndisturbedInv, ScalarInv
  <2>2. \A e \in 1 .. N : Current(e) => e = 1
    <3>1. \A e \in 1 .. N : e = 1 \/ e \in 2 .. N
      BY RecordAssumption
    <3>. QED BY <1>1, <3>1 DEF UndisturbedInv, ScalarInv, Current
  <2>3. CASE CompleteOutput
    <3>1. kind \in OutputKinds /\ (alarm' <=> ~successful \/ VerifyFailed)
      BY <2>3 DEF CompleteOutput, Finished, OutputKinds
    <3>2. Latest(1).value = lastValueWritten[1]
      BY <2>1, <3>1, ElementsOfRecord DEF UndisturbedInv, RequestInv
    <3>3. Fulfilled(Latest(1)) <=> successful /\ ~VerifyFailed
      BY <2>1, <3>1, <3>2 DEF Fulfilled, VerifyFailed
    <3>. QED BY <2>1, <2>2, <3>1, <3>3, ElementsOfRecord
  <2>4. CASE CompleteInput
    <3>1. kind \notin OutputKinds /\ (alarm' <=> ~successful)
      BY <2>4 DEF CompleteInput, Finished, OutputKinds
    <3>2. Fulfilled(Latest(1)) <=> successful
      BY <2>1, <3>1 DEF Fulfilled
    <3>3. ASSUME ~alarm' PROVE val'[1] = Latest(1).seen
      <4>1. successful /\ val' = [val EXCEPT ![1] = lastReply[1]]
        BY <2>4, <3>1, <3>3 DEF CompleteInput, Finished
      <4>2. val'[1] = lastReply[1]
        BY <4>1, ElementsOfRecord DEF TypesInv, ProcessTypeOK
      <4>. QED BY <2>1, <4>1, <4>2
    <3>. QED BY <2>1, <2>2, <3>1, <3>2, <3>3, ElementsOfRecord
  <2>. QED BY <1>1, <2>3, <2>4 DEF Complete, CompleteWaveformOut, CompleteWaveformIn, CompleteStringin, ScalarKinds
<1>2. CASE kind \notin ScalarKinds
  <2>1. successful = (\A e \in 1 .. N : Current(e) /\ ~Pending(e) => Fulfilled(Latest(e)))
    BY <1>2 DEF UndisturbedInv, PiecesInv
  <2>2. alarm' <=> ~successful
    BY <1>2 DEF Complete, CompleteOutput, CompleteInput, CompleteWaveformOut, CompleteWaveformIn,
                CompleteStringin, Finished, ScalarKinds
  <2>3. ASSUME kind \notin OutputKinds, ~alarm', NEW e \in 1 .. N, Current(e)
        PROVE  val'[e] = Latest(e).seen
    <3>1. successful /\ InputPiecesInv
      BY <1>2, <2>2, <2>3 DEF UndisturbedInv
    <3>2. val' = lastReply
      BY <1>2, <2>3, <3>1 DEF Complete, CompleteOutput, CompleteInput, CompleteWaveformOut, CompleteWaveformIn,
                CompleteStringin, Finished, ScalarKinds, OutputKinds
    <3>3. Latest(e).answer = "success"
      BY <2>1, <2>3, <3>1 DEF Fulfilled
    <3>. QED BY <3>1, <3>2, <3>3 DEF InputPiecesInv
  <2>. QED BY <2>1, <2>2, <2>3
<1>. QED BY <1>1, <1>2

\* The action of OutcomeReported.
OutcomeOfStep ==
  pact /\ ~pact' /\ kind # "fineDelay" /\ Undisturbed =>
    /\ \A e \in 1 .. N : \A i \in 1 .. Len(requests[e]) :
         requests[e][i].current => requests[e][i].answer # "none"
    /\ alarm' = (\E e \in 1 .. N : \E i \in 1 .. Len(requests[e]) :
                   requests[e][i].current /\ ~Fulfilled(requests[e][i]))
    /\ kind \notin OutputKinds /\ ~alarm' =>
         \A e \in 1 .. N : \A i \in 1 .. Len(requests[e]) :
           requests[e][i].current => val'[e] = requests[e][i].seen

LEMMA OutcomeStep == ElementInv /\ [ElementNext]_<<epicsVars, elementVars>> => OutcomeOfStep
<1>. SUFFICES ASSUME ElementInv, [ElementNext]_<<epicsVars, elementVars>>, pact, ~pact', Undisturbed
              PROVE  /\ \A e \in 1 .. N : \A i \in 1 .. Len(requests[e]) :
                          requests[e][i].current => requests[e][i].answer # "none"
                     /\ alarm' = (\E e \in 1 .. N : \E i \in 1 .. Len(requests[e]) :
                                    requests[e][i].current /\ ~Fulfilled(requests[e][i]))
                     /\ kind \notin OutputKinds /\ ~alarm' =>
                          \A e \in 1 .. N : \A i \in 1 .. Len(requests[e]) :
                            requests[e][i].current => val'[e] = requests[e][i].seen
  BY DEF OutcomeOfStep
<1>1. Complete /\ processCallbacks > 0 /\ TypesInv /\ UndisturbedInv /\ OthersOver
  BY FinishingStep DEF ElementInv, UndisturbedInv
<1>2. \A e \in 1 .. N : ~Pending(e)
  BY <1>1, CompleteFacts
<1>3. /\ \A e \in 1 .. N : \A i \in 1 .. Len(requests[e]) :
           /\ requests[e][i].answer # "none"
           /\ requests[e][i].current => Current(e) /\ requests[e][i] = Latest(e)
      /\ \A e \in 1 .. N : Current(e) => \E i \in 1 .. Len(requests[e]) :
           requests[e][i].current /\ requests[e][i] = Latest(e)
  BY <1>1, <1>2, CurrentRequests
<1>4. /\ alarm' <=> \E e \in 1 .. N : Current(e) /\ ~Fulfilled(Latest(e))
      /\ kind \notin OutputKinds /\ ~alarm' =>
           \A e \in 1 .. N : Current(e) => val'[e] = Latest(e).seen
  BY <1>1, <1>2, CompleteOutcome
<1>5. alarm' \in BOOLEAN
  BY TypesInvNext DEF ElementInv, TypesInv, ProcessTypeOK
<1>6. (\E e \in 1 .. N : \E i \in 1 .. Len(requests[e]) :
         requests[e][i].current /\ ~Fulfilled(requests[e][i]))
      <=> \E e \in 1 .. N : Current(e) /\ ~Fulfilled(Latest(e))
  BY <1>3
<1>. QED BY <1>3, <1>4, <1>5, <1>6

(* The processing of a record finishes when all of its requests have been  *)
(* answered and not before; the alarm is raised exactly if one of them     *)
(* failed or (with verify) read back another value, in whatever order the  *)
(* callbacks come, and an input without an alarm has what was read.        *)
THEOREM OutcomeIsReported == ElementSpec => OutcomeReported
BY OutcomeStep, ElementInvariant, PTL DEF ElementSpec, OutcomeReported, OutcomeOfStep
=============================================================================
