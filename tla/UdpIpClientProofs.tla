------------------------- MODULE UdpIpClientProofs -------------------------
(***************************************************************************)
(* Theorems about UdpIpClient, for any finite set of requests and any      *)
(* limits.                                                                 *)
(***************************************************************************)
EXTENDS UdpIpClient, FiniteSetTheorems, SequenceTheorems, WellFoundedInduction, TLAPS

-----------------------------------------------------------------------------
(* The invariant.                                                          *)

Elems(s) == {s[i] : i \in 1 .. Len(s)}
Distinct(s) == \A i, j \in 1 .. Len(s) : i # j => s[i] # s[j]

\* The refs that are left suffice for the requests that have to be sent.
Budget ==
  nextRef + Cardinality(retransmitRequests) + Len(newRequests) + Cardinality(Requests \ queued) <= MaxRefs

\* Nobody is about to call the callback of the request or has called it.
Unannounced(r) == results[r] = <<>> /\ \A x \in Results : <<r, x>> \notin sendCallbacks

\* Nothing has happened to a request that has not been treated yet.
Fresh(r) == r \notin queued \/ r \in Elems(newRequests)
Untouched(r) ==
  /\ r \notin timeoutCallbacks /\ r \notin successOrTimeout /\ receiveCallback # r
  /\ Unannounced(r)
  /\ r \notin requestsByLastTransmission /\ r \notin retransmitRequests
  /\ \A ref \in Refs : <<ref, r>> \notin requestsByFirstTransmission
  /\ \A ref \in Refs : <<ref, r>> \notin refToRequest

NewInv(r) ==
  /\ r \in Elems(newRequests) => r \in callback
  /\ r \in callback => r \in queued /\ r \notin successOrTimeout
  /\ Fresh(r) => Untouched(r)

WatchedInv(r) ==
  /\ r \in callback /\ r \notin Elems(newRequests) =>
       /\ \E ref \in Refs : <<ref, r>> \in requestsByFirstTransmission
       /\ Told(r, "error") \/ r \in requestsByLastTransmission \/ r \in retransmitRequests
  /\ ~ (r \in requestsByLastTransmission /\ r \in retransmitRequests)

AwaitedInv(r) ==
  /\ r \in requestsByLastTransmission => <<lastRef[r], r>> \in refToRequest
  /\ \A ref \in Refs : <<ref, r>> \in refToRequest =>
       /\ ref < nextRef
       /\ \/ Told(r, "error") \/ SilentlyFailed(r)
          \/ r \in requestsByLastTransmission \/ r \in retransmitRequests

\* The callback of a request that waits for its answer is in one of the places
\* from which it is called, and in no other, unless the send thread is about to
\* report a failed retransmission.
Pending(r) == r \in callback \/ r \in timeoutCallbacks \/ receiveCallback = r
Announced(r) == \E x \in Results : <<r, x>> \in sendCallbacks

OnceInv(r) ==
  /\ r \in callback => r \notin timeoutCallbacks /\ receiveCallback # r
  /\ r \in timeoutCallbacks => receiveCallback # r /\ ~ Announced(r)
  /\ \A x, y \in Results : <<r, x>> \in sendCallbacks /\ <<r, y>> \in sendCallbacks => x = y
  /\ \A x \in Results : <<r, x>> \in sendCallbacks /\ Pending(r) => x = "error" /\ results[r] = <<>>
  /\ Pending(r) \/ Announced(r) => Len(results[r]) <= 1
  /\ Len(results[r]) <= 2
  /\ results[r] # <<>> /\ (Pending(r) \/ Announced(r)) => Told(r, "error")
  /\ Len(results[r]) = 2 => Told(r, "error")
  /\ r \in queued => Pending(r) \/ Announced(r) \/ results[r] # <<>>

\* A request that is still transmitted has its callback, unless it has been
\* reported as offline, and none of its retransmissions has failed.
FlightInv(r) ==
  /\ r \in requestsByLastTransmission \/ r \in retransmitRequests =>
       r \in callback \/ r \in successOrTimeout \/ Told(r, "offline")
  /\ Told(r, "error") => r \notin requestsByLastTransmission /\ r \notin retransmitRequests

\* A request that has succeeded or timed out is flagged as soon as it could be
\* transmitted again.
AnsweredInv(r) ==
  r \in TimedOut \cup Succeeded =>
    \/ r \in successOrTimeout
    \/ r \notin requestsByLastTransmission /\ r \notin retransmitRequests

RequestInv(r) ==
  NewInv(r) /\ WatchedInv(r) /\ AwaitedInv(r) /\ OnceInv(r) /\ FlightInv(r) /\ AnsweredInv(r)

ClientInv == Distinct(newRequests) /\ \A r \in Requests : RequestInv(r)

\* Nothing happens to the callback of a request; at most, its timeout callback
\* moves from the list to the callbacks that are being called.
NoticesKept(r) ==
  /\ r \in queued' <=> r \in queued
  /\ r \in callback' <=> r \in callback
  /\ receiveCallback' = r <=> receiveCallback = r
  /\ results'[r] = results[r]
  /\ \/ /\ r \in timeoutCallbacks' <=> r \in timeoutCallbacks
        /\ \A x \in Results : <<r, x>> \in sendCallbacks' <=> <<r, x>> \in sendCallbacks
     \/ /\ sendCallbacks = {} /\ r \notin timeoutCallbacks'
        /\ \A x \in Results :
             <<r, x>> \in sendCallbacks' <=> (x = "timeout" /\ r \in timeoutCallbacks)

\* A step that is not about this request.
Kept(r) ==
  /\ NoticesKept(r)
  /\ nextRef <= nextRef'
  /\ r \in Elems(newRequests)' <=> r \in Elems(newRequests)
  /\ r \in successOrTimeout' <=> r \in successOrTimeout
  /\ r \in requestsByLastTransmission' <=> r \in requestsByLastTransmission
  /\ r \in retransmitRequests' <=> r \in retransmitRequests
  /\ lastRef'[r] = lastRef[r]
  /\ \A ref \in Refs : /\ <<ref, r>> \in refToRequest' <=> <<ref, r>> \in refToRequest
                       /\ <<ref, r>> \in requestsByFirstTransmission'
                            <=> <<ref, r>> \in requestsByFirstTransmission

-----------------------------------------------------------------------------
(* Type correctness, and the bound on the packets.                         *)

LEMMA InitialCongestionType ==
  ASSUME NEW ref \in 0 .. MaxRefs
  PROVE  [InitialCongestion EXCEPT !.lossesFirstRef = ref] \in CongestionType
BY RequestsAssumption DEF InitialCongestion, CongestionType, SizeMax

LEMMA LossesCountType ==
  ASSUME NEW c \in CongestionType, NEW ref \in 0 .. MaxRefs
  PROVE  LossesCount(c, ref) \in 1 .. consecutiveLossesLimit
BY RequestsAssumption DEF LossesCount, LesserOf, CongestionType

LEMMA CongestionAfterLossType ==
  ASSUME NEW c \in CongestionType, NEW ref \in 0 .. MaxRefs, NEW inFlight \in Nat
  PROVE  CongestionAfterLoss(c, ref, inFlight) \in CongestionType
<1> DEFINE count == LossesCount(c, ref)
<1>1. count \in 1 .. consecutiveLossesLimit
  BY LossesCountType
<1>2. /\ c.congestionWindow \in Nat \ {0} /\ c.lossesFirstRef \in 0 .. MaxRefs
      /\ consecutiveLossesLimit \in Nat
  BY RequestsAssumption DEF CongestionType
<1>3. GreaterOf(c.congestionWindow - 1, 1) \in Nat \ {0} /\ GreaterOf(inFlight \div 2, 2) \in Nat
  BY <1>2 DEF GreaterOf
<1>4. (IF WindowCollapses(c, ref) THEN 0 ELSE count) \in 0 .. consecutiveLossesLimit
  BY <1>1, <1>2
<1>5. (IF WindowCollapses(c, ref) THEN 1 ELSE GreaterOf(c.congestionWindow - 1, 1)) \in Nat \ {0}
  BY <1>3
<1>6. (IF count = 1 THEN ref ELSE c.lossesFirstRef) \in 0 .. MaxRefs
  BY <1>2
<1>. HIDE DEF count
<1>. QED BY <1>3, <1>4, <1>5, <1>6 DEF CongestionAfterLoss, CongestionType, count

LEMMA CongestionAfterReplyType ==
  ASSUME NEW c \in CongestionType, NEW inFlight \in Nat
  PROVE  CongestionAfterReply(c, inFlight) \in CongestionType
<1>1. /\ c.congestionWindow \in Nat /\ c.slowStartThreshold \in Nat
      /\ c.congestionWindow + 1 \in Nat \ {0}
  BY DEF CongestionType
<1>2. CASE c.congestionWindow <= c.slowStartThreshold
  <2>1. CongestionAfterReply(c, inFlight) = [c EXCEPT !.congestionWindow = @ + 1]
    BY <1>1, <1>2 DEF CongestionAfterReply
  <2>. QED BY <1>1, <2>1 DEF CongestionType
<1>3. CASE c.congestionWindow > c.slowStartThreshold /\ c.congestionWindow = inFlight
  <2>1. CASE c.incrementCounter = 1
    <3>1. CongestionAfterReply(c, inFlight) = [c EXCEPT !.congestionWindow = @ + 1, !.incrementCounter = 0]
      BY <1>1, <1>3, <2>1 DEF CongestionAfterReply
    <3>. QED BY <1>1, <3>1 DEF CongestionType
  <2>2. CASE c.incrementCounter # 1
    <3>1. CongestionAfterReply(c, inFlight) = [c EXCEPT !.incrementCounter = @ + 1]
      BY <1>1, <1>3, <2>2 DEF CongestionAfterReply
    <3>2. c.incrementCounter + 1 = 1
      BY <2>2 DEF CongestionType
    <3>. QED BY <3>1, <3>2 DEF CongestionType
  <2>. QED BY <2>1, <2>2
<1>4. CASE ~(c.congestionWindow <= c.slowStartThreshold)
           /\ ~(c.congestionWindow > c.slowStartThreshold /\ c.congestionWindow = inFlight)
  <2>1. CongestionAfterReply(c, inFlight) = c
    BY <1>4 DEF CongestionAfterReply
  <2>. QED BY <2>1
<1>. QED BY <1>1, <1>2, <1>3, <1>4

\* The sets and sequences that are counted.
LEMMA Counts ==
  ASSUME TypeOK
  PROVE  /\ IsFiniteSet(retransmitRequests) /\ Cardinality(retransmitRequests) \in Nat
         /\ IsFiniteSet(Requests \ queued) /\ Cardinality(Requests \ queued) \in Nat
         /\ IsFiniteSet(requestsByLastTransmission) /\ Cardinality(requestsByLastTransmission) \in Nat
         /\ Len(newRequests) \in Nat /\ nextRef \in Nat /\ MaxRefs \in Nat
<1>1. \A S \in SUBSET Requests : IsFiniteSet(S) /\ Cardinality(S) \in Nat
  BY FS_Subset, FS_CardinalityType, RequestsAssumption
<1>. QED BY <1>1, RequestsAssumption DEF TypeOK

LEMMA InitTypeOK == Init => TypeOK /\ Budget
<1> SUFFICES ASSUME Init PROVE TypeOK /\ Budget
  OBVIOUS
<1>1. InitialCongestion \in CongestionType
  BY RequestsAssumption DEF InitialCongestion, CongestionType, SizeMax
<1>2. TypeOK
  <2>1. <<>> \in Seq(Requests) /\ <<>> \in Seq(Results)
    OBVIOUS
  <2>2. 0 \in 0 .. MaxRefs /\ 0 \in 0 .. maxRequestTimeoutsBeforeOffline + 1
    BY RequestsAssumption
  <2>. QED BY <1>1, <2>1, <2>2 DEF Init, TypeOK, Positions
<1>3. Budget
  <2>1. Requests \ queued = Requests /\ Len(newRequests) = 0
    BY DEF Init
  <2>2. Cardinality(retransmitRequests) = 0 /\ Cardinality(Requests) \in Nat
    BY FS_EmptySet, FS_CardinalityType, RequestsAssumption DEF Init
  <2>. QED BY <2>1, <2>2, RequestsAssumption DEF Init, Budget
<1>. QED BY <1>2, <1>3

\* Every set of refs has a first one.
LEMMA FirstOfIsEntry ==
  ASSUME NEW set \in SUBSET (Refs \X Requests), set # {}
  PROVE  FirstOf(set) \in set
<1> DEFINE refs == {entry[1] : entry \in set}
<1>1. refs \subseteq Nat /\ refs # {}
  BY RequestsAssumption DEF Refs
<1>2. PICK ref \in refs : \A other \in refs : ~ (<<other, ref>> \in OpToRel(<, Nat))
  BY <1>1, WFMin, NatLessThanWellFounded
<1>3. \A other \in refs : ~ (other < ref)
  BY <1>1, <1>2 DEF OpToRel
<1>4. PICK entry \in set : entry[1] = ref
  OBVIOUS
<1>5. ASSUME NEW other \in set PROVE entry[1] <= other[1]
  <2>1. other[1] \in refs
    OBVIOUS
  <2>. HIDE DEF refs
  <2>2. other[1] \in Nat /\ ref \in Nat
    BY <1>1, <1>2, <2>1
  <2>3. ~ (other[1] < ref)
    BY <1>3, <2>1
  <2>4. ref <= other[1]
    BY <2>2, <2>3
  <2>. QED BY <1>4, <2>4
<1>. QED BY <1>4, <1>5 DEF FirstOf

LEMMA HeadAndTail ==
  ASSUME TypeOK, newRequests # <<>>
  PROVE  /\ Head(newRequests) \in Requests
         /\ Tail(newRequests) \in Seq(Requests)
         /\ Len(newRequests) \in Nat /\ Len(Tail(newRequests)) = Len(newRequests) - 1
         /\ Len(newRequests) > 0
BY HeadTailProperties DEF TypeOK

LEMMA RemoveRequestType ==
  ASSUME TypeOK, NEW r \in Requests, RemoveRequest(r)
  PROVE  /\ refToRequest' \subseteq refToRequest
         /\ requestsByFirstTransmission' \subseteq requestsByFirstTransmission
         /\ requestsByLastTransmission' \subseteq requestsByLastTransmission
         /\ retransmitRequests' \subseteq retransmitRequests
<1> DEFINE entries == EntriesOf(requestsByFirstTransmission, r)
<1>1. PICK missed \in MissedEntries(r) :
        requestsByFirstTransmission' = (requestsByFirstTransmission \ entries) \cup missed
  BY DEF RemoveRequest
<1>2. entries \subseteq requestsByFirstTransmission
  BY DEF EntriesOf
<1>3. entries \in SUBSET (Refs \X Requests)
  BY <1>2 DEF TypeOK
<1>4. missed \subseteq entries
  <2>1. entries # {} => FirstOf(entries) \in entries
    BY <1>3, FirstOfIsEntry
  <2>2. Cardinality(entries) > 1 => entries # {}
    BY FS_EmptySet
  <2>3. missed = {} \/ (Cardinality(entries) > 1 /\ missed = {FirstOf(entries)})
    <3>1. CASE Cardinality(entries) > 1
      BY <1>1, <3>1 DEF MissedEntries
    <3>2. CASE ~ (Cardinality(entries) > 1)
      BY <1>1, <3>2 DEF MissedEntries
    <3>. QED BY <3>1, <3>2
  <2>. QED BY <2>1, <2>2, <2>3
<1>. QED BY <1>1, <1>2, <1>4 DEF RemoveRequest

LEMMA TransmitType ==
  ASSUME TypeOK, NEW r \in Requests, Transmit(r), nextRef < MaxRefs
  PROVE  /\ nextRef' \in 0 .. MaxRefs /\ nextRef' = nextRef + 1
         /\ lastRef' \in [Requests -> 0 .. MaxRefs]
         /\ requestsByFirstTransmission' \subseteq Refs \X Requests
         /\ refToRequest' \subseteq Refs \X Requests
         /\ requestsByLastTransmission' \subseteq Requests
         /\ congestionWindowResetAfterSent' \subseteq Requests
         /\ packetsInFlightWhenSent' \in [Requests -> Nat]
<1>1. nextRef \in Refs /\ nextRef' \in 0 .. MaxRefs /\ nextRef' = nextRef + 1
  BY RequestsAssumption DEF TypeOK, Transmit, Refs
<1>2. Cardinality(requestsByLastTransmission) + 1 \in Nat
  BY Counts
<1>3. lastRef' \in [Requests -> 0 .. MaxRefs]
  BY <1>1, RequestsAssumption DEF TypeOK, Transmit, Refs
<1>4. packetsInFlightWhenSent' \in [Requests -> Nat]
  BY <1>2 DEF TypeOK, Transmit
<1>5. <<nextRef, r>> \in Refs \X Requests
  BY <1>1
<1>6. /\ requestsByFirstTransmission' \subseteq Refs \X Requests
      /\ refToRequest' \subseteq Refs \X Requests
  BY <1>5 DEF TypeOK, Transmit
<1>7. /\ requestsByLastTransmission' \subseteq Requests
      /\ congestionWindowResetAfterSent' \subseteq Requests
  BY DEF TypeOK, Transmit
<1>. QED BY <1>1, <1>3, <1>4, <1>6, <1>7

LEMMA ReleaseType ==
  ASSUME TypeOK, NEW position \in Positions, NEW failures \in SUBSET (Requests \X Results),
         Release(position, failures)
  PROVE  /\ sendThread' \in Positions
         /\ sendCallbacks' \subseteq Requests \X Results
         /\ timeoutCallbacks' \subseteq Requests
<1>1. {<<r, "timeout">> : r \in timeoutCallbacks} \subseteq Requests \X Results
  BY DEF TypeOK, Results
<1>. QED BY <1>1 DEF TypeOK, Release

LEMMA NextTypeOK == TypeOK /\ Budget /\ [Next]_vars => TypeOK' /\ Budget'
<1> SUFFICES ASSUME TypeOK, Budget, [Next]_vars PROVE TypeOK' /\ Budget'
  OBVIOUS
<1> USE DEF Positions
<1> DEFINE retransmissions == Cardinality(retransmitRequests)
<1> DEFINE unqueued == Cardinality(Requests \ queued)
<1>a. ASSUME NEW r \in Requests
      PROVE  /\ Cardinality(retransmitRequests \ {r}) \in Nat
             /\ Cardinality(retransmitRequests \ {r}) <= retransmissions
             /\ r \in retransmitRequests => Cardinality(retransmitRequests \ {r}) = retransmissions - 1
  <2>1. IsFiniteSet(retransmitRequests) /\ retransmissions \in Nat
    BY Counts
  <2>2. /\ IsFiniteSet(retransmitRequests \ {r})
        /\ Cardinality(retransmitRequests \ {r}) =
             IF r \in retransmitRequests THEN retransmissions - 1 ELSE retransmissions
    BY <2>1, FS_RemoveElement
  <2>3. Cardinality(retransmitRequests \ {r}) \in Nat
    BY <2>2, FS_CardinalityType
  <2>. HIDE DEF retransmissions
  <2>. QED BY <2>1, <2>2, <2>3
<1>b. ASSUME NEW r \in Requests
      PROVE  /\ Cardinality(retransmitRequests \cup {r}) \in Nat
             /\ Cardinality(retransmitRequests \cup {r}) <= retransmissions + 1
  <2>1. IsFiniteSet(retransmitRequests) /\ retransmissions \in Nat
    BY Counts
  <2>2. /\ IsFiniteSet(retransmitRequests \cup {r})
        /\ Cardinality(retransmitRequests \cup {r}) =
             IF r \in retransmitRequests THEN retransmissions ELSE retransmissions + 1
    BY <2>1, FS_AddElement
  <2>. HIDE DEF retransmissions
  <2>. QED BY <2>1, <2>2
<1>c. /\ nextRef \in Nat /\ MaxRefs \in Nat /\ Len(newRequests) \in Nat
      /\ retransmissions \in Nat /\ unqueued \in Nat
      /\ nextRef + retransmissions + Len(newRequests) + unqueued <= MaxRefs
  BY Counts DEF Budget
<1>d. congestion \in CongestionType /\ congestion.lossesFirstRef \in 0 .. MaxRefs
  BY DEF TypeOK, CongestionType
<1>1. ASSUME NEW r \in Requests, QueueRequest(r) PROVE TypeOK' /\ Budget'
  <2>1. TypeOK'
    <3>1. newRequests' \in Seq(Requests)
      BY <1>1, AppendProperties DEF TypeOK, QueueRequest
    <3>2. queued' \subseteq Requests /\ callback' \subseteq Requests /\ wokenUp' \in BOOLEAN
      BY <1>1 DEF TypeOK, QueueRequest
    <3>. QED BY <1>1, <3>1, <3>2 DEF TypeOK, QueueRequest, windowVars
  <2>2. Len(newRequests') = Len(newRequests) + 1
    BY <1>1, AppendProperties DEF TypeOK, QueueRequest
  <2>3. Cardinality(Requests \ queued') = Cardinality(Requests \ queued) - 1
    <3>1. Requests \ queued' = (Requests \ queued) \ {r} /\ r \in Requests \ queued
      BY <1>1 DEF QueueRequest
    <3>. QED BY <3>1, Counts, FS_RemoveElement
  <2>4. retransmitRequests' = retransmitRequests /\ nextRef' = nextRef
    BY <1>1 DEF QueueRequest
  <2>. QED BY <2>1, <2>2, <2>3, <2>4, Counts DEF Budget
<1>2. ASSUME ExpireQueued PROVE TypeOK' /\ Budget'
  <2>1. TypeOK'
    BY <1>2, HeadAndTail DEF TypeOK, ExpireQueued, windowVars
  <2>. QED BY <1>2, <2>1, HeadAndTail, Counts DEF Budget, ExpireQueued
<1>3. ASSUME ExpireSent PROVE TypeOK' /\ Budget'
  <2> DEFINE first == FirstOf(requestsByFirstTransmission)
  <2>1. first \in Refs \X Requests
    BY <1>3, FirstOfIsEntry DEF TypeOK, ExpireSent
  <2>2. first[2] \in Requests
    BY <2>1
  <2>3. consecutiveRequestTimeoutsCount' \in 0 .. (maxRequestTimeoutsBeforeOffline + 1)
    BY <1>3, RequestsAssumption DEF ExpireSent, TypeOK
  <2>4. congestion' \in CongestionType
    BY <1>3, <1>d, InitialCongestionType DEF ExpireSent
  <2>5. /\ timeoutCallbacks' \subseteq Requests /\ callback' \subseteq Requests
        /\ successOrTimeout' \subseteq Requests
        /\ requestsByFirstTransmission' \subseteq Refs \X Requests
    BY <1>3, <2>2 DEF ExpireSent, TypeOK
  <2>6. TypeOK'
    BY <1>3, <2>3, <2>4, <2>5 DEF ExpireSent, TypeOK
  <2>. QED BY <1>3, <2>6 DEF ExpireSent, Budget
<1>4. ASSUME NEW r \in Requests, RemoveAnswered(r) PROVE TypeOK' /\ Budget'
  <2>1. TypeOK'
    BY <1>4, RemoveRequestType DEF TypeOK, RemoveAnswered, flagVars, windowVars
  <2>2. retransmitRequests' = retransmitRequests \ {r}
    BY <1>4 DEF RemoveAnswered, RemoveRequest
  <2>. QED BY <1>4, <1>a, <2>1, <2>2, Counts DEF RemoveAnswered, Budget
<1>5. ASSUME NEW r \in Requests, DetectLoss(r) PROVE TypeOK' /\ Budget'
  <2>1. congestion' \in CongestionType
    <3>1. congestion \in CongestionType /\ lastRef[r] \in 0 .. MaxRefs /\ packetsInFlightWhenSent[r] \in Nat
      BY DEF TypeOK
    <3>. QED BY <1>5, <3>1, CongestionAfterLossType DEF DetectLoss
  <2>2. congestionWindowResetAfterSent' \subseteq Requests
    BY <1>5 DEF DetectLoss, TypeOK
  <2>3. TypeOK'
    BY <1>5, <2>1, <2>2 DEF DetectLoss, TypeOK, flagVars
  <2>4. /\ retransmitRequests' = retransmitRequests \cup {r}
        /\ nextRef' = nextRef /\ newRequests' = newRequests /\ queued' = queued
    BY <1>5 DEF DetectLoss
  <2>5. nextRef + Cardinality(retransmitRequests) + Len(newRequests) + Cardinality(Requests \ queued) < MaxRefs
    BY <1>5 DEF DetectLoss, MayRetransmit
  <2>. QED BY <1>b, <2>3, <2>4, <2>5, Counts DEF Budget
<1>6. ASSUME NEW r \in Requests, DropRetransmission(r) PROVE TypeOK' /\ Budget'
  <2>1. TypeOK'
    BY <1>6, RemoveRequestType, ReleaseType DEF TypeOK, DropRetransmission, Release
  <2>2. retransmitRequests' = retransmitRequests \ {r}
    BY <1>6 DEF DropRetransmission, RemoveRequest
  <2>. QED BY <1>6, <1>a, <2>1, <2>2, Counts DEF DropRetransmission, Release, Budget
<1>7. ASSUME NEW r \in Requests, Retransmit(r) PROVE TypeOK' /\ Budget'
  <2>1. r \in retransmitRequests /\ <<r, "error">> \in Requests \X Results
    BY <1>7 DEF Retransmit, Results
  <2>2. /\ newRequests' = newRequests /\ queued' = queued /\ callback' = callback
        /\ successOrTimeout' = successOrTimeout /\ congestion' = congestion
        /\ consecutiveRequestTimeoutsCount' = consecutiveRequestTimeoutsCount
        /\ receiveCallback' = receiveCallback /\ wokenUp' = wokenUp /\ results' = results
    BY <1>7 DEF Retransmit, Release
  <2>3. nextRef < MaxRefs
    <3>1. retransmissions - 1 \in Nat
      BY <1>a, <2>1
    <3>. HIDE DEF retransmissions, unqueued
    <3>. QED BY <1>c, <3>1
  <2>4. CASE Transmit(r) /\ retransmitRequests' = retransmitRequests \ {r} /\ Release("loop", {})
    <3>1. TypeOK'
      BY <2>2, <2>3, <2>4, TransmitType, ReleaseType DEF TypeOK
    <3>2. /\ nextRef' = nextRef + 1 /\ newRequests' = newRequests /\ queued' = queued
          /\ Cardinality(retransmitRequests') = retransmissions - 1
      BY <1>a, <2>1, <2>2, <2>4 DEF Transmit
    <3>. QED BY <1>c, <3>1, <3>2 DEF Budget
  <2>5. CASE TransmitFailed(r) /\ Release("sleep", {}) /\ UNCHANGED retransmitRequests
    <3>1. lastRef' \in [Requests -> 0 .. MaxRefs]
      BY <2>5 DEF TransmitFailed, TypeOK
    <3>2. TypeOK'
      BY <2>2, <2>5, <3>1, ReleaseType DEF TypeOK, TransmitFailed
    <3>. QED BY <2>2, <2>5, <3>2 DEF Budget, TransmitFailed
  <2>6. CASE /\ TransmitFailed(r) /\ retransmitRequests' = retransmitRequests \ {r}
             /\ Release("loop", ({r} \cap callback) \X {"error"})
    <3>0. ({r} \cap callback) \X {"error"} \in SUBSET (Requests \X Results)
      BY DEF Results
    <3>1. lastRef' \in [Requests -> 0 .. MaxRefs]
      BY <2>6 DEF TransmitFailed, TypeOK
    <3>2. TypeOK'
      BY <2>1, <2>2, <2>6, <3>0, <3>1, ReleaseType DEF TypeOK, TransmitFailed
    <3>. QED BY <1>a, <2>1, <2>2, <2>6, <3>2, Counts DEF Budget, TransmitFailed
  <2>. QED BY <1>7, <2>4, <2>5, <2>6 DEF Retransmit
<1>8. ASSUME NEW r \in Requests, SendsNew(r)
      PROVE  /\ nextRef < MaxRefs /\ r = Head(newRequests) /\ newRequests # <<>>
             /\ Tail(newRequests) \in Seq(Requests)
             /\ nextRef + 1 + retransmissions + Len(Tail(newRequests)) + unqueued <= MaxRefs
             /\ nextRef + retransmissions + Len(Tail(newRequests)) + unqueued <= MaxRefs
  <2>1. newRequests # <<>> /\ r = Head(newRequests)
    BY <1>8 DEF SendsNew
  <2>2. /\ Tail(newRequests) \in Seq(Requests)
        /\ Len(Tail(newRequests)) = Len(newRequests) - 1 /\ Len(newRequests) > 0
    BY <2>1, HeadAndTail
  <2>. HIDE DEF retransmissions, unqueued
  <2>. QED BY <1>c, <2>1, <2>2
<1>9. ASSUME NEW r \in Requests, SendNew(r) PROVE TypeOK' /\ Budget'
  <2>1. SendsNew(r) /\ Transmit(r) /\ newRequests' = Tail(newRequests) /\ retransmitRequests' = retransmitRequests
    BY <1>9 DEF SendNew
  <2>2. PICK failures \in SUBSET (Requests \X Results) : Release("loop", failures)
    BY <1>9 DEF SendNew, Report, Results
  <2>3. callback' \subseteq Requests
    BY <1>9 DEF SendNew, TypeOK
  <2>4. TypeOK'
    <3>1. nextRef < MaxRefs /\ newRequests' \in Seq(Requests)
      BY <1>8, <2>1
    <3>. QED BY <2>1, <2>2, <2>3, <3>1, TransmitType, ReleaseType DEF TypeOK, Release
  <2>5. nextRef' = nextRef + 1 /\ queued' = queued
    BY <2>1, <2>2 DEF Transmit, Release
  <2>. QED BY <1>8, <2>1, <2>4, <2>5 DEF Budget
<1>10. ASSUME NEW r \in Requests, SendNewAgain(r) PROVE TypeOK' /\ Budget'
  <2>1. SendsNew(r) /\ TransmitFailed(r) /\ newRequests' \in {Tail(newRequests), newRequests}
          /\ retransmitRequests' = retransmitRequests
    BY <1>10 DEF SendNewAgain
  <2>2. PICK position \in Positions, failures \in SUBSET (Requests \X Results) : Release(position, failures)
    BY <1>10 DEF SendNewAgain, Report, Results
  <2>3. callback' \subseteq Requests
    BY <1>10 DEF SendNewAgain, TypeOK
  <2>4. lastRef' \in [Requests -> 0 .. MaxRefs]
    BY <2>1 DEF TransmitFailed, TypeOK
  <2>5. newRequests' \in Seq(Requests)
    BY <1>8, <2>1 DEF TypeOK
  <2>6. TypeOK'
    BY <2>1, <2>2, <2>3, <2>4, <2>5, ReleaseType DEF TypeOK, Release, TransmitFailed
  <2>7. nextRef' = nextRef /\ queued' = queued
    BY <2>1, <2>2 DEF TransmitFailed, Release
  <2>. QED BY <1>8, <1>c, <2>1, <2>6, <2>7 DEF Budget
<1>11. ASSUME NEW r \in Requests, SendNewError(r) PROVE TypeOK' /\ Budget'
  <2>1. SendsNew(r) /\ TransmitFailed(r) /\ newRequests' = Tail(newRequests)
          /\ retransmitRequests' = retransmitRequests
    BY <1>11 DEF SendNewError
  <2>2. PICK failures \in SUBSET (Requests \X Results) : Release("loop", failures)
    BY <1>11 DEF SendNewError, Report, Results
  <2>3. callback' \subseteq Requests
    BY <1>11 DEF SendNewError, TypeOK
  <2>4. lastRef' \in [Requests -> 0 .. MaxRefs]
    BY <2>1 DEF TransmitFailed, TypeOK
  <2>6. TypeOK'
    BY <1>8, <2>1, <2>2, <2>3, <2>4, ReleaseType DEF TypeOK, Release, TransmitFailed
  <2>7. nextRef' = nextRef /\ queued' = queued
    BY <2>1, <2>2 DEF TransmitFailed, Release
  <2>. QED BY <1>8, <2>1, <2>6, <2>7 DEF Budget
<1>12. ASSUME NEW r \in Requests, FailNew(r) PROVE TypeOK' /\ Budget'
  <2>1. newRequests # <<>> /\ newRequests' = Tail(newRequests)
    BY <1>12 DEF FailNew
  <2>2. PICK failures \in SUBSET (Requests \X Results) : Release("loop", failures)
    BY <1>12 DEF FailNew, Report, Results
  <2>3. callback' \subseteq Requests
    BY <1>12 DEF FailNew, TypeOK
  <2>4. /\ newRequests' \in Seq(Requests) /\ Len(newRequests') = Len(newRequests) - 1
    BY <2>1, HeadAndTail
  <2>5. TypeOK'
    BY <1>12, <2>2, <2>3, <2>4, ReleaseType DEF TypeOK, Release, FailNew
  <2>6. nextRef' = nextRef /\ queued' = queued /\ retransmitRequests' = retransmitRequests
    BY <1>12 DEF FailNew, Release
  <2>. QED BY <1>c, <2>4, <2>5, <2>6 DEF Budget
<1>13. ASSUME Idle PROVE TypeOK' /\ Budget'
  <2>1. PICK position \in Positions : Release(position, {})
    BY <1>13 DEF Idle
  <2>2. TypeOK'
    BY <1>13, <2>1, ReleaseType DEF TypeOK, Release, Idle, requestVars
  <2>. QED BY <1>13, <2>2 DEF Idle, Release, requestVars, Budget
<1>14. ASSUME NEW r \in Requests, NEW result \in Results, CallBack(r, result) PROVE TypeOK' /\ Budget'
  <2>1. results' \in [Requests -> Seq(Results)]
    <3>1. Append(results[r], result) \in Seq(Results)
      BY AppendProperties DEF TypeOK
    <3>. QED BY <1>14, <3>1 DEF CallBack, TypeOK
  <2>2. sendCallbacks' \subseteq Requests \X Results
    BY <1>14 DEF CallBack, TypeOK
  <2>3. TypeOK'
    BY <1>14, <2>1, <2>2 DEF TypeOK, CallBack, requestVars, flagVars, windowVars
  <2>. QED BY <1>14, <2>3 DEF CallBack, requestVars, Budget
<1>15. ASSUME WakeUp PROVE TypeOK' /\ Budget'
  <2>1. wokenUp' \in BOOLEAN
    BY <1>15 DEF WakeUp, TypeOK
  <2>2. TypeOK'
    BY <1>15, <2>1 DEF TypeOK, WakeUp, requestVars, flagVars, windowVars
  <2>. QED BY <1>15, <2>2 DEF WakeUp, requestVars, Budget
<1>16. ASSUME NEW ref, NEW r \in Requests, Answered(ref, r)
       PROVE  /\ consecutiveRequestTimeoutsCount' \in 0 .. (maxRequestTimeoutsBeforeOffline + 1)
              /\ congestion' \in CongestionType /\ wokenUp' \in BOOLEAN
  <2>1. packetsInFlightWhenSent[r] \in Nat
    BY DEF TypeOK
  <2>. QED BY <1>16, <1>d, <2>1, CongestionAfterReplyType, RequestsAssumption DEF Answered
<1>17. ASSUME NEW r \in Requests, Complete(r)
       PROVE  /\ receiveCallback' \in Requests \cup {NoRequest}
              /\ callback' \subseteq Requests /\ successOrTimeout' \subseteq Requests
  BY <1>17 DEF Complete, TypeOK
<1>18. ASSUME NEW r \in Requests, ReceiveLast(r) PROVE TypeOK' /\ Budget'
  <2>1. Answered(lastRef[r], r) /\ Complete(r) /\ RemoveRequest(r)
    BY <1>18 DEF ReceiveLast
  <2>2. TypeOK'
    BY <1>16, <1>17, <2>1, RemoveRequestType DEF Answered, TypeOK
  <2>3. /\ nextRef' = nextRef /\ newRequests' = newRequests /\ queued' = queued
        /\ retransmitRequests' = retransmitRequests \ {r}
    BY <2>1 DEF Answered, RemoveRequest
  <2>. QED BY <1>a, <1>c, <2>2, <2>3 DEF Budget
<1>19. ASSUME NEW r \in Requests, ReceiveEarlier(r) PROVE TypeOK' /\ Budget'
  <2>1. PICK ref \in Refs :
          /\ Answered(ref, r)
          /\ Complete(r) \/ UNCHANGED <<flagVars, receiveCallback>>
          /\ refToRequest' = refToRequest \ {<<ref, r>>}
          /\ UNCHANGED <<requestsByFirstTransmission, requestsByLastTransmission, retransmitRequests>>
    BY <1>19 DEF ReceiveEarlier
  <2>2. /\ receiveCallback' \in Requests \cup {NoRequest}
        /\ callback' \subseteq Requests /\ successOrTimeout' \subseteq Requests
    BY <1>17, <2>1 DEF flagVars, TypeOK
  <2>3. TypeOK'
    BY <1>16, <2>1, <2>2 DEF Answered, TypeOK
  <2>. QED BY <2>1, <2>3 DEF Answered, Budget
<1>20. ASSUME NEW r \in Requests, DeliverReply(r) PROVE TypeOK' /\ Budget'
  <2>1. results' \in [Requests -> Seq(Results)]
    <3>1. Append(results[r], "reply") \in Seq(Results)
      BY AppendProperties DEF TypeOK, Results
    <3>. QED BY <1>20, <3>1 DEF DeliverReply, TypeOK
  <2>2. TypeOK'
    BY <1>20, <2>1 DEF TypeOK, DeliverReply, requestVars, flagVars, windowVars
  <2>. QED BY <1>20, <2>2 DEF DeliverReply, requestVars, Budget
<1>21. ASSUME UNCHANGED vars PROVE TypeOK' /\ Budget'
  BY <1>21 DEF vars, requestVars, flagVars, windowVars, threadVars, TypeOK, Budget
<1>. QED BY <1>1, <1>2, <1>3, <1>4, <1>5, <1>6, <1>7, <1>9, <1>10, <1>11, <1>12, <1>13, <1>14,
            <1>15, <1>18, <1>19, <1>20, <1>21 DEF Next, RunSendThread, Check, Send

-----------------------------------------------------------------------------
(* What a step does to the requests it is not about.                       *)

LEMMA TailElems ==
  ASSUME NEW S, NEW s \in Seq(S), s # <<>>, Distinct(s)
  PROVE  /\ Head(s) \in Elems(s) /\ Elems(Tail(s)) = Elems(s) \ {Head(s)}
         /\ Distinct(Tail(s))
<1>1. /\ Len(s) \in Nat \ {0} /\ Tail(s) \in Seq(S) /\ Len(Tail(s)) = Len(s) - 1 /\ Head(s) = s[1]
      /\ \A i \in 1 .. Len(Tail(s)) : Tail(s)[i] = s[i + 1]
  BY HeadTailProperties, EmptySeq
<1>2. Head(s) \in Elems(s)
  BY <1>1 DEF Elems
<1>3. ASSUME NEW e PROVE e \in Elems(Tail(s)) <=> e \in Elems(s) \ {Head(s)}
  <2>1. ASSUME e \in Elems(Tail(s)) PROVE e \in Elems(s) \ {Head(s)}
    <3>1. PICK i \in 1 .. Len(Tail(s)) : e = Tail(s)[i]
      BY <2>1 DEF Elems
    <3>2. i + 1 \in 1 .. Len(s) /\ i + 1 # 1 /\ 1 \in 1 .. Len(s) /\ e = s[i + 1]
      BY <1>1, <3>1
    <3>. QED BY <1>1, <3>2 DEF Elems, Distinct
  <2>2. ASSUME e \in Elems(s) \ {Head(s)} PROVE e \in Elems(Tail(s))
    <3>1. PICK i \in 1 .. Len(s) : e = s[i]
      BY <2>2 DEF Elems
    <3>2. i # 1
      BY <1>1, <2>2, <3>1
    <3>3. i - 1 \in 1 .. Len(Tail(s)) /\ (i - 1) + 1 = i
      BY <1>1, <3>1, <3>2
    <3>. QED BY <1>1, <3>1, <3>3 DEF Elems
  <2>. QED BY <2>1, <2>2
<1>4. Distinct(Tail(s))
  <2>1. SUFFICES ASSUME NEW i \in 1 .. Len(Tail(s)), NEW j \in 1 .. Len(Tail(s)), i # j
                 PROVE  Tail(s)[i] # Tail(s)[j]
    BY DEF Distinct
  <2>2. i + 1 \in 1 .. Len(s) /\ j + 1 \in 1 .. Len(s) /\ i + 1 # j + 1
    BY <1>1, <2>1
  <2>. QED BY <1>1, <2>2 DEF Distinct
<1>. QED BY <1>2, <1>3, <1>4

LEMMA AppendElems ==
  ASSUME NEW S, NEW s \in Seq(S), NEW e \in S
  PROVE  /\ Elems(Append(s, e)) = Elems(s) \cup {e}
         /\ Distinct(s) /\ e \notin Elems(s) => Distinct(Append(s, e))
<1>1. /\ Len(s) \in Nat /\ Len(Append(s, e)) = Len(s) + 1 /\ Append(s, e)[Len(s) + 1] = e
      /\ \A i \in 1 .. Len(s) : Append(s, e)[i] = s[i]
  BY AppendProperties, LenProperties
<1>2. ASSUME NEW i \in 1 .. Len(s) + 1
      PROVE  i = Len(s) + 1 \/ i \in 1 .. Len(s)
  BY <1>1
<1>3. ASSUME NEW x PROVE x \in Elems(Append(s, e)) <=> x \in Elems(s) \cup {e}
  <2>1. ASSUME x \in Elems(Append(s, e)) PROVE x \in Elems(s) \cup {e}
    <3>1. PICK i \in 1 .. Len(s) + 1 : x = Append(s, e)[i]
      BY <1>1, <2>1 DEF Elems
    <3>. QED BY <1>1, <1>2, <3>1 DEF Elems
  <2>2. ASSUME x \in Elems(s) PROVE x \in Elems(Append(s, e))
    <3>1. PICK i \in 1 .. Len(s) : x = s[i]
      BY <2>2 DEF Elems
    <3>2. i \in 1 .. Len(Append(s, e))
      BY <1>1, <3>1
    <3>. QED BY <1>1, <3>1, <3>2 DEF Elems
  <2>3. e \in Elems(Append(s, e))
    <3>1. Len(s) + 1 \in 1 .. Len(Append(s, e))
      BY <1>1
    <3>. QED BY <1>1, <3>1 DEF Elems
  <2>. QED BY <2>1, <2>2, <2>3
<1>4. ASSUME Distinct(s), e \notin Elems(s) PROVE Distinct(Append(s, e))
  <2>1. SUFFICES ASSUME NEW i \in 1 .. Len(s) + 1, NEW j \in 1 .. Len(s) + 1, i # j
                 PROVE  Append(s, e)[i] # Append(s, e)[j]
    BY <1>1 DEF Distinct
  <2>2. \A k \in 1 .. Len(s) : s[k] # e
    BY <1>4 DEF Elems
  <2>. QED BY <1>1, <1>2, <1>4, <2>1, <2>2 DEF Distinct
<1>. QED BY <1>3, <1>4

\* The entries of a request, as pairs.
LEMMA EntriesAreRefs ==
  ASSUME NEW set \in SUBSET (Refs \X Requests), NEW r \in Requests, NEW entry
  PROVE  entry \in EntriesOf(set, r) <=> \E ref \in Refs : entry = <<ref, r>> /\ <<ref, r>> \in set
<1>1. ASSUME entry \in EntriesOf(set, r)
      PROVE  \E ref \in Refs : entry = <<ref, r>> /\ <<ref, r>> \in set
  <2>1. entry \in set /\ entry[2] = r
    BY <1>1 DEF EntriesOf
  <2>2. entry \in Refs \X Requests
    BY <2>1
  <2>3. entry[1] \in Refs /\ entry = <<entry[1], entry[2]>>
    BY <2>2
  <2>4. entry = <<entry[1], r>>
    BY <2>1, <2>3
  <2>. QED BY <2>1, <2>3, <2>4
<1>2. ASSUME NEW ref \in Refs, entry = <<ref, r>>, <<ref, r>> \in set
      PROVE  entry \in EntriesOf(set, r)
  BY <1>2 DEF EntriesOf
<1>. QED BY <1>1, <1>2

LEMMA RemoveRequestKeeps ==
  ASSUME TypeOK, NEW q \in Requests, RemoveRequest(q)
  PROVE  /\ \A r \in Requests \ {q} :
              /\ r \in requestsByLastTransmission' <=> r \in requestsByLastTransmission
              /\ r \in retransmitRequests' <=> r \in retransmitRequests
              /\ \A ref \in Refs : /\ <<ref, r>> \in refToRequest' <=> <<ref, r>> \in refToRequest
                                   /\ <<ref, r>> \in requestsByFirstTransmission'
                                        <=> <<ref, r>> \in requestsByFirstTransmission
         /\ \A ref \in Refs : /\ <<ref, q>> \notin refToRequest'
                              /\ <<ref, q>> \in requestsByFirstTransmission'
                                    => <<ref, q>> \in requestsByFirstTransmission
         /\ q \notin requestsByLastTransmission' /\ q \notin retransmitRequests'
<1> DEFINE entries == EntriesOf(requestsByFirstTransmission, q)
<1>1. PICK missed \in MissedEntries(q) :
        requestsByFirstTransmission' = (requestsByFirstTransmission \ entries) \cup missed
  BY DEF RemoveRequest
<1>2. entries \subseteq requestsByFirstTransmission /\ entries \in SUBSET (Refs \X Requests)
  BY DEF EntriesOf, TypeOK
<1>3. \A entry \in entries : entry[2] = q
  BY DEF EntriesOf
<1>4. missed \subseteq entries
  <2>1. entries # {} => FirstOf(entries) \in entries
    BY <1>2, FirstOfIsEntry
  <2>2. Cardinality(entries) > 1 => entries # {}
    BY FS_EmptySet
  <2>3. missed = {} \/ (Cardinality(entries) > 1 /\ missed = {FirstOf(entries)})
    BY <1>1 DEF MissedEntries
  <2>. QED BY <2>1, <2>2, <2>3
<1>5. \A entry : entry[2] # q => (entry \in requestsByFirstTransmission' <=> entry \in requestsByFirstTransmission)
  BY <1>1, <1>3, <1>4
<1>6. \A entry : entry \in requestsByFirstTransmission' => entry \in requestsByFirstTransmission
  BY <1>1, <1>2, <1>4
<1>7. refToRequest' = {entry \in refToRequest : entry[2] # q}
  BY DEF RemoveRequest, EntriesOf
<1>8. /\ requestsByLastTransmission' = requestsByLastTransmission \ {q}
      /\ retransmitRequests' = retransmitRequests \ {q}
  BY DEF RemoveRequest
<1>. HIDE DEF entries
<1>. QED BY <1>5, <1>6, <1>7, <1>8

\* A first transmission or a retransmission concerns no other request.
LEMMA TransmitKeeps ==
  ASSUME TypeOK, NEW q \in Requests, Transmit(q) \/ TransmitFailed(q)
  PROVE  /\ nextRef <= nextRef'
         /\ \A r \in Requests \ {q} :
              /\ r \in requestsByLastTransmission' <=> r \in requestsByLastTransmission
              /\ lastRef'[r] = lastRef[r]
              /\ \A ref \in Refs : /\ <<ref, r>> \in refToRequest' <=> <<ref, r>> \in refToRequest
                                   /\ <<ref, r>> \in requestsByFirstTransmission'
                                        <=> <<ref, r>> \in requestsByFirstTransmission
<1>1. nextRef \in Nat /\ lastRef \in [Requests -> 0 .. MaxRefs] /\ (nextRef' = nextRef \/ nextRef' = nextRef + 1)
  BY RequestsAssumption DEF TypeOK, Transmit, TransmitFailed
<1>2. lastRef' = [lastRef EXCEPT ![q] = nextRef]
  BY DEF Transmit, TransmitFailed
<1>3. \A r \in Requests \ {q} : r \in requestsByLastTransmission' <=> r \in requestsByLastTransmission
  BY DEF Transmit, TransmitFailed
<1>4. /\ \A entry : entry[2] # q => (entry \in refToRequest' <=> entry \in refToRequest)
      /\ \A entry : entry[2] # q =>
           (entry \in requestsByFirstTransmission' <=> entry \in requestsByFirstTransmission)
  BY DEF Transmit, TransmitFailed
<1>. QED BY <1>1, <1>2, <1>3, <1>4

\* Releasing the mutex moves the timeout callbacks.
LEMMA ReleaseMoves ==
  ASSUME TypeOK, sendCallbacks = {}, NEW position, NEW failures, Release(position, failures)
  PROVE  \A r \in Requests :
           /\ r \notin timeoutCallbacks' /\ (r \in queued' <=> r \in queued)
           /\ r \in successOrTimeout' <=> r \in successOrTimeout
           /\ receiveCallback' = receiveCallback /\ results' = results
           /\ \A x \in Results : <<r, x>> \in sendCallbacks'
                <=> (<<r, x>> \in failures \/ (x = "timeout" /\ r \in timeoutCallbacks))
BY DEF Release

\* A callback that has been called at most once or twice.
LEMMA SmallNumbers ==
  ASSUME NEW n \in Nat
  PROVE  /\ n <= 1 => n = 0 \/ n = 1
         /\ n <= 2 => n = 0 \/ n = 1 \/ n = 2
  OBVIOUS

LEMMA NoticesKeptInv ==
  ASSUME NEW r \in Requests, OnceInv(r), NoticesKept(r)
  PROVE  /\ OnceInv(r)'
         /\ Told(r, "error")' <=> Told(r, "error")
         /\ Told(r, "offline")' <=> Told(r, "offline")
         /\ (r \in TimedOut \cup Succeeded)' => r \in TimedOut \cup Succeeded
         /\ Unannounced(r) /\ r \notin timeoutCallbacks => Unannounced(r)'
         /\ r \notin timeoutCallbacks => r \notin timeoutCallbacks'
<1> USE DEF NoticesKept
<1>1. /\ "error" \in Results /\ "timeout" \in Results /\ "reply" \in Results
      /\ "offline" \in Results
  BY DEF Results
<1>2. /\ Told(r, "error")' <=> Told(r, "error")
      /\ Told(r, "offline")' <=> Told(r, "offline")
      /\ Told(r, "reply")' <=> Told(r, "reply")
      /\ Told(r, "timeout")' => Told(r, "timeout") \/ r \in timeoutCallbacks
  BY <1>1 DEF Told
<1>3. Unannounced(r) /\ (r \notin timeoutCallbacks \/ r \in timeoutCallbacks') => Unannounced(r)'
  BY DEF Unannounced
<1>4. OnceInv(r)'
  <2>1. CASE /\ r \in timeoutCallbacks' <=> r \in timeoutCallbacks
             /\ \A x \in Results : <<r, x>> \in sendCallbacks' <=> <<r, x>> \in sendCallbacks
    BY <1>2, <2>1 DEF OnceInv, Pending, Announced
  <2>2. CASE /\ sendCallbacks = {} /\ r \notin timeoutCallbacks'
             /\ \A x \in Results :
                  <<r, x>> \in sendCallbacks' <=> (x = "timeout" /\ r \in timeoutCallbacks)
    BY <1>1, <1>2, <2>2 DEF OnceInv, Pending, Announced
  <2>. QED BY <2>1, <2>2
<1>5. (r \in TimedOut \cup Succeeded)' => r \in TimedOut \cup Succeeded
  BY <1>2 DEF TimedOut, Succeeded
<1>. QED BY <1>2, <1>3, <1>4, <1>5

\* The invariant of a request survives the steps that are about other requests.
LEMMA KeptInv ==
  ASSUME TypeOK, TypeOK', NEW r \in Requests, RequestInv(r), Kept(r)
  PROVE  RequestInv(r)'
<1> USE DEF Kept
<1>1. OnceInv(r) /\ NoticesKept(r)
  BY DEF RequestInv
<1>2. /\ OnceInv(r)' /\ (Told(r, "error")' <=> Told(r, "error"))
      /\ Told(r, "offline")' <=> Told(r, "offline")
  BY <1>1, NoticesKeptInv
<1>3. nextRef \in Nat /\ nextRef' \in Nat
  BY RequestsAssumption DEF TypeOK
<1>4. NewInv(r)'
  <2>1. Fresh(r)' <=> Fresh(r)
    BY DEF Fresh, NoticesKept
  <2>2. Untouched(r) => Untouched(r)'
    <3>1. Unannounced(r) /\ r \notin timeoutCallbacks => Unannounced(r)' /\ r \notin timeoutCallbacks'
      BY <1>1, NoticesKeptInv
    <3>. QED BY <3>1 DEF Untouched, NoticesKept
  <2>. QED BY <2>1, <2>2 DEF NewInv, RequestInv, NoticesKept
<1>5. WatchedInv(r)' /\ FlightInv(r)'
  BY <1>2 DEF WatchedInv, FlightInv, RequestInv, NoticesKept
<1>6. AwaitedInv(r)'
  <2>1. r \in requestsByLastTransmission' => <<lastRef'[r], r>> \in refToRequest'
    <3>1. SUFFICES ASSUME r \in requestsByLastTransmission' PROVE <<lastRef'[r], r>> \in refToRequest'
      OBVIOUS
    <3>2. <<lastRef[r], r>> \in refToRequest
      BY <3>1 DEF AwaitedInv, RequestInv
    <3>3. lastRef[r] \in Refs
      BY <3>2 DEF TypeOK
    <3>. QED BY <3>2, <3>3
  <2>2. ASSUME NEW ref \in Refs, <<ref, r>> \in refToRequest'
        PROVE  /\ ref < nextRef'
               /\ \/ Told(r, "error")' \/ SilentlyFailed(r)'
                  \/ r \in requestsByLastTransmission' \/ r \in retransmitRequests'
    <3>1. /\ ref < nextRef
          /\ \/ Told(r, "error") \/ SilentlyFailed(r)
             \/ r \in requestsByLastTransmission \/ r \in retransmitRequests
      BY <2>2 DEF AwaitedInv, RequestInv
    <3>2. ref < nextRef'
      BY <1>3, <3>1, RequestsAssumption DEF Refs
    <3>3. SilentlyFailed(r) => SilentlyFailed(r)'
      <4>1. <<lastRef'[r], r>> \in refToRequest' => <<lastRef[r], r>> \in refToRequest
        <5>1. lastRef'[r] = lastRef[r] /\ (<<lastRef'[r], r>> \in refToRequest' => lastRef'[r] \in Refs)
          BY DEF TypeOK
        <5>. QED BY <5>1
      <4>. QED BY <1>2, <4>1 DEF SilentlyFailed
    <3>. QED BY <1>2, <3>1, <3>2, <3>3
  <2>. QED BY <2>1, <2>2 DEF AwaitedInv
<1>7. AnsweredInv(r)'
  <2>1. (r \in TimedOut \cup Succeeded)' => r \in TimedOut \cup Succeeded
    BY <1>1, NoticesKeptInv
  <2>. QED BY <2>1 DEF AnsweredInv, RequestInv
<1>. QED BY <1>2, <1>4, <1>5, <1>6, <1>7 DEF RequestInv

LEMMA StepInv ==
  ASSUME TypeOK, TypeOK', ClientInv, NEW q \in Requests, Distinct(newRequests)',
         \A r \in Requests \ {q} : Kept(r), RequestInv(q)'
  PROVE  ClientInv'
<1>1. ASSUME NEW r \in Requests PROVE RequestInv(r)'
  BY KeptInv DEF ClientInv
<1>. QED BY <1>1 DEF ClientInv

-----------------------------------------------------------------------------
(* Each step preserves the invariant.                                      *)

LEMMA QueueRequestInv ==
  ASSUME TypeOK, TypeOK', ClientInv, NEW q \in Requests, QueueRequest(q)
  PROVE  ClientInv'
<1>1. /\ NewInv(q) /\ WatchedInv(q) /\ AwaitedInv(q) /\ OnceInv(q) /\ Distinct(newRequests)
      /\ FlightInv(q) /\ AnsweredInv(q)
  BY DEF ClientInv, RequestInv
<1>2. q \notin queued /\ q \notin callback /\ q \notin Elems(newRequests) /\ Untouched(q)
  BY <1>1 DEF QueueRequest, NewInv, Fresh
<1>3. Elems(newRequests)' = Elems(newRequests) \cup {q} /\ Distinct(newRequests)'
  <2>1. newRequests \in Seq(Requests) /\ newRequests' = Append(newRequests, q)
    BY DEF TypeOK, QueueRequest
  <2>. QED BY <1>1, <1>2, <2>1, AppendElems
<1>4. \A r \in Requests \ {q} : Kept(r)
  BY <1>3 DEF QueueRequest, Kept, NoticesKept, TypeOK
<1>5. Untouched(q)'
  BY <1>2 DEF Untouched, Unannounced, QueueRequest
<1>6. q \in queued' /\ q \in callback' /\ q \in Elems(newRequests)'
  BY <1>3 DEF QueueRequest
<1>7. NewInv(q)' /\ WatchedInv(q)'
  BY <1>5, <1>6 DEF NewInv, WatchedInv, Untouched
<1>8. AwaitedInv(q)' /\ AnsweredInv(q)' /\ FlightInv(q)'
  BY <1>5 DEF AwaitedInv, AnsweredInv, FlightInv, Untouched
<1>9. OnceInv(q)'
  <2>1. results'[q] = <<>> /\ Len(results'[q]) = 0 /\ ~ Announced(q)'
    BY <1>5 DEF Untouched, Unannounced, Announced
  <2>. QED BY <1>5, <1>6, <2>1 DEF OnceInv, Untouched, Pending, Announced
<1>. QED BY <1>3, <1>4, <1>7, <1>8, <1>9, StepInv DEF RequestInv

LEMMA ExpireQueuedInv ==
  ASSUME TypeOK, TypeOK', ClientInv, ExpireQueued
  PROVE  ClientInv'
<1>0. PICK q \in Requests : q = Head(newRequests)
  BY HeadAndTail DEF ExpireQueued
<1>1. newRequests # <<>> /\ newRequests \in Seq(Requests)
  BY DEF ExpireQueued, TypeOK
<1>2. /\ NewInv(q) /\ WatchedInv(q) /\ AwaitedInv(q) /\ OnceInv(q) /\ Distinct(newRequests)
      /\ FlightInv(q) /\ AnsweredInv(q)
  BY <1>1 DEF ClientInv, RequestInv
<1>3. q \in Elems(newRequests) /\ Elems(newRequests)' = Elems(newRequests) \ {q} /\ Distinct(newRequests)'
  BY <1>0, <1>1, <1>2, TailElems DEF ExpireQueued
<1>4. Untouched(q) /\ q \in queued
  BY <1>2, <1>3 DEF NewInv, Fresh
<1>5. /\ q \in queued' /\ q \notin Elems(newRequests)' /\ q \notin callback'
      /\ timeoutCallbacks' = timeoutCallbacks \cup {q}
      /\ UNCHANGED <<sendCallbacks, results, receiveCallback, requestsByLastTransmission,
                     requestsByFirstTransmission, retransmitRequests, refToRequest, successOrTimeout>>
  BY <1>0, <1>3, <1>4 DEF ExpireQueued
<1>6. ASSUME NEW r \in Requests \ {q} PROVE Kept(r)
  <2>1. callback' = callback \ {q} /\ nextRef <= nextRef' /\ UNCHANGED <<queued, lastRef>>
    BY <1>0 DEF ExpireQueued, TypeOK
  <2>2. NoticesKept(r)
    BY <1>5, <2>1 DEF NoticesKept
  <2>. QED BY <1>3, <1>5, <2>1, <2>2 DEF Kept
<1>7. NewInv(q)' /\ WatchedInv(q)' /\ AwaitedInv(q)' /\ AnsweredInv(q)' /\ FlightInv(q)'
  BY <1>4, <1>5 DEF NewInv, Fresh, WatchedInv, AwaitedInv, AnsweredInv, FlightInv, Untouched
<1>8. OnceInv(q)'
  <2>1. results'[q] = <<>> /\ Len(results'[q]) = 0 /\ ~ Announced(q)' /\ receiveCallback' # q
    BY <1>4, <1>5 DEF Untouched, Unannounced, Announced
  <2>. QED BY <1>5, <2>1 DEF OnceInv, Pending, Announced
<1>. QED BY <1>3, <1>6, <1>7, <1>8, StepInv DEF RequestInv

LEMMA ExpireSentInv ==
  ASSUME TypeOK, TypeOK', ClientInv, ExpireSent
  PROVE  ClientInv'
<1>1. FirstOf(requestsByFirstTransmission) \in requestsByFirstTransmission
  BY FirstOfIsEntry DEF ExpireSent, TypeOK
<1>2. FirstOf(requestsByFirstTransmission) \in Refs \X Requests
  BY <1>1 DEF TypeOK
<1>3. PICK ref \in Refs, q \in Requests : FirstOf(requestsByFirstTransmission) = <<ref, q>>
  BY <1>2
<1>4. /\ NewInv(q) /\ WatchedInv(q) /\ AwaitedInv(q) /\ OnceInv(q) /\ Distinct(newRequests)
      /\ FlightInv(q) /\ AnsweredInv(q)
  BY DEF ClientInv, RequestInv
<1>5. /\ <<ref, q>> \in requestsByFirstTransmission
      /\ timeoutCallbacks' = timeoutCallbacks \cup ({q} \cap callback)
      /\ callback' = callback \ {q} /\ successOrTimeout' = successOrTimeout \cup {q}
      /\ requestsByFirstTransmission' = requestsByFirstTransmission \ {<<ref, q>>}
  BY <1>1, <1>3 DEF ExpireSent
<1>6. UNCHANGED <<queued, newRequests, requestsByLastTransmission, retransmitRequests, refToRequest,
                  nextRef, lastRef, sendCallbacks, receiveCallback, results>>
  BY DEF ExpireSent
<1>7. ~ Fresh(q)
  BY <1>4, <1>5 DEF NewInv, Untouched
<1>8. \A r \in Requests \ {q} : Kept(r)
  BY <1>5, <1>6, RequestsAssumption DEF Kept, NoticesKept, TypeOK
<1>9. NewInv(q)' /\ WatchedInv(q)' /\ AnsweredInv(q)'
  BY <1>4, <1>5, <1>6, <1>7 DEF NewInv, WatchedInv, AnsweredInv, Fresh
<1>10. \A x : Told(q, x)' <=> Told(q, x)
  BY <1>6 DEF Told
<1>11. FlightInv(q)'
  BY <1>4, <1>5, <1>6, <1>10 DEF FlightInv
<1>12. AwaitedInv(q)'
  BY <1>4, <1>6, <1>10 DEF AwaitedInv, SilentlyFailed
<1>13. OnceInv(q)'
  <2>1. (Pending(q)' <=> Pending(q)) /\ (Announced(q)' <=> Announced(q))
    BY <1>5, <1>6 DEF Pending, Announced
  <2>2. q \in timeoutCallbacks' => receiveCallback # q /\ ~ Announced(q)
    <3>1. q \in callback => ~ Announced(q)
      <4>1. SUFFICES ASSUME q \in callback, NEW x \in Results, <<q, x>> \in sendCallbacks PROVE FALSE
        BY DEF Announced
      <4>. QED BY <4>1 DEF ExpireSent, Iterating
    <3>. QED BY <1>4, <1>5, <3>1 DEF OnceInv
  <2>. QED BY <1>4, <1>5, <1>6, <1>10, <2>1, <2>2 DEF OnceInv
<1>. QED BY <1>4, <1>6, <1>8, <1>9, <1>11, <1>12, <1>13, StepInv DEF RequestInv

LEMMA RemoveAnsweredInv ==
  ASSUME TypeOK, TypeOK', ClientInv, NEW q \in Requests, RemoveAnswered(q)
  PROVE  ClientInv'
<1>1. /\ NewInv(q) /\ WatchedInv(q) /\ AwaitedInv(q) /\ OnceInv(q) /\ Distinct(newRequests)
      /\ FlightInv(q) /\ AnsweredInv(q)
  BY DEF ClientInv, RequestInv
<1>2. q \in successOrTimeout /\ RemoveRequest(q) /\ q \in requestsByLastTransmission
  BY DEF RemoveAnswered, IsOldest
<1>3. UNCHANGED <<queued, newRequests, nextRef, lastRef, callback, successOrTimeout, timeoutCallbacks,
                  sendCallbacks, receiveCallback, results>>
  BY DEF RemoveAnswered, flagVars
<1>4. ~ Fresh(q) /\ q \notin callback
  BY <1>1, <1>2 DEF NewInv, Untouched
<1>5. \A r \in Requests : NoticesKept(r)
  BY <1>3 DEF NoticesKept
<1>6. \A r \in Requests \ {q} : Kept(r)
  <2>1. nextRef <= nextRef'
    BY <1>3, RequestsAssumption DEF TypeOK
  <2>. QED BY <1>2, <1>3, <1>5, <2>1, RemoveRequestKeeps DEF Kept
<1>7. NewInv(q)'
  BY <1>1, <1>2, <1>3, <1>4 DEF NewInv, Fresh
<1>8. WatchedInv(q)' /\ AwaitedInv(q)' /\ AnsweredInv(q)' /\ FlightInv(q)'
  <2>1. /\ q \notin callback' /\ q \notin requestsByLastTransmission' /\ q \notin retransmitRequests'
        /\ \A ref \in Refs : <<ref, q>> \notin refToRequest'
    BY <1>2, <1>3, <1>4, RemoveRequestKeeps
  <2>. QED BY <2>1 DEF WatchedInv, AwaitedInv, AnsweredInv, FlightInv
<1>9. OnceInv(q)'
  BY <1>1, <1>5, NoticesKeptInv
<1>. QED BY <1>1, <1>3, <1>6, <1>7, <1>8, <1>9, StepInv DEF RequestInv

LEMMA DetectLossInv ==
  ASSUME TypeOK, TypeOK', ClientInv, NEW q \in Requests, DetectLoss(q)
  PROVE  ClientInv'
<1>1. /\ NewInv(q) /\ WatchedInv(q) /\ AwaitedInv(q) /\ OnceInv(q) /\ Distinct(newRequests)
      /\ FlightInv(q) /\ AnsweredInv(q)
  BY DEF ClientInv, RequestInv
<1>2. /\ q \in requestsByLastTransmission
      /\ retransmitRequests' = retransmitRequests \cup {q}
      /\ requestsByLastTransmission' = requestsByLastTransmission \ {q}
  BY DEF DetectLoss, IsOldest
<1>3. UNCHANGED <<queued, newRequests, nextRef, lastRef, callback, successOrTimeout, timeoutCallbacks,
                  requestsByFirstTransmission, refToRequest, sendCallbacks, receiveCallback, results>>
  BY DEF DetectLoss, flagVars
<1>4. ~ Fresh(q)
  BY <1>1, <1>2 DEF NewInv, Untouched
<1>5. \A r \in Requests : NoticesKept(r)
  BY <1>3 DEF NoticesKept
<1>6. \A r \in Requests \ {q} : Kept(r)
  BY <1>2, <1>3, <1>5, RequestsAssumption DEF Kept, TypeOK
<1>7. /\ OnceInv(q)' /\ (Told(q, "error")' <=> Told(q, "error"))
      /\ Told(q, "offline")' <=> Told(q, "offline")
      /\ ((q \in TimedOut \cup Succeeded)' => q \in TimedOut \cup Succeeded)
  BY <1>1, <1>5, NoticesKeptInv
<1>8. NewInv(q)' /\ WatchedInv(q)' /\ AnsweredInv(q)' /\ FlightInv(q)'
  BY <1>1, <1>2, <1>3, <1>4, <1>7 DEF NewInv, Fresh, WatchedInv, AnsweredInv, FlightInv
<1>9. AwaitedInv(q)'
  BY <1>1, <1>2, <1>3 DEF AwaitedInv
<1>. QED BY <1>1, <1>3, <1>6, <1>7, <1>8, <1>9, StepInv DEF RequestInv

LEMMA DropRetransmissionInv ==
  ASSUME TypeOK, TypeOK', ClientInv, NEW q \in Requests, DropRetransmission(q)
  PROVE  ClientInv'
<1>1. /\ NewInv(q) /\ WatchedInv(q) /\ AwaitedInv(q) /\ OnceInv(q) /\ Distinct(newRequests)
      /\ FlightInv(q) /\ AnsweredInv(q)
  BY DEF ClientInv, RequestInv
<1>2. q \in successOrTimeout /\ q \in retransmitRequests /\ RemoveRequest(q) /\ sendCallbacks = {}
  BY DEF DropRetransmission, Checked, Iterating
<1>3. /\ UNCHANGED <<queued, newRequests, nextRef, lastRef, callback, successOrTimeout,
                     receiveCallback, results>>
      /\ timeoutCallbacks' = {} /\ sendCallbacks' = {<<r, "timeout">> : r \in timeoutCallbacks}
  BY DEF DropRetransmission, Release
<1>4. ~ Fresh(q) /\ q \notin callback
  BY <1>1, <1>2 DEF NewInv, Untouched
<1>5. \A r \in Requests : NoticesKept(r)
  BY <1>2, <1>3 DEF NoticesKept
<1>6. \A r \in Requests \ {q} : Kept(r)
  <2>1. nextRef <= nextRef'
    BY <1>3, RequestsAssumption DEF TypeOK
  <2>. QED BY <1>2, <1>3, <1>5, <2>1, RemoveRequestKeeps DEF Kept
<1>7. NewInv(q)'
  BY <1>1, <1>2, <1>3, <1>4 DEF NewInv, Fresh
<1>8. WatchedInv(q)' /\ AwaitedInv(q)' /\ AnsweredInv(q)' /\ FlightInv(q)'
  <2>1. /\ q \notin callback' /\ q \notin requestsByLastTransmission' /\ q \notin retransmitRequests'
        /\ \A ref \in Refs : <<ref, q>> \notin refToRequest'
    BY <1>2, <1>3, <1>4, RemoveRequestKeeps
  <2>. QED BY <2>1 DEF WatchedInv, AwaitedInv, AnsweredInv, FlightInv
<1>9. OnceInv(q)'
  BY <1>1, <1>5, NoticesKeptInv
<1>. QED BY <1>1, <1>3, <1>6, <1>7, <1>8, <1>9, StepInv DEF RequestInv

\* The packet that has been sent is the last one of its request.
LEMMA TransmitSelf ==
  ASSUME TypeOK, TypeOK', NEW q \in Requests, AwaitedInv(q), Transmit(q)
  PROVE  /\ AwaitedInv(q)' /\ q \in requestsByLastTransmission'
         /\ \A ref \in Refs : <<ref, q>> \in requestsByFirstTransmission
                                => <<ref, q>> \in requestsByFirstTransmission'
         /\ (\A ref \in Refs : <<ref, q>> \notin refToRequest)
              => \E ref \in Refs : <<ref, q>> \in requestsByFirstTransmission'
<1>1. nextRef \in Nat /\ nextRef' = nextRef + 1 /\ nextRef' \in 0 .. MaxRefs
  BY RequestsAssumption DEF TypeOK, Transmit
<1>2. nextRef \in Refs
  BY <1>1, RequestsAssumption DEF Refs
<1>3. /\ lastRef'[q] = nextRef
      /\ refToRequest' = refToRequest \cup {<<nextRef, q>>}
      /\ requestsByLastTransmission' = requestsByLastTransmission \cup {q}
  BY DEF TypeOK, Transmit
<1>4. ASSUME NEW ref \in Refs, <<ref, q>> \in refToRequest' PROVE ref < nextRef'
  <2>1. ref < nextRef \/ ref = nextRef
    BY <1>3, <1>4 DEF AwaitedInv
  <2>. QED BY <1>1, <2>1, RequestsAssumption DEF Refs
<1>5. AwaitedInv(q)'
  BY <1>3, <1>4 DEF AwaitedInv
<1>6. ASSUME \A ref \in Refs : <<ref, q>> \notin refToRequest
      PROVE  <<nextRef, q>> \in requestsByFirstTransmission'
  <2>1. EntriesOf(refToRequest, q) = {}
    BY <1>6, EntriesAreRefs DEF TypeOK
  <2>2. RefsSent(q) = {}
    BY <2>1 DEF RefsSent
  <2>. QED BY <2>2 DEF Transmit
<1>7. \A entry : entry \in requestsByFirstTransmission => entry \in requestsByFirstTransmission'
  BY DEF Transmit
<1>. QED BY <1>2, <1>3, <1>5, <1>6, <1>7

LEMMA RetransmitInv ==
  ASSUME TypeOK, TypeOK', ClientInv, NEW q \in Requests, Retransmit(q)
  PROVE  ClientInv'
<1>1. /\ NewInv(q) /\ WatchedInv(q) /\ AwaitedInv(q) /\ OnceInv(q) /\ Distinct(newRequests)
      /\ FlightInv(q) /\ AnsweredInv(q)
  BY DEF ClientInv, RequestInv
<1>2. /\ q \notin successOrTimeout /\ q \in retransmitRequests /\ sendCallbacks = {}
      /\ newRequests' = newRequests /\ callback' = callback
  BY DEF Retransmit, Checked, Iterating
<1>3. PICK position \in Positions, failures \in SUBSET ({q} \X {"error"}) : Release(position, failures)
  <2>1. /\ ({q} \cap callback) \X {"error"} \in SUBSET ({q} \X {"error"})
        /\ {} \in SUBSET ({q} \X {"error"})
    OBVIOUS
  <2>2. \/ Release("loop", {}) \/ Release("sleep", {})
        \/ Release("loop", ({q} \cap callback) \X {"error"})
    BY DEF Retransmit
  <2>. QED BY <2>1, <2>2 DEF Positions
<1>4. /\ UNCHANGED <<queued, successOrTimeout, receiveCallback, results>>
      /\ timeoutCallbacks' = {}
      /\ sendCallbacks' = failures \cup {<<r, "timeout">> : r \in timeoutCallbacks}
  BY <1>3 DEF Release
<1>5. /\ ~ Fresh(q) /\ q \notin requestsByLastTransmission
      /\ q \notin TimedOut \cup Succeeded
  BY <1>1, <1>2 DEF NewInv, Untouched, WatchedInv, AnsweredInv, FlightInv
<1>6. Transmit(q) \/ TransmitFailed(q)
  BY DEF Retransmit
<1>7. \A r \in Requests \ {q} : Kept(r)
  <2>1. \A r \in Requests \ {q} : NoticesKept(r)
    BY <1>2, <1>4 DEF NoticesKept
  <2>2. \A r \in Requests \ {q} : r \in retransmitRequests' <=> r \in retransmitRequests
    BY DEF Retransmit
  <2>. QED BY <1>2, <1>4, <1>6, <2>1, <2>2, TransmitKeeps DEF Kept
<1>8. NewInv(q)'
  BY <1>1, <1>2, <1>4, <1>5 DEF NewInv, Fresh
<1>9. CASE /\ Transmit(q) /\ retransmitRequests' = retransmitRequests \ {q} /\ Release("loop", {})
  <2>1. NoticesKept(q)
    BY <1>2, <1>9 DEF NoticesKept, Release
  <2>2. /\ OnceInv(q)' /\ (Told(q, "error")' <=> Told(q, "error"))
        /\ Told(q, "offline")' <=> Told(q, "offline")
        /\ (q \in TimedOut \cup Succeeded)' => q \in TimedOut \cup Succeeded
    BY <1>1, <2>1, NoticesKeptInv
  <2>3. /\ AwaitedInv(q)' /\ q \in requestsByLastTransmission'
        /\ \A ref \in Refs : <<ref, q>> \in requestsByFirstTransmission
                                => <<ref, q>> \in requestsByFirstTransmission'
    BY <1>1, <1>9, TransmitSelf
  <2>4. WatchedInv(q)' /\ AnsweredInv(q)'
    BY <1>1, <1>2, <1>5, <1>9, <2>2, <2>3 DEF WatchedInv, AnsweredInv
  <2>5. FlightInv(q)'
    BY <1>1, <1>2, <1>4, <1>5, <1>9, <2>2 DEF FlightInv
  <2>. QED BY <1>1, <1>2, <1>7, <1>8, <2>2, <2>3, <2>4, <2>5, StepInv DEF RequestInv
<1>10. CASE TransmitFailed(q) /\ Release("sleep", {}) /\ UNCHANGED retransmitRequests
  <2>1. NoticesKept(q)
    BY <1>2, <1>10 DEF NoticesKept, Release
  <2>2. /\ OnceInv(q)' /\ (Told(q, "error")' <=> Told(q, "error"))
        /\ Told(q, "offline")' <=> Told(q, "offline")
        /\ (q \in TimedOut \cup Succeeded)' => q \in TimedOut \cup Succeeded
    BY <1>1, <2>1, NoticesKeptInv
  <2>3. UNCHANGED <<nextRef, requestsByFirstTransmission, requestsByLastTransmission, refToRequest>>
    BY <1>10 DEF TransmitFailed
  <2>4. WatchedInv(q)' /\ AnsweredInv(q)' /\ AwaitedInv(q)'
    BY <1>1, <1>2, <1>5, <1>10, <2>2, <2>3 DEF WatchedInv, AnsweredInv, AwaitedInv
  <2>5. FlightInv(q)'
    BY <1>1, <1>2, <1>4, <1>5, <1>10, <2>2, <2>3 DEF FlightInv
  <2>. QED BY <1>1, <1>2, <1>7, <1>8, <2>2, <2>4, <2>5, StepInv DEF RequestInv
<1>11. CASE /\ TransmitFailed(q) /\ retransmitRequests' = retransmitRequests \ {q}
            /\ Release("loop", ({q} \cap callback) \X {"error"})
  <2>1. /\ UNCHANGED <<nextRef, requestsByFirstTransmission, requestsByLastTransmission, refToRequest>>
        /\ q \notin retransmitRequests' /\ q \notin requestsByLastTransmission'
        /\ lastRef'[q] = nextRef
    BY <1>5, <1>11 DEF TransmitFailed, TypeOK
  <2>2. /\ ~ Told(q, "error") /\ (q \in callback \/ Told(q, "offline"))
        /\ q \notin timeoutCallbacks /\ receiveCallback # q
    BY <1>1, <1>2, <1>5 DEF FlightInv, TimedOut, Succeeded
  <2>3. FlightInv(q)' /\ AnsweredInv(q)'
    BY <2>1 DEF FlightInv, AnsweredInv
  <2>4. CASE q \in callback
    <3>1. \A x \in Results : <<q, x>> \in sendCallbacks' <=> x = "error"
      BY <1>11, <2>2, <2>4 DEF Release, Results
    <3>2. Told(q, "error")'
      BY <3>1 DEF Told, Results
    <3>3. results'[q] = <<>> /\ Len(results'[q]) = 0
      BY <1>1, <1>4, <2>2, <2>4 DEF OnceInv, Pending
    <3>4. WatchedInv(q)' /\ AwaitedInv(q)'
      BY <1>1, <1>2, <2>1, <3>2 DEF WatchedInv, AwaitedInv
    <3>5. OnceInv(q)'
      BY <1>2, <1>4, <2>2, <2>4, <3>1, <3>2, <3>3 DEF OnceInv, Pending, Announced
    <3>. QED BY <1>1, <1>2, <1>7, <1>8, <2>3, <3>4, <3>5, StepInv DEF RequestInv
  <2>5. CASE q \notin callback
    <3>1. NoticesKept(q)
      BY <1>2, <1>4, <1>11, <2>5 DEF NoticesKept, Release
    <3>2. OnceInv(q)' /\ Told(q, "offline")'
      BY <1>1, <2>2, <2>5, <3>1, NoticesKeptInv
    <3>3. <<nextRef, q>> \notin refToRequest'
      <4>1. SUFFICES ASSUME <<nextRef, q>> \in refToRequest PROVE FALSE
        BY <2>1
      <4>2. nextRef \in Refs
        BY <4>1 DEF TypeOK
      <4>3. nextRef < nextRef
        BY <1>1, <4>1, <4>2 DEF AwaitedInv
      <4>. QED BY <4>2, <4>3, RequestsAssumption DEF Refs
    <3>4. WatchedInv(q)' /\ AwaitedInv(q)'
      BY <1>1, <1>2, <2>1, <2>5, <3>2, <3>3 DEF WatchedInv, AwaitedInv, SilentlyFailed
    <3>. QED BY <1>1, <1>2, <1>7, <1>8, <2>3, <3>2, <3>4, StepInv DEF RequestInv
  <2>. QED BY <2>4, <2>5
<1>. QED BY <1>9, <1>10, <1>11 DEF Retransmit

LEMMA HeadInv ==
  ASSUME TypeOK, ClientInv, newRequests # <<>>, NEW q, q = Head(newRequests)
  PROVE  /\ q \in Requests /\ Untouched(q) /\ q \in callback /\ q \in queued
         /\ Elems(Tail(newRequests)) = Elems(newRequests) \ {q} /\ Distinct(Tail(newRequests))
         /\ q \notin TimedOut \cup Succeeded /\ ~ Told(q, "error")
<1>1. q \in Requests /\ newRequests \in Seq(Requests)
  BY HeadAndTail DEF TypeOK
<1>2. NewInv(q) /\ Distinct(newRequests)
  BY <1>1 DEF ClientInv, RequestInv
<1>3. q \in Elems(newRequests) /\ Elems(Tail(newRequests)) = Elems(newRequests) \ {q}
        /\ Distinct(Tail(newRequests))
  BY <1>1, <1>2, TailElems
<1>4. Untouched(q) /\ q \in callback /\ q \in queued
  BY <1>2, <1>3 DEF NewInv, Fresh
<1>5. \A x \in Results : ~ Told(q, x)
  BY <1>4 DEF Told, Untouched, Unannounced
<1>6. q \notin TimedOut \cup Succeeded /\ ~ Told(q, "error")
  BY <1>4, <1>5 DEF TimedOut, Succeeded, Results, Untouched
<1>. QED BY <1>1, <1>3, <1>4, <1>6

\* A new request that is reported as failed has its callback called once.
LEMMA ReportInv ==
  ASSUME TypeOK, NEW q \in Requests, Untouched(q), NEW x \in {"offline", "error"}, q \notin callback',
         NEW position, Release(position, Report(q, x)), sendCallbacks = {}
  PROVE  /\ OnceInv(q)' /\ q \notin (TimedOut \cup Succeeded)'
         /\ \A r \in Requests \ {q} : (r \in callback' <=> r \in callback) => NoticesKept(r)
         /\ \A y : Told(q, y)' <=> y = x
<1>1. /\ UNCHANGED <<queued, receiveCallback, results>> /\ timeoutCallbacks' = {}
      /\ sendCallbacks' = {<<q, x>>} \cup {<<r, "timeout">> : r \in timeoutCallbacks}
  BY DEF Release, Report
<1>2. /\ results'[q] = <<>> /\ receiveCallback' # q /\ q \notin timeoutCallbacks
      /\ q \notin timeoutCallbacks'
  BY <1>1 DEF Untouched, Unannounced
<1>3. \A y : <<q, y>> \in sendCallbacks' <=> y = x
  BY <1>1, <1>2
<1>4. \A y : Told(q, y)' <=> y = x
  BY <1>2, <1>3 DEF Told
<1>5. OnceInv(q)'
  <2>1. ~ Pending(q)' /\ Announced(q)' /\ Len(results'[q]) = 0
    BY <1>2, <1>3 DEF Pending, Announced, Results
  <2>. QED BY <1>2, <1>3, <2>1 DEF OnceInv, Pending
<1>6. q \notin (TimedOut \cup Succeeded)'
  BY <1>2, <1>4 DEF TimedOut, Succeeded
<1>7. ASSUME NEW r \in Requests \ {q}, r \in callback' <=> r \in callback PROVE NoticesKept(r)
  BY <1>1, <1>7 DEF NoticesKept
<1>. QED BY <1>4, <1>5, <1>6, <1>7

LEMMA SendNewInv ==
  ASSUME TypeOK, TypeOK', ClientInv, NEW q \in Requests, SendNew(q)
  PROVE  ClientInv'
<1>1. /\ newRequests # <<>> /\ q = Head(newRequests) /\ newRequests' = Tail(newRequests)
      /\ Transmit(q) /\ retransmitRequests' = retransmitRequests /\ sendCallbacks = {}
  BY DEF SendNew, SendsNew, Checked, Iterating
<1>2. /\ Untouched(q) /\ q \in callback /\ q \in queued
      /\ Elems(newRequests)' = Elems(newRequests) \ {q} /\ Distinct(newRequests)'
      /\ q \notin TimedOut \cup Succeeded /\ ~ Told(q, "error")
  BY <1>1, HeadInv
<1>3. NewInv(q) /\ AwaitedInv(q) /\ OnceInv(q)
  BY DEF ClientInv, RequestInv
<1>4. /\ AwaitedInv(q)' /\ q \in requestsByLastTransmission'
      /\ \E ref \in Refs : <<ref, q>> \in requestsByFirstTransmission'
  BY <1>1, <1>2, <1>3, TransmitSelf DEF Untouched
<1>5. UNCHANGED <<queued, successOrTimeout>> /\ q \notin retransmitRequests'
  BY <1>1, <1>2 DEF SendNew, Release, Untouched
<1>6. NewInv(q)' /\ WatchedInv(q)'
  BY <1>2, <1>4, <1>5 DEF NewInv, WatchedInv, Fresh, Untouched
<1>7. callback' = callback \ {q} \/ callback' = callback
  BY DEF SendNew
<1>8. /\ OnceInv(q)' /\ q \notin (TimedOut \cup Succeeded)'
      /\ ~ Told(q, "error")' /\ (q \in callback' \/ Told(q, "offline")')
      /\ \A r \in Requests \ {q} : NoticesKept(r)
  <2>1. CASE Release("loop", Report(q, "offline")) /\ callback' = callback \ {q}
    BY <1>1, <1>2, <2>1, ReportInv
  <2>2. CASE Release("loop", {}) /\ UNCHANGED callback
    <3>1. \A r \in Requests : NoticesKept(r)
      BY <1>1, <2>2 DEF NoticesKept, Release
    <3>2. /\ OnceInv(q)' /\ q \notin (TimedOut \cup Succeeded)'
          /\ ~ Told(q, "error")'
      BY <1>2, <1>3, <3>1, NoticesKeptInv
    <3>. QED BY <1>2, <2>2, <3>1, <3>2
  <2>. QED BY <2>1, <2>2 DEF SendNew
<1>9. \A r \in Requests \ {q} : Kept(r)
  BY <1>1, <1>2, <1>5, <1>7, <1>8, TransmitKeeps DEF Kept
<1>10. AnsweredInv(q)' /\ FlightInv(q)'
  BY <1>8 DEF AnsweredInv, FlightInv
<1>. QED BY <1>2, <1>4, <1>6, <1>8, <1>9, <1>10, StepInv DEF RequestInv

\* A new request is reported as failed without having been sent.
LEMMA ReportNewInv ==
  ASSUME TypeOK, TypeOK', ClientInv, newRequests # <<>>, NEW q \in Requests, q = Head(newRequests),
         sendCallbacks = {}, NEW x \in {"offline", "error"}, Release("loop", Report(q, x)),
         newRequests' = Tail(newRequests), callback' = callback \ {q},
         \A r \in Requests \ {q} : lastRef'[r] = lastRef[r],
         UNCHANGED <<nextRef, requestsByFirstTransmission, requestsByLastTransmission, refToRequest,
                     retransmitRequests>>
  PROVE  ClientInv'
<1>1. /\ Untouched(q) /\ q \in callback /\ q \in queued
      /\ Elems(newRequests)' = Elems(newRequests) \ {q} /\ Distinct(newRequests)'
  BY HeadInv
<1>2. UNCHANGED <<queued, successOrTimeout>>
  BY DEF Release
<1>3. /\ OnceInv(q)' /\ q \notin (TimedOut \cup Succeeded)'
      /\ \A r \in Requests \ {q} : NoticesKept(r)
  BY <1>1, ReportInv
<1>4. NewInv(q)' /\ WatchedInv(q)'
  BY <1>1, <1>2 DEF NewInv, WatchedInv, Fresh, Untouched
<1>5. AwaitedInv(q)' /\ AnsweredInv(q)' /\ FlightInv(q)'
  BY <1>1, <1>3 DEF AwaitedInv, AnsweredInv, FlightInv, Untouched
<1>6. \A r \in Requests \ {q} : Kept(r)
  <2>1. nextRef <= nextRef'
    BY RequestsAssumption DEF TypeOK
  <2>. QED BY <1>1, <1>2, <1>3, <2>1 DEF Kept
<1>. QED BY <1>1, <1>3, <1>4, <1>5, <1>6, StepInv DEF RequestInv

LEMMA SendNewAgainInv ==
  ASSUME TypeOK, TypeOK', ClientInv, NEW q \in Requests, SendNewAgain(q)
  PROVE  ClientInv'
<1>1. /\ newRequests # <<>> /\ q = Head(newRequests)
      /\ TransmitFailed(q) /\ retransmitRequests' = retransmitRequests /\ sendCallbacks = {}
  BY DEF SendNewAgain, SendsNew, Checked, Iterating
<1>2. /\ \A r \in Requests \ {q} : lastRef'[r] = lastRef[r]
      /\ UNCHANGED <<nextRef, requestsByFirstTransmission, requestsByLastTransmission, refToRequest>>
  BY <1>1 DEF TransmitFailed, TypeOK
<1>3. CASE /\ Release("loop", Report(q, "offline")) /\ callback' = callback \ {q}
           /\ newRequests' = Tail(newRequests)
  BY <1>1, <1>2, <1>3, ReportNewInv
<1>4. CASE Release("sleep", {}) /\ UNCHANGED <<callback, newRequests>>
  <2>1. /\ NewInv(q) /\ WatchedInv(q) /\ AwaitedInv(q) /\ OnceInv(q) /\ Distinct(newRequests)
      /\ FlightInv(q) /\ AnsweredInv(q)
    BY DEF ClientInv, RequestInv
  <2>2. \A r \in Requests : NoticesKept(r)
    BY <1>1, <1>4 DEF NoticesKept, Release
  <2>3. UNCHANGED <<queued, successOrTimeout>> /\ nextRef <= nextRef'
    BY <1>2, <1>4, RequestsAssumption DEF Release, TypeOK
  <2>4. \A r \in Requests \ {q} : Kept(r)
    BY <1>1, <1>2, <1>4, <2>2, <2>3 DEF Kept
  <2>5. Untouched(q) /\ q \notin TimedOut \cup Succeeded /\ q \in Elems(newRequests) /\ q \in callback
    <3>1. newRequests \in Seq(Requests)
      BY DEF TypeOK
    <3>. QED BY <1>1, <2>1, <3>1, HeadInv, TailElems
  <2>6. Untouched(q)'
    <3>1. Unannounced(q)' /\ q \notin timeoutCallbacks'
      BY <2>1, <2>2, <2>5, NoticesKeptInv DEF Untouched
    <3>. QED BY <1>1, <1>2, <1>4, <2>3, <2>5, <3>1 DEF Untouched, Release
  <2>7. OnceInv(q)' /\ q \notin (TimedOut \cup Succeeded)'
    BY <2>1, <2>2, <2>5, NoticesKeptInv
  <2>8. NewInv(q)' /\ WatchedInv(q)' /\ AwaitedInv(q)' /\ AnsweredInv(q)' /\ FlightInv(q)'
    BY <1>4, <2>1, <2>3, <2>5, <2>6, <2>7 DEF NewInv, WatchedInv, AwaitedInv, AnsweredInv, FlightInv, Untouched
  <2>. QED BY <1>4, <2>1, <2>4, <2>7, <2>8, StepInv DEF RequestInv
<1>. QED BY <1>3, <1>4 DEF SendNewAgain

LEMMA SendNewErrorInv ==
  ASSUME TypeOK, TypeOK', ClientInv, NEW q \in Requests, SendNewError(q)
  PROVE  ClientInv'
<1>1. /\ newRequests # <<>> /\ q = Head(newRequests) /\ sendCallbacks = {}
      /\ TransmitFailed(q) /\ retransmitRequests' = retransmitRequests
      /\ Release("loop", Report(q, "error")) /\ callback' = callback \ {q}
      /\ newRequests' = Tail(newRequests)
  BY DEF SendNewError, SendsNew, Checked, Iterating
<1>2. /\ \A r \in Requests \ {q} : lastRef'[r] = lastRef[r]
      /\ UNCHANGED <<nextRef, requestsByFirstTransmission, requestsByLastTransmission, refToRequest>>
  BY <1>1 DEF TransmitFailed, TypeOK
<1>. QED BY <1>1, <1>2, ReportNewInv

LEMMA FailNewInv ==
  ASSUME TypeOK, TypeOK', ClientInv, NEW q \in Requests, FailNew(q)
  PROVE  ClientInv'
BY ReportNewInv DEF FailNew, Checked, Iterating

LEMMA IdleInv ==
  ASSUME TypeOK, TypeOK', ClientInv, Idle \/ WakeUp \/ UNCHANGED vars
  PROVE  ClientInv'
<1>1. /\ UNCHANGED <<requestVars, callback, queued, successOrTimeout, receiveCallback, results>>
      /\ \/ UNCHANGED <<timeoutCallbacks, sendCallbacks>>
         \/ /\ sendCallbacks = {} /\ timeoutCallbacks' = {}
            /\ sendCallbacks' = {<<r, "timeout">> : r \in timeoutCallbacks}
  BY DEF Idle, WakeUp, vars, Release, Checked, Iterating, flagVars, threadVars
<1>2. nextRef <= nextRef'
  BY <1>1, RequestsAssumption DEF TypeOK, requestVars
<1>3. \A r \in Requests : NoticesKept(r)
  BY <1>1 DEF NoticesKept
<1>4. \A r \in Requests : Kept(r)
  BY <1>1, <1>2, <1>3 DEF Kept, requestVars
<1>5. Distinct(newRequests)'
  BY <1>1 DEF ClientInv, requestVars
<1>. QED BY <1>4, <1>5, KeptInv DEF ClientInv

LEMMA CallBackInv ==
  ASSUME TypeOK, TypeOK', ClientInv, NEW q \in Requests, NEW x \in Results, CallBack(q, x)
  PROVE  ClientInv'
<1>1. /\ NewInv(q) /\ WatchedInv(q) /\ AwaitedInv(q) /\ OnceInv(q) /\ Distinct(newRequests)
      /\ FlightInv(q) /\ AnsweredInv(q)
  BY DEF ClientInv, RequestInv
<1>2. /\ <<q, x>> \in sendCallbacks /\ sendCallbacks' = sendCallbacks \ {<<q, x>>}
      /\ results'[q] = Append(results[q], x)
      /\ \A r \in Requests \ {q} : results'[r] = results[r]
  BY DEF CallBack, TypeOK
<1>3. UNCHANGED <<queued, requestVars, callback, successOrTimeout, timeoutCallbacks, receiveCallback>>
  BY DEF CallBack, flagVars
<1>4. \A r \in Requests \ {q} : NoticesKept(r)
  BY <1>2, <1>3 DEF NoticesKept
<1>5. \A r \in Requests \ {q} : Kept(r)
  <2>1. nextRef <= nextRef'
    BY <1>3, RequestsAssumption DEF TypeOK, requestVars
  <2>. QED BY <1>3, <1>4, <2>1 DEF Kept, requestVars
<1>6. ~ Fresh(q)
  BY <1>1, <1>2 DEF NewInv, Untouched, Unannounced
<1>7. ASSUME NEW y PROVE Told(q, y)' <=> Told(q, y)
  <2>1. /\ results[q] \in Seq(Results) /\ Len(results[q]) \in Nat
        /\ Len(results'[q]) = Len(results[q]) + 1 /\ results'[q][Len(results[q]) + 1] = x
        /\ \A i \in 1 .. Len(results[q]) : results'[q][i] = results[q][i]
    <3>1. results[q] \in Seq(Results)
      BY DEF TypeOK
    <3>. QED BY <1>2, <3>1, AppendProperties, LenProperties
  <2>2. ASSUME Told(q, y)' PROVE Told(q, y)
    <3>1. CASE <<q, y>> \in sendCallbacks'
      BY <1>2, <3>1 DEF Told
    <3>2. CASE \E i \in 1 .. Len(results'[q]) : results'[q][i] = y
      <4>1. PICK i \in 1 .. Len(results'[q]) : results'[q][i] = y
        BY <3>2
      <4>2. i \in 1 .. Len(results[q]) \/ i = Len(results[q]) + 1
        BY <2>1
      <4>. QED BY <1>2, <2>1, <4>1, <4>2 DEF Told
    <3>. QED BY <2>2, <3>1, <3>2 DEF Told
  <2>3. ASSUME Told(q, y) PROVE Told(q, y)'
    <3>1. CASE <<q, y>> \in sendCallbacks /\ y # x
      BY <1>2, <3>1 DEF Told
    <3>2. CASE y = x
      <4>1. Len(results[q]) + 1 \in 1 .. Len(results'[q])
        BY <2>1
      <4>. QED BY <2>1, <3>2, <4>1 DEF Told
    <3>3. CASE \E i \in 1 .. Len(results[q]) : results[q][i] = y
      <4>1. PICK i \in 1 .. Len(results[q]) : results[q][i] = y
        BY <3>3
      <4>2. i \in 1 .. Len(results'[q])
        BY <2>1
      <4>. QED BY <2>1, <4>1, <4>2 DEF Told
    <3>. QED BY <2>3, <3>1, <3>2, <3>3 DEF Told
  <2>. QED BY <2>2, <2>3
<1>8. (q \in TimedOut \cup Succeeded)' => q \in TimedOut \cup Succeeded
  BY <1>3, <1>7 DEF TimedOut, Succeeded
<1>9. NewInv(q)' /\ WatchedInv(q)' /\ AnsweredInv(q)' /\ FlightInv(q)'
  BY <1>1, <1>3, <1>6, <1>7, <1>8 DEF NewInv, WatchedInv, AnsweredInv, FlightInv, Fresh, requestVars
<1>10. AwaitedInv(q)'
  BY <1>1, <1>3, <1>7 DEF AwaitedInv, SilentlyFailed, requestVars
<1>11. OnceInv(q)'
  <2>1. /\ results[q] \in Seq(Results) /\ Len(results[q]) \in Nat
        /\ Len(results'[q]) = Len(results[q]) + 1
        /\ results[q] = <<>> <=> Len(results[q]) = 0
    <3>1. results[q] \in Seq(Results)
      BY DEF TypeOK
    <3>. QED BY <1>2, <3>1, AppendProperties, EmptySeq
  <2>2. Announced(q) /\ ~ Announced(q)' /\ (Pending(q)' <=> Pending(q)) /\ Told(q, x)
    BY <1>1, <1>2, <1>3 DEF OnceInv, Announced, Pending, Told
  <2>3. Len(results[q]) <= 1 /\ (Pending(q) => x = "error" /\ Len(results[q]) = 0)
    BY <1>1, <1>2, <2>1, <2>2 DEF OnceInv
  <2>4. Len(results[q]) = 1 => Told(q, "error")
    BY <1>1, <2>1, <2>2 DEF OnceInv
  <2>5. results'[q] # <<>>
    BY <2>1
  <2>6. /\ Pending(q)' \/ Announced(q)' => Len(results'[q]) <= 1
        /\ Len(results'[q]) <= 2
        /\ results'[q] # <<>> /\ (Pending(q)' \/ Announced(q)') => Told(q, "error")'
        /\ Len(results'[q]) = 2 => Told(q, "error")'
    <3>1. Len(results[q]) = 0 \/ Len(results[q]) = 1
      BY Zenon, <2>1, <2>3, SmallNumbers
    <3>2. /\ Told(q, "error")' <=> Told(q, "error")
          /\ Pending(q) => Told(q, "error")
      BY <1>7, <2>2, <2>3
    <3>. QED BY <2>1, <2>2, <2>3, <2>4, <3>1, <3>2
  <2>7. /\ q \in callback => q \notin timeoutCallbacks /\ receiveCallback # q
        /\ q \in timeoutCallbacks => receiveCallback # q
    BY <1>1 DEF OnceInv
  <2>. QED BY <1>3, <2>2, <2>5, <2>6, <2>7 DEF OnceInv, Announced
<1>. QED BY <1>1, <1>3, <1>5, <1>9, <1>10, <1>11, StepInv DEF RequestInv, requestVars

LEMMA DeliverReplyInv ==
  ASSUME TypeOK, TypeOK', ClientInv, NEW q \in Requests, DeliverReply(q)
  PROVE  ClientInv'
<1>1. /\ NewInv(q) /\ WatchedInv(q) /\ AwaitedInv(q) /\ OnceInv(q) /\ Distinct(newRequests)
      /\ FlightInv(q) /\ AnsweredInv(q)
  BY DEF ClientInv, RequestInv
<1>2. /\ receiveCallback = q /\ receiveCallback' = NoRequest /\ NoRequest \notin Requests
      /\ results'[q] = Append(results[q], "reply")
      /\ \A r \in Requests \ {q} : results'[r] = results[r]
  BY RequestsAssumption DEF DeliverReply, TypeOK
<1>3. UNCHANGED <<queued, requestVars, callback, successOrTimeout, timeoutCallbacks, sendCallbacks>>
  BY DEF DeliverReply, flagVars
<1>4. \A r \in Requests \ {q} : NoticesKept(r)
  BY <1>2, <1>3 DEF NoticesKept
<1>5. \A r \in Requests \ {q} : Kept(r)
  <2>1. nextRef <= nextRef'
    BY <1>3, RequestsAssumption DEF TypeOK, requestVars
  <2>. QED BY <1>3, <1>4, <2>1 DEF Kept, requestVars
<1>6. ~ Fresh(q)
  BY <1>1, <1>2 DEF NewInv, Untouched
<1>7. /\ results[q] \in Seq(Results) /\ Len(results[q]) \in Nat
      /\ Len(results'[q]) = Len(results[q]) + 1 /\ results'[q][Len(results[q]) + 1] = "reply"
      /\ \A i \in 1 .. Len(results[q]) : results'[q][i] = results[q][i]
  <2>1. results[q] \in Seq(Results) /\ "reply" \in Results
    BY DEF TypeOK, Results
  <2>. QED BY <1>2, <2>1, AppendProperties, LenProperties
<1>8. ASSUME NEW y, y # "reply" PROVE Told(q, y)' <=> Told(q, y)
  <2>1. ASSUME Told(q, y)' PROVE Told(q, y)
    <3>1. CASE \E i \in 1 .. Len(results'[q]) : results'[q][i] = y
      <4>1. PICK i \in 1 .. Len(results'[q]) : results'[q][i] = y
        BY <3>1
      <4>2. i \in 1 .. Len(results[q])
        BY <1>7, <1>8, <4>1
      <4>. QED BY <1>7, <4>1, <4>2 DEF Told
    <3>. QED BY <1>3, <2>1, <3>1 DEF Told
  <2>2. ASSUME Told(q, y) PROVE Told(q, y)'
    <3>1. CASE \E i \in 1 .. Len(results[q]) : results[q][i] = y
      <4>1. PICK i \in 1 .. Len(results[q]) : results[q][i] = y
        BY <3>1
      <4>2. i \in 1 .. Len(results'[q])
        BY <1>7
      <4>. QED BY <1>7, <4>1, <4>2 DEF Told
    <3>. QED BY <1>3, <2>2, <3>1 DEF Told
  <2>. QED BY <2>1, <2>2
<1>9. q \in Succeeded
  BY <1>2 DEF Succeeded
<1>10. NewInv(q)' /\ WatchedInv(q)' /\ AnsweredInv(q)' /\ FlightInv(q)'
  BY <1>1, <1>3, <1>6, <1>8, <1>9 DEF NewInv, WatchedInv, AnsweredInv, FlightInv, Fresh, requestVars
<1>11. AwaitedInv(q)'
  BY <1>1, <1>3, <1>8 DEF AwaitedInv, SilentlyFailed, requestVars
<1>12. OnceInv(q)'
  <2>1. /\ Pending(q) /\ ~ Pending(q)' /\ (Announced(q)' <=> Announced(q))
        /\ results'[q] # <<>>
    BY <1>1, <1>2, <1>3, <1>7 DEF Pending, Announced, OnceInv
  <2>2. Len(results[q]) <= 1 /\ (Announced(q) => Len(results[q]) = 0 /\ Told(q, "error"))
    <3>1. Len(results[q]) <= 1
      BY <1>1, <2>1 DEF OnceInv
    <3>2. ASSUME Announced(q) PROVE results[q] = <<>> /\ Told(q, "error")
      BY <1>1, <2>1, <3>2 DEF OnceInv, Announced, Told
    <3>. QED BY <3>1, <3>2
  <2>3. Len(results[q]) = 1 => Told(q, "error")
    BY <1>1, <2>1 DEF OnceInv
  <2>4. /\ Announced(q)' => Len(results'[q]) <= 1 /\ Told(q, "error")'
        /\ Len(results'[q]) <= 2 /\ (Len(results'[q]) = 2 => Told(q, "error")')
    <3>1. Len(results[q]) = 0 \/ Len(results[q]) = 1
      BY Zenon, <1>7, <2>2, SmallNumbers
    <3>2. Told(q, "error")' <=> Told(q, "error")
      BY <1>8
    <3>. QED BY <1>7, <2>1, <2>2, <2>3, <3>1, <3>2
  <2>. QED BY <1>1, <1>3, <2>1, <2>4 DEF OnceInv, Pending
<1>. QED BY <1>1, <1>3, <1>5, <1>10, <1>11, <1>12, StepInv DEF RequestInv, requestVars

LEMMA CompleteInv ==
  ASSUME TypeOK, NEW q \in Requests, NewInv(q), OnceInv(q), Complete(q), receiveCallback = NoRequest,
         UNCHANGED <<queued, timeoutCallbacks, sendCallbacks, results>>
  PROVE  /\ OnceInv(q)' /\ (\A x : Told(q, x)' <=> Told(q, x))
         /\ q \notin callback' /\ q \in successOrTimeout'
         /\ \A r \in Requests \ {q} :
              /\ NoticesKept(r)
              /\ r \in successOrTimeout' <=> r \in successOrTimeout
<1>1. /\ receiveCallback' = (IF q \in callback THEN q ELSE NoRequest)
      /\ callback' = callback \ {q} /\ successOrTimeout' = successOrTimeout \cup {q}
      /\ NoRequest \notin Requests
  BY RequestsAssumption DEF Complete
<1>2. \A r \in Requests \ {q} : NoticesKept(r)
  BY <1>1 DEF NoticesKept
<1>3. \A x : Told(q, x)' <=> Told(q, x)
  BY DEF Told
<1>4. OnceInv(q)'
  <2>1. (Pending(q)' <=> Pending(q)) /\ (Announced(q)' <=> Announced(q))
    BY <1>1 DEF Pending, Announced
  <2>2. q \in timeoutCallbacks => receiveCallback' # q
    BY <1>1 DEF OnceInv
  <2>. QED BY <1>1, <1>3, <2>1, <2>2 DEF OnceInv
<1>. QED BY <1>1, <1>2, <1>3, <1>4

LEMMA ReceiveLastInv ==
  ASSUME TypeOK, TypeOK', ClientInv, NEW q \in Requests, ReceiveLast(q)
  PROVE  ClientInv'
<1>1. NewInv(q) /\ OnceInv(q) /\ Distinct(newRequests)
  BY DEF ClientInv, RequestInv
<1>2. /\ <<lastRef[q], q>> \in refToRequest /\ receiveCallback = NoRequest
      /\ Complete(q) /\ RemoveRequest(q)
      /\ UNCHANGED <<queued, newRequests, nextRef, lastRef, timeoutCallbacks, sendCallbacks, results>>
  BY DEF ReceiveLast, Answered
<1>3. ~ Fresh(q)
  BY <1>1, <1>2 DEF NewInv, Untouched, TypeOK
<1>4. /\ OnceInv(q)' /\ q \notin callback' /\ q \in successOrTimeout'
      /\ \A r \in Requests \ {q} :
           /\ NoticesKept(r)
           /\ r \in successOrTimeout' <=> r \in successOrTimeout
  BY <1>1, <1>2, CompleteInv
<1>5. \A r \in Requests \ {q} : Kept(r)
  <2>1. nextRef <= nextRef'
    BY <1>2, RequestsAssumption DEF TypeOK
  <2>. QED BY <1>2, <1>4, <2>1, RemoveRequestKeeps DEF Kept
<1>6. NewInv(q)'
  BY <1>2, <1>3, <1>4 DEF NewInv, Fresh
<1>7. WatchedInv(q)' /\ AwaitedInv(q)' /\ AnsweredInv(q)' /\ FlightInv(q)'
  <2>1. /\ q \notin requestsByLastTransmission' /\ q \notin retransmitRequests'
        /\ \A ref \in Refs : <<ref, q>> \notin refToRequest'
    BY <1>2, RemoveRequestKeeps
  <2>. QED BY <1>4, <2>1 DEF WatchedInv, AwaitedInv, AnsweredInv, FlightInv
<1>. QED BY <1>1, <1>2, <1>4, <1>5, <1>6, <1>7, StepInv DEF RequestInv

LEMMA ReceiveEarlierInv ==
  ASSUME TypeOK, TypeOK', ClientInv, NEW q \in Requests, ReceiveEarlier(q)
  PROVE  ClientInv'
<1>1. /\ NewInv(q) /\ WatchedInv(q) /\ AwaitedInv(q) /\ OnceInv(q) /\ Distinct(newRequests)
      /\ FlightInv(q) /\ AnsweredInv(q)
  BY DEF ClientInv, RequestInv
<1>2. PICK ref \in Refs :
        /\ ref # lastRef[q] /\ <<ref, q>> \in refToRequest /\ receiveCallback = NoRequest
        /\ Complete(q) \/ UNCHANGED <<flagVars, receiveCallback>>
        /\ refToRequest' = refToRequest \ {<<ref, q>>}
        /\ UNCHANGED <<queued, newRequests, nextRef, lastRef, timeoutCallbacks, sendCallbacks, results>>
        /\ UNCHANGED <<requestsByFirstTransmission, requestsByLastTransmission, retransmitRequests>>
  BY DEF ReceiveEarlier, Answered
<1>3. ~ Fresh(q)
  BY <1>1, <1>2 DEF NewInv, Untouched
<1>4. /\ OnceInv(q)'
      /\ \/ q \notin callback' /\ q \in successOrTimeout'
         \/ UNCHANGED <<callback, successOrTimeout, receiveCallback>>
      /\ \A r \in Requests \ {q} :
           /\ NoticesKept(r)
           /\ r \in successOrTimeout' <=> r \in successOrTimeout
  <2>1. CASE Complete(q)
    BY <1>1, <1>2, <2>1, CompleteInv
  <2>2. CASE UNCHANGED <<flagVars, receiveCallback>>
    <3>1. \A r \in Requests : NoticesKept(r)
      BY <1>2, <2>2 DEF NoticesKept, flagVars
    <3>. QED BY <1>1, <2>2, <3>1, NoticesKeptInv DEF flagVars
  <2>. QED BY <1>2, <2>1, <2>2
<1>5. \A r \in Requests \ {q} : Kept(r)
  <2>1. nextRef <= nextRef'
    BY <1>2, RequestsAssumption DEF TypeOK
  <2>. QED BY <1>2, <1>4, <2>1 DEF Kept
<1>6. NewInv(q)' /\ WatchedInv(q)'
  <2>1. Told(q, "error")' <=> Told(q, "error")
    BY <1>2 DEF Told
  <2>. QED BY <1>1, <1>2, <1>3, <1>4, <2>1 DEF NewInv, WatchedInv, Fresh
<1>7. \A x : Told(q, x)' <=> Told(q, x)
  BY <1>2 DEF Told
<1>8. AwaitedInv(q)'
  BY <1>1, <1>2, <1>7 DEF AwaitedInv, SilentlyFailed
<1>9. FlightInv(q)'
  BY <1>1, <1>2, <1>4, <1>7 DEF FlightInv
<1>10. AnsweredInv(q)'
  <2>1. CASE q \in successOrTimeout'
    BY <2>1 DEF AnsweredInv
  <2>2. CASE UNCHANGED <<callback, successOrTimeout, receiveCallback>>
    BY <1>1, <1>2, <2>2 DEF AnsweredInv, TimedOut, Succeeded, Told
  <2>. QED BY <1>4, <2>1, <2>2
<1>. QED BY <1>1, <1>2, <1>4, <1>5, <1>6, <1>8, <1>9, <1>10, StepInv DEF RequestInv

LEMMA NextClientInv == TypeOK /\ TypeOK' /\ ClientInv /\ [Next]_vars => ClientInv'
<1> SUFFICES ASSUME TypeOK, TypeOK', ClientInv, [Next]_vars PROVE ClientInv'
  OBVIOUS
<1>1. ASSUME NEW q \in Requests, Check(q) \/ Send(q) PROVE ClientInv'
  BY <1>1, RemoveAnsweredInv, DetectLossInv, DropRetransmissionInv, RetransmitInv, SendNewInv,
     SendNewAgainInv, SendNewErrorInv, FailNewInv DEF Check, Send
<1>2. ASSUME RunSendThread PROVE ClientInv'
  BY <1>1, <1>2, ExpireQueuedInv, ExpireSentInv, IdleInv, CallBackInv DEF RunSendThread
<1>3. ASSUME NEW q \in Requests,
             QueueRequest(q) \/ ReceiveLast(q) \/ ReceiveEarlier(q) \/ DeliverReply(q)
      PROVE  ClientInv'
  BY <1>3, QueueRequestInv, ReceiveLastInv, ReceiveEarlierInv, DeliverReplyInv
<1>4. ASSUME UNCHANGED vars PROVE ClientInv'
  BY <1>4, IdleInv
<1>. QED BY <1>2, <1>3, <1>4 DEF Next

LEMMA InitClientInv == Init => ClientInv
<1> SUFFICES ASSUME Init PROVE ClientInv
  OBVIOUS
<1>1. Elems(newRequests) = {} /\ Distinct(newRequests)
  BY DEF Init, Elems, Distinct
<1>2. ASSUME NEW r \in Requests PROVE RequestInv(r)
  <2>1. /\ results[r] = <<>> /\ receiveCallback # r /\ Unannounced(r)
        /\ \A x \in Results : ~ Told(r, x)
    BY RequestsAssumption DEF Init, Unannounced, Told
  <2>2. NewInv(r) /\ WatchedInv(r) /\ AwaitedInv(r) /\ FlightInv(r) /\ AnsweredInv(r)
    BY <1>1, <2>1 DEF Init, NewInv, WatchedInv, AwaitedInv, AnsweredInv, FlightInv, Fresh, Untouched
  <2>3. OnceInv(r)
    BY <2>1 DEF Init, OnceInv, Pending, Announced
  <2>. QED BY <2>2, <2>3 DEF RequestInv
<1>. QED BY <1>1, <1>2 DEF ClientInv

-----------------------------------------------------------------------------
(* The theorems.                                                           *)

(***************************************************************************)
(* The client's variables keep their types; in particular, the congestion  *)
(* window never closes completely and the counters stay within their       *)
(* limits (packetLossDetected, successfulRequest).                         *)
(***************************************************************************)
THEOREM TypeCorrect == Spec => []TypeOK
<1>1. Init => TypeOK /\ Budget
  BY InitTypeOK
<1>2. (TypeOK /\ Budget) /\ [Next]_vars => (TypeOK /\ Budget)'
  BY NextTypeOK
<1>. QED BY <1>1, <1>2, PTL DEF Spec

LEMMA InvariantHolds == Spec => []ClientInv
<1>1. Init => ClientInv
  BY InitClientInv
<1>2. TypeOK /\ TypeOK' /\ ClientInv /\ [Next]_vars => ClientInv'
  BY NextClientInv
<1>. QED BY <1>1, <1>2, TypeCorrect, PTL DEF Spec

(***************************************************************************)
(* A callback is called a second time only for a request whose             *)
(* retransmission has failed: replies, timeouts, failures of the first     *)
(* transmission and offline reports never call the same callback twice.    *)
(***************************************************************************)
THEOREM CalledTwiceOnlyIfSendFailedHolds == Spec => []CalledTwiceOnlyIfSendFailed
<1>1. TypeOK /\ ClientInv => CalledTwiceOnlyIfSendFailed
  <2> SUFFICES ASSUME TypeOK, ClientInv, NEW r \in Requests, ~ Told(r, "error")
               PROVE  Len(results[r]) <= 1
    BY DEF CalledTwiceOnlyIfSendFailed, SendFailed
  <2>1. Len(results[r]) <= 2 /\ Len(results[r]) # 2
    BY DEF ClientInv, RequestInv, OnceInv
  <2>2. results[r] \in Seq(Results) /\ Len(results[r]) \in Nat
    BY LenProperties DEF TypeOK
  <2>3. Len(results[r]) = 0 \/ Len(results[r]) = 1
    BY Zenon, <2>1, <2>2, SmallNumbers
  <2>4. 0 <= 1 /\ 1 <= 1
    OBVIOUS
  <2>. QED BY Zenon, <2>3, <2>4
<1>. QED BY <1>1, TypeCorrect, InvariantHolds, PTL

(***************************************************************************)
(* A request that was sent and still has its callback is among those whose *)
(* timeout is checked and, unless a retransmission has failed, either in   *)
(* flight or waiting for retransmission (checkSentRequests, trySendRequest)*)
(***************************************************************************)
THEOREM RequestsWatchedHolds == Spec => []RequestsWatched
<1>1. TypeOK /\ ClientInv => RequestsWatched
  <2> SUFFICES ASSUME TypeOK, ClientInv PROVE RequestsWatched
    OBVIOUS
  <2>1. \A r \in Requests : WatchedInv(r)
    BY DEF ClientInv, RequestInv
  <2>2. \A r \in Waiting : r \in Requests /\ r \in callback /\ r \notin Elems(newRequests)
    BY DEF Waiting, Elems, TypeOK
  <2>3. ASSUME NEW r \in Waiting PROVE EntriesOf(requestsByFirstTransmission, r) # {}
    <3>1. PICK ref \in Refs : <<ref, r>> \in requestsByFirstTransmission
      BY <2>1, <2>2 DEF WatchedInv
    <3>. QED BY <3>1 DEF EntriesOf
  <2>4. Waiting \ SendFailed \subseteq requestsByLastTransmission \cup retransmitRequests
    BY <2>1, <2>2 DEF WatchedInv, SendFailed
  <2>5. requestsByLastTransmission \cap retransmitRequests = {}
    BY <2>1 DEF WatchedInv, TypeOK
  <2>. QED BY <2>3, <2>4, <2>5 DEF RequestsWatched
<1>. QED BY <1>1, TypeCorrect, InvariantHolds, PTL

(***************************************************************************)
(* A request in flight is still waiting for the reply to its last packet,  *)
(* and a reply is only expected for requests that are in flight, wait for  *)
(* retransmission or have failed in one, even if nobody is told because    *)
(* the request has been reported as offline (removeRequest, the reply      *)
(* handler, runSendThread).                                                *)
(***************************************************************************)
THEOREM InFlightAwaitedHolds == Spec => []InFlightAwaited
<1>1. TypeOK /\ ClientInv => InFlightAwaited
  <2> SUFFICES ASSUME TypeOK, ClientInv PROVE InFlightAwaited
    OBVIOUS
  <2>1. \A r \in Requests : AwaitedInv(r)
    BY DEF ClientInv, RequestInv
  <2>2. \A r \in requestsByLastTransmission : <<lastRef[r], r>> \in refToRequest
    BY <2>1 DEF AwaitedInv, TypeOK
  <2>3. ASSUME NEW entry \in refToRequest
        PROVE  \/ entry[2] \in requestsByLastTransmission \cup retransmitRequests \cup SendFailed
               \/ SilentlyFailed(entry[2])
    <3>1. entry \in Refs \X Requests
      BY DEF TypeOK
    <3>2. PICK ref \in Refs, r \in Requests : entry = <<ref, r>>
      BY <3>1
    <3>. QED BY <2>1, <3>2 DEF AwaitedInv, SendFailed
  <2>. QED BY <2>2, <2>3 DEF InFlightAwaited
<1>. QED BY <1>1, TypeCorrect, InvariantHolds, PTL

(***************************************************************************)
(* No packet is sent for a request whose success or timeout is or is going *)
(* to be reported: it is flagged, or is not among the requests from which  *)
(* the next packet is chosen (runSendThread, trySendRequest).              *)
(***************************************************************************)
THEOREM NotSentAfterAnswerHolds == Spec => NotSentAfterAnswer
<1>1. TypeOK /\ TypeOK' /\ ClientInv /\ [Next]_vars
        => [\A r \in TimedOut \cup Succeeded : <<nextRef, r>> \notin refToRequest']_vars
  <2> SUFFICES ASSUME TypeOK, TypeOK', ClientInv, Next, NEW r \in TimedOut \cup Succeeded
               PROVE  <<nextRef, r>> \notin refToRequest'
    OBVIOUS
  <2>1. r \in Requests
    BY DEF TimedOut, Succeeded
  <2>2. <<nextRef, r>> \notin refToRequest
    <3>1. SUFFICES ASSUME <<nextRef, r>> \in refToRequest PROVE FALSE
      OBVIOUS
    <3>2. nextRef \in Refs
      BY <3>1 DEF TypeOK
    <3>3. nextRef < nextRef
      BY <2>1, <3>1, <3>2 DEF ClientInv, RequestInv, AwaitedInv
    <3>. QED BY <3>2, <3>3, RequestsAssumption DEF Refs
  <2>3. refToRequest' \subseteq refToRequest \/ \E q \in Requests : Retransmit(q) \/ SendNew(q)
    BY DEF Next, RunSendThread, Check, Send, ExpireQueued, ExpireSent, Idle, WakeUp, CallBack, requestVars,
           RemoveAnswered, DetectLoss, DropRetransmission, SendNewAgain, SendNewError, FailNew,
           TransmitFailed, RemoveRequest, QueueRequest, ReceiveLast, ReceiveEarlier, DeliverReply
  <2>4. ASSUME NEW q \in Requests, Retransmit(q) PROVE <<nextRef, r>> \notin refToRequest'
    <3>1. q \notin TimedOut \cup Succeeded
      BY <2>4 DEF Retransmit, ClientInv, RequestInv, AnsweredInv
    <3>2. refToRequest' = refToRequest \cup {<<nextRef, q>>} \/ refToRequest' = refToRequest
      BY <2>4 DEF Retransmit, Transmit, TransmitFailed
    <3>. QED BY <2>2, <3>1, <3>2
  <2>5. ASSUME NEW q \in Requests, SendNew(q) PROVE <<nextRef, r>> \notin refToRequest'
    <3>1. q \notin TimedOut \cup Succeeded
      BY <2>5, HeadInv DEF SendNew, SendsNew
    <3>2. refToRequest' = refToRequest \cup {<<nextRef, q>>}
      BY <2>5 DEF SendNew, Transmit
    <3>. QED BY <2>2, <3>1, <3>2
  <2>. QED BY <2>2, <2>3, <2>4, <2>5
<1>. QED BY <1>1, TypeCorrect, InvariantHolds, PTL DEF Spec, NotSentAfterAnswer

-----------------------------------------------------------------------------
(* The promise about the callbacks.                                        *)

\* Nobody takes notice of the step, as far as the request is concerned.
PromiseKept(r) ==
  /\ r \in queued' <=> r \in queued
  /\ r \in Unanswered' <=> r \in Unanswered
  /\ r \in Reported' <=> r \in Reported

LEMMA PlacesKept ==
  ASSUME NEW r \in Requests,
         r \in queued' <=> r \in queued, results'[r] = results[r],
         Pending(r) => Pending(r)' \/ \E x \in Results : /\ <<r, x>> \in sendCallbacks'
                                                         /\ x = "error" => results[r] = <<>>,
         Pending(r)' => Pending(r),
         \A x \in Results : <<r, x>> \in sendCallbacks => <<r, x>> \in sendCallbacks',
         \A x \in Results : <<r, x>> \in sendCallbacks' => <<r, x>> \in sendCallbacks \/ Pending(r)
  PROVE  PromiseKept(r)
<1>1. r \in Unanswered' <=> r \in Unanswered
  BY DEF Unanswered, Pending
<1>. QED BY <1>1 DEF PromiseKept, Reported

\* The send thread releases the mutex: the callbacks it is going to call have
\* been taken from their places, or were still there.
LEMMA ReleaseKept ==
  ASSUME TypeOK, sendCallbacks = {}, NEW position, NEW failures, Release(position, failures),
         callback' \subseteq callback,
         \A q \in callback \ callback' :
           \E x \in Results : <<q, x>> \in failures /\ (x = "error" => results[q] = <<>>),
         \A failure \in failures : failure[1] \in callback,
         NEW r \in Requests
  PROVE  PromiseKept(r)
<1>1. /\ sendCallbacks' = failures \cup {<<q, "timeout">> : q \in timeoutCallbacks}
      /\ timeoutCallbacks' = {} /\ UNCHANGED <<receiveCallback, queued, results>>
  BY DEF Release
<1>2. "timeout" \in Results /\ "timeout" # "error"
  BY DEF Results
<1>3. \A x \in Results : <<r, x>> \in sendCallbacks' => Pending(r)
  BY <1>1 DEF Pending
<1>4. ASSUME Pending(r)
      PROVE  Pending(r)' \/ \E x \in Results : /\ <<r, x>> \in sendCallbacks'
                                               /\ x = "error" => results[r] = <<>>
  <2>1. CASE r \in callback \ callback'
    BY <1>1, <2>1
  <2>2. CASE r \in timeoutCallbacks
    BY <1>1, <1>2, <2>2
  <2>. QED BY <1>1, <1>4, <2>1, <2>2 DEF Pending
<1>5. Pending(r)' => Pending(r)
  BY <1>1 DEF Pending
<1>. QED BY <1>1, <1>3, <1>4, <1>5, PlacesKept

\* A new request that is reported has not been reported before.
LEMMA ReportedNewKept ==
  ASSUME TypeOK, ClientInv, NEW q \in Requests, newRequests # <<>>, q = Head(newRequests),
         sendCallbacks = {}, NEW position, NEW x \in Results, Release(position, Report(q, x)),
         callback' = callback \ {q}, NEW r \in Requests
  PROVE  PromiseKept(r)
<1>1. q \in callback /\ results[q] = <<>>
  BY HeadInv DEF Unannounced, Untouched
<1>. QED BY <1>1, ReleaseKept DEF Report

\* Only a call of a callback, or a new request, is noticed.
LEMMA QuietSteps ==
  ASSUME TypeOK, ClientInv, NEW r \in Requests,
         \/ ExpireQueued \/ ExpireSent \/ Idle \/ WakeUp \/ UNCHANGED vars
         \/ \E q \in Requests : Check(q) \/ Send(q) \/ ReceiveLast(q) \/ ReceiveEarlier(q)
  PROVE  PromiseKept(r)
<1>1. CASE ExpireQueued
  <2>1. /\ callback' = callback \ {Head(newRequests)} /\ Head(newRequests) \in callback
        /\ timeoutCallbacks' = timeoutCallbacks \cup {Head(newRequests)}
    BY <1>1, HeadInv DEF ExpireQueued
  <2>. QED BY <1>1, <2>1, PlacesKept DEF ExpireQueued, Pending
<1>2. CASE ExpireSent
  <2>1. PICK q : /\ timeoutCallbacks' = timeoutCallbacks \cup ({q} \cap callback)
                 /\ callback' = callback \ {q}
    BY <1>2 DEF ExpireSent
  <2>. QED BY <1>2, <2>1, PlacesKept DEF ExpireSent, Pending
<1>3. CASE Idle
  <2>1. sendCallbacks = {} /\ callback' = callback /\ \E position : Release(position, {})
    BY <1>3 DEF Idle, Checked, Iterating
  <2>. QED BY <2>1, ReleaseKept
<1>4. CASE WakeUp \/ UNCHANGED vars
  BY <1>4, PlacesKept DEF WakeUp, vars, flagVars, threadVars, Pending
<1>5. ASSUME NEW q \in Requests, Check(q) PROVE PromiseKept(r)
  BY <1>5, PlacesKept DEF Check, RemoveAnswered, DetectLoss, flagVars, Pending
<1>6. ASSUME NEW q \in Requests, Send(q) PROVE PromiseKept(r)
  <2>1. CASE DropRetransmission(q)
    <3>1. sendCallbacks = {} /\ callback' = callback /\ Release("loop", {})
      BY <2>1 DEF DropRetransmission, Checked, Iterating
    <3>. QED BY <3>1, ReleaseKept
  <2>2. CASE Retransmit(q)
    <3>1. /\ sendCallbacks = {} /\ callback' = callback
          /\ \E position : \E failures \in SUBSET (callback \X {"error"}) :
               Release(position, failures)
      BY <2>2 DEF Retransmit, Checked, Iterating
    <3>2. PICK position : \E failures \in SUBSET (callback \X {"error"}) : Release(position, failures)
      BY <3>1
    <3>3. PICK failures \in SUBSET (callback \X {"error"}) : Release(position, failures)
      BY <3>2
    <3>4. \A failure \in failures : failure[1] \in callback
      BY <3>3
    <3>. QED BY <3>1, <3>3, <3>4, ReleaseKept
  <2>3. CASE SendNew(q) \/ SendNewAgain(q) \/ SendNewError(q) \/ FailNew(q)
    <3>1. sendCallbacks = {} /\ newRequests # <<>> /\ q = Head(newRequests)
      BY <2>3 DEF SendNew, SendNewAgain, SendNewError, FailNew, SendsNew, Checked, Iterating
    <3>2. \/ callback' = callback /\ \E position : Release(position, {})
          \/ /\ callback' = callback \ {q}
             /\ Release("loop", Report(q, "offline")) \/ Release("loop", Report(q, "error"))
      BY <2>3 DEF SendNew, SendNewAgain, SendNewError, FailNew
    <3>3. CASE callback' = callback /\ \E position : Release(position, {})
      BY <3>1, <3>3, ReleaseKept
    <3>4. "offline" \in Results /\ "error" \in Results
      BY DEF Results
    <3>. QED BY <3>1, <3>2, <3>3, <3>4, ReportedNewKept
  <2>. QED BY <1>6, <2>1, <2>2, <2>3 DEF Send
<1>7. ASSUME NEW q \in Requests, ReceiveLast(q) \/ ReceiveEarlier(q) PROVE PromiseKept(r)
  <2>1. /\ receiveCallback = NoRequest /\ UNCHANGED <<queued, timeoutCallbacks, sendCallbacks, results>>
        /\ Complete(q) \/ UNCHANGED <<callback, receiveCallback>>
    BY <1>7 DEF ReceiveLast, ReceiveEarlier, Answered, flagVars
  <2>2. CASE UNCHANGED <<callback, receiveCallback>>
    BY <2>1, <2>2, PlacesKept DEF Pending
  <2>3. CASE Complete(q)
    BY <2>1, <2>3, PlacesKept, RequestsAssumption DEF Complete, Pending
  <2>. QED BY <2>1, <2>2, <2>3
<1>. QED BY <1>1, <1>2, <1>3, <1>4, <1>5, <1>6, <1>7

LEMMA QueueNoticed ==
  ASSUME TypeOK, TypeOK', ClientInv, NEW q \in Requests, QueueRequest(q)
  PROVE  Callbacks!Queue(q)
<1>1. q \notin queued /\ results[q] = <<>> /\ queued' = queued \cup {q} /\ q \in callback'
      /\ callback' = callback \cup {q}
      /\ UNCHANGED <<timeoutCallbacks, receiveCallback, sendCallbacks, results>>
  BY DEF QueueRequest, ClientInv, RequestInv, NewInv, Fresh, Untouched, Unannounced
<1>2. ASSUME NEW r \in Requests \ {q} PROVE PromiseKept(r)
  BY <1>1, PlacesKept DEF Pending
<1>3. Unanswered' = Unanswered \cup {q}
  BY <1>1 DEF Unanswered
<1>4. Reported' = Reported
  <2>1. Len(results[q]) = 0 /\ ~ (0 > 0) /\ ~ (0 > 1)
    BY <1>1
  <2>2. q \notin Reported /\ q \notin Reported'
    BY <1>1, <2>1 DEF Reported
  <2>3. Reported \subseteq Requests /\ Reported' \subseteq Requests
    BY DEF Reported, TypeOK
  <2>. QED BY <1>2, <2>2, <2>3 DEF PromiseKept
<1>. QED BY <1>1, <1>3, <1>4 DEF Callbacks!Queue

\* What one more call of its callback means for a request.
LEMMA CalledKept ==
  ASSUME TypeOK, TypeOK', NEW q \in Requests, UNCHANGED queued,
         \A r \in Requests \ {q} : PromiseKept(r)
  PROVE  /\ Unanswered' \ {q} = Unanswered \ {q} /\ Reported' \ {q} = Reported \ {q}
         /\ Unanswered \subseteq Requests /\ Unanswered' \subseteq Requests
         /\ Reported \subseteq Requests /\ Reported' \subseteq Requests
<1>1. /\ Unanswered \subseteq Requests /\ Unanswered' \subseteq Requests
      /\ Reported \subseteq Requests /\ Reported' \subseteq Requests
  BY DEF Unanswered, Reported, TypeOK
<1>. QED BY <1>1 DEF PromiseKept

LEMMA CallNoticed ==
  ASSUME TypeOK, TypeOK', ClientInv, NEW q \in Requests, NEW x \in Results, CallBack(q, x)
  PROVE  Callbacks!Answer(q) \/ Callbacks!Report(q)
<1>1. /\ <<q, x>> \in sendCallbacks /\ sendCallbacks' = sendCallbacks \ {<<q, x>>}
      /\ results'[q] = Append(results[q], x)
      /\ \A r \in Requests \ {q} : results'[r] = results[r]
      /\ UNCHANGED <<queued, callback, timeoutCallbacks, receiveCallback>>
  BY DEF CallBack, TypeOK, flagVars
<1>2. PICK n \in Nat : /\ Len(results[q]) = n /\ Len(results'[q]) = n + 1
                       /\ results[q] = <<>> <=> n = 0
  <2>1. results[q] \in Seq(Results)
    BY DEF TypeOK
  <2>2. Len(results[q]) \in Nat /\ (results[q] = <<>> <=> Len(results[q]) = 0)
    BY <2>1, LenProperties, EmptySeq
  <2>3. Len(Append(results[q], x)) = Len(results[q]) + 1
    BY <2>1, AppendProperties
  <2>. QED BY <1>1, <2>2, <2>3
<1>3. OnceInv(q) /\ q \in queued
  BY <1>1 DEF ClientInv, RequestInv, NewInv, Fresh, Untouched, Unannounced
<1>4. /\ \A y \in Results : <<q, y>> \in sendCallbacks => x = y
      /\ Pending(q) => x = "error" /\ n = 0
      /\ n <= 1
  BY <1>1, <1>2, <1>3 DEF OnceInv, Announced
<1>5. \A r \in Requests \ {q} : PromiseKept(r)
  BY <1>1, PlacesKept DEF Pending
<1>6. /\ Unanswered' \ {q} = Unanswered \ {q} /\ Reported' \ {q} = Reported \ {q}
  BY <1>1, <1>5, CalledKept
<1>7. /\ q \in Unanswered <=> Pending(q) \/ (x = "error" => n = 0)
      /\ q \in Unanswered' <=> Pending(q)
  BY <1>1, <1>2, <1>3, <1>4 DEF Unanswered, Pending
<1>8. /\ q \in Reported <=> n > IF q \in Unanswered THEN 0 ELSE 1
      /\ q \in Reported' <=> n + 1 > IF q \in Unanswered' THEN 0 ELSE 1
  BY <1>1, <1>2, <1>3 DEF Reported
<1>9. n = 0 \/ n = 1
  BY Zenon, <1>4, SmallNumbers
<1>10. CASE Pending(q)
  <2>1. q \in Unanswered /\ q \in Unanswered' /\ q \notin Reported /\ q \in Reported'
    BY <1>4, <1>7, <1>8, <1>10
  <2>2. Unanswered' = Unanswered /\ Reported' = Reported \cup {q}
    BY <1>6, <2>1
  <2>. QED BY <1>1, <1>3, <2>1, <2>2 DEF Callbacks!Report
<1>11. CASE ~ Pending(q) /\ (x = "error" => n = 0)
  <2>1. q \in Unanswered /\ q \notin Unanswered' /\ (q \in Reported' <=> q \in Reported)
    BY <1>7, <1>8, <1>9, <1>11
  <2>2. Unanswered' = Unanswered \ {q} /\ Reported' = Reported
    BY <1>6, <2>1
  <2>. QED BY <1>1, <2>1, <2>2 DEF Callbacks!Answer
<1>12. CASE ~ Pending(q) /\ x = "error" /\ n # 0
  <2>1. q \notin Unanswered /\ q \notin Unanswered' /\ q \notin Reported /\ q \in Reported'
    BY <1>7, <1>8, <1>9, <1>12
  <2>2. Unanswered' = Unanswered /\ Reported' = Reported \cup {q}
    BY <1>6, <2>1
  <2>. QED BY <1>1, <1>3, <2>1, <2>2 DEF Callbacks!Report
<1>. QED BY <1>10, <1>11, <1>12

LEMMA ReplyNoticed ==
  ASSUME TypeOK, TypeOK', ClientInv, NEW q \in Requests, DeliverReply(q)
  PROVE  Callbacks!Answer(q)
<1>1. /\ receiveCallback = q /\ receiveCallback' = NoRequest /\ NoRequest \notin Requests
      /\ results'[q] = Append(results[q], "reply")
      /\ \A r \in Requests \ {q} : results'[r] = results[r]
      /\ UNCHANGED <<queued, callback, timeoutCallbacks, sendCallbacks>>
  BY RequestsAssumption DEF DeliverReply, TypeOK, flagVars
<1>2. PICK n \in Nat : /\ Len(results[q]) = n /\ Len(results'[q]) = n + 1
                       /\ results'[q] # <<>>
  <2>1. results[q] \in Seq(Results) /\ results'[q] \in Seq(Results) /\ "reply" \in Results
    BY DEF TypeOK, Results
  <2>2. Len(results[q]) \in Nat /\ (results'[q] = <<>> <=> Len(results'[q]) = 0)
    BY <2>1, LenProperties, EmptySeq
  <2>3. Len(results'[q]) = Len(results[q]) + 1
    BY <1>1, <2>1, AppendProperties
  <2>. QED BY <2>2, <2>3
<1>3. OnceInv(q) /\ q \in queued
  BY <1>1 DEF ClientInv, RequestInv, NewInv, Fresh, Untouched
<1>4. \A r \in Requests \ {q} : PromiseKept(r)
  BY <1>1, PlacesKept DEF Pending
<1>5. /\ Unanswered' \ {q} = Unanswered \ {q} /\ Reported' \ {q} = Reported \ {q}
  BY <1>1, <1>4, CalledKept
<1>6. q \in Unanswered /\ q \notin Unanswered'
  <2>1. Pending(q) /\ ~ Pending(q)' /\ \A y \in Results : <<q, y>> \in sendCallbacks => y = "error"
    BY <1>1, <1>3 DEF OnceInv, Pending
  <2>. QED BY <1>1, <1>2, <1>3, <2>1 DEF Unanswered, Pending
<1>7. q \in Reported' <=> q \in Reported
  BY <1>1, <1>2, <1>6 DEF Reported
<1>8. Unanswered' = Unanswered \ {q} /\ Reported' = Reported
  BY <1>5, <1>6, <1>7
<1>. QED BY <1>1, <1>6, <1>8 DEF Callbacks!Answer

LEMMA NextNoticed ==
  TypeOK /\ TypeOK' /\ ClientInv /\ [Next]_vars => [Callbacks!Next]_(Callbacks!promiseVars)
<1> SUFFICES ASSUME TypeOK, TypeOK', ClientInv, [Next]_vars
             PROVE  Callbacks!Next \/ UNCHANGED Callbacks!promiseVars
  OBVIOUS
<1>1. ASSUME NEW q \in Requests, QueueRequest(q) PROVE Callbacks!Next
  BY <1>1, QueueNoticed DEF Callbacks!Next
<1>2. ASSUME NEW q \in Requests, NEW x \in Results, CallBack(q, x) PROVE Callbacks!Next
  BY <1>2, CallNoticed DEF Callbacks!Next
<1>3. ASSUME NEW q \in Requests, DeliverReply(q) PROVE Callbacks!Next
  BY <1>3, ReplyNoticed DEF Callbacks!Next
<1>4. ASSUME \/ ExpireQueued \/ ExpireSent \/ Idle \/ WakeUp \/ UNCHANGED vars
             \/ \E q \in Requests : Check(q) \/ Send(q) \/ ReceiveLast(q) \/ ReceiveEarlier(q)
      PROVE  UNCHANGED Callbacks!promiseVars
  <2>1. \A r \in Requests : PromiseKept(r)
    BY <1>4, QuietSteps
  <2>2. /\ queued \subseteq Requests /\ queued' \subseteq Requests
        /\ Unanswered \subseteq Requests /\ Unanswered' \subseteq Requests
        /\ Reported \subseteq Requests /\ Reported' \subseteq Requests
    BY DEF TypeOK, Unanswered, Reported
  <2>3. queued' = queued /\ Unanswered' = Unanswered /\ Reported' = Reported
    BY <2>1, <2>2 DEF PromiseKept
  <2>. QED BY <2>3 DEF Callbacks!promiseVars
<1>. QED BY <1>1, <1>2, <1>3, <1>4 DEF Next, RunSendThread

LEMMA CallsCounted ==
  ASSUME TypeOK, ClientInv, NEW r \in Requests
  PROVE  Len(results[r]) = Callbacks!Calls(r)
<1>1. OnceInv(r) /\ NewInv(r)
  BY DEF ClientInv, RequestInv
<1>2. PICK n \in Nat : Len(results[r]) = n /\ (results[r] = <<>> <=> n = 0)
  <2>1. results[r] \in Seq(Results)
    BY DEF TypeOK
  <2>. QED BY <2>1, LenProperties, EmptySeq
<1>3. r \in Reported <=> r \in queued /\ n > IF r \in Unanswered THEN 0 ELSE 1
  BY <1>2 DEF Reported
<1>4. CASE r \notin queued
  <2>1. n = 0
    BY <1>1, <1>2, <1>4 DEF NewInv, Fresh, Untouched, Unannounced
  <2>. QED BY <1>2, <1>3, <1>4, <2>1 DEF Callbacks!Calls
<1>5. CASE r \in Unanswered
  <2>1. r \in queued /\ n <= 1
    BY <1>1, <1>2, <1>5 DEF Unanswered, OnceInv, Pending, Announced
  <2>2. n = 0 \/ n = 1
    BY Zenon, <2>1, SmallNumbers
  <2>. QED BY <1>2, <1>3, <1>5, <2>1, <2>2 DEF Callbacks!Calls
<1>6. CASE r \in queued /\ r \notin Unanswered
  <2>1. n <= 2 /\ n # 0
    BY <1>1, <1>2, <1>6 DEF Unanswered, OnceInv, Pending, Announced
  <2>2. n = 1 \/ n = 2
    BY Zenon, <2>1, SmallNumbers
  <2>. QED BY <1>2, <1>3, <1>6, <2>2 DEF Callbacks!Calls
<1>. QED BY <1>4, <1>5, <1>6 DEF Unanswered

LEMMA InitNoticed == Init => Callbacks!Init
<1> SUFFICES ASSUME Init PROVE queued = {} /\ Unanswered = {} /\ Reported = {}
  BY DEF Callbacks!Init
<1>. QED BY DEF Init, Unanswered, Reported

(***************************************************************************)
(* The client keeps its promise to those who queue requests, up to when    *)
(* requests are answered: the steps of its threads that call a callback    *)
(* answer the request, which happens once, or report that a retransmission *)
(* has failed, also once, before or after the answer; no other step is     *)
(* noticed.  The calls made to a callback are these (runSendThread,        *)
(* checkSentRequests and the handlers of the replies).  That requests are  *)
(* answered in the end, which ImplementsCallbacks adds, is left to TLC.    *)
(***************************************************************************)
THEOREM KeepsPromise ==
  Spec => Callbacks!Spec /\ [](\A r \in Requests : Len(results[r]) = Callbacks!Calls(r))
<1>1. Init => Callbacks!Init
  BY InitNoticed
<1>2. TypeOK /\ TypeOK' /\ ClientInv /\ [Next]_vars => [Callbacks!Next]_(Callbacks!promiseVars)
  BY NextNoticed
<1>3. TypeOK /\ ClientInv => \A r \in Requests : Len(results[r]) = Callbacks!Calls(r)
  BY CallsCounted
<1>. QED BY <1>1, <1>2, <1>3, TypeCorrect, InvariantHolds, PTL DEF Spec, Callbacks!Spec
=============================================================================
