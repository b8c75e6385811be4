----------------------------- MODULE UdpIpClient -----------------------------
(***************************************************************************)
(* MrfUdpIpClient: read and write requests are sent to the device in UDP   *)
(* packets by a send thread, which also retransmits them and lets them     *)
(* time out; a receive thread matches the replies with the requests.  Both *)
(* threads and the callers of queueReadRequest and queueWriteRequest share *)
(* the queues, which a mutex protects.  Callbacks are called without it.   *)
(*                                                                         *)
(* Time is abstracted: whatever depends on a duration (the queue timeout,  *)
(* the request timeout, the retransmission timeout, the reordering window) *)
(* may happen at any time, in the order in which the code looks for it.    *)
(* Every packet gets the next ref when it is sent, so that refs also stand *)
(* for the times of transmission.                                          *)
(*                                                                         *)
(* A packet that was sent may be answered at any time, several times or    *)
(* never: UDP may lose, delay, reorder and duplicate packets and replies.  *)
(***************************************************************************)
EXTENDS Integers, Sequences, FiniteSets

CONSTANTS
  Requests,           \* the requests
  NoRequest,          \* not a request
  Idempotent,         \* the read requests (Request::idempotent)
  MaxRefs,            \* bound on the number of packets sent
  consecutiveLossesLimit,           \* 3 in the code
  initialCongestionWindow,          \* 4 in the code
  maxRequestTimeoutsBeforeOffline,  \* 2 in the code
  FirstSendResults,   \* what the first and later transmissions of a request
  RetransmitResults   \* give: "sent", "again" (EAGAIN) or "error"

ASSUME RequestsAssumption ==
  /\ IsFiniteSet(Requests) /\ NoRequest \notin Requests
  /\ Idempotent \subseteq Requests
  /\ MaxRefs \in Nat /\ Cardinality(Requests) <= MaxRefs
  /\ consecutiveLossesLimit \in Nat \ {0}
  /\ initialCongestionWindow \in Nat \ {0}
  /\ maxRequestTimeoutsBeforeOffline \in Nat
  /\ FirstSendResults \subseteq {"sent", "again", "error"}
  /\ RetransmitResults \subseteq {"sent", "again", "error"}

Refs == 0 .. (MaxRefs - 1)

SizeMax == 2147483647   \* stands for the maximum of std::size_t

VARIABLES
  queued,                         \* requests handed to the client so far
  newRequests,                    \* queue of requests not sent yet
  requestsByFirstTransmission,    \* set of <<ref, request>>, by first ref
  requestsByLastTransmission,     \* set of requests, ordered by lastRef
  retransmitRequests,             \* set of requests
  refToRequest,                   \* set of <<ref, request>>
  nextRef,                        \* ref of the next packet
  lastRef,                        \* Request::lastRef
  callback,                       \* requests whose callback is still set
  successOrTimeout,               \* requests that have this flag set
  congestionWindowResetAfterSent, \* requests that have this flag set
  packetsInFlightWhenSent,        \* Request::packetsInFlightWhenSent
  congestion,                     \* the client's congestion control variables
  consecutiveRequestTimeoutsCount,
  timeoutCallbacks,               \* requests whose callback is in this list
  sendThread,                     \* position of the send thread
  sendCallbacks,                  \* set of <<request, result>>, the callbacks
                                  \* the send thread is about to call
  receiveCallback,                \* request whose callback the receive thread
                                  \* is about to call, or NoRequest
  wokenUp,                        \* a byte is in the pipe of sendSelector
  results                         \* results[r]: calls made to the callback

requestVars == <<newRequests, requestsByFirstTransmission, requestsByLastTransmission,
                 retransmitRequests, refToRequest, nextRef, lastRef>>
flagVars == <<callback, successOrTimeout>>
windowVars == <<congestionWindowResetAfterSent, packetsInFlightWhenSent, congestion>>
threadVars == <<sendThread, sendCallbacks, timeoutCallbacks, receiveCallback, wokenUp>>
vars == <<queued, requestVars, flagVars, windowVars, consecutiveRequestTimeoutsCount,
          threadVars, results>>

Positions ==
  {"loop",      \* about to take the mutex
   "queue",     \* checkSentRequests, looking at newRequests
   "request",   \* checkSentRequests, looking at requestsByFirstTransmission
   "loss",      \* checkSentRequests, looking at requestsByLastTransmission
   "sleep",     \* in select, with a timeout or waiting for the socket
   "block"}     \* in select, only wakeUp ends it

Results == {"reply", "timeout", "offline", "error"}

CongestionType ==
  [congestionWindow : Nat \ {0}, incrementCounter : {0, 1}, slowStartThreshold : Nat,
   lossesCount : 0 .. consecutiveLossesLimit, lossesFirstRef : 0 .. MaxRefs]

TypeOK ==
  /\ queued \subseteq Requests
  /\ newRequests \in Seq(Requests)
  /\ requestsByFirstTransmission \subseteq Refs \X Requests
  /\ requestsByLastTransmission \subseteq Requests
  /\ retransmitRequests \subseteq Requests
  /\ refToRequest \subseteq Refs \X Requests
  /\ nextRef \in 0 .. MaxRefs
  /\ lastRef \in [Requests -> 0 .. MaxRefs]
  /\ callback \subseteq Requests
  /\ successOrTimeout \subseteq Requests
  /\ congestionWindowResetAfterSent \subseteq Requests
  /\ packetsInFlightWhenSent \in [Requests -> Nat]
  /\ congestion \in CongestionType
  /\ consecutiveRequestTimeoutsCount \in 0 .. (maxRequestTimeoutsBeforeOffline + 1)
  /\ timeoutCallbacks \subseteq Requests
  /\ sendThread \in Positions
  /\ sendCallbacks \subseteq Requests \X Results
  /\ receiveCallback \in Requests \cup {NoRequest}
  /\ wokenUp \in BOOLEAN
  /\ results \in [Requests -> Seq(Results)]

InitialCongestion ==
  [congestionWindow |-> initialCongestionWindow, incrementCounter |-> 0,
   slowStartThreshold |-> SizeMax, lossesCount |-> 0, lossesFirstRef |-> 0]

Init ==
  /\ queued = {}
  /\ newRequests = <<>>
  /\ requestsByFirstTransmission = {}
  /\ requestsByLastTransmission = {}
  /\ retransmitRequests = {}
  /\ refToRequest = {}
  /\ nextRef = 0
  /\ lastRef = [r \in Requests |-> 0]
  /\ callback = {}
  /\ successOrTimeout = {}
  /\ congestionWindowResetAfterSent = {}
  /\ packetsInFlightWhenSent = [r \in Requests |-> 0]
  /\ congestion = InitialCongestion
  /\ consecutiveRequestTimeoutsCount = 0
  /\ timeoutCallbacks = {}
  /\ sendThread = "loop"
  /\ sendCallbacks = {}
  /\ receiveCallback = NoRequest
  /\ wokenUp = FALSE
  /\ results = [r \in Requests |-> <<>>]

\* The send thread holds the mutex from the first look at a queue until it
\* goes on to the callbacks.
MutexFree == sendThread \in {"loop", "sleep", "block"}

-----------------------------------------------------------------------------
(* Congestion control.                                                     *)

GreaterOf(a, b) == IF a >= b THEN a ELSE b
LesserOf(a, b) == IF a <= b THEN a ELSE b

\* The losses counted when the packet with this ref is lost.
LossesCount(c, ref) ==
  IF c.lossesCount > 0 /\ c.lossesFirstRef + c.lossesCount = ref
    THEN LesserOf(c.lossesCount + 1, consecutiveLossesLimit) ELSE 1

WindowCollapses(c, ref) == LossesCount(c, ref) = consecutiveLossesLimit

\* Faulty variant, for testing TypeOK: nothing keeps the window from closing.
CongestionUnbounded(c, ref, inFlight) == [c EXCEPT !.congestionWindow = @ - 1]

\* packetLossDetected, for a request whose window has not been reset since.
CongestionAfterLoss(c, ref, inFlight) ==
  LET count == LossesCount(c, ref)
  IN  [congestionWindow |-> IF WindowCollapses(c, ref) THEN 1
                            ELSE GreaterOf(c.congestionWindow - 1, 1),
       incrementCounter |-> 0,
       slowStartThreshold |-> GreaterOf(inFlight \div 2, 2),
       lossesCount |-> IF WindowCollapses(c, ref) THEN 0 ELSE count,
       lossesFirstRef |-> IF count = 1 THEN ref ELSE c.lossesFirstRef]

\* The effect of a reply to a request sent with so many packets in flight.
CongestionAfterReply(c, inFlight) ==
  CASE c.congestionWindow <= c.slowStartThreshold ->
         [c EXCEPT !.congestionWindow = @ + 1]
    [] c.congestionWindow > c.slowStartThreshold /\ c.congestionWindow = inFlight ->
         IF c.incrementCounter = 1
           THEN [c EXCEPT !.congestionWindow = @ + 1, !.incrementCounter = 0]
           ELSE [c EXCEPT !.incrementCounter = @ + 1]
    [] OTHER -> c

-----------------------------------------------------------------------------
(* Queuing and removing requests.                                          *)

\* queueReadRequest and queueWriteRequest.
QueueRequest(r) ==
  /\ MutexFree
  /\ r \notin queued
  /\ queued' = queued \cup {r}
  /\ newRequests' = Append(newRequests, r)
  /\ callback' = callback \cup {r}
  /\ wokenUp' = TRUE
  /\ UNCHANGED <<requestsByFirstTransmission, requestsByLastTransmission,
                 retransmitRequests, refToRequest, nextRef, lastRef, successOrTimeout,
                 windowVars, consecutiveRequestTimeoutsCount, sendThread, sendCallbacks,
                 timeoutCallbacks, receiveCallback, results>>

EntriesOf(set, r) == {entry \in set : entry[2] = r}
RefsSent(r) == {entry[1] : entry \in EntriesOf(refToRequest, r)}
FirstOf(set) == CHOOSE entry \in set : \A other \in set : entry[1] <= other[1]

\* A request that is in requestsByFirstTransmission twice has had its key
\* changed in place: the search in the unsorted tree may miss the old entry.
MissedEntries(r) ==
  LET entries == EntriesOf(requestsByFirstTransmission, r)
  IN  IF Cardinality(entries) > 1 THEN {{}, {FirstOf(entries)}} ELSE {{}}

\* Faulty variant, for testing InFlightAwaited: the refs of earlier packets stay.
RemoveLastRef(r) ==
  /\ refToRequest' = refToRequest \ {<<lastRef[r], r>>}
  /\ requestsByFirstTransmission' =
       requestsByFirstTransmission \ EntriesOf(requestsByFirstTransmission, r)
  /\ requestsByLastTransmission' = requestsByLastTransmission \ {r}
  /\ retransmitRequests' = retransmitRequests \ {r}

RemoveRequest(r) ==
  /\ refToRequest' = refToRequest \ EntriesOf(refToRequest, r)
  /\ \E missed \in MissedEntries(r) :
       requestsByFirstTransmission' =
         (requestsByFirstTransmission \ EntriesOf(requestsByFirstTransmission, r)) \cup missed
  /\ requestsByLastTransmission' = requestsByLastTransmission \ {r}
  /\ retransmitRequests' = retransmitRequests \ {r}

-----------------------------------------------------------------------------
(* The send thread: checkSentRequests.                                     *)

\* The next iteration can begin when the callbacks have been called.
Iterating(positions) == sendThread \in positions /\ sendCallbacks = {}

\* The queue timeout of the first new request has expired.
ExpireQueued ==
  /\ Iterating({"loop", "queue"})
  /\ newRequests # <<>>
  /\ timeoutCallbacks' = timeoutCallbacks \cup {Head(newRequests)}
  /\ callback' = callback \ {Head(newRequests)}
  /\ newRequests' = Tail(newRequests)
  /\ sendThread' = "queue"
  /\ UNCHANGED <<queued, requestsByFirstTransmission, requestsByLastTransmission,
                 retransmitRequests, refToRequest, nextRef, lastRef, successOrTimeout,
                 windowVars, consecutiveRequestTimeoutsCount, sendCallbacks,
                 receiveCallback, wokenUp, results>>

\* The request timeout of the request sent first has expired.
ExpireSent ==
  /\ Iterating({"loop", "queue", "request"})
  /\ requestsByFirstTransmission # {}
  /\ LET first == FirstOf(requestsByFirstTransmission)
         r == first[2]
     IN  /\ timeoutCallbacks' = timeoutCallbacks \cup ({r} \cap callback)
         /\ callback' = callback \ {r}
         /\ successOrTimeout' = successOrTimeout \cup {r}
         /\ requestsByFirstTransmission' = requestsByFirstTransmission \ {first}
  /\ IF consecutiveRequestTimeoutsCount <= maxRequestTimeoutsBeforeOffline
       THEN /\ consecutiveRequestTimeoutsCount' = consecutiveRequestTimeoutsCount + 1
            /\ UNCHANGED congestion
       ELSE /\ congestion' = [InitialCongestion EXCEPT
                                !.lossesFirstRef = congestion.lossesFirstRef]
            /\ UNCHANGED consecutiveRequestTimeoutsCount
  /\ sendThread' = "request"
  /\ UNCHANGED <<queued, newRequests, requestsByLastTransmission, retransmitRequests,
                 refToRequest, nextRef, lastRef, congestionWindowResetAfterSent,
                 packetsInFlightWhenSent, sendCallbacks, receiveCallback, wokenUp, results>>

\* The request looked at for packet loss: the one whose last packet is oldest.
IsOldest(r) ==
  /\ r \in requestsByLastTransmission
  /\ \A other \in requestsByLastTransmission : lastRef[r] <= lastRef[other]

RemoveAnswered(r) ==
  /\ Iterating({"loop", "queue", "request", "loss"})
  /\ IsOldest(r)
  /\ r \in successOrTimeout
  /\ RemoveRequest(r)
  /\ sendThread' = "loss"
  /\ UNCHANGED <<queued, newRequests, nextRef, lastRef, flagVars, windowVars,
                 consecutiveRequestTimeoutsCount, timeoutCallbacks, sendCallbacks,
                 receiveCallback, wokenUp, results>>

\* MaxRefs leaves a ref for each request that has not been sent yet.
MayRetransmit ==
  nextRef + Cardinality(retransmitRequests) + Len(newRequests)
    + Cardinality(Requests \ queued) < MaxRefs

\* The retransmission timeout has expired, or the reply to a later packet has
\* been received and the reordering window has passed.
DetectLoss(r) ==
  /\ Iterating({"loop", "queue", "request", "loss"})
  /\ IsOldest(r)
  /\ r \notin successOrTimeout
  /\ MayRetransmit
  /\ retransmitRequests' = retransmitRequests \cup {r}
  /\ requestsByLastTransmission' = requestsByLastTransmission \ {r}
  /\ IF r \in congestionWindowResetAfterSent
       THEN UNCHANGED <<congestion, congestionWindowResetAfterSent>>
       ELSE /\ congestion' = CongestionAfterLoss(congestion, lastRef[r],
                                                 packetsInFlightWhenSent[r])
            /\ congestionWindowResetAfterSent' =
                 IF WindowCollapses(congestion, lastRef[r])
                   THEN congestionWindowResetAfterSent \cup requestsByLastTransmission
                   ELSE congestionWindowResetAfterSent
  /\ sendThread' = "loss"
  /\ UNCHANGED <<queued, newRequests, requestsByFirstTransmission, refToRequest, nextRef,
                 lastRef, flagVars, packetsInFlightWhenSent, consecutiveRequestTimeoutsCount,
                 timeoutCallbacks, sendCallbacks, receiveCallback, wokenUp, results>>

-----------------------------------------------------------------------------
(* The send thread: runSendThread.                                         *)

\* checkSentRequests has removed what it had to before a packet is sent.
Checked ==
  /\ Iterating({"loop", "queue", "request", "loss"})
  /\ \A r \in successOrTimeout : ~IsOldest(r)

Offline == consecutiveRequestTimeoutsCount > maxRequestTimeoutsBeforeOffline
WindowOpen == congestion.congestionWindow > Cardinality(requestsByLastTransmission)

\* The mutex is released; the callbacks of the requests that have failed or
\* timed out are going to be called, then the thread goes on at position.
Release(position, failures) ==
  /\ sendThread' = position
  /\ sendCallbacks' = failures \cup {<<r, "timeout">> : r \in timeoutCallbacks}
  /\ timeoutCallbacks' = {}
  /\ UNCHANGED <<receiveCallback, wokenUp, queued, consecutiveRequestTimeoutsCount,
                 results, successOrTimeout, congestion>>

\* Faulty variant, for testing RequestsWatched: only the first transmission is
\* recorded as being in flight.
TransmitUnwatched(r) ==
  /\ lastRef' = [lastRef EXCEPT ![r] = nextRef]
  /\ nextRef' = nextRef + 1
  /\ requestsByFirstTransmission' = requestsByFirstTransmission \cup {<<nextRef, r>>}
  /\ refToRequest' = refToRequest \cup {<<nextRef, r>>}
  /\ requestsByLastTransmission' =
       IF RefsSent(r) = {} THEN requestsByLastTransmission \cup {r}
       ELSE requestsByLastTransmission
  /\ UNCHANGED <<congestionWindowResetAfterSent, packetsInFlightWhenSent>>

\* trySendRequest, when the packet is sent: Request::sendTime being empty, the
\* transmission is taken for the first one.
Transmit(r) ==
  /\ lastRef' = [lastRef EXCEPT ![r] = nextRef]
  /\ nextRef' = nextRef + 1
  /\ requestsByFirstTransmission' =
       IF RefsSent(r) = {} THEN requestsByFirstTransmission \cup {<<nextRef, r>>}
       ELSE requestsByFirstTransmission
  /\ congestionWindowResetAfterSent' = congestionWindowResetAfterSent \ {r}
  /\ packetsInFlightWhenSent' =
       [packetsInFlightWhenSent EXCEPT ![r] = Cardinality(requestsByLastTransmission) + 1]
  /\ refToRequest' = refToRequest \cup {<<nextRef, r>>}
  /\ requestsByLastTransmission' = requestsByLastTransmission \cup {r}

\* trySendRequest, when nothing is sent: lastRef has been set all the same.
TransmitFailed(r) ==
  /\ lastRef' = [lastRef EXCEPT ![r] = nextRef]
  /\ UNCHANGED <<nextRef, requestsByFirstTransmission, requestsByLastTransmission,
                 refToRequest, congestionWindowResetAfterSent, packetsInFlightWhenSent>>

\* The first of retransmitRequests need not be retransmitted any longer.  The
\* order depends on the retransmission timeouts, so it may be any request.
DropRetransmission(r) ==
  /\ Checked /\ WindowOpen
  /\ r \in retransmitRequests \cap successOrTimeout
  /\ RemoveRequest(r)
  /\ Release("loop", {})
  /\ UNCHANGED <<newRequests, nextRef, lastRef, callback, packetsInFlightWhenSent,
                 congestionWindowResetAfterSent>>

\* If it cannot be sent, its callback is called, if it is still set, but kept.
Retransmit(r) ==
  /\ Checked /\ WindowOpen
  /\ r \in retransmitRequests \ successOrTimeout
  /\ \/ /\ "sent" \in RetransmitResults
        /\ Transmit(r)
        /\ retransmitRequests' = retransmitRequests \ {r}
        /\ Release("loop", {})
     \/ /\ "again" \in RetransmitResults
        /\ TransmitFailed(r)
        /\ Release("sleep", {})
        /\ UNCHANGED retransmitRequests
     \/ /\ "error" \in RetransmitResults
        /\ TransmitFailed(r)
        /\ retransmitRequests' = retransmitRequests \ {r}
        /\ Release("loop", ({r} \cap callback) \X {"error"})
  /\ UNCHANGED <<newRequests, callback>>

SendsNew(r) ==
  /\ Checked /\ WindowOpen
  /\ retransmitRequests = {}
  /\ newRequests # <<>> /\ r = Head(newRequests)

\* A request that is reported as failed is not kept, or loses its callback.
Report(r, result) == {<<r, result>>}

SendNew(r) ==
  /\ SendsNew(r)
  /\ "sent" \in FirstSendResults
  /\ Transmit(r)
  /\ newRequests' = Tail(newRequests)
  /\ IF Offline
       THEN Release("loop", Report(r, "offline")) /\ callback' = callback \ {r}
       ELSE Release("loop", {}) /\ UNCHANGED callback
  /\ UNCHANGED retransmitRequests

SendNewAgain(r) ==
  /\ SendsNew(r)
  /\ "again" \in FirstSendResults
  /\ TransmitFailed(r)
  /\ IF Offline
       THEN /\ Release("loop", Report(r, "offline"))
            /\ callback' = callback \ {r}
            /\ newRequests' = Tail(newRequests)
       ELSE Release("sleep", {}) /\ UNCHANGED <<callback, newRequests>>
  /\ UNCHANGED retransmitRequests

SendNewError(r) ==
  /\ SendsNew(r)
  /\ "error" \in FirstSendResults
  /\ TransmitFailed(r)
  /\ Release("loop", Report(r, "error"))
  /\ callback' = callback \ {r}
  /\ newRequests' = Tail(newRequests)
  /\ UNCHANGED retransmitRequests

\* The window is full, but the peer is offline.
FailNew(r) ==
  /\ Checked /\ ~WindowOpen /\ Offline
  /\ newRequests # <<>> /\ r = Head(newRequests)
  /\ Release("loop", Report(r, "offline"))
  /\ callback' = callback \ {r}
  /\ newRequests' = Tail(newRequests)
  /\ UNCHANGED <<requestsByFirstTransmission, requestsByLastTransmission, refToRequest,
                 retransmitRequests, nextRef, lastRef, congestionWindowResetAfterSent,
                 packetsInFlightWhenSent>>

\* Faulty variant, for testing ImplementsCallbacks: the wrong queue is looked at.
NothingToResend == retransmitRequests = {}

\* checkSentRequests has seen no request that may expire.
NothingExpires == requestsByFirstTransmission = {} /\ requestsByLastTransmission = {}

\* Nothing can be sent.
Idle ==
  /\ Checked
  /\ IF WindowOpen THEN retransmitRequests = {} /\ newRequests = <<>>
     ELSE ~(Offline /\ newRequests # <<>>)
  /\ Release(IF NothingExpires THEN "block" ELSE "sleep", {})
  /\ UNCHANGED <<requestVars, callback, congestionWindowResetAfterSent,
                 packetsInFlightWhenSent>>

\* One of the callbacks is called.
CallBack(r, result) ==
  /\ <<r, result>> \in sendCallbacks
  /\ sendCallbacks' = sendCallbacks \ {<<r, result>>}
  /\ results' = [results EXCEPT ![r] = Append(@, result)]
  /\ UNCHANGED <<queued, requestVars, flagVars, windowVars, consecutiveRequestTimeoutsCount,
                 sendThread, timeoutCallbacks, receiveCallback, wokenUp>>

\* Select returns, having read the pipe unless the timeout was over before.
WakeUp ==
  /\ sendCallbacks = {}
  /\ \/ sendThread = "sleep" /\ wokenUp' \in {wokenUp, FALSE}
     \/ sendThread = "block" /\ wokenUp /\ wokenUp' = FALSE
  /\ sendThread' = "loop"
  /\ UNCHANGED <<queued, requestVars, flagVars, windowVars, consecutiveRequestTimeoutsCount,
                 timeoutCallbacks, sendCallbacks, receiveCallback, results>>

-----------------------------------------------------------------------------
(* The receive thread.                                                     *)

\* A packet that is in refToRequest has been answered.
Answered(ref, r) ==
  /\ MutexFree /\ receiveCallback = NoRequest
  /\ <<ref, r>> \in refToRequest
  /\ consecutiveRequestTimeoutsCount' = 0
  /\ congestion' = IF r \in congestionWindowResetAfterSent THEN congestion
                   ELSE CongestionAfterReply(congestion, packetsInFlightWhenSent[r])
  /\ wokenUp' = TRUE
  /\ UNCHANGED <<queued, newRequests, nextRef, lastRef, congestionWindowResetAfterSent,
                 packetsInFlightWhenSent, timeoutCallbacks, sendThread, sendCallbacks, results>>

\* Faulty variants, for testing CalledTwiceOnlyIfSendFailed and
\* NotSentAfterAnswer: the callback is copied, the flag is not set.
CompleteCopying(r) ==
  /\ receiveCallback' = IF r \in callback THEN r ELSE NoRequest
  /\ successOrTimeout' = successOrTimeout \cup {r}
  /\ UNCHANGED callback
CompleteUnflagged(r) ==
  /\ receiveCallback' = IF r \in callback THEN r ELSE NoRequest
  /\ callback' = callback \ {r}
  /\ UNCHANGED successOrTimeout

\* The callback is taken, to be called once the mutex is released.
Complete(r) ==
  /\ receiveCallback' = IF r \in callback THEN r ELSE NoRequest
  /\ callback' = callback \ {r}
  /\ successOrTimeout' = successOrTimeout \cup {r}

\* The reply is for the packet that was sent last.
ReceiveLast(r) ==
  /\ Answered(lastRef[r], r)
  /\ Complete(r)
  /\ RemoveRequest(r)

\* The reply is for an earlier packet: a read has succeeded, but its last
\* packet still counts as being in flight; for a write it is not sufficient.
ReceiveEarlier(r) ==
  \E ref \in Refs :
    /\ ref # lastRef[r]
    /\ Answered(ref, r)
    /\ IF r \in Idempotent THEN Complete(r)
       ELSE UNCHANGED <<flagVars, receiveCallback>>
    /\ refToRequest' = refToRequest \ {<<ref, r>>}
    /\ UNCHANGED <<requestsByFirstTransmission, requestsByLastTransmission,
                   retransmitRequests>>

DeliverReply(r) ==
  /\ receiveCallback = r
  /\ results' = [results EXCEPT ![r] = Append(@, "reply")]
  /\ receiveCallback' = NoRequest
  /\ UNCHANGED <<queued, requestVars, flagVars, windowVars, consecutiveRequestTimeoutsCount,
                 timeoutCallbacks, sendThread, sendCallbacks, wokenUp>>

-----------------------------------------------------------------------------
Check(r) == RemoveAnswered(r) \/ DetectLoss(r)

Send(r) ==
  \/ DropRetransmission(r) \/ Retransmit(r)
  \/ SendNew(r) \/ SendNewAgain(r) \/ SendNewError(r) \/ FailNew(r)

RunSendThread ==
  \/ ExpireQueued \/ ExpireSent \/ Idle \/ WakeUp
  \/ \E r \in Requests : Check(r) \/ Send(r) \/ \E result \in Results : CallBack(r, result)

Next ==
  \/ RunSendThread
  \/ \E r \in Requests :
       QueueRequest(r) \/ ReceiveLast(r) \/ ReceiveEarlier(r) \/ DeliverReply(r)

Spec == Init /\ [][Next]_vars

(***************************************************************************)
(* The threads keep running, the request timeout of a sent request expires *)
(* and is seen by some check, and the socket becomes writable now and then *)
(* (which is what the thread waits for after EAGAIN).  Nothing says that a *)
(* packet is ever answered, that a loss is detected before the timeout or  *)
(* that there is a queue timeout.                                          *)
(***************************************************************************)
Fairness ==
  /\ WF_vars(RunSendThread)
  /\ SF_vars(ExpireSent)
  /\ SF_vars(\E r \in Requests : SendNew(r))
  /\ WF_vars(\E r \in Requests : DeliverReply(r))

FairSpec == Spec /\ Fairness
-----------------------------------------------------------------------------
(* Properties.                                                             *)

(***************************************************************************)
(* No callback is called twice, whatever combination of replies, timeouts, *)
(* send errors and offline reports a request meets: "we do not want the    *)
(* callback to be called again later, when the request times out or        *)
(* actually is successful".  The callers count on it: a second call would  *)
(* release the registers of another operation.                             *)
(***************************************************************************)
CallbackAtMostOnce == \A r \in Requests : Len(results[r]) <= 1

(***************************************************************************)
(* A failing retransmission is the only reason for a second call.          *)
(***************************************************************************)
Told(r, result) == <<r, result>> \in sendCallbacks
                     \/ \E i \in 1 .. Len(results[r]) : results[r][i] = result
SendFailed == {r \in Requests : Told(r, "error")}

CalledTwiceOnlyIfSendFailed == \A r \in Requests \ SendFailed : Len(results[r]) <= 1

(***************************************************************************)
(* The client keeps the promise of RequestCallbacks: each request is       *)
(* answered once, and in the end, if only by a timeout, and its callback   *)
(* is called a second time only to report a failed retransmission, before  *)
(* or after the answer.  A request is answered when its callback has been  *)
(* called from the last place where it was kept.                           *)
(***************************************************************************)
Unanswered ==
  {r \in queued :
     \/ r \in callback \cup timeoutCallbacks \/ receiveCallback = r
     \/ \E result \in Results : /\ <<r, result>> \in sendCallbacks
                                /\ result = "error" => results[r] = <<>>}

Reported == {r \in queued : Len(results[r]) > IF r \in Unanswered THEN 0 ELSE 1}

Callbacks ==
  INSTANCE RequestCallbacks WITH sent <- queued, open <- Unanswered, reported <- Reported

ImplementsCallbacks ==
  Callbacks!FairSpec /\ [](\A r \in Requests : Len(results[r]) = Callbacks!Calls(r))

(***************************************************************************)
(* A request that was sent and has its callback is watched: it is among    *)
(* the requests whose timeout is checked, and it is either in flight or    *)
(* waiting for retransmission, but not both.  (When a retransmission has   *)
(* failed, only its timeout is checked.)                                   *)
(***************************************************************************)
Waiting == {r \in callback : r \notin {newRequests[i] : i \in 1 .. Len(newRequests)}}

RequestsWatched ==
  /\ \A r \in Waiting : EntriesOf(requestsByFirstTransmission, r) # {}
  /\ Waiting \ SendFailed \subseteq requestsByLastTransmission \cup retransmitRequests
  /\ requestsByLastTransmission \cap retransmitRequests = {}

(***************************************************************************)
(* A request that is counted as being in flight is still waiting for the   *)
(* reply to its last packet, and no reply is expected for a request that   *)
(* nothing will remove: the window is not used up by packets that have     *)
(* been answered, and refToRequest does not keep requests for ever.  (It   *)
(* does keep those whose retransmission has failed, of which nobody is     *)
(* told if the request has already been reported as offline.)              *)
(***************************************************************************)
SilentlyFailed(r) == Told(r, "offline") /\ <<lastRef[r], r>> \notin refToRequest

InFlightAwaited ==
  /\ \A r \in requestsByLastTransmission : <<lastRef[r], r>> \in refToRequest
  /\ \A entry \in refToRequest :
       \/ entry[2] \in requestsByLastTransmission \cup retransmitRequests \cup SendFailed
       \/ SilentlyFailed(entry[2])

(***************************************************************************)
(* A request whose success or timeout is or is going to be reported        *)
(* "should not be transmitted any longer": a late write would undo the     *)
(* writes that followed it.  (A request reported as offline may well be.)  *)
(***************************************************************************)
TimedOut == {r \in Requests : r \in timeoutCallbacks \/ Told(r, "timeout")}
Succeeded == {r \in Requests : receiveCallback = r \/ Told(r, "reply")}

NotSentAfterAnswer ==
  [][\A r \in TimedOut \cup Succeeded : <<nextRef, r>> \notin refToRequest']_vars
=============================================================================
