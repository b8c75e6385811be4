------------------------- MODULE UdpIpMemoryAccess -------------------------
(***************************************************************************)
(* MrfUdpIpMemoryAccess: 32-bit registers are read and written in words of *)
(* 16 bits, with two requests of the UDP/IP client for an operation.  The  *)
(* low word is read first, and the high word once more if it arrives       *)
(* before the low word; the high word is written first, and the low word   *)
(* from its callback.                                                      *)
(*                                                                         *)
(* The client calls back from its receive thread when a reply arrives and  *)
(* from its send thread when a request fails.  All that is known of the    *)
(* client is its promise, RequestCallbacks, which UdpIpClient implements.  *)
(* Its packets are executed by the device any number of times, also after  *)
(* the request has been answered.                                          *)
(*                                                                         *)
(* Queuing a request may throw: there is no memory for it, or the client's *)
(* send thread cannot be woken up, in which case it has been queued all    *)
(* the same.                                                               *)
(*                                                                         *)
(* What a register holds is the number of times the device has changed it. *)
(* The registers that are written are not those that are read.             *)
(***************************************************************************)
EXTENDS Integers, Sequences, FiniteSets

CONSTANTS
  Reads, Writes,     \* operations on 32-bit registers
  MaxChanges,        \* bound on the changes of the register that is read
  MaxReplies,        \* bound on the replies that are under way
  MaxReported,       \* bound on the retransmissions that fail
  MaxThrown,         \* bound on the requests whose queuing throws
  InOrder            \* replies arrive in the order in which they were sent

ASSUME UdpIpAssumption ==
  /\ Reads \cap Writes = {}
  /\ MaxChanges \in Nat /\ MaxReplies \in Nat /\ MaxReported \in Nat
  /\ MaxThrown \in Nat
  /\ InOrder \in BOOLEAN

Ops == Reads \cup Writes

\* "again" is the second read of the high word.
Requests == (Reads \X {"low", "high", "again"}) \cup (Writes \X {"high", "low"})

Values == 0 .. MaxChanges
NoValue == -1

VARIABLES
  register,       \* value of the register that is read
  written,        \* write requests the device has executed
  sent,           \* requests that the client has got
  open,           \* those among them that have not been answered
  reported,       \* those whose failed retransmission has been reported
  thrown,         \* requests whose queuing has thrown
  replies,        \* replies under way
  receiveThread,  \* what the callback called by each of the client's threads
  sendThread,     \*   is about to do
  shared,         \* UInt32ReadShared of each read
  called,         \* reads: position of the calling thread, see UdpTypeOK
  results         \* results[op]: calls made to the operation's callback

deviceVars == <<register, written>>
clientVars == <<sent, open, reported, thrown, replies>>
threads == <<receiveThread, sendThread>>
udpVars == <<deviceVars, clientVars, threads, shared, called, results>>

Idle == <<"idle">>
Todo == {Idle} \cup ({"again"} \X Reads) \cup ({"low"} \X Writes)
        \cup ({"success", "failure"} \X Ops)

SharedStates == [failed : BOOLEAN, gotLow : BOOLEAN, gotHigh : BOOLEAN,
                 low : Values \cup {NoValue}, high : SUBSET Values]

Results == [success : BOOLEAN, low : Values \cup {NoValue}, high : SUBSET Values]

Failure == [success |-> FALSE, low |-> NoValue, high |-> {}]

Replies == Requests \X (Values \cup {NoValue})

UdpTypeOK ==
  /\ register \in Values
  /\ written \subseteq Requests
  /\ sent \subseteq Requests /\ open \subseteq sent /\ reported \subseteq sent
  /\ thrown \subseteq Requests
  /\ replies \in Seq(Replies) /\ Len(replies) <= MaxReplies
  /\ receiveThread \in Todo /\ sendThread \in Todo
  /\ shared \in [Reads -> SharedStates]
  /\ called \in [Ops -> {"new", "queuing", "failing", "called", "threw"}]
  /\ results \in [Ops -> Seq(Results)]

UdpInit ==
  /\ register = 0
  /\ written = {}
  /\ sent = {} /\ open = {} /\ reported = {} /\ thrown = {}
  /\ replies = <<>>
  /\ receiveThread = Idle /\ sendThread = Idle
  /\ shared = [op \in Reads |-> [failed |-> FALSE, gotLow |-> FALSE, gotHigh |-> FALSE,
                                 low |-> NoValue, high |-> {}]]
  /\ called = [op \in Ops |-> "new"]
  /\ results = [op \in Ops |-> <<>>]

-----------------------------------------------------------------------------
(* The client, the network and the device.                                 *)

Callbacks == INSTANCE RequestCallbacks

\* That no request is queued twice is for the callers to see to.
AddRequest(request) ==
  /\ sent' = sent \cup {request}
  /\ open' = open \cup {request}

QueueRequest(request) == AddRequest(request) /\ UNCHANGED thrown

QueueThrows(request) ==
  /\ Cardinality(thrown) < MaxThrown
  /\ thrown' = thrown \cup {request}
  /\ AddRequest(request) \/ UNCHANGED <<sent, open>>

ChangeRegister ==
  /\ register < MaxChanges
  /\ register' = register + 1
  /\ UNCHANGED <<written, clientVars, threads, shared, called, results>>

\* A packet reaches the device, which replies with the value, or with a status
\* saying that it could not execute the request.  A read that has been answered
\* is not executed again, as the client drops the reply.
Execute(request) ==
  /\ request \in open \/ (request \in sent /\ request[1] \in Writes)
  /\ Len(replies) < MaxReplies
  /\ \/ /\ replies' = Append(replies, <<request, register>>)
        /\ written' = written \cup ({request} \cap (Writes \X {"high", "low"}))
     \/ /\ replies' = Append(replies, <<request, NoValue>>)
        /\ UNCHANGED written
  /\ UNCHANGED <<register, sent, open, reported, thrown, threads, shared, called, results>>

Without(i) == SubSeq(replies, 1, i - 1) \o SubSeq(replies, i + 1, Len(replies))

LoseReply(i) ==
  /\ replies' = Without(i)
  /\ UNCHANGED <<deviceVars, sent, open, reported, thrown, threads, shared, called, results>>

-----------------------------------------------------------------------------
(* UInt32ReadShared, called with its mutex held, and what the thread goes  *)
(* on to do when it has released it.                                       *)

\* Faulty variant, for testing ReadConsistent: a high word is kept.
ReceivedLowKeeping(op, value) ==
  IF shared[op].failed \/ shared[op].gotLow
    THEN /\ UNCHANGED shared
         /\ receiveThread' = Idle
    ELSE /\ shared' = [shared EXCEPT ![op].gotLow = TRUE, ![op].low = value]
         /\ receiveThread' = IF shared[op].gotHigh THEN <<"success", op>> ELSE Idle

\* The high word is read again if it was received before the low word.
ReceivedLow(op, value) ==
  IF shared[op].failed \/ shared[op].gotLow
    THEN /\ UNCHANGED shared
         /\ receiveThread' = Idle
    ELSE /\ shared' = [shared EXCEPT ![op].gotLow = TRUE, ![op].low = value,
                                     ![op].gotHigh = FALSE, ![op].high = {}]
         /\ receiveThread' = IF shared[op].gotHigh THEN <<"again", op>> ELSE Idle

ReceivedHigh(op, value) ==
  IF shared[op].failed \/ shared[op].gotHigh
    THEN /\ UNCHANGED shared
         /\ receiveThread' = Idle
    ELSE /\ shared' = [shared EXCEPT ![op].gotHigh = TRUE, ![op].high = @ \cup {value}]
         /\ receiveThread' = IF shared[op].gotLow THEN <<"success", op>> ELSE Idle

\* Faulty variant, for testing ReadersReturn: one word is taken for both.
NextOfFailureOneWord(op) ==
  IF op \in Reads /\ (shared[op].failed \/ shared[op].gotLow \/ shared[op].gotHigh)
    THEN Idle ELSE <<"failure", op>>

\* What the thread that reports a failure does next.
NextOfFailure(op) ==
  IF op \in Reads /\ (shared[op].failed \/ (shared[op].gotLow /\ shared[op].gotHigh))
    THEN Idle ELSE <<"failure", op>>

\* Faulty variant, for testing ReadCalledOnce: the failure is not noted.
SharedAfterFailureNone(op) == shared

SharedAfterFailure(op) ==
  IF op \in Reads THEN [shared EXCEPT ![op].failed = TRUE] ELSE shared

-----------------------------------------------------------------------------
(* The callbacks for the words.                                            *)

\* A reply to a request that is open; others are dropped.
Answered(i) ==
  LET request == replies[i][1] IN
  /\ receiveThread = Idle
  /\ replies' = Without(i)
  /\ Callbacks!Answer(request)
  /\ UNCHANGED <<deviceVars, thrown, sendThread, called, results>>

ReplyToRead(i) ==
  LET request == replies[i][1] op == request[1] IN
  /\ Answered(i)
  /\ op \in Reads /\ replies[i][2] # NoValue
  /\ IF request[2] = "low" THEN ReceivedLow(op, replies[i][2])
                           ELSE ReceivedHigh(op, replies[i][2])

\* The low word is written when the high word has been.
ReplyToWrite(i) ==
  LET request == replies[i][1] op == request[1] IN
  /\ Answered(i)
  /\ op \in Writes /\ replies[i][2] # NoValue
  /\ receiveThread' = IF request[2] = "high" THEN <<"low", op>> ELSE <<"success", op>>
  /\ UNCHANGED shared

ReplyWithStatus(i) ==
  LET op == replies[i][1][1] IN
  /\ Answered(i)
  /\ replies[i][2] = NoValue
  /\ shared' = SharedAfterFailure(op)
  /\ receiveThread' = NextOfFailure(op)

\* The request times out, the peer is offline or a packet cannot be sent: if
\* this is a retransmission, the request may still be answered, or it already
\* has been.
RequestFails(request) ==
  LET op == request[1] IN
  /\ sendThread = Idle
  /\ \/ Callbacks!Answer(request)
     \/ Callbacks!Report(request) /\ Cardinality(reported) < MaxReported
  /\ shared' = SharedAfterFailure(op)
  /\ sendThread' = NextOfFailure(op)
  /\ UNCHANGED <<deviceVars, thrown, replies, receiveThread, called, results>>

\* What the receive thread does after it has released the mutex.
QueueWord(op) ==
  /\ \E word \in {"again", "low"} : /\ receiveThread = <<word, op>>
                                     /\ QueueRequest(<<op, word>>)
  /\ receiveThread' = Idle
  /\ UNCHANGED <<deviceVars, reported, replies, sendThread, shared, called, results>>

\* The exception leaves the callback, and the client discards it: the read has
\* neither succeeded nor failed.
QueueAgainThrows(op) ==
  /\ receiveThread = <<"again", op>>
  /\ receiveThread' = Idle
  /\ QueueThrows(<<op, "again">>)
  /\ UNCHANGED <<deviceVars, reported, replies, sendThread, shared, called, results>>

\* The exception is caught, and the callback is told of a failure.
QueueLowThrows(op) ==
  /\ receiveThread = <<"low", op>>
  /\ receiveThread' = <<"failure", op>>
  /\ QueueThrows(<<op, "low">>)
  /\ UNCHANGED <<deviceVars, reported, replies, sendThread, shared, called, results>>

\* data is read without the mutex.
ReportSuccess(op) ==
  /\ receiveThread = <<"success", op>>
  /\ receiveThread' = Idle
  /\ results' = [results EXCEPT ![op] = Append(@,
                   [success |-> TRUE,
                    low |-> IF op \in Reads THEN shared[op].low ELSE NoValue,
                    high |-> IF op \in Reads THEN shared[op].high ELSE {}])]
  /\ UNCHANGED <<deviceVars, clientVars, sendThread, shared, called>>

ReportFailure(op) ==
  /\ \/ /\ receiveThread = <<"failure", op>> /\ receiveThread' = Idle
        /\ UNCHANGED sendThread
     \/ /\ sendThread = <<"failure", op>> /\ sendThread' = Idle
        /\ UNCHANGED receiveThread
  /\ results' = [results EXCEPT ![op] = Append(@, Failure)]
  /\ UNCHANGED <<deviceVars, clientVars, shared, called>>

-----------------------------------------------------------------------------
(* readUInt32 and writeUInt32.                                             *)

ReadUInt32(op) ==
  /\ op \in Reads
  /\ called[op] = "new"
  /\ \/ called' = [called EXCEPT ![op] = "queuing"] /\ QueueRequest(<<op, "low">>)
     \/ called' = [called EXCEPT ![op] = "threw"] /\ QueueThrows(<<op, "low">>)
  /\ UNCHANGED <<deviceVars, reported, replies, threads, shared, results>>

QueueHighWord(op) ==
  /\ op \in Reads
  /\ called[op] = "queuing"
  /\ \/ called' = [called EXCEPT ![op] = "called"] /\ QueueRequest(<<op, "high">>)
     \/ called' = [called EXCEPT ![op] = "failing"] /\ QueueThrows(<<op, "high">>)
  /\ UNCHANGED <<deviceVars, reported, replies, threads, shared, results>>

\* Having caught the exception, readUInt32 calls the failure callback itself:
\* UInt32ReadShared, which the low word's callback uses, does not learn of it.
FailReading(op) ==
  /\ op \in Reads
  /\ called[op] = "failing"
  /\ called' = [called EXCEPT ![op] = "called"]
  /\ results' = [results EXCEPT ![op] = Append(@, Failure)]
  /\ UNCHANGED <<deviceVars, clientVars, threads, shared>>

\* Faulty variant, for testing WrittenInOrder: both words are queued.
WriteBothWords(op) ==
  /\ op \in Writes
  /\ called[op] = "new"
  /\ called' = [called EXCEPT ![op] = "called"]
  /\ sent' = sent \cup {<<op, "high">>, <<op, "low">>}
  /\ open' = open \cup {<<op, "high">>, <<op, "low">>}
  /\ UNCHANGED <<deviceVars, reported, thrown, replies, threads, shared, results>>

WriteUInt32(op) ==
  /\ op \in Writes
  /\ called[op] = "new"
  /\ \/ called' = [called EXCEPT ![op] = "called"] /\ QueueRequest(<<op, "high">>)
     \/ called' = [called EXCEPT ![op] = "threw"] /\ QueueThrows(<<op, "high">>)
  /\ UNCHANGED <<deviceVars, reported, replies, threads, shared, results>>

-----------------------------------------------------------------------------
ReceiveThread ==
  \/ \E i \in 1 .. Len(replies) : /\ InOrder => i = 1
                                  /\ ReplyToRead(i) \/ ReplyToWrite(i) \/ ReplyWithStatus(i)
  \/ \E op \in Ops : \/ QueueWord(op) \/ QueueAgainThrows(op) \/ QueueLowThrows(op)
                     \/ ReportSuccess(op)

SendThread == \E request \in Requests : RequestFails(request)

Network ==
  \/ ChangeRegister
  \/ \E request \in Requests : Execute(request)
  \/ \E i \in 1 .. Len(replies) : LoseReply(i)

UdpIp ==
  \/ ReceiveThread \/ SendThread \/ Network
  \/ \E op \in Ops : ReportFailure(op) \/ QueueHighWord(op) \/ FailReading(op)

-----------------------------------------------------------------------------
(* Properties.                                                             *)

(***************************************************************************)
(* The callback of a 32-bit read is called once, although there are two or *)
(* three requests, which are answered by two threads, and the client may   *)
(* call back twice for each of them; and if the request for the high word  *)
(* cannot be queued, it is called once by readUInt32 and at most once      *)
(* more.                                                                   *)
(***************************************************************************)
ReadCalledOnce ==
  \A op \in Reads : Len(results[op]) <= IF <<op, "high">> \in thrown THEN 2 ELSE 1

(***************************************************************************)
(* The two words of a successful read come from one request each, and the  *)
(* device has read the high word after the low word: "The high word should *)
(* always be read after the low word."  (If replies overtake each other,   *)
(* there is "still a slim chance" of the opposite.)                        *)
(***************************************************************************)
ReadConsistent ==
  \A op \in Reads : \A i \in 1 .. Len(results[op]) :
    results[op][i].success =>
      /\ results[op][i].low # NoValue
      /\ \E value \in Values : results[op][i].high = {value} /\ results[op][i].low <= value

(***************************************************************************)
(* The device never gets the low word of a write before the high word,     *)
(* which "could cause inconsistent data", whatever is lost, repeated or    *)
(* late; and a write that succeeds has written both.                       *)
(***************************************************************************)
WrittenInOrder ==
  \A op \in Writes :
    /\ <<op, "low">> \in written => <<op, "high">> \in written
    /\ \A i \in 1 .. Len(results[op]) :
         results[op][i].success => {<<op, "high">>, <<op, "low">>} \subseteq written
=============================================================================
