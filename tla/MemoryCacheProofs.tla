-------------------------- MODULE MemoryCacheProofs --------------------------
(***************************************************************************)
(* Theorems about UdpIpMemoryAccess and MemoryCache, for any number of     *)
(* 32-bit reads and writes, and any bounds.                                *)
(***************************************************************************)
EXTENDS MemoryCache, FiniteSetTheorems, SequenceTheorems, TLAPS

LEMMA ValuesAreNumbers == Values \subseteq Nat /\ NoValue \notin Values
  BY UdpIpAssumption DEF Values, NoValue

\* Without takes one reply out and leaves the others in their order.
LEMMA WithoutFacts ==
  ASSUME NEW S, replies \in Seq(S), NEW i \in 1 .. Len(replies)
  PROVE  /\ Without(i) \in Seq(S)
         /\ Len(Without(i)) = Len(replies) - 1
         /\ \A j \in 1 .. Len(Without(i)) :
              Without(i)[j] = IF j < i THEN replies[j] ELSE replies[j + 1]
<1> DEFINE before == SubSeq(replies, 1, i - 1)
           after == SubSeq(replies, i + 1, Len(replies))
<1>1. /\ before \in Seq(S) /\ Len(before) = i - 1
      /\ \A j \in 1 .. i - 1 : before[j] = replies[j]
  OBVIOUS
<1>2. /\ after \in Seq(S) /\ Len(after) = Len(replies) - i
      /\ \A j \in 1 .. Len(replies) - i : after[j] = replies[j + i]
  <2>1. /\ after \in Seq(S)
        /\ Len(after) = IF i + 1 <= Len(replies) THEN Len(replies) - (i + 1) + 1 ELSE 0
        /\ \A j \in 1 .. Len(replies) - (i + 1) + 1 : after[j] = replies[(i + 1) + j - 1]
    <3>1. \A j \in i + 1 .. Len(replies) : replies[j] \in S
      OBVIOUS
    <3>. QED BY <3>1, SubSeqProperties
  <2>. QED BY <2>1
<1>3. /\ before \o after \in Seq(S)
      /\ Len(before \o after) = Len(before) + Len(after)
      /\ \A j \in 1 .. Len(before) + Len(after) : (before \o after)[j] =
           IF j <= Len(before) THEN before[j] ELSE after[j - Len(before)]
  BY <1>1, <1>2, ConcatProperties
<1>4. Without(i) = before \o after
  BY DEF Without
<1>. HIDE DEF before, after
<1>5. \A j \in 1 .. Len(replies) - 1 :
        (before \o after)[j] = IF j < i THEN replies[j] ELSE replies[j + 1]
  BY <1>1, <1>2, <1>3
<1>. QED BY SMTT(30), <1>1, <1>2, <1>3, <1>4, <1>5

\* Append puts an element behind those of the sequence.
LEMMA AppendFacts ==
  ASSUME NEW S, NEW s \in Seq(S), NEW e \in S
  PROVE  /\ Append(s, e) \in Seq(S)
         /\ Len(Append(s, e)) = Len(s) + 1
         /\ \A i \in 1 .. Len(s) : Append(s, e)[i] = s[i]
         /\ Append(s, e)[Len(s) + 1] = e
  OBVIOUS

\* A request that is queued, or whose queuing throws: what becomes of the sets.
Queuing(request) == QueueRequest(request) \/ QueueThrows(request)

LEMMA QueuingFacts ==
  ASSUME NEW request, Queuing(request)
  PROVE  /\ thrown' = thrown \/ thrown' = thrown \cup {request}
         /\ \/ AddRequest(request)
            \/ UNCHANGED <<sent, open>> /\ request \in thrown'
  BY DEF Queuing, QueueRequest, QueueThrows

-----------------------------------------------------------------------------
(* Type correctness.                                                       *)

LEMMA InitTypeOK == Init => TypeOK
<1> SUFFICES ASSUME Init PROVE TypeOK
  OBVIOUS
<1>1. 0 \in Values
  BY UdpIpAssumption DEF Values
<1>2. Cardinality(cacheUInt32) <= 1
  BY FS_EmptySet DEF Init
<1>. QED
  BY <1>1, <1>2, UdpIpAssumption
     DEF Init, UdpInit, TypeOK, UdpTypeOK, Todo, SharedStates, Results, Failure

LEMMA QueuingTypes ==
  ASSUME UdpTypeOK, NEW request \in Requests, Queuing(request)
  PROVE  /\ sent' \subseteq Requests /\ open' \subseteq sent' /\ reported \subseteq sent'
         /\ thrown' \subseteq Requests
<1>1. /\ sent \subseteq Requests /\ open \subseteq sent /\ reported \subseteq sent
      /\ thrown \subseteq Requests
  BY DEF UdpTypeOK
<1>2. thrown' \subseteq Requests
  BY <1>1, QueuingFacts
<1>3. CASE AddRequest(request)
  BY <1>1, <1>2, <1>3 DEF AddRequest
<1>4. CASE UNCHANGED <<sent, open>>
  BY <1>1, <1>2, <1>4
<1>. QED BY <1>3, <1>4, QueuingFacts

LEMMA NextTypeOK == TypeOK /\ [Next]_vars => TypeOK'
<1> SUFFICES ASSUME TypeOK, [Next]_vars PROVE TypeOK'
  OBVIOUS
<1> USE DEF TypeOK, UdpTypeOK
<1>a. /\ \A op \in Reads : <<op, "low">> \in Requests /\ <<op, "high">> \in Requests
      /\ \A op \in Reads : <<op, "again">> \in Requests
      /\ \A op \in Writes : <<op, "high">> \in Requests /\ <<op, "low">> \in Requests
      /\ \A request \in Requests : request[1] \in Ops
  BY DEF Requests, Ops
<1>b. /\ Idle \in Todo /\ Reads \subseteq Ops /\ Writes \subseteq Ops
      /\ \A op \in Ops : <<"success", op>> \in Todo /\ <<"failure", op>> \in Todo
      /\ \A op \in Reads : <<"again", op>> \in Todo
      /\ \A op \in Writes : <<"low", op>> \in Todo
  BY DEF Todo, Ops
<1>1. ASSUME NEW r \in Reads, LookUp(r) PROVE TypeOK'
  BY <1>1 DEF LookUp, udpVars, deviceVars, clientVars, threads
<1>2. ASSUME NEW r \in Reads, StartReading(r) PROVE TypeOK'
  <2>1. Queuing(<<r, "low">>) /\ <<r, "low">> \in Requests
    BY <1>a, <1>2 DEF StartReading, ReadUInt32, Queuing
  <2>2. sent' \subseteq Requests /\ open' \subseteq sent' /\ reported \subseteq sent' /\ thrown' \subseteq Requests
    BY <2>1, QueuingTypes
  <2>3. called' \in [Ops -> {"new", "queuing", "failing", "called", "threw"}]
    BY <1>2 DEF StartReading, ReadUInt32
  <2>. QED BY <1>2, <2>2, <2>3 DEF StartReading, ReadUInt32, cacheVars, deviceVars, threads
<1>3. ASSUME NEW r \in Reads, GetResult(r) PROVE TypeOK'
  <2>1. results[r] \in Seq(Results) /\ results[r] # <<>>
    BY <1>b, <1>3 DEF GetResult
  <2>2. results[r][Len(results[r])] \in Results
    BY <2>1
  <2>. QED BY <1>3, <2>2 DEF GetResult, udpVars, deviceVars, clientVars, threads
<1>4. ASSUME NEW r \in Reads, Emplace(r) PROVE TypeOK'
  <2>1. cacheUInt32' \in {{value[r]}, cacheUInt32}
    BY <1>4 DEF Emplace, Cached
  <2>2. value[r] \in Results
    OBVIOUS
  <2>3. Cardinality({value[r]}) = 1
    BY FS_Singleton
  <2>4. cacheUInt32' \subseteq Results /\ Cardinality(cacheUInt32') <= 1
    <3>1. CASE cacheUInt32' = {value[r]}
      BY <2>2, <2>3, <3>1
    <3>2. CASE cacheUInt32' = cacheUInt32
      BY <3>2
    <3>. QED BY <2>1, <3>1, <3>2
  <2>5. value' \in [Reads -> Results]
    BY <1>4, <2>4 DEF Emplace
  <2>. QED BY <1>4, <2>4, <2>5 DEF Emplace, udpVars, deviceVars, clientVars, threads
<1>5. ASSUME NEW op \in Writes, WriteUInt32(op), UNCHANGED cacheVars PROVE TypeOK'
  <2>1. Queuing(<<op, "high">>) /\ <<op, "high">> \in Requests
    BY <1>a, <1>5 DEF WriteUInt32, Queuing
  <2>2. sent' \subseteq Requests /\ open' \subseteq sent' /\ reported \subseteq sent' /\ thrown' \subseteq Requests
    BY <2>1, QueuingTypes
  <2>3. called' \in [Ops -> {"new", "queuing", "failing", "called", "threw"}]
    BY <1>5 DEF WriteUInt32
  <2>. QED BY <1>5, <2>2, <2>3 DEF WriteUInt32, cacheVars, deviceVars, threads
<1>6. ASSUME NEW op \in Ops, QueueHighWord(op), UNCHANGED cacheVars PROVE TypeOK'
  <2>1. Queuing(<<op, "high">>) /\ <<op, "high">> \in Requests
    BY <1>a, <1>6 DEF QueueHighWord, Queuing, Ops
  <2>2. sent' \subseteq Requests /\ open' \subseteq sent' /\ reported \subseteq sent' /\ thrown' \subseteq Requests
    BY <2>1, QueuingTypes
  <2>3. called' \in [Ops -> {"new", "queuing", "failing", "called", "threw"}]
    BY <1>6 DEF QueueHighWord
  <2>. QED BY <1>6, <2>2, <2>3 DEF QueueHighWord, cacheVars, deviceVars, threads
<1>7. ASSUME ChangeRegister, UNCHANGED cacheVars PROVE TypeOK'
  <2>1. register' \in Values
    BY <1>7, UdpIpAssumption DEF ChangeRegister, Values
  <2>. QED BY <1>7, <2>1 DEF ChangeRegister, cacheVars, clientVars, threads
<1>8. ASSUME NEW request \in Requests, Execute(request), UNCHANGED cacheVars PROVE TypeOK'
  <2>1. <<request, register>> \in Replies /\ <<request, NoValue>> \in Replies
    BY DEF Replies
  <2>2. replies' \in Seq(Replies) /\ Len(replies') <= MaxReplies
    <3>1. Len(replies) \in Nat /\ Len(replies) < MaxReplies
      BY <1>8 DEF Execute
    <3>2. \E reply \in Replies : replies' = Append(replies, reply)
      BY <1>8, <2>1 DEF Execute
    <3>. QED BY <3>1, <3>2, AppendFacts, UdpIpAssumption
  <2>3. written' \subseteq Requests
    BY <1>8 DEF Execute
  <2>. QED BY <1>8, <2>2, <2>3 DEF Execute, cacheVars, threads
<1>9. ASSUME NEW i \in 1 .. Len(replies), replies' = Without(i)
      PROVE  replies' \in Seq(Replies) /\ Len(replies') <= MaxReplies
  BY <1>9, WithoutFacts, UdpIpAssumption
<1>10. ASSUME NEW i \in 1 .. Len(replies), LoseReply(i), UNCHANGED cacheVars PROVE TypeOK'
  BY <1>9, <1>10 DEF LoseReply, cacheVars, deviceVars, threads
<1>11. ASSUME NEW i \in 1 .. Len(replies)
       PROVE  replies[i][1] \in Requests /\ replies[i][2] \in Values \cup {NoValue}
  BY DEF Replies
<1>12. ASSUME NEW i \in 1 .. Len(replies), ReplyToRead(i), UNCHANGED cacheVars PROVE TypeOK'
  <2>1. PICK op \in Reads, word \in Values : ReceivedLow(op, word) \/ ReceivedHigh(op, word)
    BY <1>11, <1>12 DEF ReplyToRead
  <2>2. receiveThread' \in Todo
    BY ZenonT(60), <1>b, <2>1 DEF ReceivedLow, ReceivedHigh
  <2>3. shared' \in [Reads -> SharedStates]
    <3>1. CASE UNCHANGED shared
      BY <3>1
    <3>2. CASE shared' = [shared EXCEPT ![op].gotLow = TRUE, ![op].low = word,
                                        ![op].gotHigh = FALSE, ![op].high = {}]
      <4>1. [shared[op] EXCEPT !.gotLow = TRUE, !.low = word, !.gotHigh = FALSE, !.high = {}]
              \in SharedStates
        BY ZenonT(60) DEF SharedStates
      <4>. QED BY <3>2, <4>1
    <3>3. CASE shared' = [shared EXCEPT ![op].gotHigh = TRUE, ![op].high = @ \cup {word}]
      <4>1. [shared[op] EXCEPT !.gotHigh = TRUE, !.high = @ \cup {word}] \in SharedStates
        BY ZenonT(60) DEF SharedStates
      <4>. QED BY <3>3, <4>1
    <3>. QED BY <2>1, <3>1, <3>2, <3>3 DEF ReceivedLow, ReceivedHigh
  <2>. QED BY <1>9, <1>12, <2>2, <2>3 DEF ReplyToRead, Answered, Callbacks!Answer, cacheVars, deviceVars
<1>13. ASSUME NEW i \in 1 .. Len(replies), ReplyToWrite(i), UNCHANGED cacheVars PROVE TypeOK'
  <2>1. receiveThread' \in Todo
    BY <1>b, <1>13 DEF ReplyToWrite
  <2>. QED BY <1>9, <1>13, <2>1 DEF ReplyToWrite, Answered, Callbacks!Answer, cacheVars, deviceVars
<1>14. ASSUME NEW op \in Ops
       PROVE  SharedAfterFailure(op) \in [Reads -> SharedStates] /\ NextOfFailure(op) \in Todo
  BY ZenonT(60), <1>b DEF SharedAfterFailure, NextOfFailure, SharedStates
<1>15. ASSUME NEW i \in 1 .. Len(replies), ReplyWithStatus(i), UNCHANGED cacheVars PROVE TypeOK'
  <2>1. replies[i][1][1] \in Ops
    BY <1>a, <1>11
  <2>. QED BY <1>9, <1>14, <1>15, <2>1 DEF ReplyWithStatus, Answered, Callbacks!Answer, cacheVars, deviceVars
<1>16. ASSUME NEW request \in Requests, RequestFails(request), UNCHANGED cacheVars PROVE TypeOK'
  <2>1. request[1] \in Ops
    BY <1>a
  <2>. QED BY <1>14, <1>16, <2>1 DEF RequestFails, Callbacks!Answer, Callbacks!Report, cacheVars, deviceVars
<1>17. ASSUME NEW op \in Ops, QueueWord(op), UNCHANGED cacheVars PROVE TypeOK'
  <2>1. PICK word \in {"again", "low"} : receiveThread = <<word, op>> /\ QueueRequest(<<op, word>>)
    BY <1>17 DEF QueueWord
  <2>2. <<op, word>> \in Requests
    BY <1>a, <2>1 DEF Todo, Idle
  <2>. QED BY <1>b, <1>17, <2>1, <2>2 DEF QueueWord, QueueRequest, AddRequest, cacheVars, deviceVars
<1>18. ASSUME NEW op \in Ops, ReportSuccess(op), UNCHANGED cacheVars PROVE TypeOK'
  <2> DEFINE result == [success |-> TRUE,
                        low |-> IF op \in Reads THEN shared[op].low ELSE NoValue,
                        high |-> IF op \in Reads THEN shared[op].high ELSE {}]
  <2>1. result \in Results
    BY DEF Results, SharedStates
  <2>2. results[op] \in Seq(Results)
    OBVIOUS
  <2>3. results' = [results EXCEPT ![op] = Append(@, result)]
    BY <1>18 DEF ReportSuccess
  <2>4. results' \in [Ops -> Seq(Results)]
    BY <2>1, <2>2, <2>3
  <2>. QED BY <1>b, <1>18, <2>4 DEF ReportSuccess, cacheVars, deviceVars, clientVars
<1>19. ASSUME NEW op \in Ops, ReportFailure(op), UNCHANGED cacheVars PROVE TypeOK'
  <2>1. Failure \in Results /\ results[op] \in Seq(Results)
    BY DEF Failure, Results
  <2>2. results' \in [Ops -> Seq(Results)]
    BY <1>19, <2>1 DEF ReportFailure
  <2>. QED BY <1>b, <1>19, <2>2 DEF ReportFailure, cacheVars, deviceVars, clientVars
<1>20. CASE UNCHANGED vars
  BY <1>20 DEF vars, cacheVars, udpVars, deviceVars, clientVars, threads
<1>21. ASSUME NEW op \in Ops, QueueAgainThrows(op) \/ QueueLowThrows(op), UNCHANGED cacheVars
       PROVE  TypeOK'
  <2>1. PICK word \in {"again", "low"} : receiveThread = <<word, op>> /\ Queuing(<<op, word>>)
    BY <1>21 DEF QueueAgainThrows, QueueLowThrows, Queuing
  <2>2. <<op, word>> \in Requests
    BY <1>a, <2>1 DEF Todo, Idle
  <2>3. sent' \subseteq Requests /\ open' \subseteq sent' /\ reported \subseteq sent' /\ thrown' \subseteq Requests
    BY <2>1, <2>2, QueuingTypes
  <2>4. receiveThread' \in Todo
    BY <1>b, <1>21 DEF QueueAgainThrows, QueueLowThrows
  <2>. QED BY <1>21, <2>3, <2>4 DEF QueueAgainThrows, QueueLowThrows, cacheVars, deviceVars
<1>22. ASSUME NEW op \in Ops, FailReading(op), UNCHANGED cacheVars PROVE TypeOK'
  <2>1. Failure \in Results /\ results[op] \in Seq(Results)
    BY DEF Failure, Results
  <2>2. results' \in [Ops -> Seq(Results)]
    BY <1>22, <2>1 DEF FailReading
  <2>. QED BY <1>22, <2>2 DEF FailReading, cacheVars, deviceVars, clientVars, threads
<1>. QED
  BY <1>1, <1>2, <1>3, <1>4, <1>5, <1>6, <1>7, <1>8, <1>10, <1>12, <1>13, <1>15, <1>16,
     <1>17, <1>18, <1>19, <1>20, <1>21, <1>22
     DEF Next, Reader, UdpIp, ReceiveThread, SendThread, Network

(***************************************************************************)
(* Every variable of the 32-bit accesses and of the cache keeps its type,  *)
(* and a register is cached at most once.                                  *)
(***************************************************************************)
THEOREM TypeCorrect == Spec => []TypeOK
  BY InitTypeOK, NextTypeOK, PTL DEF Spec

-----------------------------------------------------------------------------
(* The callback of a read.                                                 *)

Complete(op) == shared[op].gotLow /\ shared[op].gotHigh

\* The call that readUInt32 itself makes.
OwnCalls(op) == IF <<op, "high">> \in thrown /\ called[op] = "called" THEN 1 ELSE 0

\* The calls that are made by the callbacks for the words.
SharedCalls(op) == Len(results[op]) - OwnCalls(op)

\* Whichever thread decides first how a read ends is the only one to report it:
\* from then on UInt32ReadShared is complete or has failed.
ReportedOnce(op) ==
  /\ <<op, "high">> \in thrown => called[op] \in {"failing", "called"}
  /\ called[op] = "failing" => <<op, "high">> \in thrown
  /\ SharedCalls(op) <= 1
  /\ SharedCalls(op) > 0 => /\ shared[op].failed \/ Complete(op)
                            /\ receiveThread \notin {<<"success", op>>, <<"failure", op>>}
                            /\ sendThread # <<"failure", op>>
  /\ receiveThread = <<"success", op>> => Complete(op) /\ sendThread # <<"failure", op>>
  /\ receiveThread = <<"failure", op>> => shared[op].failed /\ sendThread # <<"failure", op>>
  /\ sendThread = <<"failure", op>> => shared[op].failed

OnceInv == \A op \in Reads : ReportedOnce(op)

\* Steps that neither make a call nor decide to make one.
LEMMA QuietOnce ==
  ASSUME TypeOK, OnceInv, UNCHANGED shared,
         \A op \in Reads :
           /\ SharedCalls(op)' = SharedCalls(op)
           /\ <<op, "high">> \in thrown' => called'[op] \in {"failing", "called"}
           /\ called'[op] = "failing" => <<op, "high">> \in thrown'
           /\ receiveThread' \in {<<"success", op>>, <<"failure", op>>} => UNCHANGED receiveThread
           /\ sendThread' = <<"failure", op>> => UNCHANGED sendThread
  PROVE  OnceInv'
<1> SUFFICES ASSUME NEW op \in Reads PROVE ReportedOnce(op)'
  BY DEF OnceInv
<1>1. shared'[op] = shared[op] /\ ReportedOnce(op)
  BY DEF OnceInv
<1>. QED BY <1>1 DEF ReportedOnce, Complete

\* The calls stay the same if neither the callback is called nor readUInt32 goes on.
LEMMA SameCalls ==
  ASSUME OnceInv, UNCHANGED <<results, called>>,
         \A op \in Reads : <<op, "high">> \in thrown' <=> <<op, "high">> \in thrown
  PROVE  \A op \in Reads :
           /\ SharedCalls(op)' = SharedCalls(op)
           /\ <<op, "high">> \in thrown' => called'[op] \in {"failing", "called"}
           /\ called'[op] = "failing" => <<op, "high">> \in thrown'
  BY DEF OnceInv, ReportedOnce, SharedCalls, OwnCalls

LEMMA NextOnceInv == TypeOK /\ OnceInv /\ [Next]_vars => OnceInv'
<1> SUFFICES ASSUME TypeOK, OnceInv, [Next]_vars PROVE OnceInv'
  OBVIOUS
<1>a. /\ shared \in [Reads -> SharedStates]
      /\ Reads \subseteq Ops /\ Writes \subseteq Ops /\ Reads \cap Writes = {}
      /\ results \in [Ops -> Seq(Results)]
      /\ called \in [Ops -> {"new", "queuing", "failing", "called", "threw"}]
      /\ replies \in Seq(Replies)
      /\ receiveThread \in Todo /\ sendThread \in Todo
      /\ \A request \in Requests : request[1] \in Ops
  BY UdpIpAssumption DEF TypeOK, UdpTypeOK, Ops, Requests
<1>b. \A op \in Ops : Idle # <<"success", op>> /\ Idle # <<"failure", op>>
  BY DEF Idle
<1>1. ASSUME NEW r \in Reads, Reader(r) PROVE OnceInv'
  <2>1. CASE UNCHANGED udpVars
    BY <2>1, SameCalls, QuietOnce DEF udpVars, threads, clientVars
  <2>2. CASE ReadUInt32(r)
    <3>1. /\ called[r] = "new" /\ UNCHANGED <<results, shared, receiveThread, sendThread>>
          /\ called' = [called EXCEPT ![r] = "queuing"] \/ called' = [called EXCEPT ![r] = "threw"]
          /\ thrown' \in {thrown, thrown \cup {<<r, "low">>}}
      BY <2>2 DEF ReadUInt32, QueueRequest, QueueThrows, threads
    <3>2. ASSUME NEW op \in Reads
          PROVE  /\ SharedCalls(op)' = SharedCalls(op)
                 /\ <<op, "high">> \in thrown' => called'[op] \in {"failing", "called"}
                 /\ called'[op] = "failing" => <<op, "high">> \in thrown'
      <4>1. (<<op, "high">> \in thrown' <=> <<op, "high">> \in thrown) /\ ReportedOnce(op)
        BY <3>1 DEF OnceInv
      <4>. QED BY <1>a, <3>1, <4>1 DEF ReportedOnce, SharedCalls, OwnCalls
    <3>. QED BY <3>1, <3>2, QuietOnce
  <2>. QED BY <1>1, <2>1, <2>2 DEF Reader, LookUp, StartReading, GetResult, Emplace
<1>2. ASSUME NEW op \in Ops, (op \in Writes /\ WriteUInt32(op)) \/ QueueHighWord(op)
      PROVE  OnceInv'
  <2>1. /\ UNCHANGED <<results, shared, receiveThread, sendThread>>
        /\ op \in Reads => called[op] = "queuing"
        /\ \/ /\ called' = [called EXCEPT ![op] = "called"]
              /\ thrown' = thrown
           \/ /\ op \in Reads => called' = [called EXCEPT ![op] = "failing"]
              /\ thrown' = thrown \cup {<<op, "high">>}
        /\ \A o \in Ops : o # op => called'[o] = called[o]
    BY <1>2, <1>a DEF WriteUInt32, QueueHighWord, QueueRequest, QueueThrows, threads
  <2>2. ASSUME NEW o \in Reads
        PROVE  /\ SharedCalls(o)' = SharedCalls(o)
               /\ <<o, "high">> \in thrown' => called'[o] \in {"failing", "called"}
               /\ called'[o] = "failing" => <<o, "high">> \in thrown'
    <3>1. ReportedOnce(o) /\ o \in Ops
      BY <1>a DEF OnceInv
    <3>2. CASE o = op
      BY <1>a, <2>1, <3>1, <3>2 DEF ReportedOnce, SharedCalls, OwnCalls
    <3>3. CASE o # op
      <4>1. <<o, "high">> \in thrown' <=> <<o, "high">> \in thrown
        BY <2>1, <3>3
      <4>. QED BY <2>1, <3>1, <3>3, <4>1 DEF ReportedOnce, SharedCalls, OwnCalls
    <3>. QED BY <3>2, <3>3
  <2>. QED BY <2>1, <2>2, QuietOnce
<1>3. ASSUME Network PROVE OnceInv'
  BY <1>3, SameCalls, QuietOnce DEF Network, ChangeRegister, Execute, LoseReply, threads, clientVars
<1>4. ASSUME NEW i \in 1 .. Len(replies), ReplyToRead(i) PROVE OnceInv'
  <2>1. PICK op \in Reads, word \in Values : ReceivedLow(op, word) \/ ReceivedHigh(op, word)
    BY <1>4 DEF ReplyToRead, TypeOK, UdpTypeOK, Replies
  <2>2. receiveThread = Idle /\ UNCHANGED <<results, called, thrown, sendThread>>
    BY <1>4 DEF ReplyToRead, Answered
  <2>3. CASE UNCHANGED shared /\ receiveThread' = Idle
    BY <1>b, <1>a, <2>2, <2>3, SameCalls, QuietOnce
  <2>4. CASE ~(UNCHANGED shared /\ receiveThread' = Idle)
    <3> SUFFICES ASSUME NEW o \in Reads PROVE ReportedOnce(o)'
      BY DEF OnceInv
    <3>1. /\ shared'[o].failed = shared[o].failed
          /\ o # op => shared'[o] = shared[o]
      BY <1>a, <2>1 DEF ReceivedLow, ReceivedHigh, SharedStates
    <3>2. /\ ~shared[op].failed /\ ~Complete(op)
          /\ receiveThread' # Idle => receiveThread' \in {<<"again", op>>, <<"success", op>>}
          /\ receiveThread' = <<"success", op>> => Complete(op)'
      <4>1. shared[op] \in SharedStates
        BY <1>a
      <4>2. CASE ReceivedLow(op, word)
        BY <2>4, <4>1, <4>2 DEF ReceivedLow, Complete, SharedStates, Idle
      <4>3. CASE ReceivedHigh(op, word)
        <5>1. ~shared[op].failed /\ ~shared[op].gotHigh
          BY <2>4, <4>3 DEF ReceivedHigh
        <5>2. shared'[op].gotHigh /\ shared'[op].gotLow = shared[op].gotLow
          BY <1>a, <4>1, <4>3, <5>1 DEF ReceivedHigh, SharedStates
        <5>. QED BY <4>1, <4>3, <5>1, <5>2 DEF ReceivedHigh, Complete, SharedStates, Idle
      <4>. QED BY <2>1, <4>2, <4>3
    <3>3. ReportedOnce(o) /\ ReportedOnce(op)
      BY DEF OnceInv
    <3>4. /\ SharedCalls(o)' = SharedCalls(o)
          /\ <<o, "high">> \in thrown' => called'[o] \in {"failing", "called"}
          /\ called'[o] = "failing" => <<o, "high">> \in thrown'
      BY <2>2, SameCalls
    <3>. QED BY <1>b, <1>a, <2>2, <3>1, <3>2, <3>3, <3>4 DEF ReportedOnce, Complete
  <2>. QED BY <2>3, <2>4
<1>5. ASSUME NEW i \in 1 .. Len(replies), ReplyToWrite(i) PROVE OnceInv'
  <2>1. \A op \in Reads : receiveThread' \notin {<<"success", op>>, <<"failure", op>>}
    BY <1>5, <1>a DEF ReplyToWrite
  <2>. QED BY <1>5, <2>1, SameCalls, QuietOnce DEF ReplyToWrite, Answered
\* How an operation fails, in either thread.
<1>6. ASSUME NEW op \in Ops, shared' = SharedAfterFailure(op), UNCHANGED <<results, called, thrown>>,
             \/ /\ receiveThread = Idle /\ receiveThread' = NextOfFailure(op)
                /\ UNCHANGED sendThread
             \/ /\ sendThread = Idle /\ sendThread' = NextOfFailure(op)
                /\ UNCHANGED receiveThread
      PROVE  OnceInv'
  <2> SUFFICES ASSUME NEW o \in Reads PROVE ReportedOnce(o)'
    BY DEF OnceInv
  <2>1. /\ ReportedOnce(o) /\ SharedCalls(o)' = SharedCalls(o)
        /\ <<o, "high">> \in thrown' => called'[o] \in {"failing", "called"}
        /\ called'[o] = "failing" => <<o, "high">> \in thrown'
    BY <1>6, SameCalls DEF OnceInv
  <2>2. CASE o = op
    <3>1. /\ shared'[o].failed /\ (Complete(o) => Complete(o)')
          /\ NextOfFailure(op) = IF shared[o].failed \/ Complete(o) THEN Idle ELSE <<"failure", o>>
      BY <1>6, <1>a, <2>2 DEF SharedAfterFailure, NextOfFailure, Complete, SharedStates
    <3>. QED BY <1>6, <1>b, <1>a, <2>1, <3>1 DEF ReportedOnce
  <2>3. CASE o # op
    <3>1. shared'[o] = shared[o]
      BY <1>6, <1>a, <2>3 DEF SharedAfterFailure
    <3>2. NextOfFailure(op) \notin {<<"success", o>>, <<"failure", o>>}
      BY <1>b, <1>a, <2>3 DEF NextOfFailure
    <3>. QED BY <1>6, <2>1, <3>1, <3>2 DEF ReportedOnce, Complete
  <2>. QED BY <2>2, <2>3
<1>7. ASSUME NEW i \in 1 .. Len(replies), ReplyWithStatus(i) PROVE OnceInv'
  <2>1. replies[i][1][1] \in Ops
    BY <1>a DEF Replies
  <2>. QED BY <1>6, <1>7, <2>1 DEF ReplyWithStatus, Answered
<1>8. ASSUME NEW request \in Requests, RequestFails(request) PROVE OnceInv'
  BY <1>6, <1>8, <1>a DEF RequestFails
<1>9. ASSUME NEW op \in Ops, QueueWord(op) PROVE OnceInv'
  <2>1. \A o \in Reads : receiveThread' \notin {<<"success", o>>, <<"failure", o>>}
    BY <1>9, <1>b, <1>a DEF QueueWord
  <2>. QED BY <1>9, <2>1, SameCalls, QuietOnce DEF QueueWord, QueueRequest
<1>14. ASSUME NEW op \in Ops, QueueAgainThrows(op) \/ QueueLowThrows(op) PROVE OnceInv'
  <2>1. PICK word \in {"again", "low"} :
          /\ receiveThread = <<word, op>> /\ thrown' = thrown \cup {<<op, word>>}
          /\ receiveThread' \in {Idle, <<"failure", op>>}
          /\ word = "again" => receiveThread' = Idle
          /\ UNCHANGED <<results, called, shared, sendThread>>
    BY <1>14 DEF QueueAgainThrows, QueueLowThrows, QueueThrows
  <2>2. \A o \in Reads : <<o, "high">> \in thrown' <=> <<o, "high">> \in thrown
    BY <2>1
  <2>3. \A o \in Reads : receiveThread' \notin {<<"success", o>>, <<"failure", o>>}
    <3>1. word = "low" => op \in Writes
      BY <1>a, <2>1 DEF Todo, Idle
    <3>. QED BY <1>a, <1>b, <2>1, <3>1
  <2>. QED BY <2>1, <2>2, <2>3, SameCalls, QuietOnce
\* The call that readUInt32 makes is counted as its own.
<1>15. ASSUME NEW op \in Ops, FailReading(op) PROVE OnceInv'
  <2>1. /\ called[op] = "failing" /\ called' = [called EXCEPT ![op] = "called"]
        /\ results' = [results EXCEPT ![op] = Append(@, Failure)]
        /\ UNCHANGED <<thrown, shared, receiveThread, sendThread>>
    BY <1>15 DEF FailReading, clientVars, threads
  <2>2. Len(results'[op]) = Len(results[op]) + 1 /\ Len(results[op]) \in Nat
    <3>1. results[op] \in Seq(Results) /\ Failure \in Results
      BY <1>a DEF Failure, Results
    <3>. QED BY <1>a, <2>1, <3>1
  <2>3. ASSUME NEW o \in Reads
        PROVE  /\ SharedCalls(o)' = SharedCalls(o)
               /\ <<o, "high">> \in thrown' => called'[o] \in {"failing", "called"}
               /\ called'[o] = "failing" => <<o, "high">> \in thrown'
    <3>1. ReportedOnce(o) /\ o \in Ops
      BY <1>a DEF OnceInv
    <3>2. CASE o = op
      BY <1>a, <2>1, <2>2, <3>1, <3>2 DEF ReportedOnce, SharedCalls, OwnCalls
    <3>3. CASE o # op
      BY <1>a, <2>1, <3>1, <3>3 DEF ReportedOnce, SharedCalls, OwnCalls
    <3>. QED BY <3>2, <3>3
  <2>. QED BY <2>1, <2>3, QuietOnce
<1>10. ASSUME NEW op \in Ops, NEW result \in Results,
              UNCHANGED <<shared, called, thrown>>, results' = [results EXCEPT ![op] = Append(@, result)],
              \/ /\ receiveThread \in {<<"success", op>>, <<"failure", op>>}
                 /\ receiveThread' = Idle /\ UNCHANGED sendThread
              \/ /\ sendThread = <<"failure", op>> /\ sendThread' = Idle
                 /\ UNCHANGED receiveThread
       PROVE  OnceInv'
  <2> SUFFICES ASSUME NEW o \in Reads PROVE ReportedOnce(o)'
    BY DEF OnceInv
  <2>1. ReportedOnce(o)
    BY DEF OnceInv
  <2>2. CASE o = op
    <3>1. ~ (SharedCalls(o) > 0) /\ OwnCalls(o) \in Nat /\ OwnCalls(o)' = OwnCalls(o)
      BY <1>10, <2>1, <2>2 DEF ReportedOnce, OwnCalls
    <3>2. Len(results'[o]) = Len(results[o]) + 1 /\ Len(results[o]) \in Nat
      <4>1. results[o] \in Seq(Results) /\ results'[o] = Append(results[o], result)
        BY <1>10, <1>a, <2>2
      <4>. QED BY <4>1
    <3>3. SharedCalls(o)' <= 1
      BY <3>1, <3>2 DEF SharedCalls
    <3>. QED BY <1>10, <1>b, <1>a, <2>1, <2>2, <3>3 DEF ReportedOnce, Complete
  <2>3. CASE o # op
    <3>1. SharedCalls(o)' = SharedCalls(o)
      BY <1>10, <1>a, <2>3 DEF SharedCalls, OwnCalls
    <3>. QED BY <1>10, <1>b, <1>a, <2>1, <2>3, <3>1 DEF ReportedOnce, Complete
  <2>. QED BY <2>2, <2>3
<1>11. ASSUME NEW op \in Ops, ReportSuccess(op) PROVE OnceInv'
  <2> DEFINE result == [success |-> TRUE,
                        low |-> IF op \in Reads THEN shared[op].low ELSE NoValue,
                        high |-> IF op \in Reads THEN shared[op].high ELSE {}]
  <2>1. result \in Results
    BY DEF Results, SharedStates, TypeOK, UdpTypeOK
  <2>. QED BY <1>10, <1>11, <2>1 DEF ReportSuccess, clientVars
<1>12. ASSUME NEW op \in Ops, ReportFailure(op) PROVE OnceInv'
  <2>1. Failure \in Results
    BY DEF Failure, Results
  <2>. QED BY <1>10, <1>12, <2>1 DEF ReportFailure, clientVars
<1>13. CASE UNCHANGED vars
  BY <1>13, SameCalls, QuietOnce DEF vars, udpVars, threads, clientVars
<1>. QED
  BY <1>1, <1>2, <1>3, <1>4, <1>5, <1>7, <1>8, <1>9, <1>11, <1>12, <1>13, <1>14, <1>15, <1>a
     DEF Next, UdpIp, ReceiveThread, SendThread

LEMMA InitOnceInv == Init => OnceInv
  BY DEF Init, UdpInit, OnceInv, ReportedOnce, SharedCalls, OwnCalls, Idle, Ops

THEOREM OnceInvariant == Spec => []OnceInv
  BY InitOnceInv, NextOnceInv, TypeCorrect, PTL DEF Spec

(***************************************************************************)
(* The callbacks for the words call that of a 32-bit read at most once,    *)
(* although two threads answer its two or three requests and a request     *)
(* that could not be retransmitted may be answered twice.  readUInt32      *)
(* itself calls it once, if queuing the high word throws: only then may it *)
(* be called twice.                                                        *)
(***************************************************************************)
THEOREM ReadCalledOnceHolds == Spec => []ReadCalledOnce
<1>1. TypeOK /\ OnceInv => ReadCalledOnce
  <2> SUFFICES ASSUME TypeOK, OnceInv, NEW op \in Reads
               PROVE  Len(results[op]) <= IF <<op, "high">> \in thrown THEN 2 ELSE 1
    BY DEF ReadCalledOnce
  <2>1. Len(results[op]) \in Nat
    <3>1. results[op] \in Seq(Results)
      BY DEF TypeOK, UdpTypeOK, Ops
    <3>. QED BY <3>1
  <2>2. SharedCalls(op) <= 1
    BY DEF OnceInv, ReportedOnce
  <2>3. OwnCalls(op) \in {0, 1} /\ (OwnCalls(op) = 1 => <<op, "high">> \in thrown)
    BY DEF OwnCalls
  <2>. QED BY <2>1, <2>2, <2>3 DEF SharedCalls
<1>. QED BY <1>1, TypeCorrect, OnceInvariant, PTL

-----------------------------------------------------------------------------
(* The high word of a read is not older than its low word.                 *)

\* Replies carry values in the order in which the device had them.
RepliesOrdered ==
  /\ \A i \in 1 .. Len(replies) : replies[i][2] <= register
  /\ \A i, j \in 1 .. Len(replies) :
       i <= j /\ replies[i][2] # NoValue /\ replies[j][2] # NoValue => replies[i][2] <= replies[j][2]

\* When the low word has been received, only later values can follow.
LaterThanLow(op) ==
  shared[op].gotLow =>
    /\ shared[op].low \in Values /\ shared[op].low <= register
    /\ \A i \in 1 .. Len(replies) : replies[i][2] # NoValue => shared[op].low <= replies[i][2]

\* The high word that is kept is from one request, and not older than the low word.
HighWord(op) ==
  IF shared[op].gotHigh
    THEN \E word \in Values : /\ shared[op].high = {word}
                              /\ shared[op].gotLow => shared[op].low <= word
    ELSE shared[op].high = {}

WordsInv ==
  /\ RepliesOrdered
  /\ \A op \in Reads : LaterThanLow(op) /\ HighWord(op)

LEMMA QuietWords ==
  ASSUME WordsInv, UNCHANGED <<register, replies, shared>>
  PROVE  WordsInv'
  BY DEF WordsInv, RepliesOrdered, LaterThanLow, HighWord

\* A reply leaves the network, whether it is lost or has arrived.
LEMMA FewerReplies ==
  ASSUME TypeOK, WordsInv, NEW i \in 1 .. Len(replies), replies' = Without(i),
         UNCHANGED register
  PROVE  /\ RepliesOrdered'
         /\ \A j \in 1 .. Len(replies') : \E k \in 1 .. Len(replies) :
              replies'[j] = replies[k] /\ (i = 1 => i <= k)
<1>1. replies \in Seq(Replies) /\ Len(replies) \in Nat
  BY DEF TypeOK, UdpTypeOK
<1>2. /\ Len(replies') = Len(replies) - 1
      /\ \A j \in 1 .. Len(replies') : replies'[j] = IF j < i THEN replies[j] ELSE replies[j + 1]
  BY <1>1, WithoutFacts
<1>3. \A j \in 1 .. Len(replies') : \E k \in 1 .. Len(replies) :
        replies'[j] = replies[k] /\ (i = 1 => i <= k)
  BY <1>1, <1>2
<1>4. ASSUME NEW j1 \in 1 .. Len(replies'), NEW j2 \in 1 .. Len(replies'), j1 <= j2
      PROVE  \E k1, k2 \in 1 .. Len(replies) :
               k1 <= k2 /\ replies'[j1] = replies[k1] /\ replies'[j2] = replies[k2]
  <2> DEFINE old(j) == IF j < i THEN j ELSE j + 1
  <2>1. /\ old(j1) \in 1 .. Len(replies) /\ old(j2) \in 1 .. Len(replies)
        /\ old(j1) <= old(j2)
    BY <1>1, <1>2, <1>4
  <2>2. replies'[j1] = replies[old(j1)] /\ replies'[j2] = replies[old(j2)]
    BY <1>2
  <2>. QED BY <2>1, <2>2
<1>5. RepliesOrdered'
  <2>1. RepliesOrdered
    BY DEF WordsInv
  <2>2. \A j \in 1 .. Len(replies') : replies'[j][2] <= register'
    BY <1>3, <2>1 DEF RepliesOrdered
  <2>3. ASSUME NEW j1 \in 1 .. Len(replies'), NEW j2 \in 1 .. Len(replies'), j1 <= j2,
               replies'[j1][2] # NoValue, replies'[j2][2] # NoValue
        PROVE  replies'[j1][2] <= replies'[j2][2]
    <3>1. PICK k1 \in 1 .. Len(replies), k2 \in 1 .. Len(replies) :
            k1 <= k2 /\ replies'[j1] = replies[k1] /\ replies'[j2] = replies[k2]
      BY <1>4, <2>3
    <3>. QED BY <2>1, <2>3, <3>1 DEF RepliesOrdered
  <2>. QED BY <2>2, <2>3 DEF RepliesOrdered
<1>. QED BY <1>3, <1>5

LEMMA NextWordsInv ==
  ASSUME InOrder
  PROVE  TypeOK /\ WordsInv /\ [Next]_vars => WordsInv'
<1> SUFFICES ASSUME TypeOK, WordsInv, [Next]_vars PROVE WordsInv'
  OBVIOUS
<1>a. /\ shared \in [Reads -> SharedStates]
      /\ Reads \subseteq Ops
      /\ replies \in Seq(Replies) /\ Len(replies) \in Nat
      /\ register \in Values /\ Values \subseteq Nat /\ NoValue = -1
      /\ \A i \in 1 .. Len(replies) : replies[i][2] \in Values \cup {NoValue}
      /\ \A request \in Requests : request[1] \in Ops
  BY ValuesAreNumbers DEF TypeOK, UdpTypeOK, Ops, Requests, Replies, NoValue
<1>b. RepliesOrdered /\ \A op \in Reads : LaterThanLow(op) /\ HighWord(op)
  BY DEF WordsInv
<1>1. ASSUME NEW r \in Reads, Reader(r) PROVE WordsInv'
  BY <1>1, QuietWords DEF Reader, LookUp, StartReading, ReadUInt32, GetResult, Emplace, udpVars,
                          deviceVars, clientVars
<1>2. ASSUME NEW op \in Ops, \/ WriteUInt32(op) \/ QueueHighWord(op) \/ FailReading(op)
                             \/ QueueWord(op) \/ QueueAgainThrows(op) \/ QueueLowThrows(op)
                             \/ ReportSuccess(op) \/ ReportFailure(op)
      PROVE  WordsInv'
  BY <1>2, QuietWords DEF WriteUInt32, QueueHighWord, FailReading, QueueWord, QueueAgainThrows,
                          QueueLowThrows, ReportSuccess, ReportFailure, deviceVars, clientVars
<1>3. ASSUME ChangeRegister PROVE WordsInv'
  <2>1. register' = register + 1 /\ UNCHANGED <<replies, shared>>
    BY <1>3 DEF ChangeRegister, clientVars
  <2>2. RepliesOrdered'
    <3>1. ASSUME NEW i \in 1 .. Len(replies) PROVE replies'[i][2] <= register'
      <4>1. replies[i][2] <= register
        BY <1>b DEF RepliesOrdered
      <4>2. register \in Nat /\ replies[i][2] \in Int
        <5>1. register \in Values /\ replies[i][2] \in Values \cup {NoValue}
          BY <1>a
        <5>2. Values \cup {NoValue} \subseteq Int
          BY <1>a
        <5> QED BY <1>a, <5>1, <5>2
      <4>3. register' = register + 1 /\ replies' = replies
        BY <2>1
      <4> QED BY <4>1, <4>2, <4>3
    <3>2. replies' = replies
      BY <2>1
    <3> QED BY <1>b, <3>1, <3>2 DEF RepliesOrdered
  <2>3. ASSUME NEW op \in Reads PROVE LaterThanLow(op)' /\ HighWord(op)'
    <3>1. register \in Nat /\ \A word \in Values : word \in Nat
      BY <1>a
    <3>2. LaterThanLow(op)'
      BY <1>b, <2>1, <3>1 DEF LaterThanLow
    <3>3. HighWord(op)'
      BY <1>b, <2>1 DEF HighWord
    <3>. QED BY <3>2, <3>3
  <2>. QED BY <2>2, <2>3 DEF WordsInv
<1>4. ASSUME NEW request \in Requests, Execute(request) PROVE WordsInv'
  <2>1. PICK answer \in {register, NoValue} : replies' = Append(replies, <<request, answer>>)
    BY <1>4 DEF Execute
  <2>2. UNCHANGED <<register, shared>>
    BY <1>4 DEF Execute
  <2>3. <<request, answer>> \in Replies
    BY <1>a DEF Replies
  <2>4. /\ Len(replies') = Len(replies) + 1
        /\ \A i \in 1 .. Len(replies) : replies'[i] = replies[i]
        /\ replies'[Len(replies) + 1][2] = answer
    BY <1>a, <2>1, <2>3, AppendFacts
  <2>5. RepliesOrdered'
    <3>1. \A i \in 1 .. Len(replies') : i \in 1 .. Len(replies) \/ i = Len(replies) + 1
      BY <1>a, <2>4
    <3>2. answer <= register /\ (answer # NoValue => answer = register)
      BY <1>a
    <3>3. \A i \in 1 .. Len(replies') : replies'[i][2] <= register
      BY <1>b, <2>4, <3>1, <3>2 DEF RepliesOrdered
    <3>4. ASSUME NEW i \in 1 .. Len(replies'), NEW j \in 1 .. Len(replies'), i <= j,
                 replies'[i][2] # NoValue, replies'[j][2] # NoValue
          PROVE  replies'[i][2] <= replies'[j][2]
      <4>1. CASE j \in 1 .. Len(replies)
        <5>1. i \in 1 .. Len(replies)
          BY <1>a, <3>4, <4>1
        <5>. QED BY <1>b, <2>4, <3>4, <4>1, <5>1 DEF RepliesOrdered
      <4>2. CASE j = Len(replies) + 1
        BY <2>4, <3>2, <3>3, <3>4, <4>2
      <4>. QED BY <3>1, <4>1, <4>2
    <3>. QED BY <2>2, <3>3, <3>4 DEF RepliesOrdered
  <2>. QED BY <1>a, <1>b, <2>2, <2>4, <2>5 DEF WordsInv, LaterThanLow, HighWord
<1>5. ASSUME NEW i \in 1 .. Len(replies), LoseReply(i) PROVE WordsInv'
  <2>1. replies' = Without(i) /\ UNCHANGED <<register, shared>>
    BY <1>5 DEF LoseReply, deviceVars
  <2>2. RepliesOrdered' /\ \A j \in 1 .. Len(replies') : \E k \in 1 .. Len(replies) :
                             replies'[j] = replies[k]
    BY <2>1, FewerReplies
  <2>3. ASSUME NEW op \in Reads PROVE LaterThanLow(op)' /\ HighWord(op)'
    <3>1. LaterThanLow(op) /\ HighWord(op)
      BY <1>b
    <3>2. HighWord(op)'
      BY <2>1, <3>1 DEF HighWord
    <3>3. LaterThanLow(op)'
      BY <2>1, <2>2, <3>1 DEF LaterThanLow
    <3>. QED BY <3>2, <3>3
  <2>. QED BY <2>2, <2>3 DEF WordsInv
\* What holds of any reply that is accepted: it is the first one.
<1>6. ASSUME NEW i \in 1 .. Len(replies), InOrder => i = 1, Answered(i)
      PROVE  /\ RepliesOrdered' /\ UNCHANGED register
             /\ \A op \in Reads : shared'[op] = shared[op] => LaterThanLow(op)' /\ HighWord(op)'
             /\ \A j \in 1 .. Len(replies') :
                  replies'[j][2] # NoValue /\ replies[i][2] # NoValue => replies[i][2] <= replies'[j][2]
             /\ \A j \in 1 .. Len(replies') : \E k \in 1 .. Len(replies) :
                  replies'[j] = replies[k]
  <2>1. replies' = Without(i) /\ UNCHANGED register /\ i = 1
    BY <1>6 DEF Answered, deviceVars
  <2>2. RepliesOrdered' /\ \A j \in 1 .. Len(replies') : \E k \in 1 .. Len(replies) :
                             replies'[j] = replies[k] /\ i <= k
    BY <2>1, FewerReplies
  <2>3. \A j \in 1 .. Len(replies') :
          replies'[j][2] # NoValue /\ replies[i][2] # NoValue => replies[i][2] <= replies'[j][2]
    BY <1>b, <2>2 DEF RepliesOrdered
  <2>4. ASSUME NEW op \in Reads, shared'[op] = shared[op] PROVE LaterThanLow(op)' /\ HighWord(op)'
    <3>1. LaterThanLow(op) /\ HighWord(op)
      BY <1>b
    <3>. QED BY <2>1, <2>2, <2>4, <3>1 DEF LaterThanLow, HighWord
  <2>. QED BY <2>1, <2>2, <2>3, <2>4
<1>7. ASSUME NEW i \in 1 .. Len(replies), InOrder => i = 1, ReplyToRead(i) PROVE WordsInv'
  <2>1. PICK op \in Reads : ReceivedLow(op, replies[i][2]) \/ ReceivedHigh(op, replies[i][2])
    BY <1>7 DEF ReplyToRead
  <2> DEFINE word == replies[i][2]
  <2>2. Answered(i) /\ word \in Values /\ word <= register /\ shared[op] \in SharedStates
    BY <1>a, <1>b, <1>7 DEF ReplyToRead, RepliesOrdered
  <2>3. \A o \in Reads : o # op => shared'[o] = shared[o]
    BY <1>a, <2>1 DEF ReceivedLow, ReceivedHigh
  <2>4. LaterThanLow(op)' /\ HighWord(op)'
    <3>1. CASE shared'[op] = shared[op]
      BY <1>6, <1>7, <2>2, <3>1
    <3>2. CASE ReceivedLow(op, word) /\ shared'[op] # shared[op]
      <4>1. /\ shared'[op].gotLow /\ shared'[op].low = word
            /\ ~shared'[op].gotHigh /\ shared'[op].high = {}
        BY <1>a, <2>2, <3>2 DEF ReceivedLow, SharedStates
      <4>. QED BY <1>6, <1>7, <1>a, <2>2, <4>1 DEF LaterThanLow, HighWord
    <3>3. CASE ReceivedHigh(op, word) /\ shared'[op] # shared[op]
      <4>1. /\ ~shared[op].gotHigh /\ shared'[op].gotHigh
            /\ shared'[op].gotLow = shared[op].gotLow /\ shared'[op].low = shared[op].low
            /\ shared'[op].high = shared[op].high \cup {word}
        BY <1>a, <2>2, <3>3 DEF ReceivedHigh, SharedStates
      <4>2. shared[op].high = {} /\ LaterThanLow(op)
        BY <1>b, <4>1 DEF HighWord
      <4>3. HighWord(op)'
        BY <2>2, <1>a, <4>1, <4>2 DEF HighWord, LaterThanLow
      <4>4. LaterThanLow(op)'
        BY <1>6, <1>7, <1>a, <2>2, <4>1, <4>2 DEF LaterThanLow
      <4>. QED BY <4>3, <4>4
    <3>. QED BY <2>1, <3>1, <3>2, <3>3
  <2>. QED BY <1>6, <1>7, <2>2, <2>3, <2>4 DEF WordsInv
<1>8. ASSUME NEW i \in 1 .. Len(replies), InOrder => i = 1, ReplyToWrite(i) PROVE WordsInv'
  BY <1>6, <1>8 DEF ReplyToWrite, WordsInv
\* A failure changes nothing of what has been received.
<1>9. ASSUME NEW op \in Ops
      PROVE  \A o \in Reads : LET failed == SharedAfterFailure(op)[o] IN
               /\ failed.gotLow = shared[o].gotLow /\ failed.low = shared[o].low
               /\ failed.gotHigh = shared[o].gotHigh /\ failed.high = shared[o].high
  BY <1>a DEF SharedAfterFailure, SharedStates
<1>10. ASSUME NEW i \in 1 .. Len(replies), InOrder => i = 1, ReplyWithStatus(i) PROVE WordsInv'
  <2>1. Answered(i) /\ replies[i][1][1] \in Ops /\ shared' = SharedAfterFailure(replies[i][1][1])
    BY <1>a, <1>10 DEF ReplyWithStatus, Replies
  <2>2. \A o \in Reads : /\ shared'[o].gotLow = shared[o].gotLow /\ shared'[o].low = shared[o].low
                         /\ shared'[o].gotHigh = shared[o].gotHigh /\ shared'[o].high = shared[o].high
    BY <1>9, <2>1
  <2>3. /\ RepliesOrdered' /\ UNCHANGED register
        /\ \A j \in 1 .. Len(replies') : \E k \in 1 .. Len(replies) : replies'[j] = replies[k]
    BY <1>6, <1>10, <2>1
  <2>4. ASSUME NEW o \in Reads PROVE LaterThanLow(o)' /\ HighWord(o)'
    <3>1. LaterThanLow(o) /\ HighWord(o)
      BY <1>b
    <3>2. HighWord(o)'
      BY <2>2, <3>1 DEF HighWord
    <3>3. LaterThanLow(o)'
      BY <2>2, <2>3, <3>1 DEF LaterThanLow
    <3>. QED BY <3>2, <3>3
  <2>. QED BY <2>3, <2>4 DEF WordsInv
<1>11. ASSUME NEW request \in Requests, RequestFails(request) PROVE WordsInv'
  <2>1. UNCHANGED <<register, replies>> /\ shared' = SharedAfterFailure(request[1])
    BY <1>11 DEF RequestFails, deviceVars
  <2>2. \A o \in Reads : /\ shared'[o].gotLow = shared[o].gotLow /\ shared'[o].low = shared[o].low
                         /\ shared'[o].gotHigh = shared[o].gotHigh /\ shared'[o].high = shared[o].high
    BY <1>9, <1>a, <2>1
  <2>3. ASSUME NEW o \in Reads PROVE LaterThanLow(o)' /\ HighWord(o)'
    <3>1. LaterThanLow(o) /\ HighWord(o)
      BY <1>b
    <3>. QED BY <2>1, <2>2, <3>1 DEF LaterThanLow, HighWord
  <2>. QED BY <1>b, <2>1, <2>3 DEF WordsInv, RepliesOrdered
<1>12. CASE UNCHANGED vars
  BY <1>12, QuietWords DEF vars, udpVars, deviceVars, clientVars
<1>. QED
  BY <1>1, <1>2, <1>3, <1>4, <1>5, <1>7, <1>8, <1>10, <1>11, <1>12
     DEF Next, UdpIp, ReceiveThread, SendThread, Network, Ops

LEMMA InitWordsInv == Init => WordsInv
  BY DEF Init, UdpInit, WordsInv, RepliesOrdered, LaterThanLow, HighWord

LEMMA NextReadConsistent ==
  TypeOK /\ OnceInv /\ WordsInv /\ ReadConsistent /\ [Next]_vars => ReadConsistent'
<1> SUFFICES ASSUME TypeOK, OnceInv, WordsInv, ReadConsistent, [Next]_vars PROVE ReadConsistent'
  OBVIOUS
<1>a. results \in [Ops -> Seq(Results)] /\ Reads \subseteq Ops
  BY DEF TypeOK, UdpTypeOK, Ops
<1> DEFINE Consistent(result) ==
      result.success =>
        /\ result.low # NoValue
        /\ \E word \in Values : result.high = {word} /\ result.low <= word
<1>1. CASE UNCHANGED results
  BY <1>1 DEF ReadConsistent
<1>2. ASSUME NEW op \in Ops, NEW result \in Results, op \in Reads => Consistent(result),
             results' = [results EXCEPT ![op] = Append(@, result)]
      PROVE  ReadConsistent'
  <2> SUFFICES ASSUME NEW o \in Reads, NEW i \in 1 .. Len(results'[o])
               PROVE  Consistent(results'[o][i])
    BY DEF ReadConsistent
  <2>1. CASE o = op
    <3>1. /\ Len(results'[op]) = Len(results[op]) + 1
          /\ \A j \in 1 .. Len(results[op]) : results'[op][j] = results[op][j]
          /\ results'[op][Len(results[op]) + 1] = result
      BY <1>a, <1>2, AppendFacts
    <3>2. i \in 1 .. Len(results[op]) \/ i = Len(results[op]) + 1
      BY <1>a, <2>1, <3>1
    <3>. QED BY <1>2, <2>1, <3>1, <3>2 DEF ReadConsistent
  <2>2. CASE o # op
    BY <1>a, <1>2, <2>2 DEF ReadConsistent
  <2>. QED BY <2>1, <2>2
<1>3. ASSUME NEW op \in Ops, ReportFailure(op) \/ FailReading(op) PROVE ReadConsistent'
  <2>1. Failure \in Results /\ Consistent(Failure)
    BY DEF Failure, Results
  <2>. QED BY <1>2, <1>3, <2>1 DEF ReportFailure, FailReading
<1>4. ASSUME NEW op \in Ops, ReportSuccess(op) PROVE ReadConsistent'
  <2> DEFINE result == [success |-> TRUE,
                        low |-> IF op \in Reads THEN shared[op].low ELSE NoValue,
                        high |-> IF op \in Reads THEN shared[op].high ELSE {}]
  <2>1. result \in Results
    BY DEF Results, SharedStates, TypeOK, UdpTypeOK
  <2>2. op \in Reads => Complete(op) /\ LaterThanLow(op) /\ HighWord(op)
    BY <1>4 DEF ReportSuccess, OnceInv, ReportedOnce, WordsInv
  <2>3. op \in Reads => Consistent(result)
    BY <2>2, ValuesAreNumbers DEF Complete, LaterThanLow, HighWord
  <2>4. results' = [results EXCEPT ![op] = Append(@, result)]
    BY <1>4 DEF ReportSuccess
  <2>. QED BY <1>2, <2>1, <2>3, <2>4
<1>5. UNCHANGED results \/ \E op \in Ops : ReportSuccess(op) \/ ReportFailure(op) \/ FailReading(op)
  BY DEF Next, Reader, LookUp, StartReading, ReadUInt32, GetResult, Emplace, WriteUInt32, UdpIp,
         ReceiveThread, ReplyToRead, ReplyToWrite, ReplyWithStatus, Answered, QueueWord,
         QueueAgainThrows, QueueLowThrows, SendThread, RequestFails, Network, ChangeRegister, Execute,
         LoseReply, QueueHighWord, vars, udpVars
<1>. QED BY <1>1, <1>3, <1>4, <1>5

(***************************************************************************)
(* If replies are not reordered, a successful read has read the high word  *)
(* once and not before the low word.                                       *)
(***************************************************************************)
THEOREM ReadConsistentHolds ==
  ASSUME InOrder
  PROVE  Spec => []ReadConsistent
<1>1. Init => ReadConsistent
  BY DEF Init, UdpInit, ReadConsistent, Ops
<1>. QED
  BY <1>1, InitWordsInv, NextWordsInv, NextReadConsistent, TypeCorrect, OnceInvariant, PTL DEF Spec

-----------------------------------------------------------------------------
(* The low word is written after the high word.                            *)

\* Whatever is under way because the high word, or both, have been written.
WritesInv ==
  /\ \A i \in 1 .. Len(replies) :
       replies[i][1][1] \in Writes /\ replies[i][2] # NoValue => replies[i][1] \in written
  /\ \A op \in Writes :
       /\ <<op, "low">> \in written \/ <<op, "low">> \in sent \/ receiveThread = <<"low", op>>
            => <<op, "high">> \in written
       /\ receiveThread = <<"success", op>> => {<<op, "high">>, <<op, "low">>} \subseteq written
       /\ \A i \in 1 .. Len(results[op]) :
            results[op][i].success => {<<op, "high">>, <<op, "low">>} \subseteq written

\* Steps that at most add words to those that are written.
LEMMA MoreWritten ==
  ASSUME WritesInv, UNCHANGED <<replies, results>>, written \subseteq written',
         \A op \in Writes :
           /\ <<op, "low">> \in written' => <<op, "low">> \in written \/ <<op, "high">> \in written'
           /\ <<op, "low">> \in sent' => <<op, "low">> \in sent \/ <<op, "high">> \in written'
           /\ receiveThread' = <<"low", op>> => UNCHANGED receiveThread
           /\ receiveThread' = <<"success", op>> => UNCHANGED receiveThread
  PROVE  WritesInv'
  BY DEF WritesInv

LEMMA NextWritesInv == TypeOK /\ WritesInv /\ [Next]_vars => WritesInv'
<1> SUFFICES ASSUME TypeOK, WritesInv, [Next]_vars PROVE WritesInv'
  OBVIOUS
<1>a. /\ results \in [Ops -> Seq(Results)]
      /\ Ops = Reads \cup Writes /\ Reads \cap Writes = {}
      /\ replies \in Seq(Replies) /\ Len(replies) \in Nat
      /\ open \subseteq sent
      /\ \A request \in Requests :
           /\ request[1] \in Ops
           /\ request[1] \in Writes =>
                request \in {<<request[1], "high">>, <<request[1], "low">>}
      /\ \A i \in 1 .. Len(replies) : replies[i][1] \in Requests
  BY UdpIpAssumption DEF TypeOK, UdpTypeOK, Ops, Requests, Replies
<1>b. \A op \in Ops : Idle # <<"success", op>> /\ Idle # <<"failure", op>> /\ Idle # <<"low", op>>
  BY DEF Idle
<1>1. ASSUME NEW r \in Reads, Reader(r) PROVE WritesInv'
  <2>1. /\ UNCHANGED <<replies, results, written, receiveThread>>
        /\ sent' = sent \/ sent' = sent \cup {<<r, "low">>}
    BY <1>1 DEF Reader, LookUp, StartReading, ReadUInt32, QueueRequest, QueueThrows, AddRequest,
                GetResult, Emplace, udpVars, deviceVars, clientVars, threads
  <2>2. \A op \in Writes : <<op, "low">> # <<r, "low">>
    BY <1>a
  <2>. QED BY <2>1, <2>2, MoreWritten
<1>2. ASSUME NEW op \in Ops, WriteUInt32(op) \/ QueueHighWord(op) PROVE WritesInv'
  <2>1. /\ UNCHANGED <<replies, results, written, receiveThread>>
        /\ sent' = sent \/ sent' = sent \cup {<<op, "high">>}
    BY <1>2 DEF WriteUInt32, QueueHighWord, QueueRequest, QueueThrows, AddRequest, deviceVars, threads
  <2>. QED BY <2>1, MoreWritten
<1>3. ASSUME ChangeRegister PROVE WritesInv'
  BY <1>3, MoreWritten DEF ChangeRegister, clientVars, threads
<1>4. ASSUME NEW request \in Requests, Execute(request) PROVE WritesInv'
  <2>1. request \in sent /\ UNCHANGED <<sent, receiveThread, results>>
    BY <1>4, <1>a DEF Execute, threads
  <2>2. PICK answer \in {register, NoValue} :
          /\ replies' = Append(replies, <<request, answer>>)
          /\ written \subseteq written' /\ written' \subseteq written \cup {request}
          /\ request[1] \in Writes /\ answer # NoValue => request \in written'
    BY <1>4, <1>a DEF Execute
  <2>3. <<request, answer>> \in Replies
    BY DEF Replies, TypeOK, UdpTypeOK
  <2>4. /\ Len(replies') = Len(replies) + 1
        /\ \A i \in 1 .. Len(replies) : replies'[i] = replies[i]
        /\ replies'[Len(replies) + 1] = <<request, answer>>
    BY <1>a, <2>2, <2>3, AppendFacts
  <2>5. \A i \in 1 .. Len(replies') :
          replies'[i][1][1] \in Writes /\ replies'[i][2] # NoValue => replies'[i][1] \in written'
    <3>1. \A i \in 1 .. Len(replies') : i \in 1 .. Len(replies) \/ i = Len(replies) + 1
      BY <1>a, <2>4
    <3>. QED BY <2>2, <2>4, <3>1 DEF WritesInv
  <2>. QED BY <2>1, <2>2, <2>5 DEF WritesInv
<1>5. ASSUME NEW i \in 1 .. Len(replies), replies' = Without(i)
      PROVE  \A j \in 1 .. Len(replies') : \E k \in 1 .. Len(replies) : replies'[j] = replies[k]
  <2>1. /\ Len(replies') = Len(replies) - 1
        /\ \A j \in 1 .. Len(replies') :
             replies'[j] = IF j < i THEN replies[j] ELSE replies[j + 1]
    BY <1>5, <1>a, WithoutFacts
  <2>. QED BY <1>a, <2>1
<1>6. ASSUME NEW i \in 1 .. Len(replies), LoseReply(i) PROVE WritesInv'
  <2>1. replies' = Without(i) /\ UNCHANGED <<sent, receiveThread, results, written>>
    BY <1>6 DEF LoseReply, deviceVars, threads
  <2>. QED BY <1>5, <2>1 DEF WritesInv
<1>7. ASSUME NEW i \in 1 .. Len(replies), Answered(i),
             \A op \in Writes : receiveThread' \notin {<<"low", op>>, <<"success", op>>}
      PROVE  WritesInv'
  <2>1. replies' = Without(i) /\ UNCHANGED <<sent, results, written>>
    BY <1>7 DEF Answered, Callbacks!Answer, deviceVars
  <2>. QED BY <1>5, <1>7, <2>1 DEF WritesInv
<1>8. ASSUME NEW i \in 1 .. Len(replies), ReplyToRead(i) PROVE WritesInv'
  <2>1. PICK op \in Reads, word \in Values : ReceivedLow(op, word) \/ ReceivedHigh(op, word)
    BY <1>8 DEF ReplyToRead, TypeOK, UdpTypeOK, Replies
  <2>2. receiveThread' \in {Idle, <<"again", op>>, <<"success", op>>}
    BY <2>1 DEF ReceivedLow, ReceivedHigh
  <2>. QED BY <1>7, <1>8, <1>a, <1>b, <2>2 DEF ReplyToRead
<1>9. ASSUME NEW i \in 1 .. Len(replies), ReplyToWrite(i) PROVE WritesInv'
  <2> DEFINE op == replies[i][1][1]
  <2>1. /\ op \in Writes /\ replies[i][1] \in written
        /\ replies[i][1] \in {<<op, "high">>, <<op, "low">>}
        /\ replies' = Without(i) /\ UNCHANGED <<sent, results, written>>
    BY <1>9, <1>a DEF ReplyToWrite, Answered, Callbacks!Answer, WritesInv, deviceVars
  <2>2. receiveThread' = IF replies[i][1][2] = "high" THEN <<"low", op>> ELSE <<"success", op>>
    BY <1>9 DEF ReplyToWrite
  <2>3. <<op, "high">> \in written
    BY <2>1 DEF WritesInv
  <2>4. receiveThread' = <<"success", op>> => <<op, "low">> \in written
    BY <2>1, <2>2
  <2>5. \A j \in 1 .. Len(replies') : \E k \in 1 .. Len(replies) : replies'[j] = replies[k]
    BY <1>5, <2>1
  <2>6. ASSUME NEW j \in 1 .. Len(replies'), replies'[j][1][1] \in Writes, replies'[j][2] # NoValue
        PROVE  replies'[j][1] \in written'
    BY <2>1, <2>5, <2>6 DEF WritesInv
  <2>7. ASSUME NEW o \in Writes
        PROVE  /\ <<o, "low">> \in written' \/ <<o, "low">> \in sent'
                    \/ receiveThread' = <<"low", o>>
                    => <<o, "high">> \in written'
               /\ receiveThread' = <<"success", o>> => {<<o, "high">>, <<o, "low">>} \subseteq written'
               /\ \A k \in 1 .. Len(results'[o]) :
                    results'[o][k].success => {<<o, "high">>, <<o, "low">>} \subseteq written'
    BY <2>1, <2>2, <2>3, <2>4 DEF WritesInv
  <2>. QED BY <2>6, <2>7 DEF WritesInv
<1>10. ASSUME NEW i \in 1 .. Len(replies), ReplyWithStatus(i) PROVE WritesInv'
  <2>1. receiveThread' \in {Idle, <<"failure", replies[i][1][1]>>}
    BY <1>10 DEF ReplyWithStatus, NextOfFailure
  <2>. QED BY <1>7, <1>10, <1>a, <1>b, <2>1 DEF ReplyWithStatus
<1>11. ASSUME NEW request \in Requests, RequestFails(request) PROVE WritesInv'
  BY <1>11, MoreWritten DEF RequestFails, Callbacks!Answer, Callbacks!Report, deviceVars
<1>12. ASSUME NEW op \in Ops, QueueWord(op) \/ QueueAgainThrows(op) \/ QueueLowThrows(op)
       PROVE  WritesInv'
  <2>1. PICK word \in {"again", "low"} :
          receiveThread = <<word, op>> /\ (sent' = sent \/ sent' = sent \cup {<<op, word>>})
    BY <1>12 DEF QueueWord, QueueAgainThrows, QueueLowThrows, QueueRequest, QueueThrows, AddRequest
  <2>2. receiveThread' \in {Idle, <<"failure", op>>} /\ UNCHANGED <<written, replies, results>>
    BY <1>12 DEF QueueWord, QueueAgainThrows, QueueLowThrows, deviceVars
  <2>3. \A o \in Writes : <<o, "low">> \in sent' => <<o, "low">> \in sent \/ <<o, "high">> \in written'
    <3>1. \A o \in Writes : <<o, "low">> \in sent' \ sent => receiveThread = <<"low", o>>
      BY <2>1
    <3>. QED BY <2>2, <3>1 DEF WritesInv
  <2>4. \A o \in Writes : receiveThread' \notin {<<"low", o>>, <<"success", o>>}
    BY <1>b, <2>2, <1>a
  <2>. QED BY <1>a, <1>b, <2>2, <2>3, <2>4, MoreWritten
<1>13. ASSUME NEW op \in Ops, NEW result \in Results,
              results' = [results EXCEPT ![op] = Append(@, result)],
              result.success => receiveThread = <<"success", op>>,
              receiveThread' \in {Idle, receiveThread}, UNCHANGED <<written, sent, replies>>
       PROVE  WritesInv'
  <2>1. ASSUME NEW o \in Writes, NEW i \in 1 .. Len(results'[o]), results'[o][i].success
        PROVE  {<<o, "high">>, <<o, "low">>} \subseteq written
    <3>1. CASE o = op
      <4>1. /\ Len(results'[op]) = Len(results[op]) + 1 /\ Len(results[op]) \in Nat
            /\ \A j \in 1 .. Len(results[op]) : results'[op][j] = results[op][j]
            /\ results'[op][Len(results[op]) + 1] = result
        BY <1>a, <1>13, AppendFacts
      <4>2. i \in 1 .. Len(results[op]) \/ i = Len(results[op]) + 1
        BY <3>1, <4>1
      <4>. QED BY <1>13, <2>1, <3>1, <4>1, <4>2 DEF WritesInv
    <3>2. CASE o # op
      BY <1>a, <1>13, <2>1, <3>2 DEF WritesInv
    <3>. QED BY <3>1, <3>2
  <2>. QED BY <1>a, <1>b, <1>13, <2>1 DEF WritesInv
<1>14. ASSUME NEW op \in Ops, ReportSuccess(op) PROVE WritesInv'
  <2> DEFINE result == [success |-> TRUE,
                        low |-> IF op \in Reads THEN shared[op].low ELSE NoValue,
                        high |-> IF op \in Reads THEN shared[op].high ELSE {}]
  <2>1. result \in Results
    BY DEF Results, SharedStates, TypeOK, UdpTypeOK
  <2>. QED BY <1>13, <1>14, <2>1 DEF ReportSuccess, deviceVars, clientVars
<1>15. ASSUME NEW op \in Ops, ReportFailure(op) \/ FailReading(op) PROVE WritesInv'
  <2>1. Failure \in Results /\ ~Failure.success
    BY DEF Failure, Results
  <2>. QED BY <1>13, <1>15, <2>1 DEF ReportFailure, FailReading, deviceVars, clientVars, threads
<1>16. CASE UNCHANGED vars
  BY <1>16, MoreWritten DEF vars, udpVars, deviceVars, clientVars, threads
<1>. QED
  BY <1>1, <1>2, <1>3, <1>4, <1>6, <1>8, <1>9, <1>10, <1>11, <1>12, <1>14, <1>15, <1>16
     DEF Next, UdpIp, ReceiveThread, SendThread, Network, Ops

LEMMA InitWritesInv == Init => WritesInv
  BY DEF Init, UdpInit, WritesInv, Idle, Ops

(***************************************************************************)
(* The device never gets the low word of a write before the high word, and *)
(* a write that succeeds has written both, also when replies overtake each *)
(* other or requests are executed late.                                    *)
(***************************************************************************)
THEOREM WrittenInOrderHolds == Spec => []WrittenInOrder
<1>1. WritesInv => WrittenInOrder
  BY DEF WritesInv, WrittenInOrder
<1>. QED BY <1>1, InitWritesInv, NextWritesInv, TypeCorrect, PTL DEF Spec

-----------------------------------------------------------------------------
(* The readers of the cache.                                               *)

\* A value that a reader has returned is the one in the cache.
CachedInv ==
  /\ cacheUInt32 = {} \/ \E cached : cacheUInt32 = {cached}
  /\ \A r \in Reads : reader[r] = "returned" => cacheUInt32 = {value[r]}

LEMMA NextCachedInv == TypeOK /\ CachedInv /\ [Next]_vars => CachedInv'
<1> SUFFICES ASSUME TypeOK, CachedInv, [Next]_vars PROVE CachedInv'
  OBVIOUS
<1>a. reader = [r \in Reads |-> reader[r]] /\ value = [r \in Reads |-> value[r]]
  BY DEF TypeOK
<1>1. ASSUME NEW r \in Reads, LookUp(r) PROVE CachedInv'
  BY <1>1, <1>a DEF LookUp, CachedInv
<1>5. ASSUME NEW r \in Reads, StartReading(r) PROVE CachedInv'
  <2>1. \A o \in Reads : reader'[o] = "returned" => reader[o] = "returned"
    BY <1>5, <1>a DEF StartReading
  <2>. QED BY <1>5, <2>1 DEF StartReading, CachedInv
<1>2. ASSUME NEW r \in Reads, GetResult(r) PROVE CachedInv'
  BY <1>2, <1>a DEF GetResult, CachedInv
<1>3. ASSUME NEW r \in Reads, Emplace(r) PROVE CachedInv'
  <2>1. PICK cached : cacheUInt32' = {cached} /\ value' = [value EXCEPT ![r] = cached]
    BY <1>3 DEF Emplace, Cached, CachedInv
  <2>2. \A o \in Reads : reader[o] = "returned" => {value[o]} = {cached}
    BY <1>3, <2>1 DEF Emplace, Cached, CachedInv
  <2>3. reader' = [reader EXCEPT ![r] = "returned"]
    BY <1>3 DEF Emplace
  <2>4. ASSUME NEW o \in Reads, reader'[o] = "returned" PROVE {cached} = {value'[o]}
    BY <1>a, <2>1, <2>2, <2>3, <2>4
  <2>. QED BY <2>1, <2>4 DEF CachedInv
<1>4. CASE UNCHANGED cacheVars
  BY <1>4 DEF cacheVars, CachedInv
<1>. QED BY <1>1, <1>2, <1>3, <1>4, <1>5 DEF Next, Reader, vars

LEMMA InitCachedInv == Init => CachedInv
  BY DEF Init, CachedInv

(***************************************************************************)
(* All readers that return a value return the same one, whatever each of   *)
(* them has read from the device.                                          *)
(***************************************************************************)
THEOREM ReadersAgreeHolds == Spec => []ReadersAgree
<1>1. CachedInv => ReadersAgree
  BY DEF CachedInv, ReadersAgree
<1>. QED BY <1>1, InitCachedInv, NextCachedInv, TypeCorrect, PTL DEF Spec

-----------------------------------------------------------------------------
(* The requests of an operation.                                           *)

LowWordQueued(op) == <<op, "low">> \in sent \/ receiveThread = <<"low", op>>

\* No word is queued again: what leads to its request leads to it once.
QueuedOnce(op) ==
  /\ called[op] = "new" => \A word \in {"low", "high", "again"} : <<op, word>> \notin sent
  /\ called[op] = "queuing" => <<op, "high">> \notin sent
  /\ receiveThread = <<"again", op>> => <<op, "again">> \notin sent
  /\ receiveThread = <<"low", op>> => <<op, "low">> \notin sent \cup thrown
  /\ op \in Reads =>
       /\ <<op, "again">> \in sent \/ receiveThread = <<"again", op>> => shared[op].gotLow
       /\ shared[op].gotLow => <<op, "low">> \in sent
  /\ op \in Writes /\ (LowWordQueued(op) \/ <<op, "low">> \in thrown) => <<op, "high">> \in sent \ open

QueueInv == \A op \in Ops : QueuedOnce(op)

\* Steps that do not queue a request of the operation.
LEMMA NotQueuing ==
  ASSUME NEW op, QueuedOnce(op), called'[op] = called[op],
         \A word \in {"low", "high", "again"} : <<op, word>> \in sent' <=> <<op, word>> \in sent,
         <<op, "high">> \in open' => <<op, "high">> \in open,
         <<op, "low">> \in thrown' => <<op, "low">> \in thrown,
         receiveThread' \in {<<"again", op>>, <<"low", op>>} => UNCHANGED receiveThread,
         op \in Reads => shared'[op].gotLow = shared[op].gotLow
  PROVE  QueuedOnce(op)'
BY DEF QueuedOnce, LowWordQueued

\* Steps of another operation that queue one of its requests.
LEMMA QueuingOther ==
  ASSUME NEW op, NEW other, op # other, NEW word, Queuing(<<other, word>>),
         QueuedOnce(op), called'[op] = called[op], UNCHANGED shared,
         receiveThread' \in {Idle, receiveThread, <<"failure", other>>}
  PROVE  QueuedOnce(op)'
<1>1. <<op, "low">> # <<other, word>> /\ <<op, "high">> # <<other, word>> /\ <<op, "again">> # <<other, word>>
  OBVIOUS
<1>2. /\ \A w \in {"low", "high", "again"} : <<op, w>> \in sent' <=> <<op, w>> \in sent
      /\ <<op, "high">> \in open' => <<op, "high">> \in open
      /\ <<op, "low">> \in thrown' => <<op, "low">> \in thrown
  BY <1>1, QueuingFacts DEF AddRequest
<1>3. Idle \notin {<<"again", op>>, <<"low", op>>}
  BY DEF Idle
<1>. QED BY <1>2, <1>3, NotQueuing

LEMMA NextQueueInv == TypeOK /\ QueueInv /\ [Next]_vars => QueueInv'
<1> SUFFICES ASSUME TypeOK, QueueInv, [Next]_vars, NEW op \in Ops PROVE QueuedOnce(op)'
  BY DEF QueueInv
<1>a. /\ QueuedOnce(op) /\ Ops = Reads \cup Writes /\ Reads \cap Writes = {}
      /\ shared \in [Reads -> SharedStates] /\ called \in [Ops -> {"new", "queuing", "failing", "called", "threw"}]
      /\ open \subseteq sent /\ receiveThread \in Todo
      /\ \A i \in 1 .. Len(replies) : replies[i][1] \in Requests
  BY UdpIpAssumption DEF QueueInv, TypeOK, UdpTypeOK, Ops, Replies
<1>b. Idle \notin {<<"again", op>>, <<"low", op>>}
  BY DEF Idle
<1>1. ASSUME NEW r \in Reads, Reader(r) PROVE QueuedOnce(op)'
  <2>1. CASE UNCHANGED udpVars
    BY <1>a, <2>1, NotQueuing DEF udpVars, clientVars, threads
  <2>2. CASE ReadUInt32(r)
    <3>1. /\ called[r] = "new" /\ UNCHANGED <<receiveThread, shared>>
          /\ \/ QueueRequest(<<r, "low">>) /\ called' = [called EXCEPT ![r] = "queuing"]
             \/ QueueThrows(<<r, "low">>) /\ called' = [called EXCEPT ![r] = "threw"]
          /\ Queuing(<<r, "low">>)
      BY <2>2 DEF ReadUInt32, Queuing, threads
    <3>2. CASE op # r
      BY <1>a, <3>1, <3>2, QueuingOther
    <3>3. CASE op = r
      <4>1. receiveThread # <<"low", op>> /\ op \notin Writes
        BY <1>a, <3>3 DEF Todo, Idle
      <4>2. /\ sent' = sent \/ sent' = sent \cup {<<op, "low">>}
            /\ called'[op] \in {"queuing", "threw"} /\ receiveThread' = receiveThread
            /\ shared'[op].gotLow = shared[op].gotLow
        BY <1>a, <3>1, <3>3, QueuingFacts DEF AddRequest
      <4>3. <<op, "high">> \notin sent' /\ (<<op, "again">> \in sent' <=> <<op, "again">> \in sent)
        BY <1>a, <3>1, <3>3, <4>2 DEF QueuedOnce
      <4>. QED BY <1>a, <4>1, <4>2, <4>3 DEF QueuedOnce
    <3>. QED BY <3>2, <3>3
  <2>. QED BY <1>1, <2>1, <2>2 DEF Reader, LookUp, StartReading, GetResult, Emplace
<1>2. ASSUME NEW o \in Ops, (o \in Writes /\ WriteUInt32(o)) \/ QueueHighWord(o) PROVE QueuedOnce(op)'
  <2>1. /\ called[o] = "queuing" \/ (o \in Writes /\ called[o] = "new")
        /\ \E position \in {"called", "failing", "threw"} : called' = [called EXCEPT ![o] = position]
        /\ Queuing(<<o, "high">>) /\ UNCHANGED <<receiveThread, shared>>
    BY <1>2 DEF WriteUInt32, QueueHighWord, Queuing, threads
  <2>2. CASE op # o
    BY <1>a, <2>1, <2>2, QueuingOther
  <2>3. CASE op = o
    <3>1. /\ called'[op] \in {"called", "failing", "threw"} /\ UNCHANGED <<receiveThread, shared>>
          /\ \A word \in {"low", "again"} : <<op, word>> \in sent' <=> <<op, word>> \in sent
          /\ <<op, "low">> \in thrown' <=> <<op, "low">> \in thrown
          /\ <<op, "high">> \notin sent
      BY <1>a, <2>1, <2>3, QueuingFacts DEF AddRequest, QueuedOnce
    <3>. QED BY <1>a, <3>1 DEF QueuedOnce, LowWordQueued
  <2>. QED BY <2>2, <2>3
<1>3. ASSUME Network PROVE QueuedOnce(op)'
  BY <1>3, <1>a, NotQueuing DEF Network, ChangeRegister, Execute, LoseReply, clientVars, threads
<1>4. ASSUME NEW i \in 1 .. Len(replies), Answered(i)
      PROVE  /\ receiveThread = Idle /\ replies[i][1] \in open /\ replies[i][1] \in Requests
             /\ open' = open \ {replies[i][1]} /\ UNCHANGED <<sent, thrown, called>>
  BY <1>4, <1>a DEF Answered, Callbacks!Answer
<1>5. ASSUME NEW i \in 1 .. Len(replies), ReplyToRead(i) PROVE QueuedOnce(op)'
  <2>1. PICK r \in Reads, word \in Values :
          /\ r = replies[i][1][1]
          /\ IF replies[i][1][2] = "low" THEN ReceivedLow(r, word) ELSE ReceivedHigh(r, word)
    BY <1>5 DEF ReplyToRead, TypeOK, UdpTypeOK, Replies
  <2>2. /\ receiveThread = Idle /\ replies[i][1] \in open /\ replies[i][1] \in Requests
        /\ open' = open \ {replies[i][1]} /\ UNCHANGED <<sent, thrown, called>>
    BY <1>4, <1>5 DEF ReplyToRead
  <2>3. CASE op # r
    <3>1. /\ receiveThread' \in {Idle, <<"again", r>>, <<"success", r>>}
          /\ op \in Reads => shared'[op] = shared[op]
      <4>1. CASE ReceivedLow(r, word)
        BY <1>a, <2>3, <4>1 DEF ReceivedLow
      <4>2. CASE ReceivedHigh(r, word)
        BY <1>a, <2>3, <4>2 DEF ReceivedHigh
      <4>. QED BY <2>1, <4>1, <4>2
    <3>2. receiveThread' \notin {<<"again", op>>, <<"low", op>>}
      BY <1>b, <2>3, <3>1
    <3>. QED BY <1>a, <2>2, <3>1, <3>2, NotQueuing
  <2>4. CASE op = r /\ replies[i][1][2] = "low"
    <3>1. replies[i][1] = <<op, "low">>
      BY <2>1, <2>2, <2>4 DEF Requests
    <3>2. shared[op] \in SharedStates
      BY <1>a, <2>4
    <3>3. CASE UNCHANGED shared /\ receiveThread' = Idle
      BY <1>a, <1>b, <2>2, <3>3, NotQueuing
    <3>4. CASE ~ (UNCHANGED shared /\ receiveThread' = Idle)
      <4>1. /\ ~ shared[op].gotLow /\ shared'[op].gotLow
            /\ receiveThread' \in {Idle, <<"again", op>>}
        <5>1. ReceivedLow(op, word)
          BY <2>1, <2>4
        <5>2. ~ shared[op].failed /\ ~ shared[op].gotLow
          BY <3>4, <5>1 DEF ReceivedLow
        <5>. QED BY <1>a, <2>4, <3>2, <5>1, <5>2 DEF ReceivedLow, SharedStates
      <4>2. op \notin Writes /\ op \in Reads
        BY <1>a, <2>4
      <4>. QED BY <1>a, <1>b, <2>2, <3>1, <4>1, <4>2 DEF QueuedOnce, LowWordQueued
    <3>. QED BY <3>3, <3>4
  <2>5. CASE op = r /\ replies[i][1][2] # "low"
    <3>1. shared[op] \in SharedStates
      BY <1>a, <2>5
    <3>2. receiveThread' \in {Idle, <<"success", op>>} /\ shared'[op].gotLow = shared[op].gotLow
      BY <1>a, <2>1, <2>5, <3>1 DEF ReceivedHigh, SharedStates
    <3>3. receiveThread' \notin {<<"again", op>>, <<"low", op>>}
      BY <1>b, <3>2
    <3>. QED BY <1>a, <2>2, <3>2, <3>3, NotQueuing
  <2>. QED BY <2>3, <2>4, <2>5
<1>6. ASSUME NEW i \in 1 .. Len(replies), ReplyToWrite(i) PROVE QueuedOnce(op)'
  <2> DEFINE o == replies[i][1][1]
  <2>1. /\ receiveThread = Idle /\ replies[i][1] \in open /\ replies[i][1] \in Requests
        /\ open' = open \ {replies[i][1]} /\ UNCHANGED <<sent, thrown, called, shared>> /\ o \in Writes
        /\ receiveThread' = IF replies[i][1][2] = "high" THEN <<"low", o>> ELSE <<"success", o>>
    BY <1>4, <1>6 DEF ReplyToWrite
  <2>2. CASE op = o /\ replies[i][1][2] = "high"
    <3>1. replies[i][1] = <<op, "high">> /\ op \in Writes /\ op \notin Reads
      BY <1>a, <2>1, <2>2 DEF Requests
    <3>2. ~ LowWordQueued(op) /\ <<op, "low">> \notin thrown
      BY <1>a, <2>1, <3>1 DEF QueuedOnce
    <3>. QED BY <1>a, <2>1, <2>2, <3>1, <3>2 DEF QueuedOnce, LowWordQueued
  <2>3. CASE ~ (op = o /\ replies[i][1][2] = "high")
    BY <1>a, <2>1, <2>3, NotQueuing
  <2>. QED BY <2>2, <2>3
<1>7. ASSUME NEW o \in Ops
      PROVE  /\ op \in Reads => SharedAfterFailure(o)[op].gotLow = shared[op].gotLow
             /\ NextOfFailure(o) \in {Idle, <<"failure", o>>}
  BY <1>a DEF SharedAfterFailure, NextOfFailure, SharedStates
<1>8. ASSUME NEW i \in 1 .. Len(replies), ReplyWithStatus(i) PROVE QueuedOnce(op)'
  <2>1. replies[i][1][1] \in Ops
    BY <1>a DEF Requests
  <2>2. receiveThread' \in {Idle, <<"failure", replies[i][1][1]>>} /\ Answered(i)
    BY <1>7, <1>8, <2>1 DEF ReplyWithStatus
  <2>3. receiveThread' \notin {<<"again", op>>, <<"low", op>>}
    BY <1>b, <2>2
  <2>4. op \in Reads => shared'[op].gotLow = shared[op].gotLow
    BY <1>7, <1>8, <2>1 DEF ReplyWithStatus
  <2>. QED BY <1>a, <1>4, <2>2, <2>3, <2>4, NotQueuing
<1>9. ASSUME NEW request \in Requests, RequestFails(request) PROVE QueuedOnce(op)'
  <2>1. request[1] \in Ops
    BY <1>a DEF Requests
  <2>2. /\ shared' = SharedAfterFailure(request[1]) /\ UNCHANGED <<sent, thrown, receiveThread, called>>
        /\ open' \subseteq open
    BY <1>9 DEF RequestFails, Callbacks!Answer, Callbacks!Report
  <2>. QED BY <1>a, <1>7, <2>1, <2>2, NotQueuing
<1>10. ASSUME NEW o \in Ops, QueueWord(o) \/ QueueAgainThrows(o) \/ QueueLowThrows(o)
       PROVE  QueuedOnce(op)'
  <2>1. PICK word \in {"again", "low"} : receiveThread = <<word, o>> /\ Queuing(<<o, word>>)
    BY <1>10 DEF QueueWord, QueueAgainThrows, QueueLowThrows, Queuing
  <2>2. receiveThread' \in {Idle, <<"failure", o>>} /\ UNCHANGED <<shared, called>>
    BY <1>10 DEF QueueWord, QueueAgainThrows, QueueLowThrows
  <2>3. CASE op # o
    BY <1>a, <2>1, <2>2, <2>3, QueuingOther
  <2>4. CASE op = o
    <3>1. (word = "again" /\ op \in Reads /\ op \notin Writes) \/ (word = "low" /\ op \in Writes /\ op \notin Reads)
      BY <1>a, <2>1, <2>4 DEF Todo, Idle
    <3>2. \/ AddRequest(<<op, word>>)
          \/ UNCHANGED <<sent, open>>
      BY <2>1, <2>4, QueuingFacts
    <3>3. \A w : <<op, w>> \in thrown' => <<op, w>> \in thrown \/ w = word
      BY <2>1, <2>4, QueuingFacts
    <3>4. receiveThread' \notin {<<"again", op>>, <<"low", op>>} /\ receiveThread = <<word, op>>
      BY <1>b, <2>1, <2>2, <2>4
    <3>5. CASE word = "again"
      <4>1. \A w \in {"low", "high"} : /\ <<op, w>> \in sent' <=> <<op, w>> \in sent
                                       /\ <<op, w>> \in thrown' => <<op, w>> \in thrown
        BY <3>2, <3>3, <3>5 DEF AddRequest
      <4>. QED BY <1>a, <2>2, <3>1, <3>4, <3>5, <4>1 DEF QueuedOnce, LowWordQueued
    <3>6. CASE word = "low"
      <4>1. \A w \in {"again", "high"} : <<op, w>> \in sent' <=> <<op, w>> \in sent
        BY <3>2, <3>6 DEF AddRequest
      <4>2. <<op, "high">> \in open' <=> <<op, "high">> \in open
        BY <3>2, <3>6 DEF AddRequest
      <4>. QED BY <1>a, <2>2, <3>1, <3>4, <3>6, <4>1, <4>2 DEF QueuedOnce, LowWordQueued
    <3>. QED BY <3>5, <3>6
  <2>. QED BY <2>3, <2>4
<1>11. ASSUME NEW o \in Ops, ReportSuccess(o) \/ ReportFailure(o) PROVE QueuedOnce(op)'
  BY <1>a, <1>b, <1>11, NotQueuing DEF ReportSuccess, ReportFailure, clientVars
<1>13. ASSUME NEW o \in Ops, FailReading(o) PROVE QueuedOnce(op)'
  <2>1. /\ called[o] = "failing" /\ called' = [called EXCEPT ![o] = "called"]
        /\ UNCHANGED <<clientVars, receiveThread, shared>>
    BY <1>13 DEF FailReading, threads
  <2>2. CASE op # o
    BY <1>a, <2>1, <2>2, NotQueuing DEF clientVars
  <2>3. CASE op = o
    <3>1. called'[op] = "called" /\ UNCHANGED <<sent, open, thrown, receiveThread, shared>>
      BY <1>a, <2>1, <2>3 DEF clientVars
    <3>. QED BY <1>a, <3>1 DEF QueuedOnce, LowWordQueued
  <2>. QED BY <2>2, <2>3
<1>12. CASE UNCHANGED vars
  BY <1>a, <1>12, NotQueuing DEF vars, udpVars, clientVars, threads
<1>. QED
  BY <1>1, <1>2, <1>3, <1>5, <1>6, <1>8, <1>9, <1>10, <1>11, <1>12, <1>13, <1>a
     DEF Next, UdpIp, ReceiveThread, SendThread

LEMMA InitQueueInv == Init => QueueInv
  BY DEF Init, UdpInit, QueueInv, QueuedOnce, LowWordQueued, Idle, Ops

LEMMA QueueInvariant == Spec => []QueueInv
  BY InitQueueInv, NextQueueInv, TypeCorrect, PTL DEF Spec

LEMMA NextKeepsPromise ==
  TypeOK /\ QueueInv /\ [Next]_vars => [Callbacks!Next]_(Callbacks!promiseVars)
<1> SUFFICES ASSUME TypeOK, QueueInv, [Next]_vars
             PROVE  Callbacks!Next \/ UNCHANGED Callbacks!promiseVars
  OBVIOUS
<1> USE DEF Callbacks!promiseVars
<1>a. /\ \A op \in Ops : QueuedOnce(op)
      /\ Ops = Reads \cup Writes
      /\ \A i \in 1 .. Len(replies) : replies[i][1] \in Requests
  BY DEF QueueInv, TypeOK, UdpTypeOK, Ops, Replies
<1>1. ASSUME NEW request \in Requests, request \notin sent, Queuing(request), UNCHANGED reported
      PROVE  Callbacks!Next \/ UNCHANGED Callbacks!promiseVars
  BY <1>1, QueuingFacts DEF AddRequest, Callbacks!Next, Callbacks!Queue
<1>2. ASSUME NEW r \in Reads, Reader(r)
      PROVE  Callbacks!Next \/ UNCHANGED Callbacks!promiseVars
  <2>1. CASE StartReading(r)
    <3>1. /\ <<r, "low">> \notin sent /\ <<r, "low">> \in Requests
          /\ Queuing(<<r, "low">>) /\ UNCHANGED reported
      BY <1>a, <2>1 DEF StartReading, ReadUInt32, QueuedOnce, Requests, Queuing
    <3>. QED BY <1>1, <3>1
  <2>. QED BY <1>2, <2>1 DEF Reader, LookUp, GetResult, Emplace, udpVars, clientVars
<1>3. ASSUME NEW op \in Ops, (op \in Writes /\ WriteUInt32(op)) \/ QueueHighWord(op)
      PROVE  Callbacks!Next \/ UNCHANGED Callbacks!promiseVars
  <2>1. /\ <<op, "high">> \notin sent /\ <<op, "high">> \in Requests
        /\ Queuing(<<op, "high">>) /\ UNCHANGED reported
    BY <1>a, <1>3 DEF WriteUInt32, QueueHighWord, QueuedOnce, Requests, Queuing
  <2>. QED BY <1>1, <2>1
<1>4. ASSUME NEW op \in Ops, QueueWord(op) \/ QueueAgainThrows(op) \/ QueueLowThrows(op)
      PROVE  Callbacks!Next \/ UNCHANGED Callbacks!promiseVars
  <2>1. PICK word \in {"again", "low"} : receiveThread = <<word, op>> /\ Queuing(<<op, word>>)
    BY <1>4 DEF QueueWord, QueueAgainThrows, QueueLowThrows, Queuing
  <2>2. <<op, word>> \notin sent /\ <<op, word>> \in Requests
    BY <1>a, <2>1 DEF QueuedOnce, Requests, TypeOK, UdpTypeOK, Todo, Idle
  <2>3. UNCHANGED reported
    BY <1>4 DEF QueueWord, QueueAgainThrows, QueueLowThrows
  <2>. QED BY <1>1, <2>1, <2>2, <2>3
<1>5. ASSUME NEW i \in 1 .. Len(replies), Answered(i) PROVE Callbacks!Next
  BY <1>a, <1>5 DEF Answered, Callbacks!Next
<1>6. ASSUME NEW request \in Requests, RequestFails(request) PROVE Callbacks!Next
  BY <1>6 DEF RequestFails, Callbacks!Next
<1>7. ASSUME \/ Network \/ UNCHANGED vars
             \/ \E op \in Ops : ReportSuccess(op) \/ ReportFailure(op) \/ FailReading(op)
      PROVE  UNCHANGED Callbacks!promiseVars
  BY <1>7 DEF Network, ChangeRegister, Execute, LoseReply, ReportSuccess, ReportFailure, FailReading,
              vars, udpVars, clientVars
<1>. QED
  BY <1>2, <1>3, <1>4, <1>5, <1>6, <1>7, <1>a
     DEF Next, UdpIp, ReceiveThread, SendThread, ReplyToRead, ReplyToWrite, ReplyWithStatus

(***************************************************************************)
(* The accesses to the words use the client as it has promised to be used: *)
(* none of the two or three requests of an operation is queued twice, even *)
(* if the operation fails or one of its requests is reported again later.  *)
(* So the client that they assume is the one that UdpIpClient implements   *)
(* (readUInt32, writeUInt32 and the callbacks of their requests).          *)
(***************************************************************************)
THEOREM UsesPromise == Spec => Callbacks!Spec
<1>1. Init => Callbacks!Init
  BY DEF Init, UdpInit, Callbacks!Init
<1>2. TypeOK /\ QueueInv /\ [Next]_vars => [Callbacks!Next]_(Callbacks!promiseVars)
  BY NextKeepsPromise
<1>. QED BY <1>1, <1>2, TypeCorrect, QueueInvariant, PTL DEF Spec, Callbacks!Spec

-----------------------------------------------------------------------------
(* The calls of the callback of a write.                                   *)

One(condition) == IF condition THEN 1 ELSE 0

AboutToCall(op) ==
  One(receiveThread \in {<<"success", op>>, <<"failure", op>>}) + One(sendThread = <<"failure", op>>)

LowWordQueuedAndThrown(op) == <<op, "low">> \in sent \cap thrown

\* Each call of the callback of a word calls the callback of the operation, if
\* it does not lead to the request for the low word.  If that has been queued
\* and queuing it has thrown, there is one more.
CallsCounted(op) ==
  Len(results[op]) + AboutToCall(op) + One(LowWordQueued(op))
    = Callbacks!Calls(<<op, "high">>) + Callbacks!Calls(<<op, "low">>)
        + One(LowWordQueuedAndThrown(op))

CallsInv == \A op \in Writes : CallsCounted(op)

\* Steps that do not change any of this.
LEMMA NotCalling ==
  ASSUME NEW op, CallsCounted(op), results'[op] = results[op],
         \A word \in {"low", "success", "failure"} :
           receiveThread' = <<word, op>> <=> receiveThread = <<word, op>>,
         sendThread' = <<"failure", op>> <=> sendThread = <<"failure", op>>,
         <<op, "low">> \in thrown' <=> <<op, "low">> \in thrown,
         \A word \in {"low", "high"} :
           /\ <<op, word>> \in sent' <=> <<op, word>> \in sent
           /\ <<op, word>> \in open' <=> <<op, word>> \in open
           /\ <<op, word>> \in reported' <=> <<op, word>> \in reported
  PROVE  CallsCounted(op)'
<1>1. AboutToCall(op)' = AboutToCall(op)
  BY DEF AboutToCall, One
<1>2. /\ One(LowWordQueued(op))' = One(LowWordQueued(op))
      /\ One(LowWordQueuedAndThrown(op))' = One(LowWordQueuedAndThrown(op))
  BY DEF LowWordQueued, LowWordQueuedAndThrown, One
<1>3. /\ Callbacks!Calls(<<op, "high">>)' = Callbacks!Calls(<<op, "high">>)
      /\ Callbacks!Calls(<<op, "low">>)' = Callbacks!Calls(<<op, "low">>)
  BY DEF Callbacks!Calls
<1>. QED BY <1>1, <1>2, <1>3 DEF CallsCounted

\* The calls of the callbacks for the words stay the same when a word is queued.
LEMMA QueuingKeepsCalls ==
  ASSUME TypeOK, NEW request, request \notin sent, Queuing(request), UNCHANGED reported
  PROVE  \A r : Callbacks!Calls(r)' = Callbacks!Calls(r)
<1>1. \/ sent' = sent \cup {request} /\ open' = open \cup {request}
      \/ UNCHANGED <<sent, open>>
  BY QueuingFacts DEF AddRequest
<1>2. open \subseteq sent
  BY DEF TypeOK, UdpTypeOK
<1>3. \A r : (r \in sent' \ open' <=> r \in sent \ open)
  BY <1>1, <1>2
<1>. QED BY <1>3 DEF Callbacks!Calls

\* A word is queued: for the high word, this is the first request.
LEMMA QueuingIsNoCall ==
  ASSUME TypeOK, NEW op \in Writes, CallsCounted(op), UNCHANGED <<results, sendThread, reported>>,
         \/ /\ Queuing(<<op, "high">>) /\ <<op, "high">> \notin sent
            /\ UNCHANGED receiveThread
         \/ /\ QueueRequest(<<op, "low">>) /\ <<op, "low">> \notin sent \cup thrown
            /\ receiveThread = <<"low", op>> /\ receiveThread' = Idle
  PROVE  CallsCounted(op)'
<1>1. AboutToCall(op)' = AboutToCall(op)
  BY DEF AboutToCall, One, Idle
<1>2. PICK word \in {"high", "low"} : Queuing(<<op, word>>) /\ <<op, word>> \notin sent
  BY DEF Queuing
<1>3. \A request : Callbacks!Calls(request)' = Callbacks!Calls(request)
  BY <1>2, QueuingKeepsCalls
<1>4. One(LowWordQueued(op))' = One(LowWordQueued(op))
  BY QueuingFacts DEF LowWordQueued, One, QueueRequest, AddRequest
<1>5. One(LowWordQueuedAndThrown(op))' = One(LowWordQueuedAndThrown(op))
  BY QueuingFacts DEF LowWordQueuedAndThrown, One, QueueRequest, AddRequest
<1>. QED BY <1>1, <1>3, <1>4, <1>5 DEF CallsCounted

\* Queuing the low word throws, and the callback is told of a failure.
LEMMA ThrowingIsCall ==
  ASSUME TypeOK, NEW op \in Writes, CallsCounted(op), UNCHANGED <<results, sendThread, reported>>,
         QueueThrows(<<op, "low">>), <<op, "low">> \notin sent \cup thrown,
         receiveThread = <<"low", op>>, receiveThread' = <<"failure", op>>
  PROVE  CallsCounted(op)'
<1>1. AboutToCall(op)' = AboutToCall(op) + 1
  BY DEF AboutToCall, One
<1>2. \A request : Callbacks!Calls(request)' = Callbacks!Calls(request)
  BY QueuingKeepsCalls DEF Queuing
<1>3. One(LowWordQueued(op)) = 1 /\ One(LowWordQueuedAndThrown(op)) = 0
  BY DEF LowWordQueued, LowWordQueuedAndThrown, One
<1>4. One(LowWordQueued(op))' = One(LowWordQueuedAndThrown(op))'
  BY DEF LowWordQueued, LowWordQueuedAndThrown, One, QueueThrows
<1>5. One(LowWordQueued(op))' \in Nat /\ AboutToCall(op) \in Nat
  BY DEF One, AboutToCall
<1>6. PICK n \in Nat : Len(results[op]) = n /\ Len(results'[op]) = n
  <2>1. results[op] \in Seq(Results)
    BY DEF TypeOK, UdpTypeOK, Ops
  <2>. QED BY <2>1
<1>7. Callbacks!Calls(<<op, "high">>) \in Nat /\ Callbacks!Calls(<<op, "low">>) \in Nat
  BY DEF Callbacks!Calls
<1>. QED BY <1>1, <1>2, <1>3, <1>4, <1>5, <1>6, <1>7 DEF CallsCounted

\* The callback of a word is called, and calls that of the operation.
LEMMA CallIsPassedOn ==
  ASSUME TypeOK, NEW op \in Writes, CallsCounted(op), UNCHANGED <<results, thrown>>,
         NEW word \in {"low", "high"},
         Callbacks!Answer(<<op, word>>) \/ Callbacks!Report(<<op, word>>),
         \/ /\ receiveThread = Idle /\ UNCHANGED sendThread
            /\ receiveThread' \in {<<"success", op>>, <<"failure", op>>}
         \/ sendThread = Idle /\ sendThread' = <<"failure", op>> /\ UNCHANGED receiveThread
  PROVE  CallsCounted(op)'
<1>1. AboutToCall(op)' = AboutToCall(op) + 1
  BY DEF AboutToCall, One, Idle
<1>2. /\ One(LowWordQueued(op))' = One(LowWordQueued(op))
      /\ One(LowWordQueuedAndThrown(op))' = One(LowWordQueuedAndThrown(op))
  BY DEF LowWordQueued, LowWordQueuedAndThrown, One, Idle, Callbacks!Answer, Callbacks!Report
<1>3. /\ Callbacks!Calls(<<op, word>>)' = Callbacks!Calls(<<op, word>>) + 1
      /\ \A other \in {"low", "high"} \ {word} :
           Callbacks!Calls(<<op, other>>)' = Callbacks!Calls(<<op, other>>)
  <2>1. open \subseteq sent /\ reported \subseteq sent
    BY DEF TypeOK, UdpTypeOK
  <2>. QED BY <2>1 DEF Callbacks!Answer, Callbacks!Report, Callbacks!Calls
<1>4. PICK n \in Nat : Len(results[op]) = n /\ Len(results'[op]) = n
  <2>1. results[op] \in Seq(Results)
    BY DEF TypeOK, UdpTypeOK, Ops
  <2>. QED BY <2>1
<1>5. /\ AboutToCall(op) \in Nat /\ One(LowWordQueued(op)) \in Nat
      /\ One(LowWordQueuedAndThrown(op)) \in Nat
  BY DEF AboutToCall, One
<1>6. Callbacks!Calls(<<op, "high">>) \in Nat /\ Callbacks!Calls(<<op, "low">>) \in Nat
  BY DEF Callbacks!Calls
<1>7. Callbacks!Calls(<<op, "high">>)' + Callbacks!Calls(<<op, "low">>)'
        = Callbacks!Calls(<<op, "high">>) + Callbacks!Calls(<<op, "low">>) + 1
  <2>1. CASE word = "high"
    BY <1>3, <1>6, <2>1
  <2>2. CASE word = "low"
    BY <1>3, <1>6, <2>2
  <2>. QED BY <2>1, <2>2
<1>. QED BY SMTT(30), <1>1, <1>2, <1>4, <1>5, <1>6, <1>7 DEF CallsCounted

\* The operation's callback is called.
LEMMA CallIsMade ==
  ASSUME TypeOK, NEW op \in Writes, CallsCounted(op), UNCHANGED clientVars, NEW result \in Results,
         results'[op] = Append(results[op], result),
         \/ /\ receiveThread \in {<<"success", op>>, <<"failure", op>>} /\ receiveThread' = Idle
            /\ UNCHANGED sendThread
         \/ sendThread = <<"failure", op>> /\ sendThread' = Idle /\ UNCHANGED receiveThread
  PROVE  CallsCounted(op)'
<1>1. AboutToCall(op) = AboutToCall(op)' + 1
  BY DEF AboutToCall, One, Idle
<1>2. /\ One(LowWordQueued(op))' = One(LowWordQueued(op))
      /\ One(LowWordQueuedAndThrown(op))' = One(LowWordQueuedAndThrown(op))
  BY DEF LowWordQueued, LowWordQueuedAndThrown, One, Idle, clientVars
<1>3. /\ Callbacks!Calls(<<op, "high">>)' = Callbacks!Calls(<<op, "high">>)
      /\ Callbacks!Calls(<<op, "low">>)' = Callbacks!Calls(<<op, "low">>)
  BY DEF Callbacks!Calls, clientVars
<1>4. PICK n \in Nat : Len(results[op]) = n /\ Len(results'[op]) = n + 1
  <2>1. results[op] \in Seq(Results)
    BY DEF TypeOK, UdpTypeOK, Ops
  <2>. QED BY <2>1, AppendFacts
<1>5. /\ AboutToCall(op)' \in Nat /\ One(LowWordQueued(op)) \in Nat
      /\ One(LowWordQueuedAndThrown(op)) \in Nat
  BY DEF AboutToCall, One
<1>6. Callbacks!Calls(<<op, "high">>) \in Nat /\ Callbacks!Calls(<<op, "low">>) \in Nat
  BY DEF Callbacks!Calls
<1>. QED BY <1>1, <1>2, <1>3, <1>4, <1>5, <1>6 DEF CallsCounted

LEMMA NextCallsInv == TypeOK /\ QueueInv /\ CallsInv /\ [Next]_vars => CallsInv'
<1> SUFFICES ASSUME TypeOK, QueueInv, CallsInv, [Next]_vars, NEW op \in Writes
             PROVE  CallsCounted(op)'
  BY DEF CallsInv
<1>a. /\ QueuedOnce(op) /\ CallsCounted(op) /\ op \in Ops /\ op \notin Reads
      /\ Ops = Reads \cup Writes /\ Reads \cap Writes = {}
      /\ results \in [Ops -> Seq(Results)] /\ open \subseteq sent
      /\ receiveThread \in Todo /\ sendThread \in Todo
      /\ \A i \in 1 .. Len(replies) : replies[i][1] \in Requests
  BY UdpIpAssumption DEF QueueInv, CallsInv, TypeOK, UdpTypeOK, Ops, Replies
<1>b. Idle \notin {<<"low", op>>, <<"success", op>>, <<"failure", op>>}
  BY DEF Idle
<1>1. ASSUME NEW o, o # op, NEW word, Queuing(<<o, word>>),
             UNCHANGED <<results, sendThread, reported>>,
             \/ UNCHANGED receiveThread
             \/ receiveThread = <<word, o>> /\ receiveThread' \in {Idle, <<"failure", o>>}
      PROVE  CallsCounted(op)'
  <2>1. /\ \A w \in {"low", "high"} : <<op, w>> # <<o, word>>
        /\ <<op, "low">> \in thrown' <=> <<op, "low">> \in thrown
        /\ \/ sent' = sent \cup {<<o, word>>} /\ open' = open \cup {<<o, word>>}
           \/ UNCHANGED <<sent, open>>
    BY <1>1, QueuingFacts DEF AddRequest
  <2>2. \A w \in {"low", "success", "failure"} :
          receiveThread' = <<w, op>> <=> receiveThread = <<w, op>>
    BY <1>1, <1>b
  <2>. QED BY <1>a, <1>1, <2>1, <2>2, NotCalling
<1>2. ASSUME NEW r \in Reads, Reader(r) PROVE CallsCounted(op)'
  <2>1. CASE UNCHANGED udpVars
    BY <1>a, <2>1, NotCalling DEF udpVars, clientVars, threads
  <2>2. CASE ReadUInt32(r)
    BY <1>1, <1>a, <2>2 DEF ReadUInt32, Queuing, threads
  <2>. QED BY <1>2, <2>1, <2>2 DEF Reader, LookUp, StartReading, GetResult, Emplace
<1>3. ASSUME NEW o \in Ops, (o \in Writes /\ WriteUInt32(o)) \/ QueueHighWord(o)
      PROVE  CallsCounted(op)'
  <2>1. /\ called[o] \in {"new", "queuing"} /\ Queuing(<<o, "high">>)
        /\ UNCHANGED <<results, reported, receiveThread, sendThread>>
    BY <1>3 DEF WriteUInt32, QueueHighWord, Queuing, threads
  <2>2. CASE o # op
    BY <1>1, <2>1, <2>2
  <2>3. CASE o = op
    <3>1. <<op, "high">> \notin sent
      BY <1>a, <2>1, <2>3 DEF QueuedOnce
    <3>. QED BY <1>a, <2>1, <2>3, <3>1, QueuingIsNoCall
  <2>. QED BY <2>2, <2>3
<1>4. ASSUME Network PROVE CallsCounted(op)'
  BY <1>4, <1>a, NotCalling DEF Network, ChangeRegister, Execute, LoseReply, clientVars, threads
<1>5. ASSUME NEW request \in Requests, request[1] # op, UNCHANGED <<results, thrown>>,
             Callbacks!Answer(request) \/ Callbacks!Report(request),
             \A word \in {"low", "success", "failure"} :
               receiveThread' = <<word, op>> <=> receiveThread = <<word, op>>,
             sendThread' = <<"failure", op>> <=> sendThread = <<"failure", op>>
      PROVE  CallsCounted(op)'
  <2>1. \A word : request # <<op, word>>
    BY <1>5
  <2>. QED BY <1>a, <1>5, <2>1, NotCalling DEF Callbacks!Answer, Callbacks!Report
<1>6. ASSUME NEW i \in 1 .. Len(replies), ReplyToRead(i) PROVE CallsCounted(op)'
  <2>1. PICK r \in Reads, word \in Values :
          r = replies[i][1][1] /\ (ReceivedLow(r, word) \/ ReceivedHigh(r, word))
    BY <1>6 DEF ReplyToRead, TypeOK, UdpTypeOK, Replies
  <2>2. receiveThread' \in {Idle, <<"again", r>>, <<"success", r>>}
    BY <2>1 DEF ReceivedLow, ReceivedHigh
  <2>3. /\ receiveThread = Idle /\ UNCHANGED <<results, sendThread, thrown>>
        /\ Callbacks!Answer(replies[i][1]) /\ r # op
    BY <1>a, <1>6, <2>1 DEF ReplyToRead, Answered
  <2>4. \A w \in {"low", "success", "failure"} :
          receiveThread' # <<w, op>> /\ receiveThread # <<w, op>>
    BY <1>b, <2>2, <2>3
  <2>. QED BY <1>5, <1>a, <2>1, <2>3, <2>4
<1>7. ASSUME NEW i \in 1 .. Len(replies), ReplyToWrite(i) PROVE CallsCounted(op)'
  <2> DEFINE o == replies[i][1][1]
             word == replies[i][1][2]
  <2>1. /\ receiveThread = Idle /\ UNCHANGED <<results, sendThread, thrown>> /\ o \in Writes
        /\ Callbacks!Answer(replies[i][1]) /\ replies[i][1] = <<o, word>> /\ word \in {"low", "high"}
        /\ receiveThread' = IF word = "high" THEN <<"low", o>> ELSE <<"success", o>>
    BY <1>a, <1>7 DEF ReplyToWrite, Answered, Requests
  <2>. HIDE DEF o, word
  <2>2. CASE o # op
    <3>1. \A w \in {"low", "success", "failure"} :
            receiveThread' # <<w, op>> /\ receiveThread # <<w, op>>
      BY <1>b, <2>1, <2>2
    <3>2. replies[i][1] \in Requests /\ replies[i][1][1] # op
      BY <1>a, <2>2 DEF o
    <3>. QED BY <1>5, <2>1, <3>1, <3>2
  <2>3. CASE o = op /\ word = "low"
    BY <1>a, <2>1, <2>3, CallIsPassedOn
  <2>4. CASE o = op /\ word = "high"
    <3>1. /\ <<op, "high">> \in open /\ open' = open \ {<<op, "high">>}
          /\ UNCHANGED <<sent, reported>>
      BY <2>1, <2>4 DEF Callbacks!Answer
    <3>2. ~ LowWordQueued(op) /\ LowWordQueued(op)'
      BY <1>a, <2>1, <2>4, <3>1 DEF QueuedOnce, LowWordQueued
    <3>10. One(LowWordQueuedAndThrown(op))' = One(LowWordQueuedAndThrown(op))
      BY <2>1, <3>1 DEF LowWordQueuedAndThrown
    <3>11. One(LowWordQueuedAndThrown(op)) \in Nat
      BY DEF One
    <3>3. AboutToCall(op)' = AboutToCall(op)
      BY <2>1, <2>4, <1>b DEF AboutToCall, One
    <3>4. Callbacks!Calls(<<op, "high">>)' = Callbacks!Calls(<<op, "high">>) + 1
      BY <1>a, <3>1 DEF Callbacks!Calls
    <3>5. Callbacks!Calls(<<op, "low">>)' = Callbacks!Calls(<<op, "low">>)
      BY <3>1 DEF Callbacks!Calls
    <3>6. PICK n \in Nat : Len(results[op]) = n /\ Len(results'[op]) = n
      BY <1>a, <2>1
    <3>7. AboutToCall(op) \in Nat
      BY DEF AboutToCall, One
    <3>8. Callbacks!Calls(<<op, "high">>) \in Nat /\ Callbacks!Calls(<<op, "low">>) \in Nat
      BY DEF Callbacks!Calls
    <3>9. One(LowWordQueued(op)) = 0 /\ One(LowWordQueued(op))' = 1
      BY <3>2 DEF One
    <3>. QED BY <1>a, <3>3, <3>4, <3>5, <3>6, <3>7, <3>8, <3>9, <3>10, <3>11 DEF CallsCounted
  <2>. QED BY <2>1, <2>2, <2>3, <2>4
<1>8. ASSUME NEW o \in Ops
      PROVE  /\ NextOfFailure(o) \in {Idle, <<"failure", o>>}
             /\ o = op => NextOfFailure(o) = <<"failure", op>>
  BY <1>a DEF NextOfFailure
<1>9. ASSUME NEW i \in 1 .. Len(replies), ReplyWithStatus(i) PROVE CallsCounted(op)'
  <2> DEFINE request == replies[i][1]
  <2>1. /\ receiveThread = Idle /\ UNCHANGED <<results, sendThread, thrown>> /\ request \in Requests
        /\ Callbacks!Answer(request) /\ receiveThread' = NextOfFailure(request[1])
    BY <1>a, <1>9 DEF ReplyWithStatus, Answered
  <2>2. request[1] \in Ops /\ (request[1] = op => \E word \in {"low", "high"} : request = <<op, word>>)
    BY <1>a, <2>1 DEF Requests
  <2>. HIDE DEF request
  <2>3. CASE request[1] # op
    <3>1. \A w \in {"low", "success", "failure"} :
            receiveThread' # <<w, op>> /\ receiveThread # <<w, op>>
      BY <1>b, <1>8, <2>1, <2>2, <2>3
    <3>. QED BY <1>5, <2>1, <2>3, <3>1
  <2>4. CASE request[1] = op
    <3>1. receiveThread' = <<"failure", op>>
      BY <1>8, <2>1, <2>2, <2>4
    <3>. QED BY <1>a, <2>1, <2>2, <2>4, <3>1, CallIsPassedOn
  <2>. QED BY <2>3, <2>4
<1>10. ASSUME NEW request \in Requests, RequestFails(request) PROVE CallsCounted(op)'
  <2>1. /\ sendThread = Idle /\ UNCHANGED <<results, receiveThread, thrown>>
        /\ Callbacks!Answer(request) \/ Callbacks!Report(request)
        /\ sendThread' = NextOfFailure(request[1])
    BY <1>10 DEF RequestFails
  <2>2. request[1] \in Ops /\ (request[1] = op => \E word \in {"low", "high"} : request = <<op, word>>)
    BY <1>a DEF Requests
  <2>3. CASE request[1] # op
    <3>1. sendThread' # <<"failure", op>> /\ sendThread # <<"failure", op>>
      BY <1>b, <1>8, <2>1, <2>2, <2>3
    <3>. QED BY <1>5, <2>1, <2>3, <3>1
  <2>4. CASE request[1] = op
    <3>1. sendThread' = <<"failure", op>>
      BY <1>8, <2>1, <2>2, <2>4
    <3>. QED BY <1>a, <2>1, <2>2, <2>4, <3>1, CallIsPassedOn
  <2>. QED BY <2>3, <2>4
<1>11. ASSUME NEW o \in Ops, QueueWord(o) \/ QueueAgainThrows(o) \/ QueueLowThrows(o)
       PROVE  CallsCounted(op)'
  <2>1. PICK word \in {"again", "low"} :
          /\ receiveThread = <<word, o>>
          /\ \/ QueueRequest(<<o, word>>) /\ receiveThread' = Idle
             \/ /\ QueueThrows(<<o, word>>)
                /\ receiveThread' = IF word = "low" THEN <<"failure", o>> ELSE Idle
    BY <1>11 DEF QueueWord, QueueAgainThrows, QueueLowThrows
  <2>2. UNCHANGED <<results, sendThread, reported>> /\ Queuing(<<o, word>>)
    BY <1>11, <2>1 DEF QueueWord, QueueAgainThrows, QueueLowThrows, Queuing
  <2>3. CASE o # op
    BY <1>1, <2>1, <2>2, <2>3
  <2>4. CASE o = op
    <3>1. word = "low"
      BY <1>a, <2>1, <2>4 DEF Todo, Idle
    <3>2. <<op, "low">> \notin sent \cup thrown
      BY <1>a, <2>1, <2>4, <3>1 DEF QueuedOnce
    <3>. QED BY <1>a, <2>1, <2>2, <2>4, <3>1, <3>2, QueuingIsNoCall, ThrowingIsCall
  <2>. QED BY <2>3, <2>4
<1>12. ASSUME NEW o \in Ops, ReportSuccess(o) \/ ReportFailure(o) PROVE CallsCounted(op)'
  <2>1. /\ UNCHANGED clientVars
        /\ \E result \in Results : results' = [results EXCEPT ![o] = Append(@, result)]
    <3>1. CASE ReportFailure(o)
      <4>1. Failure \in Results
        BY DEF Failure, Results
      <4>. QED BY <3>1, <4>1 DEF ReportFailure
    <3>2. CASE ReportSuccess(o)
      <4> DEFINE result == [success |-> TRUE,
                            low |-> IF o \in Reads THEN shared[o].low ELSE NoValue,
                            high |-> IF o \in Reads THEN shared[o].high ELSE {}]
      <4>1. result \in Results
        BY DEF Results, SharedStates, TypeOK, UdpTypeOK
      <4>. QED BY <3>2, <4>1 DEF ReportSuccess
    <3>. QED BY <1>12, <3>1, <3>2
  <2>2. \/ /\ receiveThread \in {<<"success", o>>, <<"failure", o>>} /\ receiveThread' = Idle
           /\ UNCHANGED sendThread
        \/ sendThread = <<"failure", o>> /\ sendThread' = Idle /\ UNCHANGED receiveThread
    BY <1>12 DEF ReportSuccess, ReportFailure
  <2>3. PICK result \in Results : results' = [results EXCEPT ![o] = Append(@, result)]
    BY <2>1
  <2>4. CASE o # op
    <3>1. /\ \A w \in {"low", "success", "failure"} :
               receiveThread' = <<w, op>> <=> receiveThread = <<w, op>>
          /\ sendThread' = <<"failure", op>> <=> sendThread = <<"failure", op>>
      BY <1>b, <2>2, <2>4
    <3>2. results'[op] = results[op]
      BY <1>a, <2>3, <2>4
    <3>. QED BY <1>a, <2>1, <3>1, <3>2, NotCalling DEF clientVars
  <2>5. CASE o = op
    <3>1. results'[op] = Append(results[op], result)
      BY <1>a, <2>3, <2>5
    <3>. QED BY <1>a, <2>1, <2>2, <2>5, <3>1, CallIsMade
  <2>. QED BY <2>4, <2>5
<1>13. CASE UNCHANGED vars
  BY <1>a, <1>13, NotCalling DEF vars, udpVars, clientVars, threads
<1>14. ASSUME NEW o \in Ops, FailReading(o) PROVE CallsCounted(op)'
  <2>1. o # op /\ results' = [results EXCEPT ![o] = Append(@, Failure)]
        /\ UNCHANGED <<clientVars, threads>>
    BY <1>a, <1>14 DEF FailReading
  <2>2. results'[op] = results[op]
    BY <1>a, <2>1
  <2>. QED BY <1>a, <2>1, <2>2, NotCalling DEF clientVars, threads
<1>. QED
  BY <1>2, <1>3, <1>4, <1>6, <1>7, <1>9, <1>10, <1>11, <1>12, <1>13, <1>14, <1>a
     DEF Next, UdpIp, ReceiveThread, SendThread

LEMMA InitCallsInv == Init => CallsInv
<1> SUFFICES ASSUME Init, NEW op \in Writes PROVE CallsCounted(op)
  BY DEF CallsInv
<1>1. results[op] = <<>> /\ receiveThread = Idle /\ sendThread = Idle /\ sent = {} /\ reported = {}
  BY DEF Init, UdpInit, Ops
<1>2. /\ AboutToCall(op) = 0 /\ One(LowWordQueued(op)) = 0
      /\ One(LowWordQueuedAndThrown(op)) = 0
  BY <1>1 DEF AboutToCall, One, LowWordQueued, LowWordQueuedAndThrown, Idle
<1>3. Callbacks!Calls(<<op, "high">>) = 0 /\ Callbacks!Calls(<<op, "low">>) = 0
  BY <1>1 DEF Callbacks!Calls
<1>. QED BY <1>1, <1>2, <1>3 DEF CallsCounted

(***************************************************************************)
(* The callback of a 32-bit write is called once, and once more for each   *)
(* of its two requests whose failed retransmission is reported besides the *)
(* answer, and if queuing the low word has thrown although the client has  *)
(* got the request: nothing but these leads to a second call of the        *)
(* operation's callback (writeUInt32 and its callbacks).                   *)
(***************************************************************************)
THEOREM WriteCallsBounded ==
  Spec => [](\A op \in Writes :
               Len(results[op]) <= 1 + One(<<op, "high">> \in reported)
                                    + One(<<op, "low">> \in reported)
                                    + One(<<op, "low">> \in sent \cap thrown))
<1> DEFINE Bound(op) == 1 + One(<<op, "high">> \in reported) + One(<<op, "low">> \in reported)
                          + One(<<op, "low">> \in sent \cap thrown)
<1>1. TypeOK /\ CallsInv => \A op \in Writes : Len(results[op]) <= Bound(op)
  <2> SUFFICES ASSUME TypeOK, CallsInv, NEW op \in Writes PROVE Len(results[op]) <= Bound(op)
    OBVIOUS
  <2>1. PICK n \in Nat : Len(results[op]) = n
    <3>1. results[op] \in Seq(Results)
      BY DEF TypeOK, UdpTypeOK, Ops
    <3>. QED BY <3>1
  <2>2. AboutToCall(op) \in Nat
    BY DEF AboutToCall, One
  <2>3. Callbacks!Calls(<<op, "high">>) <= 1 + One(<<op, "high">> \in reported)
    BY DEF Callbacks!Calls, One
  <2>4. Callbacks!Calls(<<op, "low">>) <= One(LowWordQueued(op)) + One(<<op, "low">> \in reported)
    <3>1. <<op, "low">> \in sent => LowWordQueued(op)
      BY DEF LowWordQueued
    <3>. QED BY <3>1 DEF Callbacks!Calls, One
  <2>5. /\ One(<<op, "high">> \in reported) \in Nat /\ One(<<op, "low">> \in reported) \in Nat
        /\ One(LowWordQueued(op)) \in Nat /\ One(<<op, "low">> \in sent \cap thrown) \in Nat
        /\ Callbacks!Calls(<<op, "high">>) \in Nat /\ Callbacks!Calls(<<op, "low">>) \in Nat
    BY DEF One, Callbacks!Calls
  <2>6. n + AboutToCall(op) + One(LowWordQueued(op))
          = Callbacks!Calls(<<op, "high">>) + Callbacks!Calls(<<op, "low">>)
              + One(<<op, "low">> \in sent \cap thrown)
    BY <2>1 DEF CallsInv, CallsCounted, LowWordQueuedAndThrown
  <2>. QED BY <2>1, <2>2, <2>3, <2>4, <2>5, <2>6
<1>. QED
  BY <1>1, InitCallsInv, NextCallsInv, TypeCorrect, QueueInvariant, PTL DEF Spec
=============================================================================
