----------------------------- MODULE MemoryCache -----------------------------
(***************************************************************************)
(* MrfMemoryCache over the blocking access of MrfMemoryAccess over         *)
(* MrfUdpIpMemoryAccess: threads read the same 32-bit register through the *)
(* cache.  A thread that does not find it there reads it from the device   *)
(* without holding the mutex of the cache, waits for the callback and puts *)
(* the value into the cache, unless another thread has been faster.        *)
(*                                                                         *)
(* A reader is named by its read operation.                                *)
(***************************************************************************)
EXTENDS UdpIpMemoryAccess

VARIABLES
  cacheUInt32,   \* the value of the register, if it has been cached: a set of
                 \* at most one element
  reader,        \* reader[r]: position of the thread
  value          \* value[r]: value that it has read or returned

cacheVars == <<cacheUInt32, reader, value>>
vars == <<udpVars, cacheVars>>

TypeOK ==
  /\ UdpTypeOK
  /\ cacheUInt32 \subseteq Results /\ Cardinality(cacheUInt32) <= 1
  /\ reader \in [Reads -> {"new",        \* about to look into the cache
                           "reading",    \* waits for the device
                           "emplace",    \* about to add the value
                           "returned", "threw"}]
  /\ value \in [Reads -> Results]

Init ==
  /\ UdpInit
  /\ cacheUInt32 = {}
  /\ reader = [r \in Reads |-> "new"]
  /\ value = [r \in Reads |-> Failure]

LookUp(r) ==
  /\ reader[r] = "new"
  /\ \/ /\ cacheUInt32 = {}
        /\ reader' = [reader EXCEPT ![r] = "reading"]
        /\ UNCHANGED value
     \/ /\ cacheUInt32 # {}
        /\ reader' = [reader EXCEPT ![r] = "returned"]
        /\ \E cached \in cacheUInt32 : value' = [value EXCEPT ![r] = cached]
  /\ UNCHANGED <<udpVars, cacheUInt32>>

\* If readUInt32 throws, the thread does not wait for the callback.
StartReading(r) ==
  /\ reader[r] = "reading"
  /\ ReadUInt32(r)
  /\ reader' = [reader EXCEPT ![r] = IF called'[r] = "threw" THEN "threw" ELSE @]
  /\ UNCHANGED <<cacheUInt32, value>>

\* The condition variable is signalled when the callback is called.
GetResult(r) ==
  LET result == results[r][Len(results[r])] IN
  /\ reader[r] = "reading"
  /\ called[r] = "called"
  /\ results[r] # <<>>
  /\ value' = [value EXCEPT ![r] = result]
  /\ reader' = [reader EXCEPT ![r] = IF result.success THEN "emplace" ELSE "threw"]
  /\ UNCHANGED <<udpVars, cacheUInt32>>

\* Faulty variant, for testing TypeOK: a register is cached twice.
CachedAdded(r) == cacheUInt32 \cup {value[r]}

\* Faulty variant, for testing ReadersAgree: a value in the cache is replaced.
CachedReplaced(r) == {value[r]}

\* emplace does not replace a value.
Cached(r) == IF cacheUInt32 = {} THEN {value[r]} ELSE cacheUInt32

Emplace(r) ==
  /\ reader[r] = "emplace"
  /\ cacheUInt32' = Cached(r)
  /\ \E cached \in cacheUInt32' : value' = [value EXCEPT ![r] = cached]
  /\ reader' = [reader EXCEPT ![r] = "returned"]
  /\ UNCHANGED udpVars

-----------------------------------------------------------------------------
Reader(r) == LookUp(r) \/ StartReading(r) \/ GetResult(r) \/ Emplace(r)

Next ==
  \/ \E r \in Reads : Reader(r)
  \/ \E op \in Writes : WriteUInt32(op) /\ UNCHANGED cacheVars
  \/ UdpIp /\ UNCHANGED cacheVars

Spec == Init /\ [][Next]_vars

(***************************************************************************)
(* The readers keep running, the client's callbacks return, and the client *)
(* keeps its promise that every request is answered in the end, if only by *)
(* its timeout.  No packet has to arrive.                                  *)
(***************************************************************************)
Fairness ==
  /\ \A r \in Reads : /\ WF_vars(Reader(r))
                       /\ WF_vars((QueueHighWord(r) \/ FailReading(r)) /\ UNCHANGED cacheVars)
  /\ \A op \in Ops : /\ WF_vars((QueueWord(op) \/ QueueAgainThrows(op) \/ QueueLowThrows(op))
                               /\ UNCHANGED cacheVars)
                     /\ WF_vars(ReportSuccess(op) /\ UNCHANGED cacheVars)
                     /\ WF_vars(ReportFailure(op) /\ UNCHANGED cacheVars)
  /\ Callbacks!Fairness

FairSpec == Spec /\ Fairness

-----------------------------------------------------------------------------
(* Properties.                                                             *)

(***************************************************************************)
(* All readers that get a value get the same one, even if they have read   *)
(* different values from the device: "the behavior is independent          *)
(* concurrency timings".                                                   *)
(***************************************************************************)
ReadersAgree ==
  \A r1, r2 \in Reads :
    reader[r1] = "returned" /\ reader[r2] = "returned" => value[r1] = value[r2]

(***************************************************************************)
(* A thread that waits for its callback, without a timeout of its own,     *)
(* returns in the end, unless queuing the second request for the high word *)
(* has thrown: then nobody may ever call its callback.                     *)
(***************************************************************************)
ReadersReturn == \A r \in Reads : []<>(reader[r] # "reading" \/ <<r, "again">> \in thrown)
=============================================================================
