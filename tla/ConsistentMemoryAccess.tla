----------------------- MODULE ConsistentMemoryAccess -----------------------
(***************************************************************************)
(* MrfConsistentAsynchronousMemoryAccess: write and update operations on   *)
(* registers are queued such that two operations that touch a common byte  *)
(* never run at the same time.  The object delegates the actual accesses   *)
(* to another (asynchronous) memory access.                                *)
(*                                                                         *)
(* Each operation (one call of writeUInt16, writeUInt32, updateUInt16 or   *)
(* updateUInt32) is identified by the id that the code takes from nextId.  *)
(* Its position in the code is pc[op]; the threads themselves are not      *)
(* named, because every operation is worked on by at most one thread at a  *)
(* time: the caller's while it is submitted, and one of the delegate's     *)
(* while its callback runs.                                                *)
(*                                                                         *)
(* The delegate may be MrfUdpIpMemoryAccess, which may call the callback   *)
(* of a request once more and lets the device execute a write after its    *)
(* failure has been reported.  The wrapping callbacks do not expect that.  *)
(* Each such further call has a position of its own, pc[call], because it  *)
(* may come on another thread while the operation is still being worked    *)
(* on.                                                                     *)
(***************************************************************************)
EXTENDS Integers, FiniteSets

CONSTANTS
  Ops,          \* the operations (their ids)
  NoOp,         \* not an operation
  Kind,         \* Kind[op]: "write" or "update" (OperationType)
  Address,      \* Address[op]: first byte of the register
  Width,        \* Width[op]: 2 or 4 (OperationInfo::width)
  Repeats,      \* further calls of callbacks that may happen
  Repeated,     \* Repeated[call]: the operation whose callback is called again
  Request,      \* Request[call]: which of its requests, "read" or "write"
  Late,         \* operations whose requests may be executed late or again
  FreedIds,     \* what the id of a freed OperationInfo may be read as
  RacyLookups   \* what a map lookup racing with an insert or erase may give

(***************************************************************************)
(* removeOperationInfo keeps using its argument after having erased the    *)
(* node the argument lives in.  An allocator that leaves the bytes of the  *)
(* freed node alone yields the "intact" id, otherwise the id is "garbage". *)
(* Likewise, runOperation looks up a callback without holding the mutex:   *)
(* the lookup may go well ("found") or miss the element ("missing").       *)
(***************************************************************************)
ASSUME OpsAssumption ==
  /\ NoOp \notin Ops
  /\ Kind \in [Ops -> {"write", "update"}]
  /\ Address \in [Ops -> Nat]
  /\ Width \in [Ops -> {2, 4}]

ASSUME DelegateAssumption ==
  /\ Repeats \cap Ops = {} /\ NoOp \notin Repeats
  /\ Repeated \in [Repeats -> Ops]
  /\ Request \in [Repeats -> {"read", "write"}]
  /\ Late \subseteq Ops

ASSUME UndefinedBehaviourAssumption ==
  /\ FreedIds \subseteq {"intact", "garbage"} /\ FreedIds # {}
  /\ RacyLookups \subseteq {"found", "missing"} /\ RacyLookups # {}

\* Not modelled: with stale entries and repeated callbacks together, an operation
\* might be found in the queue, and run, while it is running.
ASSUME CombinationAssumption ==
  (Repeats # {} \/ Late # {}) => "garbage" \notin FreedIds

\* The bytes an operation touches.
Span(op) == Address[op] .. (Address[op] + Width[op] - 1)

Bytes == UNION {Span(op) : op \in Ops}

\* Calls of wrapping callbacks: the one an operation ends with, and further ones.
Calls == Ops \cup Repeats

Op(call) == IF call \in Ops THEN call ELSE Repeated[call]

Requests == Ops \X {"read", "write"}

\* Operations for which the delegate may do more than it is expected to.
Unsteady == Late \cup {Repeated[call] : call \in Repeats}

\* The four callback maps are told apart by the operation's type.
SameMap(op1, op2) == Kind[op1] = Kind[op2] /\ Width[op1] = Width[op2]

VARIABLES
  pc,                   \* pc[call]: where the call is, see Positions
  mutex,                \* the call whose thread holds the mutex, or NoOp
  callbacks,            \* ids present in the callback maps
  pendingOperations,    \* set of <<byte, op>>, the entries of the multimap
  operationRunning,     \* bytes marked as being in use
  runnableOperations,   \* runnableOperations[call]: set of <<byte, next>>, the
                        \* local list of its operationFinished: next was found
                        \* at byte, and is run after those of higher bytes
  nested,               \* nested[call]: operation whose synchronous failure is
                        \* handled inside its operationFinished, or NoOp
  outcome,              \* outcome[call]: what the caller's callback is told
  memory,               \* memory[b]: operations that made up the byte's value
  snapshot,             \* snapshot[op]: value seen by the read of an update
  performed,            \* requests that the device has executed
  late,                 \* operations whose write was executed once more, or late
  answered,             \* requests of Unsteady operations that have been called
                        \* back, and
  succeeded             \* those among them that have succeeded

queueVars == <<callbacks, pendingOperations, operationRunning>>
finishVars == <<runnableOperations, nested>>
deviceVars == <<memory, snapshot, performed, late>>
answerVars == <<answered, succeeded>>
vars == <<pc, mutex, callbacks, pendingOperations, operationRunning,
          runnableOperations, nested, outcome, memory, snapshot, performed, late,
          answered, succeeded>>

Positions ==
  {"new",         \* not submitted yet, or the further call has not come
   "submitting",  \* in write.../update..., holding the mutex
   "pending",     \* waiting in pendingOperations
   "run",         \* marked as running, its submitter is about to run it
   "selected",    \* marked as running, in a list of runnableOperations
   "reading",     \* update: read request handed to the delegate
   "read",        \* update: register read, callback not called yet
   "writing",     \* write request handed to the delegate
   "finish",      \* wrapping callback called, about to take the mutex
   "finishing",   \* in operationFinished, holding the mutex
   "starting",    \* in operationFinished, running the next operations
   "lost",        \* marked as running, but will not be run
   "done"}        \* the caller's callback has been called

TypeOK ==
  /\ pc \in [Calls -> Positions]
  /\ mutex \in Calls \cup {NoOp}
  /\ callbacks \subseteq Ops
  /\ pendingOperations \subseteq Bytes \X Ops
  /\ operationRunning \subseteq Bytes
  /\ runnableOperations \in [Calls -> SUBSET (Bytes \X Ops)]
  /\ nested \in [Calls -> Ops \cup {NoOp}]
  /\ outcome \in [Calls -> {"none", "success", "failure"}]
  /\ memory \in [Bytes -> SUBSET Ops]
  /\ snapshot \in [Ops -> [Bytes -> SUBSET Ops]]
  /\ performed \subseteq Requests
  /\ late \subseteq Late
  /\ answered \subseteq Requests
  /\ succeeded \subseteq answered

Init ==
  /\ pc = [call \in Calls |-> "new"]
  /\ mutex = NoOp
  /\ callbacks = {}
  /\ pendingOperations = {}
  /\ operationRunning = {}
  /\ runnableOperations = [call \in Calls |-> {}]
  /\ nested = [call \in Calls |-> NoOp]
  /\ outcome = [call \in Calls |-> "none"]
  /\ memory = [b \in Bytes |-> {}]
  /\ snapshot = [op \in Ops |-> [b \in Bytes |-> {}]]
  /\ performed = {} /\ late = {}
  /\ answered = {} /\ succeeded = {}

-----------------------------------------------------------------------------
(* Submitting an operation.                                                *)

\* Faulty variants, for testing the properties: only the first byte is checked,
\* writes do not wait, one entry per operation, the loop runs one byte too far,
\* and only the entry that was found is removed.
CanRunFirstByte(op, running) == Address[op] \notin running
CanRunUnlessUpdate(op, running) == Kind[op] = "write" \/ Span(op) \cap running = {}
EntriesFirstByte(op) == {<<Address[op], op>>}
EntriesTooWide(op) == {<<b, op>> : b \in Address[op] .. (Address[op] + Width[op])}
RemovedFoundOnly(q, b, freed) == {<<b, q>>}

CanRunOperation(op, running) == Span(op) \cap running = {}

\* insertOperationInfo: one entry per byte.
Entries(op) == {<<b, op>> : b \in Span(op)}

\* The caller enters write.../update... and gets the mutex.
Submit(op) ==
  /\ pc[op] = "new"
  /\ mutex = NoOp
  /\ mutex' = op
  /\ pc' = [pc EXCEPT ![op] = "submitting"]
  /\ UNCHANGED <<queueVars, finishVars, outcome, deviceVars, answerVars>>

\* The critical section of write.../update...
Accept(op) ==
  /\ pc[op] = "submitting"
  /\ mutex' = NoOp
  /\ callbacks' = callbacks \cup {op}
  /\ IF CanRunOperation(op, operationRunning)
       THEN /\ operationRunning' = operationRunning \cup Span(op)
            /\ pc' = [pc EXCEPT ![op] = "run"]
            /\ UNCHANGED pendingOperations
       ELSE /\ pendingOperations' = pendingOperations \cup Entries(op)
            /\ pc' = [pc EXCEPT ![op] = "pending"]
            /\ UNCHANGED operationRunning
  /\ UNCHANGED <<finishVars, outcome, deviceVars, answerVars>>

-----------------------------------------------------------------------------
(* runOperation, called by the submitter or by operationFinished.          *)

\* The lookup by at(id), which is not protected by the mutex.
LookupRaces(op) == mutex # NoOp /\ SameMap(Op(mutex), op)
LookupFinds(op) ==
  op \in callbacks /\ (LookupRaces(op) => "found" \in RacyLookups)
LookupThrows(op) ==
  op \notin callbacks \/ (LookupRaces(op) /\ "missing" \in RacyLookups)

\* Where an operation is once the delegate has accepted its first request.
Requested(op) == IF Kind[op] = "write" THEN "writing" ELSE "reading"

\* The first request of an operation.
FirstRequest(op) == <<op, IF Kind[op] = "write" THEN "write" ELSE "read">>

\* The request is called back, which is recorded if that may happen again.
Answered(request) == answered' = answered \cup (IF request[1] \in Unsteady THEN {request} ELSE {})
Succeeded(request) ==
  /\ Answered(request)
  /\ succeeded' = succeeded \cup (IF request[1] \in Unsteady THEN {request} ELSE {})

\* The call of a failure callback made inside operationFinished, if any, has
\* returned.
NestedReturned(call) == nested[call] # NoOp => pc[nested[call]] = "done"

\* The operation that operationFinished runs next: the list is filled with
\* push_front, so the one found at the highest byte comes first.
IsNext(call, b, next) ==
  /\ pc[call] = "starting"
  /\ NestedReturned(call)
  /\ <<b, next>> \in runnableOperations[call]
  /\ \A entry \in runnableOperations[call] : entry[1] <= b

\* The delegate queues the request of a submitter's operation.
RunSubmitted(op) ==
  /\ pc[op] = "run" /\ LookupFinds(op)
  /\ pc' = [pc EXCEPT ![op] = Requested(op)]
  /\ UNCHANGED <<mutex, queueVars, finishVars, outcome, deviceVars, answerVars>>

\* The delegate calls the failure callback at once, or throws.
RejectSubmitted(op) ==
  /\ pc[op] = "run" /\ LookupFinds(op)
  /\ pc' = [pc EXCEPT ![op] = "finish"]
  /\ outcome' = [outcome EXCEPT ![op] = "failure"]
  /\ Answered(FirstRequest(op))
  /\ UNCHANGED <<mutex, queueVars, finishVars, deviceVars, succeeded>>

\* The lookup throws: the exception leaves write.../update...
ThrowSubmitted(op) ==
  /\ pc[op] = "run" /\ LookupThrows(op)
  /\ pc' = [pc EXCEPT ![op] = "lost"]
  /\ UNCHANGED <<mutex, queueVars, finishVars, outcome, deviceVars, answerVars>>

RunNext(call) ==
  \E b \in Bytes, next \in Ops :
    /\ IsNext(call, b, next) /\ LookupFinds(next)
    /\ pc' = [pc EXCEPT ![next] = Requested(next)]
    /\ runnableOperations' = [runnableOperations EXCEPT ![call] = @ \ {<<b, next>>}]
    /\ UNCHANGED <<mutex, queueVars, nested, outcome, deviceVars, answerVars>>

RejectNext(call) ==
  \E b \in Bytes, next \in Ops :
    /\ IsNext(call, b, next) /\ LookupFinds(next)
    /\ pc' = [pc EXCEPT ![next] = "finish"]
    /\ outcome' = [outcome EXCEPT ![next] = "failure"]
    /\ Answered(FirstRequest(next))
    /\ nested' = [nested EXCEPT ![call] = next]
    /\ runnableOperations' = [runnableOperations EXCEPT ![call] = @ \ {<<b, next>>}]
    /\ UNCHANGED <<mutex, queueVars, deviceVars, succeeded>>

\* The exception leaves operationFinished, the rest of its list is dropped.
ThrowNext(call) ==
  \E b \in Bytes, next \in Ops :
    /\ IsNext(call, b, next) /\ LookupThrows(next)
    /\ pc' = [o \in Calls |->
                IF pc[o] = "selected" /\ \E c \in Bytes : <<c, o>> \in runnableOperations[call]
                  THEN "lost" ELSE pc[o]]
    /\ runnableOperations' = [runnableOperations EXCEPT ![call] = {}]
    /\ UNCHANGED <<mutex, queueVars, nested, outcome, deviceVars, answerVars>>

-----------------------------------------------------------------------------
(* The delegate and the wrapping callbacks.                                *)

\* The device executes the read of an update.
PerformRead(op) ==
  /\ pc[op] = "reading"
  /\ pc' = [pc EXCEPT ![op] = "read"]
  /\ snapshot' = [snapshot EXCEPT ![op] =
                    [b \in Bytes |-> IF b \in Span(op) THEN memory[b] ELSE {}]]
  /\ performed' = performed \cup {<<op, "read">>}
  /\ UNCHANGED <<mutex, queueVars, finishVars, outcome, memory, late, answerVars>>

\* UpdateCallback::success after the read: update the value, request the write.
WriteUpdated(call) ==
  /\ pc[call] = "read"
  /\ pc' = [pc EXCEPT ![call] = "writing"]
  /\ Succeeded(<<Op(call), "read">>)
  /\ UNCHANGED <<mutex, queueVars, finishVars, outcome, deviceVars>>

\* The callback's update method or the request of the write throws.
UpdateThrows(call) ==
  /\ pc[call] = "read"
  /\ pc' = [pc EXCEPT ![call] = "finish"]
  /\ outcome' = [outcome EXCEPT ![call] = "failure"]
  /\ Succeeded(<<Op(call), "read">>)
  /\ UNCHANGED <<mutex, queueVars, finishVars, deviceVars>>

\* The value a byte gets: an update only changes the bits of its mask.
NewValue(op, b) ==
  IF Kind[op] = "write" THEN {op} ELSE snapshot[op][b] \cup {op}

Written(op) == [b \in Bytes |-> IF b \in Span(op) THEN NewValue(op, b) ELSE memory[b]]

\* The device executes the write.
PerformWrite(call) ==
  LET op == Op(call)
  IN  /\ pc[call] = "writing" /\ <<op, "write">> \notin performed
      /\ memory' = Written(op)
      /\ performed' = performed \cup {<<op, "write">>}
      /\ UNCHANGED <<pc, mutex, queueVars, finishVars, outcome, snapshot, late, answerVars>>

\* The success callback of a write request.
Succeed(call) ==
  /\ pc[call] = "writing" /\ <<Op(call), "write">> \in performed
  /\ pc' = [pc EXCEPT ![call] = "finish"]
  /\ outcome' = [outcome EXCEPT ![call] = "success"]
  /\ Succeeded(<<Op(call), "write">>)
  /\ UNCHANGED <<mutex, queueVars, finishVars, deviceVars>>

\* The failure callback of a request, which may have been executed all the same.
Fail(call) ==
  /\ \/ pc[call] = "writing" /\ Answered(<<Op(call), "write">>)
     \/ /\ call \in Ops /\ pc[call] \in {"reading", "read"}
        /\ Answered(<<call, "read">>)
  /\ pc' = [pc EXCEPT ![call] = "finish"]
  /\ outcome' = [outcome EXCEPT ![call] = "failure"]
  /\ UNCHANGED <<mutex, queueVars, finishVars, deviceVars, succeeded>>

-----------------------------------------------------------------------------
(* What a delegate does besides that is not steady.  A request succeeds at *)
(* most once, but its failure may be reported before or after that.        *)

RepeatedRequest(call) == <<Repeated[call], Request[call]>>

\* The failure callback is called although the request has been called back.
RepeatFailure(call) ==
  /\ pc[call] = "new" /\ RepeatedRequest(call) \in answered
  /\ pc' = [pc EXCEPT ![call] = "finish"]
  /\ outcome' = [outcome EXCEPT ![call] = "failure"]
  /\ UNCHANGED <<mutex, queueVars, finishVars, deviceVars, answerVars>>

\* The success callback is called after the failure callback: the one of a
\* read goes on to update the value, the one of a write finishes.
RepeatSuccess(call) ==
  /\ pc[call] = "new" /\ RepeatedRequest(call) \in (answered \cap performed) \ succeeded
  /\ Succeeded(RepeatedRequest(call))
  /\ IF Request[call] = "read"
       THEN /\ pc' = [pc EXCEPT ![call] = "read"]
            /\ UNCHANGED outcome
       ELSE /\ pc' = [pc EXCEPT ![call] = "finish"]
            /\ outcome' = [outcome EXCEPT ![call] = "success"]
  /\ UNCHANGED <<mutex, queueVars, finishVars, deviceVars>>

\* The device executes a read, perhaps once more, whose failure has been reported.
ReadLate(op) ==
  /\ op \in Late /\ <<op, "read">> \in answered \ succeeded
  /\ snapshot' = [snapshot EXCEPT ![op] =
                    [b \in Bytes |-> IF b \in Span(op) THEN memory[b] ELSE {}]]
  /\ performed' = performed \cup {<<op, "read">>}
  /\ UNCHANGED <<pc, mutex, queueVars, finishVars, outcome, memory, late, answerVars>>

\* The device executes a write once more, or after its failure was reported.
WriteLate(op) ==
  /\ op \in Late /\ <<op, "write">> \in answered \cup performed
  /\ memory' = Written(op)
  /\ performed' = performed \cup {<<op, "write">>}
  /\ late' = late \cup {op}
  /\ UNCHANGED <<pc, mutex, queueVars, finishVars, outcome, snapshot, answerVars>>

-----------------------------------------------------------------------------
(* operationFinished and the caller's callback.                            *)

EnterFinished(call) ==
  /\ pc[call] = "finish"
  /\ mutex = NoOp
  /\ mutex' = call
  /\ pc' = [pc EXCEPT ![call] = "finishing"]
  /\ UNCHANGED <<queueVars, finishVars, outcome, deviceVars, answerVars>>

\* The bytes marked once the bytes of op before b have been looked at.
MarkedBefore(op, pick, b) ==
  (operationRunning \ Span(op))
    \cup UNION {Span(pick[c]) : c \in {d \in Span(op) : d < b /\ pick[d] # NoOp}}

\* prepareNextOperations looks at the bytes in ascending order and takes, at
\* each, one pending operation that can run; the order within a bucket of an
\* unordered_multimap is unspecified.
Selections(op) ==
  {pick \in [Span(op) -> {entry[2] : entry \in pendingOperations} \cup {NoOp}] :
     \A b \in Span(op) :
       IF pick[b] = NoOp
         THEN \A q \in Ops : <<b, q>> \in pendingOperations
                => ~CanRunOperation(q, MarkedBefore(op, pick, b))
         ELSE <<b, pick[b]>> \in pendingOperations
                /\ CanRunOperation(pick[b], MarkedBefore(op, pick, b))}

\* removeOperationInfo: the entry at the byte looked at is erased; if the id
\* read from it afterwards is garbage, the entries of later bytes stay.
Removed(q, b, freed) ==
  {<<c, q>> : c \in {d \in Span(q) : d <= b \/ freed = "intact"}}

\* The critical section of operationFinished, which is not aware of having
\* been through for the operation before.
OperationFinished(call) ==
  LET op == Op(call)
  IN  /\ pc[call] = "finishing"
      /\ mutex' = NoOp
      /\ callbacks' = callbacks \ {op}
      /\ \E pick \in Selections(op), freed \in FreedIds :
           LET found == {b \in Span(op) : pick[b] # NoOp}
               picked == {pick[b] : b \in found}
           IN  /\ operationRunning' =
                    (operationRunning \ Span(op)) \cup UNION {Span(q) : q \in picked}
               /\ pendingOperations' =
                    pendingOperations \ UNION {Removed(pick[b], b, freed) : b \in found}
               /\ runnableOperations' =
                    [runnableOperations EXCEPT ![call] = {<<b, pick[b]>> : b \in found}]
               /\ pc' = [o \in Calls |-> IF o = call THEN "starting"
                                         ELSE IF o \in picked /\ pc[o] = "pending"
                                           THEN "selected" ELSE pc[o]]
      /\ UNCHANGED <<nested, outcome, deviceVars, answerVars>>

\* Everything in the list has been run: the caller's callback is called.
Notify(call) ==
  /\ pc[call] = "starting"
  /\ runnableOperations[call] = {}
  /\ NestedReturned(call)
  /\ pc' = [pc EXCEPT ![call] = "done"]
  /\ UNCHANGED <<mutex, queueVars, finishVars, outcome, deviceVars, answerVars>>

-----------------------------------------------------------------------------
Run(op) == RunSubmitted(op) \/ RejectSubmitted(op) \/ ThrowSubmitted(op)

Answer(call) ==
  WriteUpdated(call) \/ UpdateThrows(call) \/ PerformWrite(call) \/ Succeed(call) \/ Fail(call)

Finish(call) ==
  \/ EnterFinished(call) \/ OperationFinished(call)
  \/ RunNext(call) \/ RejectNext(call) \/ ThrowNext(call) \/ Notify(call)

\* What becomes of an operation once it has been submitted.
Step(call) ==
  \/ call \in Ops /\ (Accept(call) \/ Run(call) \/ PerformRead(call))
  \/ Answer(call) \/ Finish(call)

\* What a delegate that is not steady does besides.
Disturb ==
  \/ \E call \in Repeats : RepeatFailure(call) \/ RepeatSuccess(call)
  \/ \E op \in Late : ReadLate(op) \/ WriteLate(op)

Next == (\E op \in Ops : Submit(op)) \/ (\E call \in Calls : Step(call)) \/ Disturb

Spec == Init /\ [][Next]_vars

\* Every thread inside the code keeps running, and the delegate answers each
\* request.  Nothing says that a caller submits an operation, or that anything
\* is called or executed once more.
Fairness == \A call \in Calls : WF_vars(Step(call))

FairSpec == Spec /\ Fairness
-----------------------------------------------------------------------------
(* Properties.                                                             *)

\* Operations whose bytes have been marked by markRunOperation and that have
\* not been through the unmarkRunOperation of operationFinished yet.
Active == {op \in Ops : pc[op] \in {"run", "selected", "reading", "read",
                                     "writing", "finish", "finishing"}}

\* Operations for which the delegate has done more than it is expected to, and
\* the bytes that have lost their protection by that.
Disturbed == late \cup {Repeated[call] : call \in {c \in Repeats : pc[c] # "new"}}

Exposed == UNION {Span(op) : op \in Disturbed}

(***************************************************************************)
(* Two operations that touch a common byte never run at the same time: the *)
(* greedy selection of operationFinished and the check of write... and     *)
(* update... together keep the running operations disjoint, also when they *)
(* differ in width and when the queue holds stale entries.  A further call *)
(* of a callback breaks this for the bytes of its operation, because       *)
(* operationFinished unmarks them although another operation may hold them *)
(* by then; the property says that it does so for no other byte.           *)
(***************************************************************************)
MutualExclusion ==
  \A op1, op2 \in Active : op1 # op2 => Span(op1) \cap Span(op2) \subseteq Exposed

(***************************************************************************)
(* Between the read and the write of an update the register keeps the      *)
(* value that was read, so that the write cannot undo another operation    *)
(* (the lost update that MrfConsistentMemoryAccess is there to prevent),   *)
(* except for the bytes of operations whose callback has been called once  *)
(* more or whose write was executed late.                                  *)
(***************************************************************************)
UpdateAtomic ==
  \A op \in Ops :
    /\ Kind[op] = "update"
    /\ pc[op] = "read" \/ (pc[op] = "writing" /\ <<op, "write">> \notin performed)
    => \A b \in Span(op) \ Exposed : memory[b] = snapshot[op][b]

(***************************************************************************)
(* operationRunning holds no bytes but those of active operations: no byte *)
(* stays blocked once operationFinished has released it.                   *)
(***************************************************************************)
NoStrandedMark == operationRunning \subseteq UNION {Span(op) : op \in Active}

(***************************************************************************)
(* An operation in the queue always touches a byte that an active one has  *)
(* marked, be callbacks called again or not.  prepareNextOperations only   *)
(* looks at the bytes of the operation that has just finished, so an       *)
(* operation that overlapped no active one would never be looked at again. *)
(***************************************************************************)
NoLostWakeup ==
  \A op \in Ops : pc[op] = "pending" =>
    /\ Entries(op) \subseteq pendingOperations
    /\ \E other \in Active : Span(op) \cap Span(other) \cap operationRunning # {}

(***************************************************************************)
(* The lookup of runOperation finds the callback: the "code should not     *)
(* throw" that the wrapping callbacks rely on when they discard exceptions *)
(* of operationFinished.                                                   *)
(***************************************************************************)
FinishedDoesNotThrow ==
  \A call \in Calls, next \in Ops, b \in Bytes : IsNext(call, b, next) => ~LookupThrows(next)

(***************************************************************************)
(* The queue implements AtomicRegisters for the operations to which the    *)
(* delegate is steady, on the registers that no other operation touches.   *)
(* An operation takes effect when the device executes its write; the       *)
(* callback's result counts from the moment the caller learns of it.       *)
(***************************************************************************)
Steady == Ops \ Unsteady

SafeBytes == Bytes \ UNION {Span(op) : op \in Unsteady}

AbstractState ==
  [op \in Steady |-> IF pc[op] \in {"new", "submitting"} THEN "new"
                     ELSE IF pc[op] = "done" THEN "done"
                     ELSE IF <<op, "write">> \in performed THEN "applied" ELSE "open"]

Abstract ==
  INSTANCE AtomicRegisters
    WITH Ops <- Steady,
         Bytes <- SafeBytes,
         state <- AbstractState,
         outcome <- [op \in Steady |-> IF pc[op] = "done" THEN outcome[op] ELSE "none"],
         memory <- [b \in SafeBytes |-> memory[b]]

(***************************************************************************)
(* Every operation is atomic, its callback is called exactly once and says *)
(* "success" only if it took effect, and every submitted operation has its *)
(* callback called eventually: no sequence of accepted, queued, rejected   *)
(* and failing operations leaves one behind.  It is promised to operations *)
(* whose requests are called back once and not executed late, which is all *)
(* of them with a memory-mapped delegate; with the UDP/IP one, the others  *)
(* neither get it nor take it from these, save on registers they touch.    *)
(***************************************************************************)
ImplementsAtomicRegisters == Abstract!FairSpec
=============================================================================
